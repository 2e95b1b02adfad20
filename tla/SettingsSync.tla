---------------------------- MODULE SettingsSync ----------------------------
(***************************************************************************)
(* The settings that travel (src/vault/settings-sync.ts): the record in    *)
(* the vault with a stamp per field, the file vm.settings that the program *)
(* obeys, and the handlers that write both (updateSettings(), unlock() and *)
(* settingsArrived() of src/background/session.ts, adoptSettings() of      *)
(* src/sync/engine.ts).                                                    *)
(*                                                                         *)
(* The vault's items are left out; the remote vault is its record and the  *)
(* stamp of the push that wrote it.  A field's value is a number, compared *)
(* as the strings are.  Assumed: a computer's clock is ahead of every      *)
(* stamp it has heard of when its user changes that field.                 *)
(***************************************************************************)
EXTENDS Naturals

CONSTANTS Computers,
          Fields,        \* SYNCED_SETTING_KEYS
          Known,         \* [Computers -> values its build accepts], Default among them
          Default,
          Unset,         \* a field nobody has changed
          NoJob,
          MaxClock,      \* bound: how far the clocks run
          MaxPushed,     \* bound: pushes
          MaxChoices,    \* bound: changes of a setting
          MaxStops       \* bound: locks and deaths

LocalFiles == [Fields -> Nat]
Stamped == [v : Nat, at : Nat] \cup {Unset}
Records == [Fields -> Stamped]

Updates == [at : {"write", "stamp"}, previous : LocalFiles, next : LocalFiles]
Runs ==
    [at : {"read"}, settings : Records, push : BOOLEAN] \cup [at : {"write"}, next : LocalFiles, push : BOOLEAN]
        \cup [at : {"push"}]

ASSUME SettingsAssumption ==
    /\ Unset \notin [v : Nat, at : Nat]
    /\ \A c \in Computers : Default \in Known[c] /\ Known[c] \subseteq Nat
    /\ NoJob \notin Updates \cup Runs

VARIABLES file, record, unlocked, moved, seen, remote, update, run, clock, chosen, crossed, choices, stops

settingsSync == <<file, record, unlocked, moved, seen, remote, update, run, clock, chosen, crossed, choices, stops>>

EmptyRecord == [f \in Fields |-> Unset]

(***************************** the record **********************************)


StampSettings(rec, previous, next, now) ==
    [f \in Fields |-> IF next[f] = previous[f] THEN rec[f] ELSE [v |-> next[f], at |-> now]]

NewerField(a, b) ==
    IF a = Unset THEN b
    ELSE IF b = Unset THEN a
    ELSE IF a.at # b.at THEN (IF a.at > b.at THEN a ELSE b)
    ELSE IF a.v <= b.v THEN a ELSE b

MergeSyncedSettings(mine, theirs) == [f \in Fields |-> NewerField(mine[f], theirs[f])]

(* A value of another build's leaves the setting alone. *)
ApplySyncedSettings(c, local, rec) ==
    [f \in Fields |-> IF rec[f] # Unset /\ rec[f].v \in Known[c] THEN rec[f].v ELSE local[f]]

(***************************** actions *************************************)

SettingsSyncInit ==
    /\ file = [c \in Computers |-> [f \in Fields |-> Default]]
    /\ record = [c \in Computers |-> EmptyRecord]
    /\ unlocked = [c \in Computers |-> TRUE]
    /\ moved = [c \in Computers |-> FALSE]
    /\ seen = [c \in Computers |-> 0]
    /\ remote = [stamp |-> 0, settings |-> EmptyRecord]
    /\ update = [c \in Computers |-> NoJob]
    /\ run = [c \in Computers |-> NoJob]
    /\ clock = 1
    /\ chosen = [f \in Fields |-> {}]
    /\ crossed = [c \in Computers |-> FALSE]
    /\ choices = 0
    /\ stops = 0

SettingsTick ==
    /\ clock < MaxClock
    /\ clock' = clock + 1
    /\ UNCHANGED <<file, record, unlocked, moved, seen, remote, update,
                   run, chosen, crossed, choices, stops>>

Writing(job) == job # NoJob /\ job.at = "write"

Adopting(c) == run[c] # NoJob /\ run[c].at \in {"read", "write"}

(* updateSettings(): the patch of a page, over the file as it is now. *)
Patches(c) ==
    \E f \in Fields, v \in Known[c] :
        /\ choices < MaxChoices /\ choices' = choices + 1
        /\ unlocked[c] /\ update[c] = NoJob
        /\ v # file[c][f]
        /\ record[c][f] # Unset => record[c][f].at < clock
        /\ update' = [update EXCEPT ![c] = [at |-> "write", previous |-> file[c],
                                            next |-> [file[c] EXCEPT ![f] = v]]]
        /\ crossed' = [crossed EXCEPT ![c] = @ \/ Adopting(c)]
        /\ UNCHANGED <<file, record, unlocked, moved, seen, remote, run, clock, chosen, stops>>

WritesPatch(c) ==
    /\ Writing(update[c])
    /\ file' = [file EXCEPT ![c] = update[c].next]
    /\ update' = [update EXCEPT ![c].at = "stamp"]
    /\ UNCHANGED <<record, unlocked, moved, seen, remote, run, clock,
                   chosen, crossed, choices, stops>>

(* currentRepository(), then the record, which is read and set in one step. *)
StampsRecord(c) ==
    /\ update[c] # NoJob /\ update[c].at = "stamp"
    /\ \A f \in Fields : update[c].next[f] # update[c].previous[f] /\ record[c][f] # Unset
                             => record[c][f].at < clock
    /\ LET stamped == StampSettings(record[c], update[c].previous, update[c].next, clock)
       IN IF unlocked[c]
          THEN /\ record' = [record EXCEPT ![c] = stamped]
               /\ moved' = [moved EXCEPT ![c] = @ \/ stamped # record[c]]
               /\ chosen' = [f \in Fields |->
                                IF update[c].next[f] # update[c].previous[f]
                                THEN chosen[f] \cup {[v |-> update[c].next[f], at |-> clock]}
                                ELSE chosen[f]]
               /\ crossed' = crossed
          ELSE /\ UNCHANGED <<record, moved, chosen>>
               /\ crossed' = [crossed EXCEPT ![c] = TRUE]
    /\ update' = [update EXCEPT ![c] = NoJob]
    /\ UNCHANGED <<file, unlocked, seen, remote, run, clock, choices,
                   stops>>

(* reconcile(): the remote vault is pulled and opened, and the merge put in the vault. *)
Reconciles(c) ==
    /\ unlocked[c] /\ run[c] = NoJob
    /\ moved[c] \/ remote.stamp # seen[c]
    /\ LET merged == MergeSyncedSettings(record[c], remote.settings)
           same == remote.stamp # 0 /\ merged = remote.settings
       IN /\ record' = [record EXCEPT ![c] = merged]
          /\ moved' = [moved EXCEPT ![c] = @ /\ ~same]
          /\ seen' = [seen EXCEPT ![c] = IF same THEN remote.stamp ELSE @]
          /\ run' = [run EXCEPT ![c] =
                        IF merged # record[c] THEN [at |-> "read", settings |-> merged, push |-> ~same]
                        ELSE IF same THEN NoJob
                        ELSE [at |-> "push"]]
          /\ crossed' = [crossed EXCEPT ![c] = @ \/ (merged # record[c] /\ update[c] # NoJob)]
    /\ UNCHANGED <<file, unlocked, remote, update, clock, chosen, choices,
                   stops>>

(* adoptSettings() and the settingsArrived() behind it. *)
ReadsFile(c) ==
    /\ run[c] # NoJob /\ run[c].at = "read"
    /\ run' = [run EXCEPT ![c] = [at |-> "write", push |-> @.push,
                                  next |-> ApplySyncedSettings(c, file[c], @.settings)]]
    /\ UNCHANGED <<file, record, unlocked, moved, seen, remote, update,
                   clock, chosen, crossed, choices, stops>>

AdoptsSettings(c) ==
    /\ Writing(run[c])
    /\ file' = [file EXCEPT ![c] = run[c].next]
    /\ run' = [run EXCEPT ![c] = IF @.push THEN [at |-> "push"] ELSE NoJob]
    /\ UNCHANGED <<record, unlocked, moved, seen, remote, update, clock,
                   chosen, crossed, choices, stops>>

(* publish(): the vault is sealed as it is now, over whatever is there by now. *)
Publishes(c) ==
    /\ run[c] # NoJob /\ run[c].at = "push"
    /\ remote.stamp < MaxPushed
    /\ remote' = [stamp |-> remote.stamp + 1, settings |-> record[c]]
    /\ seen' = [seen EXCEPT ![c] = remote.stamp + 1]
    /\ moved' = [moved EXCEPT ![c] = FALSE]
    /\ run' = [run EXCEPT ![c] = NoJob]
    /\ UNCHANGED <<file, record, unlocked, update, clock, chosen, crossed,
                   choices, stops>>

(* A lock ends the run; a handler that has not stamped yet finds no repository. *)
LocksSettings(c) ==
    /\ stops < MaxStops /\ stops' = stops + 1
    /\ unlocked[c]
    /\ unlocked' = [unlocked EXCEPT ![c] = FALSE]
    /\ run' = [run EXCEPT ![c] = NoJob]
    /\ moved' = [moved EXCEPT ![c] = @ \/ run[c] # NoJob]
    /\ UNCHANGED <<file, record, seen, remote, update, clock, chosen,
                   crossed, choices>>

(* A bug: an unlock obeys the settings the lock found. *)
OwnSettings(c) == file[c]

(* adoptVaultSettings(): "the vault is the authority here". *)
VaultSettings(c) == ApplySyncedSettings(c, file[c], record[c])

UnlocksSettings(c) ==
    /\ ~unlocked[c] /\ update[c] = NoJob
    /\ unlocked' = [unlocked EXCEPT ![c] = TRUE]
    /\ file' = [file EXCEPT ![c] = VaultSettings(c)]
    /\ crossed' = [crossed EXCEPT ![c] = FALSE]
    /\ UNCHANGED <<record, moved, seen, remote, update, run, clock, chosen,
                   choices, stops>>

(* What was under way is not finished by the next worker. *)
SettingsWorkerDies(c) ==
    /\ stops < MaxStops /\ stops' = stops + 1
    /\ run[c] # NoJob \/ update[c] # NoJob
    /\ crossed' = [crossed EXCEPT ![c] = @ \/ Adopting(c) \/ update[c] # NoJob]
    /\ moved' = [moved EXCEPT ![c] = @ \/ run[c] # NoJob]
    /\ run' = [run EXCEPT ![c] = NoJob]
    /\ update' = [update EXCEPT ![c] = NoJob]
    /\ UNCHANGED <<file, record, unlocked, seen, remote, clock, chosen,
                   choices>>

SettingsSyncNext ==
    \/ SettingsTick
    \/ \E c \in Computers :
          \/ Patches(c) \/ WritesPatch(c) \/ StampsRecord(c)
          \/ Reconciles(c) \/ ReadsFile(c) \/ AdoptsSettings(c) \/ Publishes(c)
          \/ LocksSettings(c) \/ UnlocksSettings(c) \/ SettingsWorkerDies(c)

SettingsSyncSpec == SettingsSyncInit /\ [][SettingsSyncNext]_settingsSync

(***************************** properties **********************************)

InStep(c) == update[c] = NoJob /\ run[c] = NoJob /\ ~moved[c] /\ seen[c] = remote.stamp

(* "Last writer wins, per field": with every computer in step, each field   *)
(* holds a choice made somewhere, and none was newer; of two made at once   *)
(* all hold the same, and a setting nobody touched never outranks one       *)
(* (settings-sync.ts:21, :62).                                              *)
LatestChoiceWins ==
    (\A c \in Computers : InStep(c)) =>
        \A c \in Computers, f \in Fields :
            /\ record[c][f] \in chosen[f] \cup {Unset}
            /\ \A choice \in chosen[f] : NewerField(record[c][f], choice) = record[c][f]

(* "The vault is the authority here and the local file cannot be holding    *)
(* something newer" (session.ts:279): at rest the program obeys the vault's *)
(* record, unless two handlers wrote the file across each other.            *)
FileFollowsVault ==
    \A c \in Computers :
        (update[c] = NoJob /\ run[c] = NoJob /\ unlocked[c] /\ ~crossed[c])
            => file[c] = ApplySyncedSettings(c, file[c], record[c])

(* The settings that travel: both of the above.                             *)
SettingsHold == LatestChoiceWins /\ FileFollowsVault
=============================================================================
