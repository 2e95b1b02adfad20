----------------------------- MODULE SyncEngine -----------------------------
(***************************************************************************)
(* The sync engine (src/sync/engine.ts) of every device of one vault, over *)
(* the Chrome sync area they share (src/sync/chrome-provider.ts).          *)
(*                                                                         *)
(* A run is single-flight on its device: `run` is where it is between two  *)
(* awaits and what it carries.  Runs of two devices interleave at every    *)
(* storage call.  The sync area has no transaction: a push is a read, up   *)
(* to two writes of parts, a write of the header and a read.               *)
(*                                                                         *)
(* Abstractions.  A device's repository is taken as atomic and durable     *)
(* (module VaultRepository looks inside it).  An item has a few text       *)
(* fields, each given as the texts typed into it, one over the other: the  *)
(* last is what it reads.  No text is typed twice, so two fields read the  *)
(* same just when they are equal.  `at`, the last change, stands for rev,  *)
(* updatedAt and deletedAt.  A bucket is one part or none; its tag is its  *)
(* plaintext; the stamp of a header is the header.                         *)
(***************************************************************************)
EXTENDS Naturals, FiniteSets

CONSTANTS
    Devices,        \* the devices that share the vault
    Ids,            \* item ids
    Shared,         \* the ids every device holds at the start
    Fields,         \* the text fields of an item
    Buckets,        \* bucket indices
    BucketOf,       \* bucketOf(id, bucketCount)
    Absent,         \* no item under this id
    Null,           \* JavaScript's null
    Overlap,        \* whether runs of two devices may overlap
    MaxEdits,       \* bound: changes made to items
    MaxPurges,      \* bound: tombstones purged
    MaxPasswords,   \* bound: password changes
    MaxResolves,    \* bound: conflicts resolved
    MaxReplaces,    \* bound: remote vaults replaced
    MaxFaults,      \* bound: runs cut short, removals that fail
    MaxRev          \* bound: no sync is triggered from this vaultRev on

Texts == SUBSET (1 .. MaxEdits)
Values == [text : [Fields -> Texts], deleted : BOOLEAN,
           at : 0 .. MaxEdits + MaxResolves]
ItemMaps == [Ids -> Values \cup {Absent}]
Tables == [Buckets -> ItemMaps]

(* The part of a VaultHeader that sync reads.                              *)
Headers == [rev : Nat, by : Devices, tags : Tables, password : Nat]

(* The other side of each pending conflict, Null where there is none.      *)
Conflicts == [Ids -> Values \cup {Null}]

ASSUME SyncConstants ==
    /\ Shared \subseteq Ids
    /\ Fields # {}
    /\ BucketOf \in [Ids -> Buckets]
    /\ Overlap \in BOOLEAN
    /\ {MaxEdits, MaxPurges, MaxPasswords, MaxResolves, MaxReplaces, MaxFaults,
        MaxRev} \subseteq Nat
    /\ Absent \notin Values
    /\ Null \notin Values \cup Headers \cup ItemMaps

VARIABLES
    items,          \* by device: the vault's items
    rev,            \* by device: header.vaultRev
    password,       \* by device: the password header.wrappedDek opens under
    base,           \* by device: vm.base, the merge base, or Null
    meta,           \* by device: its lastSyncedRev and remoteHash, or Null
    conflicts,      \* by device: vm.conflicts
    run,            \* by device: the run in flight
    rerun,          \* by device: `rerun`
    lastError,      \* by device: lastError, as far as it is VAULT_MISMATCH
    remoteHeader,   \* vm.s.meta in the sync area, or Null
    remoteParts,    \* vm.s.b<i>.0 in the sync area
    typed,          \* history: the changes that were texts
    settled,        \* history: those a user gave up knowingly
    edits, purges, passwords, resolves, replaces, faults   \* what bounds count

local == <<items, rev, password>>
sync == <<base, meta, conflicts>>
engine == <<run, rerun, lastError>>
remote == <<remoteHeader, remoteParts>>
history == <<typed, settled>>
counters == <<edits, purges, passwords, resolves, replaces, faults>>
vars == <<items, rev, password, base, meta, conflicts, run, rerun, lastError,
          remoteHeader, remoteParts, typed, settled, edits, purges, passwords,
          resolves, replaces, faults>>

-----------------------------------------------------------------------------
(* Buckets *)

NoItems == [i \in Ids |-> Absent]

Payload(b, its) == [i \in Ids |-> IF BucketOf[i] = b THEN its[i] ELSE Absent]
Table(its) == [b \in Buckets |-> Payload(b, its)]

(* The items of a table, each taken from the bucket its id hashes to.      *)
ItemsIn(table) == [i \in Ids |-> table[BucketOf[i]][i]]

-----------------------------------------------------------------------------
TextIn(v, f) == IF v \in {Absent, Null} THEN {} ELSE v.text[f]
TextsIn(v) == UNION {TextIn(v, f) : f \in Fields}

(* merge(), as far as text fields and deletion show it *)

Edited(b, v) == b.text # v.text \/ b.deleted # v.deleted

JoinedTheirs(b, l, r) ==                               \* mutant of Joined
    [text    |-> [f \in Fields |->
                    IF b # Absent /\ r.text[f] = b.text[f] THEN l.text[f]
                                                          ELSE r.text[f]],
     deleted |-> l.deleted \/ r.deleted,
     at      |-> IF l.at > r.at THEN l.at ELSE r.at]

(* mergeFields(): a side that left a field alone takes the other's; where  *)
(* neither did, the field stays this device's.                             *)
Joined(b, l, r) ==
    [text    |-> [f \in Fields |->
                    IF b # Absent /\ l.text[f] = b.text[f] THEN r.text[f]
                                                          ELSE l.text[f]],
     deleted |-> l.deleted \/ r.deleted,
     at      |-> IF l.at > r.at THEN l.at ELSE r.at]

Clash(b, l, r) ==
    \E f \in Fields : /\ l.text[f] # r.text[f]
                      /\ b = Absent \/ b.text[f] \notin {l.text[f], r.text[f]}

(* bothPresent(): one side deleted what the other changed.                 *)
EditVsDelete(b, l, r) ==
    /\ l.deleted # r.deleted
    /\ b = Absent \/ Edited(b, IF l.deleted THEN r ELSE l)

(* mergeOne() where an item is missing on one side: purged there, unless   *)
(* the base never had it.                                                  *)
OneSided(b, v) ==
    IF v # Absent /\ (b = Absent \/ Edited(b, v)) THEN v ELSE Absent

MergeOne(b, l, r) ==
    CASE l = Absent -> OneSided(b, r)
      [] r = Absent -> OneSided(b, l)
      [] OTHER      -> IF EditVsDelete(b, l, r) THEN l ELSE Joined(b, l, r)

ConflictingOnDeletes(b, l, r) ==                  \* mutant of Conflicting
    l # Absent /\ r # Absent /\ EditVsDelete(b, l, r)

Conflicting(b, l, r) ==
    /\ l # Absent
    /\ r # Absent
    /\ EditVsDelete(b, l, r) \/ (l.deleted = r.deleted /\ Clash(b, l, r))

(* outboundView(): the other side is put back for every pending conflict.  *)
OutboundView(its, pending) ==
    [i \in Ids |-> IF pending[i] # Null THEN pending[i] ELSE its[i]]

-----------------------------------------------------------------------------
(* Initial states: the devices share a vault and are in sync *)

NoConflictsAbsent == [i \in Ids |-> Absent]       \* mutant of NoConflicts
NoConflicts == [i \in Ids |-> Null]

IdleRun == [pc |-> "idle", force |-> FALSE, fast |-> FALSE, stamp |-> Null,
            pending |-> NoConflicts, header |-> Null, sent |-> NoItems]

Original == [text |-> [f \in Fields |-> {}], deleted |-> FALSE, at |-> 0]
SharedItems == [i \in Ids |-> IF i \in Shared THEN Original ELSE Absent]

Init ==
    /\ items = [d \in Devices |-> SharedItems]
    /\ rev = [d \in Devices |-> 1]
    /\ password = [d \in Devices |-> 0]
    /\ \E d \in Devices :
        remoteHeader = [rev |-> 1, by |-> d, tags |-> Table(SharedItems),
                        password |-> 0]
    /\ remoteParts = Table(SharedItems)
    /\ base = [d \in Devices |-> SharedItems]
    /\ meta = [d \in Devices |-> [rev |-> 1, stamp |-> remoteHeader]]
    /\ conflicts = [d \in Devices |-> NoConflicts]
    /\ run = [d \in Devices |-> IdleRun]
    /\ rerun = [d \in Devices |-> FALSE]
    /\ lastError = [d \in Devices |-> "none"]
    /\ typed = {}
    /\ settled = {}
    /\ edits = 0
    /\ purges = 0
    /\ passwords = 0
    /\ resolves = 0
    /\ replaces = 0
    /\ faults = 0

-----------------------------------------------------------------------------
(* What users do *)

(* An item is added on one device: its id is new everywhere.               *)
New(i) ==
    /\ i \notin Shared
    /\ \A d \in Devices : items[d][i] = Absent /\ run[d].sent[i] = Absent
    /\ ItemsIn(remoteParts)[i] = Absent

Now == edits + resolves + 1

Edit(d) ==
    /\ edits < MaxEdits
    /\ edits' = edits + 1
    /\ \E i \in Ids :
        \/ /\ items[d][i] # Absent
           /\ items' = [items EXCEPT ![d][i].deleted = ~@, ![d][i].at = Now]
           /\ UNCHANGED typed
        \/ /\ items[d][i] # Absent
           /\ ~items[d][i].deleted
           /\ \E f \in Fields :
                items' = [items EXCEPT ![d][i].text[f] = @ \cup {edits'},
                                       ![d][i].at = Now]
           /\ typed' = typed \cup {edits'}
        \/ /\ New(i)
           /\ items' = [items EXCEPT ![d][i] =
                [text |-> [f \in Fields |-> {edits'}], deleted |-> FALSE,
                 at |-> Now]]
           /\ typed' = typed \cup {edits'}
    /\ rev' = [rev EXCEPT ![d] = @ + 1]
    /\ UNCHANGED <<password, sync, engine, remote, settled, purges, passwords,
                   resolves, replaces, faults>>

(* A tombstone past its time is dropped; the deletion may still be news to *)
(* another device.                                                         *)
Purge(d) ==
    /\ purges < MaxPurges
    /\ purges' = purges + 1
    /\ \E i \in Ids :
        /\ items[d][i] # Absent
        /\ items[d][i].deleted
        /\ items' = [items EXCEPT ![d][i] = Absent]
        /\ settled' = settled \cup TextsIn(items[d][i])
    /\ rev' = [rev EXCEPT ![d] = @ + 1]
    /\ UNCHANGED <<password, sync, engine, remote, typed, edits, passwords,
                   resolves, replaces, faults>>

ChangePassword(d) ==
    /\ passwords < MaxPasswords
    /\ passwords' = passwords + 1
    /\ password' = [password EXCEPT ![d] = passwords']
    /\ rev' = [rev EXCEPT ![d] = @ + 1]
    /\ UNCHANGED <<items, sync, engine, remote, history, edits, purges,
                   resolves, replaces, faults>>

-----------------------------------------------------------------------------
(* syncNow() *)

MayRun(d) == Overlap \/ \A e \in Devices \ {d} : run[e].pc = "idle"

(* Start a run, or ask the one in flight for another: with the options the *)
(* first caller gave.                                                      *)
SyncNow(d, force) ==
    IF run[d].pc = "idle"
      THEN /\ run' = [run EXCEPT ![d] = [IdleRun EXCEPT !.pc = "peek",
                                                        !.force = force]]
           /\ lastError' = [lastError EXCEPT ![d] = "none"]
           /\ UNCHANGED rerun
      ELSE /\ rerun' = [rerun EXCEPT ![d] = TRUE]
           /\ UNCHANGED <<run, lastError>>

(* A run is over: the next one starts if somebody asked meanwhile.         *)
EndRun(d, error) ==
    /\ run' = [run EXCEPT ![d] =
                IF rerun[d]
                  THEN [IdleRun EXCEPT !.pc = "peek", !.force = run[d].force]
                  ELSE IdleRun]
    /\ rerun' = [rerun EXCEPT ![d] = FALSE]
    /\ lastError' = [lastError EXCEPT ![d] = IF rerun[d] THEN "none" ELSE error]

Proceed(d, next) ==
    /\ run' = [run EXCEPT ![d] = next]
    /\ UNCHANGED <<rerun, lastError>>

(* The debounce, an alarm, a wake-up, a change of the sync area.           *)
Trigger(d) ==
    /\ MayRun(d)
    /\ rev[d] < MaxRev
    /\ ~rerun[d]
    /\ SyncNow(d, FALSE)
    /\ UNCHANGED <<local, sync, remote, history, counters>>

(* What "keep theirs" makes of this device's version.                       *)
Adopted(mine, theirs, n) ==
    IF mine.deleted = theirs.deleted /\ (mine.deleted \/ mine.text = theirs.text)
      THEN mine
    ELSE IF theirs.deleted THEN [mine EXCEPT !.deleted = TRUE, !.at = n]
    ELSE [theirs EXCEPT !.at = n]

(* What of two versions the answer does not keep, field by field.          *)
GivenUp(mine, theirs, answer) ==
    UNION {(TextIn(mine, f) \cup TextIn(theirs, f)) \ TextIn(answer, f) : f \in Fields}

(* resolve(): take the answer, drop the record, force a push.              *)
Resolve(d) ==
    /\ MayRun(d)
    /\ resolves < MaxResolves
    /\ resolves' = resolves + 1
    /\ \E i \in Ids :
        /\ conflicts[d][i] # Null
        /\ conflicts' = [conflicts EXCEPT ![d][i] = Null]
        /\ \/ UNCHANGED <<items, rev>>
           \/ /\ items[d][i] # Absent
              /\ items' = [items EXCEPT ![d][i] = Adopted(@, conflicts[d][i], Now)]
              /\ rev' = [rev EXCEPT ![d] = IF items' = items THEN @ ELSE @ + 1]
        /\ settled' = settled \cup GivenUp(items[d][i], conflicts[d][i], items'[d][i])
    /\ SyncNow(d, TRUE)
    /\ UNCHANGED <<password, base, meta, remote, typed, edits, purges, passwords,
                   replaces, faults>>

(* replaceRemoteVault(): the sync area is emptied, the base forgotten, and *)
(* this device's vault put there; or the removal fails, and only the base  *)
(* is forgotten.                                                           *)
ReplaceRemoteVault(d) ==
    /\ MayRun(d)
    /\ replaces < MaxReplaces
    /\ replaces' = replaces + 1
    /\ base' = [base EXCEPT ![d] = Null]
    /\ meta' = [meta EXCEPT ![d] = Null]
    /\ \/ /\ remoteHeader' = Null
          /\ remoteParts' = Table(NoItems)
          /\ SyncNow(d, TRUE)
          /\ UNCHANGED faults
       \/ /\ faults < MaxFaults
          /\ faults' = faults + 1
          /\ UNCHANGED <<remote, engine>>
    /\ UNCHANGED <<local, conflicts, history, edits, purges, passwords,
                   resolves>>

-----------------------------------------------------------------------------
(* run(): peek, and decide *)

PublishedMine(d, its, pending, number, expect) ==  \* mutant of Published
    [run[d] EXCEPT !.pc = "check", !.stamp = expect, !.pending = pending,
                   !.sent = its,
                   !.header = [rev |-> number, by |-> d,
                               tags |-> Table(OutboundView(its, pending)),
                               password |-> password[d]]]

(* publish() seals what goes out before its first await.                   *)
Published(d, its, pending, number, expect) ==
    LET out == OutboundView(its, pending)
    IN  [run[d] EXCEPT !.pc = "check", !.stamp = expect, !.pending = pending,
                       !.sent = out,
                       !.header = [rev |-> number, by |-> d, tags |-> Table(out),
                                   password |-> password[d]]]

PublishLocal(d, pending, expect) ==
    Published(d, items[d], pending, rev[d], expect)

RemoteMoved(d) == meta[d] = Null \/ meta[d].stamp # remoteHeader
LocalMoved(d) == meta[d] = Null \/ meta[d].rev # rev[d]

Peek(d) ==
    /\ run[d].pc = "peek"
    /\ IF remoteHeader = Null
         THEN Proceed(d, PublishLocal(d, conflicts[d], Null))
       ELSE IF RemoteMoved(d)
         THEN Proceed(d, [run[d] EXCEPT !.pc = "pull", !.pending = conflicts[d]])
       ELSE IF LocalMoved(d) \/ run[d].force
         THEN Proceed(d, [PublishLocal(d, conflicts[d], remoteHeader)
                            EXCEPT !.fast = TRUE])
       ELSE EndRun(d, "none")
    /\ UNCHANGED <<local, sync, remote, history, counters>>

-----------------------------------------------------------------------------
(* pushLight() *)

(* The parts a push writes and removes, by the tags of the header it found.*)
ChangedParts(new, old) ==
    {b \in Buckets : new.tags[b] # NoItems
                     /\ (old = Null \/ old.tags[b] # new.tags[b])}
ObsoleteParts(new, old) ==
    IF old = Null THEN {}
    ELSE {b \in Buckets : old.tags[b] # NoItems /\ new.tags[b] = NoItems}

(* PreconditionFailed: the first publish falls through to a merge.         *)
LostRace(d) ==
    IF run[d].fast
      THEN Proceed(d, [run[d] EXCEPT !.pc = "pull", !.fast = FALSE])
      ELSE EndRun(d, "none")

(* The stamp of what is there against the one expected; then the header    *)
(* found decides which parts to write.                                     *)
PushCheck(d) ==
    /\ run[d].pc = "check"
    /\ IF remoteHeader # run[d].stamp
         THEN LostRace(d)
         ELSE Proceed(d, [run[d] EXCEPT !.pc =
                 IF ChangedParts(run[d].header, remoteHeader) # {} THEN "set"
                 ELSE IF ObsoleteParts(run[d].header, remoteHeader) # {}
                   THEN "remove" ELSE "header"])
    /\ UNCHANGED <<local, sync, remote, history, counters>>

PushParts(d) ==
    /\ run[d].pc = "set"
    /\ remoteParts' = [b \in Buckets |->
            IF b \in ChangedParts(run[d].header, run[d].stamp)
              THEN run[d].header.tags[b] ELSE remoteParts[b]]
    /\ Proceed(d, [run[d] EXCEPT !.pc =
            IF ObsoleteParts(run[d].header, run[d].stamp) # {}
              THEN "remove" ELSE "header"])
    /\ UNCHANGED <<local, sync, remoteHeader, history, counters>>

RemoveParts(d) ==
    /\ run[d].pc = "remove"
    /\ remoteParts' = [b \in Buckets |->
            IF b \in ObsoleteParts(run[d].header, run[d].stamp)
              THEN NoItems ELSE remoteParts[b]]
    /\ Proceed(d, [run[d] EXCEPT !.pc = "header"])
    /\ UNCHANGED <<local, sync, remoteHeader, history, counters>>

PushHeader(d) ==
    /\ run[d].pc = "header"
    /\ remoteHeader' = run[d].header
    /\ Proceed(d, [run[d] EXCEPT !.pc = "verify"])
    /\ UNCHANGED <<local, sync, remoteParts, history, counters>>

(* The verification read.                                                  *)
PushVerify(d) ==
    /\ run[d].pc = "verify"
    /\ IF remoteHeader # run[d].header
         THEN LostRace(d)
         ELSE Proceed(d, [run[d] EXCEPT !.pc = "base", !.stamp = remoteHeader])
    /\ UNCHANGED <<local, sync, remote, history, counters>>

SaveBaseRevNow(d) ==                                \* mutant of SaveBase
    /\ run[d].pc = "base"
    /\ base' = [base EXCEPT ![d] = run[d].sent]
    /\ meta' = [meta EXCEPT ![d] = [rev |-> rev[d], stamp |-> run[d].stamp]]
    /\ EndRun(d, "none")
    /\ UNCHANGED <<local, conflicts, remote, history, counters>>

(* saveBase(): base and meta in one storage call.                          *)
SaveBase(d) ==
    /\ run[d].pc = "base"
    /\ base' = [base EXCEPT ![d] = run[d].sent]
    /\ meta' = [meta EXCEPT ![d] = [rev |-> run[d].header.rev,
                                    stamp |-> run[d].stamp]]
    /\ EndRun(d, "none")
    /\ UNCHANGED <<local, conflicts, remote, history, counters>>

-----------------------------------------------------------------------------
(* reconcile() *)

PullHeader(d) ==
    /\ run[d].pc = "pull"
    /\ IF remoteHeader = Null
         THEN Proceed(d, PublishLocal(d, run[d].pending, Null))
         ELSE Proceed(d, [run[d] EXCEPT !.pc = "parts", !.header = remoteHeader])
    /\ UNCHANGED <<local, sync, remote, history, counters>>

PartsMissing(d) ==
    \E b \in Buckets : run[d].header.tags[b] # NoItems /\ remoteParts[b] = NoItems
TagsMatch(d) ==
    \A b \in Buckets :
        run[d].header.tags[b] # NoItems => remoteParts[b] = run[d].header.tags[b]

(* CorruptRemote: this device's vault, as it is now, repairs the remote.   *)
(* VaultMismatch: the run ends with that error.                            *)
PullTorn(d) ==
    /\ run[d].pc = "parts"
    /\ \/ /\ PartsMissing(d)
          /\ Proceed(d, [PublishLocal(d, run[d].pending, Null)
                            EXCEPT !.pc = "repair"])
       \/ /\ ~PartsMissing(d)
          /\ ~TagsMatch(d)
          /\ EndRun(d, "mismatch")
    /\ UNCHANGED <<local, sync, remote, history, counters>>

(* mergeConflictSets(): a fresh conflict supersedes the pending one.       *)
Pending(b, l, r, pending) ==
    [i \in Ids |-> IF Conflicting(b[i], l[i], r[i]) THEN r[i] ELSE pending[i]]

(* adoptHeader(): the wrapped key of the side that is further along.       *)
AdoptedPassword(d) ==
    IF run[d].header.rev > rev[d] THEN run[d].header.password ELSE password[d]

NextRev(d) ==
    (IF run[d].header.rev > rev[d] THEN run[d].header.rev ELSE rev[d]) + 1

SameItems(out, theirs) == out = theirs

BaseItems(d) == IF base[d] = Null THEN NoItems ELSE base[d]

(* The merge replaces the local items at once.  If the remote already      *)
(* holds what would go out, its header is adopted, revision included.      *)
Merge(d) ==
    /\ run[d].pc = "parts"
    /\ ~PartsMissing(d)
    /\ TagsMatch(d)
    /\ LET theirs == ItemsIn(run[d].header.tags)
           merged == [i \in Ids |->
                        MergeOne(BaseItems(d)[i], items[d][i], theirs[i])]
           pending == Pending(BaseItems(d), items[d], theirs, run[d].pending)
           out == OutboundView(merged, pending)
           same == SameItems(out, theirs)
           number == IF same THEN run[d].header.rev ELSE NextRev(d)
           key == IF same THEN run[d].header.password ELSE AdoptedPassword(d)
       IN  /\ items' = [items EXCEPT ![d] = merged]
           /\ rev' = [rev EXCEPT ![d] = number]
           /\ password' = [password EXCEPT ![d] = key]
           /\ Proceed(d, [run[d] EXCEPT
                !.pc = IF same THEN "adopted" ELSE "merged",
                !.pending = pending, !.sent = out,
                !.header = [rev |-> number, by |-> d, tags |-> Table(out),
                            password |-> key]])
    /\ UNCHANGED <<sync, remote, history, counters>>

SaveConflicts(d) ==
    /\ run[d].pc \in {"adopted", "merged"}
    /\ conflicts' = [conflicts EXCEPT ![d] = run[d].pending]
    /\ Proceed(d, [run[d] EXCEPT !.pc =
            IF @ = "adopted" THEN "record" ELSE "repair"])
    /\ UNCHANGED <<local, base, meta, remote, history, counters>>

(* `await provider.peek()` after the pull, and only now: what a push will  *)
(* expect, or what the base will say the remote was.                       *)
PeekAgain(d) ==
    /\ run[d].pc \in {"record", "repair"}
    /\ Proceed(d, [run[d] EXCEPT
            !.pc = IF @ = "record" THEN "base" ELSE "check",
            !.stamp = remoteHeader,
            !.header.password = password[d]])
    /\ UNCHANGED <<local, sync, remote, history, counters>>

-----------------------------------------------------------------------------
(* A call rejects, and the run ends with an error; or Chrome ends the      *)
(* worker, and the request for another run is gone with it.                *)
RunStops(d) ==
    /\ faults < MaxFaults
    /\ faults' = faults + 1
    /\ run[d].pc # "idle"
    /\ \/ EndRun(d, "none")
       \/ /\ run' = [run EXCEPT ![d] = IdleRun]
          /\ rerun' = [rerun EXCEPT ![d] = FALSE]
          /\ lastError' = [lastError EXCEPT ![d] = "none"]
    /\ UNCHANGED <<local, sync, remote, history, edits, purges, passwords,
                   resolves, replaces>>

Step(d) ==
    \/ Peek(d) \/ PushCheck(d) \/ PushParts(d) \/ RemoveParts(d)
    \/ PushHeader(d) \/ PushVerify(d) \/ SaveBase(d)
    \/ PullHeader(d) \/ PullTorn(d) \/ Merge(d) \/ SaveConflicts(d)
    \/ PeekAgain(d)

User(d) ==
    \/ Edit(d) \/ Purge(d) \/ ChangePassword(d) \/ Resolve(d)
    \/ ReplaceRemoteVault(d)

Next == \E d \in Devices : Trigger(d) \/ Step(d) \/ User(d) \/ RunStops(d)

Spec == Init /\ [][Next]_vars

(* A run's calls answer.  Triggers recur: each local change arms the       *)
(* debounce, each change of the sync area and each wake-up probes.  But    *)
(* they do not come during every run for ever: a probe comes once a        *)
(* minute.                                                                 *)
Fairness ==
    \A d \in Devices : /\ WF_vars(Step(d))
                       /\ SF_vars(run[d].pc = "idle" /\ Trigger(d))
                       /\ []<>(run[d].pc = "idle")

FairSpec == Spec /\ Fairness

-----------------------------------------------------------------------------
(* What is checked and proved *)

Pcs == {"idle", "peek", "check", "set", "remove", "header", "verify", "base",
        "pull", "parts", "adopted", "merged", "record", "repair"}

Runs == [pc : Pcs, force : BOOLEAN, fast : BOOLEAN,
         stamp : Headers \cup {Null}, pending : Conflicts,
         header : Headers \cup {Null}, sent : ItemMaps]

Metas == [rev : Nat, stamp : Headers \cup {Null}]

(* Every variable has its type.                                            *)
TypeOK ==
    /\ items \in [Devices -> ItemMaps]
    /\ rev \in [Devices -> Nat]
    /\ password \in [Devices -> Nat]
    /\ base \in [Devices -> ItemMaps \cup {Null}]
    /\ meta \in [Devices -> Metas \cup {Null}]
    /\ conflicts \in [Devices -> Conflicts]
    /\ run \in [Devices -> Runs]
    /\ rerun \in [Devices -> BOOLEAN]
    /\ lastError \in [Devices -> {"none", "mismatch"}]
    /\ remoteHeader \in Headers \cup {Null}
    /\ remoteParts \in Tables
    /\ typed \in SUBSET (1 .. MaxEdits)
    /\ settled \in SUBSET (1 .. MaxEdits)
    /\ edits \in 0 .. MaxEdits
    /\ purges \in 0 .. MaxPurges
    /\ passwords \in 0 .. MaxPasswords
    /\ resolves \in 0 .. MaxResolves
    /\ replaces \in 0 .. MaxReplaces
    /\ faults \in 0 .. MaxFaults

(* The texts some device still has, in an item or in a conflict it shows   *)
(* or is about to show.                                                    *)
Kept ==
    UNION {TextsIn(items[d][i]) \cup TextsIn(conflicts[d][i])
               \cup TextsIn(run[d].pending[i]) : d \in Devices, i \in Ids}

(* No text is lost: each one typed anywhere is part of an item or of a     *)
(* pending conflict on some device, until a user purges or resolves it     *)
(* away.                                                                   *)
NoTextLost == typed \subseteq Kept \cup settled

(* The merge base is what the remote header describes, as long as this     *)
(* device takes the remote for unmoved: a merge against any other base     *)
(* would read the difference as somebody's change.                         *)
BaseIsRemote ==
    \A d \in Devices :
        remoteHeader # Null /\ ~RemoteMoved(d)
            => Table(base[d]) = remoteHeader.tags

Outbound(d) == OutboundView(items[d], conflicts[d])

(* A device with nothing to do, by its own reckoning, has its whole vault  *)
(* in the sync area, pending conflicts apart.  Not so after a resolution:  *)
(* that is what the forced push is for.                                    *)
CleanMeansPushed ==
    \A d \in Devices :
        (/\ run[d].pc = "idle" /\ resolves = 0
         /\ remoteHeader # Null /\ ~RemoteMoved(d) /\ ~LocalMoved(d))
            => Table(Outbound(d)) = remoteHeader.tags

(* The texts of a device that the remote it last agreed on does not have.  *)
Unpushed(d, i) == TextsIn(items[d][i]) \ TextsIn(BaseItems(d)[i])

(* No step of any device, however runs interleave and wherever they stop,  *)
(* takes a text off the device it was typed on before it was pushed.       *)
UnpushedTextsStay ==
    [][\A d \in Devices, i \in Ids :
         Unpushed(d, i) \subseteq TextsIn(items[d][i])' \cup settled']_vars

(* The devices settle: for good, each one's vault is the remote one, with  *)
(* the other side put back for every pending conflict.                     *)
Converge ==
    <>[](\A d \in Devices : Table(Outbound(d)) = remoteHeader.tags)

(* Nobody is told that the one shared vault is somebody else's.            *)
NoFalseMismatch == \A d \in Devices : lastError[d] # "mismatch"

(* A push leaves the other device's answer as it is in the sync area while *)
(* a conflict about it is pending.                                         *)
ConflictedItemsKeepTheirs ==
    [][\A d \in Devices, i \in Ids :
         PushHeader(d) /\ remoteHeader # Null /\ run[d].pending[i] # Null
           => ItemsIn(remoteHeader'.tags)[i] = ItemsIn(remoteHeader.tags)[i]]_vars

(* No device goes from a password back to one that was changed before it.  *)
PasswordNeverReverts ==
    [][\A d \in Devices : password'[d] >= password[d]]_vars
=============================================================================
