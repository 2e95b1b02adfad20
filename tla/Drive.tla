-------------------------------- MODULE Drive --------------------------------
(***************************************************************************)
(* The Google Drive provider (src/sync/drive/provider.ts), its requests    *)
(* (api.ts) and their authorization (auth.ts), on every device that syncs  *)
(* one vault through one account's Drive.                                  *)
(*                                                                         *)
(* A provider call is a chain of HTTP requests.  Each one is retried on a  *)
(* 5xx answer, refreshes its token once on a 401, and gives up when the    *)
(* network is down; the answer may be lost after Drive acted on it.  The   *)
(* calls of two devices interleave between requests.                       *)
(*                                                                         *)
(* Abstractions.  A vault is a number, new for every push: its revision    *)
(* and checksum, and the ETag Drive gives the file while it holds it.  The *)
(* folder is found or made by every call alike and is left out, with the   *)
(* account's name, the usage figures and the heavy tier.  A device is on   *)
(* the refresh-token route (mode "web"): on the other, Chrome keeps the    *)
(* grant.  A device makes one call at a time (the engine's single flight). *)
(***************************************************************************)
EXTENDS Naturals, FiniteSets, Sequences, SequencesExt

CONSTANTS
    Devices,        \* the devices signed into the account
    Null,           \* JavaScript's null
    ETags,          \* whether Drive answers a file's metadata with an ETag
    CreatesApart,   \* no two creates overlap, nor does one lose its answer
    MaxAttempts,    \* MAX_ATTEMPTS
    MaxPushes,      \* bound: pushes
    MaxRemovals,    \* bound: vault folders deleted
    MaxFaults,      \* bound: requests and answers lost
    MaxTroubles     \* bound: tokens expired, grants withdrawn, vaults locked

Vaults == 1 .. MaxPushes + 1
Files == 1 .. MaxPushes * MaxAttempts + 1

Calls == {"peek", "pull", "push", "deleteRemote"}
Requests == {"metadata", "search", "download", "create", "update", "remove"}

Ops == [call : Calls, req : Requests, file : Files \cup {Null},
        etag : Vaults \cup {Null}, expect : Vaults \cup {Null},
        vault : Vaults \cup {Null}, attempt : 1 .. MaxAttempts,
        refreshed : BOOLEAN]

(* A push in progress, as the other devices' pushes see it.                *)
Pending == [expect : Vaults \cup {Null}, vault : Vaults, done : BOOLEAN]

ASSUME DriveConstants ==
    /\ ETags \in BOOLEAN
    /\ CreatesApart \in BOOLEAN
    /\ MaxAttempts \in Nat \ {0}
    /\ {MaxPushes, MaxRemovals, MaxFaults, MaxTroubles} \subseteq Nat
    /\ Null \notin Nat /\ Null \notin {"good", "stale"}
    /\ Null \notin Ops /\ Null \notin Pending

VARIABLES
    content,    \* on Drive: the vault in each file, Null where there is none
    listed,     \* on Drive: the files, the last modified first
    made,       \* on Drive: how many files were ever made
    granted,    \* at Google, by device: whether its grant stands
    fileId,     \* by device: vm.drive's fileId
    refresh,    \* by device: whether vm.drive holds a refresh token
    token,      \* by device: the cached access token: Null, "good" or "stale"
    unlocked,   \* by device: whether there is a cipher
    known,      \* by device: the last stamp a call returned
    op,         \* by device: the call in progress, Null if none
    result,     \* by device: how its last call ended
    excused,    \* history: the devices whose access was taken from them
    written,    \* history: the vaults Drive stored
    pushes, removals, faults, troubles      \* what the bounds count

drive == <<content, listed, made>>
access == <<granted, refresh, token, unlocked, excused>>
counters == <<pushes, removals, faults, troubles>>
drives == <<content, listed, made, granted, fileId, refresh, token, unlocked, known,
          op, result, excused, written,
          pushes, removals, faults, troubles>>

Newest == IF listed = <<>> THEN Null ELSE listed[1]
VaultIn(f) == IF f = Null THEN Null ELSE content[f]

-----------------------------------------------------------------------------
(* Initial states: a vault that every device has seen, or none             *)

DriveInit ==
    /\ \/ /\ content = [f \in Files |-> IF f = 1 THEN MaxPushes + 1 ELSE Null]
          /\ listed = <<1>>
          /\ made = 1
          /\ known = [d \in Devices |-> MaxPushes + 1]
          /\ fileId = [d \in Devices |-> 1]
       \/ /\ content = [f \in Files |-> Null]
          /\ listed = <<>>
          /\ made = 0
          /\ known = [d \in Devices |-> Null]
          /\ fileId = [d \in Devices |-> Null]
    /\ granted = [d \in Devices |-> TRUE]
    /\ refresh = [d \in Devices |-> TRUE]
    /\ token = [d \in Devices |-> "good"]
    /\ unlocked = [d \in Devices |-> TRUE]
    /\ op = [d \in Devices |-> Null]
    /\ result = [d \in Devices |-> "none"]
    /\ excused = {}
    /\ written = {}
    /\ pushes = 0
    /\ removals = 0
    /\ faults = 0
    /\ troubles = 0

-----------------------------------------------------------------------------
(* Calls *)

(* #vaultFile(): by the id in the record where there is one, by name if    *)
(* not.  deleteRemote() goes for the folder.                               *)
FirstRequest(d, call) ==
    IF call = "deleteRemote" THEN "remove"
    ELSE IF fileId[d] # Null THEN "metadata"
    ELSE "search"

Begin(d, call, vault) ==
    /\ op[d] = Null
    /\ unlocked[d]
    /\ result' = [result EXCEPT ![d] = "none"]
    /\ op' = [op EXCEPT ![d] =
                [call |-> call, req |-> FirstRequest(d, call),
                 file |-> fileId[d], etag |-> Null, expect |-> known[d],
                 vault |-> vault, attempt |-> 1, refreshed |-> FALSE]]

Peek(d) ==
    /\ Begin(d, "peek", Null)
    /\ UNCHANGED <<drive, access, fileId, known, written, counters>>

PullLight(d) ==
    /\ Begin(d, "pull", Null)
    /\ UNCHANGED <<drive, access, fileId, known, written, counters>>

PushLight(d) ==
    /\ pushes < MaxPushes
    /\ pushes' = pushes + 1
    /\ Begin(d, "push", pushes')
    /\ UNCHANGED <<drive, access, fileId, known, written, removals, faults,
                   troubles>>

DeleteRemote(d) ==
    /\ removals < MaxRemovals
    /\ removals' = removals + 1
    /\ Begin(d, "deleteRemote", Null)
    /\ UNCHANGED <<drive, access, fileId, known, written, pushes, faults,
                   troubles>>

End(d, how) ==
    /\ op' = [op EXCEPT ![d] = Null]
    /\ result' = [result EXCEPT ![d] = how]

(* The call goes on with another request.                                  *)
Send(d, req, f, etag) ==
    /\ op' = [op EXCEPT ![d].req = req, ![d].file = f, ![d].etag = etag,
                        ![d].attempt = 1, ![d].refreshed = FALSE]
    /\ UNCHANGED result

-----------------------------------------------------------------------------
(* DriveAuth *)

Sending(d) == op[d] # Null /\ token[d] # Null

(* Bug: any failure to refresh drops the refresh token. *)
RefreshDropsOffline(d) ==
    /\ faults < MaxFaults
    /\ faults' = faults + 1
    /\ refresh' = [refresh EXCEPT ![d] = FALSE]
    /\ End(d, "offline")
    /\ UNCHANGED <<token, troubles>>

(* #postToken() without a network: the refresh token is kept.              *)
RefreshFails(d) ==
    /\ faults < MaxFaults
    /\ faults' = faults + 1
    /\ End(d, "offline")
    /\ UNCHANGED <<refresh, token, troubles>>

(* token(), with nothing in the cache: #acquireWeb(), not interactive.     *)
Acquire(d) ==
    /\ op[d] # Null
    /\ token[d] = Null
    /\ IF ~unlocked[d] \/ ~refresh[d]
         THEN /\ End(d, "auth")
              /\ UNCHANGED <<refresh, token, faults, troubles>>
         ELSE \/ /\ granted[d]
                 /\ token' = [token EXCEPT ![d] = "good"]
                 /\ UNCHANGED <<refresh, op, result, faults, troubles>>
              \/ /\ ~granted[d]
                 /\ refresh' = [refresh EXCEPT ![d] = FALSE]
                 /\ End(d, "auth")
                 /\ UNCHANGED <<token, faults, troubles>>
              \/ RefreshFails(d)
    /\ UNCHANGED <<drive, granted, fileId, unlocked, known, excused,
                   written, pushes, removals>>

(* A 401: the token is forgotten and acquired again, once per request.     *)
Rejected(d) ==
    /\ Sending(d)
    /\ token[d] = "stale"
    /\ IF op[d].refreshed
         THEN /\ End(d, "auth")
              /\ UNCHANGED token
         ELSE /\ token' = [token EXCEPT ![d] = Null]
              /\ op' = [op EXCEPT ![d].refreshed = TRUE,
                                  ![d].attempt = IF @ < MaxAttempts THEN @ + 1
                                                                    ELSE @]
              /\ UNCHANGED result
    /\ UNCHANGED <<drive, granted, fileId, refresh, unlocked, known,
                   excused, written, counters>>

(* The connect button: #authorize(), interactive.                          *)
Connect(d) ==
    /\ op[d] = Null
    /\ unlocked[d]
    /\ ~refresh[d]
    /\ granted' = [granted EXCEPT ![d] = TRUE]
    /\ refresh' = [refresh EXCEPT ![d] = TRUE]
    /\ token' = [token EXCEPT ![d] = "good"]
    /\ excused' = excused \ {d}
    /\ UNCHANGED <<drive, fileId, unlocked, known, op, result, written,
                   counters>>

(* disconnect(): the grant is handed back and the ids are forgotten; the   *)
(* files stay.  Without a network revoke() goes on all the same.           *)
Disconnect(d) ==
    /\ op[d] = Null
    /\ refresh[d]
    /\ troubles < MaxTroubles
    /\ troubles' = troubles + 1
    /\ \/ /\ token[d] # Null
          /\ granted' = [granted EXCEPT ![d] = FALSE]
       \/ UNCHANGED granted
    /\ token' = [token EXCEPT ![d] = Null]
    /\ refresh' = [refresh EXCEPT ![d] = FALSE]
    /\ fileId' = [fileId EXCEPT ![d] = Null]
    /\ known' = [known EXCEPT ![d] = Null]
    /\ excused' = excused \cup {d}
    /\ UNCHANGED <<drive, unlocked, op, result, written, pushes, removals,
                   faults>>

-----------------------------------------------------------------------------
(* Drive and the vault's session, while calls are in progress *)

Trouble ==
    /\ troubles < MaxTroubles
    /\ troubles' = troubles + 1

(* The access token runs out; it lives longer than a request.              *)
TokenExpires(d) ==
    /\ token[d] = "good"
    /\ op[d] # Null => ~op[d].refreshed
    /\ Trouble
    /\ token' = [token EXCEPT ![d] = "stale"]
    /\ UNCHANGED <<drive, granted, fileId, refresh, unlocked, known, op,
                   result, excused, written, pushes, removals, faults>>

(* The user withdraws the grant from the account's page.                   *)
Withdraw(d) ==
    /\ granted[d]
    /\ Trouble
    /\ granted' = [granted EXCEPT ![d] = FALSE]
    /\ token' = [token EXCEPT ![d] = IF @ = Null THEN Null ELSE "stale"]
    /\ excused' = excused \cup {d}
    /\ UNCHANGED <<drive, fileId, refresh, unlocked, known, op, result,
                   written, pushes, removals, faults>>

(* The vault locks, which empties the session area, and unlocks.           *)
Lock(d) ==
    /\ unlocked[d]
    /\ Trouble
    /\ unlocked' = [unlocked EXCEPT ![d] = FALSE]
    /\ token' = [token EXCEPT ![d] = Null]
    /\ excused' = IF op[d] = Null THEN excused ELSE excused \cup {d}
    /\ UNCHANGED <<drive, granted, fileId, refresh, known, op, result,
                   written, pushes, removals, faults>>

Unlock(d) ==
    /\ ~unlocked[d]
    /\ op[d] = Null
    /\ unlocked' = [unlocked EXCEPT ![d] = TRUE]
    /\ excused' = IF granted[d] /\ refresh[d] THEN excused \ {d} ELSE excused
    /\ UNCHANGED <<drive, granted, fileId, refresh, token, known, op,
                   result, written, counters>>

-----------------------------------------------------------------------------
(* What Drive does with a request *)

(* What CreatesApart assumes: no device finds no vault while another is    *)
(* about to create one.                                                    *)
CreateIsAlone(d) ==
    CreatesApart /\ op[d].call = "push" /\ op[d].req = "search" =>
        \A e \in Devices : op[e] # Null => op[e].req # "create"

ToFront(f) ==
    IF Newest = f THEN listed ELSE <<f>> \o SelectSeq(listed, LAMBDA g : g # f)

MeetsAnything(d) == TRUE                               (* Bug: no If-Match *)

(* The update goes through if the file is there and still has the ETag.    *)
Meets(d) == op[d].etag \in {Null, content[op[d].file]}

Write(d) ==
    IF content[op[d].file] # Null /\ Meets(d)
    THEN /\ content' = [content EXCEPT ![op[d].file] = op[d].vault]
         /\ listed' = ToFront(op[d].file)
         /\ UNCHANGED made
    ELSE UNCHANGED drive

Create(d) ==
    /\ made' = made + 1
    /\ content' = [content EXCEPT ![made'] = op[d].vault]
    /\ listed' = <<made'>> \o listed

RemoveAll ==
    /\ content' = [f \in Files |-> Null]
    /\ listed' = <<>>
    /\ UNCHANGED made

Act(d) ==
    CASE op[d].req = "update" -> Write(d)
      [] op[d].req = "create" -> Create(d)
      [] op[d].req = "remove" -> RemoveAll
      [] OTHER                -> UNCHANGED drive

Remembers(d) ==
    written' = IF content' # content /\ op[d].req # "remove"
               THEN written \cup {op[d].vault} ELSE written

-----------------------------------------------------------------------------
(* What the provider does with the answer *)

(* #vaultFile() has answered: peek() is done, pullLight() downloads and    *)
(* pushLight() compares the stamp with the one its caller worked from.     *)
Located(d, f, etag) ==
    CASE op[d].call = "pull" /\ f # Null ->
            Send(d, "download", f, Null) /\ UNCHANGED known
      [] op[d].call = "push" /\ VaultIn(f) = op[d].expect ->
            /\ Send(d, IF f = Null THEN "create" ELSE "update", f, etag)
            /\ UNCHANGED known
      [] OTHER ->
            /\ End(d, IF op[d].call = "push" THEN "precondition" ELSE "ok")
            /\ known' = [known EXCEPT ![d] = VaultIn(f)]

(* The file under the cached id; a 404 falls through to the search.        *)
GotMetadata(d) ==
    LET f == op[d].file IN
    IF content[f] = Null
    THEN /\ fileId' = [fileId EXCEPT ![d] = Null]
         /\ Send(d, "search", Null, Null)
         /\ UNCHANGED known
    ELSE /\ Located(d, f, IF ETags THEN content[f] ELSE Null)
         /\ UNCHANGED fileId

(* list() reads the answer's body only: a file found so has no ETag.       *)
GotList(d) ==
    /\ fileId' = IF Newest = Null THEN fileId
                                  ELSE [fileId EXCEPT ![d] = Newest]
    /\ Located(d, Newest, Null)

GotBytes(d) ==
    /\ End(d, "ok")
    /\ known' = [known EXCEPT ![d] = content[op[d].file]]
    /\ UNCHANGED fileId

(* The answer to an update: 404, 412, or the file as it is now.            *)
GotUpdated(d) ==
    IF content[op[d].file] # Null /\ Meets(d)
    THEN /\ End(d, "ok")
         /\ known' = [known EXCEPT ![d] = op[d].vault]
         /\ fileId' = [fileId EXCEPT ![d] = op[d].file]
    ELSE /\ End(d, IF content[op[d].file] = Null THEN "gone" ELSE "precondition")
         /\ UNCHANGED <<known, fileId>>

GotCreated(d) ==
    /\ End(d, "ok")
    /\ known' = [known EXCEPT ![d] = op[d].vault]
    /\ fileId' = [fileId EXCEPT ![d] = made + 1]

(* Gone already is as good as removed.                                     *)
GotRemoved(d) ==
    /\ End(d, "ok")
    /\ fileId' = [fileId EXCEPT ![d] = Null]
    /\ UNCHANGED known

Answer(d) ==
    CASE op[d].req = "metadata" -> GotMetadata(d)
      [] op[d].req = "search"   -> GotList(d)
      [] op[d].req = "download" -> GotBytes(d)
      [] op[d].req = "update"   -> GotUpdated(d)
      [] op[d].req = "create"   -> GotCreated(d)
      [] op[d].req = "remove"   -> GotRemoved(d)

Served(d) ==
    /\ Sending(d)
    /\ token[d] = "good"
    /\ CreateIsAlone(d)
    /\ Act(d)
    /\ Remembers(d)
    /\ Answer(d)
    /\ UNCHANGED <<access, counters>>

(* A 5xx is retried until the attempts run out; no network ends the call.  *)
Retry(d) ==
    IF op[d].attempt < MaxAttempts
    THEN /\ op' = [op EXCEPT ![d].attempt = @ + 1]
         /\ UNCHANGED result
    ELSE End(d, "rate")

GoesAstray(d) ==
    /\ Sending(d)
    /\ faults < MaxFaults
    /\ faults' = faults + 1
    /\ Retry(d) \/ End(d, "offline")

RequestLost(d) ==
    /\ GoesAstray(d)
    /\ UNCHANGED <<drive, access, fileId, known, written, pushes, removals,
                   troubles>>

(* Drive acts on the request and the answer is lost.                       *)
AnswerLost(d) ==
    /\ GoesAstray(d)
    /\ token[d] = "good"
    /\ op[d].req \in {"update", "create", "remove"}
    /\ ~(CreatesApart /\ op[d].req = "create")
    /\ Act(d)
    /\ Remembers(d)
    /\ UNCHANGED <<access, fileId, known, pushes, removals, troubles>>

Program(d) == Served(d) \/ Rejected(d) \/ Acquire(d)

DriveNext ==
    \E d \in Devices :
        \/ Peek(d) \/ PullLight(d) \/ PushLight(d) \/ DeleteRemote(d)
        \/ Program(d) \/ RequestLost(d) \/ AnswerLost(d)
        \/ Connect(d) \/ Disconnect(d)
        \/ TokenExpires(d) \/ Withdraw(d) \/ Lock(d) \/ Unlock(d)

DriveSpec == DriveInit /\ [][DriveNext]_drives

-----------------------------------------------------------------------------
(* Properties *)

(* Types: a record only has ids Drive gave out, and an update only goes to *)
(* a file the device has seen (#vaultFile).                                *)
DriveTypeOK ==
    /\ content \in [Files -> Vaults \cup {Null}]
    /\ \A i \in 1 .. Len(listed) : listed[i] \in Files
    /\ \A f \in Files : content[f] # Null <=> f \in ToSet(listed)
    /\ made \in 0 .. Cardinality(Files)
    /\ fileId \in [Devices -> (1 .. made) \cup {Null}]
    /\ granted \in [Devices -> BOOLEAN]
    /\ refresh \in [Devices -> BOOLEAN]
    /\ token \in [Devices -> {Null, "good", "stale"}]
    /\ unlocked \in [Devices -> BOOLEAN]
    /\ known \in [Devices -> Vaults \cup {Null}]
    /\ op \in [Devices -> Ops \cup {Null}]
    /\ excused \subseteq Devices
    /\ written \subseteq Vaults

(* The place a vault is kept in, as a device that looks it up sees it.     *)
Pushing(d) == op[d] # Null /\ op[d].call = "push"

Cell == INSTANCE VaultCell WITH
    remote <- VaultIn(Newest),
    push   <- [d \in Devices |->
                IF Pushing(d)
                THEN [expect |-> op[d].expect, vault |-> op[d].vault,
                      done |-> op[d].vault \in written]
                ELSE Null]

(* pushLight() is the compare-and-swap its interface asks for: a push      *)
(* replaces the vault it was told to expect or nothing, at most once       *)
(* through all its retries, and reports success only if it did.            *)
IsACell == Cell!Spec

(* A call asks the user to sign in again only if access was taken away: an *)
(* expired token, a lost answer or no network never costs the connection.  *)
AuthNeedsAReason ==
    [][\A d \in Devices :
        op[d] # Null /\ op'[d] = Null /\ result'[d] = "auth" => d \in excused]_drives
==============================================================================
