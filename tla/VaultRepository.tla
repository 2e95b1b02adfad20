--------------------------- MODULE VaultRepository ---------------------------
(***************************************************************************)
(* One `VaultRepository` object (src/storage/repo.ts) over the profile's   *)
(* chrome.storage.local, which outlives it.                                *)
(*                                                                         *)
(* The object is single-threaded, so an action is the code between two     *)
(* awaits; whatever another handler does while one is suspended at an      *)
(* await is another action.  A handler that carries a value across an      *)
(* await carries it in its own record (mutation, rekey, replace, writer).  *)
(*                                                                         *)
(* Abstractions.  An item is a member of Values, its id a member of Ids.   *)
(* Sealing is injective and the bucket tag is a keyed hash of the bucket's *)
(* plaintext, so a sealed bucket and its tag are both that plaintext; a    *)
(* bucket that is not stored, which the header lists with parts = 0, is    *)
(* the empty payload.  A wrapped DEK is the password that unwraps it.      *)
(* Clocks, device labels and the search index are left out.                *)
(***************************************************************************)
EXTENDS Naturals, Sequences

CONSTANTS
    Ids,            \* item ids
    Buckets,        \* bucket indices, bucketCount of them
    BucketOf,       \* bucketOf(id, bucketCount), a hash
    SettingsBucket, \* SETTINGS_BUCKET, the bucket that carries the settings
    Values,         \* what an item can hold
    Tombstone,      \* the value of a deleted item
    Absent,         \* no item under this id
    Settings,       \* synced settings records
    NoSettings,     \* EMPTY_SYNCED_SETTINGS
    Passwords,      \* master passwords
    Null,           \* JavaScript's null
    Pulled,         \* item maps a sync or an adoption may bring
    PulledRevs,     \* revisions such a map's header may carry
    MaxEvents       \* bound: calls, locks, deaths and failed writes

ItemMaps == [Ids -> Values \cup {Absent}]

(* BucketPayload in vault/types.ts, and at the same time its tag.          *)
Payloads == [items : ItemMaps, settings : Settings]
Tables == [Buckets -> Payloads]

(* The part of VaultHeader the code below reads or writes.                 *)
Headers == [rev : Nat, tags : Tables, password : Passwords]

ASSUME ConstantsAssumption ==
    /\ BucketOf \in [Ids -> Buckets]
    /\ SettingsBucket \in Buckets
    /\ Tombstone \in Values
    /\ Absent \notin Values
    /\ NoSettings \in Settings
    /\ Passwords # {}
    /\ Pulled \subseteq ItemMaps
    /\ PulledRevs \subseteq Nat
    /\ MaxEvents \in Nat

ASSUME NullAssumption == Null \notin Headers

VARIABLES
    storedHeader,   \* vm.header in chrome.storage.local, or Null
    storedBuckets,  \* the sealed buckets in chrome.storage.local
    phase,          \* "locked", "opening", "adopting" or "unlocked"
    header,         \* #header
    items,          \* #items
    settings,       \* #settings
    known,          \* the keys of #bucketByItem
    dirty,          \* #dirtyBuckets
    headerDirty,    \* #headerDirty
    timer,          \* #timer # null: the 300 ms coalescer is armed
    deferred,       \* #deferredError # null
    queue,          \* flush() calls chained on #flushing, by caller
    writer,         \* the #writePending that is running
    mutation,       \* the #applyNow that is running (#writes lets in one)
    rekey,          \* the changePassword() that is running
    replace,        \* the replaceAll() that is running
    locking,        \* how far a lock({ flush: true }) is
    stale,          \* history: a commit put back a bucket table it had read
                    \* before a write replaced it
    failed,         \* history: the last write failed and none started since
    events          \* how many events MaxEvents counts so far

disk == <<storedHeader, storedBuckets>>
contents == <<items, settings, known>>
handlers == <<mutation, rekey, replace>>
history == <<stale, failed, events>>
vars == <<storedHeader, storedBuckets, phase, header, items, settings, known,
          dirty, headerDirty, timer, deferred, queue, writer, mutation, rekey,
          replace, locking, stale, failed, events>>

-----------------------------------------------------------------------------
(* Buckets and headers *)

NoItems == [i \in Ids |-> Absent]
EmptyPayload == [items |-> NoItems, settings |-> NoSettings]

(* The items of bucket b, and the settings if b is the one carrying them.  *)
Payload(b, its, sets) ==
    [items    |-> [i \in Ids |-> IF BucketOf[i] = b THEN its[i] ELSE Absent],
     settings |-> IF b = SettingsBucket THEN sets ELSE NoSettings]

Table(its, sets) == [b \in Buckets |-> Payload(b, its, sets)]

BucketsOf(ids) == {BucketOf[i] : i \in ids}

(* Every bucket the header lists as stored is there and hashes to its tag. *)
Opens(h, table) ==
    \A b \in Buckets : h.tags[b] # EmptyPayload => table[b] = h.tags[b]

(* What #open reads: a bucket listed with parts = 0 is not even fetched.   *)
ItemsIn(h, table) ==
    [i \in Ids |-> IF h.tags[BucketOf[i]] = EmptyPayload
                     THEN Absent ELSE table[BucketOf[i]].items[i]]
SettingsIn(h, table) ==
    IF h.tags[SettingsBucket] = EmptyPayload
      THEN NoSettings ELSE table[SettingsBucket].settings

-----------------------------------------------------------------------------
(* Handlers at rest, and the object before it holds a key *)

IdleWriter == [pc |-> "idle", caller |-> "call", header |-> Null, dirty |-> {},
               items |-> NoItems, settings |-> NoSettings]
IdleMutation == [pc |-> "idle", header |-> Null, todo |-> {}]
IdleRekey == [pc |-> "idle", header |-> Null, password |-> Null]
IdleReplace == [pc |-> "idle", header |-> Null, todo |-> {}]

(* What a fresh object holds, and what lock() leaves behind.  A handler    *)
(* still suspended on a locked object can reach storage no more: its next  *)
(* flush() finds no key.  Only a write already under way goes on.          *)
ForgetSecrets ==
    /\ phase' = "locked"
    /\ header' = Null
    /\ items' = NoItems
    /\ settings' = NoSettings
    /\ known' = {}
    /\ dirty' = {}
    /\ headerDirty' = FALSE
    /\ timer' = FALSE
    /\ deferred' = FALSE
    /\ queue' = <<>>
    /\ mutation' = IdleMutation
    /\ rekey' = IdleRekey
    /\ replace' = IdleReplace
    /\ locking' = "no"
    /\ stale' = FALSE
    /\ failed' = FALSE

Init ==
    /\ storedHeader = Null
    /\ storedBuckets = [b \in Buckets |-> EmptyPayload]
    /\ phase = "locked"
    /\ header = Null
    /\ items = NoItems
    /\ settings = NoSettings
    /\ known = {}
    /\ dirty = {}
    /\ headerDirty = FALSE
    /\ timer = FALSE
    /\ deferred = FALSE
    /\ queue = <<>>
    /\ writer = IdleWriter
    /\ mutation = IdleMutation
    /\ rekey = IdleRekey
    /\ replace = IdleReplace
    /\ locking = "no"
    /\ stale = FALSE
    /\ failed = FALSE
    /\ events = 0

(* An event the program does not bring about by itself.                    *)
Happens == events < MaxEvents /\ events' = events + 1

-----------------------------------------------------------------------------
(* flush() and the coalescing timer *)

(* Bug: flush() joins the write that is running instead of chaining one.   *)
FlushJoins(caller) ==
    /\ timer' = FALSE
    /\ queue' = IF writer.pc = "idle" THEN Append(queue, caller) ELSE queue

(* flush(): cancel the timer and chain one more #writePending.             *)
Flush(caller) ==
    /\ timer' = FALSE
    /\ queue' = Append(queue, caller)

(* The caller's await of flush() returns.  A deferred error is rethrown to *)
(* whoever awaited; the timer and lock() catch it and keep it.             *)
Resolve(caller) ==
    /\ deferred' = (deferred /\ caller \in {"timer", "lock"})
    /\ locking' = IF caller = "lock" /\ locking = "flushing"
                    THEN "flushed" ELSE locking
    /\ rekey' = IF caller = "rekey" THEN IdleRekey ELSE rekey
    /\ phase' = IF caller = "adopt" /\ phase = "adopting"
                  THEN "unlocked" ELSE phase

(* It throws instead: the timer and lock() turn that into a deferred error *)
Reject(caller) ==
    /\ deferred' = (deferred \/ caller \in {"timer", "lock"})
    /\ locking' = IF caller = "lock" /\ locking = "flushing"
                    THEN "flushed" ELSE locking
    /\ rekey' = IF caller = "rekey" THEN IdleRekey ELSE rekey

FlushNow ==
    /\ Happens
    /\ phase = "unlocked"
    /\ Flush("call")
    /\ UNCHANGED <<disk, phase, header, contents, dirty, headerDirty, deferred,
                   writer, handlers, locking, stale, failed>>

TimerFires ==
    /\ timer
    /\ Flush("timer")
    /\ UNCHANGED <<disk, phase, header, contents, dirty, headerDirty, deferred,
                   writer, handlers, locking, history>>

(* #throwDeferred: the next call does nothing but report the lost write.   *)
ThrowDeferred ==
    /\ Happens
    /\ phase = "unlocked"
    /\ deferred
    /\ deferred' = FALSE
    /\ UNCHANGED <<disk, phase, header, contents, dirty, headerDirty, timer,
                   queue, writer, handlers, locking, stale, failed>>

-----------------------------------------------------------------------------
(* #writePending and #writeBucketsAndHeader *)

Sealed(b) == Payload(b, writer.items, writer.settings)

(* Bug: a bucket that has become empty keeps its entry.                    *)
NextHeaderKeeps ==
    [writer.header EXCEPT !.tags =
        [b \in Buckets |-> IF b \in writer.dirty /\ Sealed(b) # EmptyPayload
                             THEN Sealed(b) ELSE writer.header.tags[b]]]

NextHeader ==
    [writer.header EXCEPT !.tags =
        [b \in Buckets |-> IF b \in writer.dirty THEN Sealed(b)
                                                 ELSE writer.header.tags[b]]]

(* `this.#header = next`: whatever was committed since WritePending read   *)
(* the header is replaced.  The object may have been locked meanwhile.     *)
TableCommits ==
    /\ header' = IF phase = "locked" THEN Null ELSE NextHeader
    /\ writer' = [writer EXCEPT !.pc = "header"]

(* Bug: buckets to remove, and the ones to set are passed over.            *)
AfterSealingRemoves(ds, its, sets) ==
    IF \E b \in ds : Payload(b, its, sets) = EmptyPayload THEN "remove"
    ELSE IF ds # {} THEN "set" ELSE "commit"

(* writeBuckets() is one storage.set of the buckets that hold something,   *)
(* then one storage.remove of those that no longer do; either may be       *)
(* missing.                                                                *)
AfterSealing(ds, its, sets) ==
    IF \E b \in ds : Payload(b, its, sets) # EmptyPayload THEN "set"
    ELSE IF ds # {} THEN "remove" ELSE "commit"

WriteNothing ==
    /\ writer.pc = "idle"
    /\ queue # <<>>
    /\ dirty = {}
    /\ ~headerDirty
    /\ queue' = Tail(queue)
    /\ Resolve(Head(queue))
    /\ UNCHANGED <<disk, header, contents, dirty, headerDirty, timer, writer,
                   mutation, replace, history>>

(* Header, dirty set and items are read in one go, before the first await. *)
WritePending ==
    /\ writer.pc = "idle"
    /\ queue # <<>>
    /\ dirty # {} \/ headerDirty
    /\ writer' = [pc |-> AfterSealing(dirty, items, settings),
                  caller |-> Head(queue), header |-> header, dirty |-> dirty,
                  items |-> items, settings |-> settings]
    /\ queue' = Tail(queue)
    /\ dirty' = {}
    /\ headerDirty' = FALSE
    /\ failed' = FALSE
    /\ UNCHANGED <<disk, phase, header, contents, timer, deferred, handlers,
                   locking, stale, events>>

StoreBuckets ==
    /\ writer.pc = "set"
    /\ storedBuckets' = [b \in Buckets |->
            IF b \in writer.dirty /\ Sealed(b) # EmptyPayload
              THEN Sealed(b) ELSE storedBuckets[b]]
    /\ IF \E b \in writer.dirty : Sealed(b) = EmptyPayload
         THEN /\ writer' = [writer EXCEPT !.pc = "remove"]
              /\ UNCHANGED header
         ELSE TableCommits
    /\ UNCHANGED <<storedHeader, phase, contents, dirty, headerDirty, timer,
                   deferred, queue, handlers, locking, history>>

RemoveBuckets ==
    /\ writer.pc = "remove"
    /\ storedBuckets' = [b \in Buckets |->
            IF b \in writer.dirty /\ Sealed(b) = EmptyPayload
              THEN EmptyPayload ELSE storedBuckets[b]]
    /\ TableCommits
    /\ UNCHANGED <<storedHeader, phase, contents, dirty, headerDirty, timer,
                   deferred, queue, handlers, locking, history>>

(* Only the header was dirty: nothing to seal.                             *)
WriteOnlyHeader ==
    /\ writer.pc = "commit"
    /\ TableCommits
    /\ UNCHANGED <<disk, phase, contents, dirty, headerDirty, timer, deferred,
                   queue, handlers, locking, history>>

StoreHeader ==
    /\ writer.pc = "header"
    /\ storedHeader' = NextHeader
    /\ writer' = IdleWriter
    /\ Resolve(writer.caller)
    /\ UNCHANGED <<storedBuckets, header, contents, dirty, headerDirty, timer,
                   queue, mutation, replace, history>>

(* A storage call rejects: what was being written is pending again.        *)
WriteFails ==
    /\ Happens
    /\ writer.pc \in {"set", "remove", "header"}
    /\ writer.caller # "adopt"
    /\ writer' = IdleWriter
    /\ IF phase = "locked"
         THEN UNCHANGED <<dirty, headerDirty, failed, deferred, locking, rekey>>
         ELSE /\ dirty' = dirty \cup writer.dirty
              /\ headerDirty' = TRUE
              /\ failed' = TRUE
              /\ Reject(writer.caller)
    /\ UNCHANGED <<disk, phase, header, contents, timer, queue, mutation,
                   replace, stale>>

(* The adopting unlock() rejects before the session holds the object.      *)
AdoptionFails ==
    /\ Happens
    /\ writer.pc \in {"set", "remove", "header"}
    /\ writer.caller = "adopt"
    /\ writer' = IdleWriter
    /\ ForgetSecrets
    /\ UNCHANGED disk

-----------------------------------------------------------------------------
(* apply(): one batch of mutations at a time, as the #writes chain has it *)

(* What one batch may do to the items it touches: add, edit, delete or     *)
(* restore.  An unchanged item is not in the batch's `changed`, and there  *)
(* is nothing to delete where there is no item.                            *)
Batches ==
    UNION {{batch \in [ids -> Values] :
               \A i \in ids : /\ batch[i] # items[i]
                              /\ items[i] = Absent => batch[i] # Tombstone}
           : ids \in SUBSET Ids \ {{}}}

After(its, batch) ==
    [i \in Ids |-> IF i \in DOMAIN batch THEN batch[i] ELSE its[i]]

(* `for (const item of result.changed)`: ids whose bucket is cached are    *)
(* passed over at once, the first that is not is awaited.  `rest` is what  *)
(* is left of the loop when it stops.                                      *)
StopsAt(rest, cached) == rest = {} \/ rest \ cached # {}

(* Bug: a change of the header alone is not marked for writing.            *)
CommitForgets(base) ==
    /\ header' = [base EXCEPT !.rev = base.rev + 1]
    /\ headerDirty' = headerDirty
    /\ stale' = (stale \/ header.tags # base.tags)

Commit(base) ==
    /\ header' = [base EXCEPT !.rev = base.rev + 1]
    /\ headerDirty' = TRUE
    /\ stale' = (stale \/ header.tags # base.tags)

ApplyNow ==
    /\ Happens
    /\ phase = "unlocked"
    /\ ~deferred
    /\ mutation.pc = "idle"
    /\ \E batch \in Batches : \E passed \in SUBSET (DOMAIN batch \cap known) :
        LET rest == DOMAIN batch \ passed
        IN  /\ StopsAt(rest, known)
            /\ items' = After(items, batch)
            /\ dirty' = dirty \cup BucketsOf(passed)
            /\ IF rest = {}
                 THEN /\ Commit(header)
                      /\ timer' = TRUE
                      /\ UNCHANGED mutation
                 ELSE /\ mutation' = [pc |-> "hashing", header |-> header,
                                      todo |-> rest]
                      /\ UNCHANGED <<header, headerDirty, stale, timer>>
    /\ UNCHANGED <<disk, phase, settings, known, deferred, queue, writer, rekey,
                   replace, locking, failed>>

(* bucketOf() answers for the id the loop stopped at, here any that is     *)
(* left.  The last answer commits the header as it was when the batch      *)
(* began.                                                                  *)
ApplyHashed ==
    /\ mutation.pc = "hashing"
    /\ \E i \in mutation.todo :
       \E passed \in SUBSET ((mutation.todo \ {i}) \cap known) :
        LET rest == mutation.todo \ (passed \cup {i})
        IN  /\ StopsAt(rest, known \cup {i})
            /\ known' = known \cup {i}
            /\ dirty' = dirty \cup BucketsOf(passed \cup {i})
            /\ IF rest = {}
                 THEN /\ Commit(mutation.header)
                      /\ timer' = TRUE
                      /\ mutation' = IdleMutation
                 ELSE /\ mutation' = [mutation EXCEPT !.todo = rest]
                      /\ UNCHANGED <<header, headerDirty, stale, timer>>
    /\ UNCHANGED <<disk, phase, items, settings, deferred, queue, writer, rekey,
                   replace, locking, failed, events>>

-----------------------------------------------------------------------------
(* Handlers outside the #writes chain *)

(* purge(): drop the tombstones that are past the TTL, whichever they are. *)
Purge ==
    /\ Happens
    /\ phase = "unlocked"
    /\ ~deferred
    /\ \E ids \in SUBSET {i \in Ids : items[i] = Tombstone} \ {{}} :
        /\ items' = [i \in Ids |-> IF i \in ids THEN Absent ELSE items[i]]
        /\ dirty' = dirty \cup BucketsOf(ids \cap known)
        /\ known' = known \ ids
    /\ Commit(header)
    /\ Flush("call")
    /\ UNCHANGED <<disk, phase, settings, deferred, writer, handlers, locking,
                   failed>>

SetSyncedSettings ==
    /\ Happens
    /\ phase = "unlocked"
    /\ ~deferred
    /\ settings' \in Settings \ {settings}
    /\ dirty' = dirty \cup {SettingsBucket}
    /\ Commit(header)
    /\ Flush("call")
    /\ UNCHANGED <<disk, phase, items, known, deferred, writer, handlers,
                   locking, failed>>

(* changePassword(): the header is read, then two key derivations go by.   *)
ChangePassword ==
    /\ Happens
    /\ phase = "unlocked"
    /\ ~deferred
    /\ rekey.pc = "idle"
    /\ \E password \in Passwords \ {header.password} :
        rekey' = [pc |-> "deriving", header |-> header, password |-> password]
    /\ UNCHANGED <<disk, phase, header, contents, dirty, headerDirty, timer,
                   deferred, queue, writer, mutation, replace, locking, stale,
                   failed>>

PasswordDerived ==
    /\ rekey.pc = "deriving"
    /\ Commit([rekey.header EXCEPT !.password = rekey.password])
    /\ rekey' = [rekey EXCEPT !.pc = "flushing"]
    /\ Flush("rekey")
    /\ UNCHANGED <<disk, phase, contents, dirty, deferred, writer, mutation,
                   replace, locking, failed, events>>

(* The header a merge or an adoption hands over: the remote's, or this     *)
(* device's own under the merged revision.                                 *)
HandedOver(its, sets) ==
    {[rev |-> rev, tags |-> tags, password |-> password] :
        rev \in PulledRevs, password \in Passwords,
        tags \in {Table(its, sets)} \cup
                 (IF header = Null THEN {} ELSE {header.tags})}

(* Bug: the bucket that carries the settings is forgotten.                 *)
ReplaceCommitsItems(h, caller) ==
    /\ header' = h
    /\ dirty' = Buckets \ {SettingsBucket}
    /\ headerDirty' = TRUE
    /\ replace' = IdleReplace
    /\ Flush(caller)

(* `this.#header = {...}`, every bucket dirty, and flush().                *)
ReplaceCommits(h, caller) ==
    /\ header' = h
    /\ dirty' = Buckets
    /\ headerDirty' = TRUE
    /\ replace' = IdleReplace
    /\ Flush(caller)

(* replaceAll(): the items and settings change at once, the header only    *)
(* after bucketOf() has answered for every item.                           *)
ReplaceAll ==
    /\ Happens
    /\ phase = "unlocked"
    /\ ~deferred
    /\ replace.pc = "idle"
    /\ items' \in Pulled
    /\ settings' \in Settings
    /\ known' = {}
    /\ \E h \in HandedOver(items', settings') :
        LET todo == {i \in Ids : items'[i] # Absent}
        IN  IF todo = {}
              THEN ReplaceCommits(h, "call")
              ELSE /\ replace' = [pc |-> "hashing", header |-> h, todo |-> todo]
                   /\ UNCHANGED <<header, dirty, headerDirty, timer, queue>>
    /\ UNCHANGED <<disk, phase, deferred, writer, mutation, rekey, locking,
                   stale, failed>>

ReplaceHashed ==
    /\ replace.pc = "hashing"
    /\ \E i \in replace.todo :
        /\ known' = known \cup {i}
        /\ IF replace.todo = {i}
             THEN ReplaceCommits(replace.header,
                                 IF phase = "adopting" THEN "adopt" ELSE "call")
             ELSE /\ replace' = [replace EXCEPT !.todo = @ \ {i}]
                  /\ UNCHANGED <<header, dirty, headerDirty, timer, queue>>
    /\ UNCHANGED <<disk, phase, items, settings, deferred, writer, mutation,
                   rekey, locking, history>>

-----------------------------------------------------------------------------
(* The object's life: create, unlock, adopt, lock, and the worker's death *)

(* Each of these starts a new object; at most one is in use at a time, and *)
(* deriving a key outlasts what a panic lock left being written.           *)
Fresh ==
    /\ phase = "locked"
    /\ writer.pc = "idle"

Create ==
    /\ Fresh
    /\ storedHeader = Null
    /\ \E password \in Passwords :
        header' = [rev |-> 1, tags |-> Table(NoItems, NoSettings),
                   password |-> password]
    /\ storedHeader' = header'
    /\ phase' = "unlocked"
    /\ UNCHANGED <<storedBuckets, contents, dirty, headerDirty, timer, deferred,
                   queue, writer, handlers, locking, history>>

(* The header is read before the key is derived and the buckets after it.  *)
UnlockReads ==
    /\ Fresh
    /\ storedHeader # Null
    /\ header' = storedHeader
    /\ phase' = "opening"
    /\ UNCHANGED <<disk, contents, dirty, headerDirty, timer, deferred, queue,
                   writer, handlers, locking, history>>

Open ==
    /\ phase = "opening"
    /\ Opens(header, storedBuckets)
    /\ phase' = "unlocked"
    /\ items' = ItemsIn(header, storedBuckets)
    /\ settings' = SettingsIn(header, storedBuckets)
    /\ known' = {i \in Ids : items'[i] # Absent}
    /\ UNCHANGED <<disk, header, dirty, headerDirty, timer, deferred, queue,
                   writer, handlers, locking, history>>

(* CorruptVaultError: one bucket that does not match its tag is enough.    *)
OpenRefused ==
    /\ phase = "opening"
    /\ ~Opens(header, storedBuckets)
    /\ ForgetSecrets
    /\ UNCHANGED <<disk, writer, events>>

(* adopt() on an empty profile, adoptOver() on any: the vault is decrypted *)
(* first, adoptOver() erases what is stored, then replaceAll() writes it.  *)
Adopt ==
    /\ Fresh
    /\ items' \in Pulled
    /\ settings' \in Settings
    /\ \/ storedHeader = Null /\ UNCHANGED disk
       \/ /\ storedHeader' = Null
          /\ storedBuckets' = [b \in Buckets |-> EmptyPayload]
    /\ phase' = "adopting"
    /\ \E h \in HandedOver(items', settings') :
        LET todo == {i \in Ids : items'[i] # Absent}
        IN  IF todo = {}
              THEN ReplaceCommits(h, "adopt")
              ELSE /\ header' = h
                   /\ replace' = [pc |-> "hashing", header |-> h, todo |-> todo]
                   /\ UNCHANGED <<dirty, headerDirty, timer, queue>>
    /\ UNCHANGED <<known, deferred, writer, mutation, rekey, locking, history>>

(* lock({ flush: true }): flush, and only when that returns forget.        *)
Lock ==
    /\ Happens
    /\ phase = "unlocked"
    /\ locking = "no"
    /\ locking' = "flushing"
    /\ Flush("lock")
    /\ UNCHANGED <<disk, phase, header, contents, dirty, headerDirty, deferred,
                   writer, handlers, stale, failed>>

LockForgets ==
    /\ locking = "flushed"
    /\ ForgetSecrets
    /\ UNCHANGED <<disk, writer, events>>

(* lock({ flush: false }): a panic lock forgets at once.                   *)
PanicLock ==
    /\ Happens
    /\ phase = "unlocked"
    /\ ForgetSecrets
    /\ UNCHANGED <<disk, writer>>

(* destroy(): forget, then clear chrome.storage.local.  A write that was   *)
(* already under way is not waited for.                                    *)
Destroy ==
    /\ Happens
    /\ phase = "unlocked"
    /\ ForgetSecrets
    /\ storedHeader' = Null
    /\ storedBuckets' = [b \in Buckets |-> EmptyPayload]
    /\ UNCHANGED writer

(* Chrome ends the service worker: what is stored is all that is left.     *)
WorkerDies ==
    /\ Happens
    /\ phase # "locked" \/ writer.pc # "idle"
    /\ ForgetSecrets
    /\ writer' = IdleWriter
    /\ UNCHANGED disk

-----------------------------------------------------------------------------
(* The specification *)

Write == \/ WriteNothing \/ WritePending \/ StoreBuckets \/ RemoveBuckets
         \/ WriteOnlyHeader \/ StoreHeader

Fail == WriteFails \/ AdoptionFails

Resume == ApplyHashed \/ PasswordDerived \/ ReplaceHashed

Call == \/ FlushNow \/ ThrowDeferred \/ ApplyNow \/ Purge \/ SetSyncedSettings
        \/ ChangePassword \/ ReplaceAll

Live == \/ Create \/ UnlockReads \/ Open \/ OpenRefused \/ Adopt
        \/ Lock \/ LockForgets \/ PanicLock \/ Destroy \/ WorkerDies

Next == TimerFires \/ Write \/ Fail \/ Resume \/ Call \/ Live

Spec == Init /\ [][Next]_vars

(* A promise that has been made settles: a timer fires, storage and crypto *)
(* answer, a lock that has flushed goes on.  Nobody has to call anything.  *)
Fairness ==
    /\ WF_vars(TimerFires)
    /\ WF_vars(Write)
    /\ WF_vars(Resume)
    /\ WF_vars(LockForgets)

FairSpec == Spec /\ Fairness

-----------------------------------------------------------------------------
(* What is checked and proved *)

Callers == {"call", "timer", "lock", "rekey", "adopt"}

Writers == [pc : {"idle", "set", "remove", "commit", "header"},
            caller : Callers, header : Headers \cup {Null},
            dirty : SUBSET Buckets, items : ItemMaps, settings : Settings]
Mutations == [pc : {"idle", "hashing"}, header : Headers \cup {Null},
              todo : SUBSET Ids]
Rekeys == [pc : {"idle", "deriving", "flushing"},
           header : Headers \cup {Null}, password : Passwords \cup {Null}]
Replaces == [pc : {"idle", "hashing"}, header : Headers \cup {Null},
             todo : SUBSET Ids]

(* Every variable has its type, and a handler its fields.                  *)
TypeOK ==
    /\ storedHeader \in Headers \cup {Null}
    /\ storedBuckets \in Tables
    /\ phase \in {"locked", "opening", "adopting", "unlocked"}
    /\ header \in Headers \cup {Null}
    /\ items \in ItemMaps
    /\ settings \in Settings
    /\ known \in SUBSET Ids
    /\ dirty \in SUBSET Buckets
    /\ headerDirty \in BOOLEAN
    /\ timer \in BOOLEAN
    /\ deferred \in BOOLEAN
    /\ queue \in Seq(Callers)
    /\ writer \in Writers
    /\ mutation \in Mutations
    /\ rekey \in Rekeys
    /\ replace \in Replaces
    /\ locking \in {"no", "flushing", "flushed"}
    /\ stale \in BOOLEAN
    /\ failed \in BOOLEAN
    /\ events \in Nat

Usable == phase \in {"adopting", "unlocked"}

(* Buckets that somebody is still going to write or to mark dirty.         *)
Pending ==
    dirty \cup writer.dirty \cup BucketsOf(mutation.todo)
          \cup (IF replace.pc = "idle" THEN {} ELSE Buckets)

(* No edit is stranded in memory: a bucket nobody is going to write holds, *)
(* in storage, exactly the items and settings memory has for it.  Edits    *)
(* land while a write seals, a write fails half-way, a merge replaces the  *)
(* items while a batch is hashing its ids (repo.ts, #writePending).        *)
NothingStranded ==
    Usable => \A b \in Buckets \ Pending :
                 LET now == Payload(b, items, settings)
                 IN  now # EmptyPayload => storedBuckets[b] = now

(* The bucket table in memory describes every bucket nobody is going to    *)
(* write, unless a commit put back a table it had read before a write      *)
(* replaced it (`stale`): the tags unlock() verifies come from this table. *)
TableDescribesItems ==
    Usable /\ ~stale => \A b \in Buckets \ Pending :
                           header.tags[b] = Payload(b, items, settings)

(* Whatever is dirty has somebody coming for it: the coalescing timer, a   *)
(* chained flush, or the handler that is still marking buckets - or the    *)
(* last write failed, and its caller was told.                             *)
PendingHasAWriter ==
    Usable /\ (dirty # {} \/ headerDirty) =>
        \/ timer
        \/ queue # <<>>
        \/ mutation.pc # "idle"
        \/ replace.pc # "idle"
        \/ failed

Quiet ==
    /\ phase = "unlocked"
    /\ writer.pc = "idle" /\ mutation.pc = "idle" /\ replace.pc = "idle"
    /\ dirty = {}
    /\ ~headerDirty

(* At rest nothing is only in memory: a worker killed now, and unlocked    *)
(* again from storage, finds the same items, the same settings and the     *)
(* same password.                                                          *)
QuietVaultReopens ==
    Quiet /\ ~stale =>
        /\ storedHeader = header
        /\ Opens(storedHeader, storedBuckets)
        /\ ItemsIn(storedHeader, storedBuckets) = items
        /\ SettingsIn(storedHeader, storedBuckets) = settings

(* Buckets before the header, always: when a header is stored, every       *)
(* bucket it lists is already in storage under the tag it lists.           *)
BucketsBeforeHeader ==
    [][ /\ storedHeader' # storedHeader
        /\ storedHeader' # Null
        /\ phase = "unlocked"
        /\ ~stale
        => Opens(storedHeader', storedBuckets) ]_vars

(* An accepted change is written without another call being made, unless   *)
(* the vault is locked, the worker dies or a write fails first.            *)
ChangesAreWritten ==
    phase = "unlocked" /\ headerDirty
        ~> \/ ~headerDirty /\ writer.pc = "idle"
           \/ phase # "unlocked"
           \/ failed

-----------------------------------------------------------------------------
(* What the comments promise and the code does not keep *)

(* A vault at rest can be unlocked again, whatever calls overlapped.       *)
(* changePassword() speaks of "no window in which the vault is             *)
(* half-converted"; apply() of calls that cannot overlap.                  *)
RestingVaultOpens == Quiet => Opens(storedHeader, storedBuckets)

(* When changePassword() returns, the new password is what unwraps the     *)
(* stored vault.                                                           *)
PasswordChangeSticks ==
    [][ /\ rekey.pc = "flushing"
        /\ rekey'.pc = "idle"
        /\ phase' = "unlocked"
        /\ ~failed'
        => storedHeader'.password = rekey.password ]_vars

(* When the flush of a lock has returned, every accepted change is stored  *)
(* or its failure is recorded: "losing the last thing a user typed to a    *)
(* lock timer is a bug".                                                   *)
LockKeepsEdits == locking = "flushed" /\ ~deferred => ~headerDirty
=============================================================================
