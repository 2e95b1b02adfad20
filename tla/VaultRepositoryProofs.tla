------------------------ MODULE VaultRepositoryProofs ------------------------
(* Invariants of VaultRepository for every set of ids, buckets, values and *)
(* passwords, and every bound.                                             *)
EXTENDS VaultRepository, TLAPS

(* An object that holds no key holds nothing else, and what a suspended    *)
(* handler carries across its await is a real header.                      *)
HandlersOK ==
    /\ phase = "locked" \/ header \in Headers
    /\ phase \in {"locked", "opening"} =>
         /\ dirty = {} /\ ~headerDirty /\ ~timer /\ queue = <<>>
         /\ mutation = IdleMutation
         /\ rekey = IdleRekey
         /\ replace = IdleReplace
    /\ phase = "locked" => locking = "no"
    /\ phase = "opening" => writer = IdleWriter /\ locking = "no"
    /\ IF writer.pc = "idle" THEN writer = IdleWriter
                             ELSE writer.header \in Headers
    /\ IF mutation.pc = "idle" THEN mutation = IdleMutation
                               ELSE mutation.header \in Headers
    /\ IF replace.pc = "idle" THEN replace = IdleReplace
                              ELSE replace.header \in Headers
    /\ rekey.pc = "deriving" => /\ rekey.header \in Headers
                                /\ rekey.password \in Passwords

Flags == /\ headerDirty \in BOOLEAN
         /\ timer \in BOOLEAN
         /\ deferred \in BOOLEAN
         /\ stale \in BOOLEAN
         /\ failed \in BOOLEAN

Sorts ==
    /\ storedHeader \in Headers \cup {Null}
    /\ storedBuckets \in Tables
    /\ phase \in {"locked", "opening", "adopting", "unlocked"}
    /\ header \in Headers \cup {Null}
    /\ items \in ItemMaps
    /\ settings \in Settings
    /\ known \in SUBSET Ids
    /\ dirty \in SUBSET Buckets
    /\ queue \in Seq(Callers)
    /\ writer \in Writers
    /\ mutation \in Mutations
    /\ rekey \in Rekeys
    /\ replace \in Replaces
    /\ locking \in {"no", "flushing", "flushed"}
    /\ events \in Nat

TypeInv == Flags /\ Sorts /\ HandlersOK

LEMMA TypeInvImplies == TypeInv => TypeOK
  BY DEF TypeInv, Flags, Sorts, TypeOK

LEMMA PayloadType ==
    ASSUME NEW b \in Buckets, NEW its \in ItemMaps, NEW sets \in Settings
    PROVE  Payload(b, its, sets) \in Payloads
  BY ConstantsAssumption DEF Payload, Payloads, ItemMaps

LEMMA TableType ==
    ASSUME NEW its \in ItemMaps, NEW sets \in Settings
    PROVE  Table(its, sets) \in Tables
  BY PayloadType DEF Table, Tables

LEMMA EmptyType == NoItems \in ItemMaps /\ EmptyPayload \in Payloads
  BY ConstantsAssumption DEF NoItems, EmptyPayload, Payloads, ItemMaps

LEMMA IdleType ==
    /\ IdleWriter \in Writers
    /\ IdleMutation \in Mutations
    /\ IdleRekey \in Rekeys
    /\ IdleReplace \in Replaces
  BY EmptyType, ConstantsAssumption
     DEF IdleWriter, IdleMutation, IdleRekey, IdleReplace,
         Writers, Mutations, Rekeys, Replaces, Callers

LEMMA IdlePc ==
    /\ IdleWriter.pc = "idle"
    /\ IdleMutation.pc = "idle"
    /\ IdleReplace.pc = "idle"
    /\ IdleRekey.pc = "idle"
  BY DEF IdleWriter, IdleMutation, IdleRekey, IdleReplace

LEMMA TypeInit == Init => TypeInv
  <1>1. Init => Flags
    BY DEF Init, Flags
  <1>2. [b \in Buckets |-> EmptyPayload] \in Tables
    BY EmptyType DEF Tables
  <1>3. Init => Sorts
    BY <1>2, EmptyType, IdleType, ConstantsAssumption DEF Init, Sorts
  <1>4. Init => HandlersOK
    BY IdlePc DEF Init, HandlersOK
  <1> QED
    BY <1>1, <1>3, <1>4 DEF TypeInv

LEMMA ForgetType ==
    ASSUME TypeInv, ForgetSecrets, storedHeader' \in Headers \cup {Null},
           storedBuckets' \in Tables, events' \in Nat,
           writer' = IdleWriter \/ writer' = writer
    PROVE  TypeInv'
  <1>1. /\ writer' \in Writers
        /\ IF writer'.pc = "idle" THEN writer' = IdleWriter
                                  ELSE writer'.header \in Headers
    BY IdleType, IdlePc DEF TypeInv, Sorts, HandlersOK
  <1>2. Flags'
    BY DEF ForgetSecrets, Flags
  <1>3. Sorts'
    BY <1>1, EmptyType, IdleType, ConstantsAssumption DEF ForgetSecrets, Sorts
  <1>4. HandlersOK'
    BY <1>1, IdlePc DEF ForgetSecrets, HandlersOK
  <1> QED
    BY <1>2, <1>3, <1>4 DEF TypeInv

LEMMA FlagsStep ==
    ASSUME TypeInv, Next
    PROVE  Flags'
  <1>1. CASE FlushNow
    BY <1>1 DEF FlushNow, Flush, Happens, TypeInv, Flags, disk, contents,
       handlers, history
  <1>2. CASE TimerFires
    BY <1>2 DEF TimerFires, Flush, TypeInv, Flags, disk, contents, handlers,
       history
  <1>3. CASE ThrowDeferred
    BY <1>3 DEF ThrowDeferred, Happens, TypeInv, Flags, disk, contents,
       handlers, history
  <1>4. CASE WriteNothing
    BY <1>4 DEF WriteNothing, Resolve, TypeInv, Flags, disk, contents,
       handlers, history
  <1>5. CASE WritePending
    BY <1>5 DEF WritePending, AfterSealing, TypeInv, Flags, disk, contents,
       handlers, history
  <1>6. CASE StoreBuckets
    BY <1>6 DEF StoreBuckets, TableCommits, TypeInv, Flags, disk, contents,
       handlers, history
  <1>7. CASE RemoveBuckets
    BY <1>7 DEF RemoveBuckets, TableCommits, TypeInv, Flags, disk, contents,
       handlers, history
  <1>8. CASE WriteOnlyHeader
    BY <1>8 DEF WriteOnlyHeader, TableCommits, TypeInv, Flags, disk, contents,
       handlers, history
  <1>9. CASE StoreHeader
    BY <1>9 DEF StoreHeader, Resolve, TypeInv, Flags, disk, contents, handlers,
       history
  <1>10. CASE WriteFails
    BY <1>10 DEF WriteFails, Reject, Happens, TypeInv, Flags, disk, contents,
       handlers, history
  <1>11. CASE ApplyNow
    BY <1>11 DEF ApplyNow, Commit, Happens, TypeInv, Flags, disk, contents,
       handlers, history
  <1>12. CASE ApplyHashed
    BY <1>12 DEF ApplyHashed, Commit, TypeInv, Flags, disk, contents, handlers,
       history
  <1>13. CASE Purge
    BY <1>13 DEF Purge, Commit, Flush, Happens, TypeInv, Flags, disk, contents,
       handlers, history
  <1>14. CASE SetSyncedSettings
    BY <1>14 DEF SetSyncedSettings, Commit, Flush, Happens, TypeInv, Flags,
       disk, contents, handlers, history
  <1>15. CASE ChangePassword
    BY <1>15 DEF ChangePassword, Happens, TypeInv, Flags, disk, contents,
       handlers, history
  <1>16. CASE PasswordDerived
    BY <1>16 DEF PasswordDerived, Commit, Flush, TypeInv, Flags, disk,
       contents, handlers, history
  <1>17. CASE ReplaceAll
    BY <1>17 DEF ReplaceAll, ReplaceCommits, Flush, Happens, TypeInv, Flags,
       disk, contents, handlers, history
  <1>18. CASE ReplaceHashed
    BY <1>18 DEF ReplaceHashed, ReplaceCommits, Flush, TypeInv, Flags, disk,
       contents, handlers, history
  <1>19. CASE Create
    BY <1>19 DEF Create, Fresh, TypeInv, Flags, disk, contents, handlers,
       history
  <1>20. CASE UnlockReads
    BY <1>20 DEF UnlockReads, Fresh, TypeInv, Flags, disk, contents, handlers,
       history
  <1>21. CASE Open
    BY <1>21 DEF Open, TypeInv, Flags, disk, contents, handlers, history
  <1>22. CASE Adopt
    BY <1>22 DEF Adopt, Fresh, ReplaceCommits, Flush, TypeInv, Flags, disk,
       contents, handlers, history
  <1>23. CASE Lock
    BY <1>23 DEF Lock, Flush, Happens, TypeInv, Flags, disk, contents,
       handlers, history
  <1>24. CASE AdoptionFails
    BY <1>24 DEF AdoptionFails, ForgetSecrets, Flags
  <1>25. CASE OpenRefused
    BY <1>25 DEF OpenRefused, ForgetSecrets, Flags
  <1>26. CASE LockForgets
    BY <1>26 DEF LockForgets, ForgetSecrets, Flags
  <1>27. CASE PanicLock
    BY <1>27 DEF PanicLock, ForgetSecrets, Flags
  <1>28. CASE Destroy
    BY <1>28 DEF Destroy, ForgetSecrets, Flags
  <1>29. CASE WorkerDies
    BY <1>29 DEF WorkerDies, ForgetSecrets, Flags
  <1> QED
    BY <1>1, <1>2, <1>3, <1>4, <1>5, <1>6, <1>7, <1>8, <1>9, <1>10, <1>11,
       <1>12, <1>13, <1>14, <1>15, <1>16, <1>17, <1>18, <1>19, <1>20, <1>21,
       <1>22, <1>23, <1>24, <1>25, <1>26, <1>27, <1>28, <1>29 DEF Next, Write,
       Fail, Resume, Call, Live

LEMMA BucketsOfType ==
    ASSUME NEW ids \in SUBSET Ids
    PROVE  BucketsOf(ids) \in SUBSET Buckets
  BY ConstantsAssumption DEF BucketsOf

LEMMA BatchType ==
    ASSUME items \in ItemMaps, NEW batch \in Batches
    PROVE  /\ DOMAIN batch \in SUBSET Ids
           /\ After(items, batch) \in ItemMaps
  BY DEF Batches, After, ItemMaps

LEMMA NextHeaderType ==
    ASSUME writer \in Writers, writer.header \in Headers
    PROVE  NextHeader \in Headers
  <1>1. \A b \in Buckets : Sealed(b) \in Payloads
    BY PayloadType DEF Sealed, Writers
  <1> QED
    BY <1>1 DEF NextHeader, Headers, Tables

LEMMA HandedOverType ==
    ASSUME NEW its \in ItemMaps, NEW sets \in Settings,
           header \in Headers \cup {Null}, NEW h \in HandedOver(its, sets)
    PROVE  h \in Headers
  BY TableType, ConstantsAssumption DEF HandedOver, Headers

LEMMA CommitType ==
    ASSUME NEW base \in Headers, Commit(base)
    PROVE  header' \in Headers
  BY DEF Commit, Headers

LEMMA FlushType ==
    ASSUME queue \in Seq(Callers), NEW caller \in Callers, Flush(caller)
    PROVE  queue' \in Seq(Callers)
  BY DEF Flush

LEMMA OpenType ==
    ASSUME NEW h \in Headers, NEW table \in Tables
    PROVE  ItemsIn(h, table) \in ItemMaps /\ SettingsIn(h, table) \in Settings
  BY ConstantsAssumption
     DEF ItemsIn, SettingsIn, Tables, Payloads, ItemMaps

LEMMA SortsStep ==
    ASSUME TypeInv, Next
    PROVE  Sorts'
  <1>1. CASE FlushNow
    BY <1>1, FlushType
       DEF FlushNow, Happens, Callers, TypeInv, Sorts, disk, contents,
           handlers, history
  <1>2. CASE TimerFires
    BY <1>2, FlushType
       DEF TimerFires, Callers, TypeInv, Sorts, disk, contents, handlers,
           history
  <1>3. CASE ThrowDeferred
    BY <1>3
       DEF ThrowDeferred, Happens, TypeInv, Sorts, disk, contents, handlers,
           history
  <1>4. CASE WriteNothing
    BY <1>4, IdleType
       DEF WriteNothing, Resolve, TypeInv, Sorts, disk, contents, handlers,
           history
  <1>5. CASE WritePending
    BY <1>5
       DEF WritePending, AfterSealing, Writers, HandlersOK, TypeInv, Sorts,
           disk, contents, handlers, history
  <1>6. CASE StoreBuckets
    BY <1>6, NextHeaderType, PayloadType
       DEF StoreBuckets, TableCommits, HandlersOK, Writers, Tables, Sealed,
           TypeInv, Sorts, disk, contents, handlers, history
  <1>7. CASE RemoveBuckets
    BY <1>7, NextHeaderType, EmptyType
       DEF RemoveBuckets, TableCommits, HandlersOK, Writers, Tables, TypeInv,
           Sorts, disk, contents, handlers, history
  <1>8. CASE WriteOnlyHeader
    BY <1>8, NextHeaderType
       DEF WriteOnlyHeader, TableCommits, HandlersOK, Writers, TypeInv, Sorts,
           disk, contents, handlers, history
  <1>9. CASE StoreHeader
    BY <1>9, NextHeaderType, IdleType
       DEF StoreHeader, Resolve, HandlersOK, TypeInv, Sorts, disk, contents,
           handlers, history
  <1>10. CASE WriteFails
    BY <1>10, IdleType
       DEF WriteFails, Reject, Happens, Writers, TypeInv, Sorts, disk,
           contents, handlers, history
  <1>11. CASE ApplyNow
    BY <1>11, CommitType, BatchType, BucketsOfType
       DEF ApplyNow, Happens, HandlersOK, Mutations, TypeInv, Sorts, disk,
           contents, handlers, history
  <1>12. CASE ApplyHashed
    BY <1>12, CommitType, IdleType, BucketsOfType
       DEF ApplyHashed, HandlersOK, Mutations, TypeInv, Sorts, disk, contents,
           handlers, history
  <1>13. CASE Purge
    BY <1>13, CommitType, FlushType, ConstantsAssumption
       DEF Purge, Happens, HandlersOK, ItemMaps, BucketsOf, Callers, TypeInv,
           Sorts, disk, contents, handlers, history
  <1>14. CASE SetSyncedSettings
    BY <1>14, CommitType, FlushType, ConstantsAssumption
       DEF SetSyncedSettings, Happens, HandlersOK, Callers, TypeInv, Sorts,
           disk, contents, handlers, history
  <1>15. CASE ChangePassword
    BY <1>15
       DEF ChangePassword, Happens, Rekeys, TypeInv, Sorts, disk, contents,
           handlers, history
  <1>16. CASE PasswordDerived
    BY <1>16, CommitType, FlushType
       DEF PasswordDerived, HandlersOK, Headers, Rekeys, Callers, TypeInv,
           Sorts, disk, contents, handlers, history
  <1>17. CASE ReplaceAll
    BY <1>17, HandedOverType, FlushType, IdleType, ConstantsAssumption
       DEF ReplaceAll, Happens, ReplaceCommits, Replaces, Callers, TypeInv,
           Sorts, disk, contents, handlers, history
  <1>18. CASE ReplaceHashed
    BY <1>18, FlushType, IdleType
       DEF ReplaceHashed, HandlersOK, ReplaceCommits, Replaces, Callers,
           TypeInv, Sorts, disk, contents, handlers, history
  <1>19. CASE Create
    BY <1>19, TableType, EmptyType, ConstantsAssumption
       DEF Create, Fresh, Headers, TypeInv, Sorts, disk, contents, handlers,
           history
  <1>20. CASE UnlockReads
    BY <1>20
       DEF UnlockReads, Fresh, TypeInv, Sorts, disk, contents, handlers,
           history
  <1>21. CASE Open
    BY <1>21, OpenType
       DEF Open, HandlersOK, TypeInv, Sorts, disk, contents, handlers, history
  <1>22. CASE Adopt
    BY <1>22, HandedOverType, FlushType, IdleType, EmptyType,
       ConstantsAssumption
       DEF Adopt, Fresh, ReplaceCommits, Replaces, Callers, Tables, TypeInv,
           Sorts, disk, contents, handlers, history
  <1>23. CASE Lock
    BY <1>23, FlushType
       DEF Lock, Happens, Callers, TypeInv, Sorts, disk, contents, handlers,
           history
  <1>24. CASE AdoptionFails
    BY <1>24, EmptyType, IdleType, ConstantsAssumption
       DEF AdoptionFails, ForgetSecrets, Happens, TypeInv, Sorts, disk, Tables
  <1>25. CASE OpenRefused
    BY <1>25, EmptyType, IdleType, ConstantsAssumption
       DEF OpenRefused, ForgetSecrets, Happens, TypeInv, Sorts, disk, Tables
  <1>26. CASE LockForgets
    BY <1>26, EmptyType, IdleType, ConstantsAssumption
       DEF LockForgets, ForgetSecrets, Happens, TypeInv, Sorts, disk, Tables
  <1>27. CASE PanicLock
    BY <1>27, EmptyType, IdleType, ConstantsAssumption
       DEF PanicLock, ForgetSecrets, Happens, TypeInv, Sorts, disk, Tables
  <1>28. CASE Destroy
    BY <1>28, EmptyType, IdleType, ConstantsAssumption
       DEF Destroy, ForgetSecrets, Happens, TypeInv, Sorts, disk, Tables
  <1>29. CASE WorkerDies
    BY <1>29, EmptyType, IdleType, ConstantsAssumption
       DEF WorkerDies, ForgetSecrets, Happens, TypeInv, Sorts, disk, Tables
  <1> QED
    BY <1>1, <1>2, <1>3, <1>4, <1>5, <1>6, <1>7, <1>8, <1>9, <1>10, <1>11,
       <1>12, <1>13, <1>14, <1>15, <1>16, <1>17, <1>18, <1>19, <1>20, <1>21,
       <1>22, <1>23, <1>24, <1>25, <1>26, <1>27, <1>28, <1>29 DEF Next, Write,
       Fail, Resume, Call, Live

LEMMA HandlersStep ==
    ASSUME TypeInv, Next
    PROVE  HandlersOK'
  <1>1. CASE FlushNow
    BY <1>1, IdlePc
       DEF FlushNow, Flush, TypeInv, Sorts, HandlersOK, disk, contents,
           handlers, history
  <1>2. CASE TimerFires
    BY <1>2
       DEF TimerFires, Flush, TypeInv, Sorts, HandlersOK, disk, contents,
           handlers, history
  <1>3. CASE ThrowDeferred
    BY <1>3
       DEF ThrowDeferred, TypeInv, Sorts, HandlersOK, disk, contents, handlers,
           history
  <1>4. CASE WriteNothing
    BY <1>4, IdlePc
       DEF WriteNothing, Resolve, IdleRekey, TypeInv, Sorts, HandlersOK, disk,
           contents, handlers, history
  <1>5. CASE WritePending
    BY <1>5
       DEF WritePending, AfterSealing, TypeInv, Sorts, HandlersOK, disk,
           contents, handlers, history
  <1>6. CASE StoreBuckets
    BY <1>6, NextHeaderType, IdlePc
       DEF StoreBuckets, TableCommits, Writers, TypeInv, Sorts, HandlersOK,
           disk, contents, handlers, history
  <1>7. CASE RemoveBuckets
    BY <1>7, NextHeaderType, IdlePc
       DEF RemoveBuckets, TableCommits, Writers, TypeInv, Sorts, HandlersOK,
           disk, contents, handlers, history
  <1>8. CASE WriteOnlyHeader
    BY <1>8, NextHeaderType, IdlePc
       DEF WriteOnlyHeader, TableCommits, Writers, TypeInv, Sorts, HandlersOK,
           disk, contents, handlers, history
  <1>9. CASE StoreHeader
    BY <1>9, IdlePc
       DEF StoreHeader, Resolve, IdleRekey, TypeInv, Sorts, HandlersOK, disk,
           contents, handlers, history
  <1>10. CASE WriteFails
    BY <1>10, IdlePc
       DEF WriteFails, Reject, IdleRekey, TypeInv, Sorts, HandlersOK, disk,
           contents, handlers, history
  <1>11. CASE ApplyNow
    BY <1>11, CommitType, IdlePc
       DEF ApplyNow, Mutations, TypeInv, Sorts, HandlersOK, disk, contents,
           handlers, history
  <1>12. CASE ApplyHashed
    BY <1>12, CommitType, IdlePc
       DEF ApplyHashed, Mutations, TypeInv, Sorts, HandlersOK, disk, contents,
           handlers, history
  <1>13. CASE Purge
    BY <1>13, CommitType
       DEF Purge, Flush, TypeInv, Sorts, HandlersOK, disk, contents, handlers,
           history
  <1>14. CASE SetSyncedSettings
    BY <1>14, CommitType
       DEF SetSyncedSettings, Flush, TypeInv, Sorts, HandlersOK, disk,
           contents, handlers, history
  <1>15. CASE ChangePassword
    BY <1>15
       DEF ChangePassword, Rekeys, TypeInv, Sorts, HandlersOK, disk, contents,
           handlers, history
  <1>16. CASE PasswordDerived
    BY <1>16, CommitType, IdlePc
       DEF PasswordDerived, Flush, Headers, Rekeys, TypeInv, Sorts, HandlersOK,
           disk, contents, handlers, history
  <1>17. CASE ReplaceAll
    BY <1>17, HandedOverType, IdlePc, ConstantsAssumption
       DEF ReplaceAll, ReplaceCommits, Flush, TypeInv, Sorts, HandlersOK, disk,
           contents, handlers, history
  <1>18. CASE ReplaceHashed
    BY <1>18, IdlePc
       DEF ReplaceHashed, ReplaceCommits, Flush, Replaces, TypeInv, Sorts,
           HandlersOK, disk, contents, handlers, history
  <1>19. CASE Create
    BY <1>19, TableType, EmptyType, ConstantsAssumption
       DEF Create, Fresh, Headers, TypeInv, Sorts, HandlersOK, disk, contents,
           handlers, history
  <1>20. CASE UnlockReads
    BY <1>20
       DEF UnlockReads, Fresh, TypeInv, Sorts, HandlersOK, disk, contents,
           handlers, history
  <1>21. CASE Open
    BY <1>21
       DEF Open, TypeInv, Sorts, HandlersOK, disk, contents, handlers, history
  <1>22. CASE Adopt
    BY <1>22, HandedOverType, IdlePc, ConstantsAssumption
       DEF Adopt, Fresh, ReplaceCommits, Flush, TypeInv, Sorts, HandlersOK,
           disk, contents, handlers, history
  <1>23. CASE Lock
    BY <1>23
       DEF Lock, Flush, TypeInv, Sorts, HandlersOK, disk, contents, handlers,
           history
  <1>24. CASE AdoptionFails
    BY <1>24, IdlePc
       DEF AdoptionFails, ForgetSecrets, TypeInv, HandlersOK
  <1>25. CASE OpenRefused
    BY <1>25, IdlePc
       DEF OpenRefused, ForgetSecrets, TypeInv, HandlersOK
  <1>26. CASE LockForgets
    BY <1>26, IdlePc
       DEF LockForgets, ForgetSecrets, TypeInv, HandlersOK
  <1>27. CASE PanicLock
    BY <1>27, IdlePc
       DEF PanicLock, ForgetSecrets, TypeInv, HandlersOK
  <1>28. CASE Destroy
    BY <1>28, IdlePc
       DEF Destroy, ForgetSecrets, TypeInv, HandlersOK
  <1>29. CASE WorkerDies
    BY <1>29, IdlePc
       DEF WorkerDies, ForgetSecrets, TypeInv, HandlersOK
  <1> QED
    BY <1>1, <1>2, <1>3, <1>4, <1>5, <1>6, <1>7, <1>8, <1>9, <1>10, <1>11,
       <1>12, <1>13, <1>14, <1>15, <1>16, <1>17, <1>18, <1>19, <1>20, <1>21,
       <1>22, <1>23, <1>24, <1>25, <1>26, <1>27, <1>28, <1>29 DEF Next, Write,
       Fail, Resume, Call, Live

LEMMA TypeStep == TypeInv /\ Next => TypeInv'
  BY FlagsStep, SortsStep, HandlersStep DEF TypeInv

(* Type correctness: every variable keeps its type, whatever overlaps.     *)
THEOREM TypeCorrect == Spec => []TypeOK
  <1>1. ASSUME TypeInv, UNCHANGED vars
        PROVE  TypeInv'
    BY <1>1 DEF vars, TypeInv, Flags, Sorts, HandlersOK
  <1>2. TypeInv /\ [Next]_vars => TypeInv'
    BY <1>1, TypeStep
  <1> QED
    BY <1>2, TypeInit, TypeInvImplies, PTL DEF Spec

-----------------------------------------------------------------------------
(* Pending changes have a writer *)

(* A locked object has let go of what it had decrypted.                    *)
LockedHoldsNothing ==
    phase \in {"locked", "opening"} => items = NoItems /\ settings = NoSettings

(* While unlock() adopts a vault nobody else has the object: there is      *)
(* replaceAll() hashing, or the one flush it chained, or that one's write. *)
AdoptingAlone ==
    phase = "adopting" =>
        /\ mutation.pc = "idle" /\ rekey.pc = "idle" /\ ~timer
        /\ \/ replace.pc # "idle" /\ writer.pc = "idle" /\ queue = <<>>
           \/ /\ replace.pc = "idle" /\ writer.pc = "idle" /\ headerDirty
              /\ queue = <<"adopt">>
           \/ /\ replace.pc = "idle" /\ writer.pc # "idle" /\ queue = <<>>
              /\ writer.caller = "adopt"

CallsInv ==
    /\ TypeInv
    /\ LockedHoldsNothing
    /\ AdoptingAlone
    /\ PendingHasAWriter

(* Between the awaits named here nothing the invariants below speak of     *)
(* changes.                                                                *)
LEMMA QuietFrame ==
    ASSUME TypeInv, AdoptingAlone,
           \/ FlushNow \/ TimerFires \/ ThrowDeferred \/ WriteNothing
           \/ ChangePassword \/ Lock
    PROVE  UNCHANGED <<storedHeader, storedBuckets, header, items, settings,
                       known, dirty, headerDirty, writer, mutation, replace,
                       stale, phase>>
  BY DEF FlushNow, TimerFires, ThrowDeferred, WriteNothing, ChangePassword,
         Lock, Resolve, TypeInv, HandlersOK, AdoptingAlone, disk, contents,
         handlers, history

LEMMA ForgetFrame ==
    ASSUME \/ AdoptionFails \/ OpenRefused \/ LockForgets \/ PanicLock
           \/ Destroy \/ WorkerDies
    PROVE  ForgetSecrets
  BY DEF AdoptionFails, OpenRefused, LockForgets, PanicLock, Destroy,
         WorkerDies

LEMMA Actions ==
    ASSUME Next
    PROVE  \/ FlushNow \/ TimerFires \/ ThrowDeferred \/ WriteNothing
           \/ ChangePassword \/ Lock
           \/ AdoptionFails \/ OpenRefused \/ LockForgets \/ PanicLock
           \/ Destroy \/ WorkerDies
           \/ WritePending \/ StoreBuckets \/ RemoveBuckets \/ WriteOnlyHeader
           \/ StoreHeader \/ WriteFails \/ ApplyNow \/ ApplyHashed \/ Purge
           \/ SetSyncedSettings \/ PasswordDerived \/ ReplaceAll
           \/ ReplaceHashed \/ Create \/ UnlockReads \/ Open \/ Adopt
  BY DEF Next, Write, Fail, Resume, Call, Live

LEMMA OneCaller ==
    ASSUME NEW caller \in Callers
    PROVE  Append(<<>>, caller) = <<caller>>
  OBVIOUS

LEMMA LockedStep ==
    ASSUME CallsInv, TypeInv', Next
    PROVE  LockedHoldsNothing'
  <1>1. CASE \/ FlushNow \/ TimerFires \/ ThrowDeferred \/ WriteNothing
             \/ ChangePassword \/ Lock
    BY <1>1, QuietFrame DEF CallsInv, LockedHoldsNothing
  <1>2. CASE \/ AdoptionFails \/ OpenRefused \/ LockForgets \/ PanicLock
             \/ Destroy \/ WorkerDies
    BY <1>2, ForgetFrame DEF ForgetSecrets, LockedHoldsNothing
  <1>3. CASE WritePending
    BY <1>3
       DEF WritePending, disk, contents, handlers, CallsInv, TypeInv, Sorts,
           HandlersOK, LockedHoldsNothing
  <1>4. CASE StoreBuckets
    BY <1>4
       DEF StoreBuckets, TableCommits, contents, handlers, history, CallsInv,
           TypeInv, Sorts, HandlersOK, LockedHoldsNothing
  <1>5. CASE RemoveBuckets
    BY <1>5
       DEF RemoveBuckets, TableCommits, contents, handlers, history, CallsInv,
           TypeInv, Sorts, HandlersOK, LockedHoldsNothing
  <1>6. CASE WriteOnlyHeader
    BY <1>6
       DEF WriteOnlyHeader, TableCommits, disk, contents, handlers, history,
           CallsInv, TypeInv, Sorts, HandlersOK, LockedHoldsNothing
  <1>7. CASE StoreHeader
    BY <1>7
       DEF StoreHeader, Resolve, contents, history, CallsInv, TypeInv, Sorts,
           HandlersOK, LockedHoldsNothing
  <1>8. CASE WriteFails
    BY <1>8
       DEF WriteFails, Reject, disk, contents, CallsInv, TypeInv, Sorts,
           HandlersOK, LockedHoldsNothing
  <1>9. CASE ApplyNow
    BY <1>9
       DEF ApplyNow, Commit, disk, CallsInv, TypeInv, Sorts, HandlersOK,
           LockedHoldsNothing
  <1>10. CASE ApplyHashed
    BY <1>10
       DEF ApplyHashed, Commit, disk, CallsInv, TypeInv, Sorts, HandlersOK,
           LockedHoldsNothing
  <1>11. CASE Purge
    BY <1>11
       DEF Purge, Commit, Flush, disk, handlers, CallsInv, TypeInv, Sorts,
           HandlersOK, LockedHoldsNothing
  <1>12. CASE SetSyncedSettings
    BY <1>12
       DEF SetSyncedSettings, Commit, Flush, disk, handlers, CallsInv, TypeInv,
           Sorts, HandlersOK, LockedHoldsNothing
  <1>13. CASE PasswordDerived
    BY <1>13
       DEF PasswordDerived, Commit, Flush, disk, contents, CallsInv, TypeInv,
           Sorts, HandlersOK, LockedHoldsNothing
  <1>14. CASE ReplaceAll
    BY <1>14
       DEF ReplaceAll, ReplaceCommits, disk, Flush, CallsInv, TypeInv, Sorts,
           HandlersOK, LockedHoldsNothing
  <1>15. CASE ReplaceHashed
    BY <1>15
       DEF ReplaceHashed, ReplaceCommits, disk, history, Flush, CallsInv,
           TypeInv, Sorts, HandlersOK, LockedHoldsNothing
  <1>16. CASE Create
    BY <1>16
       DEF Create, Fresh, contents, handlers, history, CallsInv, TypeInv,
           Sorts, HandlersOK, LockedHoldsNothing
  <1>17. CASE UnlockReads
    BY <1>17
       DEF UnlockReads, Fresh, disk, contents, handlers, history, CallsInv,
           TypeInv, Sorts, HandlersOK, LockedHoldsNothing
  <1>18. CASE Open
    BY <1>18
       DEF Open, disk, handlers, history, CallsInv, TypeInv, Sorts, HandlersOK,
           LockedHoldsNothing
  <1>19. CASE Adopt
    BY <1>19
       DEF Adopt, Fresh, disk, ReplaceCommits, history, Flush, CallsInv,
           TypeInv, Sorts, HandlersOK, LockedHoldsNothing
  <1> QED
    BY Actions, <1>1, <1>2, <1>3, <1>4, <1>5, <1>6, <1>7, <1>8, <1>9, <1>10,
       <1>11, <1>12, <1>13, <1>14, <1>15, <1>16, <1>17, <1>18, <1>19

LEMMA AdoptingStep ==
    ASSUME CallsInv, TypeInv', Next
    PROVE  AdoptingAlone'
  <1>1. CASE \/ FlushNow \/ TimerFires \/ ThrowDeferred \/ WriteNothing
             \/ ChangePassword \/ Lock
    BY <1>1, QuietFrame
       DEF FlushNow, TimerFires, ThrowDeferred, WriteNothing, ChangePassword,
           Lock, Flush, disk, contents, handlers, history, Resolve, CallsInv,
           TypeInv, Sorts, HandlersOK, AdoptingAlone
  <1>2. CASE \/ AdoptionFails \/ OpenRefused \/ LockForgets \/ PanicLock
             \/ Destroy \/ WorkerDies
    BY <1>2, ForgetFrame DEF ForgetSecrets, AdoptingAlone
  <1>3. CASE WritePending
    BY <1>3
       DEF WritePending, disk, contents, handlers, CallsInv, TypeInv, Sorts,
           HandlersOK, AdoptingAlone, AfterSealing
  <1>4. CASE StoreBuckets
    BY <1>4
       DEF StoreBuckets, TableCommits, contents, handlers, history, CallsInv,
           TypeInv, Sorts, HandlersOK, AdoptingAlone, Writers, Replaces
  <1>5. CASE RemoveBuckets
    BY <1>5
       DEF RemoveBuckets, TableCommits, contents, handlers, history, CallsInv,
           TypeInv, Sorts, HandlersOK, AdoptingAlone, Writers, Replaces
  <1>6. CASE WriteOnlyHeader
    BY <1>6
       DEF WriteOnlyHeader, TableCommits, disk, contents, handlers, history,
           CallsInv, TypeInv, Sorts, HandlersOK, AdoptingAlone, Writers,
           Replaces
  <1>7. CASE StoreHeader
    BY <1>7
       DEF StoreHeader, IdleWriter, Resolve, contents, history, IdleRekey,
           CallsInv, TypeInv, Sorts, HandlersOK, AdoptingAlone, Writers,
           Replaces
  <1>8. CASE WriteFails
    BY <1>8
       DEF WriteFails, IdleWriter, Reject, disk, contents, IdleRekey, CallsInv,
           TypeInv, Sorts, HandlersOK, AdoptingAlone, Writers, Replaces
  <1>9. CASE ApplyNow
    BY <1>9
       DEF ApplyNow, Commit, disk, CallsInv, TypeInv, Sorts, HandlersOK,
           AdoptingAlone, Writers, Replaces
  <1>10. CASE ApplyHashed
    BY <1>10
       DEF ApplyHashed, Commit, IdleMutation, disk, CallsInv, TypeInv, Sorts,
           HandlersOK, AdoptingAlone, Writers, Replaces
  <1>11. CASE Purge
    BY <1>11
       DEF Purge, Commit, Flush, disk, handlers, CallsInv, TypeInv, Sorts,
           HandlersOK, AdoptingAlone, Writers, Replaces
  <1>12. CASE SetSyncedSettings
    BY <1>12
       DEF SetSyncedSettings, Commit, Flush, disk, handlers, CallsInv, TypeInv,
           Sorts, HandlersOK, AdoptingAlone, Writers, Replaces
  <1>13. CASE PasswordDerived
    BY <1>13
       DEF PasswordDerived, Commit, Flush, disk, contents, CallsInv, TypeInv,
           Sorts, HandlersOK, AdoptingAlone, Writers, Replaces
  <1>14. CASE ReplaceAll
    BY <1>14
       DEF ReplaceAll, ReplaceCommits, disk, IdleReplace, Flush, CallsInv,
           TypeInv, Sorts, HandlersOK, AdoptingAlone, Writers, Replaces
  <1>15. CASE ReplaceHashed
    <2>1. replace.pc # "idle" /\ IdleReplace.pc = "idle"
      BY <1>15 DEF ReplaceHashed, IdleReplace
    <2>2. UNCHANGED <<mutation, rekey, writer, phase>>
      BY <1>15 DEF ReplaceHashed, handlers
    <2>3. CASE phase = "adopting"
      <3>1. mutation.pc = "idle" /\ rekey.pc = "idle" /\ ~timer
            /\ writer.pc = "idle" /\ queue = <<>>
        BY <2>1, <2>3 DEF CallsInv, AdoptingAlone
      <3>2. PICK i \in replace.todo :
              IF replace.todo = {i}
                THEN ReplaceCommits(replace.header, "adopt")
                ELSE /\ replace' = [replace EXCEPT !.todo = @ \ {i}]
                     /\ UNCHANGED <<header, dirty, headerDirty, timer, queue>>
        BY <1>15, <2>3 DEF ReplaceHashed
      <3>3. CASE replace.todo = {i}
        <4>1. /\ headerDirty' /\ replace' = IdleReplace /\ ~timer'
              /\ queue' = Append(<<>>, "adopt")
          BY <3>1, <3>2, <3>3 DEF ReplaceCommits, Flush
        <4>2. queue' = <<"adopt">>
          BY <4>1, OneCaller DEF Callers
        <4> QED
          BY <2>1, <2>2, <3>1, <4>1, <4>2 DEF AdoptingAlone
      <3>4. CASE replace.todo # {i}
        <4>1. /\ replace' = [replace EXCEPT !.todo = @ \ {i}]
              /\ UNCHANGED <<timer, queue>>
          BY <3>2, <3>4
        <4>2. replace'.pc = replace.pc
          BY <4>1 DEF CallsInv, TypeInv, Sorts, Replaces
        <4> QED
          BY <2>1, <2>2, <3>1, <4>1, <4>2 DEF AdoptingAlone
      <3> QED
        BY <3>3, <3>4
    <2> QED
      BY <2>2, <2>3 DEF AdoptingAlone
  <1>16. CASE Create
    BY <1>16
       DEF Create, Fresh, contents, handlers, history, CallsInv, TypeInv,
           Sorts, HandlersOK, AdoptingAlone, Writers, Replaces
  <1>17. CASE UnlockReads
    BY <1>17
       DEF UnlockReads, Fresh, disk, contents, handlers, history, CallsInv,
           TypeInv, Sorts, HandlersOK, AdoptingAlone, Writers, Replaces
  <1>18. CASE Open
    BY <1>18
       DEF Open, disk, handlers, history, CallsInv, TypeInv, Sorts, HandlersOK,
           AdoptingAlone, Writers, Replaces
  <1>19. CASE Adopt
    <2>1. /\ mutation' = IdleMutation /\ rekey' = IdleRekey /\ ~timer
          /\ queue = <<>> /\ writer'.pc = "idle" /\ IdleReplace.pc = "idle"
      BY <1>19 DEF Adopt, Fresh, CallsInv, TypeInv, HandlersOK, IdleReplace
    <2>2. mutation'.pc = "idle" /\ rekey'.pc = "idle"
      BY <2>1, IdlePc
    <2>3. CASE replace'.pc = "hashing" /\ UNCHANGED <<timer, queue>>
      BY <2>1, <2>2, <2>3 DEF AdoptingAlone
    <2>4. CASE \E h : ReplaceCommits(h, "adopt")
      <3>1. /\ headerDirty' /\ replace' = IdleReplace /\ ~timer'
            /\ queue' = Append(<<>>, "adopt")
        BY <2>1, <2>4 DEF ReplaceCommits, Flush
      <3>2. queue' = <<"adopt">>
        BY <3>1, OneCaller DEF Callers
      <3> QED
        BY <2>1, <2>2, <3>1, <3>2 DEF AdoptingAlone
    <2> QED
      BY <1>19, <2>3, <2>4 DEF Adopt
  <1> QED
    BY Actions, <1>1, <1>2, <1>3, <1>4, <1>5, <1>6, <1>7, <1>8, <1>9, <1>10,
       <1>11, <1>12, <1>13, <1>14, <1>15, <1>16, <1>17, <1>18, <1>19

LEMMA PendingStep ==
    ASSUME CallsInv, TypeInv', Next
    PROVE  PendingHasAWriter'
  <1>1. CASE \/ FlushNow \/ TimerFires \/ ThrowDeferred \/ WriteNothing
             \/ ChangePassword \/ Lock
    BY <1>1, QuietFrame
       DEF FlushNow, TimerFires, ThrowDeferred, WriteNothing, ChangePassword,
           Lock, Flush, disk, contents, handlers, history, Resolve, CallsInv,
           TypeInv, Sorts, HandlersOK, PendingHasAWriter, Usable
  <1>2. CASE \/ AdoptionFails \/ OpenRefused \/ LockForgets \/ PanicLock
             \/ Destroy \/ WorkerDies
    BY <1>2, ForgetFrame DEF ForgetSecrets, PendingHasAWriter, Usable
  <1>3. CASE WritePending
    BY <1>3
       DEF WritePending, disk, contents, handlers, CallsInv, TypeInv, Sorts,
           HandlersOK, PendingHasAWriter, Usable
  <1>4. CASE StoreBuckets
    BY <1>4
       DEF StoreBuckets, TableCommits, contents, handlers, history, CallsInv,
           TypeInv, Sorts, HandlersOK, PendingHasAWriter, Usable
  <1>5. CASE RemoveBuckets
    BY <1>5
       DEF RemoveBuckets, TableCommits, contents, handlers, history, CallsInv,
           TypeInv, Sorts, HandlersOK, PendingHasAWriter, Usable
  <1>6. CASE WriteOnlyHeader
    BY <1>6
       DEF WriteOnlyHeader, TableCommits, disk, contents, handlers, history,
           CallsInv, TypeInv, Sorts, HandlersOK, PendingHasAWriter, Usable
  <1>7. CASE StoreHeader
    BY <1>7
       DEF StoreHeader, IdleWriter, Resolve, contents, history, IdleRekey,
           CallsInv, TypeInv, Sorts, HandlersOK, PendingHasAWriter, Usable
  <1>8. CASE WriteFails
    BY <1>8
       DEF WriteFails, IdleWriter, Reject, disk, contents, IdleRekey, CallsInv,
           TypeInv, Sorts, HandlersOK, PendingHasAWriter, Usable
  <1>9. CASE ApplyNow
    BY <1>9
       DEF ApplyNow, Commit, disk, CallsInv, TypeInv, Sorts, HandlersOK,
           PendingHasAWriter, Usable
  <1>10. CASE ApplyHashed
    BY <1>10
       DEF ApplyHashed, Commit, IdleMutation, disk, CallsInv, TypeInv, Sorts,
           HandlersOK, PendingHasAWriter, Usable
  <1>11. CASE Purge
    BY <1>11
       DEF Purge, Commit, Flush, disk, handlers, CallsInv, TypeInv, Sorts,
           HandlersOK, PendingHasAWriter, Usable
  <1>12. CASE SetSyncedSettings
    BY <1>12
       DEF SetSyncedSettings, Commit, Flush, disk, handlers, CallsInv, TypeInv,
           Sorts, HandlersOK, PendingHasAWriter, Usable
  <1>13. CASE PasswordDerived
    BY <1>13
       DEF PasswordDerived, Commit, Flush, disk, contents, CallsInv, TypeInv,
           Sorts, HandlersOK, PendingHasAWriter, Usable
  <1>14. CASE ReplaceAll
    BY <1>14
       DEF ReplaceAll, ReplaceCommits, disk, IdleReplace, Flush, CallsInv,
           TypeInv, Sorts, HandlersOK, PendingHasAWriter, Usable
  <1>15. CASE ReplaceHashed
    BY <1>15
       DEF ReplaceHashed, ReplaceCommits, disk, history, IdleReplace, Flush,
           CallsInv, TypeInv, Sorts, HandlersOK, PendingHasAWriter, Usable
  <1>16. CASE Create
    BY <1>16
       DEF Create, Fresh, contents, handlers, history, CallsInv, TypeInv,
           Sorts, HandlersOK, PendingHasAWriter, Usable
  <1>17. CASE UnlockReads
    BY <1>17
       DEF UnlockReads, Fresh, disk, contents, handlers, history, CallsInv,
           TypeInv, Sorts, HandlersOK, PendingHasAWriter, Usable
  <1>18. CASE Open
    BY <1>18
       DEF Open, disk, handlers, history, CallsInv, TypeInv, Sorts, HandlersOK,
           PendingHasAWriter, Usable
  <1>19. CASE Adopt
    BY <1>19
       DEF Adopt, Fresh, disk, ReplaceCommits, history, IdleReplace, Flush,
           CallsInv, TypeInv, Sorts, HandlersOK, PendingHasAWriter, Usable
  <1> QED
    BY Actions, <1>1, <1>2, <1>3, <1>4, <1>5, <1>6, <1>7, <1>8, <1>9, <1>10,
       <1>11, <1>12, <1>13, <1>14, <1>15, <1>16, <1>17, <1>18, <1>19

LEMMA CallsInit == Init => CallsInv
  BY TypeInit
     DEF Init, CallsInv, LockedHoldsNothing, AdoptingAlone, PendingHasAWriter,
         Usable

LEMMA CallsStep == CallsInv /\ [Next]_vars => CallsInv'
  <1>1. ASSUME CallsInv, UNCHANGED vars
        PROVE  CallsInv'
    BY <1>1 DEF vars, CallsInv, TypeInv, Flags, Sorts, HandlersOK,
                LockedHoldsNothing, AdoptingAlone, PendingHasAWriter, Usable
  <1>2. ASSUME CallsInv, Next
        PROVE  CallsInv'
    <2>1. TypeInv'
      BY <1>2, TypeStep DEF CallsInv
    <2> QED
      BY <1>2, <2>1, LockedStep, AdoptingStep, PendingStep DEF CallsInv
  <1> QED
    BY <1>1, <1>2

(* Nothing that is marked dirty waits for ever unannounced: there is a     *)
(* timer, a chained flush or a handler behind it, or the caller was told   *)
(* that its write failed.                                                  *)
THEOREM PendingAlwaysHasAWriter == Spec => []PendingHasAWriter
  <1>1. CallsInv => PendingHasAWriter
    BY DEF CallsInv
  <1> QED
    BY <1>1, CallsInit, CallsStep, PTL DEF Spec

-----------------------------------------------------------------------------
(* Nothing is stranded in memory *)

(* What is going to be written, apart from what a write has in hand.       *)
Unsettled == dirty \cup BucketsOf(mutation.todo)
                   \cup (IF replace.pc = "idle" THEN {} ELSE Buckets)

Now(b) == Payload(b, items, settings)

(* A bucket holds only items that hash to it.                              *)
StoredShape ==
    \A b \in Buckets :
        storedBuckets[b] = Payload(b, storedBuckets[b].items,
                                      storedBuckets[b].settings)

(* An item whose bucket is not cached yet is in some handler's hands: this *)
(* is why purge() may look its buckets up in the cache alone.              *)
KnownCovers ==
    Usable => \A i \in Ids : items[i] # Absent =>
                  i \in known \cup mutation.todo \cup replace.todo

(* The write under way has stored what it has passed.                      *)
WriterStores ==
    /\ writer.pc = "commit" => writer.dirty = {}
    /\ Usable /\ writer.pc \in {"remove", "header"} =>
         \A b \in writer.dirty :
            Sealed(b) # EmptyPayload => storedBuckets[b] = Sealed(b)

(* What it sealed is still current, or somebody has marked it dirty again. *)
WriterAgrees ==
    Usable => \A b \in writer.dirty \ Unsettled : Now(b) = Sealed(b)

ContentsInv ==
    /\ TypeInv
    /\ LockedHoldsNothing
    /\ AdoptingAlone
    /\ StoredShape
    /\ KnownCovers
    /\ WriterStores
    /\ WriterAgrees
    /\ NothingStranded

LEMMA PayloadLocal ==
    ASSUME NEW b \in Buckets, NEW its \in ItemMaps, NEW jts \in ItemMaps,
           NEW sets, NEW tets,
           \A i \in Ids : BucketOf[i] = b => its[i] = jts[i],
           b = SettingsBucket => sets = tets
    PROVE  Payload(b, its, sets) = Payload(b, jts, tets)
  BY ConstantsAssumption DEF Payload, ItemMaps

LEMMA PayloadShape ==
    ASSUME NEW b \in Buckets, NEW its \in ItemMaps, NEW sets \in Settings
    PROVE  LET p == Payload(b, its, sets)
           IN  p = Payload(b, p.items, p.settings)
  BY ConstantsAssumption DEF Payload, ItemMaps

LEMMA EmptyShape ==
    ASSUME NEW b \in Buckets
    PROVE  Payload(b, NoItems, NoSettings) = EmptyPayload
  BY ConstantsAssumption DEF Payload, EmptyPayload, NoItems

LEMMA EmptyShape2 ==
    ASSUME NEW b \in Buckets
    PROVE  EmptyPayload = Payload(b, EmptyPayload.items, EmptyPayload.settings)
  BY EmptyShape DEF EmptyPayload

LEMMA ShapeStep ==
    ASSUME ContentsInv, TypeInv', Next
    PROVE  StoredShape'
  <1>1. CASE \/ FlushNow \/ TimerFires \/ ThrowDeferred \/ WriteNothing
             \/ ChangePassword \/ Lock
    BY <1>1, QuietFrame DEF ContentsInv, StoredShape
  <1>2. CASE \/ AdoptionFails \/ OpenRefused \/ LockForgets \/ PanicLock
             \/ Destroy \/ WorkerDies
    BY <1>2, EmptyShape2
       DEF AdoptionFails, OpenRefused, LockForgets, PanicLock, Destroy,
           WorkerDies, disk, ContentsInv, StoredShape
  <1>3. CASE WritePending
    BY <1>3
       DEF WritePending, disk, contents, handlers, ContentsInv, StoredShape
  <1>4. CASE StoreBuckets
    BY <1>4, PayloadShape
       DEF StoreBuckets, TableCommits, contents, handlers, history,
           ContentsInv, TypeInv, Sorts, StoredShape, Sealed, Writers, Tables
  <1>5. CASE RemoveBuckets
    BY <1>5, EmptyShape2
       DEF RemoveBuckets, TableCommits, contents, handlers, history,
           ContentsInv, TypeInv, Sorts, StoredShape, Tables
  <1>6. CASE WriteOnlyHeader
    BY <1>6
       DEF WriteOnlyHeader, TableCommits, disk, contents, handlers, history,
           ContentsInv, StoredShape
  <1>7. CASE StoreHeader
    BY <1>7
       DEF StoreHeader, Resolve, contents, history, ContentsInv, StoredShape
  <1>8. CASE WriteFails
    BY <1>8 DEF WriteFails, Reject, disk, contents, ContentsInv, StoredShape
  <1>9. CASE ApplyNow
    BY <1>9 DEF ApplyNow, Commit, disk, ContentsInv, StoredShape
  <1>10. CASE ApplyHashed
    BY <1>10 DEF ApplyHashed, Commit, disk, ContentsInv, StoredShape
  <1>11. CASE Purge
    BY <1>11 DEF Purge, Commit, Flush, disk, handlers, ContentsInv, StoredShape
  <1>12. CASE SetSyncedSettings
    BY <1>12
       DEF SetSyncedSettings, Commit, Flush, disk, handlers, ContentsInv,
           StoredShape
  <1>13. CASE PasswordDerived
    BY <1>13
       DEF PasswordDerived, Commit, Flush, disk, contents, ContentsInv,
           StoredShape
  <1>14. CASE ReplaceAll
    BY <1>14
       DEF ReplaceAll, ReplaceCommits, disk, Flush, ContentsInv, StoredShape
  <1>15. CASE ReplaceHashed
    BY <1>15
       DEF ReplaceHashed, ReplaceCommits, disk, history, Flush, ContentsInv,
           StoredShape
  <1>16. CASE Create
    BY <1>16
       DEF Create, Fresh, contents, handlers, history, ContentsInv, StoredShape
  <1>17. CASE UnlockReads
    BY <1>17
       DEF UnlockReads, Fresh, disk, contents, handlers, history, ContentsInv,
           StoredShape
  <1>18. CASE Open
    BY <1>18 DEF Open, disk, handlers, history, ContentsInv, StoredShape
  <1>19. CASE Adopt
    BY <1>19, EmptyShape2
       DEF Adopt, Fresh, disk, ReplaceCommits, history, Flush, ContentsInv,
           StoredShape
  <1> QED
    BY Actions, <1>1, <1>2, <1>3, <1>4, <1>5, <1>6, <1>7, <1>8, <1>9, <1>10,
       <1>11, <1>12, <1>13, <1>14, <1>15, <1>16, <1>17, <1>18, <1>19

LEMMA KnownStep ==
    ASSUME ContentsInv, TypeInv', Next
    PROVE  KnownCovers'
  <1>1. CASE \/ FlushNow \/ TimerFires \/ ThrowDeferred \/ WriteNothing
             \/ ChangePassword \/ Lock
    BY <1>1, QuietFrame DEF ContentsInv, KnownCovers, Usable
  <1>2. CASE \/ AdoptionFails \/ OpenRefused \/ LockForgets \/ PanicLock
             \/ Destroy \/ WorkerDies
    BY <1>2, ForgetFrame DEF ForgetSecrets, KnownCovers, Usable
  <1>3. CASE WritePending
    BY <1>3
       DEF WritePending, disk, contents, handlers, ContentsInv, TypeInv, Sorts,
           HandlersOK, KnownCovers, Usable
  <1>4. CASE StoreBuckets
    BY <1>4
       DEF StoreBuckets, TableCommits, contents, handlers, history,
           ContentsInv, TypeInv, Sorts, HandlersOK, KnownCovers, Usable
  <1>5. CASE RemoveBuckets
    BY <1>5
       DEF RemoveBuckets, TableCommits, contents, handlers, history,
           ContentsInv, TypeInv, Sorts, HandlersOK, KnownCovers, Usable
  <1>6. CASE WriteOnlyHeader
    BY <1>6
       DEF WriteOnlyHeader, TableCommits, disk, contents, handlers, history,
           ContentsInv, TypeInv, Sorts, HandlersOK, KnownCovers, Usable
  <1>7. CASE StoreHeader
    BY <1>7
       DEF StoreHeader, IdleWriter, Resolve, contents, history, IdleRekey,
           ContentsInv, TypeInv, Sorts, HandlersOK, KnownCovers, Usable
  <1>8. CASE WriteFails
    BY <1>8
       DEF WriteFails, IdleWriter, Reject, disk, contents, IdleRekey,
           ContentsInv, TypeInv, Sorts, HandlersOK, KnownCovers, Usable
  <1>9. CASE ApplyNow
    BY <1>9, BatchType
       DEF ApplyNow, Commit, disk, ContentsInv, TypeInv, Sorts, HandlersOK,
           KnownCovers, Usable, IdleMutation, After
  <1>10. CASE ApplyHashed
    BY <1>10
       DEF ApplyHashed, Commit, disk, ContentsInv, TypeInv, Sorts, HandlersOK,
           KnownCovers, Usable, IdleMutation, Mutations
  <1>11. CASE Purge
    BY <1>11
       DEF Purge, Commit, Flush, disk, handlers, ContentsInv, TypeInv, Sorts,
           HandlersOK, KnownCovers, Usable
  <1>12. CASE SetSyncedSettings
    BY <1>12
       DEF SetSyncedSettings, Commit, Flush, disk, handlers, ContentsInv,
           TypeInv, Sorts, HandlersOK, KnownCovers, Usable
  <1>13. CASE PasswordDerived
    BY <1>13
       DEF PasswordDerived, Commit, Flush, disk, contents, ContentsInv,
           TypeInv, Sorts, HandlersOK, KnownCovers, Usable
  <1>14. CASE ReplaceAll
    BY <1>14
       DEF ReplaceAll, ReplaceCommits, disk, IdleReplace, Flush, ContentsInv,
           TypeInv, Sorts, HandlersOK, KnownCovers, Usable
  <1>15. CASE ReplaceHashed
    BY <1>15
       DEF ReplaceHashed, ReplaceCommits, disk, history, Flush, ContentsInv,
           TypeInv, Sorts, HandlersOK, KnownCovers, Usable, IdleReplace,
           Replaces
  <1>16. CASE Create
    BY <1>16
       DEF Create, Fresh, contents, handlers, history, ContentsInv, TypeInv,
           Sorts, LockedHoldsNothing, KnownCovers, Usable, NoItems
  <1>17. CASE UnlockReads
    BY <1>17
       DEF UnlockReads, Fresh, disk, contents, handlers, history, ContentsInv,
           TypeInv, Sorts, HandlersOK, KnownCovers, Usable
  <1>18. CASE Open
    BY <1>18
       DEF Open, disk, handlers, history, ContentsInv, TypeInv, Sorts,
           HandlersOK, KnownCovers, Usable
  <1>19. CASE Adopt
    BY <1>19
       DEF Adopt, Fresh, disk, ReplaceCommits, history, IdleReplace, Flush,
           ContentsInv, TypeInv, Sorts, HandlersOK, KnownCovers, Usable
  <1> QED
    BY Actions, <1>1, <1>2, <1>3, <1>4, <1>5, <1>6, <1>7, <1>8, <1>9, <1>10,
       <1>11, <1>12, <1>13, <1>14, <1>15, <1>16, <1>17, <1>18, <1>19

LEMMA StoresStep ==
    ASSUME ContentsInv, TypeInv', Next
    PROVE  WriterStores'
  <1>1. CASE \/ FlushNow \/ TimerFires \/ ThrowDeferred \/ WriteNothing
             \/ ChangePassword \/ Lock
    BY <1>1, QuietFrame DEF ContentsInv, WriterStores, Usable, Sealed
  <1>2. CASE \/ AdoptionFails \/ OpenRefused \/ LockForgets \/ PanicLock
             \/ Destroy \/ WorkerDies
    BY <1>2, ForgetFrame
       DEF AdoptionFails, OpenRefused, LockForgets, PanicLock, Destroy,
           WorkerDies, ForgetSecrets, disk, IdleWriter, ContentsInv,
           WriterStores, Usable
  <1>3. CASE WritePending
    BY <1>3
       DEF WritePending, disk, contents, handlers, ContentsInv, TypeInv, Sorts,
           AfterSealing, WriterStores, Sealed
  <1>4. CASE StoreBuckets
    BY <1>4
       DEF StoreBuckets, TableCommits, contents, handlers, history,
           ContentsInv, TypeInv, Sorts, Tables, WriterStores, Usable, Sealed,
           Writers
  <1>5. CASE RemoveBuckets
    BY <1>5
       DEF RemoveBuckets, TableCommits, contents, handlers, history,
           ContentsInv, TypeInv, Sorts, Tables, WriterStores, Usable, Sealed,
           Writers
  <1>6. CASE WriteOnlyHeader
    BY <1>6
       DEF WriteOnlyHeader, TableCommits, disk, contents, handlers, history,
           ContentsInv, TypeInv, Sorts, HandlersOK, WriterStores, Usable,
           Sealed, Writers
  <1>7. CASE StoreHeader
    BY <1>7
       DEF StoreHeader, IdleWriter, Resolve, contents, history, IdleRekey,
           ContentsInv, TypeInv, Sorts, HandlersOK, WriterStores, Usable,
           Sealed, Writers
  <1>8. CASE WriteFails
    BY <1>8
       DEF WriteFails, IdleWriter, Reject, disk, contents, IdleRekey,
           ContentsInv, TypeInv, Sorts, HandlersOK, WriterStores, Usable,
           Sealed, Writers
  <1>9. CASE ApplyNow
    BY <1>9
       DEF ApplyNow, Commit, disk, ContentsInv, TypeInv, Sorts, HandlersOK,
           WriterStores, Usable, Sealed, Writers
  <1>10. CASE ApplyHashed
    BY <1>10
       DEF ApplyHashed, Commit, IdleMutation, disk, ContentsInv, TypeInv,
           Sorts, HandlersOK, WriterStores, Usable, Sealed, Writers
  <1>11. CASE Purge
    BY <1>11
       DEF Purge, Commit, Flush, disk, handlers, ContentsInv, TypeInv, Sorts,
           HandlersOK, WriterStores, Usable, Sealed, Writers
  <1>12. CASE SetSyncedSettings
    BY <1>12
       DEF SetSyncedSettings, Commit, Flush, disk, handlers, ContentsInv,
           TypeInv, Sorts, HandlersOK, WriterStores, Usable, Sealed, Writers
  <1>13. CASE PasswordDerived
    BY <1>13
       DEF PasswordDerived, Commit, Flush, disk, contents, ContentsInv,
           TypeInv, Sorts, HandlersOK, WriterStores, Usable, Sealed, Writers
  <1>14. CASE ReplaceAll
    BY <1>14
       DEF ReplaceAll, ReplaceCommits, disk, IdleReplace, Flush, ContentsInv,
           TypeInv, Sorts, HandlersOK, WriterStores, Usable, Sealed, Writers
  <1>15. CASE ReplaceHashed
    BY <1>15
       DEF ReplaceHashed, ReplaceCommits, disk, history, IdleReplace, Flush,
           ContentsInv, TypeInv, Sorts, HandlersOK, WriterStores, Usable,
           Sealed, Writers
  <1>16. CASE Create
    BY <1>16
       DEF Create, Fresh, contents, handlers, history, ContentsInv, TypeInv,
           Sorts, HandlersOK, WriterStores, Usable, Sealed, Writers
  <1>17. CASE UnlockReads
    BY <1>17
       DEF UnlockReads, Fresh, disk, contents, handlers, history, ContentsInv,
           TypeInv, Sorts, HandlersOK, WriterStores, Usable, Sealed, Writers
  <1>18. CASE Open
    BY <1>18, IdlePc
       DEF Open, disk, handlers, history, ContentsInv, TypeInv, HandlersOK,
           WriterStores
  <1>19. CASE Adopt
    BY <1>19
       DEF Adopt, Fresh, disk, ReplaceCommits, history, IdleReplace, Flush,
           ContentsInv, TypeInv, Sorts, HandlersOK, WriterStores, Usable,
           Sealed, Writers
  <1> QED
    BY Actions, <1>1, <1>2, <1>3, <1>4, <1>5, <1>6, <1>7, <1>8, <1>9, <1>10,
       <1>11, <1>12, <1>13, <1>14, <1>15, <1>16, <1>17, <1>18, <1>19

(* A call that changes an item or the settings leaves every bucket it      *)
(* changed to somebody: dirty, or still to be hashed.                      *)
LEMMA ChangedAreUnsettled ==
    ASSUME ContentsInv, TypeInv',
           ApplyNow \/ ApplyHashed \/ Purge \/ SetSyncedSettings,
           NEW b \in Buckets \ Unsettled'
    PROVE  /\ b \notin Unsettled
           /\ Now(b)' = Now(b)
           /\ UNCHANGED <<storedBuckets, writer, phase>>
  <1>1. CASE ApplyNow
    <2>1. PICK batch \in Batches : \E passed \in SUBSET (DOMAIN batch \cap known) :
            /\ items' = After(items, batch)
            /\ dirty' = dirty \cup BucketsOf(passed)
            /\ IF DOMAIN batch \ passed = {}
                 THEN UNCHANGED mutation
                 ELSE mutation'.todo = DOMAIN batch \ passed
      BY <1>1 DEF ApplyNow
    <2>2. UNCHANGED <<settings, replace, storedBuckets, writer, phase>>
      BY <1>1 DEF ApplyNow, disk
    <2>3. mutation.todo = {} /\ DOMAIN batch \in SUBSET Ids
      BY <1>1, BatchType
         DEF ApplyNow, ContentsInv, TypeInv, Sorts, HandlersOK, IdleMutation
    <2>4. \A i \in DOMAIN batch : BucketOf[i] \in Unsettled'
      BY <2>1 DEF Unsettled, BucketsOf
    <2>5. \A i \in Ids : BucketOf[i] = b => items'[i] = items[i]
      BY <2>1, <2>4 DEF After, ContentsInv, TypeInv, Sorts, ItemMaps
    <2>6. Now(b)' = Now(b)
      BY <2>2, <2>5, PayloadLocal DEF Now, ContentsInv, TypeInv, Sorts
    <2> QED
      BY <2>1, <2>2, <2>3, <2>6 DEF Unsettled, BucketsOf
  <1>2. CASE ApplyHashed
    <2>0. mutation \in Mutations
      BY DEF ContentsInv, TypeInv, Sorts
    <2>1. PICK i \in mutation.todo :
            \E passed \in SUBSET ((mutation.todo \ {i}) \cap known) :
              LET rest == mutation.todo \ (passed \cup {i})
              IN  /\ dirty' = dirty \cup BucketsOf(passed \cup {i})
                  /\ IF rest = {}
                       THEN mutation' = IdleMutation
                       ELSE mutation' = [mutation EXCEPT !.todo = rest]
      BY <1>2 DEF ApplyHashed
    <2>2. UNCHANGED <<items, settings, replace, storedBuckets, writer, phase>>
      BY <1>2 DEF ApplyHashed, disk
    <2>3. Unsettled \subseteq Unsettled'
      BY <2>0, <2>1, <2>2 DEF Unsettled, BucketsOf, IdleMutation, Mutations
    <2> QED
      BY <2>2, <2>3 DEF Now
  <1>3. CASE Purge
    <2>1. PICK ids \in SUBSET {i \in Ids : items[i] = Tombstone} :
            /\ items' = [i \in Ids |-> IF i \in ids THEN Absent ELSE items[i]]
            /\ dirty' = dirty \cup BucketsOf(ids \cap known)
      BY <1>3 DEF Purge
    <2>2. /\ UNCHANGED <<settings, mutation, replace, storedBuckets, writer, phase>>
          /\ Usable
      BY <1>3 DEF Purge, disk, handlers, Usable
    <2>3. Unsettled \subseteq Unsettled'
      BY <2>1, <2>2 DEF Unsettled
    <2>4. \A i \in ids : items[i] # Absent
      BY ConstantsAssumption
    <2>5. \A i \in ids : i \in known \cup mutation.todo \cup replace.todo
      BY <2>2, <2>4 DEF ContentsInv, KnownCovers
    <2>6. replace.pc = "idle" => replace.todo = {}
      BY DEF ContentsInv, TypeInv, HandlersOK, IdleReplace
    <2>7. replace.pc # "idle" => Unsettled' = Buckets \cup Unsettled'
      BY <2>2 DEF Unsettled
    <2>8. \A i \in ids : BucketOf[i] \in Unsettled'
      BY <2>1, <2>2, <2>5, <2>6, <2>7, ConstantsAssumption
         DEF Unsettled, BucketsOf
    <2>9. Now(b)' = Now(b)
      BY <2>1, <2>2, <2>8, PayloadLocal DEF Now, ContentsInv, TypeInv, Sorts
    <2> QED
      BY <2>2, <2>3, <2>9
  <1>4. CASE SetSyncedSettings
    <2>1. /\ UNCHANGED <<items, mutation, replace, storedBuckets, writer, phase>>
          /\ dirty' = dirty \cup {SettingsBucket}
      BY <1>4 DEF SetSyncedSettings, disk, handlers
    <2>2. Unsettled \subseteq Unsettled' /\ b # SettingsBucket
      BY <2>1 DEF Unsettled
    <2>3. Now(b)' = Now(b)
      BY <2>1, <2>2, PayloadLocal DEF Now, ContentsInv, TypeInv, Sorts
    <2> QED
      BY <2>1, <2>2, <2>3
  <1> QED
    BY <1>1, <1>2, <1>3, <1>4

LEMMA AgreesStep ==
    ASSUME ContentsInv, TypeInv', Next
    PROVE  WriterAgrees'
  <1>1. CASE \/ FlushNow \/ TimerFires \/ ThrowDeferred \/ WriteNothing
             \/ ChangePassword \/ Lock
    BY <1>1, QuietFrame
       DEF ContentsInv, WriterAgrees, Usable, Sealed, Unsettled, Now
  <1>2. CASE \/ AdoptionFails \/ OpenRefused \/ LockForgets \/ PanicLock
             \/ Destroy \/ WorkerDies
    BY <1>2, ForgetFrame
       DEF ForgetSecrets, WriterAgrees, Usable, Sealed, Unsettled, Now
  <1>3. CASE WritePending
    BY <1>3
       DEF WritePending, disk, contents, handlers, ContentsInv, TypeInv, Sorts,
           HandlersOK, WriterAgrees, Usable, Sealed, Writers, Unsettled, Now,
           BucketsOf
  <1>4. CASE StoreBuckets
    BY <1>4
       DEF StoreBuckets, TableCommits, contents, handlers, history,
           ContentsInv, TypeInv, Sorts, HandlersOK, WriterAgrees, Usable,
           Sealed, Writers, Unsettled, Now, BucketsOf
  <1>5. CASE RemoveBuckets
    BY <1>5
       DEF RemoveBuckets, TableCommits, contents, handlers, history,
           ContentsInv, TypeInv, Sorts, HandlersOK, WriterAgrees, Usable,
           Sealed, Writers, Unsettled, Now, BucketsOf
  <1>6. CASE WriteOnlyHeader
    BY <1>6
       DEF WriteOnlyHeader, TableCommits, disk, contents, handlers, history,
           ContentsInv, TypeInv, Sorts, HandlersOK, WriterAgrees, Usable,
           Sealed, Writers, Unsettled, Now, BucketsOf
  <1>7. CASE StoreHeader
    BY <1>7
       DEF StoreHeader, IdleWriter, Resolve, contents, history, IdleRekey,
           ContentsInv, TypeInv, Sorts, HandlersOK, WriterAgrees, Usable,
           Sealed, Writers, Unsettled, Now, BucketsOf
  <1>8. CASE WriteFails
    BY <1>8
       DEF WriteFails, IdleWriter, Reject, disk, contents, IdleRekey,
           ContentsInv, TypeInv, Sorts, HandlersOK, WriterAgrees, Usable,
           Sealed, Writers, Unsettled, Now, BucketsOf
  <1>9. CASE ApplyNow
    <2>1. UNCHANGED <<writer, phase, storedBuckets>>
      BY <1>9 DEF ApplyNow, disk
    <2> QED
      BY <1>9, <2>1, ChangedAreUnsettled
         DEF ContentsInv, WriterAgrees, Usable, Sealed, TypeInv, Sorts, Writers
  <1>10. CASE ApplyHashed
    <2>1. UNCHANGED <<writer, phase, storedBuckets>>
      BY <1>10 DEF ApplyHashed, disk
    <2> QED
      BY <1>10, <2>1, ChangedAreUnsettled
         DEF ContentsInv, WriterAgrees, Usable, Sealed, TypeInv, Sorts, Writers
  <1>11. CASE Purge
    <2>1. UNCHANGED <<writer, phase, storedBuckets>>
      BY <1>11 DEF Purge, disk
    <2> QED
      BY <1>11, <2>1, ChangedAreUnsettled
         DEF ContentsInv, WriterAgrees, Usable, Sealed, TypeInv, Sorts, Writers
  <1>12. CASE SetSyncedSettings
    <2>1. UNCHANGED <<writer, phase, storedBuckets>>
      BY <1>12 DEF SetSyncedSettings, disk
    <2> QED
      BY <1>12, <2>1, ChangedAreUnsettled
         DEF ContentsInv, WriterAgrees, Usable, Sealed, TypeInv, Sorts, Writers
  <1>13. CASE PasswordDerived
    BY <1>13
       DEF PasswordDerived, Commit, Flush, disk, contents, ContentsInv,
           TypeInv, Sorts, HandlersOK, WriterAgrees, Usable, Sealed, Writers,
           Unsettled, Now, BucketsOf
  <1>14. CASE ReplaceAll
    BY <1>14
       DEF ReplaceAll, ReplaceCommits, disk, IdleReplace, Flush, ContentsInv,
           TypeInv, Sorts, HandlersOK, WriterAgrees, Usable, Sealed, Writers,
           Unsettled, Now, BucketsOf
  <1>15. CASE ReplaceHashed
    BY <1>15
       DEF ReplaceHashed, ReplaceCommits, disk, history, IdleReplace, Flush,
           ContentsInv, TypeInv, Sorts, HandlersOK, WriterAgrees, Usable,
           Sealed, Writers, Unsettled, Now, BucketsOf
  <1>16. CASE Create
    BY <1>16
       DEF Create, Fresh, contents, handlers, history, ContentsInv, TypeInv,
           HandlersOK, IdleWriter, WriterAgrees
  <1>17. CASE UnlockReads
    BY <1>17
       DEF UnlockReads, Fresh, disk, contents, handlers, history, ContentsInv,
           TypeInv, Sorts, HandlersOK, WriterAgrees, Usable, Sealed, Writers,
           Unsettled, Now, BucketsOf
  <1>18. CASE Open
    BY <1>18
       DEF Open, disk, handlers, history, ContentsInv, TypeInv, HandlersOK,
           IdleWriter, WriterAgrees
  <1>19. CASE Adopt
    BY <1>19
       DEF Adopt, Fresh, disk, ReplaceCommits, history, IdleReplace, Flush,
           ContentsInv, TypeInv, Sorts, HandlersOK, WriterAgrees, Usable,
           Sealed, Writers, Unsettled, Now, BucketsOf
  <1> QED
    BY Actions, <1>1, <1>2, <1>3, <1>4, <1>5, <1>6, <1>7, <1>8, <1>9, <1>10,
       <1>11, <1>12, <1>13, <1>14, <1>15, <1>16, <1>17, <1>18, <1>19

(* What is read back is what memory then holds, bucket by bucket.          *)
LEMMA OpenedAsListed ==
    ASSUME ContentsInv, Open, NEW b \in Buckets
    PROVE  Now(b)' = header.tags[b]
  <1>1. /\ header \in Headers
        /\ storedBuckets \in Tables
        /\ items' = ItemsIn(header, storedBuckets)
        /\ settings' = SettingsIn(header, storedBuckets)
    BY DEF Open, ContentsInv, TypeInv, Sorts, HandlersOK
  <1>2. items' \in ItemMaps /\ settings' \in Settings
    BY <1>1, OpenType
  <1>3. NoItems \in ItemMaps
    BY EmptyType
  <1>4. CASE header.tags[b] = EmptyPayload
    <2>1. \A i \in Ids : BucketOf[i] = b => items'[i] = NoItems[i]
      BY <1>1, <1>4 DEF ItemsIn, NoItems
    <2>2. b = SettingsBucket => settings' = NoSettings
      BY <1>1, <1>4 DEF SettingsIn
    <2>3. Now(b)' = Payload(b, NoItems, NoSettings)
      BY <1>2, <1>3, <2>1, <2>2, PayloadLocal DEF Now
    <2> QED
      BY <1>4, <2>3, EmptyShape
  <1>5. CASE header.tags[b] # EmptyPayload
    <2>1. storedBuckets[b] = header.tags[b]
      BY <1>5 DEF Open, Opens
    <2>2. storedBuckets[b].items \in ItemMaps
      BY <1>1 DEF Tables, Payloads
    <2>3. \A i \in Ids :
            BucketOf[i] = b => items'[i] = storedBuckets[b].items[i]
      BY <1>1, <1>5 DEF ItemsIn
    <2>4. b = SettingsBucket => settings' = storedBuckets[b].settings
      BY <1>1, <1>5 DEF SettingsIn
    <2>5. Now(b)' = Payload(b, storedBuckets[b].items,
                               storedBuckets[b].settings)
      BY <1>2, <2>2, <2>3, <2>4, PayloadLocal DEF Now
    <2> QED
      BY <2>1, <2>5 DEF ContentsInv, StoredShape
  <1> QED
    BY <1>4, <1>5

LEMMA StrandedStep ==
    ASSUME ContentsInv, TypeInv', Next
    PROVE  NothingStranded'
  <1>1. CASE \/ FlushNow \/ TimerFires \/ ThrowDeferred \/ WriteNothing
             \/ ChangePassword \/ Lock
    BY <1>1, QuietFrame DEF ContentsInv, NothingStranded, Pending, Usable
  <1>2. CASE \/ AdoptionFails \/ OpenRefused \/ LockForgets \/ PanicLock
             \/ Destroy \/ WorkerDies
    BY <1>2, ForgetFrame DEF ForgetSecrets, NothingStranded, Pending, Usable
  <1>3. CASE WritePending
    BY <1>3
       DEF WritePending, disk, contents, handlers, ContentsInv, TypeInv,
           HandlersOK, IdleWriter, NothingStranded, Pending, Usable
  <1>4. CASE StoreBuckets
    BY <1>4
       DEF StoreBuckets, TableCommits, contents, handlers, history,
           ContentsInv, TypeInv, Sorts, NothingStranded, Pending, Usable,
           BucketsOf, Writers, Tables
  <1>5. CASE RemoveBuckets
    BY <1>5
       DEF RemoveBuckets, TableCommits, contents, handlers, history,
           ContentsInv, TypeInv, Sorts, NothingStranded, Pending, Usable,
           BucketsOf, Writers, Tables
  <1>6. CASE WriteOnlyHeader
    BY <1>6
       DEF WriteOnlyHeader, TableCommits, disk, contents, handlers, history,
           ContentsInv, TypeInv, Sorts, HandlersOK, NothingStranded, Pending,
           Usable, BucketsOf
  <1>7. CASE StoreHeader
    BY <1>7
       DEF StoreHeader, Resolve, contents, history, ContentsInv, TypeInv,
           Sorts, HandlersOK, Writers, WriterStores, WriterAgrees,
           NothingStranded, Pending, Usable, Unsettled, Now, IdleWriter
  <1>8. CASE WriteFails
    BY <1>8
       DEF WriteFails, IdleWriter, Reject, disk, contents, IdleRekey,
           ContentsInv, TypeInv, Sorts, NothingStranded, Pending, Usable,
           BucketsOf, HandlersOK
  <1>9. CASE ApplyNow
    <2>1. UNCHANGED <<writer, phase, storedBuckets>>
      BY <1>9 DEF ApplyNow, disk
    <2> QED
      BY <1>9, <2>1, ChangedAreUnsettled
         DEF ContentsInv, NothingStranded, Usable, Pending, Unsettled, Now
  <1>10. CASE ApplyHashed
    <2>1. UNCHANGED <<writer, phase, storedBuckets>>
      BY <1>10 DEF ApplyHashed, disk
    <2> QED
      BY <1>10, <2>1, ChangedAreUnsettled
         DEF ContentsInv, NothingStranded, Usable, Pending, Unsettled, Now
  <1>11. CASE Purge
    <2>1. UNCHANGED <<writer, phase, storedBuckets>>
      BY <1>11 DEF Purge, disk
    <2> QED
      BY <1>11, <2>1, ChangedAreUnsettled
         DEF ContentsInv, NothingStranded, Usable, Pending, Unsettled, Now
  <1>12. CASE SetSyncedSettings
    <2>1. UNCHANGED <<writer, phase, storedBuckets>>
      BY <1>12 DEF SetSyncedSettings, disk
    <2> QED
      BY <1>12, <2>1, ChangedAreUnsettled
         DEF ContentsInv, NothingStranded, Usable, Pending, Unsettled, Now
  <1>13. CASE PasswordDerived
    BY <1>13
       DEF PasswordDerived, Commit, Flush, disk, contents, ContentsInv,
           TypeInv, Sorts, HandlersOK, NothingStranded, Pending, Usable,
           BucketsOf
  <1>14. CASE ReplaceAll
    BY <1>14
       DEF ReplaceAll, ReplaceCommits, disk, Flush, ContentsInv, TypeInv,
           Sorts, NothingStranded, Pending, Usable, BucketsOf, Replaces
  <1>15. CASE ReplaceHashed
    BY <1>15
       DEF ReplaceHashed, ReplaceCommits, disk, history, IdleReplace, Flush,
           ContentsInv, TypeInv, Sorts, HandlersOK, NothingStranded, Pending,
           Usable, BucketsOf
  <1>16. CASE Create
    BY <1>16, EmptyShape
       DEF Create, Fresh, contents, handlers, history, ContentsInv,
           LockedHoldsNothing, NothingStranded
  <1>17. CASE UnlockReads
    BY <1>17
       DEF UnlockReads, Fresh, disk, contents, handlers, history, ContentsInv,
           TypeInv, Sorts, HandlersOK, NothingStranded, Pending, Usable,
           BucketsOf
  <1>18. CASE Open
    BY <1>18, OpenedAsListed
       DEF Open, Opens, disk, handlers, history, NothingStranded, Now
  <1>19. CASE Adopt
    BY <1>19
       DEF Adopt, Fresh, disk, ReplaceCommits, history, IdleReplace, Flush,
           ContentsInv, TypeInv, Sorts, HandlersOK, NothingStranded, Pending,
           Usable, BucketsOf
  <1> QED
    BY Actions, <1>1, <1>2, <1>3, <1>4, <1>5, <1>6, <1>7, <1>8, <1>9, <1>10,
       <1>11, <1>12, <1>13, <1>14, <1>15, <1>16, <1>17, <1>18, <1>19

LEMMA ContentsInit == Init => ContentsInv
  <1>1. SUFFICES ASSUME Init
                 PROVE  ContentsInv
    OBVIOUS
  <1>2. TypeInv /\ phase = "locked" /\ IdleWriter.pc = "idle"
    BY <1>1, TypeInit, IdlePc DEF Init
  <1>3. StoredShape
    BY <1>1, EmptyShape2 DEF Init, StoredShape
  <1>4. LockedHoldsNothing /\ AdoptingAlone
    BY <1>1 DEF Init, LockedHoldsNothing, AdoptingAlone
  <1>5. WriterStores
    BY <1>1, <1>2 DEF Init, WriterStores
  <1>6. KnownCovers /\ WriterAgrees /\ NothingStranded
    BY <1>2 DEF KnownCovers, WriterAgrees, NothingStranded, Usable
  <1> QED
    BY <1>2, <1>3, <1>4, <1>5, <1>6 DEF ContentsInv

LEMMA ContentsStep == CallsInv /\ ContentsInv /\ [Next]_vars => ContentsInv'
  <1>1. ASSUME ContentsInv, UNCHANGED vars
        PROVE  ContentsInv'
    BY <1>1 DEF vars, ContentsInv, TypeInv, Flags, Sorts, HandlersOK,
                LockedHoldsNothing, AdoptingAlone, StoredShape, KnownCovers,
                WriterStores, WriterAgrees, NothingStranded, Usable, Pending,
                Unsettled, Now, Sealed
  <1>2. ASSUME CallsInv, ContentsInv, Next
        PROVE  ContentsInv'
    <2>1. TypeInv'
      BY <1>2, TypeStep DEF CallsInv
    <2>2. LockedHoldsNothing' /\ AdoptingAlone'
      BY <1>2, <2>1, LockedStep, AdoptingStep
    <2> QED
      BY <1>2, <2>1, <2>2, ShapeStep, KnownStep, StoresStep, AgreesStep,
         StrandedStep
         DEF ContentsInv
  <1> QED
    BY <1>1, <1>2

(* No edit is stranded in memory: a bucket that nobody is going to write   *)
(* is stored as memory has it, whatever edits, merges, failed writes and   *)
(* locks overlapped.                                                       *)
THEOREM NothingIsStranded == Spec => []NothingStranded
  <1>1. ContentsInv => NothingStranded
    BY DEF ContentsInv
  <1> QED
    BY <1>1, CallsInit, CallsStep, ContentsInit, ContentsStep, PTL DEF Spec

-----------------------------------------------------------------------------
(* The bucket table, and what a restart finds *)

(* The table a write is going to put into the header, and the one it has   *)
(* put there, describe what the write leaves and what it wrote.            *)
TableInFlight ==
    Usable /\ ~stale =>
        /\ writer.pc \in {"set", "remove", "commit"} =>
             \A b \in Buckets \ Pending : writer.header.tags[b] = Now(b)
        /\ writer.pc = "header" =>
             \A b \in writer.dirty \ dirty : header.tags[b] = Sealed(b)

(* What the table lists is stored under that tag, unless it is about to be *)
(* written.  A vault being adopted has its header before anything is       *)
(* marked, while replaceAll() hashes.                                      *)
Listed(tags, b) == tags[b] # EmptyPayload => storedBuckets[b] = tags[b]

TagsStored ==
    Usable /\ ~stale =>
        /\ phase = "unlocked" \/ replace.pc = "idle" =>
             \A b \in Buckets \ (dirty \cup writer.dirty) :
                Listed(header.tags, b)
        /\ writer.pc # "idle" =>
             \A b \in Buckets \ writer.dirty : Listed(writer.header.tags, b)

(* The stored header is the one in memory, or it is about to be.           *)
HeaderAgrees ==
    /\ phase = "opening" => storedHeader = header
    /\ Usable /\ writer.pc = "header" /\ ~headerDirty => header = NextHeader
    /\ phase = "unlocked" /\ writer.pc = "idle" /\ ~headerDirty
         => storedHeader = header

TablesInv ==
    /\ ContentsInv
    /\ TableDescribesItems
    /\ TableInFlight
    /\ TagsStored
    /\ HeaderAgrees

LEMMA NextTags ==
    ASSUME writer.header \in Headers, NEW b \in Buckets
    PROVE  NextHeader.tags[b] = IF b \in writer.dirty THEN Sealed(b)
                                                     ELSE writer.header.tags[b]
  BY DEF NextHeader, Headers

(* A call commits a header whose table is the one in memory, or leaves its *)
(* mark.                                                                   *)
LEMMA CommitTags ==
    ASSUME NEW h \in Headers, Commit(h), header \in Headers, stale \in BOOLEAN
    PROVE  stale' \/ (~stale /\ header'.tags = header.tags)
  BY DEF Commit, Headers

LEMMA CallsKeepTable ==
    ASSUME ContentsInv, TypeInv',
           \/ ApplyNow \/ ApplyHashed \/ Purge \/ SetSyncedSettings
           \/ PasswordDerived
    PROVE  /\ stale' \/ (~stale /\ header'.tags = header.tags)
           /\ UNCHANGED <<storedHeader, storedBuckets, writer, phase>>
           /\ dirty \subseteq dirty'
           /\ phase = "unlocked" /\ Usable
           /\ (header' = header /\ headerDirty' = headerDirty) \/ headerDirty'
  <1>1. /\ stale \in BOOLEAN
        /\ phase # "locked" => header \in Headers
        /\ mutation.pc # "idle" => mutation.header \in Headers
        /\ rekey.pc = "deriving" =>
             [rekey.header EXCEPT !.password = rekey.password] \in Headers
        /\ phase # "unlocked" => mutation.pc = "idle" /\ rekey.pc = "idle"
    BY IdlePc
       DEF AdoptingAlone, ContentsInv, TypeInv, Flags, Sorts, HandlersOK,
           Headers
  <1>2. CASE ApplyNow
    BY <1>1, <1>2, CommitTags DEF ApplyNow, Commit, Usable, disk
  <1>3. CASE ApplyHashed
    BY <1>1, <1>3, CommitTags DEF ApplyHashed, Commit, Usable, disk
  <1>4. CASE Purge
    BY <1>1, <1>4, CommitTags DEF Purge, Commit, Usable, disk
  <1>5. CASE SetSyncedSettings
    BY <1>1, <1>5, CommitTags DEF SetSyncedSettings, Commit, Usable, disk
  <1>6. CASE PasswordDerived
    BY <1>1, <1>6, CommitTags DEF PasswordDerived, Commit, Usable, disk
  <1> QED
    BY <1>2, <1>3, <1>4, <1>5, <1>6

(* What #writePending takes into its hands, and what unlock() finds idle.  *)
LEMMA WriteTakes ==
    ASSUME TypeInv, WritePending
    PROVE  /\ writer = IdleWriter /\ writer.dirty = {}
           /\ writer'.pc \in {"set", "remove", "commit"}
           /\ writer'.header = header /\ writer'.dirty = dirty
           /\ writer'.items = items /\ writer'.settings = settings
           /\ dirty' = {} /\ headerDirty' = FALSE
           /\ UNCHANGED <<storedHeader, storedBuckets, phase, header, items,
                          settings, mutation, replace, stale>>
  BY DEF WritePending, AfterSealing, TypeInv, HandlersOK, IdleWriter, disk,
         contents, handlers

LEMMA OpenFinds ==
    ASSUME TypeInv, Open
    PROVE  /\ phase = "opening" /\ phase' = "unlocked"
           /\ dirty' = {} /\ writer' = IdleWriter /\ ~headerDirty'
           /\ writer'.pc = "idle" /\ writer'.dirty = {}
           /\ mutation' = IdleMutation /\ replace' = IdleReplace
           /\ UNCHANGED <<storedHeader, storedBuckets, header, stale>>
  BY IdlePc DEF Open, TypeInv, HandlersOK, IdleWriter, disk, handlers, history

LEMMA AdoptFinds ==
    ASSUME TypeInv, Adopt
    PROVE  /\ phase' = "adopting"
           /\ writer' = IdleWriter
           /\ writer'.pc = "idle" /\ writer'.dirty = {}
           /\ replace'.pc = "hashing" \/ (dirty' = Buckets /\ headerDirty')
  BY IdlePc DEF Adopt, Fresh, ReplaceCommits, TypeInv, HandlersOK, IdleWriter

LEMMA PasswordKeeps ==
    ASSUME TypeInv, PasswordDerived
    PROVE  UNCHANGED <<items, settings, mutation, replace, dirty>>
  BY DEF PasswordDerived, contents

LEMMA DescribesStep ==
    ASSUME TablesInv, TypeInv', Next
    PROVE  TableDescribesItems'
  <1>1. CASE \/ FlushNow \/ TimerFires \/ ThrowDeferred \/ WriteNothing
             \/ ChangePassword \/ Lock
    BY <1>1, QuietFrame
       DEF TablesInv, ContentsInv, TableDescribesItems, Pending, Usable
  <1>2. CASE \/ AdoptionFails \/ OpenRefused \/ LockForgets \/ PanicLock
             \/ Destroy \/ WorkerDies
    BY <1>2, ForgetFrame DEF ForgetSecrets, TableDescribesItems, Usable
  <1>3. CASE WritePending
    BY <1>3, WriteTakes
       DEF TablesInv, ContentsInv, TableDescribesItems, Usable, Pending, Now
  <1>4. CASE StoreBuckets
    BY <1>4, NextTags
       DEF StoreBuckets, TableCommits, contents, handlers, history, TablesInv,
           ContentsInv, TypeInv, Sorts, HandlersOK, Usable,
           TableDescribesItems, Pending, BucketsOf, TableInFlight, Now, Writers
  <1>5. CASE RemoveBuckets
    BY <1>5, NextTags
       DEF RemoveBuckets, TableCommits, contents, handlers, history, TablesInv,
           ContentsInv, TypeInv, Sorts, HandlersOK, Usable,
           TableDescribesItems, Pending, BucketsOf, TableInFlight, Now, Writers
  <1>6. CASE WriteOnlyHeader
    BY <1>6, NextTags
       DEF WriteOnlyHeader, TableCommits, disk, contents, handlers, history,
           TablesInv, ContentsInv, TypeInv, Sorts, HandlersOK, Usable,
           TableDescribesItems, Pending, BucketsOf, TableInFlight, Now, Writers
  <1>7. CASE StoreHeader
    BY <1>7
       DEF StoreHeader, Resolve, IdleWriter, contents, history, TablesInv,
           ContentsInv, TypeInv, Sorts, HandlersOK, Usable,
           TableDescribesItems, Pending, BucketsOf, TableInFlight,
           WriterAgrees, Unsettled, Now, Writers
  <1>8. CASE WriteFails
    BY <1>8
       DEF WriteFails, Reject, IdleWriter, disk, contents, TablesInv,
           ContentsInv, TypeInv, Sorts, HandlersOK, Usable,
           TableDescribesItems, Pending, BucketsOf
  <1>9. CASE ApplyNow
    BY <1>9, CallsKeepTable, ChangedAreUnsettled
       DEF TablesInv, ContentsInv, TableDescribesItems, Usable, Pending,
           Unsettled, Now
  <1>10. CASE ApplyHashed
    BY <1>10, CallsKeepTable, ChangedAreUnsettled
       DEF TablesInv, ContentsInv, TableDescribesItems, Usable, Pending,
           Unsettled, Now
  <1>11. CASE Purge
    BY <1>11, CallsKeepTable, ChangedAreUnsettled
       DEF TablesInv, ContentsInv, TableDescribesItems, Usable, Pending,
           Unsettled, Now
  <1>12. CASE SetSyncedSettings
    BY <1>12, CallsKeepTable, ChangedAreUnsettled
       DEF TablesInv, ContentsInv, TableDescribesItems, Usable, Pending,
           Unsettled, Now
  <1>13. CASE PasswordDerived
    BY <1>13, CallsKeepTable, PasswordKeeps
       DEF TablesInv, ContentsInv, TableDescribesItems, Usable, Pending, Now
  <1>14. CASE ReplaceAll
    BY <1>14
       DEF ReplaceAll, ReplaceCommits, IdleReplace, Flush, disk, TablesInv,
           ContentsInv, TypeInv, Sorts, HandlersOK, Usable,
           TableDescribesItems, Pending, BucketsOf
  <1>15. CASE ReplaceHashed
    BY <1>15
       DEF ReplaceHashed, ReplaceCommits, IdleReplace, Flush, disk, history,
           TablesInv, ContentsInv, TypeInv, Sorts, HandlersOK, Usable,
           TableDescribesItems, Pending, BucketsOf
  <1>16. CASE Create
    BY <1>16
       DEF Create, Fresh, contents, handlers, history, TablesInv, ContentsInv,
           TypeInv, Sorts, HandlersOK, Usable, TableDescribesItems, Pending,
           BucketsOf, LockedHoldsNothing, Table, Headers
  <1>17. CASE UnlockReads
    BY <1>17
       DEF UnlockReads, Fresh, disk, contents, handlers, history, TablesInv,
           ContentsInv, TypeInv, Sorts, HandlersOK, Usable,
           TableDescribesItems, Pending, BucketsOf
  <1>18. CASE Open
    BY <1>18, OpenedAsListed
       DEF Open, disk, handlers, history, TablesInv, ContentsInv, TypeInv,
           Sorts, HandlersOK, Usable, TableDescribesItems, Pending, BucketsOf,
           Now
  <1>19. CASE Adopt
    BY <1>19
       DEF Adopt, Fresh, ReplaceCommits, IdleReplace, Flush, disk, history,
           TablesInv, ContentsInv, TypeInv, Sorts, HandlersOK, Usable,
           TableDescribesItems, Pending, BucketsOf
  <1> QED
    BY Actions, <1>1, <1>2, <1>3, <1>4, <1>5, <1>6, <1>7, <1>8, <1>9, <1>10,
       <1>11, <1>12, <1>13, <1>14, <1>15, <1>16, <1>17, <1>18, <1>19

LEMMA InFlightStep ==
    ASSUME TablesInv, TypeInv', Next
    PROVE  TableInFlight'
  <1>1. CASE \/ FlushNow \/ TimerFires \/ ThrowDeferred \/ WriteNothing
             \/ ChangePassword \/ Lock
    BY <1>1, QuietFrame
       DEF TablesInv, ContentsInv, TableInFlight, Pending, Usable, Now, Sealed
  <1>2. CASE \/ AdoptionFails \/ OpenRefused \/ LockForgets \/ PanicLock
             \/ Destroy \/ WorkerDies
    BY <1>2, ForgetFrame DEF ForgetSecrets, TableInFlight, Usable
  <1>3. CASE WritePending
    BY <1>3, WriteTakes
       DEF TablesInv, ContentsInv, TableInFlight, Usable,
           TableDescribesItems, Pending, Now
  <1>4. CASE StoreBuckets
    BY <1>4, NextTags
       DEF StoreBuckets, TableCommits, contents, handlers, history, TablesInv,
           ContentsInv, TypeInv, Sorts, HandlersOK, Usable, TableInFlight,
           Pending, Now, Sealed, BucketsOf, Writers
  <1>5. CASE RemoveBuckets
    BY <1>5, NextTags
       DEF RemoveBuckets, TableCommits, contents, handlers, history, TablesInv,
           ContentsInv, TypeInv, Sorts, HandlersOK, Usable, TableInFlight,
           Pending, Now, Sealed, BucketsOf, Writers
  <1>6. CASE WriteOnlyHeader
    BY <1>6, NextTags
       DEF WriteOnlyHeader, TableCommits, disk, contents, handlers, history,
           TablesInv, ContentsInv, TypeInv, Sorts, HandlersOK, Usable,
           TableInFlight, Pending, Now, Sealed, BucketsOf, Writers
  <1>7. CASE StoreHeader
    BY <1>7
       DEF StoreHeader, Resolve, IdleWriter, contents, history, TablesInv,
           ContentsInv, TypeInv, Sorts, HandlersOK, Usable, TableInFlight,
           Pending, Now, Sealed, BucketsOf, Writers
  <1>8. CASE WriteFails
    BY <1>8
       DEF WriteFails, Reject, IdleWriter, disk, contents, TablesInv,
           ContentsInv, TypeInv, Sorts, HandlersOK, Usable, TableInFlight,
           Pending, Now, Sealed, BucketsOf, Writers
  <1>9. CASE ApplyNow
    BY <1>9, CallsKeepTable, ChangedAreUnsettled
       DEF TablesInv, ContentsInv, TableInFlight, Usable, Pending,
           Unsettled, Sealed
  <1>10. CASE ApplyHashed
    BY <1>10, CallsKeepTable, ChangedAreUnsettled
       DEF TablesInv, ContentsInv, TableInFlight, Usable, Pending,
           Unsettled, Sealed
  <1>11. CASE Purge
    BY <1>11, CallsKeepTable, ChangedAreUnsettled
       DEF TablesInv, ContentsInv, TableInFlight, Usable, Pending,
           Unsettled, Sealed
  <1>12. CASE SetSyncedSettings
    BY <1>12, CallsKeepTable, ChangedAreUnsettled
       DEF TablesInv, ContentsInv, TableInFlight, Usable, Pending,
           Unsettled, Sealed
  <1>13. CASE PasswordDerived
    BY <1>13, CallsKeepTable, PasswordKeeps
       DEF TablesInv, ContentsInv, TableInFlight, Usable, Pending, Now, Sealed
  <1>14. CASE ReplaceAll
    BY <1>14
       DEF ReplaceAll, ReplaceCommits, IdleReplace, Flush, disk, TablesInv,
           ContentsInv, TypeInv, Sorts, HandlersOK, Usable, TableInFlight,
           Pending, Now, Sealed, BucketsOf, Writers
  <1>15. CASE ReplaceHashed
    BY <1>15
       DEF ReplaceHashed, ReplaceCommits, IdleReplace, Flush, disk, history,
           TablesInv, ContentsInv, TypeInv, Sorts, HandlersOK, Usable,
           TableInFlight, Pending, Now, Sealed, BucketsOf, Writers
  <1>16. CASE Create
    BY <1>16
       DEF Create, Fresh, contents, handlers, history, TablesInv, ContentsInv,
           TypeInv, Sorts, HandlersOK, Usable, TableInFlight, Pending, Now,
           Sealed, BucketsOf, Writers
  <1>17. CASE UnlockReads
    BY <1>17
       DEF UnlockReads, Fresh, disk, contents, handlers, history, TablesInv,
           ContentsInv, TypeInv, Sorts, HandlersOK, Usable, TableInFlight,
           Pending, Now, Sealed, BucketsOf, Writers
  <1>18. CASE Open
    BY <1>18, OpenFinds
       DEF TablesInv, ContentsInv, TableInFlight, Usable
  <1>19. CASE Adopt
    BY <1>19
       DEF Adopt, Fresh, ReplaceCommits, IdleReplace, Flush, disk, history,
           TablesInv, ContentsInv, TypeInv, Sorts, HandlersOK, Usable,
           TableInFlight, Pending, Now, Sealed, BucketsOf, Writers
  <1> QED
    BY Actions, <1>1, <1>2, <1>3, <1>4, <1>5, <1>6, <1>7, <1>8, <1>9, <1>10,
       <1>11, <1>12, <1>13, <1>14, <1>15, <1>16, <1>17, <1>18, <1>19

LEMMA TagsStep ==
    ASSUME TablesInv, TypeInv', Next
    PROVE  TagsStored'
  <1>1. CASE \/ FlushNow \/ TimerFires \/ ThrowDeferred \/ WriteNothing
             \/ ChangePassword \/ Lock
    BY <1>1, QuietFrame DEF TablesInv, ContentsInv, TagsStored, Listed, Usable
  <1>2. CASE \/ AdoptionFails \/ OpenRefused \/ LockForgets \/ PanicLock
             \/ Destroy \/ WorkerDies
    BY <1>2, ForgetFrame DEF ForgetSecrets, TagsStored, Usable
  <1>3. CASE WritePending
    BY <1>3, WriteTakes
       DEF TablesInv, ContentsInv, TagsStored, Usable, Listed,
           AdoptingAlone, WritePending
  <1>4. CASE StoreBuckets
    <2>1. /\ UNCHANGED <<phase, dirty, replace, stale>>
          /\ writer.header \in Headers
          /\ writer.pc = "set"
      BY <1>4
         DEF StoreBuckets, handlers, history, TablesInv, ContentsInv, TypeInv,
             HandlersOK
    <2>2. \A b \in Buckets \ writer.dirty :
            storedBuckets'[b] = storedBuckets[b]
      BY <1>4 DEF StoreBuckets
    <2>3. /\ writer'.dirty = writer.dirty /\ writer'.header = writer.header
          /\ header' = header \/ header' = NextHeader \/ phase = "locked"
      BY <1>4 DEF StoreBuckets, TableCommits, TablesInv, ContentsInv, TypeInv,
               Sorts, Writers
    <2>4. \A b \in Buckets \ writer.dirty :
            NextHeader.tags[b] = writer.header.tags[b]
      BY <2>1, NextTags
    <2> QED
      BY <2>1, <2>2, <2>3, <2>4 DEF TablesInv, TagsStored, Listed, Usable
  <1>5. CASE RemoveBuckets
    BY <1>5, NextTags
       DEF RemoveBuckets, TableCommits, contents, handlers, history, TablesInv,
           ContentsInv, TypeInv, Sorts, HandlersOK, Usable, TagsStored, Listed,
           Writers, Tables, WriterStores, Sealed
  <1>6. CASE WriteOnlyHeader
    BY <1>6, NextTags
       DEF WriteOnlyHeader, TableCommits, disk, contents, handlers, history,
           TablesInv, ContentsInv, TypeInv, Sorts, HandlersOK, Usable,
           TagsStored, Listed, Writers, Tables, WriterStores, Sealed
  <1>7. CASE StoreHeader
    BY <1>7
       DEF StoreHeader, Resolve, IdleWriter, contents, history, TablesInv,
           ContentsInv, TypeInv, Sorts, HandlersOK, Usable, TagsStored, Listed,
           Writers, Tables, AdoptingAlone, TableInFlight, WriterStores, Sealed
  <1>8. CASE WriteFails
    BY <1>8
       DEF WriteFails, Reject, IdleWriter, disk, contents, TablesInv,
           ContentsInv, TypeInv, Sorts, HandlersOK, Usable, TagsStored, Listed,
           Writers, Tables
  <1>9. CASE ApplyNow
    BY <1>9, CallsKeepTable
       DEF TablesInv, ContentsInv, TagsStored, Usable, Listed
  <1>10. CASE ApplyHashed
    BY <1>10, CallsKeepTable
       DEF TablesInv, ContentsInv, TagsStored, Usable, Listed
  <1>11. CASE Purge
    BY <1>11, CallsKeepTable
       DEF TablesInv, ContentsInv, TagsStored, Usable, Listed
  <1>12. CASE SetSyncedSettings
    BY <1>12, CallsKeepTable
       DEF TablesInv, ContentsInv, TagsStored, Usable, Listed
  <1>13. CASE PasswordDerived
    BY <1>13, CallsKeepTable, PasswordKeeps
       DEF TablesInv, ContentsInv, TagsStored, Usable, Listed
  <1>14. CASE ReplaceAll
    BY <1>14
       DEF ReplaceAll, ReplaceCommits, IdleReplace, Flush, disk, TablesInv,
           ContentsInv, TypeInv, Sorts, HandlersOK, Usable, TagsStored, Listed,
           Writers, Tables
  <1>15. CASE ReplaceHashed
    BY <1>15
       DEF ReplaceHashed, ReplaceCommits, IdleReplace, Flush, disk, history,
           TablesInv, ContentsInv, TypeInv, Sorts, HandlersOK, Usable,
           TagsStored, Listed, Writers, Tables
  <1>16. CASE Create
    BY <1>16, EmptyShape
       DEF Create, Fresh, contents, handlers, history, TablesInv, ContentsInv,
           TypeInv, Sorts, HandlersOK, Usable, TagsStored, Listed, Writers,
           Tables, Table, Headers
  <1>17. CASE UnlockReads
    BY <1>17
       DEF UnlockReads, Fresh, disk, contents, handlers, history, TablesInv,
           ContentsInv, TypeInv, Sorts, HandlersOK, Usable, TagsStored, Listed,
           Writers, Tables
  <1>18. CASE Open
    BY <1>18, OpenFinds
       DEF TablesInv, ContentsInv, TagsStored, Usable, Listed, Open, Opens
  <1>19. CASE Adopt
    BY <1>19, AdoptFinds
       DEF TablesInv, ContentsInv, TagsStored, Usable, Listed
  <1> QED
    BY Actions, <1>1, <1>2, <1>3, <1>4, <1>5, <1>6, <1>7, <1>8, <1>9, <1>10,
       <1>11, <1>12, <1>13, <1>14, <1>15, <1>16, <1>17, <1>18, <1>19

LEMMA HeaderStep ==
    ASSUME TablesInv, TypeInv', Next
    PROVE  HeaderAgrees'
  <1>1. CASE \/ FlushNow \/ TimerFires \/ ThrowDeferred \/ WriteNothing
             \/ ChangePassword \/ Lock
    BY <1>1, QuietFrame
       DEF TablesInv, ContentsInv, HeaderAgrees, Usable, NextHeader, Sealed
  <1>2. CASE \/ AdoptionFails \/ OpenRefused \/ LockForgets \/ PanicLock
             \/ Destroy \/ WorkerDies
    BY <1>2, ForgetFrame DEF ForgetSecrets, HeaderAgrees, Usable
  <1>3. CASE WritePending
    BY <1>3
       DEF WritePending, AfterSealing, disk, contents, handlers, TablesInv,
           ContentsInv, TypeInv, Sorts, HandlersOK, Usable, HeaderAgrees
  <1>4. CASE StoreBuckets
    BY <1>4
       DEF StoreBuckets, TableCommits, contents, handlers, history, TablesInv,
           ContentsInv, TypeInv, Sorts, HandlersOK, Usable, HeaderAgrees,
           NextHeader, Sealed, Writers
  <1>5. CASE RemoveBuckets
    BY <1>5
       DEF RemoveBuckets, TableCommits, contents, handlers, history, TablesInv,
           ContentsInv, TypeInv, Sorts, HandlersOK, Usable, HeaderAgrees,
           NextHeader, Sealed, Writers
  <1>6. CASE WriteOnlyHeader
    BY <1>6
       DEF WriteOnlyHeader, TableCommits, disk, contents, handlers, history,
           TablesInv, ContentsInv, TypeInv, Sorts, HandlersOK, Usable,
           HeaderAgrees, NextHeader, Sealed, Writers
  <1>7. CASE StoreHeader
    BY <1>7
       DEF StoreHeader, Resolve, IdleWriter, contents, history, TablesInv,
           ContentsInv, TypeInv, Sorts, HandlersOK, Usable, HeaderAgrees,
           NextHeader, Sealed, Writers
  <1>8. CASE WriteFails
    BY <1>8
       DEF WriteFails, Reject, IdleWriter, disk, contents, TablesInv,
           ContentsInv, TypeInv, Sorts, HandlersOK, Usable, HeaderAgrees,
           NextHeader, Sealed, Writers
  <1>9. CASE ApplyNow
    BY <1>9, CallsKeepTable
       DEF TablesInv, ContentsInv, HeaderAgrees, Usable, NextHeader, Sealed
  <1>10. CASE ApplyHashed
    BY <1>10, CallsKeepTable
       DEF TablesInv, ContentsInv, HeaderAgrees, Usable, NextHeader, Sealed
  <1>11. CASE Purge
    BY <1>11, CallsKeepTable
       DEF TablesInv, ContentsInv, HeaderAgrees, Usable, NextHeader, Sealed
  <1>12. CASE SetSyncedSettings
    BY <1>12, CallsKeepTable
       DEF TablesInv, ContentsInv, HeaderAgrees, Usable, NextHeader, Sealed
  <1>13. CASE PasswordDerived
    BY <1>13
       DEF PasswordDerived, Commit, Flush, disk, contents, TablesInv,
           ContentsInv, TypeInv, Sorts, HandlersOK, Usable, HeaderAgrees,
           NextHeader, Sealed, Writers
  <1>14. CASE ReplaceAll
    BY <1>14
       DEF ReplaceAll, ReplaceCommits, IdleReplace, Flush, disk, TablesInv,
           ContentsInv, TypeInv, Sorts, HandlersOK, Usable, HeaderAgrees,
           NextHeader, Sealed, Writers
  <1>15. CASE ReplaceHashed
    BY <1>15
       DEF ReplaceHashed, ReplaceCommits, IdleReplace, Flush, disk, history,
           TablesInv, ContentsInv, TypeInv, Sorts, HandlersOK, Usable,
           HeaderAgrees, NextHeader, Sealed, Writers
  <1>16. CASE Create
    BY <1>16
       DEF Create, Fresh, contents, handlers, history, TablesInv, ContentsInv,
           TypeInv, Sorts, HandlersOK, Usable, HeaderAgrees
  <1>17. CASE UnlockReads
    BY <1>17
       DEF UnlockReads, Fresh, disk, contents, handlers, history, TablesInv,
           ContentsInv, TypeInv, Sorts, HandlersOK, Usable, HeaderAgrees
  <1>18. CASE Open
    BY <1>18, OpenFinds
       DEF TablesInv, ContentsInv, HeaderAgrees, Usable
  <1>19. CASE Adopt
    BY <1>19
       DEF Adopt, Fresh, ReplaceCommits, IdleReplace, Flush, disk, history,
           TablesInv, ContentsInv, TypeInv, Sorts, HandlersOK, Usable,
           HeaderAgrees, NextHeader, Sealed, Writers
  <1> QED
    BY Actions, <1>1, <1>2, <1>3, <1>4, <1>5, <1>6, <1>7, <1>8, <1>9, <1>10,
       <1>11, <1>12, <1>13, <1>14, <1>15, <1>16, <1>17, <1>18, <1>19

LEMMA TablesInit == Init => TablesInv
  <1>1. SUFFICES ASSUME Init
                 PROVE  TablesInv
    OBVIOUS
  <1>2. ContentsInv /\ phase = "locked"
    BY <1>1, ContentsInit DEF Init
  <1> QED
    BY <1>2 DEF TablesInv, TableDescribesItems, TableInFlight, TagsStored,
                HeaderAgrees, Usable

LEMMA TablesStep == CallsInv /\ TablesInv /\ [Next]_vars => TablesInv'
  <1>1. ASSUME CallsInv, TablesInv, UNCHANGED vars
        PROVE  TablesInv'
    <2>1. ContentsInv'
      BY <1>1, ContentsStep DEF TablesInv
    <2> QED
      BY <1>1, <2>1
         DEF vars, TablesInv, TableDescribesItems, TableInFlight, TagsStored,
             HeaderAgrees, Usable, Pending, Listed, NextHeader, Now, Sealed
  <1>2. ASSUME CallsInv, TablesInv, Next
        PROVE  TablesInv'
    <2>1. ContentsInv'
      BY <1>2, ContentsStep DEF TablesInv
    <2>2. TypeInv'
      BY <2>1 DEF ContentsInv
    <2> QED
      BY <1>2, <2>1, <2>2, DescribesStep, InFlightStep, TagsStep, HeaderStep
         DEF TablesInv
  <1> QED
    BY <1>1, <1>2

(* The tags unlock() verifies are right: whatever overlapped, as long as   *)
(* no commit put back an older table, the bucket table in memory describes *)
(* every bucket nobody is going to write.                                  *)
THEOREM TableAlwaysDescribes == Spec => []TableDescribesItems
  <1>1. TablesInv => TableDescribesItems
    BY DEF TablesInv
  <1> QED
    BY <1>1, CallsInit, CallsStep, TablesInit, TablesStep, PTL DEF Spec

(* What a restart finds of bucket b when the vault is at rest.             *)
LEMMA AtRest ==
    ASSUME TablesInv, Quiet, ~stale, NEW b \in Buckets
    PROVE  /\ storedHeader = header
           /\ header.tags[b] = Now(b)
           /\ header.tags[b] # EmptyPayload
                => storedBuckets[b] = header.tags[b]
  <1>1. writer = IdleWriter /\ mutation = IdleMutation
    BY DEF Quiet, TablesInv, ContentsInv, TypeInv, HandlersOK
  <1>2. Pending = {}
    BY <1>1 DEF Quiet, Pending, IdleWriter, IdleMutation, BucketsOf
  <1> QED
    BY <1>1, <1>2
       DEF Quiet, TablesInv, ContentsInv, HeaderAgrees, TableDescribesItems,
           NothingStranded, Usable, Now

(* A worker that is killed while nothing is pending loses nothing: unlock()*)
(* finds every bucket under its tag, and the items and settings that were  *)
(* in memory.                                                              *)
THEOREM QuietVaultAlwaysReopens == Spec => []QuietVaultReopens
  <1>1. ASSUME TablesInv, Quiet, ~stale
        PROVE  /\ storedHeader = header
               /\ Opens(storedHeader, storedBuckets)
               /\ ItemsIn(storedHeader, storedBuckets) = items
               /\ SettingsIn(storedHeader, storedBuckets) = settings
    <2>1. /\ items \in ItemMaps
          /\ settings \in Settings
          /\ SettingsBucket \in Buckets
          /\ \A i \in Ids : BucketOf[i] \in Buckets
      BY <1>1, ConstantsAssumption DEF TablesInv, ContentsInv, TypeInv, Sorts
    <2>2. storedHeader = header
      BY <1>1, <2>1, AtRest
    <2>3. Opens(header, storedBuckets)
      BY <1>1, AtRest DEF Opens
    <2>4. ASSUME NEW i \in Ids
          PROVE  ItemsIn(header, storedBuckets)[i] = items[i]
      <3>1. /\ header.tags[BucketOf[i]] = Now(BucketOf[i])
            /\ header.tags[BucketOf[i]] # EmptyPayload
                 => storedBuckets[BucketOf[i]] = Now(BucketOf[i])
        BY <1>1, <2>1, AtRest
      <3>2. Now(BucketOf[i]).items[i] = items[i]
        BY DEF Now, Payload
      <3>3. EmptyPayload.items[i] = Absent
        BY DEF EmptyPayload, NoItems
      <3> QED
        BY <3>1, <3>2, <3>3 DEF ItemsIn
    <2>5. ItemsIn(header, storedBuckets) = items
      <3>1. ItemsIn(header, storedBuckets)
              = [i \in Ids |-> ItemsIn(header, storedBuckets)[i]]
        BY DEF ItemsIn
      <3>2. items = [i \in Ids |-> items[i]]
        BY <2>1 DEF ItemMaps
      <3> QED
        BY <2>4, <3>1, <3>2
    <2>6. SettingsIn(header, storedBuckets) = settings
      <3>1. /\ header.tags[SettingsBucket] = Now(SettingsBucket)
            /\ header.tags[SettingsBucket] # EmptyPayload
                 => storedBuckets[SettingsBucket] = Now(SettingsBucket)
        BY <1>1, <2>1, AtRest
      <3>2. Now(SettingsBucket).settings = settings
        BY DEF Now, Payload
      <3>3. EmptyPayload.settings = NoSettings
        BY DEF EmptyPayload
      <3> QED
        BY <3>1, <3>2, <3>3 DEF SettingsIn
    <2> QED
      BY <2>2, <2>3, <2>5, <2>6
  <1>2. TablesInv => QuietVaultReopens
    BY <1>1 DEF QuietVaultReopens
  <1> QED
    BY <1>2, CallsInit, CallsStep, TablesInit, TablesStep, PTL DEF Spec

(* The write order holds at every store of a header: the buckets it lists  *)
(* are already there under the tags it lists.                              *)
THEOREM BucketsStoredBeforeHeader == Spec => BucketsBeforeHeader
  <1>1. ASSUME TablesInv, TypeInv', Next, phase = "unlocked", ~stale,
               storedHeader' # storedHeader, storedHeader' # Null
        PROVE  Opens(storedHeader', storedBuckets)
    <2>1. StoreHeader
      <3>1. CASE \/ FlushNow \/ TimerFires \/ ThrowDeferred \/ WriteNothing
                 \/ ChangePassword \/ Lock
        BY <1>1, <3>1, QuietFrame DEF TablesInv, ContentsInv
      <3>2. CASE \/ AdoptionFails \/ OpenRefused \/ LockForgets
                 \/ PanicLock \/ Destroy \/ WorkerDies
        BY <1>1, <3>2
           DEF AdoptionFails, OpenRefused, LockForgets, PanicLock, Destroy,
               WorkerDies, disk
      <3>3. CASE \/ WritePending \/ StoreBuckets \/ RemoveBuckets
                 \/ WriteOnlyHeader \/ WriteFails
        BY <1>1, <3>3
           DEF WritePending, StoreBuckets, RemoveBuckets, WriteOnlyHeader,
               WriteFails, disk
      <3>4. CASE \/ ApplyNow \/ ApplyHashed \/ Purge \/ SetSyncedSettings
                 \/ PasswordDerived \/ ReplaceAll \/ ReplaceHashed
        BY <1>1, <3>4
           DEF ApplyNow, ApplyHashed, Purge, SetSyncedSettings,
               PasswordDerived, ReplaceAll, ReplaceHashed, disk
      <3>5. CASE \/ Create \/ UnlockReads \/ Open \/ Adopt
        BY <1>1, <3>5 DEF Create, UnlockReads, Open, Adopt, Fresh
      <3> QED
        BY <1>1, Actions, <3>1, <3>2, <3>3, <3>4, <3>5
    <2>2. /\ storedHeader' = NextHeader
          /\ writer.pc = "header"
          /\ writer.header \in Headers
      BY <1>1, <2>1
         DEF StoreHeader, TablesInv, ContentsInv, TypeInv, HandlersOK
    <2>3. ASSUME NEW b \in Buckets, NextHeader.tags[b] # EmptyPayload
          PROVE  storedBuckets[b] = NextHeader.tags[b]
      <3>1. CASE b \in writer.dirty
        BY <1>1, <2>2, <2>3, <3>1, NextTags
           DEF TablesInv, ContentsInv, WriterStores, Usable
      <3>2. CASE b \notin writer.dirty
        BY <1>1, <2>2, <2>3, <3>2, NextTags
           DEF TablesInv, TagsStored, Listed, Usable
      <3> QED
        BY <3>1, <3>2
    <2> QED
      BY <2>2, <2>3 DEF Opens
  <1>2. TablesInv /\ TypeInv' /\ [Next]_vars
          => [ /\ storedHeader' # storedHeader
               /\ storedHeader' # Null
               /\ phase = "unlocked"
               /\ ~stale
               => Opens(storedHeader', storedBuckets) ]_vars
    BY <1>1 DEF vars
  <1>3. CallsInv => TypeInv
    BY DEF CallsInv
  <1> QED
    BY <1>2, <1>3, CallsInit, CallsStep, TablesInit, TablesStep, PTL
       DEF Spec, BucketsBeforeHeader
=============================================================================
