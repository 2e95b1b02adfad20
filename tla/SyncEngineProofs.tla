-------------------------- MODULE SyncEngineProofs --------------------------
(* Theorems about SyncEngine for every set of devices, items and fields,   *)
(* every hash of ids to buckets and every bound, with overlapping runs or  *)
(* without.                                                                *)
EXTENDS SyncEngine, TLAPS

LocalOK == /\ items \in [Devices -> ItemMaps]
           /\ rev \in [Devices -> Nat]
           /\ password \in [Devices -> Nat]

SyncOK == /\ base \in [Devices -> ItemMaps \cup {Null}]
          /\ meta \in [Devices -> Metas \cup {Null}]
          /\ conflicts \in [Devices -> Conflicts]

(* A run that is past its decision has a header in hand: the one it is     *)
(* pushing, or the one it has pulled.                                      *)
HeaderInHand(r) == r.pc \in {"idle", "peek", "pull"} \/ r.header \in Headers

EngineOK == /\ run \in [Devices -> Runs]
            /\ rerun \in [Devices -> BOOLEAN]
            /\ lastError \in [Devices -> {"none", "mismatch"}]
            /\ \A d \in Devices : HeaderInHand(run[d])

RemoteOK == /\ remoteHeader \in Headers \cup {Null}
            /\ remoteParts \in Tables

HistoryOK == /\ typed \in SUBSET (1 .. MaxEdits)
             /\ settled \in SUBSET (1 .. MaxEdits)

CountersOK == /\ edits \in 0 .. MaxEdits
              /\ purges \in 0 .. MaxPurges
              /\ passwords \in 0 .. MaxPasswords
              /\ resolves \in 0 .. MaxResolves
              /\ replaces \in 0 .. MaxReplaces
              /\ faults \in 0 .. MaxFaults

TypeInv == LocalOK /\ SyncOK /\ EngineOK /\ RemoteOK /\ HistoryOK /\ CountersOK

LEMMA TypeInvImplies == TypeInv => TypeOK
  BY DEF TypeInv, LocalOK, SyncOK, EngineOK, RemoteOK, HistoryOK, CountersOK,
         TypeOK

-----------------------------------------------------------------------------
(* What the operators return *)

LEMMA EmptyTypes == NoItems \in ItemMaps /\ NoConflicts \in Conflicts
  BY DEF NoItems, ItemMaps, NoConflicts, Conflicts

LEMMA OriginalType == Original \in Values /\ SharedItems \in ItemMaps
  <1>1. Original \in Values
    BY SyncConstants DEF Original, Values, Texts
  <1> QED
    BY <1>1 DEF SharedItems, ItemMaps

LEMMA TableType ==
    ASSUME NEW its \in ItemMaps
    PROVE  Table(its) \in Tables
  BY DEF Table, Payload, Tables, ItemMaps

LEMMA ItemsInType ==
    ASSUME NEW table \in Tables
    PROVE  ItemsIn(table) \in ItemMaps
  BY SyncConstants DEF ItemsIn, Tables, ItemMaps

LEMMA NotAbsent ==
    ASSUME NEW v \in Values
    PROVE  v # Absent /\ v # Null
  BY SyncConstants

LEMMA TextsType ==
    ASSUME NEW v \in Values \cup {Absent, Null}
    PROVE  TextsIn(v) \subseteq 1 .. MaxEdits
  BY DEF TextsIn, TextIn, Values, Texts

LEMMA JoinedType ==
    ASSUME NEW b \in Values \cup {Absent}, NEW l \in Values, NEW r \in Values
    PROVE  Joined(b, l, r) \in Values
  BY DEF Joined, Values

LEMMA MergeOneType ==
    ASSUME NEW b \in Values \cup {Absent}, NEW l \in Values \cup {Absent},
           NEW r \in Values \cup {Absent}
    PROVE  MergeOne(b, l, r) \in Values \cup {Absent}
  BY JoinedType DEF MergeOne, OneSided

LEMMA OutboundType ==
    ASSUME NEW its \in ItemMaps, NEW pending \in Conflicts
    PROVE  OutboundView(its, pending) \in ItemMaps
  BY DEF OutboundView, ItemMaps, Conflicts

LEMMA PendingType ==
    ASSUME NEW b \in ItemMaps, NEW l \in ItemMaps, NEW r \in ItemMaps,
           NEW pending \in Conflicts
    PROVE  Pending(b, l, r, pending) \in Conflicts
  BY DEF Pending, Conflicting, ItemMaps, Conflicts

LEMMA AdoptedType ==
    ASSUME NEW mine \in Values, NEW theirs \in Values,
           NEW n \in 0 .. MaxEdits + MaxResolves
    PROVE  Adopted(mine, theirs, n) \in Values
  BY DEF Adopted, Values

LEMMA IdleRunType ==
    /\ IdleRun \in Runs
    /\ \A force \in BOOLEAN :
         [IdleRun EXCEPT !.pc = "peek", !.force = force] \in Runs
    /\ IdleRun.pc = "idle"
  BY EmptyTypes DEF IdleRun, Runs, Pcs

LEMMA PublishedType ==
    ASSUME TypeInv, NEW d \in Devices, NEW its \in ItemMaps,
           NEW pending \in Conflicts, NEW number \in Nat,
           NEW expect \in Headers \cup {Null}
    PROVE  LET p == Published(d, its, pending, number, expect)
           IN  /\ p \in Runs
               /\ p.header \in Headers
               /\ p.pc = "check"
  <1> DEFINE out == OutboundView(its, pending)
             h == [rev |-> number, by |-> d, tags |-> Table(out),
                   password |-> password[d]]
  <1>1. out \in ItemMaps
    BY OutboundType
  <1>2. h \in Headers
    BY <1>1, TableType DEF TypeInv, LocalOK, Headers
  <1>3. Published(d, its, pending, number, expect)
          = [run[d] EXCEPT !.pc = "check", !.stamp = expect,
                           !.pending = pending, !.sent = out, !.header = h]
    BY DEF Published
  <1>4. run[d] \in Runs
    BY DEF TypeInv, EngineOK
  <1> HIDE DEF out, h
  <1> QED
    BY <1>1, <1>2, <1>3, <1>4, ZenonT(60) DEF Runs, Pcs

LEMMA PublishLocalType ==
    ASSUME TypeInv, NEW d \in Devices, NEW pending \in Conflicts,
           NEW expect \in Headers \cup {Null}
    PROVE  LET p == PublishLocal(d, pending, expect)
           IN  /\ p \in Runs
               /\ p.header \in Headers
               /\ p.pc = "check"
  BY PublishedType DEF PublishLocal, TypeInv, LocalOK

-----------------------------------------------------------------------------
(* How the engine's own state is handed on *)

LEMMA ProceedType ==
    ASSUME TypeInv, NEW d \in Devices, NEW next \in Runs, HeaderInHand(next),
           Proceed(d, next)
    PROVE  EngineOK'
  BY DEF Proceed, TypeInv, EngineOK, HeaderInHand

LEMMA EndRunType ==
    ASSUME TypeInv, NEW d \in Devices, NEW error \in {"none", "mismatch"},
           EndRun(d, error)
    PROVE  EngineOK'
  <1> DEFINE next == IF rerun[d]
                       THEN [IdleRun EXCEPT !.pc = "peek", !.force = run[d].force]
                       ELSE IdleRun
  <1>1. next \in Runs /\ HeaderInHand(next)
    BY IdleRunType DEF TypeInv, EngineOK, Runs, HeaderInHand, IdleRun
  <1>2. run' = [run EXCEPT ![d] = next]
    BY DEF EndRun
  <1> HIDE DEF next
  <1> QED
    BY <1>1, <1>2 DEF EndRun, TypeInv, EngineOK

LEMMA SyncNowType ==
    ASSUME TypeInv, NEW d \in Devices, NEW force \in BOOLEAN,
           SyncNow(d, force)
    PROVE  EngineOK'
  <1> DEFINE next == [IdleRun EXCEPT !.pc = "peek", !.force = force]
  <1>1. next \in Runs /\ HeaderInHand(next)
    BY IdleRunType DEF HeaderInHand, IdleRun
  <1>2. CASE run[d].pc = "idle"
    <2>1. run' = [run EXCEPT ![d] = next]
      BY <1>2 DEF SyncNow
    <2> HIDE DEF next
    <2> QED
      BY <1>1, <1>2, <2>1 DEF SyncNow, TypeInv, EngineOK
  <1>3. CASE run[d].pc # "idle"
    BY <1>3 DEF SyncNow, TypeInv, EngineOK
  <1> QED
    BY <1>2, <1>3

(* A run that only moves on keeps what it has in hand.                     *)
LEMMA MoveOnType ==
    ASSUME TypeInv, NEW d \in Devices, NEW pc \in Pcs,
           run[d].pc \notin {"idle", "peek", "pull"},
           Proceed(d, [run[d] EXCEPT !.pc = pc])
    PROVE  EngineOK'
  <1>1. [run[d] EXCEPT !.pc = pc] \in Runs
    BY DEF TypeInv, EngineOK, Runs
  <1>2. HeaderInHand([run[d] EXCEPT !.pc = pc])
    BY DEF TypeInv, EngineOK, HeaderInHand, Runs
  <1> QED
    BY <1>1, <1>2, ProceedType

-----------------------------------------------------------------------------
(* Every action keeps the types *)

LEMMA EditedItem ==
    ASSUME NEW v \in Values, NEW n \in 1 .. MaxEdits,
           NEW t \in 0 .. MaxEdits + MaxResolves, NEW f \in Fields
    PROVE  /\ [v EXCEPT !.deleted = ~@, !.at = t] \in Values
           /\ [v EXCEPT !.text[f] = @ \cup {n}, !.at = t] \in Values
           /\ [text |-> [g \in Fields |-> {n}], deleted |-> FALSE, at |-> t]
                 \in Values
  BY DEF Values, Texts

(* An edit takes a number and a time that the bounds leave for it.          *)
LEMMA EditCounts ==
    ASSUME TypeInv, NEW d \in Devices, Edit(d)
    PROVE  edits' \in 1 .. MaxEdits /\ Now \in 0 .. MaxEdits + MaxResolves
  <1>1. edits \in 0 .. MaxEdits /\ resolves \in 0 .. MaxResolves
    BY DEF TypeInv, CountersOK
  <1>2. MaxEdits \in Nat /\ MaxResolves \in Nat
    BY SyncConstants
  <1>3. edits < MaxEdits /\ edits' = edits + 1
    BY DEF Edit
  <1> QED
    BY <1>1, <1>2, <1>3 DEF Now

LEMMA EditType ==
    ASSUME TypeInv, NEW d \in Devices, Edit(d)
    PROVE  TypeInv'
  <1>1. edits' \in 1 .. MaxEdits /\ Now \in 0 .. MaxEdits + MaxResolves
    BY EditCounts
  <1>2. items' \in [Devices -> ItemMaps] /\ typed' \in SUBSET (1 .. MaxEdits)
    <2>1. PICK i \in Ids :
        \/ /\ items[d][i] # Absent
           /\ items' = [items EXCEPT ![d][i].deleted = ~@, ![d][i].at = Now]
           /\ UNCHANGED typed
        \/ /\ items[d][i] # Absent
           /\ \E f \in Fields :
                items' = [items EXCEPT ![d][i].text[f] = @ \cup {edits'},
                                       ![d][i].at = Now]
           /\ typed' = typed \cup {edits'}
        \/ /\ items' = [items EXCEPT ![d][i] =
                [text |-> [f \in Fields |-> {edits'}], deleted |-> FALSE,
                 at |-> Now]]
           /\ typed' = typed \cup {edits'}
      BY DEF Edit
    <2>2. typed' \in SUBSET (1 .. MaxEdits)
      BY <1>1, <2>1 DEF TypeInv, HistoryOK
    <2>3. PICK v \in Values \cup {Absent} : items' = [items EXCEPT ![d][i] = v]
      <3>1. items[d] \in ItemMaps /\ items[d][i] \in Values \cup {Absent}
        BY DEF TypeInv, LocalOK, ItemMaps
      <3>2. CASE /\ items[d][i] # Absent
                 /\ items' = [items EXCEPT ![d][i].deleted = ~@, ![d][i].at = Now]
        <4>1. items' = [items EXCEPT ![d][i] =
                          [items[d][i] EXCEPT !.deleted = ~@, !.at = Now]]
          BY <3>1, <3>2 DEF TypeInv, LocalOK, ItemMaps, Values
        <4> QED
          BY <1>1, <3>1, <3>2, <4>1 DEF Values
      <3>3. ASSUME items[d][i] # Absent, NEW f \in Fields,
                   items' = [items EXCEPT ![d][i].text[f] = @ \cup {edits'},
                                          ![d][i].at = Now]
            PROVE  \E v \in Values \cup {Absent} : items' = [items EXCEPT ![d][i] = v]
        <4>1. items' = [items EXCEPT ![d][i] =
                          [items[d][i] EXCEPT !.text[f] = @ \cup {edits'}, !.at = Now]]
          BY <3>1, <3>3 DEF TypeInv, LocalOK, ItemMaps, Values
        <4> QED
          BY <1>1, <3>1, <3>3, <4>1, EditedItem
      <3>4. CASE items' = [items EXCEPT ![d][i] =
                [text |-> [f \in Fields |-> {edits'}], deleted |-> FALSE,
                 at |-> Now]]
        BY <1>1, <3>4 DEF Values, Texts
      <3> QED
        BY <2>1, <3>2, <3>3, <3>4
    <2> QED
      BY <2>2, <2>3 DEF TypeInv, LocalOK, ItemMaps
  <1>3. rev' \in [Devices -> Nat]
    BY DEF Edit, TypeInv, LocalOK
  <1>4. UNCHANGED <<password, sync, engine, remote, settled, purges, passwords,
                    resolves, replaces, faults>>
    BY DEF Edit
  <1> QED
    BY <1>1, <1>2, <1>3, <1>4
       DEF TypeInv, LocalOK, SyncOK, EngineOK, RemoteOK, HistoryOK, CountersOK,
           sync, engine, remote

LEMMA PurgeType ==
    ASSUME TypeInv, NEW d \in Devices, Purge(d)
    PROVE  TypeInv'
  <1>1. purges' \in 0 .. MaxPurges
    BY SyncConstants DEF Purge, TypeInv, CountersOK
  <1>2. PICK i \in Ids : /\ items' = [items EXCEPT ![d][i] = Absent]
                         /\ settled' = settled \cup TextsIn(items[d][i])
    BY DEF Purge
  <1>3. items[d][i] \in Values \cup {Absent}
    BY DEF TypeInv, LocalOK, ItemMaps
  <1>4. HistoryOK'
    BY <1>2, <1>3, TextsType DEF Purge, TypeInv, HistoryOK
  <1>5. LocalOK'
    BY <1>2 DEF Purge, TypeInv, LocalOK, ItemMaps
  <1> QED
    BY <1>1, <1>4, <1>5
       DEF Purge, TypeInv, SyncOK, EngineOK, RemoteOK, CountersOK, sync, engine,
           remote

LEMMA ChangePasswordType ==
    ASSUME TypeInv, NEW d \in Devices, ChangePassword(d)
    PROVE  TypeInv'
  <1>1. passwords' \in 0 .. MaxPasswords
    BY SyncConstants DEF ChangePassword, TypeInv, CountersOK
  <1>2. LocalOK'
    BY <1>1 DEF ChangePassword, TypeInv, LocalOK
  <1> QED
    BY <1>1, <1>2
       DEF ChangePassword, TypeInv, SyncOK, EngineOK, RemoteOK, HistoryOK,
           CountersOK, sync, engine, remote, history

LEMMA TriggerType ==
    ASSUME TypeInv, NEW d \in Devices, Trigger(d)
    PROVE  TypeInv'
  BY SyncNowType
     DEF Trigger, TypeInv, LocalOK, SyncOK, RemoteOK, HistoryOK, CountersOK,
         local, sync, remote, history, counters

LEMMA ResolveType ==
    ASSUME TypeInv, NEW d \in Devices, Resolve(d)
    PROVE  TypeInv'
  <1>1. resolves' \in 0 .. MaxResolves /\ Now \in 0 .. MaxEdits + MaxResolves
    BY SyncConstants DEF Resolve, Now, TypeInv, CountersOK
  <1>2. PICK i \in Ids :
        /\ conflicts[d][i] # Null
        /\ conflicts' = [conflicts EXCEPT ![d][i] = Null]
        /\ \/ UNCHANGED <<items, rev>>
           \/ /\ items[d][i] # Absent
              /\ items' = [items EXCEPT ![d][i] = Adopted(@, conflicts[d][i], Now)]
              /\ rev' = [rev EXCEPT ![d] = IF items' = items THEN @ ELSE @ + 1]
        /\ settled' = settled \cup GivenUp(items[d][i], conflicts[d][i], items'[d][i])
    BY DEF Resolve
  <1>3. conflicts' \in [Devices -> Conflicts]
    BY <1>2 DEF TypeInv, SyncOK, Conflicts
  <1>4. items[d][i] \in Values \cup {Absent} /\ conflicts[d][i] \in Values
    BY <1>2 DEF TypeInv, LocalOK, SyncOK, ItemMaps, Conflicts
  <1>5. items' \in [Devices -> ItemMaps] /\ rev' \in [Devices -> Nat]
    <2>1. CASE UNCHANGED <<items, rev>>
      BY <2>1 DEF TypeInv, LocalOK
    <2>2. CASE /\ items[d][i] # Absent
               /\ items' = [items EXCEPT ![d][i] = Adopted(@, conflicts[d][i], Now)]
               /\ rev' = [rev EXCEPT ![d] = IF items' = items THEN @ ELSE @ + 1]
      <3>1. PICK v \in Values : v = Adopted(items[d][i], conflicts[d][i], Now)
        BY <1>1, <1>4, <2>2, AdoptedType
      <3>2. items' = [items EXCEPT ![d][i] = v]
        BY <2>2, <3>1 DEF TypeInv, LocalOK, ItemMaps
      <3>3. items' \in [Devices -> ItemMaps]
        BY <3>2 DEF TypeInv, LocalOK, ItemMaps
      <3>4. rev' \in [Devices -> Nat]
        BY <2>2 DEF TypeInv, LocalOK
      <3> QED
        BY <3>3, <3>4
    <2> QED
      BY <1>2, <2>1, <2>2
  <1>6. settled' \in SUBSET (1 .. MaxEdits)
    BY <1>2, <1>4, TextsType DEF TypeInv, HistoryOK, GivenUp, TextsIn
  <1>7. EngineOK'
    BY SyncNowType DEF Resolve
  <1>8. UNCHANGED <<password, base, meta, remote, typed, edits, purges,
                    passwords, replaces, faults>>
    BY DEF Resolve
  <1> QED
    BY <1>1, <1>3, <1>5, <1>6, <1>7, <1>8
       DEF TypeInv, LocalOK, SyncOK, RemoteOK, HistoryOK, CountersOK, remote

LEMMA ReplaceRemoteVaultType ==
    ASSUME TypeInv, NEW d \in Devices, ReplaceRemoteVault(d)
    PROVE  TypeInv'
  <1>1. replaces' \in 0 .. MaxReplaces
    BY SyncConstants DEF ReplaceRemoteVault, TypeInv, CountersOK
  <1>2. faults' \in 0 .. MaxFaults
    <2>1. \/ UNCHANGED faults
          \/ faults < MaxFaults /\ faults' = faults + 1
      BY DEF ReplaceRemoteVault
    <2> QED
      BY <2>1, SyncConstants DEF TypeInv, CountersOK
  <1>3. SyncOK'
    BY DEF ReplaceRemoteVault, TypeInv, SyncOK
  <1>4. EngineOK' /\ RemoteOK'
    BY SyncNowType, TableType, EmptyTypes
       DEF ReplaceRemoteVault, TypeInv, EngineOK, RemoteOK, remote, engine
  <1> QED
    BY <1>1, <1>2, <1>3, <1>4
       DEF ReplaceRemoteVault, TypeInv, LocalOK, HistoryOK, CountersOK, local,
           history

(* Steps of a run that touch nothing but the run.                          *)
LEMMA RunOnly ==
    ASSUME TypeInv, EngineOK', UNCHANGED <<local, sync, remote, history, counters>>
    PROVE  TypeInv'
  BY DEF TypeInv, LocalOK, SyncOK, RemoteOK, HistoryOK, CountersOK, local, sync,
         remote, history, counters

LEMMA PeekType ==
    ASSUME TypeInv, NEW d \in Devices, Peek(d)
    PROVE  TypeInv'
  <1> SUFFICES EngineOK'
    BY RunOnly DEF Peek
  <1>1. conflicts[d] \in Conflicts /\ run[d] \in Runs
    BY DEF TypeInv, SyncOK, EngineOK
  <1>2. CASE Proceed(d, PublishLocal(d, conflicts[d], Null))
    BY <1>1, <1>2, PublishLocalType, ProceedType DEF HeaderInHand
  <1>3. CASE Proceed(d, [run[d] EXCEPT !.pc = "pull", !.pending = conflicts[d]])
    <2> DEFINE next == [run[d] EXCEPT !.pc = "pull", !.pending = conflicts[d]]
    <2>1. next \in Runs /\ HeaderInHand(next)
      BY <1>1 DEF Runs, Pcs, HeaderInHand
    <2> HIDE DEF next
    <2> QED
      BY <1>3, <2>1, ProceedType DEF next
  <1>4. CASE Proceed(d, [PublishLocal(d, conflicts[d], remoteHeader)
                            EXCEPT !.fast = TRUE])
    <2> DEFINE p == PublishLocal(d, conflicts[d], remoteHeader)
               next == [p EXCEPT !.fast = TRUE]
    <2>1. p \in Runs /\ p.header \in Headers
      BY <1>1, PublishLocalType DEF TypeInv, RemoteOK
    <2> HIDE DEF p
    <2>2. next \in Runs /\ HeaderInHand(next)
      BY <2>1 DEF Runs, HeaderInHand
    <2> HIDE DEF next
    <2> QED
      BY <1>4, <2>2, ProceedType DEF next, p
  <1>5. CASE EndRun(d, "none")
    BY <1>5, EndRunType
  <1> QED
    BY <1>2, <1>3, <1>4, <1>5 DEF Peek

LEMMA LostRaceType ==
    ASSUME TypeInv, NEW d \in Devices, LostRace(d)
    PROVE  EngineOK'
  <1>1. CASE run[d].fast
    <2> DEFINE next == [run[d] EXCEPT !.pc = "pull", !.fast = FALSE]
    <2>0. run[d] \in Runs
      BY DEF TypeInv, EngineOK
    <2>1. next \in Runs /\ HeaderInHand(next)
      BY <2>0 DEF Runs, Pcs, HeaderInHand
    <2>2. Proceed(d, next)
      BY <1>1 DEF LostRace
    <2> HIDE DEF next
    <2> QED
      BY <2>1, <2>2, ProceedType
  <1>2. CASE ~run[d].fast
    <2>1. EndRun(d, "none")
      BY <1>2 DEF LostRace
    <2> QED
      BY <2>1, EndRunType
  <1> QED
    BY <1>1, <1>2

LEMMA PushCheckType ==
    ASSUME TypeInv, NEW d \in Devices, PushCheck(d)
    PROVE  TypeInv'
  <1> SUFFICES EngineOK'
    BY RunOnly DEF PushCheck
  <1>1. CASE remoteHeader # run[d].stamp
    BY <1>1, LostRaceType DEF PushCheck
  <1>2. CASE remoteHeader = run[d].stamp
    <2> DEFINE pc == IF ChangedParts(run[d].header, remoteHeader) # {} THEN "set"
                     ELSE IF ObsoleteParts(run[d].header, remoteHeader) # {}
                       THEN "remove" ELSE "header"
    <2>1. pc \in Pcs
      BY DEF Pcs
    <2>2. Proceed(d, [run[d] EXCEPT !.pc = pc])
      BY <1>2 DEF PushCheck
    <2>3. run[d].pc = "check"
      BY DEF PushCheck
    <2> HIDE DEF pc
    <2> QED
      BY <2>1, <2>2, <2>3, MoveOnType
  <1> QED
    BY <1>1, <1>2

LEMMA PushPartsType ==
    ASSUME TypeInv, NEW d \in Devices, PushParts(d)
    PROVE  TypeInv'
  <1> DEFINE pc == IF ObsoleteParts(run[d].header, run[d].stamp) # {}
                     THEN "remove" ELSE "header"
  <1>1. pc \in Pcs
    BY DEF Pcs
  <1>2. Proceed(d, [run[d] EXCEPT !.pc = pc]) /\ run[d].pc = "set"
    BY DEF PushParts
  <1>3. EngineOK'
    <2> HIDE DEF pc
    <2> QED
      BY <1>1, <1>2, MoveOnType
  <1>4. run[d].header \in Headers
    BY <1>2 DEF TypeInv, EngineOK, HeaderInHand
  <1>5. remoteParts' \in Tables
    BY <1>4 DEF PushParts, TypeInv, RemoteOK, Tables, Headers
  <1> QED
    BY <1>3, <1>5
       DEF PushParts, TypeInv, LocalOK, SyncOK, RemoteOK, HistoryOK, CountersOK,
           local, sync, history, counters

LEMMA RemovePartsType ==
    ASSUME TypeInv, NEW d \in Devices, RemoveParts(d)
    PROVE  TypeInv'
  <1>1. Proceed(d, [run[d] EXCEPT !.pc = "header"]) /\ run[d].pc = "remove"
    BY DEF RemoveParts
  <1>2. EngineOK'
    BY <1>1, MoveOnType DEF Pcs
  <1>3. remoteParts' \in Tables
    BY EmptyTypes DEF RemoveParts, TypeInv, RemoteOK, Tables
  <1> QED
    BY <1>2, <1>3
       DEF RemoveParts, TypeInv, LocalOK, SyncOK, RemoteOK, HistoryOK,
           CountersOK, local, sync, history, counters

LEMMA PushHeaderType ==
    ASSUME TypeInv, NEW d \in Devices, PushHeader(d)
    PROVE  TypeInv'
  <1>1. Proceed(d, [run[d] EXCEPT !.pc = "verify"]) /\ run[d].pc = "header"
    BY DEF PushHeader
  <1>2. EngineOK'
    BY <1>1, MoveOnType DEF Pcs
  <1>3. remoteHeader' \in Headers
    BY <1>1 DEF PushHeader, TypeInv, EngineOK, HeaderInHand
  <1> QED
    BY <1>2, <1>3
       DEF PushHeader, TypeInv, LocalOK, SyncOK, RemoteOK, HistoryOK,
           CountersOK, local, sync, history, counters

LEMMA PushVerifyType ==
    ASSUME TypeInv, NEW d \in Devices, PushVerify(d)
    PROVE  TypeInv'
  <1> SUFFICES EngineOK'
    BY RunOnly DEF PushVerify
  <1>1. CASE remoteHeader # run[d].header
    BY <1>1, LostRaceType DEF PushVerify
  <1>2. CASE remoteHeader = run[d].header
    <2> DEFINE next == [run[d] EXCEPT !.pc = "base", !.stamp = remoteHeader]
    <2>1. run[d].pc = "verify"
      BY DEF PushVerify
    <2>2. next \in Runs /\ HeaderInHand(next)
      BY <2>1 DEF TypeInv, EngineOK, RemoteOK, Runs, Pcs, HeaderInHand
    <2>3. Proceed(d, next)
      BY <1>2 DEF PushVerify
    <2> HIDE DEF next
    <2> QED
      BY <2>2, <2>3, ProceedType
  <1> QED
    BY <1>1, <1>2

LEMMA SaveBaseType ==
    ASSUME TypeInv, NEW d \in Devices, SaveBase(d)
    PROVE  TypeInv'
  <1>1. run[d] \in Runs /\ run[d].header \in Headers
    BY DEF SaveBase, TypeInv, EngineOK, HeaderInHand
  <1>2. SyncOK'
    <2> DEFINE m == [rev |-> run[d].header.rev, stamp |-> run[d].stamp]
    <2>1. m \in Metas
      BY <1>1 DEF Runs, Metas, Headers
    <2>2. meta' = [meta EXCEPT ![d] = m]
      BY DEF SaveBase
    <2>3. base' = [base EXCEPT ![d] = run[d].sent] /\ run[d].sent \in ItemMaps
      BY <1>1 DEF SaveBase, Runs
    <2>4. UNCHANGED conflicts
      BY DEF SaveBase
    <2> HIDE DEF m
    <2> QED
      BY <2>1, <2>2, <2>3, <2>4 DEF TypeInv, SyncOK
  <1>3. EngineOK'
    BY EndRunType DEF SaveBase
  <1> QED
    BY <1>2, <1>3
       DEF SaveBase, TypeInv, LocalOK, RemoteOK, HistoryOK, CountersOK, local,
           remote, history, counters

LEMMA PullHeaderType ==
    ASSUME TypeInv, NEW d \in Devices, PullHeader(d)
    PROVE  TypeInv'
  <1> SUFFICES EngineOK'
    BY RunOnly DEF PullHeader
  <1>1. run[d] \in Runs /\ run[d].pending \in Conflicts
    BY DEF TypeInv, EngineOK, Runs
  <1>2. CASE remoteHeader = Null
    <2>1. Proceed(d, PublishLocal(d, run[d].pending, Null))
      BY <1>2 DEF PullHeader
    <2> QED
      BY <1>1, <2>1, PublishLocalType, ProceedType DEF HeaderInHand
  <1>3. CASE remoteHeader # Null
    <2> DEFINE next == [run[d] EXCEPT !.pc = "parts", !.header = remoteHeader]
    <2>1. remoteHeader \in Headers
      BY <1>3 DEF TypeInv, RemoteOK
    <2>2. next \in Runs /\ HeaderInHand(next)
      BY <1>1, <2>1 DEF Runs, Pcs, HeaderInHand
    <2>3. Proceed(d, next)
      BY <1>3 DEF PullHeader
    <2> HIDE DEF next
    <2> QED
      BY <2>2, <2>3, ProceedType
  <1> QED
    BY <1>2, <1>3

LEMMA PullTornType ==
    ASSUME TypeInv, NEW d \in Devices, PullTorn(d)
    PROVE  TypeInv'
  <1> SUFFICES EngineOK'
    BY RunOnly DEF PullTorn
  <1>1. run[d].pending \in Conflicts
    BY DEF TypeInv, EngineOK, Runs
  <1>2. CASE Proceed(d, [PublishLocal(d, run[d].pending, Null)
                            EXCEPT !.pc = "repair"])
    <2> DEFINE p == PublishLocal(d, run[d].pending, Null)
               next == [p EXCEPT !.pc = "repair"]
    <2>1. p \in Runs /\ p.header \in Headers
      BY <1>1, PublishLocalType
    <2> HIDE DEF p
    <2>2. next \in Runs /\ HeaderInHand(next)
      BY <2>1 DEF Runs, Pcs, HeaderInHand
    <2> HIDE DEF next
    <2> QED
      BY <1>2, <2>2, ProceedType DEF next, p
  <1>3. CASE EndRun(d, "mismatch")
    BY <1>3, EndRunType
  <1> QED
    BY <1>2, <1>3 DEF PullTorn

(* What Merge(d) makes of the local items, and of the run.                 *)
Merged(d) ==
    [i \in Ids |-> MergeOne(BaseItems(d)[i], items[d][i],
                            ItemsIn(run[d].header.tags)[i])]
MergedPending(d) ==
    Pending(BaseItems(d), items[d], ItemsIn(run[d].header.tags), run[d].pending)

LEMMA MergeParts ==
    ASSUME TypeInv, NEW d \in Devices, Merge(d)
    PROVE  /\ run[d] \in Runs
           /\ run[d].header \in Headers
           /\ BaseItems(d) \in ItemMaps
           /\ ItemsIn(run[d].header.tags) \in ItemMaps
           /\ Merged(d) \in ItemMaps
           /\ MergedPending(d) \in Conflicts
  <1>1. run[d] \in Runs /\ run[d].header \in Headers
    BY DEF Merge, TypeInv, EngineOK, HeaderInHand
  <1>2. BaseItems(d) \in ItemMaps
    BY EmptyTypes DEF BaseItems, TypeInv, SyncOK
  <1>3. ItemsIn(run[d].header.tags) \in ItemMaps
    BY <1>1, ItemsInType DEF Headers
  <1>4. items[d] \in ItemMaps
    BY DEF TypeInv, LocalOK
  <1>5. Merged(d) \in ItemMaps
    BY <1>2, <1>3, <1>4, MergeOneType DEF Merged, ItemMaps
  <1>6. MergedPending(d) \in Conflicts
    BY <1>1, <1>2, <1>3, <1>4, PendingType DEF MergedPending, Runs
  <1> QED
    BY <1>1, <1>2, <1>3, <1>5, <1>6

LEMMA MergeType ==
    ASSUME TypeInv, NEW d \in Devices, Merge(d)
    PROVE  TypeInv'
  <1> DEFINE theirs == ItemsIn(run[d].header.tags)
             out == OutboundView(Merged(d), MergedPending(d))
             same == SameItems(out, theirs)
             number == IF same THEN run[d].header.rev ELSE NextRev(d)
             key == IF same THEN run[d].header.password ELSE AdoptedPassword(d)
             h == [rev |-> number, by |-> d, tags |-> Table(out),
                   password |-> key]
             pc == IF same THEN "adopted" ELSE "merged"
             next == [run[d] EXCEPT !.pc = pc, !.pending = MergedPending(d),
                                    !.sent = out, !.header = h]
  <1>1. /\ items' = [items EXCEPT ![d] = Merged(d)]
        /\ rev' = [rev EXCEPT ![d] = number]
        /\ password' = [password EXCEPT ![d] = key]
        /\ Proceed(d, next)
        /\ UNCHANGED <<sync, remote, history, counters>>
    BY DEF Merge, Merged, MergedPending
  <1>2. out \in ItemMaps
    BY MergeParts, OutboundType
  <1>3. number \in Nat /\ key \in Nat
    BY MergeParts DEF NextRev, AdoptedPassword, TypeInv, LocalOK, Headers
  <1>4. pc \in Pcs
    BY DEF Pcs
  <1> HIDE DEF out, number, key, pc
  <1>5. h \in Headers
    BY <1>2, <1>3, TableType DEF Headers
  <1> HIDE DEF h
  <1>6. next \in Runs /\ HeaderInHand(next)
    BY <1>2, <1>4, <1>5, MergeParts DEF Runs, HeaderInHand
  <1> HIDE DEF next
  <1>7. EngineOK'
    BY <1>1, <1>6, ProceedType
  <1>8. LocalOK'
    BY <1>1, <1>3, MergeParts DEF TypeInv, LocalOK
  <1> QED
    BY <1>1, <1>7, <1>8
       DEF TypeInv, SyncOK, RemoteOK, HistoryOK, CountersOK, sync, remote,
           history, counters

LEMMA SaveConflictsType ==
    ASSUME TypeInv, NEW d \in Devices, SaveConflicts(d)
    PROVE  TypeInv'
  <1> DEFINE pc == IF run[d].pc = "adopted" THEN "record" ELSE "repair"
  <1>1. /\ run[d].pc \in {"adopted", "merged"}
        /\ conflicts' = [conflicts EXCEPT ![d] = run[d].pending]
        /\ UNCHANGED <<local, base, meta, remote, history, counters>>
    BY DEF SaveConflicts
  <1>2. run[d] \in Runs /\ run[d].pending \in Conflicts
    BY DEF TypeInv, EngineOK, Runs
  <1>3. Proceed(d, [run[d] EXCEPT !.pc = pc])
    BY <1>2 DEF SaveConflicts, Runs
  <1>4. pc \in Pcs
    BY DEF Pcs
  <1> HIDE DEF pc
  <1>5. EngineOK'
    BY <1>1, <1>3, <1>4, MoveOnType
  <1> QED
    BY <1>1, <1>2, <1>5
       DEF TypeInv, LocalOK, SyncOK, RemoteOK, HistoryOK, CountersOK, local,
           remote, history, counters

LEMMA PeekAgainType ==
    ASSUME TypeInv, NEW d \in Devices, PeekAgain(d)
    PROVE  TypeInv'
  <1> SUFFICES EngineOK'
    BY RunOnly DEF PeekAgain
  <1> DEFINE pc == IF run[d].pc = "record" THEN "base" ELSE "check"
             h == [run[d].header EXCEPT !.password = password[d]]
             next == [run[d] EXCEPT !.pc = pc, !.stamp = remoteHeader,
                                    !.header = h]
  <1>1. run[d] \in Runs /\ run[d].header \in Headers
    BY DEF PeekAgain, TypeInv, EngineOK, HeaderInHand
  <1>2. h \in Headers
    BY <1>1 DEF Headers, TypeInv, LocalOK
  <1>3. Proceed(d, next)
    BY <1>1 DEF PeekAgain, Runs, Headers
  <1>4. pc \in Pcs
    BY DEF Pcs
  <1> HIDE DEF pc, h
  <1>5. next \in Runs /\ HeaderInHand(next)
    BY <1>1, <1>2, <1>4 DEF Runs, HeaderInHand, TypeInv, RemoteOK
  <1> HIDE DEF next
  <1> QED
    BY <1>3, <1>5, ProceedType

LEMMA RunStopsType ==
    ASSUME TypeInv, NEW d \in Devices, RunStops(d)
    PROVE  TypeInv'
  <1>1. faults' \in 0 .. MaxFaults
    BY SyncConstants DEF RunStops, TypeInv, CountersOK
  <1>2. EngineOK'
    <2>1. CASE EndRun(d, "none")
      BY <2>1, EndRunType
    <2>2. CASE /\ run' = [run EXCEPT ![d] = IdleRun]
               /\ rerun' = [rerun EXCEPT ![d] = FALSE]
               /\ lastError' = [lastError EXCEPT ![d] = "none"]
      BY <2>2, IdleRunType DEF TypeInv, EngineOK, HeaderInHand
    <2> QED
      BY <2>1, <2>2 DEF RunStops
  <1> QED
    BY <1>1, <1>2
       DEF RunStops, TypeInv, LocalOK, SyncOK, RemoteOK, HistoryOK, CountersOK,
           local, sync, remote, history

LEMMA TypeInit == Init => TypeInv
  <1> SUFFICES ASSUME Init
               PROVE  TypeInv
    OBVIOUS
  <1>1. remoteHeader \in Headers
    BY OriginalType, TableType DEF Init, Headers
  <1>2. RemoteOK
    BY <1>1, OriginalType, TableType DEF Init, RemoteOK
  <1>3. SyncOK
    BY <1>1, OriginalType, EmptyTypes DEF Init, SyncOK, Metas
  <1>4. EngineOK
    BY IdleRunType DEF Init, EngineOK, HeaderInHand
  <1>5. LocalOK
    BY OriginalType DEF Init, LocalOK
  <1>6. HistoryOK /\ CountersOK
    BY SyncConstants DEF Init, HistoryOK, CountersOK
  <1> QED
    BY <1>2, <1>3, <1>4, <1>5, <1>6 DEF TypeInv

LEMMA TypeStep == TypeInv /\ [Next]_vars => TypeInv'
  <1>1. ASSUME TypeInv, NEW d \in Devices, User(d)
        PROVE  TypeInv'
    BY <1>1, EditType, PurgeType, ChangePasswordType, ResolveType,
       ReplaceRemoteVaultType DEF User
  <1>2. ASSUME TypeInv, NEW d \in Devices, Step(d)
        PROVE  TypeInv'
    BY <1>2, PeekType, PushCheckType, PushPartsType, RemovePartsType,
       PushHeaderType, PushVerifyType, SaveBaseType, PullHeaderType,
       PullTornType, MergeType, SaveConflictsType, PeekAgainType DEF Step
  <1>3. ASSUME TypeInv, UNCHANGED vars
        PROVE  TypeInv'
    BY <1>3 DEF vars, TypeInv, LocalOK, SyncOK, EngineOK, RemoteOK, HistoryOK,
                CountersOK
  <1> QED
    BY <1>1, <1>2, <1>3, TriggerType, RunStopsType DEF Next

(* Type correctness: every variable keeps its type, though runs overlap    *)
(* and stop anywhere; a run past its decision has a header in hand.        *)
THEOREM TypeCorrect == Spec => []TypeOK
  BY TypeInit, TypeStep, TypeInvImplies, PTL DEF Spec

-----------------------------------------------------------------------------
(* Unpushed texts stay *)

(* A merge keeps the texts of this device's item that the base does not    *)
(* have, whatever the other side is, and each one in its field.            *)
LEMMA MergeOneHolds ==
    ASSUME NEW b \in Values \cup {Absent}, NEW l \in Values \cup {Absent},
           NEW r \in Values \cup {Absent}, NEW f \in Fields, NEW t \in TextIn(l, f),
           t \notin TextIn(b, f)
    PROVE  t \in TextIn(MergeOne(b, l, r), f)
  <1>1. l \in Values /\ l # Absent /\ l # Null /\ t \in l.text[f]
    BY NotAbsent DEF TextIn
  <1>2. b = Absent \/ l.text[f] # b.text[f]
    BY <1>1, NotAbsent DEF TextIn
  <1>3. CASE r = Absent
    <2>1. b = Absent \/ Edited(b, l)
      BY <1>2 DEF Edited
    <2>2. MergeOne(b, l, r) = l
      BY <1>1, <1>3, <2>1 DEF MergeOne, OneSided
    <2> QED
      BY <2>2
  <1>4. CASE r # Absent /\ EditVsDelete(b, l, r)
    <2>1. MergeOne(b, l, r) = l
      BY <1>1, <1>4 DEF MergeOne
    <2> QED
      BY <2>1
  <1>5. CASE r # Absent /\ ~EditVsDelete(b, l, r)
    <2>1. r \in Values /\ MergeOne(b, l, r) = Joined(b, l, r)
      BY <1>1, <1>5 DEF MergeOne
    <2>2. Joined(b, l, r) \in Values
      BY <1>1, <2>1, JoinedType
    <2>3. Joined(b, l, r).text[f] = l.text[f]
      BY <1>2 DEF Joined
    <2> QED
      BY <1>1, <2>1, <2>2, <2>3, NotAbsent DEF TextIn
  <1> QED
    BY <1>3, <1>4, <1>5

LEMMA MergeOneKeeps ==
    ASSUME NEW b \in Values \cup {Absent}, NEW l \in Values \cup {Absent},
           NEW r \in Values \cup {Absent}
    PROVE  TextsIn(l) \ TextsIn(b) \subseteq TextsIn(MergeOne(b, l, r))
  <1> SUFFICES ASSUME NEW t \in TextsIn(l), t \notin TextsIn(b)
               PROVE  t \in TextsIn(MergeOne(b, l, r))
    OBVIOUS
  <1>1. PICK f \in Fields : t \in TextIn(l, f) /\ t \notin TextIn(b, f)
    BY DEF TextsIn
  <1>2. t \in TextIn(MergeOne(b, l, r), f)
    BY <1>1, MergeOneHolds
  <1> QED
    BY <1>2 DEF TextsIn

LEMMA EditKeeps ==
    ASSUME TypeInv, NEW e \in Devices, Edit(e), NEW d \in Devices, NEW i \in Ids
    PROVE  TextsIn(items[d][i]) \subseteq TextsIn(items'[d][i])
  <1>1. edits' \in 1 .. MaxEdits /\ Now \in 0 .. MaxEdits + MaxResolves
    BY EditCounts
  <1>2. items[e] \in ItemMaps /\ items \in [Devices -> ItemMaps]
    BY DEF TypeInv, LocalOK
  <1>3. PICK j \in Ids :
        \/ /\ items[e][j] # Absent
           /\ items' = [items EXCEPT ![e][j].deleted = ~@, ![e][j].at = Now]
        \/ /\ items[e][j] # Absent
           /\ \E f \in Fields :
                items' = [items EXCEPT ![e][j].text[f] = @ \cup {edits'},
                                       ![e][j].at = Now]
        \/ /\ New(j)
           /\ items' = [items EXCEPT ![e][j] =
                [text |-> [f \in Fields |-> {edits'}], deleted |-> FALSE,
                 at |-> Now]]
    BY DEF Edit
  <1>4. PICK v : /\ items' = [items EXCEPT ![e][j] = v]
                 /\ TextsIn(items[e][j]) \subseteq TextsIn(v)
    <2>1. CASE /\ items[e][j] # Absent
               /\ items' = [items EXCEPT ![e][j].deleted = ~@, ![e][j].at = Now]
      <3> DEFINE v == [items[e][j] EXCEPT !.deleted = ~@, !.at = Now]
      <3>1. items' = [items EXCEPT ![e][j] = v]
        BY <1>2, <2>1 DEF ItemMaps, Values
      <3>2. items[e][j] \in Values
        BY <1>2, <2>1 DEF ItemMaps
      <3>3. v \in Values /\ v.text = items[e][j].text
        BY <1>1, <3>2 DEF Values
      <3> HIDE DEF v
      <3>4. TextsIn(items[e][j]) \subseteq TextsIn(v)
        BY <3>2, <3>3, NotAbsent DEF TextsIn, TextIn
      <3> QED
        BY <3>1, <3>4
    <2>2. ASSUME items[e][j] # Absent, NEW f \in Fields,
                 items' = [items EXCEPT ![e][j].text[f] = @ \cup {edits'},
                                        ![e][j].at = Now]
          PROVE  \E v : /\ items' = [items EXCEPT ![e][j] = v]
                        /\ TextsIn(items[e][j]) \subseteq TextsIn(v)
      <3> DEFINE v == [items[e][j] EXCEPT !.text[f] = @ \cup {edits'}, !.at = Now]
      <3>1. items' = [items EXCEPT ![e][j] = v]
        BY <1>2, <2>2 DEF ItemMaps, Values
      <3>2. items[e][j] \in Values
        BY <1>2, <2>2 DEF ItemMaps
      <3>3. v \in Values
        BY <1>1, <3>2, EditedItem
      <3>4. \A g \in Fields : items[e][j].text[g] \subseteq v.text[g]
        BY <3>2 DEF Values
      <3> HIDE DEF v
      <3>5. TextsIn(items[e][j]) \subseteq TextsIn(v)
        BY <3>2, <3>3, <3>4, NotAbsent DEF TextsIn, TextIn
      <3> QED
        BY <3>1, <3>5
    <2>3. CASE /\ New(j)
               /\ items' = [items EXCEPT ![e][j] =
                    [text |-> [f \in Fields |-> {edits'}], deleted |-> FALSE,
                     at |-> Now]]
      BY <2>3 DEF New, TextsIn, TextIn
    <2> QED
      BY <1>3, <2>1, <2>2, <2>3
  <1> QED
    BY <1>2, <1>4 DEF ItemMaps

LEMMA KeepStep ==
    ASSUME TypeInv, Next, NEW d \in Devices, NEW i \in Ids
    PROVE  Unpushed(d, i) \subseteq TextsIn(items'[d][i]) \cup settled'
  <1>1. Unpushed(d, i) \subseteq TextsIn(items[d][i])
    BY DEF Unpushed
  <1>2. ASSUME UNCHANGED items
        PROVE  Unpushed(d, i) \subseteq TextsIn(items'[d][i]) \cup settled'
    BY <1>1, <1>2
  <1>3. ASSUME NEW e \in Devices, Purge(e)
        PROVE  Unpushed(d, i) \subseteq TextsIn(items'[d][i]) \cup settled'
    <2>1. PICK j \in Ids : /\ items' = [items EXCEPT ![e][j] = Absent]
                           /\ settled' = settled \cup TextsIn(items[e][j])
      BY <1>3 DEF Purge
    <2>2. items'[d][i] = items[d][i] \/ (e = d /\ j = i)
      BY <2>1 DEF TypeInv, LocalOK, ItemMaps
    <2> QED
      BY <1>1, <2>1, <2>2
  <1>4. ASSUME NEW e \in Devices, Resolve(e)
        PROVE  Unpushed(d, i) \subseteq TextsIn(items'[d][i]) \cup settled'
    <2>1. PICK j \in Ids :
            /\ \/ UNCHANGED items
               \/ items' = [items EXCEPT ![e][j] =
                               Adopted(@, conflicts[e][j], Now)]
            /\ settled' = settled \cup GivenUp(items[e][j], conflicts[e][j], items'[e][j])
      BY <1>4 DEF Resolve
    <2>2. items'[d][i] = items[d][i] \/ (e = d /\ j = i)
      BY <2>1 DEF TypeInv, LocalOK, ItemMaps
    <2>3. TextsIn(items[e][j]) \ TextsIn(items'[e][j])
            \subseteq GivenUp(items[e][j], conflicts[e][j], items'[e][j])
      BY DEF TextsIn, TextIn, GivenUp
    <2> QED
      BY <1>1, <2>1, <2>2, <2>3
  <1>5. ASSUME NEW e \in Devices, Merge(e)
        PROVE  Unpushed(d, i) \subseteq TextsIn(items'[d][i]) \cup settled'
    <2>1. items' = [items EXCEPT ![e] = Merged(e)]
      BY <1>5 DEF Merge, Merged
    <2>2. CASE e # d
      BY <1>1, <2>1, <2>2 DEF TypeInv, LocalOK
    <2>3. CASE e = d
      <3>1. items'[d][i] = MergeOne(BaseItems(d)[i], items[d][i],
                                    ItemsIn(run[d].header.tags)[i])
        BY <2>1, <2>3 DEF TypeInv, LocalOK, Merged
      <3>2. /\ BaseItems(d)[i] \in Values \cup {Absent}
            /\ items[d][i] \in Values \cup {Absent}
            /\ ItemsIn(run[d].header.tags)[i] \in Values \cup {Absent}
        BY <1>5, <2>3, MergeParts DEF ItemMaps, TypeInv, LocalOK
      <3> QED
        BY <3>1, <3>2, MergeOneKeeps DEF Unpushed
    <2> QED
      BY <2>2, <2>3
  <1>6. ASSUME NEW e \in Devices,
               \/ Trigger(e) \/ ChangePassword(e) \/ ReplaceRemoteVault(e)
               \/ Peek(e) \/ PushCheck(e) \/ PushParts(e) \/ RemoveParts(e)
               \/ PushHeader(e) \/ PushVerify(e) \/ SaveBase(e)
               \/ PullHeader(e) \/ PullTorn(e) \/ SaveConflicts(e)
               \/ PeekAgain(e) \/ RunStops(e)
        PROVE  UNCHANGED items
    BY <1>6
       DEF Trigger, ChangePassword, ReplaceRemoteVault, Peek, PushCheck,
           PushParts, RemoveParts, PushHeader, PushVerify, SaveBase,
           PullHeader, PullTorn, SaveConflicts, PeekAgain, RunStops, local
  <1> QED
    BY <1>1, <1>2, <1>3, <1>4, <1>5, <1>6, EditKeeps DEF Next, Step, User

(* Whatever overlaps and wherever runs stop, no step of any device takes   *)
(* an unpushed text off the device it was typed on, unless a user purges   *)
(* or resolves it away.                                                    *)
THEOREM UnpushedTextsAreKept == Spec => UnpushedTextsStay
  <1>1. TypeInv /\ [Next]_vars =>
          [\A d \in Devices, i \in Ids :
             Unpushed(d, i) \subseteq TextsIn(items[d][i])' \cup settled']_vars
    BY KeepStep
  <1> QED
    BY <1>1, TypeInit, TypeStep, PTL DEF Spec, UnpushedTextsStay

-----------------------------------------------------------------------------
(* The base is the remote, as long as runs do not overlap *)

(* Every item is listed in the bucket it hashes to, and nowhere else.      *)
Shaped(table) == table = Table(ItemsIn(table))

(* What a run carries agrees with the remote, or with what it is sending.  *)
(* The remote may have been emptied under a run by its own device.         *)
RunAgrees(r, remoteNow) ==
    /\ r.pc = "parts" => remoteNow \in {Null, r.header}
    /\ r.pc \in {"adopted", "record"} =>
         remoteNow = Null \/ remoteNow.tags = Table(r.sent)
    /\ r.pc \in {"check", "set", "remove", "header", "verify", "merged", "repair"}
         => r.header.tags = Table(r.sent)
    /\ r.pc = "base" => r.stamp = Null \/ r.stamp.tags = Table(r.sent)

Exclusive ==
    \A d, e \in Devices : d # e => run[d].pc = "idle" \/ run[e].pc = "idle"

(* The two records of saveBase() describe one remote.                      *)
MetaIsBase ==
    \A d \in Devices :
        meta[d] # Null /\ meta[d].stamp # Null
            => meta[d].stamp.tags = Table(base[d])

RemoteShaped == remoteHeader # Null => Shaped(remoteHeader.tags)

BaseInv ==
    /\ TypeInv
    /\ Exclusive
    /\ MetaIsBase
    /\ RemoteShaped
    /\ \A d \in Devices : RunAgrees(run[d], remoteHeader)

LEMMA BaseInvImplies == BaseInv => BaseIsRemote
  BY DEF BaseInv, MetaIsBase, BaseIsRemote, RemoteMoved

LEMMA TableShaped ==
    ASSUME NEW its \in ItemMaps
    PROVE  Shaped(Table(its))
  <1>1. ItemsIn(Table(its)) = its
    BY SyncConstants DEF ItemsIn, Table, Payload, ItemMaps
  <1> QED
    BY <1>1 DEF Shaped

LEMMA PublishedAgrees ==
    ASSUME TypeInv, NEW d \in Devices, NEW its, NEW pending, NEW number,
           NEW expect
    PROVE  LET p == Published(d, its, pending, number, expect)
           IN  /\ p.pc = "check"
               /\ p.header.tags = Table(p.sent)
  BY DEF Published, TypeInv, EngineOK, Runs

(* Only one run goes on, and what it goes on to is judged by itself.       *)
LEMMA OneRun ==
    ASSUME BaseInv, TypeInv', NEW d \in Devices,
           \A e \in Devices \ {d} : run[e].pc = "idle" /\ run'[e] = run[e],
           MetaIsBase', RemoteShaped', RunAgrees(run'[d], remoteHeader')
    PROVE  BaseInv'
  <1>1. Exclusive'
    BY DEF Exclusive
  <1>2. \A e \in Devices : RunAgrees(run'[e], remoteHeader')
    BY DEF RunAgrees
  <1> QED
    BY <1>1, <1>2 DEF BaseInv

LEMMA OthersIdle ==
    ASSUME BaseInv, ~Overlap, NEW d \in Devices,
           run[d].pc # "idle" \/ MayRun(d)
    PROVE  \A e \in Devices \ {d} : run[e].pc = "idle"
  BY DEF BaseInv, Exclusive, MayRun

LEMMA ProceedAgrees ==
    ASSUME BaseInv, TypeInv', ~Overlap, NEW d \in Devices, NEW next,
           run[d].pc # "idle", Proceed(d, next),
           MetaIsBase', RemoteShaped', RunAgrees(next, remoteHeader')
    PROVE  BaseInv'
  <1>1. run \in [Devices -> Runs]
    BY DEF BaseInv, TypeInv, EngineOK
  <1>2. run'[d] = next /\ \A e \in Devices \ {d} : run'[e] = run[e]
    BY <1>1 DEF Proceed
  <1> QED
    BY <1>2, OthersIdle, OneRun

LEMMA EndRunAgrees ==
    ASSUME BaseInv, TypeInv', ~Overlap, NEW d \in Devices, NEW error,
           run[d].pc # "idle", EndRun(d, error), MetaIsBase', RemoteShaped'
    PROVE  BaseInv'
  <1>1. run \in [Devices -> Runs]
    BY DEF BaseInv, TypeInv, EngineOK
  <1>2. /\ run'[d].pc \in {"idle", "peek"}
        /\ \A e \in Devices \ {d} : run'[e] = run[e]
    BY <1>1 DEF EndRun, IdleRun
  <1>3. RunAgrees(run'[d], remoteHeader')
    BY <1>2 DEF RunAgrees
  <1> QED
    BY <1>2, <1>3, OthersIdle, OneRun

LEMMA SyncNowAgrees ==
    ASSUME BaseInv, TypeInv', ~Overlap, NEW d \in Devices, NEW force,
           MayRun(d), SyncNow(d, force), MetaIsBase',
           remoteHeader' \in {Null, remoteHeader}
    PROVE  BaseInv'
  <1>1. run \in [Devices -> Runs]
    BY DEF BaseInv, TypeInv, EngineOK
  <1>2. \A e \in Devices \ {d} : run'[e] = run[e]
    BY <1>1 DEF SyncNow
  <1>3. run'[d] = run[d] \/ run'[d].pc = "peek"
    BY <1>1 DEF SyncNow, IdleRun
  <1>4. RunAgrees(run'[d], remoteHeader')
    BY <1>3 DEF RunAgrees, BaseInv
  <1>5. RemoteShaped'
    BY DEF RemoteShaped, BaseInv
  <1> QED
    BY <1>2, <1>4, <1>5, OthersIdle, OneRun

LEMMA SameBase ==
    ASSUME BaseInv, UNCHANGED <<base, meta>>
    PROVE  MetaIsBase'
  BY DEF BaseInv, MetaIsBase

LEMMA SameRemote ==
    ASSUME BaseInv, UNCHANGED remoteHeader
    PROVE  RemoteShaped'
  BY DEF BaseInv, RemoteShaped

LEMMA MetaAsIs ==
    ASSUME BaseInv, NEW d \in Devices, NEW b, NEW m,
           base' = [base EXCEPT ![d] = b], meta' = [meta EXCEPT ![d] = m],
           m # Null /\ m.stamp # Null => m.stamp.tags = Table(b)
    PROVE  MetaIsBase'
  BY DEF BaseInv, TypeInv, SyncOK, MetaIsBase

(* The steps of a push.                                                    *)
LEMMA PushAgrees ==
    ASSUME BaseInv, TypeInv', ~Overlap, NEW d \in Devices,
           \/ PushCheck(d) \/ PushParts(d) \/ RemoveParts(d) \/ PushHeader(d)
           \/ PushVerify(d) \/ SaveBase(d)
    PROVE  BaseInv'
  <1>1. run[d] \in Runs /\ RunAgrees(run[d], remoteHeader)
    BY DEF BaseInv, TypeInv, EngineOK
  <1>2. ASSUME LostRace(d), run[d].pc \in {"check", "verify"},
               UNCHANGED <<sync, remote>>
        PROVE  BaseInv'
    <2>1. MetaIsBase' /\ RemoteShaped' /\ run[d].pc # "idle"
      BY <1>2, SameBase, SameRemote DEF sync, remote
    <2>2. CASE run[d].fast
      <3> DEFINE next == [run[d] EXCEPT !.pc = "pull", !.fast = FALSE]
      <3>1. RunAgrees(next, remoteHeader')
        BY <1>1 DEF RunAgrees, Runs
      <3>2. Proceed(d, next)
        BY <1>2, <2>2 DEF LostRace
      <3> HIDE DEF next
      <3> QED
        BY <2>1, <3>1, <3>2, ProceedAgrees
    <2>3. CASE ~run[d].fast
      <3>1. EndRun(d, "none")
        BY <1>2, <2>3 DEF LostRace
      <3> QED
        BY <2>1, <3>1, EndRunAgrees
    <2> QED
      BY <2>2, <2>3
  <1>3. ASSUME NEW pc \in {"set", "remove", "header", "verify"},
               run[d].pc \in {"check", "set", "remove", "header"},
               Proceed(d, [run[d] EXCEPT !.pc = pc]), UNCHANGED sync,
               RemoteShaped'
        PROVE  BaseInv'
    <2> DEFINE next == [run[d] EXCEPT !.pc = pc]
    <2>1. RunAgrees(next, remoteHeader')
      BY <1>1, <1>3 DEF RunAgrees, Runs
    <2>2. MetaIsBase'
      BY <1>3, SameBase DEF sync
    <2> HIDE DEF next
    <2> QED
      BY <1>3, <2>1, <2>2, ProceedAgrees DEF next
  <1>4. CASE PushCheck(d)
    <2>1. CASE remoteHeader # run[d].stamp
      BY <1>2, <1>4, <2>1 DEF PushCheck
    <2>2. CASE remoteHeader = run[d].stamp
      <3> DEFINE pc == IF ChangedParts(run[d].header, remoteHeader) # {} THEN "set"
                       ELSE IF ObsoleteParts(run[d].header, remoteHeader) # {}
                         THEN "remove" ELSE "header"
      <3>1. /\ run[d].pc = "check"
            /\ Proceed(d, [run[d] EXCEPT !.pc = pc])
            /\ UNCHANGED <<sync, remote>>
        BY <1>4, <2>2 DEF PushCheck
      <3>2. pc \in {"set", "remove", "header"}
        OBVIOUS
      <3>3. RemoteShaped'
        BY <3>1, SameRemote DEF remote
      <3> HIDE DEF pc
      <3> QED
        BY <1>3, <3>1, <3>2, <3>3
    <2> QED
      BY <2>1, <2>2
  <1>5. CASE PushParts(d)
    <2> DEFINE pc == IF ObsoleteParts(run[d].header, run[d].stamp) # {}
                       THEN "remove" ELSE "header"
    <2>1. /\ run[d].pc = "set"
          /\ Proceed(d, [run[d] EXCEPT !.pc = pc])
          /\ UNCHANGED <<sync, remoteHeader>>
      BY <1>5 DEF PushParts
    <2>2. pc \in {"remove", "header"}
      OBVIOUS
    <2>3. RemoteShaped'
      BY <2>1, SameRemote
    <2> HIDE DEF pc
    <2> QED
      BY <1>3, <2>1, <2>2, <2>3
  <1>6. CASE RemoveParts(d)
    <2>1. /\ run[d].pc = "remove"
          /\ Proceed(d, [run[d] EXCEPT !.pc = "header"])
          /\ UNCHANGED <<sync, remoteHeader>>
      BY <1>6 DEF RemoveParts
    <2>2. RemoteShaped'
      BY <2>1, SameRemote
    <2> QED
      BY <1>3, <2>1, <2>2
  <1>7. CASE PushHeader(d)
    <2>1. /\ run[d].pc = "header"
          /\ remoteHeader' = run[d].header
          /\ Proceed(d, [run[d] EXCEPT !.pc = "verify"])
          /\ UNCHANGED sync
      BY <1>7 DEF PushHeader
    <2>2. run[d].header.tags = Table(run[d].sent) /\ run[d].sent \in ItemMaps
      BY <1>1, <2>1 DEF RunAgrees, Runs
    <2>3. RemoteShaped'
      BY <2>1, <2>2, TableShaped DEF RemoteShaped
    <2> QED
      BY <1>3, <2>1, <2>3
  <1>8. CASE PushVerify(d)
    <2>1. CASE remoteHeader # run[d].header
      BY <1>2, <1>8, <2>1 DEF PushVerify
    <2>2. CASE remoteHeader = run[d].header
      <3> DEFINE next == [run[d] EXCEPT !.pc = "base", !.stamp = remoteHeader]
      <3>1. /\ run[d].pc = "verify"
            /\ Proceed(d, next)
            /\ UNCHANGED <<sync, remote>>
        BY <1>8, <2>2 DEF PushVerify
      <3>2. RunAgrees(next, remoteHeader')
        BY <1>1, <2>2, <3>1 DEF RunAgrees, Runs
      <3>3. MetaIsBase' /\ RemoteShaped'
        BY <3>1, SameBase, SameRemote DEF sync, remote
      <3> HIDE DEF next
      <3> QED
        BY <3>1, <3>2, <3>3, ProceedAgrees
    <2> QED
      BY <2>1, <2>2
  <1>9. CASE SaveBase(d)
    <2> DEFINE m == [rev |-> run[d].header.rev, stamp |-> run[d].stamp]
    <2>1. /\ run[d].pc = "base"
          /\ base' = [base EXCEPT ![d] = run[d].sent]
          /\ meta' = [meta EXCEPT ![d] = m]
          /\ EndRun(d, "none")
          /\ UNCHANGED remote
      BY <1>9 DEF SaveBase
    <2>2. m.stamp # Null => m.stamp.tags = Table(run[d].sent)
      BY <1>1, <2>1 DEF RunAgrees
    <2> HIDE DEF m
    <2>3. MetaIsBase' /\ RemoteShaped'
      BY <2>1, <2>2, MetaAsIs, SameRemote DEF remote
    <2> QED
      BY <2>1, <2>3, EndRunAgrees
  <1> QED
    BY <1>4, <1>5, <1>6, <1>7, <1>8, <1>9

(* The steps that decide, pull and merge.                                  *)
LEMMA PullAgrees ==
    ASSUME BaseInv, TypeInv', ~Overlap, NEW d \in Devices,
           \/ Peek(d) \/ PullHeader(d) \/ PullTorn(d) \/ Merge(d)
           \/ SaveConflicts(d) \/ PeekAgain(d)
    PROVE  BaseInv'
  <1>1. /\ TypeInv /\ run[d] \in Runs
        /\ RunAgrees(run[d], remoteHeader)
    BY DEF BaseInv, TypeInv, EngineOK
  <1>2. /\ UNCHANGED <<base, meta, remoteHeader>>
        /\ run[d].pc # "idle"
    BY DEF Peek, PullHeader, PullTorn, Merge, SaveConflicts, PeekAgain, sync,
           remote
  <1>3. MetaIsBase' /\ RemoteShaped'
    BY <1>2, SameBase, SameRemote
  <1>4. ASSUME NEW next, Proceed(d, next), RunAgrees(next, remoteHeader')
        PROVE  BaseInv'
    BY <1>2, <1>3, <1>4, ProceedAgrees
  <1>5. ASSUME NEW error, EndRun(d, error)
        PROVE  BaseInv'
    BY <1>2, <1>3, <1>5, EndRunAgrees
  <1>6. ASSUME NEW pending, NEW expect
        PROVE  /\ PublishLocal(d, pending, expect).pc = "check"
               /\ PublishLocal(d, pending, expect).header.tags
                     = Table(PublishLocal(d, pending, expect).sent)
    BY <1>1, PublishedAgrees DEF PublishLocal
  <1>7. CASE Peek(d)
    <2>1. CASE Proceed(d, PublishLocal(d, conflicts[d], Null))
      BY <1>4, <1>6, <2>1 DEF RunAgrees
    <2>2. CASE Proceed(d, [run[d] EXCEPT !.pc = "pull", !.pending = conflicts[d]])
      <3> DEFINE next == [run[d] EXCEPT !.pc = "pull", !.pending = conflicts[d]]
      <3>1. RunAgrees(next, remoteHeader')
        BY <1>1 DEF RunAgrees, Runs
      <3> HIDE DEF next
      <3> QED
        BY <1>4, <2>2, <3>1 DEF next
    <2>3. CASE Proceed(d, [PublishLocal(d, conflicts[d], remoteHeader)
                              EXCEPT !.fast = TRUE])
      <3> DEFINE p == PublishLocal(d, conflicts[d], remoteHeader)
                 next == [p EXCEPT !.fast = TRUE]
      <3>1. p \in Runs
        BY <1>1, PublishLocalType DEF TypeInv, SyncOK, RemoteOK
      <3>2. p.pc = "check" /\ p.header.tags = Table(p.sent)
        BY <1>6
      <3> HIDE DEF p
      <3>3. RunAgrees(next, remoteHeader')
        BY <3>1, <3>2 DEF RunAgrees, Runs
      <3> HIDE DEF next
      <3> QED
        BY <1>4, <2>3, <3>3 DEF next, p
    <2>4. CASE EndRun(d, "none")
      BY <1>5, <2>4
    <2> QED
      BY <1>7, <2>1, <2>2, <2>3, <2>4 DEF Peek
  <1>8. CASE PullHeader(d)
    <2>1. CASE remoteHeader = Null
      <3>1. Proceed(d, PublishLocal(d, run[d].pending, Null))
        BY <1>8, <2>1 DEF PullHeader
      <3> QED
        BY <1>4, <1>6, <3>1 DEF RunAgrees
    <2>2. CASE remoteHeader # Null
      <3> DEFINE next == [run[d] EXCEPT !.pc = "parts", !.header = remoteHeader]
      <3>1. Proceed(d, next)
        BY <1>8, <2>2 DEF PullHeader
      <3>2. RunAgrees(next, remoteHeader')
        BY <1>1, <1>2 DEF RunAgrees, Runs
      <3> HIDE DEF next
      <3> QED
        BY <1>4, <3>1, <3>2
    <2> QED
      BY <2>1, <2>2
  <1>9. CASE PullTorn(d)
    <2>1. CASE Proceed(d, [PublishLocal(d, run[d].pending, Null)
                              EXCEPT !.pc = "repair"])
      <3> DEFINE p == PublishLocal(d, run[d].pending, Null)
                 next == [p EXCEPT !.pc = "repair"]
      <3>1. p \in Runs
        BY <1>1, PublishLocalType DEF Runs
      <3>2. p.header.tags = Table(p.sent)
        BY <1>6
      <3> HIDE DEF p
      <3>3. RunAgrees(next, remoteHeader')
        BY <3>1, <3>2 DEF RunAgrees, Runs
      <3> HIDE DEF next
      <3> QED
        BY <1>4, <2>1, <3>3 DEF next, p
    <2>2. CASE EndRun(d, "mismatch")
      BY <1>5, <2>2
    <2> QED
      BY <1>9, <2>1, <2>2 DEF PullTorn
  <1>10. CASE Merge(d)
    <2> DEFINE theirs == ItemsIn(run[d].header.tags)
               out == OutboundView(Merged(d), MergedPending(d))
               same == SameItems(out, theirs)
               number == IF same THEN run[d].header.rev ELSE NextRev(d)
               key == IF same THEN run[d].header.password ELSE AdoptedPassword(d)
               h == [rev |-> number, by |-> d, tags |-> Table(out),
                     password |-> key]
               pc == IF same THEN "adopted" ELSE "merged"
               next == [run[d] EXCEPT !.pc = pc, !.pending = MergedPending(d),
                                      !.sent = out, !.header = h]
    <2>1. Proceed(d, next) /\ run[d].pc = "parts"
      BY <1>10 DEF Merge, Merged, MergedPending
    <2>2. remoteHeader = Null \/ remoteHeader = run[d].header
      BY <1>1, <2>1 DEF RunAgrees
    <2>3. pc = "adopted" => remoteHeader = Null \/ remoteHeader.tags = Table(out)
      BY <2>2 DEF SameItems, BaseInv, RemoteShaped, Shaped
    <2>4. pc \in {"adopted", "merged"} /\ h.tags = Table(out)
      OBVIOUS
    <2> HIDE DEF pc, out, h
    <2>5. next.pc = pc /\ next.sent = out /\ next.header = h
      BY <1>1 DEF Runs
    <2> HIDE DEF next
    <2>6. RunAgrees(next, remoteHeader')
      BY <1>2, <2>3, <2>4, <2>5 DEF RunAgrees
    <2> QED
      BY <1>4, <2>1, <2>6
  <1>11. CASE SaveConflicts(d)
    <2> DEFINE pc == IF run[d].pc = "adopted" THEN "record" ELSE "repair"
               next == [run[d] EXCEPT !.pc = pc]
    <2>1. Proceed(d, next) /\ run[d].pc \in {"adopted", "merged"}
      BY <1>1, <1>11 DEF SaveConflicts, Runs
    <2>2. RunAgrees(next, remoteHeader')
      BY <1>1, <1>2, <2>1 DEF RunAgrees, Runs
    <2> HIDE DEF next
    <2> QED
      BY <1>4, <2>1, <2>2
  <1>12. CASE PeekAgain(d)
    <2> DEFINE pc == IF run[d].pc = "record" THEN "base" ELSE "check"
               h == [run[d].header EXCEPT !.password = password[d]]
               next == [run[d] EXCEPT !.pc = pc, !.stamp = remoteHeader,
                                      !.header = h]
    <2>1. run[d].pc \in {"record", "repair"} /\ run[d].header \in Headers
      BY <1>12 DEF PeekAgain, BaseInv, TypeInv, EngineOK, HeaderInHand
    <2>2. Proceed(d, next)
      BY <1>1, <1>12, <2>1 DEF PeekAgain, Runs, Headers
    <2>3. h.tags = run[d].header.tags
      BY <2>1 DEF Headers
    <2> HIDE DEF h
    <2>4. RunAgrees(next, remoteHeader')
      BY <1>1, <1>2, <2>1, <2>3 DEF RunAgrees, Runs
    <2> HIDE DEF next
    <2> QED
      BY <1>4, <2>2, <2>4
  <1> QED
    BY <1>7, <1>8, <1>9, <1>10, <1>11, <1>12

(* The triggers, the user, and the runs that stop.                         *)
LEMMA OthersAgree ==
    ASSUME BaseInv, TypeInv', ~Overlap, NEW d \in Devices,
           \/ Trigger(d) \/ User(d) \/ RunStops(d)
    PROVE  BaseInv'
  <1>1. CASE Edit(d) \/ Purge(d) \/ ChangePassword(d)
    <2>1. UNCHANGED <<base, meta, remoteHeader, run>>
      BY <1>1 DEF Edit, Purge, ChangePassword, sync, remote, engine
    <2> QED
      BY <2>1, SameBase, SameRemote DEF BaseInv, Exclusive
  <1>2. CASE Trigger(d)
    <2>1. UNCHANGED <<base, meta, remoteHeader>>
      BY <1>2 DEF Trigger, sync, remote
    <2> QED
      BY <1>2, <2>1, SameBase, SyncNowAgrees DEF Trigger
  <1>3. CASE Resolve(d)
    <2>1. UNCHANGED <<base, meta, remoteHeader>>
      BY <1>3 DEF Resolve, remote
    <2> QED
      BY <1>3, <2>1, SameBase, SyncNowAgrees DEF Resolve
  <1>4. CASE ReplaceRemoteVault(d)
    <2>1. MetaIsBase'
      BY <1>4, MetaAsIs DEF ReplaceRemoteVault
    <2>2. CASE remoteHeader' = Null /\ SyncNow(d, TRUE)
      BY <1>4, <2>1, <2>2, SyncNowAgrees DEF ReplaceRemoteVault
    <2>3. CASE UNCHANGED <<remote, engine>>
      BY <2>1, <2>3, SameRemote DEF BaseInv, Exclusive, remote, engine
    <2> QED
      BY <1>4, <2>2, <2>3 DEF ReplaceRemoteVault
  <1>5. CASE RunStops(d)
    <2>1. MetaIsBase' /\ RemoteShaped' /\ run[d].pc # "idle"
      BY <1>5, SameBase, SameRemote DEF RunStops, sync, remote
    <2>2. CASE EndRun(d, "none")
      BY <2>1, <2>2, EndRunAgrees
    <2>3. CASE run' = [run EXCEPT ![d] = IdleRun]
      <3>1. run'[d].pc = "idle" /\ \A e \in Devices \ {d} : run'[e] = run[e]
        BY <2>3 DEF BaseInv, TypeInv, EngineOK, IdleRun
      <3>2. RunAgrees(run'[d], remoteHeader')
        BY <3>1 DEF RunAgrees
      <3> QED
        BY <2>1, <3>1, <3>2, OthersIdle, OneRun
    <2> QED
      BY <1>5, <2>2, <2>3 DEF RunStops
  <1> QED
    BY <1>1, <1>2, <1>3, <1>4, <1>5 DEF User

LEMMA BaseInit == Init => BaseInv
  <1> SUFFICES ASSUME Init
               PROVE  BaseInv
    OBVIOUS
  <1>1. TypeInv
    BY TypeInit
  <1>2. remoteHeader.tags = Table(SharedItems)
    BY DEF Init
  <1>3. \A d \in Devices : run[d].pc = "idle"
    BY DEF Init, IdleRun
  <1>4. Exclusive /\ \A d \in Devices : RunAgrees(run[d], remoteHeader)
    BY <1>3 DEF Exclusive, RunAgrees
  <1>5. RemoteShaped
    BY <1>2, OriginalType, TableShaped DEF RemoteShaped
  <1>6. MetaIsBase
    BY <1>2 DEF Init, MetaIsBase
  <1> QED
    BY <1>1, <1>4, <1>5, <1>6 DEF BaseInv

LEMMA BaseStep ==
    ASSUME ~Overlap
    PROVE  BaseInv /\ [Next]_vars => BaseInv'
  <1>1. ASSUME BaseInv, [Next]_vars
        PROVE  TypeInv'
    BY <1>1, TypeStep DEF BaseInv
  <1>2. ASSUME BaseInv, UNCHANGED vars
        PROVE  BaseInv'
    BY <1>1, <1>2 DEF vars, BaseInv, Exclusive, MetaIsBase, RemoteShaped
  <1> QED
    BY <1>1, <1>2, PushAgrees, PullAgrees, OthersAgree DEF Next, Step

(* A device that takes the remote for unmoved merges against exactly what  *)
(* the remote holds - as long as the runs of two devices do not overlap,   *)
(* though users change things at any moment and runs stop anywhere.        *)
THEOREM BaseStaysRemote ==
    ASSUME ~Overlap
    PROVE  Spec => []BaseIsRemote
  BY BaseInit, BaseStep, BaseInvImplies, PTL DEF Spec

-----------------------------------------------------------------------------
(* A clean device has pushed everything, as long as runs finish *)

(* What saveBase() recorded is what the device has, unless its revision    *)
(* went on since.                                                          *)
Saved(d) ==
    meta[d] # Null =>
        /\ meta[d].rev <= rev[d]
        /\ meta[d].rev = rev[d] => Outbound(d) = base[d]

(* So is what a run is about to record: an edit made meanwhile raises the  *)
(* revision.                                                               *)
Current(r, revision, its) ==
    /\ r.header.rev <= revision
    /\ r.header.rev = revision => OutboundView(its, r.pending) = r.sent

(* Only a vault taken out of the sync area under a run stops its push.     *)
Expected(r, m, remoteNow) ==
    m # Null =>
        /\ r.pc = "check" => remoteNow = r.stamp
        /\ r.pc = "verify" => remoteNow = r.header

(* The conflicts a run goes by are those on record, but for a fresh merge. *)
GoesBy(r, pending) ==
    r.pc \notin {"idle", "peek", "adopted", "merged"} => r.pending = pending

Undecided == {"idle", "peek", "pull", "parts"}

CleanSound(d) ==
    /\ run[d].pc \in Undecided => Saved(d)
    /\ run[d].pc \notin Undecided => Current(run[d], rev[d], items[d])
    /\ Expected(run[d], meta[d], remoteHeader)
    /\ GoesBy(run[d], conflicts[d])

CleanInv ==
    /\ BaseInv
    /\ resolves = 0 => \A d \in Devices : CleanSound(d)

LEMMA CleanInvImplies == CleanInv => CleanMeansPushed
  <1> SUFFICES ASSUME CleanInv, NEW d \in Devices,
                      run[d].pc = "idle", resolves = 0, remoteHeader # Null,
                      ~RemoteMoved(d), ~LocalMoved(d)
               PROVE  Table(Outbound(d)) = remoteHeader.tags
    BY DEF CleanMeansPushed
  <1>1. Outbound(d) = base[d]
    BY DEF CleanInv, CleanSound, Undecided, Saved, LocalMoved
  <1>2. remoteHeader.tags = Table(base[d])
    BY DEF CleanInv, BaseInv, MetaIsBase, RemoteMoved
  <1> QED
    BY <1>1, <1>2

(* One device acts; the others' runs are idle.                             *)
LEMMA OneClean ==
    ASSUME CleanInv, BaseInv', NEW d \in Devices, resolves' = resolves,
           \A e \in Devices \ {d} :
              /\ run[e].pc = "idle" /\ run'[e] = run[e] /\ meta'[e] = meta[e]
              /\ base'[e] = base[e] /\ rev'[e] = rev[e] /\ items'[e] = items[e]
              /\ conflicts'[e] = conflicts[e],
           resolves = 0 => CleanSound(d)'
    PROVE  CleanInv'
  <1> SUFFICES ASSUME resolves = 0, NEW e \in Devices \ {d}
               PROVE  CleanSound(e)'
    BY DEF CleanInv
  <1>1. CleanSound(e)
    BY DEF CleanInv
  <1> QED
    BY <1>1 DEF CleanSound, Undecided, Saved, Outbound, Expected, GoesBy

(* The device only goes on with its run.                                   *)
LEMMA GoesOnClean ==
    ASSUME CleanInv, BaseInv', ~Overlap, NEW d \in Devices, NEW next,
           run[d].pc # "idle", Proceed(d, next),
           UNCHANGED <<local, sync, resolves>>,
           resolves = 0 =>
              /\ next.pc \in Undecided => Saved(d)
              /\ next.pc \notin Undecided => Current(next, rev[d], items[d])
              /\ Expected(next, meta[d], remoteHeader')
              /\ GoesBy(next, conflicts[d])
    PROVE  CleanInv'
  <1>1. run'[d] = next /\ \A e \in Devices \ {d} : run'[e] = run[e]
    BY DEF Proceed, CleanInv, BaseInv, TypeInv, EngineOK
  <1>2. \A e \in Devices \ {d} : run[e].pc = "idle"
    BY OthersIdle DEF CleanInv
  <1>3. resolves = 0 => CleanSound(d)'
    BY <1>1 DEF CleanSound, Saved, Outbound, local, sync
  <1> QED
    BY <1>1, <1>2, <1>3, OneClean DEF local, sync

LEMMA EndsClean ==
    ASSUME CleanInv, BaseInv', ~Overlap, NEW d \in Devices, NEW error,
           run[d].pc # "idle", EndRun(d, error),
           UNCHANGED <<local, conflicts, resolves>>,
           \A e \in Devices \ {d} : meta'[e] = meta[e] /\ base'[e] = base[e],
           resolves = 0 => Saved(d)'
    PROVE  CleanInv'
  <1>1. run'[d].pc \in {"idle", "peek"} /\ \A e \in Devices \ {d} : run'[e] = run[e]
    BY DEF EndRun, IdleRun, CleanInv, BaseInv, TypeInv, EngineOK
  <1>2. \A e \in Devices \ {d} : run[e].pc = "idle"
    BY OthersIdle DEF CleanInv
  <1>3. resolves = 0 => CleanSound(d)'
    BY <1>1 DEF CleanSound, Undecided, Expected, GoesBy
  <1> QED
    BY <1>1, <1>2, <1>3, OneClean DEF local

(* A lost race: the vault was taken out of the sync area.                  *)
LEMMA LostRaceClean ==
    ASSUME CleanInv, BaseInv', ~Overlap, NEW d \in Devices, LostRace(d),
           run[d].pc \in {"check", "verify"}, UNCHANGED <<local, sync, resolves>>,
           resolves = 0 => meta[d] = Null
    PROVE  CleanInv'
  <1>1. resolves = 0 => Saved(d) /\ Saved(d)'
    BY DEF Saved, sync
  <1>2. CASE run[d].fast
    <2> DEFINE next == [run[d] EXCEPT !.pc = "pull", !.fast = FALSE]
    <2>1. next.pc = "pull" /\ next.pending = run[d].pending
      BY DEF CleanInv, BaseInv, TypeInv, EngineOK, Runs
    <2>2. Proceed(d, next)
      BY <1>2 DEF LostRace
    <2>3. resolves = 0 => GoesBy(run[d], conflicts[d])
      BY DEF CleanInv, CleanSound
    <2> HIDE DEF next
    <2>4. resolves = 0 => Expected(next, meta[d], remoteHeader') /\ GoesBy(next, conflicts[d])
      BY <2>1, <2>3 DEF Expected, GoesBy
    <2> QED
      BY <1>1, <2>1, <2>2, <2>4, GoesOnClean DEF Undecided
  <1>3. CASE ~run[d].fast
    <2>1. EndRun(d, "none")
      BY <1>3 DEF LostRace
    <2> QED
      BY <1>1, <2>1, EndsClean DEF sync
  <1> QED
    BY <1>2, <1>3

LEMMA PublishedCurrent ==
    ASSUME CleanInv, NEW d \in Devices, NEW pending, NEW expect
    PROVE  LET p == PublishLocal(d, pending, expect)
           IN  /\ p.pc = "check" /\ p.stamp = expect /\ p.pending = pending
               /\ Current(p, rev[d], items[d])
  <1>1. run[d] \in Runs /\ rev[d] \in Nat
    BY DEF CleanInv, BaseInv, TypeInv, EngineOK, LocalOK
  <1> DEFINE p == PublishLocal(d, pending, expect)
  <1>2. /\ p.pc = "check" /\ p.stamp = expect /\ p.pending = pending
        /\ p.header.rev = rev[d] /\ p.sent = OutboundView(items[d], pending)
    BY <1>1 DEF PublishLocal, Published, Runs
  <1> QED
    BY <1>1, <1>2 DEF Current

(* A run that moves on without looking at what it carries.                 *)
LEMMA MovesOnClean ==
    ASSUME CleanInv, BaseInv', ~Overlap, NEW d \in Devices, NEW pc,
           run[d].pc \in {"check", "set", "remove", "header"},
           pc \in {"set", "remove", "header", "verify"},
           Proceed(d, [run[d] EXCEPT !.pc = pc]),
           UNCHANGED <<local, sync, resolves>>,
           pc = "verify" => remoteHeader' = run[d].header
    PROVE  CleanInv'
  <1> DEFINE next == [run[d] EXCEPT !.pc = pc]
  <1>1. /\ next.pc = pc /\ next.pending = run[d].pending /\ next.header = run[d].header
        /\ next.sent = run[d].sent
    BY DEF CleanInv, BaseInv, TypeInv, EngineOK, Runs
  <1> HIDE DEF next
  <1>2. resolves = 0 => CleanSound(d)
    BY DEF CleanInv
  <1>3. resolves = 0 => /\ Current(next, rev[d], items[d])
                        /\ Expected(next, meta[d], remoteHeader')
                        /\ GoesBy(next, conflicts[d])
    BY <1>1, <1>2 DEF CleanSound, Undecided, Current, Expected, GoesBy
  <1>4. next.pc \notin Undecided
    BY <1>1 DEF Undecided
  <1> QED
    BY <1>3, <1>4, GoesOnClean DEF next

LEMMA PushClean ==
    ASSUME CleanInv, BaseInv', ~Overlap, NEW d \in Devices,
           \/ PushCheck(d) \/ PushParts(d) \/ RemoveParts(d) \/ PushHeader(d)
           \/ PushVerify(d) \/ SaveBase(d)
    PROVE  CleanInv'
  <1>1. /\ run[d] \in Runs /\ rev[d] \in Nat
        /\ resolves = 0 => CleanSound(d)
    BY DEF CleanInv, BaseInv, TypeInv, EngineOK, LocalOK
  <1>2. CASE PushCheck(d)
    <2>1. run[d].pc = "check" /\ UNCHANGED <<local, sync, resolves, remoteHeader>>
      BY <1>2 DEF PushCheck, counters, remote
    <2>2. CASE remoteHeader # run[d].stamp
      <3>1. LostRace(d)
        BY <1>2, <2>2 DEF PushCheck
      <3>2. resolves = 0 => meta[d] = Null
        BY <1>1, <2>1, <2>2 DEF CleanSound, Expected
      <3> QED
        BY <2>1, <3>1, <3>2, LostRaceClean
    <2>3. CASE remoteHeader = run[d].stamp
      <3> DEFINE pc == IF ChangedParts(run[d].header, remoteHeader) # {} THEN "set"
                       ELSE IF ObsoleteParts(run[d].header, remoteHeader) # {}
                         THEN "remove" ELSE "header"
      <3>1. Proceed(d, [run[d] EXCEPT !.pc = pc])
        BY <1>2, <2>3 DEF PushCheck
      <3>2. pc \in {"set", "remove", "header"}
        OBVIOUS
      <3> HIDE DEF pc
      <3> QED
        BY <2>1, <3>1, <3>2, MovesOnClean
    <2> QED
      BY <2>2, <2>3
  <1>3. CASE PushParts(d)
    <2> DEFINE pc == IF ObsoleteParts(run[d].header, run[d].stamp) # {}
                       THEN "remove" ELSE "header"
    <2>1. /\ run[d].pc = "set" /\ Proceed(d, [run[d] EXCEPT !.pc = pc])
          /\ UNCHANGED <<local, sync, resolves>>
      BY <1>3 DEF PushParts, counters
    <2>2. pc \in {"remove", "header"}
      OBVIOUS
    <2> HIDE DEF pc
    <2> QED
      BY <2>1, <2>2, MovesOnClean
  <1>4. CASE RemoveParts(d)
    <2>1. /\ run[d].pc = "remove" /\ Proceed(d, [run[d] EXCEPT !.pc = "header"])
          /\ UNCHANGED <<local, sync, resolves>>
      BY <1>4 DEF RemoveParts, counters
    <2> QED
      BY <2>1, MovesOnClean
  <1>5. CASE PushHeader(d)
    <2>1. /\ run[d].pc = "header" /\ Proceed(d, [run[d] EXCEPT !.pc = "verify"])
          /\ UNCHANGED <<local, sync, resolves>> /\ remoteHeader' = run[d].header
      BY <1>5 DEF PushHeader, counters
    <2> QED
      BY <2>1, MovesOnClean
  <1>6. CASE PushVerify(d)
    <2>1. run[d].pc = "verify" /\ UNCHANGED <<local, sync, resolves, remoteHeader>>
      BY <1>6 DEF PushVerify, counters, remote
    <2>2. CASE remoteHeader # run[d].header
      <3>1. LostRace(d)
        BY <1>6, <2>2 DEF PushVerify
      <3>2. resolves = 0 => meta[d] = Null
        BY <1>1, <2>1, <2>2 DEF CleanSound, Expected
      <3> QED
        BY <2>1, <3>1, <3>2, LostRaceClean
    <2>3. CASE remoteHeader = run[d].header
      <3> DEFINE next == [run[d] EXCEPT !.pc = "base", !.stamp = remoteHeader]
      <3>1. Proceed(d, next)
        BY <1>6, <2>3 DEF PushVerify
      <3>2. /\ next.pc = "base" /\ next.pending = run[d].pending /\ next.sent = run[d].sent
            /\ next.header = run[d].header
        BY <1>1 DEF Runs
      <3> HIDE DEF next
      <3>3. resolves = 0 => /\ Current(next, rev[d], items[d])
                            /\ Expected(next, meta[d], remoteHeader')
                            /\ GoesBy(next, conflicts[d])
        BY <1>1, <2>1, <3>2 DEF CleanSound, Undecided, Current, Expected, GoesBy
      <3>4. next.pc \notin Undecided
        BY <3>2 DEF Undecided
      <3> QED
        BY <2>1, <3>1, <3>3, <3>4, GoesOnClean
    <2> QED
      BY <2>2, <2>3
  <1>7. CASE SaveBase(d)
    <2>1. /\ run[d].pc = "base" /\ EndRun(d, "none")
          /\ base' = [base EXCEPT ![d] = run[d].sent]
          /\ meta' = [meta EXCEPT ![d] = [rev |-> run[d].header.rev, stamp |-> run[d].stamp]]
          /\ UNCHANGED <<local, conflicts, resolves>>
      BY <1>7 DEF SaveBase, counters
    <2>2. base'[d] = run[d].sent /\ meta'[d].rev = run[d].header.rev
      BY <2>1 DEF CleanInv, BaseInv, TypeInv, SyncOK
    <2>3. \A e \in Devices \ {d} : meta'[e] = meta[e] /\ base'[e] = base[e]
      BY <2>1 DEF CleanInv, BaseInv, TypeInv, SyncOK
    <2>4. resolves = 0 => Saved(d)'
      BY <1>1, <2>1, <2>2 DEF CleanSound, Undecided, Current, GoesBy, Saved, Outbound, local
    <2> QED
      BY <2>1, <2>3, <2>4, EndsClean
  <1> QED
    BY <1>2, <1>3, <1>4, <1>5, <1>6, <1>7

LEMMA DecideClean ==
    ASSUME CleanInv, BaseInv', ~Overlap, NEW d \in Devices,
           Peek(d) \/ PullHeader(d) \/ PullTorn(d)
    PROVE  CleanInv'
  <1>1. /\ run[d] \in Runs
        /\ resolves = 0 => CleanSound(d)
        /\ run[d].pc \in {"peek", "pull", "parts"}
        /\ UNCHANGED <<local, sync, resolves, remoteHeader>>
    BY DEF CleanInv, BaseInv, TypeInv, EngineOK, Peek, PullHeader, PullTorn, counters, remote
  <1>2. ASSUME NEW next, Proceed(d, next),
               next.pc \in {"pull", "parts"},
               next.pending = conflicts[d] \/ (run[d].pc # "peek" /\ next.pending = run[d].pending)
        PROVE  CleanInv'
    <2>1. resolves = 0 => /\ Saved(d) /\ Expected(next, meta[d], remoteHeader')
                          /\ GoesBy(next, conflicts[d])
      BY <1>1, <1>2 DEF CleanSound, Undecided, Expected, GoesBy
    <2> QED
      BY <1>1, <1>2, <2>1, GoesOnClean DEF Undecided
  <1>3. ASSUME NEW p, NEW next, NEW pending, NEW expect, Proceed(d, next),
               p = PublishLocal(d, pending, expect),
               next.pc \in {"check", "repair"}, next.stamp = p.stamp,
               next.pending = p.pending, next.sent = p.sent, next.header = p.header,
               next.pc = "check" => expect = remoteHeader,
               pending = conflicts[d] \/ (run[d].pc # "peek" /\ pending = run[d].pending)
        PROVE  CleanInv'
    <2>1. p.stamp = expect /\ p.pending = pending /\ Current(p, rev[d], items[d])
      BY <1>3, PublishedCurrent
    <2>2. Current(next, rev[d], items[d])
      BY <1>3, <2>1 DEF Current
    <2>3. resolves = 0 => /\ Expected(next, meta[d], remoteHeader')
                          /\ GoesBy(next, conflicts[d])
      BY <1>1, <1>3, <2>1 DEF CleanSound, Expected, GoesBy
    <2> QED
      BY <1>1, <1>3, <2>2, <2>3, GoesOnClean DEF Undecided
  <1>4. ASSUME NEW error, EndRun(d, error) PROVE CleanInv'
    <2>1. resolves = 0 => Saved(d)'
      BY <1>1 DEF CleanSound, Undecided, Saved, Outbound, local, sync
    <2> QED
      BY <1>1, <1>4, <2>1, EndsClean DEF sync
  <1>5. TypeInv /\ conflicts[d] \in Conflicts /\ run[d].pending \in Conflicts
    BY <1>1 DEF CleanInv, BaseInv, TypeInv, SyncOK, Runs
  <1>6. CASE Peek(d)
    <2>1. run[d].pc = "peek"
      BY <1>6 DEF Peek
    <2>2. CASE remoteHeader = Null /\ Proceed(d, PublishLocal(d, conflicts[d], Null))
      <3>1. PublishLocal(d, conflicts[d], Null).pc = "check"
        BY PublishedCurrent
      <3> QED
        BY <1>3, <2>2, <3>1
    <2>3. CASE Proceed(d, [run[d] EXCEPT !.pc = "pull", !.pending = conflicts[d]])
      <3> DEFINE next == [run[d] EXCEPT !.pc = "pull", !.pending = conflicts[d]]
      <3>1. next.pc = "pull" /\ next.pending = conflicts[d]
        BY <1>1 DEF Runs
      <3> HIDE DEF next
      <3> QED
        BY <1>2, <2>3, <3>1 DEF next
    <2>4. CASE Proceed(d, [PublishLocal(d, conflicts[d], remoteHeader) EXCEPT !.fast = TRUE])
      <3> DEFINE p == PublishLocal(d, conflicts[d], remoteHeader)
                 next == [p EXCEPT !.fast = TRUE]
      <3>1. p \in Runs /\ p.pc = "check"
        BY <1>5, PublishLocalType DEF TypeInv, RemoteOK
      <3>2. p = PublishLocal(d, conflicts[d], remoteHeader)
        OBVIOUS
      <3> HIDE DEF p
      <3>3. /\ next.pc = "check" /\ next.stamp = p.stamp /\ next.pending = p.pending
            /\ next.sent = p.sent /\ next.header = p.header
        BY <3>1 DEF Runs
      <3>4. Proceed(d, next)
        BY <2>4, <3>2
      <3> HIDE DEF next
      <3> QED
        BY <1>3, <3>2, <3>3, <3>4
    <2>5. CASE EndRun(d, "none")
      BY <1>4, <2>5
    <2> QED
      BY <1>6, <2>2, <2>3, <2>4, <2>5 DEF Peek
  <1>7. CASE PullHeader(d)
    <2>1. run[d].pc = "pull"
      BY <1>7 DEF PullHeader
    <2>2. CASE remoteHeader = Null
      <3>1. PublishLocal(d, run[d].pending, Null).pc = "check"
        BY PublishedCurrent
      <3>2. Proceed(d, PublishLocal(d, run[d].pending, Null))
        BY <1>7, <2>2 DEF PullHeader
      <3> QED
        BY <1>3, <2>1, <2>2, <3>1, <3>2
    <2>3. CASE remoteHeader # Null
      <3> DEFINE next == [run[d] EXCEPT !.pc = "parts", !.header = remoteHeader]
      <3>1. next.pc = "parts" /\ next.pending = run[d].pending
        BY <1>1 DEF Runs
      <3>2. Proceed(d, next)
        BY <1>7, <2>3 DEF PullHeader
      <3> HIDE DEF next
      <3> QED
        BY <1>2, <2>1, <3>1, <3>2
    <2> QED
      BY <2>2, <2>3
  <1>8. CASE PullTorn(d)
    <2>1. run[d].pc = "parts"
      BY <1>8 DEF PullTorn
    <2>2. CASE Proceed(d, [PublishLocal(d, run[d].pending, Null) EXCEPT !.pc = "repair"])
      <3> DEFINE p == PublishLocal(d, run[d].pending, Null)
                 next == [p EXCEPT !.pc = "repair"]
      <3>1. p \in Runs
        BY <1>5, PublishLocalType
      <3>2. p = PublishLocal(d, run[d].pending, Null)
        OBVIOUS
      <3> HIDE DEF p
      <3>3. /\ next.pc = "repair" /\ next.stamp = p.stamp /\ next.pending = p.pending
            /\ next.sent = p.sent /\ next.header = p.header
        BY <3>1 DEF Runs
      <3>4. Proceed(d, next)
        BY <2>2, <3>2
      <3> HIDE DEF next
      <3> QED
        BY <1>3, <2>1, <3>2, <3>3, <3>4
    <2>3. CASE EndRun(d, "mismatch")
      BY <1>4, <2>3
    <2> QED
      BY <1>8, <2>2, <2>3 DEF PullTorn
  <1> QED
    BY <1>6, <1>7, <1>8

LEMMA MergeClean ==
    ASSUME CleanInv, BaseInv', ~Overlap, NEW d \in Devices,
           Merge(d) \/ SaveConflicts(d) \/ PeekAgain(d)
    PROVE  CleanInv'
  <1>1. /\ run[d] \in Runs /\ rev[d] \in Nat /\ TypeInv
        /\ resolves = 0 => CleanSound(d)
        /\ run[d].pc # "idle" /\ UNCHANGED <<meta, base, resolves, remoteHeader>>
    BY DEF CleanInv, BaseInv, TypeInv, EngineOK, LocalOK, Merge, SaveConflicts, PeekAgain,
           counters, remote, sync
  <1>2. \A e \in Devices \ {d} : run[e].pc = "idle"
    BY <1>1, OthersIdle DEF CleanInv
  <1>3. CASE Merge(d)
    <2> DEFINE theirs == ItemsIn(run[d].header.tags)
               out == OutboundView(Merged(d), MergedPending(d))
               same == SameItems(out, theirs)
               number == IF same THEN run[d].header.rev ELSE NextRev(d)
               key == IF same THEN run[d].header.password ELSE AdoptedPassword(d)
               h == [rev |-> number, by |-> d, tags |-> Table(out),
                     password |-> key]
               pc == IF same THEN "adopted" ELSE "merged"
               next == [run[d] EXCEPT !.pc = pc, !.pending = MergedPending(d),
                                      !.sent = out, !.header = h]
    <2>1. /\ items' = [items EXCEPT ![d] = Merged(d)]
          /\ rev' = [rev EXCEPT ![d] = number]
          /\ Proceed(d, next)
          /\ UNCHANGED conflicts
      BY <1>3 DEF Merge, Merged, MergedPending, sync
    <2>2. number \in Nat /\ pc \in {"adopted", "merged"} /\ h.rev = number
      BY <1>1, <1>3, MergeParts DEF NextRev, Headers
    <2>3. out = OutboundView(Merged(d), MergedPending(d))
      OBVIOUS
    <2> HIDE DEF out, number, pc, h
    <2>4. /\ next.pc = pc /\ next.pending = MergedPending(d) /\ next.sent = out /\ next.header = h
      BY <1>1 DEF Runs
    <2> HIDE DEF next
    <2>5. /\ run'[d] = next /\ items'[d] = Merged(d) /\ rev'[d] = number
          /\ \A e \in Devices \ {d} : run'[e] = run[e] /\ items'[e] = items[e] /\ rev'[e] = rev[e]
      BY <1>1, <2>1 DEF Proceed, TypeInv, EngineOK, LocalOK
    <2>6. CleanSound(d)'
      BY <2>2, <2>3, <2>4, <2>5 DEF CleanSound, Undecided, Current, Expected, GoesBy
    <2> QED
      BY <1>1, <1>2, <2>1, <2>5, <2>6, OneClean
  <1>4. CASE SaveConflicts(d)
    <2> DEFINE pc == IF run[d].pc = "adopted" THEN "record" ELSE "repair"
               next == [run[d] EXCEPT !.pc = pc]
    <2>1. /\ run[d].pc \in {"adopted", "merged"}
          /\ conflicts' = [conflicts EXCEPT ![d] = run[d].pending]
          /\ Proceed(d, next) /\ UNCHANGED <<items, rev>>
      BY <1>1, <1>4 DEF SaveConflicts, local, Runs
    <2>2. /\ next.pc \in {"record", "repair"} /\ next.pending = run[d].pending
          /\ next.sent = run[d].sent /\ next.header = run[d].header
      BY <1>1 DEF Runs
    <2> HIDE DEF next
    <2>3. /\ run'[d] = next /\ conflicts'[d] = run[d].pending
          /\ \A e \in Devices \ {d} : run'[e] = run[e] /\ conflicts'[e] = conflicts[e]
      BY <1>1, <2>1 DEF Proceed, TypeInv, EngineOK, SyncOK
    <2>4. resolves = 0 => CleanSound(d)'
      BY <1>1, <2>1, <2>2, <2>3 DEF CleanSound, Undecided, Current, Expected, GoesBy
    <2> QED
      BY <1>1, <1>2, <2>1, <2>3, <2>4, OneClean
  <1>5. CASE PeekAgain(d)
    <2> DEFINE pc == IF run[d].pc = "record" THEN "base" ELSE "check"
               h == [run[d].header EXCEPT !.password = password[d]]
               next == [run[d] EXCEPT !.pc = pc, !.stamp = remoteHeader, !.header = h]
    <2>1. run[d].pc \in {"record", "repair"} /\ run[d].header \in Headers
      BY <1>5 DEF PeekAgain, CleanInv, BaseInv, TypeInv, EngineOK, HeaderInHand
    <2>2. Proceed(d, next) /\ UNCHANGED <<local, sync>>
      BY <1>1, <1>5, <2>1 DEF PeekAgain, Runs, Headers
    <2>3. h.rev = run[d].header.rev
      BY <2>1 DEF Headers
    <2> HIDE DEF h
    <2>4. /\ next.pc \in {"base", "check"} /\ next.pending = run[d].pending
          /\ next.sent = run[d].sent /\ next.header = h /\ next.stamp = remoteHeader
      BY <1>1 DEF Runs
    <2> HIDE DEF next
    <2>5. resolves = 0 => /\ Current(next, rev[d], items[d])
                          /\ Expected(next, meta[d], remoteHeader')
                          /\ GoesBy(next, conflicts[d])
      BY <1>1, <2>1, <2>3, <2>4 DEF CleanSound, Undecided, Current, Expected, GoesBy
    <2> QED
      BY <1>1, <2>2, <2>4, <2>5, GoesOnClean DEF Undecided
  <1> QED
    BY <1>3, <1>4, <1>5

(* An edit, wherever a run is, raises the revision.                        *)
LEMMA EditedClean ==
    ASSUME CleanInv, BaseInv', NEW d \in Devices,
           Edit(d) \/ Purge(d) \/ ChangePassword(d)
    PROVE  CleanInv'
  <1>1. /\ rev' = [rev EXCEPT ![d] = @ + 1]
        /\ UNCHANGED <<base, meta, conflicts, run, remoteHeader, resolves>>
    BY DEF Edit, Purge, ChangePassword, sync, engine, remote
  <1>2. \A e \in Devices \ {d} : items'[e] = items[e]
    BY DEF Edit, Purge, ChangePassword, CleanInv, BaseInv, TypeInv, LocalOK, ItemMaps
  <1>3. /\ rev[d] \in Nat /\ rev'[d] = rev[d] + 1 /\ \A e \in Devices \ {d} : rev'[e] = rev[e]
        /\ run[d] \in Runs
    BY <1>1 DEF CleanInv, BaseInv, TypeInv, LocalOK, EngineOK
  <1>4. SUFFICES ASSUME resolves = 0, NEW e \in Devices PROVE CleanSound(e)'
    BY <1>1 DEF CleanInv
  <1>5. CleanSound(e)
    BY <1>4 DEF CleanInv
  <1>6. CASE e # d
    BY <1>1, <1>2, <1>3, <1>5, <1>6
       DEF CleanSound, Undecided, Saved, Outbound, Current, Expected, GoesBy
  <1>7. CASE e = d
    <2>1. meta[d] # Null => meta[d].rev \in Nat
      BY DEF CleanInv, BaseInv, TypeInv, SyncOK, Metas
    <2>2. run[d].pc \notin Undecided => run[d].header.rev \in Nat
      BY DEF CleanInv, BaseInv, TypeInv, EngineOK, HeaderInHand, Undecided, Headers
    <2>3. run[d].pc \in Undecided => Saved(d)'
      BY <1>1, <1>3, <1>5, <1>7, <2>1 DEF CleanSound, Saved, Outbound
    <2>4. run[d].pc \notin Undecided => Current(run[d], rev'[d], items'[d])
      BY <1>3, <1>5, <1>7, <2>2 DEF CleanSound, Current
    <2> QED
      BY <1>1, <1>5, <1>7, <2>3, <2>4 DEF CleanSound, Expected, GoesBy
  <1> QED
    BY <1>6, <1>7

LEMMA AskedClean ==
    ASSUME CleanInv, BaseInv', ~Overlap, MaxFaults = 0, NEW d \in Devices,
           Trigger(d) \/ Resolve(d) \/ ReplaceRemoteVault(d) \/ RunStops(d)
    PROVE  CleanInv'
  <1>0. /\ faults \in Nat /\ resolves \in Nat /\ run \in [Devices -> Runs]
        /\ meta \in [Devices -> Metas \cup {Null}] /\ base \in [Devices -> ItemMaps \cup {Null}]
    BY SyncConstants DEF CleanInv, BaseInv, TypeInv, CountersOK, EngineOK, SyncOK
  <1>1. ~RunStops(d)
    BY <1>0 DEF RunStops
  <1>2. CASE Resolve(d)
    <2>1. resolves' = resolves + 1
      BY <1>2 DEF Resolve
    <2> QED
      BY <1>0, <2>1 DEF CleanInv
  <1>3. CASE Trigger(d) \/ ReplaceRemoteVault(d)
    <2>a. SyncNow(d, TRUE) \/ SyncNow(d, FALSE)
      <3>1. ~(faults < MaxFaults)
        BY <1>0
      <3> QED
        BY <1>3, <3>1, Zenon DEF Trigger, ReplaceRemoteVault
    <2>1. /\ MayRun(d) /\ UNCHANGED <<local, conflicts, resolves>>
          /\ \E force : SyncNow(d, force)
      BY <1>3, <2>a DEF Trigger, ReplaceRemoteVault, sync, counters
    <2>2. \A e \in Devices \ {d} : run[e].pc = "idle"
      BY <2>1, OthersIdle DEF CleanInv
    <2>3. /\ \A e \in Devices \ {d} : run'[e] = run[e]
          /\ run'[d] = run[d] \/ (run'[d].pc = "peek" /\ run[d].pc = "idle")
      BY <1>0, <2>1 DEF SyncNow, IdleRun
    <2>4. \A e \in Devices \ {d} : meta'[e] = meta[e] /\ base'[e] = base[e]
      BY <1>0, <1>3 DEF Trigger, ReplaceRemoteVault, sync
    <2>5. (meta'[d] = meta[d] /\ base'[d] = base[d] /\ remoteHeader' = remoteHeader) \/ meta'[d] = Null
      BY <1>0, <1>3 DEF Trigger, ReplaceRemoteVault, sync, remote
    <2>6. resolves = 0 => CleanSound(d)'
      BY <2>1, <2>3, <2>5 DEF CleanInv, CleanSound, Undecided, Saved, Outbound, Current, Expected,
                              GoesBy, local
    <2> QED
      BY <2>1, <2>2, <2>3, <2>4, <2>6, OneClean DEF local
  <1> QED
    BY <1>1, <1>2, <1>3

LEMMA CleanInit == Init => CleanInv
  <1> SUFFICES ASSUME Init, NEW d \in Devices PROVE CleanSound(d)
    BY BaseInit DEF CleanInv
  <1>1. run[d].pc = "idle" /\ rev[d] = 1 /\ items[d] = SharedItems /\ base[d] = SharedItems
        /\ meta[d].rev = 1 /\ conflicts[d] = NoConflicts
    BY DEF Init, IdleRun
  <1>2. Outbound(d) = base[d]
    BY <1>1, OriginalType DEF Outbound, OutboundView, NoConflicts, ItemMaps
  <1> QED
    BY <1>1, <1>2 DEF CleanSound, Undecided, Saved, Expected, GoesBy

LEMMA CleanStep ==
    ASSUME ~Overlap, MaxFaults = 0
    PROVE  CleanInv /\ [Next]_vars => CleanInv'
  <1>1. ASSUME CleanInv, [Next]_vars
        PROVE  BaseInv'
    BY <1>1, BaseStep DEF CleanInv
  <1>2. ASSUME CleanInv, UNCHANGED vars
        PROVE  CleanInv'
    BY <1>1, <1>2 DEF vars, CleanInv, CleanSound, Saved, Outbound
  <1> QED
    BY <1>1, <1>2, PushClean, DecideClean, MergeClean, EditedClean, AskedClean
       DEF Next, Step, User

(* A device that reckons it has nothing to do has its whole vault in the   *)
(* sync area, for any number of devices and whatever users edit, purge,    *)
(* replace or change their password meanwhile - as long as runs of two     *)
(* devices do not overlap and none stops half way.  Where one does stop    *)
(* after its merge, two replacements of the remote can bring the very      *)
(* header back that the device last agreed on.                             *)
THEOREM CleanAlwaysMeansPushed ==
    ASSUME ~Overlap, MaxFaults = 0
    PROVE  Spec => []CleanMeansPushed
  BY CleanInit, CleanStep, CleanInvImplies, PTL DEF Spec

-----------------------------------------------------------------------------
(* No text is lost, as long as runs finish and no vault is replaced *)

(* The other sides that a device shows, or is about to show.               *)
Shows(d) == IF run[d].pc \in {"idle", "peek"} THEN conflicts[d] ELSE run[d].pending

(* The texts that a device has in a field, or that were given up.          *)
Has(d, i, f) ==
    TextIn(items[d][i], f) \cup TextIn(Shows(d)[i], f) \cup settled

Remote(i, f) == TextIn(ItemsIn(remoteHeader.tags)[i], f)

(* What the base is, or will be once the run in flight is over.            *)
Basis(d) == IF run[d].pc \in Undecided THEN base[d] ELSE run[d].sent

(* The texts that no merge of this device takes off it, and those that it  *)
(* is about to bring to the sync area.                                     *)
Safe(d, i, f) ==
    IF run[d].pc \in Undecided
      THEN TextIn(items[d][i], f) \ TextIn(base[d][i], f)
      ELSE TextIn(items[d][i], f) \cup TextIn(run[d].sent[i], f)

(* The vault is never away, and nobody has forgotten having synced it.     *)
Standing ==
    remoteHeader # Null /\ \A d \in Devices : base[d] # Null

(* Nobody else touches the sync area under a run.                          *)
AsExpected(r, remoteNow) ==
    /\ r.pc \in {"check", "set", "remove", "header", "base"} => remoteNow = r.stamp
    /\ r.pc = "verify" => remoteNow = r.header
    /\ r.pc \in {"verify", "base"} => remoteNow.tags = Table(r.sent)

(* The parts are those of the header there, or on the way to the next one. *)
PartsFor(r, parts, remoteNow) ==
    \A b \in Buckets :
        parts[b] = IF r.pc \notin {"remove", "header"} \/
                      (r.pc = "remove" /\ b \in ObsoleteParts(r.header, r.stamp))
                     THEN remoteNow.tags[b] ELSE r.header.tags[b]
Whole ==
    \A d \in Devices :
        (\A e \in Devices \ {d} : run[e].pc = "idle")
            => PartsFor(run[d], remoteParts, remoteHeader)

(* A device has what its base says; a run brings to the sync area what it  *)
(* found there, or this device has it; and what the conflicts on record    *)
(* are about to be is on record, or was resolved meanwhile.                *)
DeviceKeeps(d) ==
    \A i \in Ids, f \in Fields :
        /\ TextIn(Basis(d)[i], f) \subseteq Has(d, i, f)
        /\ run[d].pc \notin Undecided =>
             Remote(i, f) \subseteq TextIn(run[d].sent[i], f) \cup TextIn(items[d][i], f)
                                      \cup settled
        /\ run[d].pc \notin {"adopted", "merged"} =>
             TextIn(Shows(d)[i], f) \subseteq TextIn(conflicts[d][i], f) \cup TextIn(items[d][i], f)
                                                \cup settled

(* Somebody has each text of the sync area.                                *)
RemoteHeld ==
    \A i \in Ids, f \in Fields : \A t \in Remote(i, f) : \E d \in Devices : t \in Has(d, i, f)

(* A text is in the sync area, or safe on some device.                     *)
EachSafe ==
    \A t \in typed \ settled : \E i \in Ids, f \in Fields :
        t \in Remote(i, f) \/ \E d \in Devices : t \in Safe(d, i, f)

(* Texts are numbered in the order they are typed.                         *)
Numbered(d) ==
    \A i \in Ids, f \in Fields :
        TextIn(items[d][i], f) \cup TextIn(conflicts[d][i], f)
            \cup TextIn(run[d].pending[i], f) \subseteq 1 .. edits

KeepInv ==
    /\ BaseInv /\ Standing /\ Whole /\ RemoteHeld /\ EachSafe
    /\ settled \subseteq 1 .. edits
    /\ \A d \in Devices : AsExpected(run[d], remoteHeader) /\ DeviceKeeps(d) /\ Numbered(d)

LEMMA NotAHeader ==
    ASSUME NEW h \in Headers
    PROVE  h # Null
  BY SyncConstants

LEMMA ItemsOfTable ==
    ASSUME NEW its \in ItemMaps
    PROVE  ItemsIn(Table(its)) = its
  BY SyncConstants DEF ItemsIn, Table, Payload, ItemMaps

LEMMA TextInTexts ==
    ASSUME NEW v, NEW f \in Fields
    PROVE  TextIn(v, f) \subseteq TextsIn(v)
  BY DEF TextsIn

LEMMA KeepInvImplies == KeepInv => NoTextLost
  <1> SUFFICES ASSUME KeepInv, NEW t \in typed, t \notin settled
               PROVE  t \in Kept
    BY DEF NoTextLost
  <1>1. PICK i \in Ids, f \in Fields :
            t \in Remote(i, f) \/ \E d \in Devices : t \in Safe(d, i, f)
    BY DEF KeepInv, EachSafe
  <1>2. \E d \in Devices : t \in Has(d, i, f)
    <2>1. CASE t \in Remote(i, f)
      BY <2>1 DEF KeepInv, RemoteHeld
    <2>2. ASSUME NEW d \in Devices, t \in Safe(d, i, f)
          PROVE  t \in Has(d, i, f)
      <3>1. TextIn(Basis(d)[i], f) \subseteq Has(d, i, f)
        BY DEF KeepInv, DeviceKeeps
      <3> QED
        BY <2>2, <3>1 DEF Safe, Basis, Has
    <2> QED
      BY <1>1, <2>1, <2>2
  <1>3. PICK d \in Devices : t \in TextIn(items[d][i], f) \cup TextIn(Shows(d)[i], f)
    BY <1>2 DEF Has
  <1>4. t \in TextsIn(items[d][i]) \cup TextsIn(conflicts[d][i]) \cup TextsIn(run[d].pending[i])
    BY <1>3, TextInTexts DEF Shows
  <1> DEFINE Of(e, j) == TextsIn(items[e][j]) \cup TextsIn(conflicts[e][j])
                           \cup TextsIn(run[e].pending[j])
  <1>5. Kept = UNION {Of(e, j) : e \in Devices, j \in Ids}
    BY DEF Kept
  <1>6. t \in Of(d, i)
    BY <1>4
  <1> HIDE DEF Of
  <1> QED
    BY <1>5, <1>6

(* One device acts, while the runs of the others are idle.  What the sync  *)
(* area has, and what this device has of that, it still has.               *)
LEMMA OneKeeps ==
    ASSUME KeepInv, BaseInv', NEW d \in Devices,
           \A e \in Devices \ {d} :
              /\ run'[e] = run[e] /\ base'[e] = base[e]
              /\ items'[e] = items[e] /\ conflicts'[e] = conflicts[e],
           remoteHeader' = remoteHeader \/ \A e \in Devices \ {d} : run[e].pc = "idle",
           remoteHeader' # Null, base'[d] # Null,
           Whole', AsExpected(run'[d], remoteHeader'), DeviceKeeps(d)', Numbered(d)',
           settled \subseteq settled', settled' \subseteq 1 .. edits', edits' \in Nat, edits <= edits',
           \A i \in Ids, f \in Fields :
              /\ Remote(i, f)' \subseteq Remote(i, f) \cup Has(d, i, f)'
              /\ Remote(i, f) \cap Has(d, i, f) \subseteq Has(d, i, f)'
              /\ Remote(i, f) \cup Safe(d, i, f) \subseteq Remote(i, f)' \cup Safe(d, i, f)' \cup settled',
           \A t \in typed' \ settled' :
              t \in typed \/ \E i \in Ids, f \in Fields : t \in Safe(d, i, f)'
    PROVE  KeepInv'
  <1>1. ASSUME NEW e \in Devices \ {d}, NEW i \in Ids, NEW f \in Fields
        PROVE  /\ Has(e, i, f) \subseteq Has(e, i, f)'
               /\ Safe(e, i, f)' = Safe(e, i, f)
    <2>1. /\ run'[e] = run[e] /\ base'[e] = base[e] /\ items'[e] = items[e]
          /\ conflicts'[e] = conflicts[e]
      OBVIOUS
    <2>2. Shows(e)' = Shows(e)
      BY <2>1 DEF Shows
    <2>3. TextIn(items[e][i], f)' = TextIn(items[e][i], f) /\ TextIn(Shows(e)[i], f)' = TextIn(Shows(e)[i], f)
          /\ TextIn(base[e][i], f)' = TextIn(base[e][i], f) /\ TextIn(run[e].sent[i], f)' = TextIn(run[e].sent[i], f)
      BY <2>1, <2>2 DEF TextIn
    <2>4. Has(e, i, f) \subseteq Has(e, i, f)'
      BY <2>3 DEF Has
    <2>5. Safe(e, i, f)' = Safe(e, i, f)
      BY <2>1, <2>3 DEF Safe
    <2> QED
      BY <2>4, <2>5
  <1>2. RemoteHeld'
    <2> SUFFICES ASSUME NEW i \in Ids, NEW f \in Fields, NEW t \in Remote(i, f)'
                 PROVE  \E e \in Devices : t \in Has(e, i, f)'
      BY DEF RemoteHeld
    <2>1. CASE t \in Has(d, i, f)'
      BY <2>1
    <2>2. CASE t \notin Has(d, i, f)'
      <3>1. t \in Remote(i, f)
        BY <2>2
      <3>2. PICK e \in Devices : t \in Has(e, i, f)
        BY <3>1 DEF KeepInv, RemoteHeld
      <3>3. e # d
        BY <2>2, <3>1, <3>2
      <3> QED
        BY <1>1, <3>2, <3>3
    <2> QED
      BY <2>1, <2>2
  <1>3. EachSafe'
    <2> SUFFICES ASSUME NEW t \in typed', t \notin settled'
                 PROVE  \E i \in Ids, f \in Fields :
                           t \in Remote(i, f)' \/ \E e \in Devices : t \in Safe(e, i, f)'
      BY DEF EachSafe
    <2>1. CASE \E i \in Ids, f \in Fields : t \in Safe(d, i, f)'
      BY <2>1
    <2>2. CASE t \in typed
      <3>1. t \notin settled
        OBVIOUS
      <3>2. PICK i \in Ids, f \in Fields :
                t \in Remote(i, f) \/ \E e \in Devices : t \in Safe(e, i, f)
        BY <2>2, <3>1 DEF KeepInv, EachSafe
      <3>3. CASE t \in Remote(i, f) \cup Safe(d, i, f)
        <4>1. t \in Remote(i, f)' \cup Safe(d, i, f)'
          BY <3>3
        <4> QED
          BY <4>1
      <3>4. ASSUME NEW e \in Devices \ {d}, t \in Safe(e, i, f)
            PROVE  t \in Safe(e, i, f)'
        BY <1>1, <3>4
      <3> QED
        BY <3>2, <3>3, <3>4
    <2> QED
      BY <2>1, <2>2
  <1>4. ASSUME NEW e \in Devices \ {d}
        PROVE  AsExpected(run'[e], remoteHeader') /\ DeviceKeeps(e)' /\ Numbered(e)'
    <2>1. AsExpected(run[e], remoteHeader) /\ DeviceKeeps(e) /\ Numbered(e)
      BY DEF KeepInv
    <2>2. AsExpected(run'[e], remoteHeader')
      BY <2>1 DEF AsExpected
    <2>3. Numbered(e)'
      <3>1. edits \in Nat /\ \A n \in 1 .. edits : n \in 1 .. edits'
        BY DEF KeepInv, BaseInv, TypeInv, CountersOK
      <3> QED
        BY <2>1, <3>1 DEF Numbered
    <2>4. DeviceKeeps(e)'
      <3> SUFFICES ASSUME NEW i \in Ids, NEW f \in Fields
                   PROVE  /\ TextIn(Basis(e)[i], f)' \subseteq Has(e, i, f)'
                          /\ run'[e].pc \notin Undecided =>
                               Remote(i, f)' \subseteq TextIn(run'[e].sent[i], f)
                                  \cup TextIn(items'[e][i], f) \cup settled'
                          /\ run'[e].pc \notin {"adopted", "merged"} =>
                               TextIn(Shows(e)[i], f)' \subseteq TextIn(conflicts'[e][i], f)
                                  \cup TextIn(items'[e][i], f) \cup settled'
        BY DEF DeviceKeeps
      <3>1. TextIn(Basis(e)[i], f)' = TextIn(Basis(e)[i], f) /\ TextIn(Shows(e)[i], f)' = TextIn(Shows(e)[i], f)
        BY DEF Basis, Shows
      <3>2. run'[e].pc \notin Undecided => Remote(i, f)' = Remote(i, f)
        BY DEF Remote, Undecided
      <3>3. /\ TextIn(Basis(e)[i], f) \subseteq Has(e, i, f)
            /\ run[e].pc \notin Undecided =>
                 Remote(i, f) \subseteq TextIn(run[e].sent[i], f) \cup TextIn(items[e][i], f)
                                          \cup settled
            /\ run[e].pc \notin {"adopted", "merged"} =>
                 TextIn(Shows(e)[i], f) \subseteq TextIn(conflicts[e][i], f) \cup TextIn(items[e][i], f)
                                                    \cup settled
        BY <2>1 DEF DeviceKeeps
      <3>4. run'[e] = run[e] /\ items'[e] = items[e] /\ conflicts'[e] = conflicts[e]
        OBVIOUS
      <3>5. Has(e, i, f) \subseteq Has(e, i, f)'
        BY <1>1
      <3>6. TextIn(items'[e][i], f) = TextIn(items[e][i], f) /\ TextIn(conflicts'[e][i], f) = TextIn(conflicts[e][i], f)
        BY <3>4
      <3> QED
        BY <3>1, <3>2, <3>3, <3>4, <3>5, <3>6
    <2> QED
      BY <2>2, <2>3, <2>4
  <1>5. Standing'
    BY DEF KeepInv, Standing
  <1> QED
    BY <1>2, <1>3, <1>4, <1>5 DEF KeepInv

LEMMA KeepTypes ==
    ASSUME KeepInv, NEW d \in Devices
    PROVE  /\ run \in [Devices -> Runs] /\ run[d] \in Runs /\ HeaderInHand(run[d])
           /\ items \in [Devices -> ItemMaps] /\ items[d] \in ItemMaps
           /\ base \in [Devices -> ItemMaps \cup {Null}] /\ base[d] \in ItemMaps
           /\ conflicts \in [Devices -> Conflicts] /\ conflicts[d] \in Conflicts
           /\ remoteHeader \in Headers /\ edits \in Nat /\ settled \subseteq 1 .. edits
  BY DEF KeepInv, Standing, BaseInv, TypeInv, LocalOK, SyncOK, EngineOK, RemoteOK, CountersOK

(* A run goes on, and nobody's vault changes.                              *)
LEMMA GoesOnKeeps ==
    ASSUME KeepInv, BaseInv', ~Overlap, NEW d \in Devices, NEW next, Proceed(d, next),
           run[d].pc \notin {"idle", "peek"}, next.pc \notin {"idle", "peek"},
           next.pc \in Undecided <=> run[d].pc \in Undecided,
           next.pending = run[d].pending, next.sent = run[d].sent,
           UNCHANGED <<items, base, history, edits>>,
           \/ UNCHANGED conflicts /\ run[d].pc \notin {"adopted", "merged"}
           \/ conflicts' = [conflicts EXCEPT ![d] = run[d].pending],
           \/ remoteHeader' = remoteHeader
           \/ remoteHeader'.tags = Table(run[d].sent) /\ remoteHeader' # Null /\ run[d].pc \notin Undecided,
           AsExpected(next, remoteHeader'), PartsFor(next, remoteParts', remoteHeader')
    PROVE  KeepInv'
  <1>1. /\ run'[d] = next /\ \A e \in Devices \ {d} : run'[e] = run[e] /\ conflicts'[e] = conflicts[e]
        /\ conflicts'[d] = run[d].pending \/ (conflicts'[d] = conflicts[d] /\ run[d].pc \notin {"adopted", "merged"})
    BY KeepTypes DEF Proceed
  <1>2. \A e \in Devices \ {d} : run[e].pc = "idle"
    BY OthersIdle DEF KeepInv
  <1>3. Whole'
    BY <1>1, <1>2 DEF Whole
  <1>4. /\ remoteHeader' # Null /\ base'[d] # Null
        /\ edits \in Nat /\ settled \subseteq 1 .. edits
    BY KeepTypes, SyncConstants DEF KeepInv, Standing
  <1>5. Shows(d) = run[d].pending /\ Shows(d)' = run[d].pending /\ Basis(d)' = Basis(d)
    BY <1>1 DEF Shows, Basis
  <1>6. items'[d] = items[d] /\ base'[d] = base[d] /\ settled' = settled /\ typed' = typed /\ edits' = edits
    BY DEF history
  <1>7. DeviceKeeps(d) /\ Numbered(d)
    BY DEF KeepInv
  <1>8. ASSUME NEW i \in Ids, NEW f \in Fields
        PROVE  /\ Has(d, i, f)' = Has(d, i, f) /\ Safe(d, i, f)' = Safe(d, i, f)
               /\ \/ Remote(i, f)' = Remote(i, f)
                  \/ Remote(i, f)' = TextIn(run[d].sent[i], f) /\ run[d].pc \notin Undecided
    <2>1. Has(d, i, f)' = Has(d, i, f)
      BY <1>5, <1>6 DEF Has
    <2>2. Safe(d, i, f)' = Safe(d, i, f)
      BY <1>1, <1>6 DEF Safe
    <2>3. CASE remoteHeader' = remoteHeader
      BY <2>1, <2>2, <2>3 DEF Remote
    <2>4. CASE remoteHeader'.tags = Table(run[d].sent) /\ run[d].pc \notin Undecided
      <3>1. run[d].sent \in ItemMaps
        BY KeepTypes DEF Runs
      <3> QED
        BY <2>1, <2>2, <2>4, <3>1, ItemsOfTable DEF Remote
    <2> QED
      BY <2>3, <2>4
  <1>9. DeviceKeeps(d)'
    <2> SUFFICES ASSUME NEW i \in Ids, NEW f \in Fields
                 PROVE  /\ TextIn(Basis(d)[i], f)' \subseteq Has(d, i, f)'
                        /\ run'[d].pc \notin Undecided =>
                             Remote(i, f)' \subseteq TextIn(run'[d].sent[i], f)
                                \cup TextIn(items'[d][i], f) \cup settled'
                        /\ run'[d].pc \notin {"adopted", "merged"} =>
                             TextIn(Shows(d)[i], f)' \subseteq TextIn(conflicts'[d][i], f)
                                \cup TextIn(items'[d][i], f) \cup settled'
      BY DEF DeviceKeeps
    <2>1. /\ TextIn(Basis(d)[i], f) \subseteq Has(d, i, f)
          /\ run[d].pc \notin Undecided =>
               Remote(i, f) \subseteq TextIn(run[d].sent[i], f) \cup TextIn(items[d][i], f)
                                        \cup settled
          /\ run[d].pc \notin {"adopted", "merged"} =>
               TextIn(run[d].pending[i], f) \subseteq TextIn(conflicts[d][i], f) \cup TextIn(items[d][i], f)
                                                       \cup settled
      BY <1>5, <1>7 DEF DeviceKeeps
    <2>2. TextIn(Basis(d)[i], f)' = TextIn(Basis(d)[i], f) /\ TextIn(Shows(d)[i], f)' = TextIn(run[d].pending[i], f)
      BY <1>5
    <2>3. /\ TextIn(items'[d][i], f) = TextIn(items[d][i], f) /\ run'[d].sent = run[d].sent
          /\ TextIn(conflicts'[d][i], f) = TextIn(run[d].pending[i], f)
             \/ (TextIn(conflicts'[d][i], f) = TextIn(conflicts[d][i], f) /\ run[d].pc \notin {"adopted", "merged"})
      BY <1>1, <1>6
    <2>4. run'[d].pc \notin Undecided <=> run[d].pc \notin Undecided
      BY <1>1
    <2> QED
      BY <1>6, <1>8, <2>1, <2>2, <2>3, <2>4
  <1>10. Numbered(d)'
    BY <1>1, <1>6, <1>7 DEF Numbered
  <1>11. \A i \in Ids, f \in Fields :
            /\ Remote(i, f)' \subseteq Remote(i, f) \cup Has(d, i, f)'
            /\ Remote(i, f) \cap Has(d, i, f) \subseteq Has(d, i, f)'
            /\ Remote(i, f) \cup Safe(d, i, f) \subseteq Remote(i, f)' \cup Safe(d, i, f)' \cup settled'
    <2> SUFFICES ASSUME NEW i \in Ids, NEW f \in Fields
                 PROVE  /\ Remote(i, f)' \subseteq Remote(i, f) \cup Has(d, i, f)'
                        /\ Remote(i, f) \cap Has(d, i, f) \subseteq Has(d, i, f)'
                        /\ Remote(i, f) \cup Safe(d, i, f)
                              \subseteq Remote(i, f)' \cup Safe(d, i, f)' \cup settled'
      OBVIOUS
    <2>1. run[d].pc \notin Undecided =>
            /\ TextIn(run[d].sent[i], f) \subseteq Has(d, i, f)
            /\ Remote(i, f) \subseteq Safe(d, i, f) \cup settled
      BY <1>7 DEF DeviceKeeps, Basis, Safe
    <2> QED
      BY <1>6, <1>8, <2>1
  <1>12. AsExpected(run'[d], remoteHeader')
    BY <1>1
  <1>13. settled \subseteq settled' /\ settled' \subseteq 1 .. edits' /\ edits' \in Nat /\ edits <= edits'
    BY <1>4, <1>6
  <1> QED
    BY <1>1, <1>2, <1>3, <1>4, <1>6, <1>9, <1>10, <1>11, <1>12, <1>13, OneKeeps

(* A run is over: with its base saved, or before it had decided.           *)
LEMMA EndsKeep ==
    ASSUME KeepInv, BaseInv', ~Overlap, NEW d \in Devices, NEW error, EndRun(d, error),
           run[d].pc # "idle", UNCHANGED <<items, conflicts, remote, history, edits>>,
           \/ /\ run[d].pc = "peek"
              /\ UNCHANGED base
           \/ /\ run[d].pc = "base"
              /\ base' = [base EXCEPT ![d] = run[d].sent]
    PROVE  KeepInv'
  <1>1. /\ run'[d].pc \in {"idle", "peek"} /\ run'[d].pending = NoConflicts
        /\ \A e \in Devices \ {d} : run'[e] = run[e]
    BY KeepTypes DEF EndRun, IdleRun
  <1>2. \A e \in Devices \ {d} : run[e].pc = "idle"  /\ base'[e] = base[e]
    BY OthersIdle, KeepTypes DEF KeepInv
  <1>3. PartsFor(run[d], remoteParts, remoteHeader)
    BY <1>2 DEF KeepInv, Whole
  <1>4. \A b \in Buckets : remoteParts[b] = remoteHeader.tags[b]
    BY <1>3 DEF PartsFor
  <1>5. Whole'
    BY <1>1, <1>2, <1>4 DEF Whole, PartsFor, remote
  <1>6. /\ remoteHeader' # Null /\ base'[d] # Null /\ run[d].sent \in ItemMaps
        /\ edits \in Nat /\ settled \subseteq 1 .. edits
    BY KeepTypes, SyncConstants DEF KeepInv, Standing, remote, Runs
  <1>7. items'[d] = items[d] /\ conflicts'[d] = conflicts[d] /\ settled' = settled /\ typed' = typed
        /\ edits' = edits /\ remoteHeader' = remoteHeader
    BY DEF history, remote
  <1>8. DeviceKeeps(d) /\ Numbered(d) /\ AsExpected(run[d], remoteHeader)
    BY DEF KeepInv
  <1>9. Shows(d)' = conflicts[d] /\ run'[d].pc \in Undecided
    BY <1>1, <1>7 DEF Shows, Undecided
  <1>10. ASSUME NEW i \in Ids, NEW f \in Fields
         PROVE  /\ Remote(i, f)' = Remote(i, f)
                /\ Has(d, i, f) \subseteq Has(d, i, f)'
                /\ TextIn(base'[d][i], f) \subseteq Has(d, i, f)
                /\ Safe(d, i, f) \subseteq Remote(i, f) \cup Safe(d, i, f)'
                /\ TextIn(Shows(d)[i], f)' \subseteq TextIn(conflicts'[d][i], f)
    <2>1. /\ TextIn(Basis(d)[i], f) \subseteq Has(d, i, f)
          /\ TextIn(Shows(d)[i], f) \subseteq TextIn(conflicts[d][i], f) \cup TextIn(items[d][i], f)
                                               \cup settled
      BY <1>8 DEF DeviceKeeps
    <2>2. Remote(i, f)' = Remote(i, f)
      BY <1>7 DEF Remote
    <2>3. Has(d, i, f)' = TextIn(items[d][i], f) \cup TextIn(conflicts[d][i], f) \cup settled
      BY <1>7, <1>9 DEF Has
    <2>4. Has(d, i, f) \subseteq Has(d, i, f)'
      BY <2>1, <2>3 DEF Has
    <2>5. base'[d] = Basis(d)
      BY <1>7, KeepTypes DEF Basis, Undecided
    <2>6. Safe(d, i, f)' = TextIn(items[d][i], f) \ TextIn(base'[d][i], f)
      BY <1>7, <1>9 DEF Safe
    <2>7. Safe(d, i, f) \subseteq Remote(i, f) \cup Safe(d, i, f)'
      <3>1. CASE run[d].pc = "peek"
        BY <2>5, <2>6, <3>1 DEF Safe, Basis, Undecided
      <3>2. CASE run[d].pc = "base"
        <4>1. ItemsIn(remoteHeader.tags) = run[d].sent
          BY <1>6, <1>8, <3>2, ItemsOfTable DEF AsExpected
        <4>2. Remote(i, f) = TextIn(run[d].sent[i], f)
          BY <4>1 DEF Remote
        <4> QED
          BY <2>5, <2>6, <3>2, <4>2 DEF Safe, Basis, Undecided
      <3> QED
        BY <3>1, <3>2
    <2>8. TextIn(Shows(d)[i], f)' = TextIn(conflicts'[d][i], f)
      BY <1>7, <1>9
    <2> QED
      BY <2>1, <2>2, <2>4, <2>5, <2>7, <2>8
  <1>11. DeviceKeeps(d)'
    <2>1. Basis(d)' = base'[d]
      BY <1>9 DEF Basis
    <2>2. \A i \in Ids, f \in Fields : TextIn(Basis(d)[i], f)' \subseteq Has(d, i, f)'
      BY <1>10, <2>1
    <2>3. \A i \in Ids, f \in Fields :
             TextIn(Shows(d)[i], f)' \subseteq TextIn(conflicts'[d][i], f)
                \cup TextIn(items'[d][i], f) \cup settled'
      BY <1>10
    <2> QED
      BY <1>9, <2>2, <2>3 DEF DeviceKeeps
  <1>12. Numbered(d)'
    <2>1. \A i \in Ids, f \in Fields : TextIn(run'[d].pending[i], f) = {}
      BY <1>1 DEF NoConflicts, TextIn
    <2> QED
      BY <1>7, <1>8, <2>1 DEF Numbered
  <1>13. AsExpected(run'[d], remoteHeader')
    BY <1>1 DEF AsExpected
  <1>14. settled \subseteq settled' /\ settled' \subseteq 1 .. edits' /\ edits' \in Nat /\ edits <= edits'
    BY <1>6, <1>7
  <1>15. \A i \in Ids, f \in Fields :
            /\ Remote(i, f)' \subseteq Remote(i, f) \cup Has(d, i, f)'
            /\ Remote(i, f) \cap Has(d, i, f) \subseteq Has(d, i, f)'
            /\ Remote(i, f) \cup Safe(d, i, f) \subseteq Remote(i, f)' \cup Safe(d, i, f)' \cup settled'
    BY <1>10
  <1> QED
    BY <1>1, <1>2, <1>5, <1>6, <1>7, <1>11, <1>12, <1>13, <1>14, <1>15, OneKeeps

LEMMA PushKeeps ==
    ASSUME KeepInv, BaseInv', ~Overlap, NEW d \in Devices,
           \/ PushCheck(d) \/ PushParts(d) \/ RemoveParts(d) \/ PushHeader(d)
           \/ PushVerify(d) \/ SaveBase(d)
    PROVE  KeepInv'
  <1>1. /\ run[d] \in Runs /\ run[d].pc \notin Undecided /\ run[d].header \in Headers
        /\ AsExpected(run[d], remoteHeader) /\ RunAgrees(run[d], remoteHeader)
        /\ run[d].pc \notin {"idle", "peek", "adopted", "merged"} /\ remoteHeader # Null
    BY KeepTypes DEF PushCheck, PushParts, RemoveParts, PushHeader, PushVerify, SaveBase, Undecided,
                     KeepInv, BaseInv, HeaderInHand, Standing
  <1>2. \A e \in Devices \ {d} : run[e].pc = "idle"
    BY <1>1, OthersIdle DEF KeepInv
  <1>3. PartsFor(run[d], remoteParts, remoteHeader)
    BY <1>2 DEF KeepInv, Whole
  <1>4. ASSUME NEW pc \in {"set", "remove", "header", "verify"},
               Proceed(d, [run[d] EXCEPT !.pc = pc]), UNCHANGED <<local, sync, history, counters>>,
               \/ remoteHeader' = remoteHeader /\ pc # "verify" /\ run[d].pc \in {"check", "set", "remove"}
               \/ remoteHeader' = run[d].header /\ pc = "verify" /\ run[d].pc = "header",
               PartsFor([run[d] EXCEPT !.pc = pc], remoteParts', remoteHeader')
        PROVE  KeepInv'
    <2> DEFINE next == [run[d] EXCEPT !.pc = pc]
    <2>1. /\ next.pc = pc /\ next.pending = run[d].pending /\ next.header = run[d].header
          /\ next.sent = run[d].sent /\ next.stamp = run[d].stamp
      BY <1>1 DEF Runs
    <2>2. Proceed(d, next) /\ PartsFor(next, remoteParts', remoteHeader')
      BY <1>4
    <2> HIDE DEF next
    <2>3. UNCHANGED <<items, base, conflicts, history, edits>>
      BY <1>4 DEF local, sync, counters
    <2>4. AsExpected(next, remoteHeader')
      BY <1>1, <1>4, <2>1 DEF AsExpected, RunAgrees
    <2>5. remoteHeader' = remoteHeader \/ (remoteHeader'.tags = Table(run[d].sent) /\ remoteHeader' # Null)
      BY <1>1, <1>4, NotAHeader DEF RunAgrees
    <2>6. next.pc \notin {"idle", "peek"} /\ next.pc \notin Undecided
      BY <2>1 DEF Undecided
    <2> QED
      BY <1>1, <2>1, <2>2, <2>3, <2>4, <2>5, <2>6, GoesOnKeeps
  <1>5. CASE PushCheck(d)
    <2>1. run[d].pc = "check" /\ remoteHeader = run[d].stamp
          /\ UNCHANGED <<local, sync, history, counters, remoteHeader, remoteParts>>
      BY <1>1, <1>5 DEF PushCheck, AsExpected, remote
    <2>2. \A b \in Buckets : remoteParts[b] = remoteHeader.tags[b]
      BY <1>3, <2>1 DEF PartsFor
    <2> DEFINE pc == IF ChangedParts(run[d].header, remoteHeader) # {} THEN "set"
                     ELSE IF ObsoleteParts(run[d].header, remoteHeader) # {}
                       THEN "remove" ELSE "header"
               next == [run[d] EXCEPT !.pc = pc]
    <2>3. Proceed(d, [run[d] EXCEPT !.pc = pc])
      BY <1>5, <2>1 DEF PushCheck
    <2>4. /\ next.pc = pc /\ next.header = run[d].header /\ next.stamp = remoteHeader
      BY <1>1, <2>1 DEF Runs
    <2>5. pc # "set" => \A b \in Buckets :
             b \in ObsoleteParts(run[d].header, remoteHeader)
             \/ run[d].header.tags[b] = remoteHeader.tags[b]
      BY <1>1 DEF ChangedParts, ObsoleteParts
    <2>6. pc = "header" => ObsoleteParts(run[d].header, remoteHeader) = {}
      OBVIOUS
    <2>7. pc \in {"set", "remove", "header"}
      OBVIOUS
    <2> HIDE DEF pc
    <2>8. PartsFor(next, remoteParts', remoteHeader')
      BY <2>1, <2>2, <2>4, <2>5, <2>6, <2>7 DEF PartsFor
    <2> QED
      BY <1>4, <2>1, <2>3, <2>7, <2>8
  <1>6. CASE PushParts(d)
    <2>1. /\ run[d].pc = "set" /\ remoteHeader = run[d].stamp
          /\ UNCHANGED <<local, sync, history, counters, remoteHeader>>
          /\ remoteParts' = [b \in Buckets |->
                IF b \in ChangedParts(run[d].header, remoteHeader)
                  THEN run[d].header.tags[b] ELSE remoteParts[b]]
      BY <1>1, <1>6 DEF PushParts, AsExpected
    <2>2. \A b \in Buckets : remoteParts[b] = remoteHeader.tags[b]
      BY <1>3, <2>1 DEF PartsFor
    <2> DEFINE pc == IF ObsoleteParts(run[d].header, run[d].stamp) # {} THEN "remove" ELSE "header"
               next == [run[d] EXCEPT !.pc = pc]
    <2>3. Proceed(d, [run[d] EXCEPT !.pc = pc])
      BY <1>6 DEF PushParts
    <2>4. /\ next.pc = pc /\ next.header = run[d].header /\ next.stamp = remoteHeader
      BY <1>1, <2>1 DEF Runs
    <2>5. \A b \in Buckets :
             IF b \in ObsoleteParts(run[d].header, remoteHeader)
               THEN remoteParts'[b] = remoteHeader.tags[b]
               ELSE remoteParts'[b] = run[d].header.tags[b]
      BY <1>1, <2>1, <2>2 DEF ChangedParts, ObsoleteParts
    <2>6. /\ pc = "header" => ObsoleteParts(run[d].header, remoteHeader) = {}
          /\ pc \in {"remove", "header"}
      BY <2>1
    <2> HIDE DEF pc
    <2>7. PartsFor(next, remoteParts', remoteHeader')
      BY <2>1, <2>4, <2>5, <2>6 DEF PartsFor
    <2> QED
      BY <1>4, <2>1, <2>3, <2>6, <2>7
  <1>7. CASE RemoveParts(d)
    <2>1. /\ run[d].pc = "remove" /\ remoteHeader = run[d].stamp
          /\ UNCHANGED <<local, sync, history, counters, remoteHeader>>
          /\ Proceed(d, [run[d] EXCEPT !.pc = "header"])
          /\ remoteParts' = [b \in Buckets |->
                IF b \in ObsoleteParts(run[d].header, run[d].stamp) THEN NoItems ELSE remoteParts[b]]
      BY <1>1, <1>7 DEF RemoveParts, AsExpected
    <2> DEFINE next == [run[d] EXCEPT !.pc = "header"]
    <2>2. /\ next.pc = "header" /\ next.header = run[d].header
      BY <1>1 DEF Runs
    <2>3. \A b \in Buckets : remoteParts'[b] = run[d].header.tags[b]
      BY <1>1, <1>3, <2>1 DEF PartsFor, ObsoleteParts
    <2>4. PartsFor(next, remoteParts', remoteHeader')
      BY <2>2, <2>3 DEF PartsFor
    <2> QED
      BY <1>4, <2>1, <2>4
  <1>8. CASE PushHeader(d)
    <2>1. /\ run[d].pc = "header" /\ remoteHeader' = run[d].header
          /\ UNCHANGED <<local, sync, history, counters, remoteParts>>
          /\ Proceed(d, [run[d] EXCEPT !.pc = "verify"])
      BY <1>8 DEF PushHeader
    <2> DEFINE next == [run[d] EXCEPT !.pc = "verify"]
    <2>2. next.pc = "verify"
      BY <1>1 DEF Runs
    <2>3. PartsFor(next, remoteParts', remoteHeader')
      BY <1>3, <2>1, <2>2 DEF PartsFor
    <2> QED
      BY <1>4, <2>1, <2>3
  <1>9. CASE PushVerify(d)
    <2>1. /\ run[d].pc = "verify" /\ remoteHeader = run[d].header
          /\ UNCHANGED <<local, sync, history, counters, remoteHeader, remoteParts>>
      BY <1>1, <1>9 DEF PushVerify, AsExpected, remote
    <2> DEFINE next == [run[d] EXCEPT !.pc = "base", !.stamp = remoteHeader]
    <2>2. Proceed(d, next)
      BY <1>9, <2>1 DEF PushVerify
    <2>3. /\ next.pc = "base" /\ next.pending = run[d].pending /\ next.sent = run[d].sent
          /\ next.stamp = remoteHeader
      BY <1>1 DEF Runs
    <2> HIDE DEF next
    <2>4. AsExpected(next, remoteHeader')
      BY <1>1, <2>1, <2>3 DEF AsExpected
    <2>5. PartsFor(next, remoteParts', remoteHeader')
      BY <1>3, <2>1, <2>3 DEF PartsFor
    <2>6. UNCHANGED <<items, base, conflicts, history, edits>>
      BY <2>1 DEF local, sync, counters
    <2> QED
      BY <1>1, <2>1, <2>2, <2>3, <2>4, <2>5, <2>6, GoesOnKeeps DEF Undecided
  <1>10. CASE SaveBase(d)
    <2>1. /\ run[d].pc = "base" /\ EndRun(d, "none")
          /\ base' = [base EXCEPT ![d] = run[d].sent]
          /\ UNCHANGED <<items, conflicts, remote, history, edits>>
      BY <1>10 DEF SaveBase, local, counters
    <2> QED
      BY <2>1, EndsKeep
  <1> QED
    BY <1>5, <1>6, <1>7, <1>8, <1>9, <1>10

(* A run decides to push, with what the device has.                        *)
LEMMA DecidesKeeps ==
    ASSUME KeepInv, BaseInv', ~Overlap, NEW d \in Devices, NEW next, Proceed(d, next),
           run[d].pc = "peek", next.pc = "check", next.stamp = remoteHeader,
           next.pending = conflicts[d], next.sent = OutboundView(items[d], conflicts[d]),
           ItemsIn(remoteHeader.tags) = base[d],
           UNCHANGED <<items, base, conflicts, remote, history, edits>>
    PROVE  KeepInv'
  <1>1. run'[d] = next /\ \A e \in Devices \ {d} : run'[e] = run[e]
    BY KeepTypes DEF Proceed
  <1>2. \A e \in Devices \ {d} : run[e].pc = "idle"
    BY OthersIdle DEF KeepInv
  <1>3. PartsFor(run[d], remoteParts, remoteHeader)
    BY <1>2 DEF KeepInv, Whole
  <1>4. Whole'
    BY <1>1, <1>2, <1>3 DEF Whole, PartsFor, remote
  <1>5. /\ remoteHeader' # Null /\ base'[d] # Null /\ edits \in Nat /\ settled \subseteq 1 .. edits
        /\ items[d] \in ItemMaps /\ conflicts[d] \in Conflicts
    BY KeepTypes, SyncConstants DEF KeepInv, Standing, remote
  <1>6. items'[d] = items[d] /\ conflicts'[d] = conflicts[d] /\ settled' = settled /\ typed' = typed
        /\ edits' = edits /\ remoteHeader' = remoteHeader
    BY DEF history, remote
  <1>7. DeviceKeeps(d) /\ Numbered(d)
    BY DEF KeepInv
  <1>8. Shows(d) = conflicts[d] /\ Shows(d)' = conflicts[d] /\ Basis(d) = base[d] /\ Basis(d)' = next.sent
    BY <1>1 DEF Shows, Basis, Undecided
  <1>9. ASSUME NEW i \in Ids, NEW f \in Fields
        PROVE  /\ Remote(i, f)' = Remote(i, f) /\ Remote(i, f) = TextIn(base[d][i], f)
               /\ Has(d, i, f)' = Has(d, i, f) /\ Remote(i, f) \subseteq Has(d, i, f)
               /\ TextIn(conflicts[d][i], f) \subseteq TextIn(next.sent[i], f)
               /\ TextIn(next.sent[i], f) \subseteq TextIn(conflicts[d][i], f) \cup TextIn(items[d][i], f)
               /\ Safe(d, i, f) \subseteq Safe(d, i, f)'
    <2>1. Remote(i, f)' = Remote(i, f) /\ Remote(i, f) = TextIn(base[d][i], f)
      BY <1>6 DEF Remote
    <2>2. Has(d, i, f)' = Has(d, i, f)
      BY <1>6, <1>8 DEF Has
    <2>3. Remote(i, f) \subseteq Has(d, i, f)
      BY <1>7, <1>8, <2>1 DEF DeviceKeeps
    <2>4. next.sent[i] = IF conflicts[d][i] # Null THEN conflicts[d][i] ELSE items[d][i]
      BY DEF OutboundView
    <2>5. TextIn(Null, f) = {}
      BY DEF TextIn
    <2>6. Safe(d, i, f) \subseteq Safe(d, i, f)'
      BY <1>1, <1>6 DEF Safe, Undecided
    <2> QED
      BY <2>1, <2>2, <2>3, <2>4, <2>5, <2>6
  <1>10. DeviceKeeps(d)'
    <2> SUFFICES ASSUME NEW i \in Ids, NEW f \in Fields
                 PROVE  /\ TextIn(next.sent[i], f) \subseteq Has(d, i, f)'
                        /\ Remote(i, f)' \subseteq TextIn(next.sent[i], f) \cup TextIn(items'[d][i], f)
                                                     \cup settled'
                        /\ TextIn(Shows(d)[i], f)' \subseteq TextIn(conflicts'[d][i], f)
                              \cup TextIn(items'[d][i], f) \cup settled'
      BY <1>1, <1>8 DEF DeviceKeeps
    <2>1. Has(d, i, f) = TextIn(items[d][i], f) \cup TextIn(conflicts[d][i], f) \cup settled
      BY <1>8 DEF Has
    <2>2. TextIn(Shows(d)[i], f)' = TextIn(conflicts'[d][i], f)
      BY <1>6, <1>8
    <2> QED
      BY <1>6, <1>9, <2>1, <2>2
  <1>11. Numbered(d)'
    BY <1>1, <1>6, <1>7 DEF Numbered
  <1>12. AsExpected(run'[d], remoteHeader')
    BY <1>1, <1>6 DEF AsExpected
  <1>13. settled \subseteq settled' /\ settled' \subseteq 1 .. edits' /\ edits' \in Nat /\ edits <= edits'
    BY <1>5, <1>6
  <1>14. \A i \in Ids, f \in Fields :
            /\ Remote(i, f)' \subseteq Remote(i, f) \cup Has(d, i, f)'
            /\ Remote(i, f) \cap Has(d, i, f) \subseteq Has(d, i, f)'
            /\ Remote(i, f) \cup Safe(d, i, f) \subseteq Remote(i, f)' \cup Safe(d, i, f)' \cup settled'
    BY <1>9
  <1> QED
    BY <1>1, <1>2, <1>4, <1>5, <1>6, <1>10, <1>11, <1>12, <1>13, <1>14, OneKeeps

(* A run goes to look at what there is.                                    *)
LEMMA LooksKeeps ==
    ASSUME KeepInv, BaseInv', ~Overlap, NEW d \in Devices, NEW next, Proceed(d, next),
           run[d].pc = "peek", next.pc = "pull", next.pending = conflicts[d],
           UNCHANGED <<items, base, conflicts, remote, history, edits>>
    PROVE  KeepInv'
  <1>1. run'[d] = next /\ \A e \in Devices \ {d} : run'[e] = run[e]
    BY KeepTypes DEF Proceed
  <1>2. \A e \in Devices \ {d} : run[e].pc = "idle"
    BY OthersIdle DEF KeepInv
  <1>3. PartsFor(run[d], remoteParts, remoteHeader)
    BY <1>2 DEF KeepInv, Whole
  <1>4. Whole'
    BY <1>1, <1>2, <1>3 DEF Whole, PartsFor, remote
  <1>5. /\ remoteHeader' # Null /\ base'[d] # Null /\ edits \in Nat /\ settled \subseteq 1 .. edits
    BY KeepTypes, SyncConstants DEF KeepInv, Standing, remote
  <1>6. items'[d] = items[d] /\ conflicts'[d] = conflicts[d] /\ settled' = settled /\ typed' = typed
        /\ edits' = edits /\ remoteHeader' = remoteHeader /\ base'[d] = base[d]
    BY DEF history, remote
  <1>7. DeviceKeeps(d) /\ Numbered(d)
    BY DEF KeepInv
  <1>8. Shows(d) = conflicts[d] /\ Shows(d)' = conflicts[d] /\ Basis(d) = base[d] /\ Basis(d)' = base[d]
    BY <1>1, <1>6 DEF Shows, Basis, Undecided
  <1>9. \A i \in Ids, f \in Fields :
            /\ Remote(i, f)' = Remote(i, f) /\ Has(d, i, f)' = Has(d, i, f)
            /\ Safe(d, i, f)' = Safe(d, i, f)
    <2>1. \A i \in Ids, f \in Fields : Remote(i, f)' = Remote(i, f)
      BY <1>6 DEF Remote
    <2>2. \A i \in Ids, f \in Fields : Has(d, i, f)' = Has(d, i, f)
      BY <1>6, <1>8 DEF Has
    <2>3. \A i \in Ids, f \in Fields : Safe(d, i, f)' = Safe(d, i, f)
      BY <1>1, <1>6 DEF Safe, Undecided
    <2> QED
      BY <2>1, <2>2, <2>3
  <1>10. DeviceKeeps(d)'
    <2> SUFFICES ASSUME NEW i \in Ids, NEW f \in Fields
                 PROVE  /\ TextIn(base[d][i], f) \subseteq Has(d, i, f)'
                        /\ TextIn(Shows(d)[i], f)' \subseteq TextIn(conflicts'[d][i], f)
                              \cup TextIn(items'[d][i], f) \cup settled'
      BY <1>1, <1>8 DEF DeviceKeeps, Undecided
    <2>1. TextIn(Shows(d)[i], f)' = TextIn(conflicts'[d][i], f)
      BY <1>6, <1>8
    <2>2. TextIn(base[d][i], f) \subseteq Has(d, i, f)
      BY <1>7, <1>8 DEF DeviceKeeps
    <2> QED
      BY <1>9, <2>1, <2>2
  <1>11. Numbered(d)'
    BY <1>1, <1>6, <1>7 DEF Numbered
  <1>12. AsExpected(run'[d], remoteHeader')
    BY <1>1 DEF AsExpected
  <1>13. settled \subseteq settled' /\ settled' \subseteq 1 .. edits' /\ edits' \in Nat /\ edits <= edits'
    BY <1>5, <1>6
  <1>14. \A i \in Ids, f \in Fields :
            /\ Remote(i, f)' \subseteq Remote(i, f) \cup Has(d, i, f)'
            /\ Remote(i, f) \cap Has(d, i, f) \subseteq Has(d, i, f)'
            /\ Remote(i, f) \cup Safe(d, i, f) \subseteq Remote(i, f)' \cup Safe(d, i, f)' \cup settled'
    BY <1>9
  <1> QED
    BY <1>1, <1>2, <1>4, <1>5, <1>6, <1>10, <1>11, <1>12, <1>13, <1>14, OneKeeps

LEMMA PeekKeeps ==
    ASSUME KeepInv, BaseInv', ~Overlap, NEW d \in Devices, Peek(d)
    PROVE  KeepInv'
  <1>1. /\ run[d].pc = "peek" /\ run[d] \in Runs /\ remoteHeader # Null
        /\ UNCHANGED <<items, base, conflicts, remote, history, edits>>
    BY KeepTypes DEF Peek, local, sync, counters, KeepInv, Standing
  <1>2. CASE RemoteMoved(d)
    <2> DEFINE next == [run[d] EXCEPT !.pc = "pull", !.pending = conflicts[d]]
    <2>1. Proceed(d, next)
      BY <1>1, <1>2 DEF Peek
    <2>2. next.pc = "pull" /\ next.pending = conflicts[d]
      BY <1>1 DEF Runs
    <2> HIDE DEF next
    <2> QED
      BY <1>1, <2>1, <2>2, LooksKeeps
  <1>3. CASE ~RemoteMoved(d) /\ Proceed(d, [PublishLocal(d, conflicts[d], remoteHeader) EXCEPT !.fast = TRUE])
    <2> DEFINE next == [PublishLocal(d, conflicts[d], remoteHeader) EXCEPT !.fast = TRUE]
    <2>1. /\ next.pc = "check" /\ next.stamp = remoteHeader /\ next.pending = conflicts[d]
          /\ next.sent = OutboundView(items[d], conflicts[d])
      BY <1>1 DEF PublishLocal, Published, Runs
    <2>2. base[d] \in ItemMaps
      BY KeepTypes
    <2>3. remoteHeader.tags = Table(base[d])
      BY <1>1, <1>3 DEF RemoteMoved, KeepInv, BaseInv, MetaIsBase
    <2>4. ItemsIn(remoteHeader.tags) = base[d]
      BY <2>2, <2>3, ItemsOfTable
    <2>5. Proceed(d, next)
      BY <1>3
    <2> HIDE DEF next
    <2> QED
      BY <1>1, <2>1, <2>4, <2>5, DecidesKeeps
  <1>4. CASE EndRun(d, "none")
    BY <1>1, <1>4, EndsKeep
  <1> QED
    BY <1>1, <1>2, <1>3, <1>4 DEF Peek

LEMMA PullKeeps ==
    ASSUME KeepInv, BaseInv', ~Overlap, NEW d \in Devices,
           PullHeader(d) \/ PullTorn(d) \/ SaveConflicts(d) \/ PeekAgain(d)
    PROVE  KeepInv'
  <1>1. /\ run[d] \in Runs /\ remoteHeader # Null /\ remoteHeader \in Headers
        /\ HeaderInHand(run[d])
        /\ UNCHANGED <<items, base, remote, history, edits>>
        /\ run[d].pc \in {"pull", "parts", "adopted", "merged", "record", "repair"}
        /\ RunAgrees(run[d], remoteHeader)
    BY KeepTypes DEF PullHeader, PullTorn, SaveConflicts, PeekAgain, local, sync, counters, KeepInv,
                     Standing, BaseInv
  <1>2. \A e \in Devices \ {d} : run[e].pc = "idle"
    BY <1>1, OthersIdle DEF KeepInv
  <1>3. PartsFor(run[d], remoteParts, remoteHeader)
    BY <1>2 DEF KeepInv, Whole
  <1>4. \A b \in Buckets : remoteParts[b] = remoteHeader.tags[b]
    BY <1>1, <1>3 DEF PartsFor
  <1>5. ASSUME NEW next, next.pc \notin {"remove", "header"}
        PROVE  PartsFor(next, remoteParts', remoteHeader')
    BY <1>1, <1>4, <1>5 DEF PartsFor, remote
  <1>6. CASE PullHeader(d)
    <2> DEFINE next == [run[d] EXCEPT !.pc = "parts", !.header = remoteHeader]
    <2>1. Proceed(d, next) /\ UNCHANGED conflicts /\ run[d].pc = "pull"
      BY <1>1, <1>6 DEF PullHeader, sync
    <2>2. next.pc = "parts" /\ next.pending = run[d].pending /\ next.sent = run[d].sent
      BY <1>1 DEF Runs
    <2> HIDE DEF next
    <2>3. AsExpected(next, remoteHeader') /\ next.pc \in Undecided /\ run[d].pc \in Undecided
      BY <2>1, <2>2 DEF AsExpected, Undecided
    <2> QED
      BY <1>1, <1>5, <2>1, <2>2, <2>3, GoesOnKeeps DEF remote
  <1>7. CASE PullTorn(d)
    <2>1. run[d].pc = "parts"
      BY <1>7 DEF PullTorn
    <2>2. run[d].header = remoteHeader
      BY <1>1, <2>1 DEF RunAgrees
    <2>3. ~PartsMissing(d) /\ TagsMatch(d)
      BY <1>4, <2>2 DEF PartsMissing, TagsMatch
    <2> QED
      BY <1>7, <2>3 DEF PullTorn
  <1>8. CASE SaveConflicts(d)
    <2> DEFINE pc == IF run[d].pc = "adopted" THEN "record" ELSE "repair"
               next == [run[d] EXCEPT !.pc = pc]
    <2>1. /\ run[d].pc \in {"adopted", "merged"}
          /\ conflicts' = [conflicts EXCEPT ![d] = run[d].pending]
          /\ Proceed(d, next)
      BY <1>1, <1>8 DEF SaveConflicts, Runs
    <2>2. next.pc \in {"record", "repair"} /\ next.pending = run[d].pending /\ next.sent = run[d].sent
      BY <1>1 DEF Runs
    <2> HIDE DEF next
    <2>3. AsExpected(next, remoteHeader') /\ next.pc \notin Undecided /\ run[d].pc \notin Undecided
      BY <2>1, <2>2 DEF AsExpected, Undecided
    <2> QED
      BY <1>1, <1>5, <2>1, <2>2, <2>3, GoesOnKeeps DEF remote
  <1>9. CASE PeekAgain(d)
    <2> DEFINE pc == IF run[d].pc = "record" THEN "base" ELSE "check"
               h == [run[d].header EXCEPT !.password = password[d]]
               next == [run[d] EXCEPT !.pc = pc, !.stamp = remoteHeader, !.header = h]
    <2>1. run[d].pc \in {"record", "repair"} /\ run[d].header \in Headers
      BY <1>1, <1>9 DEF PeekAgain, HeaderInHand
    <2>2. Proceed(d, next) /\ UNCHANGED conflicts
      BY <1>1, <1>9, <2>1 DEF PeekAgain, Runs, Headers, sync
    <2> HIDE DEF h
    <2>3. /\ next.pc = pc /\ next.pending = run[d].pending /\ next.sent = run[d].sent
          /\ next.stamp = remoteHeader
      BY <1>1 DEF Runs
    <2> HIDE DEF next
    <2>4. AsExpected(next, remoteHeader') /\ next.pc \notin Undecided /\ run[d].pc \notin Undecided
      BY <1>1, <2>1, <2>3 DEF AsExpected, Undecided, RunAgrees, remote
    <2> QED
      BY <1>1, <1>5, <2>1, <2>2, <2>3, <2>4, GoesOnKeeps DEF remote
  <1> QED
    BY <1>6, <1>7, <1>8, <1>9

(* A merge takes every text of the other side, field by field, into the    *)
(* item or the conflict, unless the base had it already.                   *)
LEMMA MergeOneTakes ==
    ASSUME NEW b \in Values \cup {Absent}, NEW l \in Values \cup {Absent},
           NEW r \in Values \cup {Absent}, NEW f \in Fields, NEW t \in TextIn(r, f),
           t \notin TextIn(b, f)
    PROVE  t \in TextIn(MergeOne(b, l, r), f) \/ Conflicting(b, l, r)
  <1>1. r \in Values /\ r # Absent /\ r # Null /\ t \in r.text[f]
    BY NotAbsent DEF TextIn
  <1>2. b = Absent \/ r.text[f] # b.text[f]
    BY <1>1, NotAbsent DEF TextIn
  <1>3. CASE l = Absent
    <2>1. b = Absent \/ Edited(b, r)
      BY <1>2 DEF Edited
    <2>2. MergeOne(b, l, r) = r
      BY <1>1, <1>3, <2>1 DEF MergeOne, OneSided
    <2> QED
      BY <2>2
  <1>4. CASE l # Absent /\ EditVsDelete(b, l, r)
    BY <1>1, <1>4 DEF Conflicting
  <1>5. CASE l # Absent /\ ~EditVsDelete(b, l, r)
    <2>1. l \in Values /\ MergeOne(b, l, r) = Joined(b, l, r)
      BY <1>1, <1>5 DEF MergeOne
    <2>2. Joined(b, l, r) \in Values
      BY <1>1, <2>1, JoinedType
    <2>3. Joined(b, l, r).text[f] = IF b # Absent /\ l.text[f] = b.text[f] THEN r.text[f] ELSE l.text[f]
      BY DEF Joined
    <2>4. CASE Joined(b, l, r).text[f] = r.text[f]
      BY <1>1, <2>1, <2>2, <2>4, NotAbsent DEF TextIn
    <2>5. CASE Joined(b, l, r).text[f] = l.text[f] /\ l.text[f] # r.text[f]
               /\ (b = Absent \/ l.text[f] # b.text[f])
      <3>1. b = Absent \/ b.text[f] \notin {l.text[f], r.text[f]}
        BY <1>2, <2>5
      <3>2. Clash(b, l, r)
        BY <2>5, <3>1 DEF Clash
      <3>3. CASE l.deleted = r.deleted
        BY <1>1, <1>5, <3>2, <3>3 DEF Conflicting
      <3>4. CASE l.deleted # r.deleted
        <4>1. b = Absent \/ (Edited(b, l) /\ Edited(b, r))
          BY <3>1 DEF Edited
        <4>2. EditVsDelete(b, l, r)
          BY <3>4, <4>1 DEF EditVsDelete
        <4> QED
          BY <1>5, <4>2
      <3> QED
        BY <3>3, <3>4
    <2> QED
      BY <2>3, <2>4, <2>5
  <1> QED
    BY <1>3, <1>4, <1>5

(* It keeps what both sides have.                                          *)
LEMMA MergeOneShares ==
    ASSUME NEW b \in Values \cup {Absent}, NEW l \in Values \cup {Absent},
           NEW r \in Values \cup {Absent}, NEW f \in Fields,
           NEW t \in TextIn(l, f), t \in TextIn(r, f)
    PROVE  t \in TextIn(MergeOne(b, l, r), f)
  <1>1. /\ l \in Values /\ l # Absent /\ l # Null /\ t \in l.text[f]
        /\ r \in Values /\ r # Absent /\ r # Null /\ t \in r.text[f]
    BY NotAbsent DEF TextIn
  <1>2. MergeOne(b, l, r) = l \/ MergeOne(b, l, r) = Joined(b, l, r)
    BY <1>1 DEF MergeOne
  <1>3. Joined(b, l, r) \in Values /\ t \in Joined(b, l, r).text[f]
    BY <1>1, JoinedType DEF Joined
  <1> QED
    BY <1>1, <1>2, <1>3, NotAbsent DEF TextIn

(* It makes no text up.                                                    *)
LEMMA MergeOneWithin ==
    ASSUME NEW b \in Values \cup {Absent}, NEW l \in Values \cup {Absent},
           NEW r \in Values \cup {Absent}, NEW f \in Fields
    PROVE  TextIn(MergeOne(b, l, r), f) \subseteq TextIn(l, f) \cup TextIn(r, f)
  <1>1. CASE l = Absent \/ r = Absent
    <2>1. MergeOne(b, l, r) \in {l, r, Absent}
      BY <1>1 DEF MergeOne, OneSided
    <2> QED
      BY <2>1 DEF TextIn
  <1>2. CASE l # Absent /\ r # Absent
    <2>1. l \in Values /\ r \in Values /\ (MergeOne(b, l, r) = l \/ MergeOne(b, l, r) = Joined(b, l, r))
      BY <1>2 DEF MergeOne
    <2>2. Joined(b, l, r) \in Values /\ Joined(b, l, r).text[f] \in {l.text[f], r.text[f]}
      BY <2>1, JoinedType DEF Joined
    <2> QED
      BY <2>1, <2>2, NotAbsent DEF TextIn
  <1> QED
    BY <1>1, <1>2

LEMMA AllNumbered ==
    ASSUME KeepInv, NEW i \in Ids, NEW f \in Fields
    PROVE  /\ Remote(i, f) \subseteq 1 .. edits
           /\ \A d \in Devices : TextIn(Basis(d)[i], f) \subseteq 1 .. edits
  <1>1. ASSUME NEW d \in Devices
        PROVE  Has(d, i, f) \subseteq 1 .. edits
    <2>1. /\ TextIn(items[d][i], f) \subseteq 1 .. edits /\ TextIn(conflicts[d][i], f) \subseteq 1 .. edits
          /\ TextIn(run[d].pending[i], f) \subseteq 1 .. edits
      BY DEF KeepInv, Numbered
    <2> QED
      BY <2>1 DEF Has, Shows, KeepInv
  <1>2. Remote(i, f) \subseteq 1 .. edits
    BY <1>1 DEF KeepInv, RemoteHeld
  <1>3. ASSUME NEW d \in Devices
        PROVE  TextIn(Basis(d)[i], f) \subseteq 1 .. edits
    BY <1>1 DEF KeepInv, DeviceKeeps
  <1> QED
    BY <1>2, <1>3

LEMMA MergeKeeps ==
    ASSUME KeepInv, BaseInv', ~Overlap, NEW d \in Devices, Merge(d)
    PROVE  KeepInv'
  <1> DEFINE theirs == ItemsIn(run[d].header.tags)
             out == OutboundView(Merged(d), MergedPending(d))
             same == SameItems(out, theirs)
             number == IF same THEN run[d].header.rev ELSE NextRev(d)
             key == IF same THEN run[d].header.password ELSE AdoptedPassword(d)
             h == [rev |-> number, by |-> d, tags |-> Table(out), password |-> key]
             pc == IF same THEN "adopted" ELSE "merged"
             next == [run[d] EXCEPT !.pc = pc, !.pending = MergedPending(d), !.sent = out, !.header = h]
  <1>1. /\ items' = [items EXCEPT ![d] = Merged(d)] /\ Proceed(d, next)
        /\ UNCHANGED <<base, conflicts, remote, history, edits>> /\ run[d].pc = "parts"
    BY DEF Merge, Merged, MergedPending, sync, counters
  <1>2. /\ run[d] \in Runs /\ base[d] \in ItemMaps /\ BaseItems(d) = base[d]
        /\ Merged(d) \in ItemMaps /\ MergedPending(d) \in Conflicts /\ theirs \in ItemMaps
        /\ items[d] \in ItemMaps /\ remoteHeader # Null
    BY KeepTypes, MergeParts DEF KeepInv, BaseInv, BaseItems, Standing
  <1>3. run[d].header = remoteHeader
    BY <1>1, <1>2 DEF KeepInv, BaseInv, RunAgrees
  <1>4. \A e \in Devices \ {d} : run[e].pc = "idle"
    BY <1>1, OthersIdle DEF KeepInv
  <1>5. pc \in {"adopted", "merged"}
    OBVIOUS
  <1>6. \A i \in Ids : out[i] = IF MergedPending(d)[i] # Null THEN MergedPending(d)[i] ELSE Merged(d)[i]
    BY DEF OutboundView
  <1> HIDE DEF out, h, pc
  <1>7. next.pc = pc /\ next.pending = MergedPending(d) /\ next.sent = out
    BY <1>2 DEF Runs
  <1> HIDE DEF next
  <1>8. /\ run'[d] = next /\ items'[d] = Merged(d)
        /\ \A e \in Devices \ {d} : run'[e] = run[e] /\ items'[e] = items[e]
    BY <1>1, KeepTypes DEF Proceed
  <1>9. PartsFor(run[d], remoteParts, remoteHeader)
    BY <1>4 DEF KeepInv, Whole
  <1>10. Whole'
    BY <1>1, <1>4, <1>5, <1>7, <1>8, <1>9 DEF Whole, PartsFor, remote
  <1>11. /\ base'[d] # Null /\ remoteHeader' = remoteHeader /\ base' = base /\ conflicts' = conflicts
         /\ settled' = settled /\ typed' = typed /\ edits' = edits /\ edits \in Nat /\ settled \subseteq 1 .. edits
    BY <1>1, KeepTypes, SyncConstants DEF KeepInv, Standing, remote, history
  <1>12. DeviceKeeps(d) /\ Numbered(d)
    BY DEF KeepInv
  <1>13. run[d].pc \in Undecided /\ run'[d].pc \notin Undecided
    BY <1>1, <1>5, <1>7, <1>8 DEF Undecided
  <1>14. Shows(d) = run[d].pending /\ Shows(d)' = MergedPending(d) /\ Basis(d) = base[d] /\ Basis(d)' = out
    BY <1>1, <1>5, <1>7, <1>8, <1>13 DEF Shows, Basis
  <1>15. ASSUME NEW i \in Ids, NEW f \in Fields
         PROVE  /\ Remote(i, f)' = Remote(i, f)
                /\ Has(d, i, f)' = TextIn(Merged(d)[i], f) \cup TextIn(MergedPending(d)[i], f) \cup settled
                /\ TextIn(out[i], f) \subseteq Has(d, i, f)'
                /\ Remote(i, f) \subseteq TextIn(out[i], f) \cup TextIn(Merged(d)[i], f) \cup settled
                /\ Safe(d, i, f) \subseteq Safe(d, i, f)'
                /\ TextIn(Merged(d)[i], f) \subseteq 1 .. edits
                /\ TextIn(MergedPending(d)[i], f) \subseteq 1 .. edits
    <2> DEFINE b == base[d][i]
               l == items[d][i]
               r == theirs[i]
    <2>1. b \in Values \cup {Absent} /\ l \in Values \cup {Absent} /\ r \in Values \cup {Absent}
      BY <1>2 DEF ItemMaps
    <2>2. /\ Merged(d)[i] = MergeOne(b, l, r)
          /\ MergedPending(d)[i] = IF Conflicting(b, l, r) THEN r ELSE run[d].pending[i]
      BY <1>2 DEF Merged, MergedPending, Pending
    <2>3. Remote(i, f) = TextIn(r, f) /\ Remote(i, f)' = Remote(i, f)
      BY <1>3, <1>11 DEF Remote
    <2> HIDE DEF b, l, r
    <2>4. Has(d, i, f)' = TextIn(Merged(d)[i], f) \cup TextIn(MergedPending(d)[i], f) \cup settled
      BY <1>8, <1>11, <1>14 DEF Has
    <2>5. out[i] = IF MergedPending(d)[i] # Null THEN MergedPending(d)[i] ELSE Merged(d)[i]
      BY <1>6
    <2>6. TextIn(Null, f) = {}
      BY DEF TextIn
    <2>7. TextIn(out[i], f) \subseteq Has(d, i, f)'
      BY <2>4, <2>5
    <2>8. ASSUME NEW t \in Remote(i, f)
          PROVE  t \in TextIn(Merged(d)[i], f) \cup TextIn(MergedPending(d)[i], f) \cup settled
      <3>1. t \in TextIn(r, f)
        BY <2>3
      <3>2. CASE t \notin TextIn(b, f)
        <4>1. t \in TextIn(MergeOne(b, l, r), f) \/ Conflicting(b, l, r)
          BY <2>1, <3>1, <3>2, MergeOneTakes
        <4> QED
          BY <2>2, <3>1, <4>1
      <3>3. CASE t \in TextIn(b, f)
        <4>1. t \in TextIn(l, f) \cup TextIn(run[d].pending[i], f) \cup settled
          BY <1>12, <1>14, <3>3 DEF DeviceKeeps, Has, b, l
        <4>2. CASE t \in TextIn(l, f)
          BY <2>1, <2>2, <3>1, <4>2, MergeOneShares
        <4>3. CASE t \in TextIn(run[d].pending[i], f)
          BY <2>2, <3>1, <4>3
        <4> QED
          BY <4>1, <4>2, <4>3
      <3> QED
        BY <3>2, <3>3
    <2>9. Remote(i, f) \subseteq TextIn(out[i], f) \cup TextIn(Merged(d)[i], f) \cup settled
      BY <2>5, <2>6, <2>8
    <2>10. Safe(d, i, f) \subseteq Safe(d, i, f)'
      <3> SUFFICES ASSUME NEW t \in Safe(d, i, f) PROVE t \in Safe(d, i, f)'
        OBVIOUS
      <3>1. t \in TextIn(l, f) /\ t \notin TextIn(b, f)
        BY <1>13 DEF Safe, b, l
      <3>2. t \in TextIn(Merged(d)[i], f)
        BY <2>1, <2>2, <3>1, MergeOneHolds
      <3> QED
        BY <1>8, <1>13, <3>2 DEF Safe
    <2>11. /\ TextIn(l, f) \subseteq 1 .. edits /\ TextIn(run[d].pending[i], f) \subseteq 1 .. edits
           /\ TextIn(r, f) \subseteq 1 .. edits
      BY <1>12, <2>3, AllNumbered DEF Numbered, l
    <2>12. TextIn(MergeOne(b, l, r), f) \subseteq TextIn(l, f) \cup TextIn(r, f)
      BY <2>1, MergeOneWithin
    <2>13. TextIn(Merged(d)[i], f) \subseteq 1 .. edits /\ TextIn(MergedPending(d)[i], f) \subseteq 1 .. edits
      BY <2>2, <2>11, <2>12
    <2> QED
      BY <2>3, <2>4, <2>7, <2>9, <2>10, <2>13
  <1>16. DeviceKeeps(d)'
    <2> SUFFICES ASSUME NEW i \in Ids, NEW f \in Fields
                 PROVE  /\ TextIn(out[i], f) \subseteq Has(d, i, f)'
                        /\ Remote(i, f)' \subseteq TextIn(out[i], f) \cup TextIn(Merged(d)[i], f) \cup settled
      BY <1>5, <1>7, <1>8, <1>11, <1>14 DEF DeviceKeeps
    <2> QED
      BY <1>15
  <1>17. Numbered(d)'
    <2>1. run'[d].pending = MergedPending(d)
      BY <1>7, <1>8
    <2> QED
      BY <1>8, <1>11, <1>12, <1>15, <2>1 DEF Numbered
  <1>18. AsExpected(run'[d], remoteHeader')
    BY <1>5, <1>7, <1>8 DEF AsExpected
  <1>19. settled \subseteq settled' /\ settled' \subseteq 1 .. edits' /\ edits' \in Nat /\ edits <= edits'
    BY <1>11
  <1>20. \A i \in Ids, f \in Fields :
            /\ Remote(i, f)' \subseteq Remote(i, f) \cup Has(d, i, f)'
            /\ Remote(i, f) \cap Has(d, i, f) \subseteq Has(d, i, f)'
            /\ Remote(i, f) \cup Safe(d, i, f) \subseteq Remote(i, f)' \cup Safe(d, i, f)' \cup settled'
    BY <1>15
  <1> QED
    BY <1>2, <1>4, <1>8, <1>10, <1>11, <1>16, <1>17, <1>18, <1>19, <1>20, OneKeeps

(* What users do takes no text away that they did not give up.             *)
LEMMA ActsKeeps ==
    ASSUME KeepInv, BaseInv', NEW d \in Devices,
           \A e \in Devices \ {d} :
              run'[e] = run[e] /\ items'[e] = items[e] /\ conflicts'[e] = conflicts[e],
           \/ run'[d] = run[d]
           \/ /\ run[d].pc = "idle" /\ run'[d].pc = "peek" /\ run'[d].pending = NoConflicts
              /\ \A e \in Devices \ {d} : run[e].pc = "idle",
           UNCHANGED <<base, remote>>, edits' \in {edits, edits + 1},
           settled \subseteq settled', settled' \subseteq 1 .. edits',
           \A i \in Ids, f \in Fields :
              /\ TextIn(items[d][i], f) \subseteq TextIn(items'[d][i], f) \cup settled'
              /\ TextIn(conflicts[d][i], f)
                    \subseteq TextIn(conflicts'[d][i], f) \cup TextIn(items'[d][i], f) \cup settled'
              /\ TextIn(items'[d][i], f) \cup TextIn(conflicts'[d][i], f) \subseteq 1 .. edits',
           \A t \in typed' \ typed :
              t = edits + 1 /\ \E i \in Ids, f \in Fields : t \in TextIn(items'[d][i], f)
    PROVE  KeepInv'
  <1>1. /\ remoteHeader' = remoteHeader /\ remoteParts' = remoteParts /\ base' = base
        /\ remoteHeader' # Null /\ base'[d] # Null /\ edits \in Nat /\ edits' \in Nat /\ edits <= edits'
    BY KeepTypes, SyncConstants DEF KeepInv, Standing, remote
  <1>2. Whole'
    BY <1>1 DEF KeepInv, Whole, PartsFor
  <1>3. DeviceKeeps(d) /\ Numbered(d) /\ AsExpected(run[d], remoteHeader)
    BY DEF KeepInv
  <1>4. AsExpected(run'[d], remoteHeader')
    BY <1>1, <1>3 DEF AsExpected
  <1>5. Basis(d)' = Basis(d) /\ (run'[d].pc \in Undecided <=> run[d].pc \in Undecided)
        /\ (run'[d].pc \notin Undecided => run'[d] = run[d])
        /\ (run'[d].pc \in {"adopted", "merged"} <=> run[d].pc \in {"adopted", "merged"})
    BY <1>1 DEF Basis, Undecided
  <1>6. ASSUME NEW i \in Ids, NEW f \in Fields
        PROVE  /\ Remote(i, f)' = Remote(i, f) /\ Has(d, i, f) \subseteq Has(d, i, f)'
               /\ Safe(d, i, f) \subseteq Safe(d, i, f)' \cup settled'
               /\ TextIn(run'[d].pending[i], f) \subseteq 1 .. edits'
               /\ run[d].pc \notin {"adopted", "merged"} =>
                    TextIn(Shows(d)[i], f)' \subseteq TextIn(conflicts'[d][i], f)
                       \cup TextIn(items'[d][i], f) \cup settled'
    <2>1. Remote(i, f)' = Remote(i, f)
      BY <1>1 DEF Remote
    <2>2. \/ Shows(d) = conflicts[d] /\ Shows(d)' = conflicts'[d]
          \/ Shows(d) = run[d].pending /\ Shows(d)' = run[d].pending
      BY DEF Shows
    <2>3. /\ TextIn(items[d][i], f) \subseteq TextIn(items'[d][i], f) \cup settled'
          /\ TextIn(conflicts[d][i], f)
                \subseteq TextIn(conflicts'[d][i], f) \cup TextIn(items'[d][i], f) \cup settled'
      OBVIOUS
    <2>4. Has(d, i, f)' = TextIn(items'[d][i], f) \cup TextIn(Shows(d)'[i], f) \cup settled'
      BY DEF Has
    <2>5. Has(d, i, f) \subseteq Has(d, i, f)'
      BY <2>2, <2>3, <2>4 DEF Has
    <2>6. Safe(d, i, f) \subseteq Safe(d, i, f)' \cup settled'
      BY <1>1, <1>5, <2>3 DEF Safe
    <2>7. TextIn(run'[d].pending[i], f) \subseteq 1 .. edits'
      <3>1. \A n \in 1 .. edits : n \in 1 .. edits'
        BY <1>1
      <3>2. TextIn(run[d].pending[i], f) \subseteq 1 .. edits
        BY <1>3 DEF Numbered
      <3>3. TextIn(NoConflicts[i], f) = {}
        BY DEF NoConflicts, TextIn
      <3> QED
        BY <3>1, <3>2, <3>3
    <2>8. run[d].pc \notin {"adopted", "merged"} =>
             TextIn(Shows(d)[i], f) \subseteq TextIn(conflicts[d][i], f) \cup TextIn(items[d][i], f)
                                                \cup settled
      BY <1>3 DEF DeviceKeeps
    <2>9. run[d].pc \notin {"adopted", "merged"} =>
             TextIn(Shows(d)'[i], f) \subseteq TextIn(conflicts'[d][i], f)
                \cup TextIn(items'[d][i], f) \cup settled'
      BY <2>2, <2>3, <2>8
    <2> QED
      BY <2>1, <2>5, <2>6, <2>7, <2>9
  <1>7. DeviceKeeps(d)'
    <2> SUFFICES ASSUME NEW i \in Ids, NEW f \in Fields
                 PROVE  /\ TextIn(Basis(d)[i], f)' \subseteq Has(d, i, f)'
                        /\ run'[d].pc \notin Undecided =>
                             Remote(i, f)' \subseteq TextIn(run'[d].sent[i], f)
                                \cup TextIn(items'[d][i], f) \cup settled'
                        /\ run'[d].pc \notin {"adopted", "merged"} =>
                             TextIn(Shows(d)[i], f)' \subseteq TextIn(conflicts'[d][i], f)
                                \cup TextIn(items'[d][i], f) \cup settled'
      BY DEF DeviceKeeps
    <2>1. /\ TextIn(Basis(d)[i], f) \subseteq Has(d, i, f)
          /\ run[d].pc \notin Undecided =>
               Remote(i, f) \subseteq TextIn(run[d].sent[i], f) \cup TextIn(items[d][i], f)
                                        \cup settled
      BY <1>3 DEF DeviceKeeps
    <2>2. TextIn(Basis(d)[i], f)' = TextIn(Basis(d)[i], f)
      BY <1>5
    <2>3. TextIn(items[d][i], f) \subseteq TextIn(items'[d][i], f) \cup settled'
      OBVIOUS
    <2> QED
      BY <1>5, <1>6, <2>1, <2>2, <2>3
  <1>8. Numbered(d)'
    BY <1>6 DEF Numbered
  <1>9. \A t \in typed' \ settled' :
            t \in typed \/ \E i \in Ids, f \in Fields : t \in Safe(d, i, f)'
    <2> SUFFICES ASSUME NEW t \in typed' \ typed
                 PROVE  \E i \in Ids, f \in Fields : t \in Safe(d, i, f)'
      OBVIOUS
    <2>1. PICK i \in Ids, f \in Fields : t = edits + 1 /\ t \in TextIn(items'[d][i], f)
      OBVIOUS
    <2>2. TextIn(Basis(d)[i], f) \subseteq 1 .. edits
      BY AllNumbered
    <2>3. t \notin TextIn(Basis(d)[i], f)
      BY <1>1, <2>1, <2>2
    <2>4. t \in Safe(d, i, f)'
      BY <1>1, <1>5, <2>1, <2>3 DEF Safe, Basis
    <2> QED
      BY <2>4
  <1>10. \A i \in Ids, f \in Fields :
            /\ Remote(i, f)' \subseteq Remote(i, f) \cup Has(d, i, f)'
            /\ Remote(i, f) \cap Has(d, i, f) \subseteq Has(d, i, f)'
            /\ Remote(i, f) \cup Safe(d, i, f) \subseteq Remote(i, f)' \cup Safe(d, i, f)' \cup settled'
    BY <1>6
  <1> QED
    BY <1>1, <1>2, <1>4, <1>7, <1>8, <1>9, <1>10, OneKeeps

(* What an edit makes of the item.                                         *)
LEMMA EditAdds ==
    ASSUME TypeInv, NEW d \in Devices, Edit(d)
    PROVE  \E j \in Ids, v \in Values :
              /\ items' = [items EXCEPT ![d][j] = v]
              /\ \A f \in Fields : /\ TextIn(items[d][j], f) \subseteq TextIn(v, f)
                                   /\ TextIn(v, f) \subseteq TextIn(items[d][j], f) \cup {edits + 1}
              /\ \/ typed' = typed
                 \/ typed' = typed \cup {edits + 1} /\ \E f \in Fields : edits + 1 \in TextIn(v, f)
  <1>1. edits' \in 1 .. MaxEdits /\ edits' = edits + 1 /\ Now \in 0 .. MaxEdits + MaxResolves
    BY EditCounts DEF Edit
  <1>2. items[d] \in ItemMaps /\ items \in [Devices -> ItemMaps]
    BY DEF TypeInv, LocalOK
  <1>3. PICK j \in Ids :
        \/ /\ items[d][j] # Absent
           /\ items' = [items EXCEPT ![d][j].deleted = ~@, ![d][j].at = Now]
           /\ typed' = typed
        \/ /\ items[d][j] # Absent
           /\ \E f \in Fields :
                items' = [items EXCEPT ![d][j].text[f] = @ \cup {edits'},
                                       ![d][j].at = Now]
           /\ typed' = typed \cup {edits'}
        \/ /\ New(j)
           /\ items' = [items EXCEPT ![d][j] =
                [text |-> [f \in Fields |-> {edits'}], deleted |-> FALSE,
                 at |-> Now]]
           /\ typed' = typed \cup {edits'}
    BY DEF Edit
  <1>4. CASE /\ items[d][j] # Absent
             /\ items' = [items EXCEPT ![d][j].deleted = ~@, ![d][j].at = Now]
             /\ typed' = typed
    <2> DEFINE v == [items[d][j] EXCEPT !.deleted = ~@, !.at = Now]
    <2>1. items' = [items EXCEPT ![d][j] = v]
      BY <1>2, <1>4 DEF ItemMaps, Values
    <2>2. items[d][j] \in Values
      BY <1>2, <1>4 DEF ItemMaps
    <2>3. v \in Values /\ v.text = items[d][j].text
      BY <1>1, <2>2 DEF Values
    <2> HIDE DEF v
    <2>4. \A f \in Fields : TextIn(v, f) = TextIn(items[d][j], f)
      BY <2>2, <2>3, NotAbsent DEF TextIn
    <2>5. \A f \in Fields : /\ TextIn(items[d][j], f) \subseteq TextIn(v, f)
                            /\ TextIn(v, f) \subseteq TextIn(items[d][j], f) \cup {edits + 1}
      BY <2>4
    <2> QED
      BY <1>4, <2>1, <2>3, <2>5, Zenon
  <1>5. ASSUME items[d][j] # Absent, NEW g \in Fields, typed' = typed \cup {edits'},
               items' = [items EXCEPT ![d][j].text[g] = @ \cup {edits'},
                                      ![d][j].at = Now]
        PROVE  \E v \in Values :
                      /\ items' = [items EXCEPT ![d][j] = v]
                      /\ \A f \in Fields :
                            /\ TextIn(items[d][j], f) \subseteq TextIn(v, f)
                            /\ TextIn(v, f) \subseteq TextIn(items[d][j], f) \cup {edits + 1}
                      /\ edits + 1 \in TextIn(v, g)
    <2> DEFINE v == [items[d][j] EXCEPT !.text[g] = @ \cup {edits'}, !.at = Now]
    <2>1. items' = [items EXCEPT ![d][j] = v]
      BY <1>2, <1>5 DEF ItemMaps, Values
    <2>2. items[d][j] \in Values
      BY <1>2, <1>5 DEF ItemMaps
    <2>3. v \in Values
      BY <1>1, <2>2, EditedItem
    <2>4. \A f \in Fields : v.text[f] = IF f = g THEN items[d][j].text[f] \cup {edits'}
                                                 ELSE items[d][j].text[f]
      BY <2>2 DEF Values
    <2> HIDE DEF v
    <2>5. \A f \in Fields : TextIn(v, f) = v.text[f] /\ TextIn(items[d][j], f) = items[d][j].text[f]
      BY <2>2, <2>3, NotAbsent DEF TextIn
    <2>6. \A f \in Fields : /\ TextIn(items[d][j], f) \subseteq TextIn(v, f)
                            /\ TextIn(v, f) \subseteq TextIn(items[d][j], f) \cup {edits + 1}
      BY <1>1, <2>4, <2>5
    <2>7. edits + 1 \in TextIn(v, g)
      BY <1>1, <2>4, <2>5
    <2> QED
      BY <2>1, <2>3, <2>6, <2>7, Zenon
  <1>6. CASE /\ New(j)
             /\ items' = [items EXCEPT ![d][j] =
                  [text |-> [f \in Fields |-> {edits'}], deleted |-> FALSE, at |-> Now]]
             /\ typed' = typed \cup {edits'}
    <2> DEFINE v == [text |-> [f \in Fields |-> {edits'}], deleted |-> FALSE, at |-> Now]
    <2>1. v \in Values
      BY <1>1 DEF Values, Texts
    <2>2. \A f \in Fields : v.text[f] = {edits'}
      OBVIOUS
    <2>3. items' = [items EXCEPT ![d][j] = v]
      BY <1>6
    <2> HIDE DEF v
    <2>4. \A f \in Fields : TextIn(v, f) = {edits + 1} /\ TextIn(items[d][j], f) = {}
      BY <1>1, <1>6, <2>1, <2>2, NotAbsent DEF TextIn, New
    <2>5. \E f \in Fields : edits + 1 \in TextIn(v, f)
      BY <2>4, SyncConstants
    <2> QED
      BY <1>1, <1>6, <2>1, <2>3, <2>4, <2>5
  <1> QED
    BY <1>1, <1>3, <1>4, <1>5, <1>6

LEMMA EditKeepsTexts ==
    ASSUME KeepInv, BaseInv', NEW d \in Devices, Edit(d)
    PROVE  KeepInv'
  <1>1. PICK j \in Ids, v \in Values :
            /\ items' = [items EXCEPT ![d][j] = v]
            /\ \A f \in Fields : /\ TextIn(items[d][j], f) \subseteq TextIn(v, f)
                                 /\ TextIn(v, f) \subseteq TextIn(items[d][j], f) \cup {edits + 1}
            /\ \/ typed' = typed
               \/ typed' = typed \cup {edits + 1} /\ \E f \in Fields : edits + 1 \in TextIn(v, f)
    BY EditAdds DEF KeepInv, BaseInv
  <1>2. /\ items'[d][j] = v
        /\ \A i \in Ids \ {j} : items'[d][i] = items[d][i]
        /\ \A e \in Devices \ {d} : items'[e] = items[e]
    BY <1>1, KeepTypes DEF ItemMaps
  <1>3. /\ UNCHANGED <<run, conflicts, base, remote, settled>> /\ edits' = edits + 1
        /\ edits \in Nat /\ settled \subseteq 1 .. edits
    BY KeepTypes DEF Edit, sync, engine
  <1>4. settled' \subseteq 1 .. edits' /\ \A n \in 1 .. edits : n \in 1 .. edits'
    BY <1>3
  <1>5. ASSUME NEW i \in Ids, NEW f \in Fields
        PROVE  /\ TextIn(items[d][i], f) \subseteq TextIn(items'[d][i], f)
               /\ TextIn(items'[d][i], f) \subseteq 1 .. edits'
               /\ TextIn(conflicts'[d][i], f) = TextIn(conflicts[d][i], f)
               /\ TextIn(conflicts'[d][i], f) \subseteq 1 .. edits'
    <2>1. TextIn(items[d][i], f) \subseteq 1 .. edits /\ TextIn(conflicts[d][i], f) \subseteq 1 .. edits
      BY DEF KeepInv, Numbered
    <2>2. edits + 1 \in 1 .. edits'
      BY <1>3
    <2>3. TextIn(items[d][i], f) \subseteq TextIn(items'[d][i], f)
          /\ TextIn(items'[d][i], f) \subseteq TextIn(items[d][i], f) \cup {edits + 1}
      BY <1>1, <1>2
    <2> QED
      BY <1>3, <1>4, <2>1, <2>2, <2>3
  <1>6. \A t \in typed' \ typed :
           t = edits + 1 /\ \E i \in Ids, f \in Fields : t \in TextIn(items'[d][i], f)
    BY <1>1, <1>2
  <1> QED
    BY <1>2, <1>3, <1>4, <1>5, <1>6, ActsKeeps

LEMMA PurgeKeepsTexts ==
    ASSUME KeepInv, BaseInv', NEW d \in Devices, Purge(d)
    PROVE  KeepInv'
  <1>1. PICK j \in Ids : /\ items' = [items EXCEPT ![d][j] = Absent]
                         /\ settled' = settled \cup TextsIn(items[d][j])
    BY DEF Purge
  <1>2. /\ items'[d][j] = Absent
        /\ \A i \in Ids \ {j} : items'[d][i] = items[d][i]
        /\ \A e \in Devices \ {d} : items'[e] = items[e]
    BY <1>1, KeepTypes DEF ItemMaps
  <1>3. /\ UNCHANGED <<run, conflicts, base, remote, typed, edits>>
        /\ edits \in Nat /\ settled \subseteq 1 .. edits
    BY KeepTypes DEF Purge, sync, engine
  <1>4. \A i \in Ids, f \in Fields : TextIn(items[d][i], f) \subseteq 1 .. edits
                                     /\ TextIn(conflicts[d][i], f) \subseteq 1 .. edits
    BY DEF KeepInv, Numbered
  <1>5. settled' \subseteq 1 .. edits'
    BY <1>1, <1>3, <1>4 DEF TextsIn
  <1>6. ASSUME NEW i \in Ids, NEW f \in Fields
        PROVE  /\ TextIn(items[d][i], f) \subseteq TextIn(items'[d][i], f) \cup settled'
               /\ TextIn(items'[d][i], f) \subseteq TextIn(items[d][i], f)
    <2>1. CASE i = j
      BY <1>1, <1>2, <2>1, TextInTexts DEF TextIn
    <2>2. CASE i # j
      BY <1>2, <2>2
    <2> QED
      BY <2>1, <2>2
  <1>7. \A i \in Ids, f \in Fields :
           /\ TextIn(items[d][i], f) \subseteq TextIn(items'[d][i], f) \cup settled'
           /\ TextIn(conflicts[d][i], f)
                 \subseteq TextIn(conflicts'[d][i], f) \cup TextIn(items'[d][i], f) \cup settled'
           /\ TextIn(items'[d][i], f) \cup TextIn(conflicts'[d][i], f) \subseteq 1 .. edits'
    BY <1>3, <1>4, <1>6
  <1>8. settled \subseteq settled' /\ typed' \ typed = {}
    BY <1>1, <1>3
  <1> QED
    BY <1>2, <1>3, <1>5, <1>7, <1>8, ActsKeeps

(* A run starts, or is asked for.                                          *)
LEMMA AskedRun ==
    ASSUME KeepInv, ~Overlap, NEW d \in Devices, NEW force, MayRun(d), SyncNow(d, force)
    PROVE  /\ \A e \in Devices \ {d} : run'[e] = run[e]
           /\ \/ run'[d] = run[d]
              \/ /\ run[d].pc = "idle" /\ run'[d].pc = "peek" /\ run'[d].pending = NoConflicts
                 /\ \A e \in Devices \ {d} : run[e].pc = "idle"
  <1>1. run \in [Devices -> Runs]
    BY KeepTypes
  <1>2. CASE run[d].pc = "idle"
    <2>1. run' = [run EXCEPT ![d] = [IdleRun EXCEPT !.pc = "peek", !.force = force]]
      BY <1>2 DEF SyncNow
    <2>2. run'[d] = [IdleRun EXCEPT !.pc = "peek", !.force = force]
      BY <1>1, <2>1
    <2>3. run'[d].pc = "peek" /\ run'[d].pending = NoConflicts
      BY <2>2 DEF IdleRun
    <2> QED
      BY <1>1, <1>2, <2>1, <2>3 DEF MayRun
  <1>3. CASE run[d].pc # "idle"
    <2>1. run' = run
      BY <1>3 DEF SyncNow
    <2> QED
      BY <2>1
  <1> QED
    BY <1>2, <1>3

LEMMA TriggerKeepsTexts ==
    ASSUME KeepInv, BaseInv', ~Overlap, NEW d \in Devices, Trigger(d)
    PROVE  KeepInv'
  <1>1. /\ \A e \in Devices \ {d} : run'[e] = run[e]
        /\ \/ run'[d] = run[d]
           \/ /\ run[d].pc = "idle" /\ run'[d].pc = "peek" /\ run'[d].pending = NoConflicts
              /\ \A e \in Devices \ {d} : run[e].pc = "idle"
    BY AskedRun DEF Trigger
  <1>2. UNCHANGED <<items, conflicts, base, remote, settled, typed, edits>>
    BY DEF Trigger, local, sync, history, counters
  <1>3. edits \in Nat /\ settled \subseteq 1 .. edits
    BY KeepTypes
  <1>4. \A i \in Ids, f \in Fields : TextIn(items[d][i], f) \subseteq 1 .. edits
                                     /\ TextIn(conflicts[d][i], f) \subseteq 1 .. edits
    BY DEF KeepInv, Numbered
  <1>5. \A i \in Ids, f \in Fields :
           /\ TextIn(items[d][i], f) \subseteq TextIn(items'[d][i], f) \cup settled'
           /\ TextIn(conflicts[d][i], f)
                 \subseteq TextIn(conflicts'[d][i], f) \cup TextIn(items'[d][i], f) \cup settled'
           /\ TextIn(items'[d][i], f) \cup TextIn(conflicts'[d][i], f) \subseteq 1 .. edits'
    BY <1>2, <1>4
  <1>6. typed' \ typed = {} /\ settled \subseteq settled' /\ settled' \subseteq 1 .. edits'
    BY <1>2, <1>3
  <1> QED
    BY <1>1, <1>2, <1>5, <1>6, ActsKeeps

(* An answer has texts of the two versions only, and what it does not keep *)
(* of them was given up.                                                   *)
LEMMA AnswerWithin ==
    ASSUME NEW mine \in Values, NEW theirs \in Values, NEW n \in Nat, NEW f \in Fields
    PROVE  TextIn(Adopted(mine, theirs, n), f) \subseteq TextIn(mine, f) \cup TextIn(theirs, f)
  <1>1. CASE Adopted(mine, theirs, n) = mine
    BY <1>1
  <1>2. CASE Adopted(mine, theirs, n) = [mine EXCEPT !.deleted = TRUE, !.at = n]
    <2>1. Adopted(mine, theirs, n).text = mine.text
      BY <1>2 DEF Values
    <2> QED
      BY <2>1, NotAbsent DEF TextIn
  <1>3. CASE Adopted(mine, theirs, n) = [theirs EXCEPT !.at = n]
    <2>1. Adopted(mine, theirs, n).text = theirs.text
      BY <1>3 DEF Values
    <2> QED
      BY <2>1, NotAbsent DEF TextIn
  <1> QED
    BY <1>1, <1>2, <1>3 DEF Adopted

LEMMA ResolveKeepsTexts ==
    ASSUME KeepInv, BaseInv', ~Overlap, NEW d \in Devices, Resolve(d)
    PROVE  KeepInv'
  <1>1. /\ \A e \in Devices \ {d} : run'[e] = run[e]
        /\ \/ run'[d] = run[d]
           \/ /\ run[d].pc = "idle" /\ run'[d].pc = "peek" /\ run'[d].pending = NoConflicts
              /\ \A e \in Devices \ {d} : run[e].pc = "idle"
    BY AskedRun DEF Resolve
  <1>2. /\ UNCHANGED <<base, remote, typed, edits>> /\ edits \in Nat /\ settled \subseteq 1 .. edits
    BY KeepTypes DEF Resolve
  <1>3. PICK j \in Ids :
           /\ conflicts[d][j] # Null
           /\ conflicts' = [conflicts EXCEPT ![d][j] = Null]
           /\ \/ items' = items
              \/ /\ items[d][j] # Absent
                 /\ items' = [items EXCEPT ![d][j] = Adopted(@, conflicts[d][j], Now)]
           /\ settled' = settled \cup GivenUp(items[d][j], conflicts[d][j], items'[d][j])
    BY DEF Resolve
  <1>4. /\ conflicts[d][j] \in Values /\ Now \in Nat
        /\ conflicts'[d][j] = Null
        /\ \A i \in Ids \ {j} : conflicts'[d][i] = conflicts[d][i]
        /\ \A e \in Devices \ {d} : conflicts'[e] = conflicts[e]
    <2>1. Now \in Nat
      BY KeepTypes DEF Now, KeepInv, BaseInv, TypeInv, CountersOK
    <2> QED
      BY <1>3, <2>1, KeepTypes DEF Conflicts
  <1>5. /\ \/ items'[d][j] = items[d][j]
           \/ /\ items[d][j] \in Values
              /\ items'[d][j] = Adopted(items[d][j], conflicts[d][j], Now)
        /\ \A i \in Ids \ {j} : items'[d][i] = items[d][i]
        /\ \A e \in Devices \ {d} : items'[e] = items[e]
    BY <1>3, KeepTypes DEF ItemMaps
  <1>6. \A i \in Ids, f \in Fields : TextIn(items[d][i], f) \subseteq 1 .. edits
                                     /\ TextIn(conflicts[d][i], f) \subseteq 1 .. edits
    BY DEF KeepInv, Numbered
  <1>7. ASSUME NEW f \in Fields
        PROVE  /\ (TextIn(items[d][j], f) \cup TextIn(conflicts[d][j], f))
                      \ TextIn(items'[d][j], f) \subseteq settled'
               /\ TextIn(items'[d][j], f) \subseteq TextIn(items[d][j], f) \cup TextIn(conflicts[d][j], f)
    BY <1>3, <1>4, <1>5, AnswerWithin DEF GivenUp
  <1>8. settled \subseteq settled' /\ settled' \subseteq 1 .. edits' /\ typed' \ typed = {}
    BY <1>2, <1>3, <1>6 DEF GivenUp
  <1>9. ASSUME NEW i \in Ids, NEW f \in Fields
        PROVE  /\ TextIn(items[d][i], f) \subseteq TextIn(items'[d][i], f) \cup settled'
               /\ TextIn(conflicts[d][i], f)
                     \subseteq TextIn(conflicts'[d][i], f) \cup TextIn(items'[d][i], f) \cup settled'
               /\ TextIn(items'[d][i], f) \cup TextIn(conflicts'[d][i], f) \subseteq 1 .. edits'
    <2>1. CASE i = j
      <3>1. TextIn(conflicts'[d][j], f) = {}
        BY <1>4 DEF TextIn
      <3> QED
        BY <1>2, <1>6, <1>7, <2>1, <3>1
    <2>2. CASE i # j
      BY <1>2, <1>4, <1>5, <1>6, <2>2
    <2> QED
      BY <2>1, <2>2
  <1> QED
    BY <1>1, <1>2, <1>4, <1>5, <1>8, <1>9, ActsKeeps

LEMMA ChangePasswordKeepsTexts ==
    ASSUME KeepInv, BaseInv', NEW d \in Devices, ChangePassword(d)
    PROVE  KeepInv'
  <1>1. UNCHANGED <<run, items, conflicts, base, remote, settled, typed, edits>>
    BY DEF ChangePassword, sync, engine, history
  <1>2. edits \in Nat /\ settled \subseteq 1 .. edits
    BY KeepTypes
  <1>3. \A i \in Ids, f \in Fields : TextIn(items[d][i], f) \subseteq 1 .. edits
                                     /\ TextIn(conflicts[d][i], f) \subseteq 1 .. edits
    BY DEF KeepInv, Numbered
  <1>4. \A i \in Ids, f \in Fields :
           /\ TextIn(items[d][i], f) \subseteq TextIn(items'[d][i], f) \cup settled'
           /\ TextIn(conflicts[d][i], f)
                 \subseteq TextIn(conflicts'[d][i], f) \cup TextIn(items'[d][i], f) \cup settled'
           /\ TextIn(items'[d][i], f) \cup TextIn(conflicts'[d][i], f) \subseteq 1 .. edits'
    BY <1>1, <1>3
  <1>5. typed' \ typed = {} /\ settled \subseteq settled' /\ settled' \subseteq 1 .. edits'
    BY <1>1, <1>2
  <1> QED
    BY <1>1, <1>4, <1>5, ActsKeeps

LEMMA KeepInvInit == Init => KeepInv
  <1> SUFFICES ASSUME Init
               PROVE  KeepInv
    OBVIOUS
  <1>1. BaseInv
    BY BaseInit
  <1>2. /\ remoteHeader # Null /\ remoteHeader.tags = Table(SharedItems)
        /\ remoteParts = Table(SharedItems) /\ edits = 0 /\ settled = {} /\ typed = {}
    <2>1. remoteHeader \in Headers \cup {Null} /\ remoteHeader \in Headers
      <3>1. PICK d \in Devices :
              remoteHeader = [rev |-> 1, by |-> d, tags |-> Table(SharedItems), password |-> 0]
        BY DEF Init
      <3>2. Table(SharedItems) \in Tables
        BY OriginalType, TableType
      <3> QED
        BY <3>1, <3>2 DEF Headers
    <2> QED
      BY <2>1, NotAHeader DEF Init
  <1>3. \A d \in Devices :
          /\ run[d] = IdleRun /\ base[d] = SharedItems /\ items[d] = SharedItems
          /\ conflicts[d] = NoConflicts
    BY DEF Init
  <1>4. SharedItems # Null
    BY OriginalType, SyncConstants
  <1>5. \A i \in Ids, f \in Fields :
          /\ TextIn(SharedItems[i], f) = {} /\ TextIn(NoConflicts[i], f) = {}
    BY DEF SharedItems, NoConflicts, Original, TextIn
  <1>6. \A i \in Ids, f \in Fields : Remote(i, f) = {}
    BY <1>2, <1>5, OriginalType, ItemsOfTable DEF Remote
  <1>7. Whole
    BY <1>2, <1>3 DEF Whole, PartsFor, IdleRun
  <1>8. ASSUME NEW d \in Devices
        PROVE  AsExpected(run[d], remoteHeader) /\ DeviceKeeps(d) /\ Numbered(d)
    <2>1. /\ run[d].pc = "idle" /\ run[d].pending = NoConflicts
          /\ base[d] = SharedItems /\ items[d] = SharedItems /\ conflicts[d] = NoConflicts
      BY <1>3 DEF IdleRun
    <2>2. Basis(d) = SharedItems /\ Shows(d) = NoConflicts
      BY <2>1 DEF Basis, Shows, Undecided
    <2>3. AsExpected(run[d], remoteHeader)
      BY <2>1 DEF AsExpected
    <2>4. DeviceKeeps(d)
      BY <1>5, <2>1, <2>2 DEF DeviceKeeps, Undecided
    <2>5. Numbered(d)
      BY <1>5, <2>1 DEF Numbered
    <2> QED
      BY <2>3, <2>4, <2>5
  <1> QED
    BY <1>1, <1>2, <1>3, <1>4, <1>6, <1>7, <1>8
       DEF KeepInv, Standing, RemoteHeld, EachSafe

LEMMA KeepInvStep ==
    ASSUME ~Overlap, MaxFaults = 0, MaxReplaces = 0
    PROVE  KeepInv /\ [Next]_vars => KeepInv'
  <1>1. ASSUME KeepInv, [Next]_vars
        PROVE  BaseInv'
    BY <1>1, BaseStep DEF KeepInv
  <1>2. ASSUME KeepInv, UNCHANGED vars
        PROVE  KeepInv'
    <2>1. UNCHANGED <<items, base, conflicts, run, remoteHeader, remoteParts, typed, settled, edits>>
      BY <1>2 DEF vars
    <2>2. BaseInv'
      BY <1>1, <1>2
    <2>3. \A d \in Devices, i \in Ids, f \in Fields :
            /\ Basis(d)' = Basis(d) /\ Shows(d)' = Shows(d) /\ Has(d, i, f)' = Has(d, i, f)
            /\ Safe(d, i, f)' = Safe(d, i, f)
      BY <2>1 DEF Basis, Shows, Has, Safe, TextIn
    <2>4. \A i \in Ids, f \in Fields : Remote(i, f)' = Remote(i, f)
      BY <2>1 DEF Remote
    <2>5. \A d \in Devices : DeviceKeeps(d)'
      BY <1>2, <2>1, <2>3, <2>4 DEF KeepInv, DeviceKeeps
    <2>6. RemoteHeld'
      <3> SUFFICES ASSUME NEW i \in Ids, NEW f \in Fields, NEW t \in Remote(i, f)'
                   PROVE  \E d \in Devices : t \in Has(d, i, f)'
        BY DEF RemoteHeld
      <3>1. t \in Remote(i, f)
        BY <2>4
      <3>2. PICK d \in Devices : t \in Has(d, i, f)
        BY <1>2, <3>1 DEF KeepInv, RemoteHeld
      <3> QED
        BY <2>3, <3>2
    <2>7. EachSafe'
      <3> SUFFICES ASSUME NEW t \in typed' \ settled'
                   PROVE  \E i \in Ids, f \in Fields :
                             t \in Remote(i, f)' \/ \E d \in Devices : t \in Safe(d, i, f)'
        BY DEF EachSafe
      <3>1. PICK i \in Ids, f \in Fields :
                t \in Remote(i, f) \/ \E d \in Devices : t \in Safe(d, i, f)
        BY <1>2, <2>1 DEF KeepInv, EachSafe
      <3> QED
        BY <2>3, <2>4, <3>1
    <2>8. Standing' /\ Whole' /\ \A d \in Devices : AsExpected(run[d], remoteHeader)' /\ Numbered(d)'
      BY <1>2, <2>1 DEF KeepInv, Standing, Whole, Numbered
    <2> QED
      BY <1>2, <2>1, <2>2, <2>5, <2>6, <2>8, <2>7 DEF KeepInv
  <1>3. ASSUME KeepInv, NEW d \in Devices
        PROVE  ~ReplaceRemoteVault(d) /\ ~RunStops(d)
    BY <1>3 DEF KeepInv, BaseInv, TypeInv, CountersOK, ReplaceRemoteVault, RunStops
  <1> QED
    BY <1>1, <1>2, <1>3, PushKeeps, PeekKeeps, PullKeeps, MergeKeeps, EditKeepsTexts, PurgeKeepsTexts,
       TriggerKeepsTexts, ResolveKeepsTexts, ChangePasswordKeepsTexts
       DEF Next, Step, User

(* No text is lost, for any number of devices, items and fields, and       *)
(* whatever users edit, purge, resolve or change their password meanwhile  *)
(* - as long as runs of two devices do not overlap, none stops half way    *)
(* and nobody replaces the remote vault.  Where one stops in the middle of *)
(* its push, another device may take the torn parts for damage and repair  *)
(* them with a vault that lacks what it pushed.                            *)
THEOREM NoTextIsEverLost ==
    ASSUME ~Overlap, MaxFaults = 0, MaxReplaces = 0
    PROVE  Spec => []NoTextLost
  BY KeepInvInit, KeepInvStep, KeepInvImplies, PTL DEF Spec
=============================================================================
