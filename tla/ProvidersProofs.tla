--------------------------- MODULE ProvidersProofs ---------------------------
(* Why the store this computer syncs through always holds a vault its key   *)
(* opens, for every set of bookmarks and every bound; why Drive's calls end *)
(* as they do, for every number of devices, files, pushes and faults; and,  *)
(* where Drive answers with an ETag and no two creates overlap, that        *)
(* pushLight() is the compare-and-swap of VaultCell.                        *)
EXTENDS Migration, Drive, TLAPS, FiniteSetTheorems

(***************************** a move between providers ******************)

(* A stamp in hand is the vault that was pushed, under this vault's key.   *)
Stamped == job # None /\ job.pc \in {"verifyPeek", "verifyPull", "switch",
                                     "clearBase", "saveBase", "clean"}

Flipped == job # None /\ job.pc \in {"clearBase", "saveBase", "clean"}

JobInHand ==
    /\ job # None => job.from # job.to
    /\ job # None => providerId[This] = IF Flipped THEN job.to ELSE job.from
    /\ Stamped => job.stamp # None /\ job.stamp.key = key[This]

TypeInv == MigrationTypeOK /\ JobInHand

-----------------------------------------------------------------------------
(* Types *)

LEMMA NoneIsNothing == None \notin Stored /\ None \notin Bases
BY MigrationConstants

LEMMA InitTyped == MigrationInit => TypeInv
<1> SUFFICES ASSUME MigrationInit PROVE TypeInv
    OBVIOUS
<1>1. PICK p \in [Computers -> Stores], k \in Keys :
        /\ k = "theirs" => p[Other] # p[This]
        /\ providerId = p
        /\ key = [c \in Computers |-> IF c = This THEN "ours" ELSE k]
        /\ remote = [s \in Stores |->
                        IF s = p[This] THEN Empty("ours")
                        ELSE IF s = p[Other] THEN Empty(k) ELSE None]
        /\ base = [c \in Computers |->
                    [items |-> {}, rev |-> 1, stamp |-> Empty(key[c])]]
    BY DEF MigrationInit
<1>2. \A l \in Keys : Empty(l) \in Stored
    BY DEF Empty, Stored
<1>3. key \in [Computers -> Keys]
    BY <1>1 DEF Keys
<1>4. base \in [Computers -> Bases \cup {None}]
    BY <1>1, <1>2, <1>3 DEF Bases
<1>5. remote \in [Stores -> Stored \cup {None}]
    BY <1>1, <1>2 DEF Keys
<1>6. QED
    BY <1>1, <1>3, <1>4, <1>5, MigrationConstants
    DEF MigrationInit, TypeInv, MigrationTypeOK, JobInHand, Stamped, Flipped

(* A publish stores what it is given, under the computer's key.            *)
LEMMA PublishTyped ==
    ASSUME MigrationTypeOK, NEW c \in Computers, NEW its \in SUBSET Items, NEW n \in Nat,
           Publish(c, its, n)
    PROVE  /\ remote' \in [Stores -> Stored \cup {None}]
           /\ base' \in [Computers -> Bases \cup {None}]
<1>1. [rev |-> n, items |-> its, key |-> key[c]] \in Stored
    BY DEF MigrationTypeOK, Stored
<1>2. [items |-> its, rev |-> n, stamp |-> [rev |-> n, items |-> its, key |-> key[c]]] \in Bases
    BY <1>1 DEF Bases
<1>3. QED
    BY <1>1, <1>2 DEF MigrationTypeOK, Publish

(* What SyncOn computes, in each of its three cases.                       *)
LEMMA SyncCases ==
    ASSUME MigrationTypeOK, NEW c \in Computers, SyncOn(c)
    PROVE  /\ UNCHANGED <<key, providerId, job, added, moves>>
           /\ \/ /\ remote[providerId[c]] = None
                 /\ Publish(c, items[c], rev[c])
                 /\ UNCHANGED <<items, rev>>
              \/ /\ base[c] # None
                 /\ remote[providerId[c]] # None
                 /\ base[c].stamp = remote[providerId[c]]
                 /\ Publish(c, items[c], rev[c])
                 /\ UNCHANGED <<items, rev>>
              \/ /\ remote[providerId[c]] # None
                 /\ remote[providerId[c]].key = key[c]
                 /\ \E its \in SUBSET Items, n \in Nat :
                       /\ its = MergedItems(IF base[c] = None THEN {} ELSE base[c].items,
                                            items[c], remote[providerId[c]].items)
                       /\ items' = [items EXCEPT ![c] = its]
                       /\ rev' = [rev EXCEPT ![c] = n]
                       /\ Publish(c, its, n)
<1> DEFINE r == remote[providerId[c]]
           b == base[c]
           merged == MergedItems(IF b = None THEN {} ELSE b.items, items[c], r.items)
           n == Larger(rev[c], r.rev) + (IF merged = items[c] THEN 0 ELSE 1)
<1>1. ASSUME r # None
      PROVE  merged \in SUBSET Items /\ n \in Nat
  <2>1. r \in Stored
      BY <1>1 DEF MigrationTypeOK
  <2>2. rev[c] \in Nat /\ items[c] \subseteq Items /\ r.rev \in Nat /\ r.items \subseteq Items
      BY <2>1 DEF MigrationTypeOK, Stored
  <2>3. Larger(rev[c], r.rev) \in Nat
      BY <2>2 DEF Larger
  <2>4. merged \in SUBSET Items
      BY <2>2 DEF MergedItems
  <2>5. QED
      BY <2>3, <2>4
<1>2. QED
    BY <1>1 DEF SyncOn

LEMMA StepTyped == TypeInv /\ [MigrationNext]_migration => TypeInv'
<1> SUFFICES ASSUME TypeInv, [MigrationNext]_migration PROVE TypeInv'
    OBVIOUS
<1> USE DEF TypeInv
<1>1. ASSUME NEW c \in Computers, AddOn(c) PROVE TypeInv'
    BY <1>1 DEF AddOn, MigrationTypeOK, JobInHand, Stamped, Flipped
<1>2. ASSUME NEW c \in Computers, SyncOn(c) PROVE TypeInv'
  <2>1. items' \in [Computers -> SUBSET Items] /\ rev' \in [Computers -> Nat]
      BY <1>2, SyncCases DEF MigrationTypeOK
  <2>2. /\ remote' \in [Stores -> Stored \cup {None}]
        /\ base' \in [Computers -> Bases \cup {None}]
      BY <1>2, SyncCases, PublishTyped DEF MigrationTypeOK
  <2>3. UNCHANGED <<key, providerId, job, added, moves>>
      BY <1>2, SyncCases
  <2>4. QED
      BY <2>1, <2>2, <2>3 DEF MigrationTypeOK, JobInHand, Stamped, Flipped
<1>3. ASSUME NEW to \in Stores, NEW replace \in BOOLEAN, NEW clear \in BOOLEAN,
             StartMigration(to, replace, clear)
      PROVE  TypeInv'
  <2>1. job' \in Jobs
      BY <1>3 DEF StartMigration, MigrationTypeOK, Jobs, Steps, Computers
  <2>2. moves' \in 0 .. MaxMoves
      BY <1>3, MigrationConstants DEF StartMigration, MigrationTypeOK
  <2>3. JobInHand'
      BY <1>3 DEF StartMigration, JobInHand, Stamped, Flipped
  <2>4. QED
      BY <1>3, <2>1, <2>2, <2>3 DEF StartMigration, MigrationTypeOK, vault
<1>4. ASSUME Authorizes \/ Peeks \/ VerifiesRev \/ VerifiesItems PROVE TypeInv'
  <2>1. job # None /\ job \in Jobs
      BY <1>4 DEF Authorizes, Peeks, VerifiesRev, VerifiesItems, At, MigrationTypeOK
  <2>2. remote[job.to] \in Stored \cup {None}
      BY <2>1 DEF MigrationTypeOK, Jobs
  <2>3. job' \in Jobs \cup {None}
      BY <1>4, <2>1, <2>2, ZenonT(60)
      DEF Authorizes, Peeks, VerifiesRev, VerifiesItems, Goto, Jobs, Steps
  <2>4. JobInHand'
      BY <1>4, <2>1
      DEF Authorizes, Peeks, VerifiesRev, VerifiesItems, Goto, At, vault, Jobs,
          JobInHand, Stamped, Flipped
  <2>5. QED
      BY <1>4, <2>3, <2>4
      DEF Authorizes, Peeks, VerifiesRev, VerifiesItems, vault, MigrationTypeOK
<1>5. CASE GivesUp \/ UploadIsRefused \/ Die
    BY <1>5 DEF GivesUp, UploadIsRefused, Die, vault, MigrationTypeOK, JobInHand, Stamped, Flipped
<1>6. CASE Pulls
  <2>1. job # None /\ job \in Jobs
      BY <1>6 DEF Pulls, At, MigrationTypeOK
  <2>2. job' \in Jobs \cup {None}
      BY <1>6, <2>1, ZenonT(60) DEF Pulls, Goto, Jobs, Steps
  <2>3. remote' \in [Stores -> Stored \cup {None}]
      BY <1>6 DEF Pulls, MigrationTypeOK
  <2>4. JobInHand'
      BY <1>6, <2>1 DEF Pulls, Goto, At, vault, Jobs, JobInHand, Stamped, Flipped
  <2>5. QED
      BY <1>6, <2>2, <2>3, <2>4 DEF Pulls, vault, MigrationTypeOK
<1>7. CASE Uploads \/ UploadIsLost
  <2> DEFINE v == [rev |-> rev[This], items |-> job.items, key |-> key[This]]
  <2>1. job # None /\ job \in Jobs
      BY <1>7 DEF Uploads, UploadIsLost, At, MigrationTypeOK
  <2>2. v \in Stored
      BY <2>1 DEF MigrationTypeOK, Jobs, Stored, Computers
  <2>3. job' = [job EXCEPT !.pc = "verifyPeek", !.stamp = v]
      BY <1>7 DEF Uploads, UploadIsLost
  <2>4. job' \in Jobs
      BY <2>1, <2>2, <2>3 DEF Jobs, Steps
  <2>5. remote' \in [Stores -> Stored \cup {None}]
      BY <1>7, <2>2 DEF Uploads, UploadIsLost, MigrationTypeOK
  <2>6. JobInHand'
    <3>1. job'.stamp # None /\ job'.stamp.key = key[This]
        BY <2>1, <2>2, <2>3, NoneIsNothing DEF Jobs
    <3>2. job.pc = "push" /\ job'.pc = "verifyPeek" /\ job'.from = job.from /\ job'.to = job.to
        BY <1>7, <2>1, <2>3 DEF Uploads, UploadIsLost, At, Jobs
    <3>3. UNCHANGED <<key, providerId>>
        BY <1>7 DEF Uploads, UploadIsLost, vault
    <3>4. QED
        BY <2>1, <3>1, <3>2, <3>3 DEF JobInHand, Stamped, Flipped
  <2>7. QED
      BY <1>7, <2>4, <2>5, <2>6 DEF Uploads, UploadIsLost, vault, MigrationTypeOK
<1>8. CASE Switches \/ ClearsBase \/ SavesBase \/ Cleans
  <2>1. job # None /\ job \in Jobs
      BY <1>8 DEF Switches, ClearsBase, SavesBase, Cleans, At, MigrationTypeOK
  <2>2. job' \in Jobs \cup {None}
      BY <1>8, <2>1 DEF Switches, ClearsBase, SavesBase, Cleans, Goto, Jobs, Steps
  <2>3. base' \in [Computers -> Bases \cup {None}]
    <3>1. CASE SavesBase
      <4>1. job.stamp \in Stored
          BY <2>1, <3>1 DEF SavesBase, At, JobInHand, Stamped, Jobs
      <4>2. [items |-> BaseItems, rev |-> rev[This], stamp |-> BaseStamp] \in Bases
          BY <2>1, <4>1 DEF BaseItems, BaseStamp, Bases, Jobs, MigrationTypeOK, Computers
      <4>3. QED
          BY <3>1, <4>2 DEF SavesBase, MigrationTypeOK
    <3>2. QED
        BY <1>8, <3>1 DEF Switches, ClearsBase, Cleans, MigrationTypeOK
  <2>4. remote' \in [Stores -> Stored \cup {None}]
      BY <1>8 DEF Switches, ClearsBase, SavesBase, Cleans, MigrationTypeOK
  <2>5. providerId' \in [Computers -> Stores]
      BY <1>8, <2>1 DEF Switches, ClearsBase, SavesBase, Cleans, MigrationTypeOK, Jobs
  <2>6. JobInHand'
      BY <1>8, <2>1
      DEF Switches, ClearsBase, SavesBase, Cleans, Goto, At, vault, Jobs, Computers,
          MigrationTypeOK, JobInHand, Stamped, Flipped
  <2>7. QED
      BY <1>8, <2>2, <2>3, <2>4, <2>5, <2>6
      DEF Switches, ClearsBase, SavesBase, Cleans, vault, MigrationTypeOK
<1>9. CASE UNCHANGED migration
    BY <1>9 DEF migration, MigrationTypeOK, JobInHand, Stamped, Flipped
<1>10. QED
    BY <1>1, <1>2, <1>3, <1>4, <1>5, <1>6, <1>7, <1>8, <1>9 DEF MigrationNext, Migrate

(* Every reachable state of a move between providers is well typed.        *)
THEOREM MigrationTypeCorrect == MigrationSpec => []MigrationTypeOK
<1>1. MigrationSpec => []TypeInv
    BY InitTyped, StepTyped, PTL DEF MigrationSpec
<1>2. TypeInv => MigrationTypeOK
    BY DEF TypeInv
<1>3. QED
    BY <1>1, <1>2, PTL
-----------------------------------------------------------------------------
(* The provider in force                                                   *)

(* The keys of the vaults: a base is what its own computer published, so   *)
(* nobody publishes over a vault that does not open for them; and between  *)
(* the verification and the flip the target stays readable.                *)
KeysHold ==
    /\ \A c \in Computers : base[c] # None => base[c].stamp.key = key[c]
    /\ ProviderHoldsVault
    /\ At("switch") => Readable(This, job.to)

(* A bookmark in a store is never dropped by the computer that only syncs: *)
(* it has what its base has.                                               *)
OtherKeeps ==
    base[Other] # None => /\ base[Other].stamp.items = base[Other].items
                          /\ base[Other].items \subseteq items[Other]

TargetIsComplete ==
    At("switch") => job.items \subseteq remote[job.to].items

MoveInv == TypeInv /\ KeysHold /\ OtherKeeps /\ TargetIsComplete

(* A publish, seen from any computer and any store.                        *)
LEMMA PublishEffect ==
    ASSUME MigrationTypeOK, NEW c \in Computers, NEW its \in SUBSET Items, NEW n \in Nat,
           Publish(c, its, n)
    PROVE  /\ \A s \in Stores \ {providerId[c]} : remote'[s] = remote[s]
           /\ \A d \in Computers \ {c} : base'[d] = base[d]
           /\ remote'[providerId[c]] # None
           /\ remote'[providerId[c]].key = key[c]
           /\ remote'[providerId[c]].items = its
           /\ base'[c].items = its
           /\ base'[c].stamp = remote'[providerId[c]]
<1> DEFINE v == [rev |-> n, items |-> its, key |-> key[c]]
<1>1. v \in Stored
    BY DEF MigrationTypeOK, Stored
<1>2. remote' = [remote EXCEPT ![providerId[c]] = v]
    BY DEF Publish
<1>3. base' = [base EXCEPT ![c] = [items |-> its, rev |-> n, stamp |-> v]]
    BY DEF Publish
<1>4. providerId[c] \in Stores
    BY DEF MigrationTypeOK
<1>5. v # None
    BY <1>1, NoneIsNothing
<1>6. remote'[providerId[c]] = v
    BY <1>2, <1>4 DEF MigrationTypeOK
<1>7. base'[c] = [items |-> its, rev |-> n, stamp |-> v]
    BY <1>3 DEF MigrationTypeOK
<1>8. QED
    BY <1>2, <1>3, <1>5, <1>6, <1>7 DEF MigrationTypeOK

LEMMA InitMoves == MigrationInit => MoveInv
<1> SUFFICES ASSUME MigrationInit PROVE MoveInv
    OBVIOUS
<1>1. PICK p \in [Computers -> Stores], k \in Keys :
        /\ providerId = p
        /\ key = [c \in Computers |-> IF c = This THEN "ours" ELSE k]
        /\ remote = [s \in Stores |->
                        IF s = p[This] THEN Empty("ours")
                        ELSE IF s = p[Other] THEN Empty(k) ELSE None]
        /\ base = [c \in Computers |->
                    [items |-> {}, rev |-> 1, stamp |-> Empty(key[c])]]
    BY DEF MigrationInit
<1>2. TypeInv
    BY InitTyped
<1>3. Empty("ours") # None
    BY NoneIsNothing DEF Empty, Stored, Keys
<1>4. ProviderHoldsVault
    BY <1>1, <1>3 DEF ProviderHoldsVault, Readable, Computers, Empty
<1>5. \A c \in Computers : base[c].stamp.key = key[c]
    BY <1>1 DEF Empty
<1>6. OtherKeeps
    BY <1>1 DEF OtherKeeps, Computers, Empty
<1>7. ~ At("switch")
    BY DEF MigrationInit, At
<1>8. QED
    BY <1>2, <1>4, <1>5, <1>6, <1>7 DEF MoveInv, KeysHold, TargetIsComplete

(* A sync publishes over a store what keeps the store readable for whoever *)
(* could read it, and, if the other computer syncs, what the store had.    *)
LEMMA SyncKeeps ==
    ASSUME MoveInv, NEW c \in Computers, SyncOn(c), NEW s \in Stores, Readable(This, s)
    PROVE  /\ Readable(This, s)'
           /\ s # providerId[c] \/ c = Other => remote[s].items \subseteq remote'[s].items
<1> USE DEF MoveInv, TypeInv
<1>1. key' = key /\ providerId' = providerId
    BY SyncCases
<1>2. remote[s] # None /\ remote[s].key = key[This]
    BY DEF Readable
<1>3. PICK its \in SUBSET Items, n \in Nat :
        /\ Publish(c, its, n)
        /\ s = providerId[c] => remote[s].key = key[c]
        /\ s = providerId[c] /\ c = Other => remote[s].items \subseteq its
  <2>1. items[c] \in SUBSET Items /\ rev[c] \in Nat
      BY DEF MigrationTypeOK
  <2>2. CASE remote[providerId[c]] = None /\ Publish(c, items[c], rev[c])
      BY <1>2, <2>1, <2>2
  <2>3. CASE /\ base[c] # None
             /\ base[c].stamp = remote[providerId[c]]
             /\ Publish(c, items[c], rev[c])
      BY <2>1, <2>3 DEF KeysHold, OtherKeeps
  <2>4. CASE /\ remote[providerId[c]].key = key[c]
             /\ \E its \in SUBSET Items, n \in Nat :
                   /\ its = MergedItems(IF base[c] = None THEN {} ELSE base[c].items,
                                        items[c], remote[providerId[c]].items)
                   /\ Publish(c, its, n)
    <3>1. PICK its \in SUBSET Items, n \in Nat :
            /\ its = MergedItems(IF base[c] = None THEN {} ELSE base[c].items,
                                 items[c], remote[providerId[c]].items)
            /\ Publish(c, its, n)
        BY <2>4
    <3>2. ASSUME c = Other PROVE remote[providerId[c]].items \subseteq its
        BY <3>1, <3>2 DEF MergedItems, OtherKeeps
    <3>3. QED
        BY <2>4, <3>1, <3>2
  <2>5. QED
      BY <2>2, <2>3, <2>4, SyncCases
<1>4. CASE s = providerId[c]
    BY <1>1, <1>2, <1>3, <1>4, PublishEffect DEF Readable
<1>5. CASE s # providerId[c]
  <2>1. remote'[s] = remote[s]
      BY <1>3, <1>5, PublishEffect
  <2>2. QED
      BY <1>1, <1>2, <1>5, <2>1 DEF Readable
<1>6. QED
    BY <1>4, <1>5

(* After a push the pusher's base is its vault, under its key.             *)
LEMMA StampedUnderItsKey ==
    ASSUME KeysHold, NEW c \in Computers, key' = key,
           \A d \in Computers \ {c} : base'[d] = base[d],
           base'[c].stamp.key = key[c]
    PROVE  \A d \in Computers : base'[d] # None => base'[d].stamp.key = key'[d]
    BY DEF KeysHold

LEMMA OtherGoesOn ==
    ASSUME OtherKeeps, Other \in Computers, NEW c \in Computers,
           \A d \in Computers \ {c} : base'[d] = base[d] /\ items'[d] = items[d],
           base'[c].items = items'[c],
           base'[c].stamp.items = items'[c]
    PROVE  OtherKeeps'
<1>1. CASE c = Other
    BY <1>1 DEF OtherKeeps
<1>2. CASE c # Other
    BY <1>2 DEF OtherKeeps
<1>3. QED
    BY <1>1, <1>2

LEMMA SyncMoves ==
    ASSUME MoveInv, NEW c \in Computers, SyncOn(c)
    PROVE  (KeysHold /\ OtherKeeps /\ TargetIsComplete)'
<1> USE DEF MoveInv, TypeInv
<1>1. UNCHANGED <<key, providerId, job>>
    BY SyncCases
<1>2. This \in Computers /\ Other \in Computers /\ This # Other
    BY MigrationConstants DEF Computers
<1>3. PICK its \in SUBSET Items, n \in Nat :
        /\ Publish(c, its, n)
        /\ items'[c] = its
        /\ \A d \in Computers \ {c} : items'[d] = items[d]
  <2>1. items[c] \in SUBSET Items /\ rev[c] \in Nat
      BY DEF MigrationTypeOK
  <2>2. CASE Publish(c, items[c], rev[c]) /\ UNCHANGED <<items, rev>>
      BY <2>1, <2>2
  <2>3. CASE \E its \in SUBSET Items, n \in Nat :
                /\ items' = [items EXCEPT ![c] = its]
                /\ Publish(c, its, n)
      BY <2>3 DEF MigrationTypeOK
  <2>4. QED
      BY <2>2, <2>3, SyncCases
<1>4. /\ \A d \in Computers \ {c} : base'[d] = base[d]
      /\ base'[c].items = items'[c]
      /\ base'[c].stamp.key = key[c]
      /\ base'[c].stamp.items = items'[c]
    BY <1>3, PublishEffect
<1>5. \A d \in Computers : base'[d] # None => base'[d].stamp.key = key'[d]
  <2>1. KeysHold
      OBVIOUS
  <2>2. key' = key
      BY <1>1
  <2>3. QED
      BY <1>4, <2>1, <2>2, StampedUnderItsKey
<1>6. providerId[This] \in Stores
    BY DEF MigrationTypeOK, Computers
<1>7. ProviderHoldsVault'
    BY <1>1, <1>6, SyncKeeps DEF KeysHold, ProviderHoldsVault, Readable
<1>8. ASSUME At("switch")
      PROVE  Readable(This, job.to)' /\ job.items \subseteq remote'[job.to].items
  <2>1. job \in Jobs /\ job.to \in Stores
      BY <1>8 DEF At, MigrationTypeOK, Jobs
  <2>2. Readable(This, job.to)
      BY <1>8 DEF KeysHold
  <2>3. job.to # providerId[This]
      BY <1>8 DEF At, JobInHand, Flipped
  <2>4. job.to # providerId[c] \/ c = Other
      BY <2>3 DEF Computers
  <2>5. Readable(This, job.to)' /\ remote[job.to].items \subseteq remote'[job.to].items
    <3>1. ASSUME NEW s \in Stores, s = job.to
          PROVE  Readable(This, s)' /\ remote[s].items \subseteq remote'[s].items
        BY <2>2, <2>4, <3>1, SyncKeeps
    <3>2. QED
        BY <1>1, <2>1, <3>1 DEF Readable
  <2>6. QED
      BY <1>8, <2>5 DEF TargetIsComplete
<1>9. OtherKeeps'
  <2>1. OtherKeeps
      OBVIOUS
  <2>2. \A d \in Computers \ {c} : base'[d] = base[d] /\ items'[d] = items[d]
      BY <1>3, <1>4
  <2>3. QED
      BY <1>2, <1>4, <2>1, <2>2, OtherGoesOn
<1>10. QED
    BY <1>1, <1>5, <1>7, <1>8, <1>9 DEF KeysHold, TargetIsComplete, At

LEMMA StepMoves == MoveInv /\ [MigrationNext]_migration => MoveInv'
<1> SUFFICES ASSUME MoveInv, [MigrationNext]_migration PROVE MoveInv'
    OBVIOUS
<1> DEFINE Moved == KeysHold /\ OtherKeeps /\ TargetIsComplete
<1>1. TypeInv'
    BY StepTyped DEF MoveInv
<1>2. Moved
    BY DEF MoveInv
<1> SUFFICES Moved'
    BY <1>1 DEF MoveInv
<1>3. This \in Computers /\ Other \in Computers /\ This # Other
    BY MigrationConstants DEF Computers
<1>4. ASSUME NEW c \in Computers, AddOn(c) PROVE Moved'
  <2>1. items[Other] \subseteq items'[Other]
      BY <1>3, <1>4 DEF AddOn, MoveInv, TypeInv, MigrationTypeOK
  <2>2. QED
      BY <1>2, <1>4, <2>1
      DEF AddOn, KeysHold, OtherKeeps, TargetIsComplete, ProviderHoldsVault, Readable, At
<1>5. ASSUME NEW c \in Computers, SyncOn(c) PROVE Moved'
    BY <1>5, SyncMoves DEF MoveInv
<1>6. ASSUME NEW to \in Stores, NEW replace \in BOOLEAN, NEW clear \in BOOLEAN,
             StartMigration(to, replace, clear)
      PROVE  Moved'
    BY <1>2, <1>6
    DEF StartMigration, vault, KeysHold, OtherKeeps, TargetIsComplete, ProviderHoldsVault,
        Readable, At
<1>7. CASE Authorizes \/ Peeks \/ VerifiesRev \/ VerifiesItems
  <2>1. UNCHANGED <<items, key, providerId, base, remote>>
      BY <1>7 DEF Authorizes, Peeks, VerifiesRev, VerifiesItems, vault
  <2>2. job \in Jobs
      BY <1>7 DEF MoveInv, TypeInv, MigrationTypeOK, Authorizes, Peeks, VerifiesRev,
                  VerifiesItems, At
  <2>3. ASSUME At("switch")'
        PROVE  Readable(This, job.to) /\ job.items \subseteq remote[job.to].items
                                     /\ job'.to = job.to /\ job'.items = job.items
    <3>1. VerifiesItems
        BY <1>7, <2>2, <2>3
        DEF Authorizes, Peeks, VerifiesRev, VerifiesItems, Goto, At, Jobs
    <3>2. SameItems(remote[job.to]) /\ job' = [job EXCEPT !.pc = "switch"]
        BY <2>3, <3>1 DEF VerifiesItems, Goto, At
    <3>3. QED
        BY <2>2, <3>2 DEF SameItems, Readable, Jobs
  <2>4. TargetIsComplete'
      BY <2>1, <2>3 DEF TargetIsComplete
  <2>5. (At("switch") => Readable(This, job.to))'
      BY <2>1, <2>3 DEF Readable
  <2>6. ProviderHoldsVault'
      BY <1>2, <2>1 DEF KeysHold, ProviderHoldsVault, Readable
  <2>7. KeysHold'
      BY <1>2, <2>1, <2>5, <2>6 DEF KeysHold
  <2>8. QED
      BY <1>2, <2>1, <2>4, <2>7 DEF OtherKeeps
<1>8. CASE GivesUp \/ UploadIsRefused \/ Die
    BY <1>2, <1>8
    DEF GivesUp, UploadIsRefused, Die, vault, KeysHold, OtherKeeps, TargetIsComplete,
        ProviderHoldsVault, Readable, At
<1>9. CASE Pulls \/ Uploads \/ UploadIsLost
  <2>1. job # None /\ job \in Jobs /\ ~ Flipped
      BY <1>9 DEF Pulls, Uploads, UploadIsLost, At, Flipped, MoveInv, TypeInv, MigrationTypeOK
  <2>2. job.to # providerId[This]
      BY <2>1 DEF MoveInv, TypeInv, JobInHand
  <2>3. remote'[providerId[This]] = remote[providerId[This]]
      BY <1>3, <1>9, <2>2
      DEF Pulls, Uploads, UploadIsLost, MoveInv, TypeInv, MigrationTypeOK
  <2>4. ~ At("switch")'
    <3>1. CASE Pulls
      <4>1. \/ job' = [job EXCEPT !.pc = "push"]
            \/ job' = None
            \/ job' = [job EXCEPT !.pc = "push", !.expect = None]
          BY <3>1 DEF Pulls, Goto
      <4>2. job' = None \/ job'.pc = "push"
          BY <2>1, <4>1 DEF Jobs
      <4>3. QED
          BY <4>2 DEF At
    <3>2. CASE Uploads \/ UploadIsLost
        BY <2>1, <3>2 DEF Uploads, UploadIsLost, At, Jobs
    <3>3. QED
        BY <1>9, <3>1, <3>2
  <2>5. UNCHANGED <<items, key, providerId, base>>
      BY <1>9 DEF Pulls, Uploads, UploadIsLost, vault
  <2>6. QED
      BY <1>2, <2>3, <2>4, <2>5
      DEF KeysHold, OtherKeeps, TargetIsComplete, ProviderHoldsVault, Readable
<1>10. CASE Switches
  <2>1. job \in Jobs
      BY <1>10 DEF Switches, At, MoveInv, TypeInv, MigrationTypeOK
  <2>2. Readable(This, job.to)
      BY <1>2, <1>10 DEF Switches, KeysHold
  <2>3. providerId'[This] = job.to
      BY <1>3, <1>10 DEF Switches, MoveInv, TypeInv, MigrationTypeOK
  <2>4. ~ At("switch")'
      BY <1>10, <2>1 DEF Switches, Goto, At, Jobs
  <2>5. UNCHANGED <<items, key, base, remote>>
      BY <1>10 DEF Switches, vault
  <2>6. QED
      BY <1>2, <2>2, <2>3, <2>4, <2>5
      DEF KeysHold, OtherKeeps, TargetIsComplete, ProviderHoldsVault, Readable
<1>11. CASE ClearsBase \/ SavesBase
  <2>1. job # None /\ job \in Jobs
      BY <1>11 DEF ClearsBase, SavesBase, At, MoveInv, TypeInv, MigrationTypeOK
  <2>2. base'[Other] = base[Other]
      BY <1>3, <1>11 DEF ClearsBase, SavesBase, MoveInv, TypeInv, MigrationTypeOK
  <2>3. base'[This] # None => base'[This].stamp.key = key[This]
    <3>1. CASE ClearsBase
        BY <1>3, <3>1 DEF ClearsBase, MoveInv, TypeInv, MigrationTypeOK
    <3>2. CASE SavesBase
      <4>1. base'[This].stamp = job.stamp
          BY <1>3, <3>2 DEF SavesBase, BaseStamp, MoveInv, TypeInv, MigrationTypeOK
      <4>2. QED
          BY <2>1, <3>2, <4>1 DEF SavesBase, At, Stamped, JobInHand, MoveInv, TypeInv
    <3>3. QED
        BY <1>11, <3>1, <3>2
  <2>4. ~ At("switch")'
      BY <1>11, <2>1 DEF ClearsBase, SavesBase, Goto, At, Jobs
  <2>5. UNCHANGED <<items, key, providerId, remote>>
      BY <1>11 DEF ClearsBase, SavesBase, vault
  <2>6. QED
      BY <1>2, <2>2, <2>3, <2>4, <2>5
      DEF KeysHold, OtherKeeps, TargetIsComplete, ProviderHoldsVault, Readable, Computers
<1>12. CASE Cleans
  <2>1. job.from # providerId[This]
      BY <1>12 DEF Cleans, At, Flipped, JobInHand, MoveInv, TypeInv
  <2>2. remote'[providerId[This]] = remote[providerId[This]]
      BY <1>3, <1>12, <2>1 DEF Cleans, CleansStore, MoveInv, TypeInv, MigrationTypeOK
  <2>3. ~ At("switch")' /\ UNCHANGED <<items, key, providerId, base>>
      BY <1>12 DEF Cleans, At, vault
  <2>4. QED
      BY <1>2, <2>2, <2>3
      DEF KeysHold, OtherKeeps, TargetIsComplete, ProviderHoldsVault, Readable
<1>13. CASE UNCHANGED migration
    BY <1>2, <1>13
    DEF migration, KeysHold, OtherKeeps, TargetIsComplete, ProviderHoldsVault, Readable, At
<1>14. QED
    BY <1>4, <1>5, <1>6, <1>7, <1>8, <1>9, <1>10, <1>11, <1>12, <1>13
    DEF MigrationNext, Migrate

LEMMA MovesHold == MigrationSpec => []MoveInv
BY InitMoves, StepMoves, PTL DEF MigrationSpec

(* Wherever a migration fails, and whatever the other computer and the     *)
(* user do meanwhile, the store this computer syncs through holds a vault  *)
(* it can open (migrateProvider: the source is cleared after the flip, and *)
(* the flip follows the verification).                                     *)
THEOREM ProviderAlwaysHoldsVault == MigrationSpec => []ProviderHoldsVault
<1>1. MoveInv => ProviderHoldsVault
    BY DEF MoveInv, KeysHold
<1>2. QED
    BY MovesHold, <1>1, PTL

(* migrateProvider flips only to a store that opens and still holds every  *)
(* bookmark the migration took, although the other computer may have       *)
(* pushed to it since verify() looked.                                     *)
THEOREM FlipIsToTheWholeVault == MigrationSpec => FlipIsComplete
<1> DEFINE Flip == providerId'[This] # providerId[This] =>
                     /\ Readable(This, providerId'[This])
                     /\ job.items \subseteq remote[providerId'[This]].items
<1>1. ASSUME MoveInv, [MigrationNext]_migration PROVE [Flip]_migration
  <2>1. SUFFICES ASSUME providerId' # providerId PROVE Flip
      BY <2>1
  <2>2. Switches
    <3>1. \A c \in Computers : ~ SyncOn(c)
        BY <1>1, <2>1, SyncCases DEF MoveInv, TypeInv
    <3>2. QED
        BY <1>1, <2>1, <3>1
        DEF MigrationNext, Migrate, migration, AddOn, StartMigration, Authorizes, GivesUp,
            Peeks, Pulls, Uploads, UploadIsLost, UploadIsRefused, VerifiesRev,
            VerifiesItems, ClearsBase, SavesBase, Cleans, Die
  <2>3. providerId'[This] = job.to
      BY <1>1, <2>2 DEF Switches, MoveInv, TypeInv, MigrationTypeOK, Computers
  <2>4. QED
      BY <1>1, <2>2, <2>3 DEF Switches, MoveInv, KeysHold, TargetIsComplete
<1>2. MigrationSpec => [][Flip]_migration
    BY <1>1, MovesHold, PTL DEF MigrationSpec
<1>3. QED
    BY <1>2 DEF FlipIsComplete

(***************************** Drive *************************************)

-----------------------------------------------------------------------------
(* Who is asked to sign in again                                           *)

Fields == {"call", "req", "file", "etag", "expect", "vault", "attempt", "refreshed"}

(* The shape of the calls in progress; a file or a vault may be anything.  *)
Shape ==
    /\ op = [d \in Devices |-> op[d]]
    /\ \A d \in Devices : op[d] # Null => DOMAIN op[d] = Fields /\ op[d].req \in Requests
    /\ token = [d \in Devices |-> token[d]]
    /\ result = [d \in Devices |-> result[d]]
    /\ refresh \in [Devices -> BOOLEAN]
    /\ granted \in [Devices -> BOOLEAN]
    /\ unlocked \in [Devices -> BOOLEAN]

(* A device that is not excused has its grant, its refresh token and, in a *)
(* call, an open vault; and a token it has just refreshed is good.         *)
ReasonOf(d) ==
    /\ ~refresh[d] \/ ~granted[d] => d \in excused
    /\ op[d] # Null /\ ~unlocked[d] => d \in excused
    /\ op[d] # Null /\ op[d].refreshed = TRUE /\ token[d] = "stale" => d \in excused
    /\ op[d] # Null => result[d] = "none"

AuthInv == Shape /\ \A d \in Devices : ReasonOf(d)

LEMMA NullIsNoToken == Null # "good" /\ Null # "stale"
BY DriveConstants

LEMMA InitAuth == DriveInit => AuthInv
BY DEF DriveInit, AuthInv, Shape, ReasonOf

(* A step of d leaves every other device's call and access alone.          *)
Alone(d) ==
    /\ Shape'
    /\ \A e \in Devices \ {d} :
          /\ UNCHANGED <<op[e], token[e], result[e], refresh[e], granted[e], unlocked[e]>>
          /\ e \in excused => e \in excused'

LEMMA AloneKeeps ==
    ASSUME AuthInv, NEW d \in Devices, Alone(d), ReasonOf(d)'
    PROVE  AuthInv'
BY DEF AuthInv, Alone, ReasonOf

LEMMA EndAlone ==
    ASSUME Shape, NEW d \in Devices, NEW how, End(d, how)
    PROVE  /\ op'[d] = Null /\ result'[d] = how
           /\ \A e \in Devices \ {d} : op'[e] = op[e] /\ result'[e] = result[e]
           /\ op' = [e \in Devices |-> op'[e]]
           /\ result' = [e \in Devices |-> result'[e]]
           /\ \A e \in Devices : op'[e] # Null => DOMAIN op'[e] = Fields /\ op'[e].req \in Requests
BY DEF Shape, End

LEMMA SendAlone ==
    ASSUME Shape, NEW d \in Devices, op[d] # Null, NEW req \in Requests, NEW f, NEW etag,
           Send(d, req, f, etag)
    PROVE  /\ op'[d].refreshed = FALSE /\ DOMAIN op'[d] = Fields
           /\ \A e \in Devices \ {d} : op'[e] = op[e]
           /\ op' = [e \in Devices |-> op'[e]]
           /\ result' = result
           /\ \A e \in Devices : op'[e] # Null => DOMAIN op'[e] = Fields /\ op'[e].req \in Requests
BY DEF Shape, Send, Fields

(* A call that begins carries no refreshed token.                          *)
LEMMA BeginAuth ==
    ASSUME AuthInv, NEW d \in Devices, NEW call, NEW carried, Begin(d, call, carried),
           UNCHANGED access
    PROVE  AuthInv'
<1>1. /\ op[d] = Null /\ unlocked[d]
      /\ result' = [result EXCEPT ![d] = "none"]
      /\ UNCHANGED <<granted, refresh, token, unlocked, excused>>
    BY DEF Begin, access
<1> DEFINE b == [call |-> call, req |-> FirstRequest(d, call), file |-> fileId[d],
                 etag |-> Null, expect |-> known[d], vault |-> carried, attempt |-> 1,
                 refreshed |-> FALSE]
<1>2. op' = [op EXCEPT ![d] = b]
    BY DEF Begin
<1>3. DOMAIN b = Fields /\ b.refreshed = FALSE /\ b.req \in Requests
    BY DEF Fields, FirstRequest, Requests
<1> HIDE DEF b
<1>4. Alone(d)
    BY <1>1, <1>2, <1>3 DEF AuthInv, Shape, Alone
<1>5. ReasonOf(d)'
    BY <1>1, <1>2, <1>3 DEF AuthInv, Shape, ReasonOf
<1>6. QED
    BY <1>4, <1>5, AloneKeeps

(* Drive's answer ends a call well or for a reason of Drive's, or sends    *)
(* another request, with a token that was not refreshed for it.            *)
LEMMA AnswerAuth ==
    ASSUME AuthInv, NEW d \in Devices, op[d] # Null, Answer(d)
    PROVE  \/ \E how \in {"ok", "precondition", "gone"} : End(d, how)
           \/ \E f, etag : \E req \in Requests : Send(d, req, f, etag)
<1>1. ASSUME NEW f, NEW etag, Located(d, f, etag)
      PROVE  \/ \E how \in {"ok", "precondition"} : End(d, how)
             \/ \E g, t : \E req \in Requests : Send(d, req, g, t)
  <2>1. CASE op[d].call = "pull" /\ f # Null
      BY <1>1, <2>1 DEF Located, Requests
  <2>2. CASE ~ (op[d].call = "pull" /\ f # Null) /\ op[d].call = "push" /\ VaultIn(f) = op[d].expect
    <3>1. Send(d, IF f = Null THEN "create" ELSE "update", f, etag)
        BY <1>1, <2>2 DEF Located
    <3>2. QED
        BY <3>1 DEF Requests
  <2>3. CASE ~ (op[d].call = "pull" /\ f # Null) /\ ~ (op[d].call = "push" /\ VaultIn(f) = op[d].expect)
    <3>1. End(d, IF op[d].call = "push" THEN "precondition" ELSE "ok")
        BY <1>1, <2>3 DEF Located
    <3>2. QED
        BY <3>1
  <2>4. QED
      BY <2>1, <2>2, <2>3
<1>2. CASE op[d].req = "metadata"
    BY <1>1, <1>2 DEF Answer, GotMetadata, Requests
<1>3. CASE op[d].req = "search"
    BY <1>1, <1>3 DEF Answer, GotList
<1>4. CASE op[d].req \in {"download", "create", "remove"}
    BY <1>4 DEF Answer, GotBytes, GotCreated, GotRemoved
<1>5. CASE op[d].req = "update"
    BY <1>5 DEF Answer, GotUpdated
<1>6. QED
    BY <1>2, <1>3, <1>4, <1>5 DEF Requests, AuthInv, Shape

LEMMA ServedAuth ==
    ASSUME AuthInv, NEW d \in Devices, Served(d)
    PROVE  AuthInv'
<1>1. op[d] # Null /\ Answer(d) /\ UNCHANGED <<granted, refresh, token, unlocked, excused>>
    BY DEF Served, Sending, access
<1>2. ASSUME NEW how, End(d, how) PROVE AuthInv'
  <2>1. Alone(d)
      BY <1>1, <1>2, EndAlone DEF AuthInv, Alone, Shape
  <2>2. ReasonOf(d)'
      BY <1>1, <1>2, EndAlone DEF AuthInv, ReasonOf
  <2>3. QED
      BY <2>1, <2>2, AloneKeeps
<1>3. ASSUME NEW req \in Requests, NEW f, NEW etag, Send(d, req, f, etag) PROVE AuthInv'
  <2>1. Alone(d)
      BY <1>1, <1>3, SendAlone DEF AuthInv, Alone, Shape
  <2>2. ReasonOf(d)'
      BY <1>1, <1>3, SendAlone DEF AuthInv, ReasonOf
  <2>3. QED
      BY <2>1, <2>2, AloneKeeps
<1>4. QED
    BY <1>1, <1>2, <1>3, AnswerAuth

LEMMA AcquireAuth ==
    ASSUME AuthInv, NEW d \in Devices, Acquire(d)
    PROVE  AuthInv'
<1>1. op[d] # Null /\ UNCHANGED <<granted, unlocked, excused>>
    BY DEF Acquire
<1>2. CASE /\ \E how : End(d, how)
           /\ token' = token
           /\ refresh' = refresh \/ (~granted[d] /\ refresh' = [refresh EXCEPT ![d] = FALSE])
  <2>1. PICK how : End(d, how)
      BY <1>2
  <2>2. Alone(d)
      BY <1>1, <1>2, <2>1, EndAlone DEF AuthInv, Alone, Shape
  <2>3. ReasonOf(d)'
      BY <1>1, <1>2, <2>1, EndAlone DEF AuthInv, ReasonOf
  <2>4. QED
      BY <2>2, <2>3, AloneKeeps
<1>3. CASE /\ token' = [token EXCEPT ![d] = "good"]
           /\ UNCHANGED <<refresh, op, result>>
  <2>1. Alone(d)
      BY <1>1, <1>3 DEF AuthInv, Alone, Shape
  <2>2. ReasonOf(d)'
      BY <1>1, <1>3 DEF AuthInv, ReasonOf, Shape
  <2>3. QED
      BY <2>1, <2>2, AloneKeeps
<1>4. QED
    BY <1>2, <1>3 DEF Acquire, RefreshFails

LEMMA RejectedAuth ==
    ASSUME AuthInv, NEW d \in Devices, Rejected(d)
    PROVE  AuthInv'
<1>1. op[d] # Null /\ UNCHANGED <<granted, refresh, unlocked, excused>>
    BY DEF Rejected, Sending
<1>2. CASE op[d].refreshed
  <2> End(d, "auth") /\ UNCHANGED token
      BY <1>2 DEF Rejected
  <2>1. Alone(d)
      BY <1>1, <1>2, EndAlone DEF AuthInv, Alone, Shape
  <2>2. ReasonOf(d)'
      BY <1>1, <1>2, EndAlone DEF AuthInv, ReasonOf
  <2>3. QED
      BY <2>1, <2>2, AloneKeeps
<1>3. CASE ~ op[d].refreshed
  <2>1. /\ token' = [token EXCEPT ![d] = Null]
        /\ op' = [op EXCEPT ![d].refreshed = TRUE,
                            ![d].attempt = IF @ < MaxAttempts THEN @ + 1 ELSE @]
        /\ UNCHANGED result
      BY <1>3 DEF Rejected
  <2>2. Alone(d)
      BY <1>1, <2>1 DEF AuthInv, Alone, Shape, Fields
  <2>3. token'[d] = Null /\ Null # "stale"
      BY <2>1, NullIsNoToken DEF AuthInv, Shape
  <2>4. ReasonOf(d)'
      BY <1>1, <2>1, <2>3 DEF AuthInv, ReasonOf, Shape
  <2>5. QED
      BY <2>2, <2>4, AloneKeeps
<1>4. QED
    BY <1>2, <1>3

LEMMA FaultAuth ==
    ASSUME AuthInv, NEW d \in Devices, RequestLost(d) \/ AnswerLost(d)
    PROVE  AuthInv'
<1>1. /\ op[d] # Null /\ UNCHANGED <<granted, refresh, token, unlocked, excused>>
      /\ Retry(d) \/ End(d, "offline")
    BY DEF RequestLost, AnswerLost, GoesAstray, Sending, access
<1>2. ASSUME NEW how, End(d, how) PROVE AuthInv'
  <2>1. Alone(d)
      BY <1>1, <1>2, EndAlone DEF AuthInv, Alone, Shape
  <2>2. ReasonOf(d)'
      BY <1>1, <1>2, EndAlone DEF AuthInv, ReasonOf
  <2>3. QED
      BY <2>1, <2>2, AloneKeeps
<1>3. CASE op' = [op EXCEPT ![d].attempt = @ + 1] /\ UNCHANGED result
  <2>1. Alone(d)
      BY <1>1, <1>3 DEF AuthInv, Alone, Shape, Fields
  <2>2. ReasonOf(d)'
      BY <1>1, <1>3 DEF AuthInv, ReasonOf, Shape, Fields
  <2>3. QED
      BY <2>1, <2>2, AloneKeeps
<1>4. QED
    BY <1>1, <1>2, <1>3 DEF Retry

(* The connection and the session, from outside the calls.                 *)
LEMMA AccessAuth ==
    ASSUME AuthInv, NEW d \in Devices,
           \/ Connect(d) \/ Disconnect(d) \/ TokenExpires(d) \/ Withdraw(d)
           \/ Lock(d) \/ Unlock(d)
    PROVE  AuthInv'
<1>1. UNCHANGED <<op, result>>
    BY DEF Connect, Disconnect, TokenExpires, Withdraw, Lock, Unlock
<1>2. Alone(d)
    BY <1>1
    DEF AuthInv, Shape, Alone, Connect, Disconnect, TokenExpires, Withdraw, Lock, Unlock
<1>3. ReasonOf(d)'
  <2>1. CASE Connect(d) \/ Disconnect(d)
      BY <1>1, <2>1 DEF AuthInv, Shape, ReasonOf, Connect, Disconnect
  <2>2. CASE TokenExpires(d) \/ Withdraw(d)
      BY <1>1, <2>2 DEF AuthInv, Shape, ReasonOf, TokenExpires, Withdraw, Trouble
  <2>3. CASE Lock(d) \/ Unlock(d)
      BY <1>1, <2>3, NullIsNoToken DEF AuthInv, Shape, ReasonOf, Lock, Unlock
  <2>4. QED
      BY <2>1, <2>2, <2>3
<1>4. QED
    BY <1>2, <1>3, AloneKeeps

LEMMA StepAuth == AuthInv /\ [DriveNext]_drives => AuthInv'
<1> SUFFICES ASSUME AuthInv, [DriveNext]_drives PROVE AuthInv'
    OBVIOUS
<1>1. ASSUME NEW d \in Devices, Peek(d) \/ PullLight(d) \/ PushLight(d) \/ DeleteRemote(d)
      PROVE  AuthInv'
    BY <1>1, BeginAuth DEF Peek, PullLight, PushLight, DeleteRemote
<1>2. ASSUME NEW d \in Devices, Program(d) \/ RequestLost(d) \/ AnswerLost(d)
      PROVE  AuthInv'
    BY <1>2, ServedAuth, AcquireAuth, RejectedAuth, FaultAuth DEF Program
<1>3. ASSUME NEW d \in Devices,
             \/ Connect(d) \/ Disconnect(d) \/ TokenExpires(d) \/ Withdraw(d)
             \/ Lock(d) \/ Unlock(d)
      PROVE  AuthInv'
    BY <1>3, AccessAuth
<1>4. CASE UNCHANGED drives
    BY <1>4 DEF drives, AuthInv, Shape, ReasonOf
<1>5. QED
    BY <1>1, <1>2, <1>3, <1>4 DEF DriveNext

(* The user is asked to sign in again only where access was taken away: no *)
(* expired token, lost answer or lost network, in any order, makes a call  *)
(* end for want of authorization (DriveAuth in auth.ts, #request in        *)
(* api.ts).                                                                *)
THEOREM AuthAlwaysHasAReason == DriveSpec => AuthNeedsAReason
<1> DEFINE Ok == \A d \in Devices :
                   op[d] # Null /\ op'[d] = Null /\ result'[d] = "auth" => d \in excused
<1>1. ASSUME AuthInv, [DriveNext]_drives PROVE [Ok]_drives
  <2>1. SUFFICES ASSUME DriveNext, NEW d \in Devices,
                        op[d] # Null, op'[d] = Null, result'[d] = "auth"
                 PROVE  d \in excused
      BY <1>1
  <2>2. result[d] = "none" /\ Shape /\ ReasonOf(d)
      BY <1>1, <2>1 DEF AuthInv, ReasonOf
  <2>3. PICK e \in Devices :
          \/ Peek(e) \/ PullLight(e) \/ PushLight(e) \/ DeleteRemote(e)
          \/ Program(e) \/ RequestLost(e) \/ AnswerLost(e)
          \/ Connect(e) \/ Disconnect(e)
          \/ TokenExpires(e) \/ Withdraw(e) \/ Lock(e) \/ Unlock(e)
      BY <2>1 DEF DriveNext
  <2>4. CASE Rejected(e) \/ Acquire(e)
    <3>1. e = d
      <4>1. CASE \E how : End(e, how)
          BY <2>1, <2>2, <4>1, EndAlone
      <4>2. CASE result' = result
          BY <2>1, <2>2, <4>2
      <4>3. QED
          BY <2>4, <4>1, <4>2 DEF Rejected, Acquire, RefreshFails
    <3>2. CASE Rejected(e) /\ op[d].refreshed
      <4>1. op[d].refreshed = TRUE \/ End(d, "auth")
          BY <2>1, <2>2, <3>1, <3>2 DEF Rejected
      <4>2. token[d] = "stale"
          BY <3>1, <3>2 DEF Rejected
      <4>3. QED
          BY <2>1, <2>2, <3>1, <3>2, <4>1, <4>2 DEF ReasonOf
    <3>3. CASE Acquire(e)
      <4>1. ~unlocked[d] \/ ~refresh[d] \/ ~granted[d] \/ End(d, "offline") \/ result' = result
          BY <3>1, <3>3 DEF Acquire, RefreshFails
      <4>2. QED
          BY <2>1, <2>2, <4>1, EndAlone DEF ReasonOf
    <3>4. QED
        BY <2>1, <2>2, <2>4, <3>1, <3>2, <3>3 DEF Rejected
  <2>5. CASE Served(e)
    <3>1. op[e] # Null /\ Answer(e)
        BY <2>5 DEF Served, Sending
    <3>2. CASE result' = result
        BY <2>1, <2>2, <3>2
    <3>3. CASE \E how \in {"ok", "precondition", "gone"} : End(e, how)
        BY <2>1, <2>2, <3>3, EndAlone
    <3>4. QED
        BY <1>1, <3>1, <3>2, <3>3, AnswerAuth DEF Send
  <2>6. CASE RequestLost(e) \/ AnswerLost(e)
    <3>1. CASE \E how \in {"rate", "offline"} : End(e, how)
        BY <2>1, <2>2, <3>1, EndAlone
    <3>2. QED
        BY <2>1, <2>2, <2>6, <3>1 DEF RequestLost, AnswerLost, GoesAstray, Retry
  <2>7. CASE Peek(e) \/ PullLight(e) \/ PushLight(e) \/ DeleteRemote(e)
    <3>1. result' = [result EXCEPT ![e] = "none"]
        BY <2>7 DEF Peek, PullLight, PushLight, DeleteRemote, Begin
    <3>2. QED
        BY <2>1, <2>2, <3>1 DEF Shape
  <2>8. CASE \/ Connect(e) \/ Disconnect(e)
             \/ TokenExpires(e) \/ Withdraw(e) \/ Lock(e) \/ Unlock(e)
      BY <2>1, <2>2, <2>8 DEF Connect, Disconnect, TokenExpires, Withdraw, Lock, Unlock
  <2>9. QED
      BY <2>3, <2>4, <2>5, <2>6, <2>7, <2>8 DEF Program
<1>2. DriveSpec => []AuthInv
    BY InitAuth, StepAuth, PTL DEF DriveSpec
<1>3. DriveSpec => [][Ok]_drives
    BY <1>1, <1>2, PTL DEF DriveSpec
<1>4. QED
    BY <1>3 DEF AuthNeedsAReason

-----------------------------------------------------------------------------
(* One place for a vault                                                   *)

(* The vaults that were ever in the place; a push brings another one.      *)
Used == written \cup {MaxPushes + 1}

(* On Drive: at most one file, since no two creates overlap, and as many   *)
(* files made as there were pushes that created one.                       *)
Place ==
    /\ content \in [Files -> Vaults \cup {Null}]
    /\ made \in Nat
    /\ listed = <<>> \/ \E f \in Files : f <= made /\ listed = <<f>>
    /\ \A f \in Files : content[f] # Null <=> f = Newest
    /\ \A f \in Files : content[f] # Null => content[f] \in Used
    /\ pushes \in 0 .. MaxPushes
    /\ written \subseteq 1 .. pushes
    /\ made <= Cardinality(written) + 1

(* A device: where the vault it knows of is still in the place, it is in   *)
(* the file whose id the device has.                                       *)
Knows(d) ==
    /\ fileId[d] \in Files \cup {Null}
    /\ fileId[d] # Null => fileId[d] <= made
    /\ known[d] \in Used \cup {Null}
    /\ \A g \in Files : content[g] # Null /\ content[g] = known[d] => fileId[d] = g

(* A call in progress.  An update carries the ETag of what the push        *)
(* expects, and one that has taken effect meets that vault nowhere.        *)
Calling(d) ==
    op[d] # Null =>
        /\ op[d] \in Ops
        /\ op[d].call = "push" <=> op[d].vault # Null
        /\ op[d].vault \in (1 .. pushes) \cup {Null}
        /\ op[d].expect = known[d]
        /\ op[d].req \in {"metadata", "download", "update"} =>
              op[d].file = fileId[d] /\ fileId[d] # Null
        /\ op[d].req = "search" => fileId[d] = Null
        /\ op[d].req \in {"update", "create"} => op[d].call = "push"
        /\ op[d].req = "remove" <=> op[d].call = "deleteRemote"
        /\ op[d].req = "download" => op[d].call = "pull"
        /\ op[d].call = "push" /\ op[d].req # "update" => op[d].vault \notin written
        /\ op[d].req = "update" => op[d].etag = op[d].expect /\ op[d].etag # Null
        /\ op[d].req = "update" /\ op[d].vault \in written =>
              \A g \in Files : content[g] # op[d].expect
        /\ op[d].req = "create" => listed = <<>> /\ op[d].expect = Null

(* Two calls in progress.                                                  *)
Differ(d, e) ==
    op[d] # Null /\ op[e] # Null =>
        /\ op[d].vault # Null => op[d].vault # op[e].vault
        /\ ~ (op[d].req = "create" /\ op[e].req = "create")

Functional ==
    /\ op = [d \in Devices |-> op[d]]
    /\ fileId = [d \in Devices |-> fileId[d]]
    /\ known = [d \in Devices |-> known[d]]

CellInv ==
    /\ Functional
    /\ Place
    /\ \A d \in Devices : Knows(d) /\ Calling(d)
    /\ \A d, e \in Devices : d # e => Differ(d, e)

(* Numbers                                                                 *)
LEMMA Numbers ==
    /\ MaxPushes \in Nat /\ MaxAttempts \in Nat \ {0}
    /\ MaxPushes + 1 <= MaxPushes * MaxAttempts + 1
    /\ 1 .. MaxPushes + 1 \subseteq Files
    /\ Files \subseteq Nat \ {0} /\ Vaults \subseteq Nat \ {0}
    /\ Null \notin Files /\ Null \notin Vaults /\ Null \notin Nat
<1>1. MaxPushes \in Nat /\ MaxAttempts \in Nat \ {0} /\ Null \notin Nat
    BY DriveConstants
<1>2. MaxPushes <= MaxPushes * MaxAttempts /\ MaxPushes * MaxAttempts \in Nat
    BY <1>1
<1>3. QED
    BY <1>1, <1>2 DEF Files, Vaults

LEMMA InitCell == DriveInit => CellInv /\ Cell!Init
<1> SUFFICES ASSUME DriveInit PROVE CellInv /\ Cell!Init
    OBVIOUS
<1>1. Cardinality({}) = 0
    BY FS_EmptySet
<1>2. CASE /\ content = [f \in Files |-> IF f = 1 THEN MaxPushes + 1 ELSE Null]
           /\ listed = <<1>> /\ made = 1
           /\ known = [d \in Devices |-> MaxPushes + 1]
           /\ fileId = [d \in Devices |-> 1]
  <2>1. Newest = 1 /\ 1 \in Files /\ MaxPushes + 1 \in Vaults
      BY <1>2, Numbers DEF Newest, Vaults
  <2>2. Place
      BY <1>1, <1>2, <2>1, Numbers DEF Place, DriveInit, Used
  <2>3. CellInv
      BY <1>2, <2>1, <2>2, Numbers DEF CellInv, Functional, Knows, Calling, Differ, DriveInit, Used
  <2>4. VaultIn(Newest) \in Vaults
      BY <1>2, <2>1, Numbers DEF VaultIn
  <2>5. QED
      BY <2>3, <2>4 DEF Cell!Init, DriveInit, Pushing
<1>3. CASE /\ content = [f \in Files |-> Null]
           /\ listed = <<>> /\ made = 0
           /\ known = [d \in Devices |-> Null]
           /\ fileId = [d \in Devices |-> Null]
  <2>1. Newest = Null
      BY <1>3 DEF Newest
  <2>2. Place
      BY <1>1, <1>3, <2>1, Numbers DEF Place, DriveInit, Used
  <2>3. CellInv
      BY <1>3, <2>1, <2>2, Numbers DEF CellInv, Functional, Knows, Calling, Differ, DriveInit, Used
  <2>4. VaultIn(Newest) = Null
      BY <2>1 DEF VaultIn
  <2>5. QED
      BY <2>3, <2>4 DEF Cell!Init, DriveInit, Pushing
<1>4. QED
    BY <1>2, <1>3 DEF DriveInit

(* What a request does to the place.                                       *)
Kept == UNCHANGED <<content, listed, made, written>>

Written(d, f) ==
    /\ f \in Files
    /\ op[d].call = "push" /\ op[d].vault \in 1 .. pushes /\ op[d].vault \notin written
    /\ VaultIn(Newest) = op[d].expect
    /\ content' = [content EXCEPT ![f] = op[d].vault]
    /\ listed' = <<f>>
    /\ written' = written \cup {op[d].vault}
    /\ \/ made' = made /\ f = Newest
       \/ made' = made + 1 /\ f = made + 1 /\ listed = <<>>

Emptied ==
    /\ content' = [f \in Files |-> Null]
    /\ listed' = <<>>
    /\ UNCHANGED <<made, written>>

LEMMA NewestFacts ==
    ASSUME Place
    PROVE  /\ Newest \in Files \cup {Null}
           /\ Newest = Null <=> listed = <<>>
           /\ Newest # Null => listed = <<Newest>> /\ Newest <= made
           /\ VaultIn(Newest) = Null <=> Newest = Null
           /\ Newest # Null => VaultIn(Newest) = content[Newest]
BY Numbers DEF Place, Newest, VaultIn

LEMMA WrittenCount ==
    ASSUME Place
    PROVE  IsFiniteSet(written) /\ Cardinality(written) \in Nat
<1>1. pushes \in Nat
    BY DEF Place
<1>2. IsFiniteSet(1 .. pushes)
    BY <1>1, FS_Interval
<1>3. IsFiniteSet(written)
    BY <1>2, FS_Subset DEF Place
<1>4. QED
    BY <1>3, FS_CardinalityType

(* There is room for the file of one more vault.                           *)
LEMMA RoomForOne ==
    ASSUME Place, NEW v \in 1 .. pushes, v \notin written
    PROVE  /\ made + 1 \in Files
           /\ made + 1 <= Cardinality(written \cup {v}) + 1
           /\ Cardinality(written \cup {v}) = Cardinality(written) + 1
<1>1. pushes \in Nat /\ pushes <= MaxPushes /\ written \subseteq 1 .. pushes /\ made \in Nat
    BY Numbers DEF Place
<1>2. IsFiniteSet(1 .. pushes) /\ Cardinality(1 .. pushes) = pushes
    BY <1>1, FS_Interval
<1>3. IsFiniteSet(written)
    BY <1>1, <1>2, FS_Subset
<1>4. IsFiniteSet(written \cup {v}) /\ Cardinality(written \cup {v}) = Cardinality(written) + 1
    BY <1>3, FS_AddElement
<1>5. Cardinality(written \cup {v}) <= pushes
    BY <1>1, <1>2, FS_Subset
<1>6. Cardinality(written) \in Nat
    BY <1>3, FS_CardinalityType
<1>7. made + 1 <= Cardinality(written) + 2
    BY <1>1, <1>6 DEF Place
<1>8. made + 1 <= MaxPushes + 1
    BY <1>1, <1>4, <1>5, <1>6, <1>7, Numbers
<1>9. made + 1 \in 1 .. MaxPushes + 1
    BY <1>1, <1>8, Numbers
<1>10. QED
    BY <1>4, <1>6, <1>7, <1>9, Numbers

LEMMA FreshVault ==
    ASSUME Place, NEW v \in 1 .. pushes, v \notin written
    PROVE  v \notin Used /\ v \in Vaults /\ v # Null
<1>1. pushes \in Nat /\ pushes <= MaxPushes /\ MaxPushes \in Nat
    BY Numbers DEF Place
<1>2. v # MaxPushes + 1 /\ v \in 1 .. MaxPushes + 1
    BY <1>1
<1>3. QED
    BY <1>2, Numbers DEF Used, Vaults

LEMMA PlaceChanges ==
    ASSUME CellInv, NEW d \in Devices, op[d] # Null, Act(d), Remembers(d)
    PROVE  /\ op[d].req \notin {"update", "create", "remove"} => Kept
           /\ op[d].req = "update" =>
                 IF content[op[d].file] # Null /\ Meets(d)
                 THEN Written(d, op[d].file) /\ made' = made
                 ELSE Kept
           /\ op[d].req = "create" => Written(d, made + 1) /\ made' = made + 1
           /\ op[d].req = "remove" => Emptied
<1>1. Place /\ Calling(d) /\ Knows(d)
    BY DEF CellInv
<1> DEFINE v == op[d].vault
<1>2. CASE op[d].req \notin {"update", "create", "remove"}
  <2>1. UNCHANGED drive
      BY <1>2 DEF Act
  <2>2. QED
      BY <1>2, <2>1 DEF Remembers, drive, Kept
<1>3. CASE op[d].req = "update"
  <2>1. Write(d)
      BY <1>3 DEF Act
  <2>2. CASE ~ (content[op[d].file] # Null /\ Meets(d))
    <3>1. UNCHANGED drive
        BY <2>1, <2>2 DEF Write
    <3>2. QED
        BY <1>3, <2>2, <3>1 DEF Remembers, drive, Kept
  <2>3. CASE content[op[d].file] # Null /\ Meets(d)
    <3>1. /\ content' = [content EXCEPT ![op[d].file] = v]
          /\ listed' = ToFront(op[d].file) /\ made' = made
        BY <2>1, <2>3 DEF Write
    <3>2. op[d].file \in Files /\ op[d].file = Newest
        BY <1>1, <1>3, <2>3 DEF Calling, Knows, Place
    <3>3. content[op[d].file] = op[d].expect /\ VaultIn(Newest) = op[d].expect
        BY <1>1, <1>3, <2>3, <3>2, NewestFacts, Numbers DEF Meets, Calling
    <3>4. op[d].call = "push" /\ v \in 1 .. pushes /\ v \notin written
        BY <1>1, <1>3, <3>2, <3>3 DEF Calling
    <3>5. listed' = <<op[d].file>>
        BY <1>1, <3>1, <3>2, NewestFacts, Numbers DEF ToFront
    <3>6. content' # content
      <4>1. content'[op[d].file] = v
          BY <1>1, <3>1, <3>2 DEF Place
      <4>2. content[op[d].file] \in Used /\ v \notin Used
          BY <1>1, <2>3, <3>2, <3>4, FreshVault DEF Place
      <4>3. QED
          BY <4>1, <4>2
    <3>7. written' = written \cup {v}
        BY <1>3, <3>6 DEF Remembers
    <3>8. QED
        BY <1>3, <2>3, <3>1, <3>2, <3>3, <3>4, <3>5, <3>7 DEF Written
  <2>4. QED
      BY <1>3, <2>2, <2>3
<1>4. CASE op[d].req = "create"
  <2>1. Create(d)
      BY <1>4 DEF Act
  <2>2. /\ made' = made + 1
        /\ content' = [content EXCEPT ![made + 1] = v]
        /\ listed' = <<made + 1>> \o listed
      BY <2>1 DEF Create
  <2>3. listed = <<>> /\ op[d].expect = Null /\ op[d].call = "push"
        /\ v \in 1 .. pushes /\ v \notin written
      BY <1>1, <1>4 DEF Calling
  <2>4. made + 1 \in Files
      BY <1>1, <2>3, RoomForOne
  <2>5. listed' = <<made + 1>>
      BY <2>2, <2>3
  <2>6. VaultIn(Newest) = op[d].expect /\ content[made + 1] = Null
      BY <1>1, <2>3, <2>4, NewestFacts, Numbers DEF Place
  <2>7. content' # content
    <3>1. content'[made + 1] = v /\ v # Null
        BY <1>1, <2>2, <2>3, <2>4, Numbers DEF Place
    <3>2. QED
        BY <2>6, <3>1
  <2>8. written' = written \cup {v}
      BY <1>4, <2>7 DEF Remembers
  <2>9. QED
      BY <1>4, <2>2, <2>3, <2>4, <2>5, <2>6, <2>8 DEF Written
<1>5. CASE op[d].req = "remove"
    BY <1>5 DEF Act, RemoveAll, Remembers, Emptied
<1>6. QED
    BY <1>2, <1>3, <1>4, <1>5

(* After a request the place is one, whatever else the step changes.       *)
LEMMA PlaceHolds ==
    ASSUME Place, NEW d \in Devices, pushes' = pushes,
           Kept \/ (\E f : Written(d, f)) \/ Emptied
    PROVE  Place'
<1>1. CASE Kept
    BY <1>1 DEF Kept, Place, Newest, Used
<1>2. CASE \E f : Written(d, f)
  <2> DEFINE v == op[d].vault
  <2>1. PICK f \in Files : Written(d, f)
      BY <1>2 DEF Written
  <2>2. v \in 1 .. pushes /\ v \notin written /\ v \in Vaults /\ v # Null
      BY <2>1, FreshVault DEF Written
  <2>3. /\ content' = [content EXCEPT ![f] = v] /\ listed' = <<f>>
        /\ written' = written \cup {v}
      BY <2>1 DEF Written
  <2> HIDE DEF v
  <2>4. Newest' = f /\ f # Null
      BY <2>3, Numbers DEF Newest
  <2>5. \A g \in Files \ {f} : content[g] = Null
    <3>1. CASE f = Newest
        BY <3>1 DEF Place
    <3>2. CASE listed = <<>>
        BY <3>2, NewestFacts, Numbers DEF Place
    <3>3. QED
        BY <2>1, <3>1, <3>2 DEF Written
  <2>6. content' \in [Files -> Vaults \cup {Null}] /\ content'[f] = v
        /\ \A g \in Files \ {f} : content'[g] = Null
      BY <2>2, <2>3, <2>5 DEF Place
  <2>7. v \in Used'
      BY <2>3 DEF Used
  <2>8. made' \in Nat /\ f <= made' /\ made' <= Cardinality(written') + 1
    <3>1. CASE made' = made /\ f = Newest
      <4>1. made \in Nat /\ made <= Cardinality(written) + 1 /\ f <= made
          BY <2>4, <3>1, NewestFacts DEF Place
      <4>2. Cardinality(written) \in Nat
          BY WrittenCount
      <4>3. Cardinality(written') = Cardinality(written) + 1
          BY <2>2, <2>3, RoomForOne
      <4>4. QED
          BY <3>1, <4>1, <4>2, <4>3
    <3>2. CASE made' = made + 1 /\ f = made + 1
        BY <2>2, <2>3, <3>2, RoomForOne DEF Place
    <3>3. QED
        BY <2>1, <3>1, <3>2 DEF Written
  <2>9. written' \subseteq 1 .. pushes'
      BY <2>2, <2>3 DEF Place
  <2>10. QED
      BY <2>2, <2>3, <2>4, <2>6, <2>7, <2>8, <2>9 DEF Place
<1>3. CASE Emptied
    BY <1>3, Numbers DEF Emptied, Place, Newest, Used
<1>4. QED
    BY <1>1, <1>2, <1>3

(* What another device knows, and the call it makes, stand.                *)
LEMMA OthersStand ==
    ASSUME CellInv, NEW d \in Devices, NEW e \in Devices, d # e, op[d] # Null,
           pushes' = pushes, UNCHANGED <<op[e], fileId[e], known[e]>>,
           Kept \/ (\E f : Written(d, f)) \/ Emptied,
           (\E f : Written(d, f) /\ made' = made + 1) => op[d].req = "create"
    PROVE  Knows(e)' /\ Calling(e)'
<1>1. Place /\ Knows(e) /\ Calling(e) /\ Differ(d, e) /\ Differ(e, d)
    BY DEF CellInv
<1>2. CASE Kept
    BY <1>1, <1>2 DEF Kept, Knows, Calling, Used
<1>3. CASE \E f : Written(d, f)
  <2> DEFINE v == op[d].vault
  <2>1. PICK f \in Files : Written(d, f)
      BY <1>3 DEF Written
  <2>2. v \notin Used /\ v # Null /\ v \in 1 .. pushes /\ v \notin written
      BY <1>1, <2>1, FreshVault DEF Written
  <2>3. /\ content' = [content EXCEPT ![f] = v] /\ written' = written \cup {v}
        /\ listed' = <<f>>
      BY <2>1 DEF Written
  <2>4. made <= made' /\ made \in Nat /\ made' \in Nat
      BY <1>1, <2>1 DEF Written, Place
  <2>5. \A g \in Files : content'[g] = IF g = f THEN v ELSE content[g]
      BY <1>1, <2>3 DEF Place
  <2>6. Knows(e)'
    <3>1. known[e] # v
        BY <1>1, <2>2 DEF Knows
    <3>2. fileId[e] # Null => fileId[e] <= made'
      <4>1. fileId[e] # Null => fileId[e] \in Nat
          BY <1>1, Numbers DEF Knows
      <4>2. QED
          BY <1>1, <2>4, <4>1 DEF Knows
    <3>3. QED
        BY <1>1, <2>3, <2>5, <3>1, <3>2 DEF Knows, Used
  <2>7. Calling(e)'
    <3>1. SUFFICES ASSUME op[e] # Null PROVE Calling(e)'
        BY DEF Calling
    <3>2. op[e].vault # v
        BY <1>1, <2>2, <3>1 DEF Differ
    <3>3. op[e].expect # v
        BY <1>1, <2>2, <3>1 DEF Calling, Knows
    <3>4. op[e].req # "create"
      <4>1. CASE made' = made + 1
          BY <1>1, <2>1, <3>1, <4>1 DEF Differ
      <4>2. CASE f = Newest
          BY <1>1, <2>1, <3>1, <4>2, NewestFacts, Numbers DEF Calling
      <4>3. QED
          BY <2>1, <4>1, <4>2 DEF Written
    <3>5. QED
        BY <1>1, <2>3, <2>5, <3>1, <3>2, <3>3, <3>4 DEF Calling
  <2>8. QED
      BY <2>6, <2>7
<1>4. CASE Emptied
  <2>1. Knows(e)'
      BY <1>1, <1>4 DEF Emptied, Knows, Used
  <2>2. ASSUME op[e] # Null, op[e].req = "update" PROVE \A g \in Files : content'[g] # op[e].expect
    <3>1. op[e].expect # Null
        BY <1>1, <2>2 DEF Calling
    <3>2. QED
        BY <1>4, <3>1 DEF Emptied
  <2>3. Calling(e)'
      BY <1>1, <1>4, <2>2 DEF Emptied, Calling
  <2>4. QED
      BY <2>1, <2>3
<1>5. QED
    BY <1>2, <1>3, <1>4

-----------------------------------------------------------------------------
(* The calls as VaultCell sees them                                        *)

(* The push of d, as the INSTANCE gives it to VaultCell.                   *)
PushOf(d) ==
    IF Pushing(d)
    THEN [expect |-> op[d].expect, vault |-> op[d].vault, done |-> op[d].vault \in written]
    ELSE Null

PushesOf == [d \in Devices |-> PushOf(d)]

(* A push that a step neither begins, ends nor carries out.                *)
LEMMA SamePush ==
    ASSUME NEW d \in Devices, Pushing(d)' <=> Pushing(d),
           Pushing(d) => op'[d].expect = op[d].expect /\ op'[d].vault = op[d].vault,
           Pushing(d) => (op[d].vault \in written' <=> op[d].vault \in written)
    PROVE  PushOf(d)' = PushOf(d)
<1>1. CASE Pushing(d)
  <2>1. (op'[d].vault \in written') = (op[d].vault \in written)
      BY <1>1
  <2>2. [expect |-> op'[d].expect, vault |-> op'[d].vault, done |-> op'[d].vault \in written']
        = [expect |-> op[d].expect, vault |-> op[d].vault, done |-> op[d].vault \in written]
      BY <1>1, <2>1
  <2>3. QED
      BY <1>1, <2>2 DEF PushOf
<1>2. CASE ~ Pushing(d)
    BY <1>2 DEF PushOf
<1>3. QED
    BY <1>1, <1>2

(* A push that is called for is one of VaultCell's.                        *)
LEMMA PushTyped ==
    ASSUME NEW d \in Devices, Pushing(d), Calling(d)
    PROVE  /\ PushOf(d) \in Cell!Pushes /\ PushOf(d) # Null
           /\ PushOf(d).expect = op[d].expect /\ PushOf(d).vault = op[d].vault
           /\ PushOf(d).done <=> op[d].vault \in written
<1>1. op[d] \in Ops /\ op[d].vault \in Vaults /\ op[d].expect \in Vaults \cup {Null}
    BY DEF Pushing, Calling, Ops
<1>2. PushOf(d) = [expect |-> op[d].expect, vault |-> op[d].vault,
                   done |-> op[d].vault \in written]
    BY DEF PushOf
<1>3. PushOf(d) \in Pending
    BY <1>1, <1>2 DEF Pending
<1>4. PushOf(d) # Null
    BY <1>3, DriveConstants
<1>5. PushOf(d) \in Cell!Pushes
    BY <1>3 DEF Cell!Pushes, Pending
<1>6. PushOf(d).expect = op[d].expect /\ PushOf(d).vault = op[d].vault
    BY <1>2
<1>7. PushOf(d).done <=> op[d].vault \in written
  <2>1. CASE op[d].vault \in written
    <3>1. (op[d].vault \in written) = TRUE
        BY <2>1
    <3>2. PushOf(d) = [expect |-> op[d].expect, vault |-> op[d].vault, done |-> TRUE]
        BY <1>2, <3>1
    <3>3. QED
        BY <2>1, <3>2
  <2>2. CASE op[d].vault \notin written
    <3>1. (op[d].vault \in written) = FALSE
        BY <2>2
    <3>2. PushOf(d) = [expect |-> op[d].expect, vault |-> op[d].vault, done |-> FALSE]
        BY <1>2, <3>1
    <3>3. QED
        BY <2>2, <3>2
  <2>3. QED
      BY <2>1, <2>2
<1>8. QED
    BY <1>4, <1>5, <1>6, <1>7

(* What d does leaves the other devices' pushes as they are.               *)
LEMMA OtherPushes ==
    ASSUME CellInv, NEW d \in Devices, op[d] # Null,
           \A e \in Devices \ {d} : op'[e] = op[e],
           written' = written \/ (\E f : Written(d, f))
    PROVE  \A e \in Devices \ {d} : PushOf(e)' = PushOf(e)
<1> SUFFICES ASSUME NEW e \in Devices \ {d} PROVE PushOf(e)' = PushOf(e)
    OBVIOUS
<1>1. Pushing(e)' <=> Pushing(e)
    BY DEF Pushing
<1>2. Pushing(e) => (op[e].vault \in written' <=> op[e].vault \in written)
  <2>1. CASE written' = written
      BY <2>1
  <2>2. CASE \E f : Written(d, f)
    <3>1. op[d].vault # Null /\ written' = written \cup {op[d].vault}
        BY <2>2, FreshVault DEF Written, CellInv
    <3>2. Pushing(e) => op[e].vault # op[d].vault
        BY <3>1 DEF CellInv, Differ, Pushing
    <3>3. QED
        BY <3>1, <3>2
  <2>3. QED
      BY <2>1, <2>2
<1>3. QED
    BY <1>1, <1>2, SamePush
(* The place, as VaultCell sees it.                                        *)
LEMMA PlaceSeen ==
    ASSUME CellInv, NEW d \in Devices, op[d] # Null
    PROVE  /\ Kept => VaultIn(Newest)' = VaultIn(Newest)
           /\ Emptied => VaultIn(Newest)' = Null
           /\ \A f : Written(d, f) =>
                 /\ VaultIn(Newest)' = op[d].vault /\ VaultIn(Newest)' # VaultIn(Newest)
                 /\ Pushing(d) /\ op[d].vault \notin written /\ op[d].vault \in written'
                 /\ Cell!Replaces(d)
<1>1. Kept => VaultIn(Newest)' = VaultIn(Newest)
    BY DEF Kept, VaultIn, Newest
<1>2. Emptied => VaultIn(Newest)' = Null
    BY DEF Emptied, VaultIn, Newest
<1>3. ASSUME NEW f, Written(d, f)
      PROVE  /\ VaultIn(Newest)' = op[d].vault /\ VaultIn(Newest)' # VaultIn(Newest)
             /\ Pushing(d) /\ op[d].vault \notin written /\ op[d].vault \in written'
             /\ Cell!Replaces(d)
  <2>1. /\ f \in Files /\ f # Null /\ Place
        /\ content' = [content EXCEPT ![f] = op[d].vault] /\ listed' = <<f>>
        /\ VaultIn(Newest) = op[d].expect
      BY <1>3, Numbers DEF Written, CellInv
  <2>2. Newest' = f
      BY <2>1 DEF Newest
  <2>3. VaultIn(Newest)' = op[d].vault
      BY <2>1, <2>2 DEF VaultIn, Place
  <2>4. op[d].vault \notin Used /\ op[d].vault # Null
      BY <1>3, <2>1, FreshVault DEF Written
  <2>5. op[d].expect \in Used \cup {Null}
      BY DEF CellInv, Knows, Calling
  <2>6. VaultIn(Newest)' # VaultIn(Newest)
      BY <2>1, <2>3, <2>4, <2>5
  <2>7. Pushing(d) /\ op[d].vault \notin written /\ op[d].vault \in written'
      BY <1>3 DEF Written, Pushing
  <2>8. /\ PushOf(d) # Null /\ ~ PushOf(d).done
        /\ PushOf(d).expect = op[d].expect /\ PushOf(d).vault = op[d].vault
      BY <2>7, PushTyped DEF CellInv
  <2>9. Cell!Replaces(d)
      BY <2>1, <2>3, <2>8 DEF Cell!Replaces, PushOf
  <2>10. QED
      BY <2>3, <2>6, <2>7, <2>9
<1>4. QED
    BY <1>1, <1>2, <1>3

(* A step of d that changes no push but its own, in terms of VaultCell's.  *)
LEMMA PushesBut ==
    ASSUME NEW d \in Devices, NEW p, PushOf(d)' = p,
           \A e \in Devices \ {d} : PushOf(e)' = PushOf(e)
    PROVE  PushesOf' = [PushesOf EXCEPT ![d] = p]
<1>1. PushesOf' = [e \in Devices |-> PushOf(e)']
    BY DEF PushesOf
<1>2. [PushesOf EXCEPT ![d] = p] = [e \in Devices |-> IF e = d THEN p ELSE PushOf(e)]
    BY DEF PushesOf
<1>3. QED
    BY <1>1, <1>2

LEMMA MapStutter ==
    ASSUME PushesOf' = PushesOf, VaultIn(Newest)' = VaultIn(Newest), UNCHANGED result
    PROVE  UNCHANGED Cell!vars
BY DEF Cell!vars, PushesOf, PushOf

(* A call that ends returns.                                               *)
LEMMA MapReturn ==
    ASSUME CellInv, NEW d \in Devices, op[d] # Null,
           NEW how \in Cell!Failures \cup {"ok"}, End(d, how),
           \A e \in Devices \ {d} : op'[e] = op[e],
           Kept \/ (\E f : Written(d, f)),
           how = "ok" => ~Pushing(d) \/ (\E f : Written(d, f))
    PROVE  Cell!Return(d)
<1>1. op'[d] = Null /\ result' = [result EXCEPT ![d] = how]
    BY DEF End, CellInv, Functional
<1>2. PushOf(d)' = Null
    BY <1>1 DEF PushOf, Pushing
<1>3. \A e \in Devices \ {d} : PushOf(e)' = PushOf(e)
    BY OtherPushes DEF Kept
<1>4. PushesOf' = [PushesOf EXCEPT ![d] = Null]
    BY <1>2, <1>3, PushesBut
<1>5. VaultIn(Newest)' = VaultIn(Newest) \/ Cell!Replaces(d)
    BY PlaceSeen
<1>6. how = "ok" => PushesOf[d] = Null \/ VaultIn(Newest)' # VaultIn(Newest)
    BY PlaceSeen DEF PushesOf, PushOf
<1>7. QED
    BY <1>1, <1>4, <1>5, <1>6 DEF Cell!Return, PushesOf, PushOf

LEMMA DoneRecord ==
    ASSUME NEW e, NEW v, NEW p \in [expect : {e}, vault : {v}, done : {TRUE}]
    PROVE  p = [expect |-> e, vault |-> v, done |-> TRUE]
BY Zenon

LEMMA NowDone ==
    ASSUME NEW e, NEW v, NEW p, p = [expect |-> e, vault |-> v, done |-> FALSE]
    PROVE  [p EXCEPT !.done = TRUE] = [expect |-> e, vault |-> v, done |-> TRUE]
<1>1. p \in [expect : {e}, vault : {v}, done : BOOLEAN]
    OBVIOUS
<1>2. [p EXCEPT !.done = TRUE] \in [expect : {e}, vault : {v}, done : {TRUE}]
    BY <1>1
<1>3. QED
    BY <1>2, DoneRecord, Zenon

(* A request that is sent, or sent again, is the same push; if it took     *)
(* effect, the push has now replaced the vault.                            *)
LEMMA MapGoOn ==
    ASSUME CellInv, NEW d \in Devices, op[d] # Null, op'[d] # Null,
           op'[d].call = op[d].call, op'[d].expect = op[d].expect,
           op'[d].vault = op[d].vault,
           \A e \in Devices \ {d} : op'[e] = op[e], UNCHANGED result,
           Kept \/ (\E f : Written(d, f))
    PROVE  Cell!Replace(d) \/ UNCHANGED Cell!vars
<1>1. Pushing(d)' <=> Pushing(d)
    BY DEF Pushing
<1>2. \A e \in Devices \ {d} : PushOf(e)' = PushOf(e)
    BY OtherPushes DEF Kept
<1>3. CASE Kept
  <2>1. PushOf(d)' = PushOf(d)
      BY <1>1, <1>3, SamePush DEF Kept
  <2>2. PushesOf' = PushesOf
      BY <1>2, <2>1 DEF PushesOf
  <2>3. QED
      BY <1>3, <2>2, PlaceSeen, MapStutter
<1>4. CASE \E f : Written(d, f)
  <2>1. Pushing(d) /\ op[d].vault \in written' /\ Cell!Replaces(d)
      BY <1>4, PlaceSeen
  <2>2. PushOf(d) = [expect |-> op[d].expect, vault |-> op[d].vault, done |-> FALSE]
    <3>1. (op[d].vault \in written) = FALSE
        BY <1>4, PlaceSeen
    <3>2. QED
        BY <2>1, <3>1 DEF PushOf
  <2>3. PushOf(d)' = [expect |-> op[d].expect, vault |-> op[d].vault,
                      done |-> op[d].vault \in written']
      BY <1>1, <2>1 DEF PushOf
  <2>4. (op[d].vault \in written') = TRUE
      BY <2>1
  <2>5. PushOf(d)' = [expect |-> op[d].expect, vault |-> op[d].vault, done |-> TRUE]
      BY <2>3, <2>4
  <2>6. PushOf(d)' = [PushOf(d) EXCEPT !.done = TRUE]
    <3>1. [[expect |-> op[d].expect, vault |-> op[d].vault, done |-> FALSE]
             EXCEPT !.done = TRUE]
          = [expect |-> op[d].expect, vault |-> op[d].vault, done |-> TRUE]
        BY NowDone
    <3>2. QED
        BY <2>2, <2>5, <3>1, Zenon
  <2>7. PushesOf' = [PushesOf EXCEPT ![d] = [PushOf(d) EXCEPT !.done = TRUE]]
      BY <1>2, <2>6, PushesBut
  <2>8. PushesOf[d] = PushOf(d)
      BY DEF PushesOf
  <2>9. PushesOf' = [PushesOf EXCEPT ![d].done = TRUE]
      BY <2>7, <2>8
  <2>10. Cell!Replace(d)
      BY <2>1, <2>9 DEF Cell!Replace, PushesOf, PushOf
  <2>11. QED
      BY <2>10
<1>5. QED
    BY <1>3, <1>4
-----------------------------------------------------------------------------
(* The steps                                                               *)

CellStep == [Cell!Next]_Cell!vars

(* What d does to its own records, and to no other device's.               *)
Turn(d) ==
    /\ Functional'
    /\ pushes' = pushes
    /\ \A e \in Devices \ {d} : UNCHANGED <<op[e], fileId[e], known[e]>>

LEMMA StepKeeps ==
    ASSUME CellInv, NEW d \in Devices, op[d] # Null, Turn(d),
           Kept \/ (\E f : Written(d, f)) \/ Emptied,
           (\E f : Written(d, f) /\ made' = made + 1) => op[d].req = "create",
           Knows(d)', Calling(d)',
           op'[d] # Null =>
              /\ op'[d].vault = op[d].vault
              /\ op'[d].req = "create" =>
                    \/ op[d].req = "create"
                    \/ \A e \in Devices : op[e] # Null => op[e].req # "create"
    PROVE  CellInv'
<1>1. Place'
    BY PlaceHolds DEF CellInv, Turn
<1>2. ASSUME NEW e \in Devices, e # d PROVE Knows(e)' /\ Calling(e)'
    BY <1>2, OthersStand DEF Turn
<1>3. ASSUME NEW e \in Devices, NEW g \in Devices, e # g PROVE Differ(e, g)'
    BY <1>3 DEF CellInv, Differ, Turn
<1>4. QED
    BY <1>1, <1>2, <1>3 DEF CellInv, Turn

LEMMA EndTurn ==
    ASSUME CellInv, NEW d \in Devices, NEW how, End(d, how), pushes' = pushes,
           NEW f, fileId' = [fileId EXCEPT ![d] = f] \/ fileId' = fileId,
           NEW k, known' = [known EXCEPT ![d] = k] \/ known' = known
    PROVE  Turn(d) /\ op'[d] = Null /\ Calling(d)'
BY DEF CellInv, Functional, End, Turn, Calling

(* A call that ends without having told anything of the place.             *)
LEMMA EndStep ==
    ASSUME CellInv, NEW d \in Devices, op[d] # Null,
           NEW how \in Cell!Failures, End(d, how),
           UNCHANGED <<pushes, fileId, known>>,
           \/ Kept
           \/ (\E f : Written(d, f)) /\ made' = made
    PROVE  CellInv' /\ CellStep
<1>1. Turn(d) /\ op'[d] = Null /\ Calling(d)'
    BY EndTurn
<1>2. \A e \in Devices \ {d} : op'[e] = op[e]
    BY <1>1 DEF Turn
<1>3. how # "ok"
    BY DEF Cell!Failures
<1>4. Cell!Return(d)
    BY <1>2, <1>3, MapReturn
<1>5. made' # made + 1
    BY DEF CellInv, Place, Kept
<1>6. Knows(d)'
  <2>1. CASE Kept
      BY <2>1 DEF CellInv, Knows, Kept, Used
  <2>2. CASE \E f : Written(d, f)
    <3>1. PICK f \in Files : Written(d, f)
        BY <2>2 DEF Written
    <3>2. /\ content' = [content EXCEPT ![f] = op[d].vault] /\ made' = made
          /\ written' = written \cup {op[d].vault} /\ op[d].vault \notin Used
          /\ op[d].vault # Null
        BY <1>5, <3>1, FreshVault DEF CellInv, Written
    <3>3. known[d] # op[d].vault
        BY <3>2 DEF CellInv, Knows
    <3>4. \A g \in Files : content'[g] = IF g = f THEN op[d].vault ELSE content[g]
        BY <3>1, <3>2 DEF CellInv, Place
    <3>5. QED
        BY <3>2, <3>3, <3>4 DEF CellInv, Knows, Used
  <2>3. QED
      BY <2>1, <2>2
<1>7. CellInv'
    BY <1>1, <1>5, <1>6, StepKeeps
<1>8. QED
    BY <1>4, <1>7 DEF CellStep, Cell!Next

(* A call that goes on with the request it has: another attempt, or one    *)
(* after a new token.                                                      *)
LEMMA AgainStep ==
    ASSUME CellInv, NEW d \in Devices, op[d] # Null, op'[d] \in Ops,
           op' = [e \in Devices |-> IF e = d THEN op'[d] ELSE op[e]],
           op'[d].call = op[d].call, op'[d].req = op[d].req, op'[d].file = op[d].file,
           op'[d].etag = op[d].etag, op'[d].expect = op[d].expect,
           op'[d].vault = op[d].vault,
           UNCHANGED <<pushes, fileId, known, result>>,
           \/ Kept
           \/ op[d].req = "update" /\ (\E f : Written(d, f)) /\ made' = made
    PROVE  CellInv' /\ CellStep
<1>1. Turn(d) /\ op'[d] # Null
    BY DriveConstants DEF CellInv, Functional, Turn
<1>2. made' # made + 1
    BY DEF CellInv, Place, Kept
<1>3. Knows(d)' /\ Calling(d)'
  <2>1. CASE Kept
      BY <1>1, <2>1 DEF CellInv, Knows, Calling, Kept, Used
  <2>2. CASE op[d].req = "update" /\ \E f : Written(d, f)
    <3>1. PICK f \in Files : Written(d, f)
        BY <2>2 DEF Written
    <3>2. /\ content' = [content EXCEPT ![f] = op[d].vault] /\ made' = made
          /\ written' = written \cup {op[d].vault} /\ op[d].vault \notin Used
          /\ op[d].vault # Null /\ f = Newest
        BY <1>2, <3>1, FreshVault DEF CellInv, Written
    <3>3. known[d] # op[d].vault /\ op[d].expect # op[d].vault
        BY <3>2 DEF CellInv, Knows, Calling
    <3>4. \A g \in Files : content'[g] = IF g = f THEN op[d].vault ELSE Null
        BY <3>1, <3>2 DEF CellInv, Place
    <3>5. Knows(d)'
        BY <3>2, <3>3, <3>4 DEF CellInv, Knows, Used
    <3>6. op[d].expect # Null
        BY <2>2 DEF CellInv, Calling
    <3>7. \A g \in Files : content'[g] # op[d].expect
        BY <3>3, <3>4, <3>6
    <3>8. Calling(d)'
        BY <1>1, <2>2, <3>7 DEF CellInv, Calling
    <3>9. QED
        BY <3>5, <3>8
  <2>3. QED
      BY <2>1, <2>2
<1>4. CellInv'
    BY <1>1, <1>2, <1>3, StepKeeps
<1>5. \A e \in Devices \ {d} : op'[e] = op[e]
    BY <1>1 DEF Turn
<1>6. Cell!Replace(d) \/ UNCHANGED Cell!vars
    BY <1>1, <1>5, MapGoOn
<1>7. QED
    BY <1>4, <1>6 DEF CellStep, Cell!Next
(* A call that sends its next request, having found out where things are.  *)
LEMMA SendStep ==
    ASSUME CellInv, NEW d \in Devices, op[d] # Null, op[d].req # "update",
           NEW req \in Requests, NEW f \in Files \cup {Null}, NEW etag \in Vaults \cup {Null},
           Send(d, req, f, etag), Kept, UNCHANGED <<pushes, known>>,
           NEW g, fileId' = [fileId EXCEPT ![d] = g] \/ fileId' = fileId, Knows(d)',
           req \in {"metadata", "download", "update"} => f # Null /\ fileId'[d] = f,
           req = "search" => fileId'[d] = Null,
           req \in {"update", "create"} => op[d].call = "push",
           req = "remove" <=> op[d].call = "deleteRemote",
           req = "download" => op[d].call = "pull",
           req = "update" => etag = op[d].expect /\ etag # Null,
           req = "create" =>
              /\ listed = <<>> /\ op[d].expect = Null
              /\ \A e \in Devices : op[e] # Null => op[e].req # "create"
    PROVE  CellInv' /\ CellStep
<1>1. op[d] \in Ops /\ Calling(d) /\ MaxAttempts \in Nat \ {0}
    BY DriveConstants DEF CellInv, Calling
<1> DEFINE o == [op[d] EXCEPT !.req = req, !.file = f, !.etag = etag, !.attempt = 1,
                              !.refreshed = FALSE]
<1>2. /\ o \in Ops /\ o.req = req /\ o.file = f /\ o.etag = etag
      /\ o.call = op[d].call /\ o.expect = op[d].expect /\ o.vault = op[d].vault
  <2>1. 1 \in 1 .. MaxAttempts
      BY <1>1
  <2>2. ASSUME NEW p \in Ops
        PROVE  LET n == [p EXCEPT !.req = req, !.file = f, !.etag = etag, !.attempt = 1,
                                  !.refreshed = FALSE]
               IN  /\ n \in Ops /\ n.req = req /\ n.file = f /\ n.etag = etag
                   /\ n.call = p.call /\ n.expect = p.expect /\ n.vault = p.vault
      BY <2>1, <2>2 DEF Ops
  <2>3. QED
      BY <1>1, <2>2
<1>3. op' = [op EXCEPT ![d] = o]
    BY DEF Send, CellInv, Functional
<1> HIDE DEF o
<1>4. o # Null
    BY <1>2, DriveConstants
<1>5. Turn(d) /\ op'[d] = o
    BY <1>3 DEF CellInv, Functional, Turn
<1>6. Calling(d)'
  <2>1. op[d].call = "push" => op[d].vault \notin written
      BY <1>1 DEF Calling
  <2>2. (req = "update" => op[d].call = "push") /\ listed' = listed /\ written' = written
        /\ pushes' = pushes /\ known' = known
      BY DEF Kept
  <2>3. op[d].call = "push" => op[d].vault # Null
      BY <1>1 DEF Calling
  <2>4. QED
      BY <1>1, <1>2, <1>5, <2>1, <2>2, <2>3 DEF Calling
<1>7. made' # made + 1
    BY DEF CellInv, Place, Kept
<1>8. CellInv'
    BY <1>2, <1>5, <1>6, <1>7, StepKeeps
<1>9. UNCHANGED result /\ \A e \in Devices \ {d} : op'[e] = op[e]
    BY <1>5 DEF Send, Turn
<1>10. Cell!Replace(d) \/ UNCHANGED Cell!vars
    BY <1>2, <1>4, <1>5, <1>9, MapGoOn
<1>11. QED
    BY <1>8, <1>10 DEF CellStep, Cell!Next

(* A call that ends knowing what is in the file it has.                    *)
LEMMA LearnStep ==
    ASSUME CellInv, NEW d \in Devices, op[d] # Null, Kept, pushes' = pushes,
           NEW how \in Cell!Failures \cup {"ok"}, End(d, how),
           how = "ok" => ~Pushing(d),
           NEW f \in Files \cup {Null}, f # Null => f <= made,
           fileId' = [fileId EXCEPT ![d] = f],
           known' = [known EXCEPT ![d] = VaultIn(f)]
    PROVE  CellInv' /\ CellStep
<1>1. Turn(d) /\ op'[d] = Null /\ Calling(d)'
    BY EndTurn
<1>2. fileId'[d] = f /\ known'[d] = VaultIn(f)
    BY DEF CellInv, Functional
<1>3. VaultIn(f) \in Used \cup {Null}
    BY DEF VaultIn, CellInv, Place
<1>4. \A g \in Files : content[g] # Null /\ content[g] = VaultIn(f) => f = g
    BY NewestFacts DEF VaultIn, CellInv, Place
<1>5. Knows(d)'
    BY <1>2, <1>3, <1>4 DEF Knows, Kept, Used
<1>6. made' # made + 1
    BY DEF CellInv, Place, Kept
<1>7. CellInv'
    BY <1>1, <1>5, <1>6, StepKeeps
<1>8. \A e \in Devices \ {d} : op'[e] = op[e]
    BY <1>1 DEF Turn
<1>9. Cell!Return(d)
    BY <1>8, MapReturn
<1>10. QED
    BY <1>7, <1>9 DEF CellStep, Cell!Next

(* A push that stored its vault ends knowing it and its file.              *)
LEMMA StoredStep ==
    ASSUME CellInv, NEW d \in Devices, op[d] # Null, pushes' = pushes,
           End(d, "ok"), NEW f, Written(d, f),
           made' = made + 1 => op[d].req = "create",
           fileId' = [fileId EXCEPT ![d] = f],
           known' = [known EXCEPT ![d] = op[d].vault]
    PROVE  CellInv' /\ CellStep
<1>1. Turn(d) /\ op'[d] = Null /\ Calling(d)'
    BY EndTurn
<1>2. fileId'[d] = f /\ known'[d] = op[d].vault
    BY DEF CellInv, Functional
<1>3. /\ f \in Files /\ written' = written \cup {op[d].vault} /\ listed' = <<f>>
      /\ content' = [content EXCEPT ![f] = op[d].vault]
    BY DEF Written
<1>4. Place'
    BY PlaceHolds DEF CellInv
<1>5. Newest' = f /\ f <= made'
    BY <1>3, <1>4, NewestFacts, Numbers DEF Newest, Place
<1>6. \A g \in Files : content'[g] # Null => f = g
    BY <1>4, <1>5 DEF Place
<1>7. Knows(d)'
    BY <1>2, <1>3, <1>5, <1>6 DEF Knows, Used
<1>8. CellInv'
    BY <1>1, <1>7, StepKeeps
<1>9. \A e \in Devices \ {d} : op'[e] = op[e]
    BY <1>1 DEF Turn
<1>10. Cell!Return(d)
    BY <1>9, MapReturn
<1>11. QED
    BY <1>8, <1>10 DEF CellStep, Cell!Next

(* The vault's folder is deleted: the call is not a push.                  *)
LEMMA RemovedStep ==
    ASSUME CellInv, NEW d \in Devices, op[d] # Null, op[d].call = "deleteRemote",
           Emptied, UNCHANGED <<pushes, known>>,
           fileId' = fileId \/ fileId' = [fileId EXCEPT ![d] = Null],
           \/ \E how \in Cell!Failures \cup {"ok"} : End(d, how)
           \/ /\ UNCHANGED result
              /\ result = [e \in Devices |-> result[e]]
              /\ op' = [e \in Devices |-> IF e = d THEN op'[d] ELSE op[e]]
              /\ op'[d] \in Ops /\ op'[d].call = op[d].call /\ op'[d].req = op[d].req
              /\ op'[d].file = op[d].file /\ op'[d].etag = op[d].etag
              /\ op'[d].expect = op[d].expect /\ op'[d].vault = op[d].vault
    PROVE  CellInv' /\ CellStep
<1>1. Turn(d)
    BY DEF CellInv, Functional, Turn, End
<1>2. op[d].req = "remove" /\ ~ Pushing(d)
    BY DEF CellInv, Calling, Pushing
<1>3. op'[d] = Null \/ op'[d].call = op[d].call
    BY DEF CellInv, Functional, End
<1>4. ~ Pushing(d)'
    BY <1>3 DEF Pushing
<1>5. Knows(d)'
    BY <1>1 DEF CellInv, Functional, Knows, Emptied, Used
<1>6. Calling(d)'
    BY <1>2 DEF CellInv, Functional, Calling, End, Emptied
<1>7. op'[d] # Null => op'[d].vault = op[d].vault /\ op'[d].req = "remove"
    BY <1>2 DEF CellInv, Functional, End
<1>8. CellInv'
    BY <1>1, <1>2, <1>5, <1>6, <1>7, StepKeeps DEF Emptied, CellInv, Place, Written
<1>9. \A e \in Devices \ {d} : PushOf(e)' = PushOf(e)
    BY <1>1, OtherPushes DEF Turn, Emptied
<1>10. PushOf(d) = Null /\ PushOf(d)' = Null
    BY <1>2, <1>4 DEF PushOf
<1>11. PushesOf' = PushesOf /\ PushesOf[d] = Null
    BY <1>9, <1>10 DEF PushesOf
<1>12. VaultIn(Newest)' = Null
    BY PlaceSeen
<1>13. \E r \in Cell!Failures \cup {"ok", result[d]} : result' = [result EXCEPT ![d] = r]
  <2>1. CASE \E how \in Cell!Failures \cup {"ok"} : End(d, how)
      BY <2>1 DEF End
  <2>2. CASE UNCHANGED result /\ result = [e \in Devices |-> result[e]]
    <3>1. result' = [result EXCEPT ![d] = result[d]]
        BY <2>2
    <3>2. QED
        BY <3>1
  <2>3. QED
      BY <2>1, <2>2
<1>14. Cell!Remove(d)
    BY <1>11, <1>12, <1>13 DEF Cell!Remove, PushesOf, PushOf
<1>15. QED
    BY <1>8, <1>14 DEF CellStep, Cell!Next
(* #vaultFile() has answered with the file, or with none.                  *)
LEMMA LocatedStep ==
    ASSUME CellInv, NEW d \in Devices, op[d] # Null,
           op[d].req \in {"metadata", "search"}, NEW etag, Located(d, Newest, etag),
           op[d].req = "metadata" => Newest # Null /\ etag = content[Newest],
           op[d].req = "search" => etag = Null,
           fileId' = [fileId EXCEPT ![d] = Newest],
           Kept, pushes' = pushes, CreatesApart, CreateIsAlone(d)
    PROVE  CellInv' /\ CellStep
<1>1. /\ Place /\ Knows(d) /\ Calling(d) /\ Newest \in Files \cup {Null}
      /\ Newest # Null => Newest <= made
    BY NewestFacts DEF CellInv
<1>2. /\ Newest # Null => VaultIn(Newest) = content[Newest] /\ VaultIn(Newest) \in Vaults
      /\ Newest = Null => VaultIn(Newest) = Null /\ listed = <<>>
    BY <1>1, NewestFacts DEF Place
<1>3. op[d].call # "deleteRemote"
    BY <1>1 DEF Calling
<1>4. fileId'[d] = Newest
    BY DEF CellInv, Functional
<1>5. Knows(d)' \/ known' # known
    BY <1>1, <1>2, <1>4 DEF Knows, Place, Kept, Used
<1>6. CASE op[d].call = "pull" /\ Newest # Null
  <2>1. Send(d, "download", Newest, Null) /\ UNCHANGED known
      BY <1>6 DEF Located
  <2>2. "download" \in Requests
      BY DEF Requests
  <2>3. QED
      BY <1>1, <1>3, <1>4, <1>5, <1>6, <2>1, <2>2, SendStep
<1>7. CASE op[d].call = "push" /\ VaultIn(Newest) = op[d].expect
  <2>1. CASE Newest = Null
    <3>1. Send(d, "create", Newest, etag) /\ UNCHANGED known
        BY <1>7, <2>1 DEF Located
    <3>2. op[d].req = "search" /\ etag = Null /\ "create" \in Requests
        BY <2>1 DEF Requests
    <3>3. \A e \in Devices : op[e] # Null => op[e].req # "create"
        BY <1>7, <3>2 DEF CreateIsAlone
    <3>4. QED
        BY <1>1, <1>2, <1>3, <1>4, <1>5, <1>7, <2>1, <3>1, <3>2, <3>3, SendStep
  <2>2. CASE Newest # Null
    <3>1. Send(d, "update", Newest, etag) /\ UNCHANGED known
        BY <1>7, <2>2 DEF Located
    <3>2. op[d].expect = known[d] /\ content[Newest] = known[d] /\ content[Newest] # Null
        BY <1>1, <1>2, <1>7, <2>2, Numbers DEF Calling
    <3>3. fileId[d] = Newest
        BY <1>1, <2>2, <3>2 DEF Knows
    <3>4. op[d].req = "metadata" /\ "update" \in Requests
        BY <1>1, <2>2, <3>3 DEF Calling, Requests
    <3>5. etag = op[d].expect /\ etag # Null /\ etag \in Vaults
        BY <1>2, <1>7, <2>2, <3>2, <3>4
    <3>6. QED
        BY <1>1, <1>3, <1>4, <1>5, <1>7, <2>2, <3>1, <3>4, <3>5, SendStep
  <2>3. QED
      BY <2>1, <2>2
<1>8. CASE /\ ~ (op[d].call = "pull" /\ Newest # Null)
           /\ ~ (op[d].call = "push" /\ VaultIn(Newest) = op[d].expect)
  <2> DEFINE how == IF op[d].call = "push" THEN "precondition" ELSE "ok"
  <2>1. End(d, how) /\ known' = [known EXCEPT ![d] = VaultIn(Newest)]
      BY <1>8 DEF Located
  <2>2. how \in Cell!Failures \cup {"ok"} /\ (how = "ok" => ~Pushing(d))
      BY DEF Cell!Failures, Pushing
  <2> HIDE DEF how
  <2>3. QED
      BY <1>1, <2>1, <2>2, LearnStep
<1>9. QED
    BY <1>6, <1>7, <1>8

LEMMA ServedStep ==
    ASSUME ETags, CreatesApart, CellInv, AuthInv, NEW d \in Devices, Served(d)
    PROVE  CellInv' /\ CellStep
<1>1. /\ op[d] # Null /\ Act(d) /\ Remembers(d) /\ Answer(d) /\ CreateIsAlone(d)
      /\ pushes' = pushes
    BY DEF Served, Sending, counters
<1>2. Place /\ Knows(d) /\ Calling(d) /\ op[d].req \in Requests
    BY <1>1 DEF CellInv, Calling, Ops
<1>3. CASE op[d].req = "metadata"
  <2>1. GotMetadata(d) /\ Kept
      BY <1>1, <1>3, PlaceChanges DEF Answer
  <2>2. op[d].file = fileId[d] /\ fileId[d] \in Files
      BY <1>1, <1>2, <1>3 DEF Calling, Knows
  <2>3. CASE content[fileId[d]] = Null
    <3>1. /\ fileId' = [fileId EXCEPT ![d] = Null] /\ Send(d, "search", Null, Null)
          /\ known' = known
        BY <2>1, <2>2, <2>3 DEF GotMetadata
    <3>2. Knows(d)' /\ fileId'[d] = Null
        BY <1>2, <2>1, <2>3, <3>1 DEF Knows, Kept, Used, CellInv, Functional
    <3>3. "search" \in Requests /\ op[d].call # "deleteRemote"
        BY <1>1, <1>2, <1>3 DEF Requests, Calling
    <3>4. QED
        BY <1>1, <1>3, <2>1, <3>1, <3>2, <3>3, SendStep
  <2>4. CASE content[fileId[d]] # Null
    <3>1. Located(d, fileId[d], content[fileId[d]]) /\ fileId' = fileId
        BY <2>1, <2>2, <2>4 DEF GotMetadata
    <3>2. fileId[d] = Newest /\ Newest # Null
        BY <1>2, <2>2, <2>4, Numbers DEF Place
    <3>3. fileId' = [fileId EXCEPT ![d] = Newest]
        BY <3>1, <3>2 DEF CellInv, Functional
    <3>4. QED
        BY <1>1, <1>3, <2>1, <3>1, <3>2, <3>3, LocatedStep
  <2>5. QED
      BY <2>3, <2>4
<1>4. CASE op[d].req = "search"
  <2>1. GotList(d) /\ Kept
      BY <1>1, <1>4, PlaceChanges DEF Answer
  <2>2. fileId[d] = Null
      BY <1>1, <1>2, <1>4 DEF Calling
  <2>3. fileId' = [fileId EXCEPT ![d] = Newest] /\ Located(d, Newest, Null)
      BY <2>1, <2>2 DEF GotList, CellInv, Functional
  <2>4. QED
      BY <1>1, <1>4, <2>1, <2>3, LocatedStep
<1>5. CASE op[d].req = "download"
  <2>1. GotBytes(d) /\ Kept
      BY <1>1, <1>5, PlaceChanges DEF Answer
  <2>2. op[d].file = fileId[d] /\ fileId[d] \in Files /\ fileId[d] <= made /\ ~Pushing(d)
      BY <1>1, <1>2, <1>5 DEF Calling, Knows, Pushing
  <2>3. /\ End(d, "ok") /\ known' = [known EXCEPT ![d] = VaultIn(fileId[d])]
        /\ fileId' = [fileId EXCEPT ![d] = fileId[d]]
      BY <2>1, <2>2, Numbers DEF GotBytes, CellInv, Functional, VaultIn
  <2>4. QED
      BY <1>1, <2>1, <2>2, <2>3, LearnStep
<1>6. CASE op[d].req = "update"
  <2>1. GotUpdated(d)
      BY <1>1, <1>6 DEF Answer
  <2>2. CASE content[op[d].file] # Null /\ Meets(d)
    <3>1. Written(d, op[d].file) /\ made' = made
        BY <1>1, <1>6, <2>2, PlaceChanges
    <3>2. /\ End(d, "ok") /\ known' = [known EXCEPT ![d] = op[d].vault]
          /\ fileId' = [fileId EXCEPT ![d] = op[d].file]
        BY <2>1, <2>2 DEF GotUpdated
    <3>3. made' # made + 1
        BY <1>2, <3>1 DEF Place
    <3>4. QED
        BY <1>1, <3>1, <3>2, <3>3, StoredStep
  <2>3. CASE ~ (content[op[d].file] # Null /\ Meets(d))
    <3>1. Kept
        BY <1>1, <1>6, <2>3, PlaceChanges
    <3>2. End(d, "gone") \/ End(d, "precondition")
        BY <2>1, <2>3 DEF GotUpdated
    <3>3. UNCHANGED <<known, fileId>>
        BY <2>1, <2>3 DEF GotUpdated
    <3>4. \E how \in Cell!Failures : End(d, how)
        BY <3>2 DEF Cell!Failures
    <3>5. QED
        BY <1>1, <3>1, <3>3, <3>4, EndStep
  <2>4. QED
      BY <2>2, <2>3
<1>7. CASE op[d].req = "create"
  <2>1. GotCreated(d) /\ Written(d, made + 1)
      BY <1>1, <1>7, PlaceChanges DEF Answer
  <2>2. QED
      BY <1>1, <1>7, <2>1, StoredStep DEF GotCreated
<1>8. CASE op[d].req = "remove"
  <2>1. GotRemoved(d) /\ Emptied /\ op[d].call = "deleteRemote"
      BY <1>1, <1>2, <1>8, PlaceChanges DEF Answer, Calling
  <2>2. End(d, "ok") /\ fileId' = [fileId EXCEPT ![d] = Null] /\ UNCHANGED known
      BY <2>1 DEF GotRemoved
  <2>3. QED
      BY <1>1, <2>1, <2>2, RemovedStep
<1>9. QED
    BY <1>2, <1>3, <1>4, <1>5, <1>6, <1>7, <1>8 DEF Requests
(* Another attempt, or the same one with the token refreshed.              *)
LEMMA SameRequest ==
    ASSUME NEW p \in Ops, NEW a \in 1 .. MaxAttempts, NEW r \in BOOLEAN
    PROVE  LET n == [p EXCEPT !.attempt = a, !.refreshed = r]
           IN  /\ n \in Ops /\ n.call = p.call /\ n.req = p.req /\ n.file = p.file
               /\ n.etag = p.etag /\ n.expect = p.expect /\ n.vault = p.vault
BY DEF Ops

LEMMA NextAttempt ==
    ASSUME CellInv, NEW d \in Devices, op[d] # Null, op[d].attempt < MaxAttempts,
           op' = [op EXCEPT ![d].attempt = @ + 1]
    PROVE  /\ op' = [e \in Devices |-> IF e = d THEN op'[d] ELSE op[e]]
           /\ op'[d] \in Ops /\ op'[d].call = op[d].call /\ op'[d].req = op[d].req
           /\ op'[d].file = op[d].file /\ op'[d].etag = op[d].etag
           /\ op'[d].expect = op[d].expect /\ op'[d].vault = op[d].vault
<1>1. op[d] \in Ops /\ MaxAttempts \in Nat
    BY DriveConstants DEF CellInv, Calling
<1>2. op[d].attempt + 1 \in 1 .. MaxAttempts /\ op[d].refreshed \in BOOLEAN
    BY <1>1 DEF Ops
<1>3. op' = [op EXCEPT ![d] = [op[d] EXCEPT !.attempt = op[d].attempt + 1]]
    BY DEF CellInv, Functional
<1>4. \A p \in Ops : p.attempt + 1 \in 1 .. MaxAttempts =>
        LET n == [p EXCEPT !.attempt = p.attempt + 1]
        IN  /\ n \in Ops /\ n.call = p.call /\ n.req = p.req /\ n.file = p.file
            /\ n.etag = p.etag /\ n.expect = p.expect /\ n.vault = p.vault
    BY DEF Ops
<1>5. op'[d] = [op[d] EXCEPT !.attempt = op[d].attempt + 1]
    BY <1>3 DEF CellInv, Functional
<1>6. QED
    BY <1>1, <1>2, <1>3, <1>4, <1>5, ZenonT(60) DEF CellInv, Functional

LEMMA AcquireStep ==
    ASSUME CellInv, NEW d \in Devices, Acquire(d)
    PROVE  CellInv' /\ CellStep
<1>1. op[d] # Null /\ Kept /\ UNCHANGED <<pushes, fileId, known>>
    BY DEF Acquire, drive, Kept
<1>2. End(d, "auth") \/ End(d, "offline") \/ UNCHANGED <<op, result>>
    BY DEF Acquire, RefreshFails
<1>3. CASE End(d, "auth") \/ End(d, "offline")
  <2>1. \E how \in Cell!Failures : End(d, how)
      BY <1>3 DEF Cell!Failures
  <2>2. QED
      BY <1>1, <2>1, EndStep
<1>4. CASE UNCHANGED <<op, result>>
  <2>1. op[d] \in Ops
      BY <1>1 DEF CellInv, Calling
  <2>2. op' = [e \in Devices |-> IF e = d THEN op'[d] ELSE op[e]]
      BY <1>4 DEF CellInv, Functional
  <2>3. QED
      BY <1>1, <1>4, <2>1, <2>2, AgainStep
<1>5. QED
    BY <1>2, <1>3, <1>4

LEMMA RejectedStep ==
    ASSUME CellInv, NEW d \in Devices, Rejected(d)
    PROVE  CellInv' /\ CellStep
<1>1. op[d] # Null /\ Kept /\ UNCHANGED <<pushes, fileId, known>>
    BY DEF Rejected, Sending, drive, counters, Kept
<1>2. CASE op[d].refreshed
  <2>1. End(d, "auth") /\ "auth" \in Cell!Failures
      BY <1>2 DEF Rejected, Cell!Failures
  <2>2. QED
      BY <1>1, <2>1, EndStep
<1>3. CASE ~ op[d].refreshed
  <2> DEFINE a == IF op[d].attempt < MaxAttempts THEN op[d].attempt + 1 ELSE op[d].attempt
  <2> DEFINE n == [op[d] EXCEPT !.attempt = a, !.refreshed = TRUE]
  <2>1. op' = [op EXCEPT ![d].refreshed = TRUE,
                         ![d].attempt = IF @ < MaxAttempts THEN @ + 1 ELSE @]
        /\ UNCHANGED result
      BY <1>3 DEF Rejected
  <2>2. op[d] \in Ops /\ MaxAttempts \in Nat \ {0}
      BY <1>1, DriveConstants DEF CellInv, Calling
  <2>3. a \in 1 .. MaxAttempts
      BY <2>2 DEF Ops
  <2>4. op' = [op EXCEPT ![d] = n]
      BY <2>1, <2>2 DEF CellInv, Functional, Ops
  <2>5. /\ n \in Ops /\ n.call = op[d].call /\ n.req = op[d].req /\ n.file = op[d].file
        /\ n.etag = op[d].etag /\ n.expect = op[d].expect /\ n.vault = op[d].vault
      BY <2>2, <2>3, SameRequest
  <2> HIDE DEF a, n
  <2>6. /\ op'[d] = n
        /\ op' = [e \in Devices |-> IF e = d THEN op'[d] ELSE op[e]]
      BY <2>4 DEF CellInv, Functional
  <2>7. QED
      BY <1>1, <2>1, <2>5, <2>6, AgainStep
<1>4. QED
    BY <1>2, <1>3

(* The request or its answer is lost.                                      *)
LEMMA FaultStep ==
    ASSUME ETags, CreatesApart, CellInv, AuthInv, NEW d \in Devices,
           RequestLost(d) \/ AnswerLost(d)
    PROVE  CellInv' /\ CellStep
<1>1. op[d] # Null /\ UNCHANGED <<pushes, fileId, known>>
    BY DEF RequestLost, AnswerLost, GoesAstray, Sending
<1>2. \/ End(d, "offline") \/ End(d, "rate")
      \/ op[d].attempt < MaxAttempts /\ op' = [op EXCEPT ![d].attempt = @ + 1] /\ UNCHANGED result
    BY DEF RequestLost, AnswerLost, GoesAstray, Retry
<1>3. \/ Kept
      \/ op[d].req = "update" /\ (\E f : Written(d, f)) /\ made' = made
      \/ op[d].req = "remove" /\ Emptied
  <2>1. CASE RequestLost(d)
      BY <2>1 DEF RequestLost, drive, Kept
  <2>2. CASE AnswerLost(d)
    <3>1. Act(d) /\ Remembers(d) /\ op[d].req \in {"update", "remove"}
        BY <2>2 DEF AnswerLost
    <3>2. QED
        BY <1>1, <3>1, PlaceChanges
  <2>3. QED
      BY <2>1, <2>2
<1>4. \A how : how \in {"offline", "rate"} => how \in Cell!Failures
    BY DEF Cell!Failures
<1>5. CASE op[d].req = "remove" /\ Emptied
  <2>1. op[d].call = "deleteRemote"
      BY <1>1, <1>5 DEF CellInv, Calling
  <2>2. result = [e \in Devices |-> result[e]]
      BY DEF AuthInv, Shape
  <2>3. CASE \E how \in Cell!Failures \cup {"ok"} : End(d, how)
      BY <1>1, <1>5, <2>1, <2>3, RemovedStep
  <2>4. CASE /\ op[d].attempt < MaxAttempts /\ op' = [op EXCEPT ![d].attempt = @ + 1]
             /\ UNCHANGED result
      BY <1>1, <1>5, <2>1, <2>2, <2>4, NextAttempt, RemovedStep
  <2>5. QED
      BY <1>2, <1>4, <2>3, <2>4
<1>6. CASE \/ Kept
           \/ op[d].req = "update" /\ (\E f : Written(d, f)) /\ made' = made
  <2>1. CASE \E how \in Cell!Failures : End(d, how)
      BY <1>1, <1>6, <2>1, EndStep
  <2>2. CASE /\ op[d].attempt < MaxAttempts /\ op' = [op EXCEPT ![d].attempt = @ + 1]
             /\ UNCHANGED result
      BY <1>1, <1>6, <2>2, NextAttempt, AgainStep
  <2>3. QED
      BY <1>2, <1>4, <2>1, <2>2
<1>7. QED
    BY <1>3, <1>5, <1>6
(* A call begins; a push brings a vault no other push has.                 *)
LEMMA BeginStep ==
    ASSUME CellInv, NEW d \in Devices, NEW call \in Calls,
           NEW carried, Begin(d, call, carried), UNCHANGED <<drive, fileId, known, written>>,
           \/ call # "push" /\ carried = Null /\ pushes' = pushes
           \/ call = "push" /\ pushes < MaxPushes /\ carried = pushes + 1 /\ pushes' = pushes + 1
    PROVE  CellInv' /\ CellStep
<1> DEFINE b == [call |-> call, req |-> FirstRequest(d, call), file |-> fileId[d],
                 etag |-> Null, expect |-> known[d], vault |-> carried, attempt |-> 1,
                 refreshed |-> FALSE]
<1>1. /\ op[d] = Null /\ result' = [result EXCEPT ![d] = "none"]
      /\ op' = [op EXCEPT ![d] = b]
    BY DEF Begin
<1>2. /\ Place /\ Knows(d) /\ pushes \in Nat /\ pushes <= MaxPushes /\ MaxPushes \in Nat
      /\ pushes' \in 0 .. MaxPushes /\ 1 .. pushes \subseteq 1 .. pushes'
    BY Numbers DEF CellInv, Place
<1>3. Kept /\ Used \subseteq Vaults /\ written \subseteq 1 .. pushes
  <2>1. written \subseteq 1 .. pushes
      BY <1>2 DEF Place
  <2>2. 1 .. pushes \subseteq Vaults /\ MaxPushes + 1 \in Vaults
      BY <1>2 DEF Vaults
  <2>3. QED
      BY <2>1, <2>2 DEF drive, Kept, Used
<1>4. carried # Null => carried \in 1 .. pushes' /\ carried \notin 1 .. pushes /\ carried \in Vaults
    BY <1>2, Numbers DEF Vaults
<1>5. /\ call = "deleteRemote" => FirstRequest(d, call) = "remove"
      /\ call # "deleteRemote" /\ fileId[d] # Null => FirstRequest(d, call) = "metadata"
      /\ call # "deleteRemote" /\ fileId[d] = Null => FirstRequest(d, call) = "search"
  <2>1. CASE call = "deleteRemote"
    <3>1. FirstRequest(d, call) = "remove"
        BY <2>1 DEF FirstRequest
    <3>2. QED
        BY <2>1, <3>1
  <2>2. CASE call # "deleteRemote" /\ fileId[d] # Null
    <3>1. FirstRequest(d, call) = "metadata"
        BY <2>2 DEF FirstRequest
    <3>2. QED
        BY <2>2, <3>1
  <2>3. CASE call # "deleteRemote" /\ fileId[d] = Null
    <3>1. FirstRequest(d, call) = "search"
        BY <2>3 DEF FirstRequest
    <3>2. QED
        BY <2>3, <3>1
  <2>4. QED
      BY <2>1, <2>2, <2>3
<1>6. /\ FirstRequest(d, call) \in Requests
      /\ FirstRequest(d, call) \in {"remove", "metadata", "search"}
    BY <1>5 DEF Requests
<1>7. b \in Ops
  <2>1. 1 \in 1 .. MaxAttempts
      BY DriveConstants
  <2>2. known[d] \in Vaults \cup {Null} /\ fileId[d] \in Files \cup {Null}
      BY <1>2, <1>3 DEF Knows
  <2>3. QED
      BY <1>4, <1>6, <2>1, <2>2 DEF Ops
<1>8. /\ b.call = call /\ b.req = FirstRequest(d, call) /\ b.file = fileId[d]
      /\ b.expect = known[d] /\ b.vault = carried
    OBVIOUS
<1> HIDE DEF b
<1>9. b # Null
    BY <1>7, DriveConstants
<1>10. op'[d] = b /\ \A e \in Devices \ {d} : op'[e] = op[e]
    BY <1>1 DEF CellInv, Functional
<1>11. Functional'
    BY <1>1 DEF CellInv, Functional
<1>12. Place'
    BY <1>2, <1>3 DEF Place, Kept, Newest, Used
<1>13. ASSUME NEW e \in Devices PROVE Knows(e)'
    BY <1>3 DEF CellInv, Knows, Kept, Used
<1>14. Calling(d)'
  <2>1. carried \notin written
    <3>1. Null \notin 1 .. pushes
        BY <1>2, Numbers
    <3>2. QED
        BY <1>3, <1>4, <3>1
  <2>2. carried = Null <=> call # "push"
      BY <1>2, Numbers
  <2>3. carried \in (1 .. pushes') \cup {Null}
      BY <1>4
  <2>4. fileId' = fileId /\ known' = known /\ written' = written
      OBVIOUS
  <2>5. QED
      BY <1>5, <1>6, <1>7, <1>8, <1>10, <2>1, <2>2, <2>3, <2>4 DEF Calling
<1>15. ASSUME NEW e \in Devices, e # d PROVE Calling(e)'
    BY <1>2, <1>3, <1>10, <1>15 DEF CellInv, Calling, Kept
<1>16. ASSUME NEW e \in Devices, e # d PROVE Differ(d, e)' /\ Differ(e, d)'
  <2>1. op[e] # Null => op[e].vault \in (1 .. pushes) \cup {Null}
      BY DEF CellInv, Calling
  <2>2. b.req # "create"
      BY <1>6, <1>8
  <2>3. op[e] # Null /\ op[e].vault # Null => op[e].vault # carried
      BY <1>4, <2>1
  <2>4. QED
      BY <1>8, <1>10, <1>16, <2>2, <2>3 DEF Differ
<1>17. ASSUME NEW e \in Devices, NEW g \in Devices, e # g, e # d, g # d PROVE Differ(e, g)'
    BY <1>10, <1>17 DEF CellInv, Differ
<1>18. CellInv'
    BY <1>11, <1>12, <1>13, <1>14, <1>15, <1>16, <1>17 DEF CellInv
<1>19. \A e \in Devices \ {d} : PushOf(e)' = PushOf(e)
    BY <1>10, SamePush DEF Pushing
<1>20. PushOf(d) = Null
    BY <1>1 DEF PushOf, Pushing
<1>21. PushesOf' = [PushesOf EXCEPT ![d] = PushOf(d)'] /\ PushesOf[d] = Null
    BY <1>19, <1>20, PushesBut DEF PushesOf
<1>22. VaultIn(Newest)' = VaultIn(Newest)
    BY <1>3 DEF Kept, VaultIn, Newest
<1>23. CASE call = "push"
  <2>1. op[d] = Null /\ Pushing(d)' /\ carried \notin written'
      BY <1>1, <1>2, <1>3, <1>4, <1>8, <1>9, <1>10, <1>23, Numbers DEF Pushing
  <2>2. PushOf(d)' = [expect |-> known[d], vault |-> carried, done |-> carried \in written']
      BY <1>8, <1>10, <2>1 DEF PushOf
  <2>3. (carried \in written') = FALSE
      BY <2>1
  <2>4. PushOf(d)' = [expect |-> known[d], vault |-> carried, done |-> FALSE]
      BY <2>2, <2>3
  <2>5. known[d] \in Vaults \cup {Null} /\ carried \in Vaults
    <3>1. carried # Null
        BY <1>2, <1>23, Numbers
    <3>2. QED
        BY <1>2, <1>3, <1>4, <3>1 DEF Knows
  <2>6. PushOf(d)' \in Cell!Pushes /\ ~ PushOf(d)'.done
      BY <2>4, <2>5 DEF Cell!Pushes
  <2>7. Cell!Ask(d)
      BY <1>1, <1>21, <1>22, <2>6 DEF Cell!Ask, PushesOf, PushOf
  <2>8. QED
      BY <1>18, <2>7 DEF CellStep, Cell!Next
<1>24. CASE call # "push"
  <2>1. PushOf(d)' = Null
      BY <1>8, <1>10, <1>24 DEF PushOf, Pushing
  <2>2. PushesOf' = PushesOf
      BY <1>19, <1>20, <2>1 DEF PushesOf
  <2>3. Cell!Ask(d)
      BY <1>1, <1>21, <1>22, <2>2 DEF Cell!Ask, PushesOf, PushOf
  <2>4. QED
      BY <1>18, <2>3 DEF CellStep, Cell!Next
<1>25. QED
    BY <1>23, <1>24

(* The connection and the session come and go outside the calls.           *)
LEMMA AccessStep ==
    ASSUME CellInv, NEW d \in Devices,
           \/ Connect(d) \/ Disconnect(d) \/ TokenExpires(d) \/ Withdraw(d)
           \/ Lock(d) \/ Unlock(d)
    PROVE  CellInv' /\ CellStep
<1>1. UNCHANGED <<op, result, pushes, written>> /\ Kept
    BY DEF Connect, Disconnect, TokenExpires, Withdraw, Lock, Unlock, Trouble, counters,
           drive, Kept
<1>2. \/ UNCHANGED <<fileId, known>>
      \/ /\ op[d] = Null
         /\ fileId' = [fileId EXCEPT ![d] = Null] /\ known' = [known EXCEPT ![d] = Null]
    BY DEF Connect, Disconnect, TokenExpires, Withdraw, Lock, Unlock
<1>3. Functional' /\ \A e \in Devices \ {d} : UNCHANGED <<fileId[e], known[e]>>
    BY <1>1, <1>2 DEF CellInv, Functional
<1>4. Place'
    BY <1>1 DEF CellInv, Place, Kept, Newest, Used
<1>5. ASSUME NEW e \in Devices PROVE Knows(e)' /\ Calling(e)'
  <2>1. CASE UNCHANGED <<fileId[e], known[e]>>
      BY <1>1, <2>1 DEF CellInv, Knows, Calling, Kept, Used
  <2>2. CASE e = d /\ op[d] = Null /\ fileId'[d] = Null /\ known'[d] = Null
      BY <1>1, <2>2 DEF CellInv, Knows, Calling, Kept
  <2>3. QED
      BY <1>2, <1>3, <2>1, <2>2 DEF CellInv, Functional
<1>6. CellInv'
    BY <1>1, <1>3, <1>4, <1>5 DEF CellInv, Differ
<1>7. \A e \in Devices : PushOf(e)' = PushOf(e)
    BY <1>1, SamePush DEF Pushing
<1>8. PushesOf' = PushesOf
    BY <1>7 DEF PushesOf
<1>9. VaultIn(Newest)' = VaultIn(Newest)
    BY <1>1 DEF Kept, VaultIn, Newest
<1>10. QED
    BY <1>1, <1>6, <1>8, <1>9, MapStutter DEF CellStep

LEMMA StepIsCells ==
    ETags /\ CreatesApart /\ AuthInv /\ CellInv /\ [DriveNext]_drives => CellInv' /\ CellStep
<1> SUFFICES ASSUME ETags, CreatesApart, AuthInv, CellInv, [DriveNext]_drives
             PROVE  CellInv' /\ CellStep
    OBVIOUS
<1>1. ASSUME NEW d \in Devices, Peek(d) \/ PullLight(d) \/ PushLight(d) \/ DeleteRemote(d)
      PROVE  CellInv' /\ CellStep
  <2>1. CASE Peek(d)
      BY <2>1, BeginStep DEF Peek, counters, Calls
  <2>2. CASE PullLight(d)
      BY <2>2, BeginStep DEF PullLight, counters, Calls
  <2>3. CASE PushLight(d)
      BY <2>3, BeginStep DEF PushLight, Calls
  <2>4. CASE DeleteRemote(d)
      BY <2>4, BeginStep DEF DeleteRemote, Calls
  <2>5. QED
      BY <1>1, <2>1, <2>2, <2>3, <2>4
<1>2. ASSUME NEW d \in Devices, Program(d) \/ RequestLost(d) \/ AnswerLost(d)
      PROVE  CellInv' /\ CellStep
    BY <1>2, ServedStep, AcquireStep, RejectedStep, FaultStep DEF Program
<1>3. ASSUME NEW d \in Devices,
             \/ Connect(d) \/ Disconnect(d) \/ TokenExpires(d) \/ Withdraw(d)
             \/ Lock(d) \/ Unlock(d)
      PROVE  CellInv' /\ CellStep
    BY <1>3, AccessStep
<1>4. CASE UNCHANGED drives
  <2>1. UNCHANGED Cell!vars
      BY <1>4 DEF drives, Cell!vars, VaultIn, Newest, Pushing
  <2>2. CellInv'
      BY <1>4 DEF drives, CellInv, Functional, Place, Knows, Calling, Differ, Newest, Used
  <2>3. QED
      BY <2>1, <2>2 DEF CellStep
<1>5. QED
    BY <1>1, <1>2, <1>3, <1>4 DEF DriveNext

(* Where Drive answers with an ETag and no two creates overlap, a push     *)
(* through any number of requests, retries, lost answers and other         *)
(* devices' calls replaces the vault it was told to expect or nothing, at  *)
(* most once, and says it succeeded only if it did (pushLight() in         *)
(* provider.ts): DriveSpec implements VaultCell.                           *)
THEOREM DriveIsACell == ETags /\ CreatesApart => (DriveSpec => IsACell)
<1> SUFFICES ASSUME ETags, CreatesApart PROVE DriveSpec => IsACell
    OBVIOUS
<1>1. DriveSpec => []AuthInv
    BY InitAuth, StepAuth, PTL DEF DriveSpec
<1>2. DriveInit => CellInv /\ Cell!Init
    BY InitCell
<1>3. AuthInv /\ CellInv /\ [DriveNext]_drives => CellInv' /\ [Cell!Next]_Cell!vars
    BY StepIsCells DEF CellStep
<1>4. DriveSpec => Cell!Spec
    BY <1>1, <1>2, <1>3, PTL DEF DriveSpec, Cell!Spec
<1>5. QED
    BY <1>4 DEF IsACell
=============================================================================
