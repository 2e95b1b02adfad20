----------------------------- MODULE WorkerProofs -----------------------------
(* Parts of the worker that share no state, each for every value of its    *)
(* constants: the snapshot an import leaves (Import), what a cleanup       *)
(* deletes from the history and what it owes the user (History), what a    *)
(* look at the focus comes to (FocusWatch), what the write governor of the *)
(* sync area grants (WriteBudget), and the index a search reads (Search).  *)
EXTENDS Import, History, FocusWatch, WriteBudget, Search, TLAPS, FiniteSetTheorems, SequenceTheorems, WellFoundedInduction

-----------------------------------------------------------------------------
(* Import and undo                                                         *)

(* What a message holds between two of its steps.                          *)
ImportLocals ==
    [at : {"snapshot", "replace"}, local : SUBSET Bookmarks, file : Files]
    \cup [at : {"conflicts"}, merged : SUBSET Bookmarks, fresh : SUBSET Bookmarks]
    \cup [at : {"merge", "save"}, merged : SUBSET Bookmarks, conflicts : SUBSET Bookmarks]
    \cup [at : {"restore"}, items : SUBSET Bookmarks]
    \cup [at : {"clear"}]

ImportTypes ==
    /\ vault \in SUBSET Bookmarks
    /\ slot \in Snapshots \cup {Nothing}
    /\ disputes \in SUBSET Bookmarks
    /\ importing \in [Importers -> ImportLocals \cup {Nothing}]
    /\ clock \in Nat
    /\ replaced \in (SUBSET Bookmarks) \cup {Nothing}
    /\ meanwhile \in BOOLEAN

(* Two messages at a time are one too many to say what was read.           *)
OneAtATime ==
    \A g, h \in Importers :
        g # h /\ importing[g] # Nothing /\ importing[h] # Nothing => meanwhile

(* An import that nothing came between has the vault as it is, and from    *)
(* the moment it has saved it the snapshot has it; a message that has put  *)
(* a snapshot back leaves nothing to undo.                                 *)
ImportSound(h) ==
    importing[h] # Nothing =>
        /\ importing[h].at = "snapshot" /\ ~meanwhile => importing[h].local = vault
        /\ importing[h].at = "replace" /\ ~meanwhile =>
              slot # Nothing /\ slot.items = vault
        /\ importing[h].at = "clear" => replaced = Nothing

ImportInv ==
    /\ ImportTypes
    /\ OneAtATime
    /\ \A h \in Importers : ImportSound(h)
    /\ ReplacedVaultIsKept

LEMMA InitImport == ImportInit => ImportInv
<1> SUFFICES ASSUME ImportInit PROVE ImportInv
    OBVIOUS
<1>1. ImportTypes
  <2>1. importing \in [Importers -> ImportLocals \cup {Nothing}] /\ vault \in SUBSET Bookmarks
      BY DEF ImportInit
  <2>2. /\ slot = Nothing /\ disputes = {} /\ clock = 0 /\ replaced = Nothing
        /\ meanwhile \in BOOLEAN
      BY DEF ImportInit
  <2>3. QED
      BY <2>1, <2>2 DEF ImportTypes
<1>2. \A h \in Importers : importing[h] = Nothing
    BY DEF ImportInit
<1>3. QED
    BY <1>1, <1>2 DEF ImportInit, ImportInv, OneAtATime, ImportSound, ReplacedVaultIsKept

(* The locals the steps make.                                              *)
LEMMA LocalsAre ==
    /\ \A v \in SUBSET Bookmarks, f \in Files :
          /\ [at |-> "snapshot", local |-> v, file |-> f] \in ImportLocals
          /\ [at |-> "restore", items |-> v] \in ImportLocals
    /\ \A v, w \in SUBSET Bookmarks :
          /\ [at |-> "conflicts", merged |-> v, fresh |-> w] \in ImportLocals
          /\ [at |-> "merge", merged |-> v, conflicts |-> w] \in ImportLocals
    /\ [at |-> "clear"] \in ImportLocals
BY DEF ImportLocals

LEMMA LocalsAt ==
    ASSUME NEW l \in ImportLocals
    PROVE  /\ l.at \in {"snapshot", "replace"} => l.local \in SUBSET Bookmarks /\ l.file \in Files
           /\ l.at = "conflicts" => l.merged \in SUBSET Bookmarks /\ l.fresh \in SUBSET Bookmarks
           /\ l.at \in {"merge", "save"} =>
                 l.merged \in SUBSET Bookmarks /\ l.conflicts \in SUBSET Bookmarks
           /\ l.at = "restore" => l.items \in SUBSET Bookmarks
           /\ l.at = "snapshot" =>
                 LET n == [l EXCEPT !.at = "replace"]
                 IN  n \in ImportLocals /\ n.at = "replace" /\ n.local = l.local
           /\ l.at = "merge" =>
                 LET n == [l EXCEPT !.at = "save"] IN n \in ImportLocals /\ n.at = "save"
BY DEF ImportLocals
(* While one message takes a step any other one has come between.          *)
LEMMA OthersSound ==
    ASSUME ImportInv, NEW h \in Importers, importing[h] # Nothing,
           NEW l, importing' = [importing EXCEPT ![h] = l], meanwhile' = meanwhile,
           meanwhile => replaced' \in {replaced, Nothing}
    PROVE  /\ OneAtATime'
           /\ \A g \in Importers : g # h => ImportSound(g)'
<1>1. \A g \in Importers : g # h => importing'[g] = importing[g]
    BY DEF ImportInv, ImportTypes
<1>2. \A g \in Importers : g # h /\ importing[g] # Nothing => meanwhile
    BY DEF ImportInv, OneAtATime
<1>3. OneAtATime'
    BY <1>1, <1>2 DEF ImportInv, OneAtATime
<1>4. ASSUME NEW g \in Importers, g # h PROVE ImportSound(g)'
    BY <1>1, <1>2, <1>4 DEF ImportInv, ImportSound
<1>5. QED
    BY <1>3, <1>4

(* A message goes on, or ends.                                             *)
LEMMA GoesOn ==
    ASSUME ImportInv, NEW h \in Importers, NEW step,
           NEW l \in ImportLocals \cup {Nothing}, Proceeds(h, step, l),
           vault' \in SUBSET Bookmarks, slot' \in Snapshots \cup {Nothing},
           disputes' \in SUBSET Bookmarks, replaced' \in (SUBSET Bookmarks) \cup {Nothing},
           meanwhile => replaced' \in {replaced, Nothing},
           l # Nothing =>
              /\ l.at # "snapshot"
              /\ l.at = "replace" /\ ~meanwhile => slot' # Nothing /\ slot'.items = vault'
              /\ l.at = "clear" => replaced' = Nothing,
           replaced' # Nothing => slot' # Nothing /\ slot'.items = replaced'
    PROVE  ImportInv'
<1>1. /\ importing[h] # Nothing /\ importing' = [importing EXCEPT ![h] = l]
      /\ UNCHANGED <<clock, meanwhile>>
    BY DEF Proceeds
<1>2. ImportTypes'
    BY <1>1 DEF ImportInv, ImportTypes
<1>3. importing'[h] = l
    BY <1>1 DEF ImportInv, ImportTypes
<1>4. ImportSound(h)'
    BY <1>1, <1>3 DEF ImportSound
<1>5. OneAtATime' /\ \A g \in Importers : g # h => ImportSound(g)'
    BY <1>1, OthersSound
<1>6. ReplacedVaultIsKept'
    BY DEF ReplacedVaultIsKept
<1>7. QED
    BY <1>2, <1>4, <1>5, <1>6 DEF ImportInv

(* A message comes in: what is under way has been come between.            *)
LEMMA ComesIn ==
    ASSUME ImportInv, NEW h \in Importers,
           NEW l \in ImportLocals \cup {Nothing}, Start(h, l),
           slot' \in Snapshots \cup {Nothing}, disputes' = disputes,
           replaced' \in {replaced, Nothing},
           l # Nothing =>
              /\ l.at \in {"snapshot", "conflicts", "restore"}
              /\ l.at = "snapshot" => l.local = vault,
           replaced' # Nothing => slot' = slot
    PROVE  ImportInv'
<1>1. /\ importing[h] = Nothing /\ importing' = [importing EXCEPT ![h] = l]
      /\ meanwhile' = (Busy # {}) /\ UNCHANGED <<vault, clock>>
    BY DEF Start
<1>2. ImportTypes'
  <2>1. meanwhile' \in BOOLEAN
      BY <1>1
  <2>2. importing' \in [Importers -> ImportLocals \cup {Nothing}]
      BY <1>1 DEF ImportInv, ImportTypes
  <2>3. vault' = vault /\ clock' = clock
      BY <1>1
  <2>4. QED
      BY <2>1, <2>2, <2>3 DEF ImportInv, ImportTypes
<1>3. \A g \in Importers : g # h => importing'[g] = importing[g]
    BY <1>1 DEF ImportInv, ImportTypes
<1>4. \A g \in Importers : g # h /\ importing[g] # Nothing => meanwhile'
    BY <1>1 DEF Busy
<1>5. importing'[h] = l
    BY <1>1 DEF ImportInv, ImportTypes
<1>6. OneAtATime'
    BY <1>3, <1>4 DEF OneAtATime
<1>7. ASSUME NEW g \in Importers PROVE ImportSound(g)'
    BY <1>1, <1>3, <1>4, <1>5 DEF ImportInv, ImportSound
<1>8. ReplacedVaultIsKept'
    BY DEF ImportInv, ReplacedVaultIsKept
<1>9. QED
    BY <1>2, <1>6, <1>7, <1>8 DEF ImportInv

LEMMA ImportsKeep ==
    ASSUME ImportInv, NEW h \in Importers,
           ReadsToReplace(h) \/ SavesRollback(h) \/ Replaces(h)
    PROVE  ImportInv'
<1>1. /\ vault \in SUBSET Bookmarks /\ clock \in Nat /\ slot \in Snapshots \cup {Nothing}
      /\ disputes \in SUBSET Bookmarks /\ importing[h] \in ImportLocals \cup {Nothing}
      /\ replaced \in (SUBSET Bookmarks) \cup {Nothing} /\ ImportSound(h)
      /\ meanwhile \in BOOLEAN
    BY DEF ImportInv, ImportTypes
<1>2. CASE ReadsToReplace(h)
  <2>1. PICK f \in Files : Start(h, [at |-> "snapshot", local |-> vault, file |-> f])
      BY <1>2 DEF ReadsToReplace
  <2>2. [at |-> "snapshot", local |-> vault, file |-> f] \in ImportLocals
      BY <1>1, LocalsAre
  <2>3. QED
      BY <1>1, <1>2, <2>1, <2>2, ComesIn DEF ReadsToReplace
<1>3. CASE SavesRollback(h)
  <2> DEFINE n == [importing[h] EXCEPT !.at = "replace"]
  <2>1. /\ Proceeds(h, "snapshot", n)
        /\ slot' = [items |-> importing[h].local, expiresAt |-> clock + RollbackTtl]
        /\ replaced' = Nothing /\ UNCHANGED <<vault, disputes>>
      BY <1>3 DEF SavesRollback
  <2>2. importing[h] \in ImportLocals /\ importing[h].at = "snapshot"
      BY <1>1, <2>1 DEF Proceeds
  <2>3. n \in ImportLocals /\ n.at = "replace" /\ importing[h].local \in SUBSET Bookmarks
      BY <2>2, LocalsAt
  <2> HIDE DEF n
  <2>4. slot' \in Snapshots /\ slot' # Nothing /\ slot'.items = importing[h].local
      BY <1>1, <2>1, <2>3, ImportAssumption DEF Snapshots
  <2>5. ~meanwhile => slot'.items = vault'
      BY <1>1, <2>1, <2>2, <2>4, ImportAssumption DEF ImportSound, Proceeds
  <2>6. vault' = vault /\ disputes' = disputes /\ replaced' = Nothing
      BY <2>1
  <2>7. QED
      BY <1>1, <2>1, <2>3, <2>4, <2>5, <2>6, GoesOn
<1>4. CASE Replaces(h)
  <2>1. /\ Proceeds(h, "replace", Nothing)
        /\ vault' = importing[h].file
        /\ replaced' = IF meanwhile THEN Nothing ELSE vault
        /\ UNCHANGED <<slot, disputes>>
      BY <1>4 DEF Replaces, Ends
  <2>2. importing[h] # Nothing /\ importing[h].at = "replace"
      BY <2>1 DEF Proceeds
  <2>3. vault' \in SUBSET Bookmarks
      BY <1>1, <2>1, <2>2, LocalsAt, ImportAssumption
  <2>4. ~meanwhile => slot # Nothing /\ slot.items = vault
      BY <1>1, <2>2 DEF ImportSound
  <2>5. QED
      BY <1>1, <2>1, <2>3, <2>4, GoesOn
<1>5. QED
    BY <1>2, <1>3, <1>4

LEMMA MergesKeep ==
    ASSUME ImportInv, NEW h \in Importers,
           ReadsToMerge(h) \/ LoadsConflicts(h) \/ Merges(h) \/ SavesConflicts(h)
    PROVE  ImportInv'
<1>1. /\ vault \in SUBSET Bookmarks /\ slot \in Snapshots \cup {Nothing}
      /\ disputes \in SUBSET Bookmarks /\ importing[h] \in ImportLocals \cup {Nothing}
      /\ replaced \in (SUBSET Bookmarks) \cup {Nothing} /\ ReplacedVaultIsKept
    BY DEF ImportInv, ImportTypes
<1>2. CASE ReadsToMerge(h)
  <2>1. PICK f \in Files :
          Start(h, [at |-> "conflicts", merged |-> vault \cup f,
                    fresh |-> vault \cap f \cap Disputed])
      BY <1>2 DEF ReadsToMerge
  <2>2. [at |-> "conflicts", merged |-> vault \cup f, fresh |-> vault \cap f \cap Disputed]
           \in ImportLocals
      BY <1>1, LocalsAre, ImportAssumption
  <2>3. QED
      BY <1>1, <1>2, <2>1, <2>2, ComesIn DEF ReadsToMerge
<1>3. CASE LoadsConflicts(h)
  <2> DEFINE n == [at |-> "merge", merged |-> importing[h].merged,
                   conflicts |-> disputes \cup importing[h].fresh]
  <2>1. Proceeds(h, "conflicts", n) /\ UNCHANGED <<vault, slot, disputes, replaced>>
      BY <1>3 DEF LoadsConflicts
  <2>2. /\ importing[h].merged \in SUBSET Bookmarks
        /\ disputes \cup importing[h].fresh \in SUBSET Bookmarks
      BY <1>1, <2>1, LocalsAt DEF Proceeds
  <2>3. n \in ImportLocals /\ n.at = "merge"
      BY <2>2, LocalsAre
  <2> HIDE DEF n
  <2>4. QED
      BY <1>1, <2>1, <2>3, GoesOn DEF ReplacedVaultIsKept
<1>4. CASE Merges(h)
  <2> DEFINE n == [importing[h] EXCEPT !.at = "save"]
  <2>1. /\ Proceeds(h, "merge", n) /\ vault' = importing[h].merged
        /\ UNCHANGED <<slot, disputes, replaced>>
      BY <1>4 DEF Merges
  <2>2. importing[h] \in ImportLocals /\ importing[h].at = "merge"
      BY <1>1, <2>1 DEF Proceeds
  <2>3. n \in ImportLocals /\ n.at = "save" /\ importing[h].merged \in SUBSET Bookmarks
      BY <2>2, LocalsAt
  <2> HIDE DEF n
  <2>4. QED
      BY <1>1, <2>1, <2>3, GoesOn DEF ReplacedVaultIsKept
<1>5. CASE SavesConflicts(h)
  <2>1. /\ Proceeds(h, "save", Nothing) /\ disputes' = importing[h].conflicts
        /\ UNCHANGED <<vault, slot, replaced>>
      BY <1>5 DEF SavesConflicts, Ends
  <2>2. importing[h].conflicts \in SUBSET Bookmarks
      BY <1>1, <2>1, LocalsAt DEF Proceeds
  <2>3. QED
      BY <1>1, <2>1, <2>2, GoesOn DEF ReplacedVaultIsKept
<1>6. QED
    BY <1>2, <1>3, <1>4, <1>5

LEMMA UndosKeep ==
    ASSUME ImportInv, NEW h \in Importers,
           Offers(h) \/ ReadsToUndo(h) \/ PutsBack(h) \/ ClearsRollback(h)
    PROVE  ImportInv'
<1>1. /\ vault \in SUBSET Bookmarks /\ slot \in Snapshots \cup {Nothing}
      /\ disputes \in SUBSET Bookmarks /\ importing[h] \in ImportLocals \cup {Nothing}
      /\ replaced \in (SUBSET Bookmarks) \cup {Nothing} /\ ImportSound(h)
      /\ meanwhile \in BOOLEAN
    BY DEF ImportInv, ImportTypes
<1>2. CASE Offers(h)
    BY <1>1, <1>2, ComesIn DEF Offers
<1>3. CASE ReadsToUndo(h)
  <2>1. slot.items \in SUBSET Bookmarks
      BY <1>1, <1>3 DEF ReadsToUndo, Snapshots
  <2>2. [at |-> "restore", items |-> slot.items] \in ImportLocals
      BY <2>1 DEF ImportLocals
  <2>3. QED
      BY <1>1, <1>3, <2>2, ComesIn DEF ReadsToUndo
<1>4. CASE PutsBack(h)
  <2>1. Proceeds(h, "restore", [at |-> "clear"]) /\ vault' = importing[h].items
        /\ replaced' = Nothing /\ UNCHANGED <<slot, disputes>>
      BY <1>4 DEF PutsBack
  <2>2. vault' \in SUBSET Bookmarks
      BY <1>1, <2>1, LocalsAt DEF Proceeds
  <2>3. [at |-> "clear"] \in ImportLocals
      BY LocalsAre
  <2>4. QED
      BY <1>1, <2>1, <2>2, <2>3, GoesOn
<1>5. CASE ClearsRollback(h)
  <2>1. Proceeds(h, "clear", Nothing) /\ slot' = Nothing
        /\ UNCHANGED <<vault, disputes, replaced>>
      BY <1>5 DEF ClearsRollback, Ends
  <2>2. replaced = Nothing
      BY <1>1, <2>1 DEF ImportSound, Proceeds
  <2>3. QED
      BY <1>1, <2>1, <2>2, GoesOn
<1>6. QED
    BY <1>2, <1>3, <1>4, <1>5

(* A failure, a stopped worker, an edit, the clock.                        *)
LEMMA TroublesKeep ==
    ASSUME ImportInv, (\E h \in Importers : ImportFails(h)) \/ Edits \/ WorkerStops \/ ClockTicks
    PROVE  ImportInv'
<1>1. CASE \E h \in Importers : ImportFails(h)
  <2>1. PICK h \in Importers : ImportFails(h)
      BY <1>1
  <2>2. /\ importing[h] # Nothing /\ importing' = [importing EXCEPT ![h] = Nothing]
        /\ UNCHANGED <<vault, slot, disputes, clock, replaced, meanwhile>>
      BY <2>1 DEF ImportFails
  <2>3. OneAtATime' /\ \A g \in Importers : g # h => ImportSound(g)'
      BY <2>2, OthersSound
  <2>4. ImportSound(h)' /\ ImportTypes'
      BY <2>2 DEF ImportInv, ImportTypes, ImportSound
  <2>5. QED
      BY <2>2, <2>3, <2>4 DEF ImportInv, ReplacedVaultIsKept
<1>2. CASE Edits
  <2>1. PICK b \in Bookmarks : vault' \in {vault \cup {b}, vault \ {b}}
      BY <1>2 DEF Edits
  <2>2. /\ vault' \in SUBSET Bookmarks /\ meanwhile' = (Busy # {})
        /\ UNCHANGED <<slot, disputes, importing, clock, replaced>>
      BY <1>2, <2>1 DEF Edits, ImportInv, ImportTypes
  <2>3. \A g \in Importers : importing[g] # Nothing => meanwhile'
      BY <2>2 DEF Busy
  <2>4. ImportTypes'
    <3>1. meanwhile' \in BOOLEAN
        BY <2>2
    <3>2. vault' \in SUBSET Bookmarks /\ UNCHANGED <<slot, disputes, importing, clock, replaced>>
        BY <2>2
    <3>3. QED
        BY <3>1, <3>2 DEF ImportInv, ImportTypes
  <2>5. QED
      BY <2>2, <2>3, <2>4 DEF ImportInv, OneAtATime, ImportSound, ReplacedVaultIsKept
<1>3. CASE WorkerStops
  <2>1. \A g \in Importers : importing'[g] = Nothing
      BY <1>3 DEF WorkerStops
  <2>2. ImportTypes'
      BY <1>3 DEF WorkerStops, ImportInv, ImportTypes
  <2>3. QED
      BY <1>3, <2>1, <2>2
      DEF WorkerStops, ImportInv, OneAtATime, ImportSound, ReplacedVaultIsKept
<1>4. CASE ClockTicks
    BY <1>4 DEF ClockTicks, ImportInv, ImportTypes, OneAtATime, ImportSound, ReplacedVaultIsKept
<1>5. QED
    BY <1>1, <1>2, <1>3, <1>4

(* What a replacing import replaced is in the snapshot until it is put     *)
(* back, replaced by a newer one or expired, wherever a message fails or   *)
(* the worker stops, and however many messages come in between             *)
(* (saveRollback, restoreRollback and clearRollback in rollback.ts).       *)
THEOREM ReplacedVaultIsAlwaysKept == ImportSpec => []ReplacedVaultIsKept
<1>1. ImportInv /\ [ImportNext]_import => ImportInv'
  <2> SUFFICES ASSUME ImportInv, [ImportNext]_import PROVE ImportInv'
      OBVIOUS
  <2>1. CASE UNCHANGED import
      BY <2>1 DEF import, ImportInv, ImportTypes, OneAtATime, ImportSound, ReplacedVaultIsKept
  <2>2. CASE ImportNext
      BY <2>2, ImportsKeep, MergesKeep, UndosKeep, TroublesKeep DEF ImportNext
  <2>3. QED
      BY <2>1, <2>2
<1>2. ImportInv => ReplacedVaultIsKept
    BY DEF ImportInv
<1>3. QED
    BY InitImport, <1>1, <1>2, PTL DEF ImportSpec
-----------------------------------------------------------------------------
(* History to forget                                                       *)

Hosts == {Host(u) : u \in Urls}
Things == Sites \cup {"nowhere"} \cup Urls

Running ==
    [at : {"permission", "vault", "search", "delete", "clear queue", "drop key"},
     for : {"preview", "sites", "item", "tab", "lock"},
     only : SUBSET Things, sites : SUBSET Things, urls : SUBSET Urls, allowed : SUBSET Things]

Opening == [at : {"read queue"}, for : {"open"}, url : Urls]
Queueing == [at : {"write queue"}, for : {"open"}, url : Urls, seen : SUBSET Hosts]

Panels ==
    [at : {"idle", "checking", "ungranted", "refused", "preview", "clearing", "failed"},
     sites : SUBSET Sites]

HistoryTypes ==
    /\ panel \in Panels
    /\ saved \subseteq Urls /\ visited \subseteq Urls
    /\ queue \subseteq Hosts /\ promised \subseteq Sites /\ owed \subseteq Urls
    /\ tasks \in [Tasks -> {Resting} \cup Running \cup Opening \cup Queueing]

IsLock(t) == tasks[t] # Resting /\ tasks[t].for = "lock"

(* What is in the queue was ticked; so was what an open has read of it.    *)
Ticked(hosts) == \A h \in hosts : ~h[2] => h[1] \in ticked

(* What a task may delete is what it was asked for and the vault held.     *)
AimSound(t) ==
    /\ tasks[t].at \in {"permission", "vault"} => DomainsOf(saved) \subseteq tasks[t].allowed
    /\ tasks[t].at = "search" =>
          /\ tasks[t].for = "sites" => tasks[t].sites \subseteq tasks[t].only \cap tasks[t].allowed
          /\ tasks[t].for = "tab" => tasks[t].sites \subseteq tasks[t].only
          /\ tasks[t].for = "lock" =>
                tasks[t].sites \subseteq ticked \cup {"nowhere"} \cup (tasks[t].only \cap tasks[t].allowed)
    /\ tasks[t].at = "delete" =>
          /\ tasks[t].for # "preview"
          /\ tasks[t].for = "sites" =>
                \A u \in tasks[t].urls : u.site \in tasks[t].only \cap tasks[t].allowed
          /\ tasks[t].for = "item" =>
                \A u \in tasks[t].urls, item \in tasks[t].only : SamePage(item, u)
          /\ tasks[t].for = "tab" => \A u \in tasks[t].urls : u.site \in tasks[t].only
          /\ tasks[t].for = "lock" =>
                \A u \in tasks[t].urls :
                    u.site \in ticked \cup (tasks[t].only \cap tasks[t].allowed)
    /\ tasks[t].at \in {"clear queue", "drop key"} => tasks[t].for = "lock"
    /\ tasks[t].at = "write queue" => Ticked(tasks[t].seen)

(* A lock owes what it found queued: on its way to the search it is in the *)
(* queue, then among the sites, then among the URLs, then gone.            *)
LockSound(t) ==
    IsLock(t) =>
        /\ unlocked
        /\ ~broken =>
              /\ tasks[t].at = "permission" => permitted
              /\ tasks[t].at \in {"permission", "vault"} => DomainsOf(owed) \subseteq QueuedSites
              /\ tasks[t].at = "search" => DomainsOf(owed) \subseteq tasks[t].sites
              /\ tasks[t].at = "delete" => owed \cap visited \subseteq tasks[t].urls
              /\ tasks[t].at \in {"clear queue", "drop key"} => owed \cap visited = {}

OneLock == \A s, t \in Tasks : IsLock(s) /\ IsLock(t) => s = t

HistoryInv ==
    /\ HistoryTypes
    /\ OneLock
    /\ Ticked(queue)
    /\ ~broken => promised \subseteq QueuedSites
    /\ PromisesAreKept
    /\ \A t \in Tasks : AimSound(t) /\ LockSound(t)

LEMMA Kinds ==
    /\ Resting.at = "rest"
    /\ \A r \in Running :
          /\ r # Resting
          /\ r.at \in {"permission", "vault", "search", "delete", "clear queue", "drop key"}
          /\ r.for \in {"preview", "sites", "item", "tab", "lock"}
          /\ r.only \subseteq Things /\ r.sites \subseteq Things /\ r.urls \subseteq Urls
          /\ r.allowed \subseteq Things
    /\ \A r \in Opening :
          r # Resting /\ r.at = "read queue" /\ r.for = "open" /\ r.url \in Urls
    /\ \A r \in Queueing :
          /\ r # Resting /\ r.at = "write queue" /\ r.for = "open" /\ r.url \in Urls
          /\ r.seen \subseteq Hosts
<1>1. Resting.at = "rest"
    BY DEF Resting
<1>2. \A r \in Running : r.at # "rest"
    BY DEF Running
<1>3. \A r \in Opening : r.at # "rest"
    BY DEF Opening
<1>4. \A r \in Queueing : r.at # "rest"
    BY DEF Queueing
<1>5. QED
    BY <1>1, <1>2, <1>3, <1>4 DEF Running, Opening, Queueing

LEMMA InitHistory == HistoryInit => HistoryInv
<1> SUFFICES ASSUME HistoryInit PROVE HistoryInv
    OBVIOUS
<1>1. HistoryTypes
    BY DEF HistoryInit, HistoryTypes, Panels
<1>2. \A t \in Tasks : tasks[t] = Resting
    BY DEF HistoryInit
<1>3. \A t \in Tasks : AimSound(t) /\ LockSound(t)
  <2>1. Resting.at = "rest"
      BY DEF Resting
  <2>2. \A t \in Tasks : tasks[t].at = "rest" /\ ~ IsLock(t)
      BY <1>2, <2>1 DEF IsLock
  <2>3. QED
      BY <2>2 DEF AimSound, LockSound
<1>4. QED
    BY <1>1, <1>2, <1>3 DEF HistoryInit, HistoryInv, OneLock, IsLock, Ticked, PromisesAreKept

LEMMA HostOf ==
    ASSUME NEW u \in Urls
    PROVE  /\ Host(u)[1] = u.site /\ (Host(u)[2] <=> u.port) /\ Host(u) \in Hosts
           /\ u.port => RegistrableDomain(Host(u)) = "nowhere"
           /\ ~u.port => RegistrableDomain(Host(u)) = u.site
<1>1. Host(u) = <<u.site, u.port>> /\ Host(u) \in Hosts
    BY DEF Host, Hosts
<1>2. CASE u.port
  <2>1. u.port = TRUE
      BY <1>2, HistoryAssumption
  <2>2. Host(u) = <<u.site, TRUE>>
      BY <1>1, <2>1
  <2>3. Host(u)[1] = u.site /\ Host(u)[2]
      BY <2>2
  <2>4. QED
      BY <1>1, <1>2, <2>3 DEF RegistrableDomain
<1>3. CASE ~ u.port
  <2>1. u.port = FALSE
      BY <1>3, HistoryAssumption
  <2>2. Host(u) = <<u.site, FALSE>>
      BY <1>1, <2>1
  <2>3. Host(u)[1] = u.site /\ ~ Host(u)[2]
      BY <2>2
  <2>4. QED
      BY <1>1, <1>3, <2>3 DEF RegistrableDomain
<1>4. QED
    BY <1>2, <1>3

(* The queued sites are the ticked ones, and "nowhere".                    *)
LEMMA QueuedTicked ==
    ASSUME HistoryInv
    PROVE  QueuedSites \subseteq ticked \cup {"nowhere"} /\ QueuedSites \subseteq Sites \cup {"nowhere"}
<1>1. \A h \in queue : RegistrableDomain(h) \in ticked \cup {"nowhere"}
    BY DEF HistoryInv, Ticked, RegistrableDomain
<1>2. \A u \in Urls : RegistrableDomain(Host(u)) \in Sites \cup {"nowhere"}
    BY HostOf DEF Sites
<1>3. \A h \in queue : RegistrableDomain(h) \in Sites \cup {"nowhere"}
    BY <1>2 DEF HistoryInv, HistoryTypes, Hosts
<1>4. QED
    BY <1>1, <1>3 DEF QueuedSites

(* What leaves a task's aim, and what leaves a lock's debt, as it is.      *)
LEMMA AimStands ==
    ASSUME NEW t \in Tasks, AimSound(t), tasks'[t] = tasks[t], saved' = saved, ticked \subseteq ticked'
    PROVE  AimSound(t)'
BY DEF AimSound, Ticked, DomainsOf, SamePage

LEMMA DebtStands ==
    ASSUME NEW t \in Tasks, LockSound(t), tasks'[t] = tasks[t],
           IsLock(t) =>
              /\ unlocked'
              /\ ~broken' =>
                    /\ ~broken /\ permitted' = permitted
                    /\ owed' \subseteq owed /\ owed' \cap visited' \subseteq owed \cap visited
                    /\ QueuedSites \subseteq QueuedSites'
    PROVE  LockSound(t)'
<1>1. IsLock(t)' <=> IsLock(t)
    BY DEF IsLock
<1>2. SUFFICES ASSUME IsLock(t), ~broken' PROVE LockSound(t)'
    BY <1>1 DEF LockSound
<1>3. DomainsOf(owed') \subseteq DomainsOf(owed)
    BY <1>2 DEF DomainsOf
<1>4. DomainsOf(owed)' = DomainsOf(owed')
    BY DEF DomainsOf
<1>5. QED
    BY <1>2, <1>3, <1>4 DEF LockSound, IsLock
(* A step of one task.                                                     *)
LEMMA TaskStep ==
    ASSUME HistoryInv, NEW t \in Tasks,
           NEW n \in {Resting} \cup Running \cup Opening \cup Queueing,
           tasks' = [tasks EXCEPT ![t] = n], saved' = saved, panel' \in Panels,
           visited' \subseteq Urls, queue' \subseteq Hosts, promised' \subseteq Sites, owed' \subseteq Urls,
           ticked \subseteq ticked', Ticked(queue)', ~broken' => promised' \subseteq QueuedSites',
           PromisesAreKept',
           n # Resting /\ n.for = "lock" => IsLock(t) \/ ~Locking,
           \A s \in Tasks : s # t /\ IsLock(s) =>
              /\ unlocked'
              /\ ~broken' =>
                    /\ ~broken /\ permitted' = permitted
                    /\ owed' \subseteq owed /\ owed' \cap visited' \subseteq owed \cap visited
                    /\ QueuedSites \subseteq QueuedSites',
           AimSound(t)', LockSound(t)'
    PROVE  HistoryInv'
<1>1. tasks'[t] = n /\ \A s \in Tasks : s # t => tasks'[s] = tasks[s]
    BY DEF HistoryInv, HistoryTypes
<1>2. HistoryTypes'
    BY DEF HistoryInv, HistoryTypes
<1>3. ASSUME NEW s \in Tasks, s # t PROVE AimSound(s)' /\ LockSound(s)' /\ (IsLock(s)' <=> IsLock(s))
  <2>1. AimSound(s) /\ LockSound(s) /\ tasks'[s] = tasks[s]
      BY <1>1, <1>3 DEF HistoryInv
  <2>2. AimSound(s)'
      BY <2>1, AimStands
  <2>3. LockSound(s)'
      BY <1>3, <2>1, DebtStands
  <2>4. QED
      BY <2>1, <2>2, <2>3 DEF IsLock
<1>4. IsLock(t)' => IsLock(t) \/ ~Locking
    BY <1>1 DEF IsLock
<1>5. OneLock'
    BY <1>3, <1>4 DEF HistoryInv, OneLock, Locking, IsLock
<1>6. QED
    BY <1>2, <1>3, <1>5 DEF HistoryInv

(* A step of the world, which leaves the tasks as they are.                *)
LEMMA WorldStep ==
    ASSUME HistoryInv, UNCHANGED <<tasks, saved>>, panel' \in Panels,
           visited' \subseteq Urls, queue' \subseteq Hosts, promised' \subseteq Sites, owed' \subseteq Urls,
           ticked \subseteq ticked', Ticked(queue)', ~broken' => promised' \subseteq QueuedSites',
           PromisesAreKept',
           Locking =>
              /\ unlocked'
              /\ ~broken' =>
                    /\ ~broken /\ permitted' = permitted
                    /\ owed' \subseteq owed /\ owed' \cap visited' \subseteq owed \cap visited
                    /\ QueuedSites \subseteq QueuedSites'
    PROVE  HistoryInv'
<1>1. HistoryTypes'
    BY DEF HistoryInv, HistoryTypes
<1>2. ASSUME NEW s \in Tasks PROVE AimSound(s)' /\ LockSound(s)'
  <2>1. AimSound(s) /\ LockSound(s) /\ tasks'[s] = tasks[s] /\ (IsLock(s) => Locking)
      BY DEF HistoryInv, IsLock, Locking
  <2>2. QED
      BY <2>1, AimStands, DebtStands
<1>3. OneLock'
    BY DEF HistoryInv, OneLock, IsLock
<1>4. QED
    BY <1>1, <1>2, <1>3 DEF HistoryInv

LEMMA QueueStands ==
    ASSUME HistoryInv, UNCHANGED <<queue, promised>>, ticked' = ticked
    PROVE  /\ Ticked(queue)' /\ QueuedSites' = QueuedSites
           /\ queue' \subseteq Hosts /\ promised' \subseteq Sites
           /\ ~broken => promised' \subseteq QueuedSites'
BY DEF HistoryInv, HistoryTypes, Ticked, QueuedSites

LEMMA WorldKeeps ==
    ASSUME HistoryInv,
           Visits \/ PermissionFlips \/ SettingFlips \/ Unlocks \/ Grants \/ Reopens \/ Panics
    PROVE  HistoryInv'
<1>0. panel' \in Panels
    BY DEF HistoryInv, HistoryTypes, Panels, Visits, PermissionFlips, SettingFlips, Unlocks,
           Grants, Reopens, Panics
<1>1. /\ visited \subseteq Urls /\ owed \subseteq Urls /\ PromisesAreKept
      /\ Locking => unlocked
    BY DEF HistoryInv, HistoryTypes, LockSound, IsLock, Locking
<1>2. CASE Visits
  <2>1. PICK u \in Urls : visited' = visited \cup {u} /\ owed' = owed \ {u}
      BY <1>2 DEF Visits
  <2>2. UNCHANGED <<tasks, saved, queue, promised, ticked, broken, permitted, unlocked>>
      BY <1>2 DEF Visits
  <2>3. PromisesAreKept'
      BY <1>1, <2>1, <2>2 DEF PromisesAreKept
  <2>4. QED
      BY <1>0, <1>1, <2>1, <2>2, <2>3, QueueStands, WorldStep
<1>3. CASE PermissionFlips
  <2>1. /\ UNCHANGED <<tasks, saved, visited, owed, queue, promised, ticked, unlocked>>
        /\ ~broken' => ~broken /\ ~Locking
      BY <1>3 DEF PermissionFlips
  <2>2. PromisesAreKept'
      BY <1>1, <2>1 DEF PromisesAreKept
  <2>3. QED
      BY <1>0, <1>1, <2>1, <2>2, QueueStands, WorldStep
<1>4. CASE SettingFlips \/ Reopens
  <2>1. UNCHANGED <<tasks, saved, visited, owed, queue, promised, ticked, broken, permitted, unlocked>>
      BY <1>4 DEF SettingFlips, Reopens
  <2>2. PromisesAreKept'
      BY <1>1, <2>1 DEF PromisesAreKept
  <2>3. QED
      BY <1>0, <1>1, <2>1, <2>2, QueueStands, WorldStep
<1>5. CASE Unlocks
  <2>1. /\ UNCHANGED <<tasks, saved, visited, queue, promised, ticked>>
        /\ unlocked' = TRUE /\ owed' = {} /\ ~unlocked
        /\ ~broken' => promised \subseteq QueuedSites
      BY <1>5 DEF Unlocks
  <2>2. PromisesAreKept' /\ ~Locking
      BY <1>1, <2>1 DEF PromisesAreKept
  <2>3. QED
      BY <1>0, <1>1, <2>1, <2>2, QueueStands, WorldStep
<1>6. CASE Grants
  <2>1. /\ UNCHANGED <<tasks, saved, visited, owed, queue, promised, ticked, unlocked>>
        /\ ~broken' => ~broken /\ (Locking => permitted' = permitted)
      BY <1>6 DEF Grants
  <2>2. PromisesAreKept'
      BY <1>1, <2>1 DEF PromisesAreKept
  <2>3. QED
      BY <1>0, <1>1, <2>1, <2>2, QueueStands, WorldStep
<1>7. CASE Panics
  <2>1. /\ UNCHANGED <<tasks, saved, visited, ticked>>
        /\ queue' = {} /\ promised' = {} /\ owed' = {} /\ ~Locking
      BY <1>7 DEF Panics
  <2>2. PromisesAreKept' /\ Ticked(queue)'
      BY <2>1 DEF PromisesAreKept, Ticked
  <2>3. QED
      BY <1>0, <1>1, <2>1, <2>2, WorldStep
<1>8. QED
    BY <1>2, <1>3, <1>4, <1>5, <1>6, <1>7

(* The vault is edited: what a task may go for grows with it.              *)
LEMMA EditedVaultKeeps ==
    ASSUME HistoryInv, VaultEdited
    PROVE  HistoryInv'
<1>1. /\ saved' \subseteq Urls
      /\ UNCHANGED <<visited, queue, promised, ticked, owed, broken, permitted, unlocked, panel>>
    BY DEF VaultEdited, HistoryInv, HistoryTypes
<1>2. DomainsOf(saved') \subseteq Things /\ DomainsOf(saved)' = DomainsOf(saved')
    BY <1>1 DEF DomainsOf, Things, Sites
<1>3. ASSUME NEW t \in Tasks
      PROVE  /\ tasks'[t] \in {Resting} \cup Running \cup Opening \cup Queueing
             /\ IsLock(t)' <=> IsLock(t)
             /\ AimSound(t)' /\ LockSound(t)'
  <2>1. AimSound(t) /\ LockSound(t) /\ tasks[t] \in {Resting} \cup Running \cup Opening \cup Queueing
      BY DEF HistoryInv, HistoryTypes
  <2>2. CASE tasks[t].at \in {"rest", "read queue", "write queue"}
    <3>1. tasks'[t] = tasks[t] /\ (tasks[t].at \notin {"permission", "vault", "search", "delete"})
        BY <2>2 DEF VaultEdited
    <3>2. AimSound(t)' /\ (IsLock(t)' <=> IsLock(t))
        BY <1>1, <2>1, <3>1 DEF AimSound, IsLock, Ticked
    <3>3. LockSound(t)'
        BY <1>1, <2>1, <3>1, <3>2 DEF LockSound
    <3>4. QED
        BY <2>1, <3>1, <3>2, <3>3
  <2>3. CASE tasks[t].at \notin {"rest", "read queue", "write queue"}
    <3>1. tasks[t] \in Running
        BY <2>1, <2>3, Kinds
    <3> DEFINE n == [tasks[t] EXCEPT !.allowed = @ \cup DomainsOf(saved')]
    <3>2. tasks'[t] = n
        BY <2>3 DEF VaultEdited
    <3>3. /\ n \in Running /\ n.at = tasks[t].at /\ n.for = tasks[t].for /\ n.only = tasks[t].only
          /\ n.sites = tasks[t].sites /\ n.urls = tasks[t].urls
          /\ n.allowed = tasks[t].allowed \cup DomainsOf(saved')
        BY <1>2, <3>1 DEF Running
    <3> HIDE DEF n
    <3>4. n # Resting /\ tasks[t] # Resting /\ n.at # "write queue"
        BY <3>1, <3>3, Kinds
    <3>5. IsLock(t)' <=> IsLock(t)
        BY <3>2, <3>3, <3>4 DEF IsLock
    <3>6. AimSound(t)'
        BY <1>1, <1>2, <2>1, <3>2, <3>3, <3>4, ZenonT(60) DEF AimSound, SamePage
    <3>7. LockSound(t)'
        BY <1>1, <2>1, <3>2, <3>3, <3>5, QueueStands DEF LockSound, DomainsOf
    <3>8. QED
        BY <3>2, <3>3, <3>5, <3>6, <3>7
  <2>4. QED
      BY <2>2, <2>3
<1>4. tasks' \in [Tasks -> {Resting} \cup Running \cup Opening \cup Queueing]
    BY <1>3 DEF VaultEdited
<1>5. HistoryTypes'
    BY <1>1, <1>4 DEF HistoryInv, HistoryTypes
<1>6. OneLock'
    BY <1>3 DEF HistoryInv, OneLock
<1>7. PromisesAreKept'
    BY <1>1 DEF HistoryInv, PromisesAreKept
<1>8. QED
    BY <1>1, <1>3, <1>5, <1>6, <1>7, QueueStands DEF HistoryInv

LEMMA DeadWorkerKeeps ==
    ASSUME HistoryInv, HistoryWorkerDies
    PROVE  HistoryInv'
<1>1. /\ tasks' = [t \in Tasks |-> Resting]
      /\ UNCHANGED <<saved, visited, queue, promised, ticked, owed, broken, permitted, unlocked>>
    BY DEF HistoryWorkerDies
<1>2. Resting.at = "rest"
    BY DEF Resting
<1>3. \A t \in Tasks : AimSound(t)' /\ LockSound(t)' /\ ~ IsLock(t)'
    BY <1>1, <1>2 DEF AimSound, LockSound, IsLock
<1>4. HistoryTypes'
  <2>1. panel' \in Panels
      BY DEF HistoryWorkerDies, HistoryInv, HistoryTypes, Panels
  <2>2. QED
      BY <1>1, <2>1 DEF HistoryInv, HistoryTypes
<1>5. PromisesAreKept'
    BY <1>1 DEF HistoryInv, PromisesAreKept
<1>6. QED
    BY <1>1, <1>3, <1>4, <1>5, QueueStands DEF HistoryInv, OneLock

-----------------------------------------------------------------------------
(* The steps of a task *)

LEMMA NewTask ==
    ASSUME HistoryInv, NEW for \in {"preview", "sites", "item", "tab", "lock"},
           NEW only \in SUBSET Things
    PROVE  LET n == Task(for, only)
           IN  /\ n \in Running /\ n.at = "permission" /\ n.for = for /\ n.only = only
               /\ n.allowed = DomainsOf(saved)
<1>1. DomainsOf(saved) \subseteq Things
    BY DEF HistoryInv, HistoryTypes, DomainsOf, Things, Sites
<1>2. QED
    BY <1>1 DEF Task, Running

LEMMA HistoryBasics ==
    ASSUME HistoryInv
    PROVE  /\ saved \subseteq Urls /\ visited \subseteq Urls /\ owed \subseteq Urls /\ panel \in Panels
           /\ PromisesAreKept
BY DEF HistoryInv, HistoryTypes

(* A task that is no lock begins.                                          *)
LEMMA BeginsKeeps ==
    ASSUME HistoryInv, NEW t \in Tasks, NEW n \in Running, Begins(t, n), panel' \in Panels,
           n.at = "permission", n.for # "lock", n.allowed = DomainsOf(saved),
           UNCHANGED <<saved, visited, queue, promised, ticked, owed, broken, permitted, unlocked>>
    PROVE  HistoryInv'
<1>1. tasks' = [tasks EXCEPT ![t] = n]
    BY DEF Begins
<1>2. tasks'[t] = n
    BY <1>1 DEF HistoryInv, HistoryTypes
<1>3. AimSound(t)' /\ LockSound(t)'
    BY <1>2 DEF AimSound, LockSound, IsLock, DomainsOf
<1>4. PromisesAreKept'
    BY HistoryBasics DEF PromisesAreKept
<1>5. \A s \in Tasks : IsLock(s) => unlocked
    BY DEF HistoryInv, LockSound
<1>6. QED
    BY <1>1, <1>3, <1>4, <1>5, HistoryBasics, QueueStands, TaskStep

LEMMA AskedKeeps ==
    ASSUME HistoryInv, NEW t \in Tasks, Checks(t) \/ Confirms(t) \/ Forgets(t) \/ QuickCloses(t)
    PROVE  HistoryInv'
<1>1. UNCHANGED <<saved, visited, queue, promised, ticked, owed, broken, permitted, unlocked>>
    BY DEF Checks, Confirms, Forgets, QuickCloses
<1>2. CASE Checks(t)
  <2>1. Begins(t, Task("preview", {})) /\ panel' \in Panels
      BY <1>2, HistoryBasics DEF Checks, Panels
  <2>2. QED
      BY <1>1, <2>1, NewTask, BeginsKeeps
<1>3. CASE Confirms(t)
  <2>1. panel.sites \subseteq Sites
      BY HistoryBasics DEF Panels
  <2>2. PICK only \in {panel.sites} \cup {{s} : s \in panel.sites} :
            /\ Begins(t, Task("sites", IF only = panel.sites THEN Sites ELSE only))
            /\ panel' = [at |-> "clearing", sites |-> panel.sites \ only]
      BY <1>3 DEF Confirms
  <2> DEFINE asked == IF only = panel.sites THEN Sites ELSE only
  <2>3. asked \subseteq Things /\ panel' \in Panels
      BY <2>1, <2>2 DEF Things, Panels
  <2>4. Begins(t, Task("sites", asked))
      BY <2>2
  <2> HIDE DEF asked
  <2>5. QED
      BY <1>1, <2>3, <2>4, NewTask, BeginsKeeps
<1>4. CASE Forgets(t)
  <2>1. PICK u \in saved : Begins(t, Task("item", {u}))
      BY <1>4 DEF Forgets
  <2>2. {u} \subseteq Things /\ panel' \in Panels
      BY <1>4, HistoryBasics DEF Forgets, Things
  <2>3. QED
      BY <1>1, <2>1, <2>2, NewTask, BeginsKeeps
<1>5. CASE QuickCloses(t)
  <2>1. PICK s \in Sites : Begins(t, Task("tab", {s}))
      BY <1>5 DEF QuickCloses
  <2>2. {s} \subseteq Things /\ panel' \in Panels
      BY <1>5, HistoryBasics DEF QuickCloses, Things
  <2>3. QED
      BY <1>1, <2>1, <2>2, NewTask, BeginsKeeps
<1>6. QED
    BY <1>2, <1>3, <1>4, <1>5

LEMMA OpensKeeps ==
    ASSUME HistoryInv, NEW t \in Tasks, Opens(t)
    PROVE  HistoryInv'
<1>1. UNCHANGED <<saved, permitted, queue, unlocked, panel, promised, ticked, broken>>
    BY DEF Opens
<1>2. PICK u \in saved :
          /\ Begins(t, [at |-> "read queue", for |-> "open", url |-> u])
          /\ visited' = visited \cup {u} /\ owed' = owed \ {u}
    BY DEF Opens
<1> DEFINE n == [at |-> "read queue", for |-> "open", url |-> u]
<1>3. n \in Opening /\ n.at = "read queue" /\ n.for = "open"
    BY HistoryBasics DEF Opening
<1>4. tasks' = [tasks EXCEPT ![t] = n]
    BY <1>2 DEF Begins
<1> HIDE DEF n
<1>5. tasks'[t] = n
    BY <1>4 DEF HistoryInv, HistoryTypes
<1>6. AimSound(t)' /\ LockSound(t)'
    BY <1>3, <1>5 DEF AimSound, LockSound, IsLock
<1>7. PromisesAreKept'
    BY <1>1, <1>2, HistoryBasics DEF PromisesAreKept
<1>8. /\ visited' \subseteq Urls /\ owed' \subseteq owed /\ owed' \subseteq Urls
      /\ owed' \cap visited' \subseteq owed \cap visited
    BY <1>2, HistoryBasics
<1>9. \A s \in Tasks : IsLock(s) => unlocked
    BY DEF HistoryInv, LockSound
<1>10. QED
    BY <1>1, <1>3, <1>4, <1>6, <1>7, <1>8, <1>9, HistoryBasics, QueueStands, TaskStep

LEMMA ReadsQueueKeeps ==
    ASSUME HistoryInv, NEW t \in Tasks, ReadsQueue(t)
    PROVE  HistoryInv'
<1>1. /\ tasks[t].at = "read queue"
      /\ UNCHANGED <<saved, visited, permitted, queue, unlocked, panel, promised, ticked, owed, broken>>
    BY DEF ReadsQueue
<1>2. tasks[t].url \in Urls
  <2>1. tasks[t] \in {Resting} \cup Running \cup Opening \cup Queueing
      BY DEF HistoryInv, HistoryTypes
  <2>2. QED
      BY <1>1, <2>1, Kinds
<1> DEFINE n == [at |-> "write queue", for |-> "open", url |-> tasks[t].url, seen |-> queue]
<1>3. n \in Queueing /\ n.at = "write queue" /\ n.for = "open" /\ n.seen = queue
    BY <1>2 DEF HistoryInv, HistoryTypes, Queueing
<1>4. tasks' = [tasks EXCEPT ![t] = n]
    BY DEF ReadsQueue
<1> HIDE DEF n
<1>5. tasks'[t] = n
    BY <1>4 DEF HistoryInv, HistoryTypes
<1>6. AimSound(t)' /\ LockSound(t)'
    BY <1>1, <1>3, <1>5 DEF AimSound, LockSound, IsLock, HistoryInv, Ticked
<1>7. PromisesAreKept'
    BY <1>1, HistoryBasics DEF PromisesAreKept
<1>8. \A s \in Tasks : IsLock(s) => unlocked
    BY DEF HistoryInv, LockSound
<1>9. QED
    BY <1>1, <1>3, <1>4, <1>6, <1>7, <1>8, HistoryBasics, QueueStands, TaskStep

LEMMA WritesQueueKeeps ==
    ASSUME HistoryInv, NEW t \in Tasks, WritesQueue(t)
    PROVE  HistoryInv'
<1> DEFINE url == tasks[t].url
           site == {url.site} \ {IF url.port THEN url.site ELSE "nowhere"}
<1>1. /\ tasks[t].at = "write queue" /\ tasks' = [tasks EXCEPT ![t] = Resting]
      /\ queue' = tasks[t].seen \cup {Host(url)}
      /\ promised' = promised \cup site /\ ticked' = ticked \cup site
      /\ ~broken' => ~broken /\ queue \subseteq tasks[t].seen
      /\ UNCHANGED <<saved, visited, permitted, unlocked, panel, owed>>
    BY DEF WritesQueue, Rests
<1>2. url \in Urls /\ tasks[t].seen \subseteq Hosts /\ Ticked(tasks[t].seen)
  <2>1. tasks[t] \in {Resting} \cup Running \cup Opening \cup Queueing /\ AimSound(t)
      BY DEF HistoryInv, HistoryTypes
  <2>2. QED
      BY <1>1, <2>1, Kinds DEF AimSound
<1> HIDE DEF url
<1>3. /\ site \subseteq {RegistrableDomain(Host(url))} /\ site \subseteq Sites
      /\ ~url.port => url.site \in site
    BY <1>2, HostOf, HistoryAssumption DEF Sites
<1>4. Ticked(queue)' /\ queue' \subseteq Hosts /\ ticked \subseteq ticked' /\ promised' \subseteq Sites
  <2>1. \A h \in tasks[t].seen : ~h[2] => h[1] \in ticked'
      BY <1>1, <1>2 DEF Ticked
  <2>2. ~Host(url)[2] => Host(url)[1] \in ticked'
      BY <1>1, <1>2, <1>3, HostOf
  <2>3. promised \subseteq Sites
      BY DEF HistoryInv, HistoryTypes
  <2>4. QED
      BY <1>1, <1>2, <1>3, <2>1, <2>2, <2>3, HostOf DEF Ticked
<1>5. ASSUME ~broken' PROVE QueuedSites \subseteq QueuedSites' /\ promised' \subseteq QueuedSites'
  <2>1. promised \subseteq QueuedSites /\ queue \subseteq queue' /\ Host(url) \in queue'
      BY <1>1, <1>5 DEF HistoryInv
  <2>2. QueuedSites \subseteq QueuedSites' /\ RegistrableDomain(Host(url)) \in QueuedSites'
      BY <2>1 DEF QueuedSites
  <2>3. QED
      BY <1>1, <1>3, <2>1, <2>2
<1>6. AimSound(t)' /\ LockSound(t)'
  <2>1. tasks'[t] = Resting
      BY <1>1 DEF HistoryInv, HistoryTypes
  <2>2. QED
      BY <2>1, Kinds DEF AimSound, LockSound, IsLock
<1>7. PromisesAreKept'
    BY <1>1, HistoryBasics DEF PromisesAreKept
<1>8. \A s \in Tasks : IsLock(s) => unlocked
    BY DEF HistoryInv, LockSound
<1>9. QED
    BY <1>1, <1>4, <1>5, <1>6, <1>7, <1>8, HistoryBasics, TaskStep

LEMMA LockBeginsKeeps ==
    ASSUME HistoryInv, NEW t \in Tasks, LockBegins(t)
    PROVE  HistoryInv'
<1> DEFINE only == IF clears THEN Sites ELSE {}
           n == Task("lock", only)
<1>1. /\ unlocked /\ ~Locking /\ tasks' = [tasks EXCEPT ![t] = n]
      /\ owed' = {u \in visited : u.site \in promised}
      /\ ~broken' => ~broken /\ permitted
      /\ UNCHANGED <<saved, visited, permitted, queue, unlocked, panel, promised, ticked>>
    BY DEF LockBegins, Begins
<1>2. n \in Running /\ n.at = "permission" /\ n.for = "lock" /\ n.allowed = DomainsOf(saved)
  <2>1. only \in SUBSET Things
      BY DEF Things
  <2> HIDE DEF only
  <2>2. QED
      BY <2>1, NewTask
<1> HIDE DEF n
<1>3. tasks'[t] = n
    BY <1>1 DEF HistoryInv, HistoryTypes
<1>4. AimSound(t)'
    BY <1>1, <1>2, <1>3 DEF AimSound, DomainsOf
<1>5. LockSound(t)'
  <2>1. ~broken' => DomainsOf(owed)' \subseteq QueuedSites'
      BY <1>1, QueueStands DEF DomainsOf, HistoryInv
  <2>2. QED
      BY <1>1, <1>2, <1>3, <2>1 DEF LockSound
<1>6. PromisesAreKept' /\ owed' \subseteq Urls
    BY <1>1, HistoryBasics DEF PromisesAreKept
<1>7. \A s \in Tasks : ~ IsLock(s)
    BY <1>1 DEF Locking, IsLock
<1>8. ~broken' => promised' \subseteq QueuedSites'
    BY <1>1, QueueStands
<1>9. QED
    BY <1>1, <1>2, <1>4, <1>5, <1>6, <1>7, <1>8, HistoryBasics, QueueStands, TaskStep

(* The locks that are not this task's: none, if this one is a lock.        *)
LEMMA OtherLocks ==
    ASSUME HistoryInv, NEW t \in Tasks
    PROVE  \A s \in Tasks : s # t /\ IsLock(s) => unlocked /\ ~ IsLock(t)
BY DEF HistoryInv, OneLock, LockSound

LEMMA IsRunning ==
    ASSUME HistoryInv, NEW t \in Tasks,
           tasks[t].at \in {"permission", "vault", "search", "delete", "clear queue", "drop key"}
    PROVE  /\ tasks[t] \in Running /\ AimSound(t) /\ LockSound(t)
           /\ IsLock(t) <=> tasks[t].for = "lock"
<1>1. tasks[t] \in {Resting} \cup Running \cup Opening \cup Queueing /\ AimSound(t) /\ LockSound(t)
    BY DEF HistoryInv, HistoryTypes
<1>2. tasks[t] \in Running
    BY <1>1, Kinds
<1>3. QED
    BY <1>1, <1>2, Kinds DEF IsLock

(* A task that ends, for whatever reason, and is no lock.                  *)
LEMMA RestsKeeps ==
    ASSUME HistoryInv, NEW t \in Tasks, Rests(t), ~ IsLock(t), panel' \in Panels,
           broken => broken',
           UNCHANGED <<saved, visited, permitted, queue, unlocked, promised, ticked, owed>>
    PROVE  HistoryInv'
<1>1. tasks' = [tasks EXCEPT ![t] = Resting]
    BY DEF Rests
<1>2. tasks'[t] = Resting
    BY <1>1 DEF HistoryInv, HistoryTypes
<1>3. AimSound(t)' /\ LockSound(t)'
    BY <1>2, Kinds DEF AimSound, LockSound, IsLock
<1>4. PromisesAreKept' /\ (~broken' => promised' \subseteq QueuedSites')
    BY HistoryBasics, QueueStands DEF PromisesAreKept
<1>5. QED
    BY <1>1, <1>3, <1>4, OtherLocks, HistoryBasics, QueueStands, TaskStep

(* A lock that gives up goes on without its search: it must have an excuse *)
(* or nothing left to delete.                                              *)
LEMMA LockGoesOn ==
    ASSUME HistoryInv, NEW t \in Tasks, tasks[t] \in Running, IsLock(t), Goes(t, "clear queue"),
           broken => broken', ~broken' => owed \cap visited = {},
           UNCHANGED <<saved, visited, permitted, queue, unlocked, panel, promised, ticked, owed>>
    PROVE  HistoryInv'
<1> DEFINE n == [tasks[t] EXCEPT !.at = "clear queue"]
<1>1. tasks' = [tasks EXCEPT ![t] = n]
    BY DEF Goes
<1>2. n \in Running /\ n.at = "clear queue" /\ n.for = tasks[t].for
    BY DEF Running
<1> HIDE DEF n
<1>3. tasks'[t] = n
    BY <1>1 DEF HistoryInv, HistoryTypes
<1>4. unlocked /\ tasks[t].for = "lock" /\ PromisesAreKept'
    BY DEF HistoryInv, LockSound, IsLock, PromisesAreKept
<1>5. AimSound(t)' /\ LockSound(t)'
    BY <1>2, <1>3, <1>4 DEF AimSound, LockSound
<1>6. ~broken' => promised' \subseteq QueuedSites'
    BY QueueStands
<1>7. QED
    BY <1>1, <1>2, <1>4, <1>5, <1>6, OtherLocks, HistoryBasics, QueueStands, TaskStep

LEMMA GivesUpKeeps ==
    ASSUME HistoryInv, NEW t \in Tasks, tasks[t] \in Running,
           NEW notice \in {"ungranted", "failed"}, GivesUp(t, notice),
           broken => broken',
           IsLock(t) /\ ~broken' => owed \cap visited = {},
           UNCHANGED <<saved, visited, permitted, queue, unlocked, promised, ticked, owed>>
    PROVE  HistoryInv'
<1>1. CASE tasks[t].for = "lock"
  <2>1. IsLock(t) /\ Goes(t, "clear queue") /\ UNCHANGED panel
      BY <1>1, Kinds DEF GivesUp, IsLock
  <2>2. QED
      BY <2>1, LockGoesOn
<1>2. CASE tasks[t].for # "lock"
  <2>1. ~ IsLock(t) /\ Rests(t) /\ (panel' = [panel EXCEPT !.at = notice] \/ UNCHANGED panel)
      BY <1>2, Kinds DEF GivesUp, IsLock
  <2>2. panel' \in Panels
      BY <2>1, HistoryBasics DEF Panels
  <2>3. QED
      BY <1>2, <2>1, <2>2, RestsKeeps
<1>3. QED
    BY <1>1, <1>2

LEMMA AsksPermissionKeeps ==
    ASSUME HistoryInv, NEW t \in Tasks, AsksPermission(t)
    PROVE  HistoryInv'
<1>1. /\ tasks[t].at = "permission"
      /\ UNCHANGED <<saved, visited, permitted, queue, unlocked, promised, ticked, owed, broken>>
    BY DEF AsksPermission
<1>2. tasks[t] \in Running /\ AimSound(t) /\ LockSound(t)
    BY <1>1, IsRunning
<1>3. CASE permitted
  <2> DEFINE n == [tasks[t] EXCEPT !.at = "vault"]
  <2>1. tasks' = [tasks EXCEPT ![t] = n] /\ UNCHANGED panel
      BY <1>3 DEF AsksPermission, Goes
  <2>2. n \in Running /\ n.at = "vault" /\ n.for = tasks[t].for /\ n.allowed = tasks[t].allowed
      BY <1>2 DEF Running
  <2> HIDE DEF n
  <2>3. tasks'[t] = n
      BY <2>1 DEF HistoryInv, HistoryTypes
  <2>4. AimSound(t)'
      BY <1>1, <1>2, <2>2, <2>3 DEF AimSound, DomainsOf
  <2>5. IsLock(t)' <=> IsLock(t)
      BY <1>2, <2>2, <2>3, Kinds DEF IsLock
  <2>6. LockSound(t)'
      BY <1>1, <1>2, <2>2, <2>3, <2>5, QueueStands DEF LockSound, DomainsOf
  <2>7. PromisesAreKept'
      BY <1>1, HistoryBasics DEF PromisesAreKept
  <2>8. n.for = "lock" => IsLock(t)
      BY <1>2, <2>2, Kinds DEF IsLock
  <2>9. QED
      BY <1>1, <2>1, <2>2, <2>4, <2>6, <2>7, <2>8, OtherLocks, HistoryBasics, QueueStands, TaskStep
<1>4. CASE ~permitted
  <2>1. GivesUp(t, "ungranted") \/ GivesUp(t, "failed")
      BY <1>4 DEF AsksPermission
  <2>2. IsLock(t) => broken
      BY <1>1, <1>2, <1>4 DEF LockSound
  <2>3. QED
      BY <1>1, <1>2, <2>1, <2>2, GivesUpKeeps
<1>5. QED
    BY <1>3, <1>4

LEMMA WantedSites ==
    ASSUME HistoryInv, NEW t \in Tasks, tasks[t] \in Running, AimSound(t), tasks[t].at = "vault"
    PROVE  /\ Wanted(tasks[t]) \subseteq Things
           /\ tasks[t].for = "sites" =>
                 Wanted(tasks[t]) \subseteq tasks[t].only \cap tasks[t].allowed
           /\ tasks[t].for = "tab" => Wanted(tasks[t]) \subseteq tasks[t].only
           /\ tasks[t].for = "lock" =>
                 /\ QueuedSites \subseteq Wanted(tasks[t])
                 /\ Wanted(tasks[t]) \subseteq
                        ticked \cup {"nowhere"} \cup (tasks[t].only \cap tasks[t].allowed)
<1>1. /\ DomainsOf(saved) \subseteq tasks[t].allowed
      /\ tasks[t].for \in {"preview", "sites", "item", "tab", "lock"} /\ tasks[t].only \subseteq Things
    BY Kinds DEF AimSound
<1>2. DomainsOf(saved) \subseteq Things /\ DomainsOf(tasks[t].only \cap saved) \subseteq Things
    BY HistoryBasics DEF DomainsOf, Things, Sites
<1>3. QueuedSites \subseteq Things
    BY QueuedTicked DEF Things
<1>4. CASE tasks[t].for = "preview"
    BY <1>2, <1>4 DEF Wanted
<1>5. CASE tasks[t].for = "sites"
    BY <1>1, <1>2, <1>5 DEF Wanted
<1>6. CASE tasks[t].for = "item"
    BY <1>2, <1>6 DEF Wanted
<1>7. CASE tasks[t].for = "tab"
    BY <1>1, <1>7 DEF Wanted
<1>8. CASE tasks[t].for = "lock"
  <2>1. Wanted(tasks[t]) = QueuedSites \cup (tasks[t].only \cap DomainsOf(saved))
      BY <1>8 DEF Wanted
  <2>2. QED
      BY <1>1, <1>3, <1>8, <2>1, QueuedTicked
<1>9. QED
    BY <1>1, <1>4, <1>5, <1>6, <1>7, <1>8

LEMMA ReadsVaultKeeps ==
    ASSUME HistoryInv, NEW t \in Tasks, ReadsVault(t)
    PROVE  HistoryInv'
<1>1. /\ tasks[t].at = "vault"
      /\ UNCHANGED <<saved, visited, permitted, queue, unlocked, promised, ticked, owed>>
    BY DEF ReadsVault
<1>2. tasks[t] \in Running /\ AimSound(t) /\ LockSound(t) /\ (IsLock(t) <=> tasks[t].for = "lock")
    BY <1>1, IsRunning
<1>3. CASE /\ tasks' = [tasks EXCEPT ![t].at = "search", ![t].sites = Wanted(tasks[t])]
           /\ UNCHANGED <<panel, broken>>
  <2> DEFINE sites == Wanted(tasks[t])
             n == [tasks[t] EXCEPT !.at = "search", !.sites = sites]
  <2>1. tasks' = [tasks EXCEPT ![t] = n]
      BY <1>3 DEF HistoryInv, HistoryTypes
  <2>2. sites \subseteq Things
      BY <1>1, <1>2, WantedSites
  <2> HIDE DEF sites
  <2>3. /\ n \in Running /\ n.at = "search" /\ n.for = tasks[t].for /\ n.sites = sites
        /\ n.only = tasks[t].only /\ n.allowed = tasks[t].allowed
      BY <1>2, <2>2 DEF Running
  <2> HIDE DEF n
  <2>4. tasks'[t] = n
      BY <2>1 DEF HistoryInv, HistoryTypes
  <2>5. AimSound(t)'
    <3>1. /\ tasks[t].for = "sites" => sites \subseteq tasks[t].only \cap tasks[t].allowed
          /\ tasks[t].for = "tab" => sites \subseteq tasks[t].only
          /\ tasks[t].for = "lock" =>
                sites \subseteq ticked \cup {"nowhere"} \cup (tasks[t].only \cap tasks[t].allowed)
        BY <1>1, <1>2, WantedSites DEF sites
    <3>2. QED
        BY <1>1, <2>3, <2>4, <3>1 DEF AimSound
  <2>6. LockSound(t)'
    <3>1. tasks[t].for = "lock" => QueuedSites \subseteq sites
        BY <1>1, <1>2, WantedSites DEF sites
    <3>2. IsLock(t)' => IsLock(t)
        BY <1>2, <2>3, <2>4, Kinds DEF IsLock
    <3>3. IsLock(t) /\ ~broken => DomainsOf(owed) \subseteq sites
        BY <1>1, <1>2, <3>1 DEF LockSound
    <3>4. QED
        BY <1>1, <1>2, <1>3, <2>3, <2>4, <3>2, <3>3 DEF LockSound, DomainsOf
  <2>7. PromisesAreKept'
      BY <1>1, <1>3, HistoryBasics DEF PromisesAreKept
  <2>8. QED
      BY <1>1, <1>2, <1>3, <2>1, <2>3, <2>5, <2>6, <2>7, OtherLocks, HistoryBasics, QueueStands, TaskStep
<1>4. CASE ~unlocked /\ GivesUp(t, "failed") /\ UNCHANGED broken
  <2>1. ~ IsLock(t)
      BY <1>2, <1>4 DEF LockSound
  <2>2. QED
      BY <1>1, <1>2, <1>4, <2>1, GivesUpKeeps
<1>5. CASE GivesUp(t, "failed") /\ broken' = (broken \/ tasks[t].for = "lock")
    BY <1>1, <1>2, <1>5, GivesUpKeeps
<1>6. QED
    BY <1>3, <1>4, <1>5 DEF ReadsVault

(* What a search finds is on one of its sites, and all of it is found.     *)
LEMMA WhatIsFound ==
    ASSUME HistoryInv, NEW t \in Tasks
    PROVE  /\ Found(tasks[t]) \subseteq Urls
           /\ \A u \in Found(tasks[t]) : u.site \in tasks[t].sites /\ u.site # "nowhere"
           /\ tasks[t].for = "item" =>
                 \A u \in Found(tasks[t]), item \in tasks[t].only : SamePage(item, u)
           /\ tasks[t].for # "item" =>
                 \A u \in visited : u.site \in tasks[t].sites => u \in Found(tasks[t])
           /\ DomainsOf(Scan(tasks[t].sites)) \subseteq Sites
<1>1. /\ Scan(tasks[t].sites) \subseteq Urls
      /\ \A u \in Scan(tasks[t].sites) : u.site \in tasks[t].sites /\ u.site # "nowhere"
      /\ \A u \in visited : u.site \in tasks[t].sites => u \in Scan(tasks[t].sites)
    BY HistoryBasics, HistoryAssumption DEF Scan
<1>2. DomainsOf(Scan(tasks[t].sites)) \subseteq Sites
    BY <1>1 DEF DomainsOf, Sites
<1>3. QED
    BY <1>1, <1>2 DEF Found

LEMMA SearchesKeeps ==
    ASSUME HistoryInv, NEW t \in Tasks, Searches(t)
    PROVE  HistoryInv'
<1>1. /\ tasks[t].at = "search"
      /\ UNCHANGED <<saved, visited, permitted, queue, unlocked, promised, ticked, owed, broken>>
    BY DEF Searches
<1>2. tasks[t] \in Running /\ AimSound(t) /\ LockSound(t) /\ (IsLock(t) <=> tasks[t].for = "lock")
    BY <1>1, IsRunning
<1>3. CASE tasks[t].for = "preview"
  <2>1. /\ panel' = [at |-> "preview", sites |-> DomainsOf(Scan(tasks[t].sites))]
        /\ Rests(t) /\ ~ IsLock(t)
      BY <1>2, <1>3 DEF Searches
  <2>2. panel' \in Panels
      BY <2>1, WhatIsFound DEF Panels
  <2>3. QED
      BY <1>1, <2>1, <2>2, RestsKeeps
<1>4. CASE tasks[t].for # "preview"
  <2> DEFINE found == Found(tasks[t])
             n == [tasks[t] EXCEPT !.at = "delete", !.urls = found]
  <2>1. tasks' = [tasks EXCEPT ![t] = n] /\ UNCHANGED panel
      BY <1>4 DEF Searches, HistoryInv, HistoryTypes
  <2>2. found \subseteq Urls
      BY WhatIsFound
  <2> HIDE DEF found
  <2>3. /\ n \in Running /\ n.at = "delete" /\ n.for = tasks[t].for /\ n.urls = found
        /\ n.only = tasks[t].only /\ n.allowed = tasks[t].allowed
      BY <1>2, <2>2 DEF Running
  <2> HIDE DEF n
  <2>4. tasks'[t] = n
      BY <2>1 DEF HistoryInv, HistoryTypes
  <2>5. AimSound(t)'
    <3>1. /\ \A u \in found : u.site \in tasks[t].sites /\ u.site # "nowhere"
          /\ tasks[t].for = "item" => \A u \in found, item \in tasks[t].only : SamePage(item, u)
        BY WhatIsFound DEF found
    <3>2. /\ tasks[t].for = "sites" =>
                \A u \in found : u.site \in tasks[t].only \cap tasks[t].allowed
          /\ tasks[t].for = "tab" => \A u \in found : u.site \in tasks[t].only
          /\ tasks[t].for = "lock" =>
                \A u \in found : u.site \in ticked \cup (tasks[t].only \cap tasks[t].allowed)
        BY <1>1, <1>2, <3>1 DEF AimSound
    <3>3. QED
        BY <1>1, <1>4, <2>3, <2>4, <3>1, <3>2 DEF AimSound, SamePage
  <2>6. LockSound(t)'
    <3>1. IsLock(t)' => IsLock(t)
        BY <1>2, <2>3, <2>4, Kinds DEF IsLock
    <3>2. IsLock(t) /\ ~broken => \A u \in owed : u.site \in tasks[t].sites
        BY <1>1 , <1>2 DEF LockSound, DomainsOf
    <3>3. IsLock(t) /\ ~broken => owed \cap visited \subseteq found
        BY <1>2, <3>2, WhatIsFound DEF found
    <3>4. QED
        BY <1>1, <1>2, <2>3, <2>4, <3>1, <3>3 DEF LockSound
  <2>7. PromisesAreKept'
      BY <1>1, HistoryBasics DEF PromisesAreKept
  <2>8. QED
      BY <1>1, <1>2, <2>1, <2>3, <2>5, <2>6, <2>7, OtherLocks, HistoryBasics, QueueStands, TaskStep
<1>5. QED
    BY <1>3, <1>4

LEMMA DeletesOneKeeps ==
    ASSUME HistoryInv, NEW t \in Tasks, DeletesOne(t)
    PROVE  HistoryInv'
<1>1. /\ tasks[t].at = "delete"
      /\ UNCHANGED <<saved, permitted, queue, unlocked, panel, promised, ticked, owed>>
    BY DEF DeletesOne
<1>2. tasks[t] \in Running /\ AimSound(t) /\ LockSound(t) /\ (IsLock(t) <=> tasks[t].for = "lock")
    BY <1>1, IsRunning
<1>3. PICK u \in tasks[t].urls :
          /\ tasks' = [tasks EXCEPT ![t].urls = @ \ {u}]
          /\ \/ visited' = visited \ {u} /\ UNCHANGED broken
             \/ broken' = (broken \/ tasks[t].for = "lock") /\ UNCHANGED visited
    BY DEF DeletesOne
<1> DEFINE n == [tasks[t] EXCEPT !.urls = @ \ {u}]
<1>4. tasks' = [tasks EXCEPT ![t] = n]
    BY <1>3
<1>5. /\ n \in Running /\ n.at = "delete" /\ n.for = tasks[t].for /\ n.urls = tasks[t].urls \ {u}
      /\ n.only = tasks[t].only /\ n.allowed = tasks[t].allowed
    BY <1>1, <1>2 DEF Running
<1> HIDE DEF n
<1>6. tasks'[t] = n
    BY <1>4 DEF HistoryInv, HistoryTypes
<1>7. AimSound(t)'
    BY <1>1, <1>2, <1>5, <1>6 DEF AimSound, SamePage
<1>8. /\ ~broken' => ~broken
      /\ IsLock(t) /\ ~broken' => visited' = visited \ {u}
      /\ visited' \subseteq visited
  <2>1. CASE visited' = visited \ {u} /\ UNCHANGED broken
      BY <2>1
  <2>2. CASE broken' = (broken \/ tasks[t].for = "lock") /\ UNCHANGED visited
      BY <1>2, <2>2
  <2>3. QED
      BY <1>3, <2>1, <2>2
<1>9. LockSound(t)'
  <2>1. IsLock(t)' => IsLock(t)
      BY <1>2, <1>5, <1>6, Kinds DEF IsLock
  <2>2. IsLock(t) /\ ~broken' => owed \cap visited' \subseteq n.urls
      BY <1>1, <1>2, <1>5, <1>8 DEF LockSound
  <2>3. QED
      BY <1>1, <1>2, <1>5, <1>6, <2>1, <2>2 DEF LockSound
<1>10. PromisesAreKept'
    BY <1>1, <1>8, HistoryBasics DEF PromisesAreKept
<1>11. /\ ~broken' => promised' \subseteq QueuedSites'
       /\ n.for = "lock" => IsLock(t)
    BY <1>1, <1>2, <1>5, <1>8, QueueStands
<1>12. QED
    BY <1>1, <1>4, <1>5, <1>7, <1>8, <1>9, <1>10, <1>11, OtherLocks, HistoryBasics, QueueStands, TaskStep

LEMMA FinishesKeeps ==
    ASSUME HistoryInv, NEW t \in Tasks, Finishes(t)
    PROVE  HistoryInv'
<1>1. /\ tasks[t].at = "delete" /\ tasks[t].urls = {}
      /\ UNCHANGED <<saved, visited, permitted, queue, unlocked, promised, ticked, owed, broken>>
    BY DEF Finishes
<1>2. tasks[t] \in Running /\ LockSound(t) /\ (IsLock(t) <=> tasks[t].for = "lock")
    BY <1>1, IsRunning
<1>3. CASE tasks[t].for = "lock"
  <2>1. Goes(t, "clear queue") /\ UNCHANGED panel /\ IsLock(t)
      BY <1>2, <1>3 DEF Finishes
  <2>2. ~broken => owed \cap visited = {}
      BY <1>1, <1>2, <2>1 DEF LockSound
  <2>3. QED
      BY <1>1, <1>2, <2>1, <2>2, LockGoesOn
<1>4. CASE tasks[t].for # "lock"
  <2>1. Rests(t) /\ ~ IsLock(t)
      BY <1>2, <1>4 DEF Finishes
  <2>2. panel' \in Panels
      BY <1>4, HistoryBasics DEF Finishes, Panels
  <2>3. QED
      BY <1>1, <2>1, <2>2, RestsKeeps
<1>5. QED
    BY <1>3, <1>4

(* The end of a lock: the queue is emptied, then the key is dropped.       *)
LEMMA LockEndsKeeps ==
    ASSUME HistoryInv, NEW t \in Tasks, ClearsQueue(t) \/ DropsKey(t)
    PROVE  HistoryInv'
<1>1. /\ tasks[t].at \in {"clear queue", "drop key"} /\ queue' = {} /\ promised' = {}
      /\ UNCHANGED <<saved, visited, permitted, panel, ticked, owed, broken>>
    BY DEF ClearsQueue, DropsKey
<1>2. tasks[t] \in Running /\ AimSound(t) /\ LockSound(t) /\ (IsLock(t) <=> tasks[t].for = "lock")
    BY <1>1, IsRunning
<1>3. IsLock(t) /\ unlocked /\ (~broken => owed \cap visited = {})
    BY <1>1, <1>2 DEF AimSound, LockSound
<1>4. Ticked(queue)' /\ PromisesAreKept'
    BY <1>1, <1>3 DEF Ticked, PromisesAreKept
<1>5. CASE ClearsQueue(t)
  <2> DEFINE n == [tasks[t] EXCEPT !.at = "drop key"]
  <2>1. tasks' = [tasks EXCEPT ![t] = n] /\ UNCHANGED unlocked
      BY <1>5 DEF ClearsQueue, Goes
  <2>2. n \in Running /\ n.at = "drop key" /\ n.for = tasks[t].for
      BY <1>2 DEF Running
  <2> HIDE DEF n
  <2>3. tasks'[t] = n
      BY <2>1 DEF HistoryInv, HistoryTypes
  <2>4. AimSound(t)' /\ LockSound(t)'
      BY <1>1, <1>2, <1>3, <2>1, <2>2, <2>3 DEF AimSound, LockSound
  <2>5. QED
      BY <1>1, <1>3, <1>4, <2>1, <2>2, <2>4, OtherLocks, HistoryBasics, TaskStep
<1>6. CASE DropsKey(t)
  <2>1. tasks' = [tasks EXCEPT ![t] = Resting]
      BY <1>6 DEF DropsKey, Rests
  <2>2. tasks'[t] = Resting
      BY <2>1 DEF HistoryInv, HistoryTypes
  <2>3. AimSound(t)' /\ LockSound(t)'
      BY <2>2, Kinds DEF AimSound, LockSound, IsLock
  <2>4. QED
      BY <1>1, <1>3, <1>4, <2>1, <2>3, OtherLocks, HistoryBasics, TaskStep
<1>7. QED
    BY <1>5, <1>6

LEMMA HistoryStands ==
    ASSUME HistoryInv, UNCHANGED history
    PROVE  HistoryInv'
<1>1. PromisesAreKept'
    BY HistoryBasics DEF history, PromisesAreKept
<1>2. Locking => unlocked
    BY DEF HistoryInv, LockSound, IsLock, Locking
<1>3. QED
    BY <1>1, <1>2, HistoryBasics, QueueStands, WorldStep DEF history

LEMMA HistoryKeeps == HistoryInv /\ [HistoryNext]_history => HistoryInv'
<1> SUFFICES ASSUME HistoryInv, [HistoryNext]_history PROVE HistoryInv'
    OBVIOUS
<1>1. CASE UNCHANGED history
    BY <1>1, HistoryStands
<1>2. CASE HistoryNext
    BY <1>2, WorldKeeps, EditedVaultKeeps, DeadWorkerKeeps, AskedKeeps, OpensKeeps, ReadsQueueKeeps,
       WritesQueueKeeps, LockBeginsKeeps, AsksPermissionKeeps, ReadsVaultKeeps, SearchesKeeps,
       DeletesOneKeeps, FinishesKeeps, LockEndsKeeps
    DEF HistoryNext
<1>3. QED
    BY <1>1, <1>2

(* What the user ticked "clear this afterwards" is gone from history when  *)
(* the lock ends, unless one of the named excuses applies: for any URLs,   *)
(* whatever chrome.history.search() over-matches, with any number of tasks *)
(* running and the user visiting, editing and flipping settings meanwhile. *)
THEOREM PromisesAreAlwaysKept == HistorySpec => []PromisesAreKept
<1>1. HistoryInv => PromisesAreKept
    BY HistoryBasics
<1>2. QED
    BY InitHistory, HistoryKeeps, <1>1, PTL DEF HistorySpec

(* No entry of the browser's history goes that its task was not asked for  *)
(* and the vault did not hold since.                                       *)
THEOREM OnlyVaultedHistoryEverGoes == HistorySpec => OnlyVaultedHistoryGoes
<1> DEFINE Goes1(u, t) ==
        /\ tasks[t].at = "delete"
        /\ CASE tasks[t].for = "sites" -> u.site \in tasks[t].only \cap tasks[t].allowed
             [] tasks[t].for = "item" -> \A item \in tasks[t].only : SamePage(item, u)
             [] tasks[t].for = "tab" -> u.site \in tasks[t].only
             [] tasks[t].for = "lock" ->
                    u.site \in ticked \cup (tasks[t].only \cap tasks[t].allowed)
           Justified == \A u \in visited \ visited' : \E t \in Tasks : Goes1(u, t)
<1>1. HistoryInv /\ [HistoryNext]_history => [Justified]_history
  <2> SUFFICES ASSUME HistoryInv, HistoryNext, NEW u \in visited \ visited'
               PROVE  \E t \in Tasks : Goes1(u, t)
      OBVIOUS
  <2>1. PICK t \in Tasks : DeletesOne(t)
    <3>1. visited' # visited /\ ~(visited \subseteq visited')
        OBVIOUS
    <3>2. ~(\E s \in Tasks : Opens(s)) /\ ~Visits
        BY <3>1 DEF Opens, Visits
    <3>3. ~VaultEdited /\ ~PermissionFlips /\ ~SettingFlips /\ ~Unlocks /\ ~HistoryWorkerDies
          /\ ~Grants /\ ~Reopens /\ ~Panics
        BY <3>1 DEF VaultEdited, PermissionFlips, SettingFlips, Unlocks, HistoryWorkerDies, Grants,
                    Reopens, Panics
    <3>4. \A s \in Tasks :
              /\ ~Checks(s) /\ ~Confirms(s) /\ ~Forgets(s) /\ ~QuickCloses(s) /\ ~ReadsQueue(s)
              /\ ~WritesQueue(s) /\ ~LockBegins(s) /\ ~AsksPermission(s) /\ ~ReadsVault(s)
              /\ ~Searches(s) /\ ~Finishes(s) /\ ~ClearsQueue(s) /\ ~DropsKey(s)
        BY <3>1 DEF Checks, Confirms, Forgets, QuickCloses, ReadsQueue, WritesQueue, LockBegins,
                    AsksPermission, ReadsVault, Searches, Finishes, ClearsQueue, DropsKey
    <3>5. QED
        BY <3>2, <3>3, <3>4 DEF HistoryNext
  <2>2. tasks[t].at = "delete" /\ u \in tasks[t].urls
      BY <2>1 DEF DeletesOne
  <2>3. tasks[t] \in Running /\ AimSound(t)
      BY <2>2, IsRunning
  <2>4. tasks[t].for \in {"sites", "item", "tab", "lock"}
      BY <2>2, <2>3, Kinds DEF AimSound
  <2>5. /\ tasks[t].for = "sites" => u.site \in tasks[t].only \cap tasks[t].allowed
        /\ tasks[t].for = "item" => \A item \in tasks[t].only : SamePage(item, u)
        /\ tasks[t].for = "tab" => u.site \in tasks[t].only
        /\ tasks[t].for = "lock" => u.site \in ticked \cup (tasks[t].only \cap tasks[t].allowed)
      BY <2>2, <2>3 DEF AimSound
  <2>6. Goes1(u, t)
    <3>1. CASE tasks[t].for = "sites"
        BY <2>2, <2>5, <3>1
    <3>2. CASE tasks[t].for = "item"
        BY <2>2, <2>5, <3>2
    <3>3. CASE tasks[t].for = "tab"
        BY <2>2, <2>5, <3>3
    <3>4. CASE tasks[t].for = "lock"
        BY <2>2, <2>5, <3>4
    <3>5. QED
        BY <2>4, <3>1, <3>2, <3>3, <3>4
  <2>7. QED
      BY <2>6
<1>2. HistorySpec => [][Justified]_history
    BY InitHistory, HistoryKeeps, <1>1, PTL DEF HistorySpec
<1>3. QED
    BY <1>2 DEF OnlyVaultedHistoryGoes

-----------------------------------------------------------------------------
(* The watch over the focus                                                *)

Messages == {"connect", "focused", "blurred", "gone"}
Places == Windows \cup BeaconPages \cup {Away}
Holders == Windows \cup {HomeOfTab, Nowhere}

FocusTypes ==
    /\ user \in Places
    /\ lastWindow \in Windows \cup {HomeOfTab}
    /\ port \in SUBSET BeaconPages
    /\ beacons \in SUBSET BeaconPages
    /\ toWorker \in [BeaconPages -> Seq(Messages)]
    /\ session \in [unlocked : BOOLEAN, holder : Holders, on : BOOLEAN]
    /\ seen \in [present : BOOLEAN, left : BOOLEAN, moves : Nat]

LastWord(s) == s[Len(s)]

(* A connection announced in s outlives it; none that stands is ended.     *)
WillConnect(s) == \E i \in 1 .. Len(s) : s[i] = "connect" /\ \A k \in 1 .. Len(s) : k > i => s[k] # "gone"
NeverGone(s) == \A k \in 1 .. Len(s) : s[k] # "gone"

(* The last thing a page said is whether it has the focus, and a page with *)
(* a port is or will be in the worker's set.                               *)
PagesSpeakTruly ==
    /\ \A p \in BeaconPages :
          toWorker[p] # <<>> =>
              /\ LastWord(toWorker[p]) # "connect"
              /\ LastWord(toWorker[p]) = "focused" <=> user = p
    /\ user \in BeaconPages => user \in port
    /\ \A p \in port : WillConnect(toWorker[p]) \/ (p \in beacons /\ NeverGone(toWorker[p]))

(* A sample whose outcome is judged: the user was there all the time and   *)
(* moved once at most.                                                     *)
Judged == ~seen.left /\ seen.moves \in {0, 1}

SampleSound ==
    /\ sample \in {"settling", "looking", "locking"} =>
          /\ IsThere(user, session.holder) => seen.present
          /\ Judged => IsThere(user, session.holder)
    /\ sample = "settling" =>
          /\ \A p \in focusedPages \cap BeaconPages : toWorker[p] = <<>> => seen.present
          /\ Judged /\ user \in BeaconPages =>
                user \in pinged \/ toWorker[user] # <<>> \/ user \in focusedPages
    /\ sample \in {"settling", "looking"} => (Judged /\ seen.moves = 0 => user \in BeaconPages)
    /\ sample = "looking" => (Judged => user \notin BeaconPages)
    /\ sample = "locking" => ~Judged

FocusInv ==
    /\ FocusTypes
    /\ focusedPages \in SUBSET BeaconPages
    /\ PagesSpeakTruly
    /\ SampleSound
    /\ SamplesTellTheTruth

LEMMA Joined ==
    ASSUME NEW s \in Seq(Messages), NEW o \in Seq(Messages)
    PROVE  /\ s \o o \in Seq(Messages) /\ Len(s \o o) = Len(s) + Len(o)
           /\ \A i \in 1 .. Len(o) : (s \o o)[Len(s) + i] = o[i]
<1>1. s \o o \in Seq(Messages)
    OBVIOUS
<1>2. Len(s \o o) = Len(s) + Len(o)
    OBVIOUS
<1>3. ASSUME NEW i \in 1 .. Len(o) PROVE (s \o o)[Len(s) + i] = o[i]
    OBVIOUS
<1>4. QED
    BY <1>1, <1>2, <1>3

(* What a page says next, and what it says when it opens a port.           *)
LEMMA SaysMore ==
    ASSUME NEW s \in Seq(Messages), NEW m \in Messages
    PROVE  /\ Append(s, m) \in Seq(Messages) /\ Append(s, m) # <<>>
           /\ LastWord(Append(s, m)) = m
           /\ m # "gone" /\ WillConnect(s) => WillConnect(Append(s, m))
           /\ m # "gone" /\ NeverGone(s) => NeverGone(Append(s, m))
<1> DEFINE t == Append(s, m)
<1>1. /\ t \in Seq(Messages) /\ Len(t) = Len(s) + 1 /\ t[Len(t)] = m
      /\ \A i \in 1 .. Len(s) : t[i] = s[i]
    OBVIOUS
<1> HIDE DEF t
<1>2. Len(s) \in Nat
    OBVIOUS
<1>3. t # <<>> /\ LastWord(t) = m
    BY <1>1, <1>2 DEF LastWord
<1>4. m # "gone" /\ WillConnect(s) => WillConnect(t)
    BY <1>1, <1>2 DEF WillConnect
<1>5. m # "gone" /\ NeverGone(s) => NeverGone(t)
    BY <1>1, <1>2 DEF NeverGone
<1>6. QED
    BY <1>1, <1>3, <1>4, <1>5 DEF t

OpeningWords == <<"connect", "focused">>

LEMMA OpeningSays ==
    /\ OpeningWords \in Seq(Messages) /\ OpeningWords # <<>>
    /\ LastWord(OpeningWords) = "focused" /\ WillConnect(OpeningWords)
<1>1. OpeningWords \in Seq(Messages) /\ Len(OpeningWords) = 2 /\ OpeningWords[1] = "connect" /\ OpeningWords[2] = "focused"
    BY DEF OpeningWords, Messages
<1>2. OpeningWords # <<>>
    BY DEF OpeningWords
<1>3. LastWord(OpeningWords) = "focused"
    BY <1>1 DEF LastWord
<1>4. WillConnect(OpeningWords)
    BY <1>1 DEF WillConnect
<1>5. QED
    BY <1>1, <1>2, <1>3, <1>4

LEMMA OpensAgain ==
    ASSUME NEW s \in Seq(Messages)
    PROVE  /\ s \o OpeningWords \in Seq(Messages) /\ s \o OpeningWords # <<>>
           /\ LastWord(s \o OpeningWords) = "focused"
           /\ WillConnect(s \o OpeningWords)
<1>1. PICK o \in Seq(Messages) : o = OpeningWords /\ Len(o) = 2 /\ o[1] = "connect" /\ o[2] = "focused"
  <2>1. OpeningWords \in Seq(Messages) /\ Len(OpeningWords) = 2 /\ OpeningWords[1] = "connect" /\ OpeningWords[2] = "focused"
      BY DEF OpeningWords, Messages
  <2>2. QED
      BY <2>1
<1> DEFINE t == s \o o
<1>2. /\ t \in Seq(Messages) /\ Len(t) = Len(s) + 2
      /\ t[Len(s) + 1] = "connect" /\ t[Len(s) + 2] = "focused"
  <2>1. /\ t \in Seq(Messages) /\ Len(t) = Len(s) + Len(o)
        /\ \A i \in 1 .. Len(o) : t[Len(s) + i] = o[i]
      BY Joined
  <2> HIDE DEF t
  <2>2. QED
      BY <1>1, <2>1
<1> HIDE DEF t
<1>3. Len(s) \in Nat
    OBVIOUS
<1>4. t # <<>> /\ LastWord(t) = "focused"
    BY <1>2, <1>3 DEF LastWord
<1>5. WillConnect(t)
    BY <1>2, <1>3 DEF WillConnect
<1>6. QED
    BY <1>1, <1>2, <1>4, <1>5 DEF t

(* The worker has heard the first word of s.                               *)
LEMMA HearsFirst ==
    ASSUME NEW s \in Seq(Messages), s # <<>>
    PROVE  /\ Tail(s) \in Seq(Messages) /\ Head(s) \in Messages
           /\ Tail(s) # <<>> => LastWord(Tail(s)) = LastWord(s)
           /\ Tail(s) = <<>> => Head(s) = LastWord(s)
           /\ WillConnect(s) => WillConnect(Tail(s)) \/ (Head(s) = "connect" /\ NeverGone(Tail(s)))
           /\ NeverGone(s) => Head(s) # "gone" /\ NeverGone(Tail(s))
<1> DEFINE t == Tail(s)
<1>1. /\ t \in Seq(Messages) /\ Len(t) = Len(s) - 1 /\ Len(s) \in Nat \ {0} /\ Head(s) = s[1]
      /\ \A i \in 1 .. Len(t) : t[i] = s[i + 1]
    OBVIOUS
<1>2. Head(s) \in Messages
    BY <1>1
<1> HIDE DEF t
<1>3. t # <<>> => Len(t) # 0
    BY <1>1
<1>4. t # <<>> => LastWord(t) = LastWord(s)
    BY <1>1, <1>3 DEF LastWord
<1>5. t = <<>> => Head(s) = LastWord(s)
  <2>1. t = <<>> => Len(t) = 0
      OBVIOUS
  <2>2. QED
      BY <1>1, <2>1 DEF LastWord
<1>6. ASSUME WillConnect(s) PROVE WillConnect(t) \/ (Head(s) = "connect" /\ NeverGone(t))
  <2>1. PICK i \in 1 .. Len(s) : s[i] = "connect" /\ \A k \in 1 .. Len(s) : k > i => s[k] # "gone"
      BY <1>6 DEF WillConnect
  <2>2. CASE i = 1
      BY <1>1, <2>1, <2>2 DEF NeverGone
  <2>3. CASE i # 1
    <3>1. i - 1 \in 1 .. Len(t) /\ t[i - 1] = "connect"
        BY <1>1, <2>1, <2>3
    <3>2. \A k \in 1 .. Len(t) : k > i - 1 => t[k] # "gone"
        BY <1>1, <2>1, <2>3
    <3>3. QED
        BY <3>1, <3>2 DEF WillConnect
  <2>4. QED
      BY <2>2, <2>3
<1>7. NeverGone(s) => Head(s) # "gone" /\ NeverGone(t)
    BY <1>1 DEF NeverGone
<1>8. QED
    BY <1>1, <1>2, <1>4, <1>5, <1>6, <1>7 DEF t

LEMMA Pages2 == Tab # Popup /\ BeaconPages = {Tab, Popup} /\ BeaconPages \cap Windows = {} /\ Nowhere \notin Windows
BY FocusWatchAssumption DEF BeaconPages

LEMMA InitFocus == FocusWatchInit => FocusInv
<1> SUFFICES ASSUME FocusWatchInit PROVE FocusInv
    OBVIOUS
<1>1. /\ user \in Windows /\ lastWindow = user /\ port = {Tab} /\ beacons = {Tab} /\ focusedPages = {}
      /\ toWorker = [p \in BeaconPages |-> <<>>] /\ sample = "none" /\ verdict = "none"
    BY DEF FocusWatchInit
<1>2. session \in [unlocked : BOOLEAN, holder : Holders, on : BOOLEAN]
  <2>1. \A x, y \in BOOLEAN, h \in Holders :
            [unlocked |-> x, holder |-> h, on |-> y] \in [unlocked : BOOLEAN, holder : Holders, on : BOOLEAN]
      BY Zenon
  <2>2. TRUE \in BOOLEAN /\ user \in Holders
      BY <1>1 DEF Holders
  <2>3. session = [unlocked |-> TRUE, holder |-> user, on |-> TRUE]
      BY DEF FocusWatchInit
  <2>4. QED
      BY <2>1, <2>2, <2>3
<1>3. seen \in [present : BOOLEAN, left : BOOLEAN, moves : Nat]
  <2>1. \A x, y \in BOOLEAN, n \in Nat :
            [present |-> x, left |-> y, moves |-> n] \in [present : BOOLEAN, left : BOOLEAN, moves : Nat]
      BY Zenon
  <2>2. FALSE \in BOOLEAN /\ 0 \in Nat
      OBVIOUS
  <2>3. seen = [present |-> FALSE, left |-> FALSE, moves |-> 0]
      BY DEF FocusWatchInit
  <2>4. QED
      BY <2>1, <2>2, <2>3
<1>4. \A p \in BeaconPages : toWorker[p] = <<>>
    BY <1>1
<1>5. FocusTypes
    BY <1>1, <1>2, <1>3, Pages2 DEF FocusTypes, Places
<1>6. PagesSpeakTruly
  <2>1. NeverGone(<<>>)
      BY DEF NeverGone
  <2>2. user \notin BeaconPages
      BY <1>1, Pages2
  <2>3. QED
      BY <1>1, <1>4, <2>1, <2>2, Pages2 DEF PagesSpeakTruly
<1>7. SampleSound /\ SamplesTellTheTruth /\ focusedPages \in SUBSET BeaconPages
    BY <1>1 DEF SampleSound, SamplesTellTheTruth
<1>8. QED
    BY <1>5, <1>6, <1>7 DEF FocusInv

(* What the wire of one page holds after the focus has moved to at.        *)
LEMMA WireAfterMove ==
    ASSUME FocusInv, NEW at \in Places \ {user}, NEW silent \in BOOLEAN, NEW p \in BeaconPages,
           silent => user = Tab /\ toWorker[Tab] = <<>>,
           toWorker'[p] =
                IF p = Popup /\ user = Popup THEN Append(toWorker[p], "gone")
                ELSE IF p = at \/ (p = user /\ ~(silent /\ p = Tab))
                  THEN IF p = Popup THEN toWorker[p] \o <<"connect", "focused">>
                       ELSE Reported(toWorker, p, at)
                ELSE toWorker[p],
           port' = (port \ {Popup}) \cup (BeaconPages \cap {at})
    PROVE  /\ toWorker'[p] \in Seq(Messages)
           /\ toWorker'[p] # <<>> =>
                  /\ LastWord(toWorker'[p]) # "connect"
                  /\ LastWord(toWorker'[p]) = "focused" <=> at = p
           /\ p \in port' => WillConnect(toWorker'[p]) \/ (p \in beacons /\ NeverGone(toWorker'[p]))
           /\ p = at => toWorker'[p] # <<>>
           /\ toWorker'[p] = <<>> => toWorker[p] = <<>>
<1>1. PICK s \in Seq(Messages) : s = toWorker[p]
    BY DEF FocusInv, FocusTypes
<1>2. /\ s # <<>> => LastWord(s) # "connect" /\ (LastWord(s) = "focused" <=> user = p)
      /\ user = p => p \in port
      /\ p \in port => WillConnect(s) \/ (p \in beacons /\ NeverGone(s))
    BY <1>1 DEF FocusInv, PagesSpeakTruly
<1>3. {"gone", "focused", "blurred"} \subseteq Messages
    BY DEF Messages
<1>4. CASE p = at /\ p = Popup
  <2>1. toWorker'[p] = s \o OpeningWords
      BY <1>1, <1>4 DEF OpeningWords
  <2>2. QED
      BY <1>4, <2>1, OpensAgain
<1>5. CASE p = at /\ p # Popup
  <2>1. CASE p \in port
    <3>1. toWorker'[p] = Append(s, "focused")
        BY <1>1, <1>5, <2>1 DEF Reported, Report
    <3>2. QED
        BY <1>2, <1>3, <1>5, <2>1, <3>1, SaysMore
  <2>2. CASE p \notin port
    <3>1. toWorker'[p] = OpeningWords
        BY <1>5, <2>2 DEF Reported, OpeningWords
    <3>2. QED
        BY <1>5, <3>1, OpeningSays
  <2>3. QED
      BY <2>1, <2>2
<1>6. CASE p # at /\ p = user /\ p = Popup
  <2>1. toWorker'[p] = Append(s, "gone")
      BY <1>1, <1>6
  <2>2. p \notin port'
      BY <1>6
  <2>3. QED
      BY <1>3, <1>6, <2>1, <2>2, SaysMore
<1>7. CASE p # at /\ p = user /\ p # Popup /\ ~silent
  <2>1. toWorker'[p] = Append(s, "blurred")
      BY <1>1, <1>2, <1>7 DEF Reported, Report
  <2>2. QED
      BY <1>2, <1>3, <1>7, <2>1, SaysMore
<1>8. CASE p # at /\ p = user /\ p # Popup /\ silent
  <2>1. p = Tab /\ toWorker'[p] = s /\ s = <<>>
      BY <1>1, <1>8, Pages2
  <2>2. QED
      BY <1>1, <1>2, <1>8, <2>1
<1>9. CASE p # at /\ p # user
  <2>1. toWorker'[p] = s
      BY <1>1, <1>9
  <2>2. p \in port' => p \in port
      BY <1>9
  <2>3. QED
      BY <1>1, <1>2, <1>9, <2>1, <2>2
<1>10. QED
    BY <1>4, <1>5, <1>6, <1>7, <1>8, <1>9

(* The user is seen at another place.                                      *)
LEMMA Witnesses ==
    ASSUME FocusTypes, NEW at, seen' = [Witnessed(at) EXCEPT !.moves = @ + 1]
    PROVE  /\ seen' \in [present : BOOLEAN, left : BOOLEAN, moves : Nat]
           /\ seen'.present <=> seen.present \/ IsThere(at, session.holder)
           /\ seen'.left <=> seen.left \/ ~IsThere(at, session.holder)
           /\ seen'.moves = seen.moves + 1
<1>1. PICK x \in BOOLEAN : x <=> seen.present \/ IsThere(at, session.holder)
    OBVIOUS
<1>2. PICK y \in BOOLEAN : y <=> seen.left \/ ~IsThere(at, session.holder)
    OBVIOUS
<1>3. Witnessed(at) = [present |-> x, left |-> y, moves |-> seen.moves]
  <2>1. x = (seen.present \/ IsThere(at, session.holder))
      BY <1>1
  <2>2. y = (seen.left \/ ~IsThere(at, session.holder))
      BY <1>2
  <2>3. QED
      BY <2>1, <2>2 DEF Witnessed
<1>4. seen' = [present |-> x, left |-> y, moves |-> seen.moves + 1]
    BY <1>3
<1>5. seen.moves + 1 \in Nat
    BY DEF FocusTypes
<1>6. \A n \in Nat : [present |-> x, left |-> y, moves |-> n] \in [present : BOOLEAN, left : BOOLEAN, moves : Nat]
    BY Zenon
<1>7. seen'.present = x /\ seen'.left = y /\ seen'.moves = seen.moves + 1
    BY <1>4
<1>8. QED
    BY <1>1, <1>2, <1>4, <1>5, <1>6, <1>7

LEMMA MovesKeep == FocusInv /\ FocusMoves => FocusInv'
<1> SUFFICES ASSUME FocusInv, FocusMoves PROVE FocusInv'
    OBVIOUS
<1>1. FocusTypes
    BY DEF FocusInv
<1>2. PICK at \in (Windows \cup BeaconPages \cup {Away}) \ {user}, silent \in BOOLEAN :
        LET told == {p \in BeaconPages : p = at \/ (p = user /\ ~(silent /\ p = Tab))}
        IN  /\ silent => user = Tab /\ toWorker[Tab] = <<>>
            /\ user' = at
            /\ lastWindow' = CASE at \in Windows -> at
                               [] at = Tab -> HomeOfTab
                               [] OTHER -> lastWindow
            /\ toWorker' = [p \in BeaconPages |->
                    IF p = Popup /\ user = Popup THEN Append(toWorker[p], "gone")
                    ELSE IF p \in told
                      THEN IF p = Popup THEN toWorker[p] \o <<"connect", "focused">>
                           ELSE Reported(toWorker, p, at)
                    ELSE toWorker[p]]
            /\ port' = (port \ {Popup}) \cup (BeaconPages \cap {at})
            /\ pinged' = IF user = Popup THEN pinged \ {Popup} ELSE pinged
            /\ seen' = [Witnessed(at) EXCEPT !.moves = @ + 1]
    BY DEF FocusMoves
<1>3. /\ beacons' = beacons /\ focusedPages' = focusedPages /\ sample' = sample /\ session' = session
      /\ verdict' = verdict
    BY DEF FocusMoves
<1>4. /\ at \in Places \ {user} /\ (silent => user = Tab /\ toWorker[Tab] = <<>>) /\ user' = at
      /\ port' = (port \ {Popup}) \cup (BeaconPages \cap {at})
      /\ seen' = [Witnessed(at) EXCEPT !.moves = @ + 1]
      /\ lastWindow' \in Windows \cup {HomeOfTab}
    BY <1>1, <1>2 DEF Places, FocusTypes
<1>5. /\ toWorker' = [p \in BeaconPages |-> toWorker'[p]]
      /\ \A p \in BeaconPages :
           toWorker'[p] =
                IF p = Popup /\ user = Popup THEN Append(toWorker[p], "gone")
                ELSE IF p = at \/ (p = user /\ ~(silent /\ p = Tab))
                  THEN IF p = Popup THEN toWorker[p] \o <<"connect", "focused">>
                       ELSE Reported(toWorker, p, at)
                ELSE toWorker[p]
    BY <1>2
<1>6. \A p \in BeaconPages :
           /\ toWorker'[p] \in Seq(Messages)
           /\ toWorker'[p] # <<>> =>
                  /\ LastWord(toWorker'[p]) # "connect"
                  /\ LastWord(toWorker'[p]) = "focused" <=> at = p
           /\ p \in port' => WillConnect(toWorker'[p]) \/ (p \in beacons /\ NeverGone(toWorker'[p]))
           /\ p = at => toWorker'[p] # <<>>
           /\ toWorker'[p] = <<>> => toWorker[p] = <<>>
    BY <1>4, <1>5, WireAfterMove
<1>7. /\ seen' \in [present : BOOLEAN, left : BOOLEAN, moves : Nat]
      /\ seen'.present <=> seen.present \/ IsThere(at, session.holder)
      /\ seen'.left <=> seen.left \/ ~IsThere(at, session.holder)
      /\ seen'.moves = seen.moves + 1 /\ seen.moves \in Nat
    BY <1>1, <1>4, Witnesses DEF FocusTypes
<1>8. FocusTypes'
  <2>1. toWorker' \in [BeaconPages -> Seq(Messages)]
      BY <1>5, <1>6
  <2>2. port' \in SUBSET BeaconPages /\ user' \in Places
      BY <1>1, <1>4 DEF FocusTypes
  <2>3. QED
      BY <1>1, <1>3, <1>4, <1>7, <2>1, <2>2 DEF FocusTypes
<1>9. PagesSpeakTruly'
  <2>1. port' \in SUBSET BeaconPages /\ (at \in BeaconPages => at \in port')
      BY <1>1, <1>4 DEF FocusTypes
  <2>2. QED
      BY <1>3, <1>4, <1>6, <2>1 DEF PagesSpeakTruly
<1>10. IsThere(at, session.holder)' <=> IsThere(at, session.holder)
    BY <1>3 DEF IsThere, BeaconPages
<1>11. /\ Judged' => Judged /\ IsThere(at, session.holder)
       /\ Judged' => seen.moves = 0 /\ seen'.moves # 0
       /\ seen.present => seen'.present
    BY <1>7 DEF Judged
<1>12. SampleSound'
  <2>1. (sample \in {"settling", "looking", "locking"})' =>
          /\ IsThere(user, session.holder)' => seen'.present
          /\ Judged' => IsThere(user, session.holder)'
      BY <1>3, <1>4, <1>7, <1>10, <1>11
  <2>2. (sample = "settling")' =>
          \A p \in focusedPages \cap BeaconPages : toWorker'[p] = <<>> => seen'.present
      BY <1>3, <1>6, <1>11 DEF FocusInv, SampleSound
  <2>3. at \in BeaconPages => toWorker'[at] # <<>>
      BY <1>6
  <2>4. (sample \in {"settling", "looking"})' => ~(Judged' /\ seen'.moves = 0)
      BY <1>11
  <2>5. (sample = "looking")' => (Judged' => at \notin BeaconPages)
      BY <1>3, <1>11 DEF FocusInv, SampleSound
  <2>6. (sample = "locking")' => ~Judged'
      BY <1>3, <1>11 DEF FocusInv, SampleSound
  <2>7. QED
      BY <1>3, <1>4, <2>1, <2>2, <2>3, <2>4, <2>5, <2>6 DEF SampleSound, BeaconPages
<1>13. SamplesTellTheTruth'
    BY <1>3, <1>7, <1>11 DEF FocusInv, SamplesTellTheTruth
<1>14. QED
    BY <1>1, <1>3, <1>8, <1>9, <1>12, <1>13 DEF FocusInv, BeaconPages

(* A page answers, or the worker hears one: the wire of one page changes.  *)
LEMMA AnswersKeep ==
    ASSUME FocusInv, NEW p \in BeaconPages, Answers(p)
    PROVE  FocusInv'
<1>1. FocusTypes
    BY DEF FocusInv
<1>2. PICK s \in Seq(Messages), m \in Messages :
          /\ s = toWorker[p] /\ m = Report(p, user)
          /\ m \in {"focused", "blurred"} /\ (m = "focused" <=> user = p)
  <2>1. Report(p, user) \in Messages /\ Report(p, user) \in {"focused", "blurred"}
        /\ (Report(p, user) = "focused" <=> user = p)
      BY DEF Report, Messages
  <2>2. QED
      BY <1>1, <2>1 DEF FocusTypes
<1>3. toWorker' = [toWorker EXCEPT ![p] = Append(s, m)]
    BY <1>2 DEF Answers
<1>4. /\ Append(s, m) \in Seq(Messages) /\ Append(s, m) # <<>>
      /\ LastWord(Append(s, m)) = m
      /\ WillConnect(s) => WillConnect(Append(s, m))
      /\ NeverGone(s) => NeverGone(Append(s, m))
    BY <1>2, SaysMore
<1>5. PICK t \in Seq(Messages) : t = Append(s, m)
    BY <1>4
<1>6. /\ toWorker' \in [BeaconPages -> Seq(Messages)] /\ toWorker'[p] = t
      /\ \A q \in BeaconPages \ {p} : toWorker'[q] = toWorker[q]
    BY <1>1, <1>3, <1>5 DEF FocusTypes
<1>7. /\ user' = user /\ lastWindow' = lastWindow /\ port' = port /\ beacons' = beacons
      /\ focusedPages' = focusedPages /\ sample' = sample /\ session' = session /\ verdict' = verdict
      /\ seen' = seen /\ pinged' = pinged \ {p}
    BY DEF Answers
<1>8. FocusTypes'
    BY <1>1, <1>6, <1>7 DEF FocusTypes, BeaconPages, Holders, Places
<1>9. PagesSpeakTruly'
    BY <1>1, <1>2, <1>4, <1>5, <1>6, <1>7 DEF FocusInv, PagesSpeakTruly, FocusTypes, BeaconPages
<1>10. SampleSound' /\ SamplesTellTheTruth'
  <2>1. Judged' <=> Judged
      BY <1>7 DEF Judged
  <2>2. IsThere(user, session.holder)' <=> IsThere(user, session.holder)
      BY <1>7 DEF IsThere, BeaconPages
  <2>3. \A q \in BeaconPages : toWorker'[q] = <<>> => toWorker[q] = <<>> /\ q # p
      BY <1>4, <1>5, <1>6
  <2>4. QED
      BY <1>7, <2>1, <2>2, <2>3 DEF FocusInv, SampleSound, SamplesTellTheTruth, BeaconPages
<1>11. QED
    BY <1>7, <1>8, <1>9, <1>10 DEF FocusInv, BeaconPages

LEMMA HearsKeep ==
    ASSUME FocusInv, NEW p \in BeaconPages, BeaconHears(p)
    PROVE  FocusInv'
<1>1. FocusTypes
    BY DEF FocusInv
<1>2. PICK s \in Seq(Messages) : s = toWorker[p] /\ s # <<>>
    BY <1>1 DEF FocusTypes, BeaconHears
<1>3. PICK t, m : t = Tail(s) /\ m = Head(s)
    OBVIOUS
<1>4. /\ t \in Seq(Messages) /\ m \in Messages
      /\ t # <<>> => LastWord(t) = LastWord(s)
      /\ t = <<>> => m = LastWord(s)
      /\ WillConnect(s) => WillConnect(t) \/ (m = "connect" /\ NeverGone(t))
      /\ NeverGone(s) => m # "gone" /\ NeverGone(t)
    BY <1>2, <1>3, HearsFirst
<1>5. toWorker' = [toWorker EXCEPT ![p] = t]
    BY <1>2, <1>3 DEF BeaconHears
<1>6. /\ toWorker' \in [BeaconPages -> Seq(Messages)] /\ toWorker'[p] = t
      /\ \A q \in BeaconPages \ {p} : toWorker'[q] = toWorker[q]
    BY <1>1, <1>4, <1>5 DEF FocusTypes
<1>7. /\ user' = user /\ lastWindow' = lastWindow /\ port' = port /\ session' = session /\ verdict' = verdict
      /\ seen' = seen /\ pinged' = pinged
    BY DEF BeaconHears
<1>8. /\ m = "connect" => beacons' = beacons \cup {p} /\ focusedPages' = focusedPages
      /\ m = "gone" => beacons' = beacons \ {p} /\ focusedPages' = focusedPages \ {p}
      /\ m = "focused" => beacons' = beacons /\ focusedPages' = focusedPages \cup {p}
      /\ m = "blurred" => beacons' = beacons /\ focusedPages' = focusedPages \ {p}
      /\ sample' = sample \/ (sample = "none" /\ sample' = "asked")
    BY <1>2, <1>3 DEF BeaconHears, Sampled
<1>9. /\ LastWord(s) # "connect" /\ (LastWord(s) = "focused" <=> user = p)
      /\ p \in port => WillConnect(s) \/ (p \in beacons /\ NeverGone(s))
    BY <1>2 DEF FocusInv, PagesSpeakTruly
<1>10. m \in {"connect", "focused", "blurred", "gone"}
    BY <1>4 DEF Messages
<1>11. FocusTypes' /\ (focusedPages \in SUBSET BeaconPages)'
  <2>1. beacons' \in SUBSET BeaconPages /\ focusedPages' \in SUBSET BeaconPages
      BY <1>1, <1>8, <1>10 DEF FocusTypes, FocusInv
  <2>2. QED
      BY <1>1, <1>6, <1>7, <2>1 DEF FocusTypes, BeaconPages, Holders, Places
<1>12. PagesSpeakTruly'
  <2>1. \A q \in BeaconPages :
          toWorker'[q] # <<>> =>
              /\ LastWord(toWorker'[q]) # "connect"
              /\ LastWord(toWorker'[q]) = "focused" <=> user = q
      BY <1>4, <1>6, <1>9 DEF FocusInv, PagesSpeakTruly
  <2>2. \A q \in port : WillConnect(toWorker'[q]) \/ (q \in beacons' /\ NeverGone(toWorker'[q]))
    <3>1. p \in port => WillConnect(t) \/ (p \in beacons' /\ NeverGone(t))
        BY <1>4, <1>8, <1>9, <1>10
    <3>2. \A q \in beacons \ {p} : q \in beacons'
        BY <1>8, <1>10
    <3>3. QED
        BY <1>1, <1>6, <3>1, <3>2 DEF FocusInv, PagesSpeakTruly, FocusTypes
  <2>3. QED
      BY <1>7, <2>1, <2>2 DEF FocusInv, PagesSpeakTruly, BeaconPages
<1>13. SampleSound' /\ SamplesTellTheTruth'
  <2>1. Judged' <=> Judged
      BY <1>7 DEF Judged
  <2>2. IsThere(user, session.holder)' <=> IsThere(user, session.holder)
      BY <1>7 DEF IsThere, BeaconPages
  <2>3. \A q \in {"settling", "looking", "locking"} : sample' = q <=> sample = q
      BY <1>8
  <2>4. ASSUME sample = "settling"
        PROVE  /\ \A q \in focusedPages' \cap BeaconPages : toWorker'[q] = <<>> => seen.present
               /\ Judged /\ user \in BeaconPages =>
                    user \in pinged \/ toWorker'[user] # <<>> \/ user \in focusedPages'
    <3>1. user \in BeaconPages => seen.present
        BY <2>4 DEF FocusInv, SampleSound, IsThere
    <3>2. \A q \in BeaconPages \ {p} : q \in focusedPages' <=> q \in focusedPages
        BY <1>8, <1>10
    <3>3. t = <<>> => (p \in focusedPages' <=> user = p)
        BY <1>4, <1>8, <1>9, <1>10
    <3>4. \A q \in focusedPages' \cap BeaconPages : toWorker'[q] = <<>> => seen.present
        BY <1>6, <2>4, <3>1, <3>2, <3>3 DEF FocusInv, SampleSound
    <3>5. Judged /\ user \in BeaconPages =>
                    user \in pinged \/ toWorker'[user] # <<>> \/ user \in focusedPages'
        BY <1>6, <2>4, <3>2, <3>3 DEF FocusInv, SampleSound
    <3>6. QED
        BY <3>4, <3>5
  <2>5. SampleSound'
      BY <1>7, <2>1, <2>2, <2>3, <2>4 DEF FocusInv, SampleSound, BeaconPages
  <2>6. SamplesTellTheTruth'
      BY <1>7 DEF FocusInv, SamplesTellTheTruth
  <2>7. QED
      BY <2>5, <2>6
<1>14. QED
    BY <1>11, <1>12, <1>13 DEF FocusInv

(* A step of the worker that neither moves the user nor touches a wire.    *)
LEMMA WiresStay ==
    ASSUME FocusInv, user' = user, lastWindow' = lastWindow, port' = port, beacons' = beacons,
           toWorker' = toWorker,
           session' \in [unlocked : BOOLEAN, holder : Holders, on : BOOLEAN],
           seen' \in [present : BOOLEAN, left : BOOLEAN, moves : Nat]
    PROVE  FocusTypes' /\ PagesSpeakTruly'
<1>1. FocusTypes'
    BY DEF FocusInv, FocusTypes, BeaconPages, Holders, Places
<1>2. PagesSpeakTruly'
    BY DEF FocusInv, PagesSpeakTruly, BeaconPages
<1>3. QED
    BY <1>1, <1>2

LEMMA BeaconDeathKeeps == FocusInv /\ BeaconWorkerDies => FocusInv'
<1> SUFFICES ASSUME FocusInv, BeaconWorkerDies PROVE FocusInv'
    OBVIOUS
<1>1. /\ beacons' = {} /\ focusedPages' = {} /\ sample' = "none" /\ verdict' = "none"
      /\ port' = port \cap {user} /\ user' = user /\ lastWindow' = lastWindow
      /\ session' = session /\ seen' = seen
      /\ toWorker' = [p \in BeaconPages |-> IF p \in port /\ p = user THEN OpeningWords ELSE <<>>]
    BY DEF BeaconWorkerDies, OpeningWords
<1>2. \A p \in BeaconPages :
          \/ p \in port /\ p = user /\ toWorker'[p] = OpeningWords
          \/ ~(p \in port /\ p = user) /\ toWorker'[p] = <<>>
    BY <1>1
<1>3. FocusTypes'
  <2>1. toWorker' \in [BeaconPages -> Seq(Messages)]
    <3>1. <<>> \in Seq(Messages)
        OBVIOUS
    <3>2. QED
        BY <1>1, <3>1, OpeningSays
  <2>2. QED
      BY <1>1, <2>1 DEF FocusInv, FocusTypes, BeaconPages, Holders, Places
<1>4. PagesSpeakTruly'
  <2>1. \A p \in BeaconPages : toWorker'[p] # <<>> =>
            /\ LastWord(toWorker'[p]) # "connect"
            /\ LastWord(toWorker'[p]) = "focused" <=> user = p
      BY <1>2, OpeningSays
  <2>2. \A p \in port' : WillConnect(toWorker'[p])
      BY <1>1, <1>2, OpeningSays DEF FocusInv, FocusTypes
  <2>3. QED
      BY <1>1, <2>1, <2>2 DEF FocusInv, PagesSpeakTruly, BeaconPages
<1>5. SampleSound' /\ SamplesTellTheTruth'
    BY <1>1 DEF SampleSound, SamplesTellTheTruth
<1>6. QED
    BY <1>1, <1>3, <1>4, <1>5 DEF FocusInv, BeaconPages

LEMMA TriggerKeeps == FocusInv /\ Triggered => FocusInv'
<1> SUFFICES ASSUME FocusInv, Triggered PROVE FocusInv'
    OBVIOUS
<1>1. /\ sample' = "asked" /\ user' = user /\ lastWindow' = lastWindow /\ port' = port
      /\ toWorker' = toWorker /\ beacons' = beacons /\ focusedPages' = focusedPages
      /\ session' = session /\ verdict' = verdict /\ seen' = seen
    BY DEF Triggered, Sampled
<1>2. FocusTypes' /\ PagesSpeakTruly'
    BY <1>1, WiresStay DEF FocusInv, FocusTypes
<1>3. SampleSound' /\ SamplesTellTheTruth'
    BY <1>1 DEF FocusInv, SampleSound, SamplesTellTheTruth
<1>4. QED
    BY <1>1, <1>2, <1>3 DEF FocusInv, BeaconPages

LEMMA SessionChangeKeeps == FocusInv /\ SessionChanges => FocusInv'
<1> SUFFICES ASSUME FocusInv, SessionChanges PROVE FocusInv'
    OBVIOUS
<1>1. FocusTypes
    BY DEF FocusInv
<1>2. /\ user' = user /\ lastWindow' = lastWindow /\ port' = port
      /\ toWorker' = toWorker /\ beacons' = beacons /\ focusedPages' = focusedPages /\ pinged' = pinged
      /\ sample' = sample /\ verdict' = "none" /\ seen' = [seen EXCEPT !.moves = 2]
    BY DEF SessionChanges
<1>3. seen' \in [present : BOOLEAN, left : BOOLEAN, moves : Nat] /\ seen'.moves = 2
      /\ seen'.present = seen.present
    BY <1>1, <1>2 DEF FocusTypes
<1>4. session' \in [unlocked : BOOLEAN, holder : Holders, on : BOOLEAN]
      /\ (session'.holder = session.holder \/ user = Popup)
  <2>1. session \in [unlocked : BOOLEAN, holder : Holders, on : BOOLEAN]
      BY <1>1 DEF FocusTypes
  <2>2. CASE session' = [session EXCEPT !.unlocked = FALSE]
    <3>1. \A r \in [unlocked : BOOLEAN, holder : Holders, on : BOOLEAN], x \in BOOLEAN :
              /\ [r EXCEPT !.unlocked = x] \in [unlocked : BOOLEAN, holder : Holders, on : BOOLEAN]
              /\ [r EXCEPT !.unlocked = x].holder = r.holder
        OBVIOUS
    <3>2. FALSE \in BOOLEAN
        OBVIOUS
    <3>3. QED
        BY <2>1, <2>2, <3>1, <3>2
  <2>3. CASE user = Popup /\ \E holder \in {lastWindow, Nowhere} :
                session' = [session EXCEPT !.unlocked = TRUE, !.holder = holder]
    <3>1. PICK holder \in {lastWindow, Nowhere} : session' = [session EXCEPT !.unlocked = TRUE, !.holder = holder]
        BY <2>3
    <3>2. holder \in Holders
        BY <1>1 DEF FocusTypes, Holders
    <3>3. \A r \in [unlocked : BOOLEAN, holder : Holders, on : BOOLEAN], x \in BOOLEAN, h \in Holders :
              [r EXCEPT !.unlocked = x, !.holder = h] \in [unlocked : BOOLEAN, holder : Holders, on : BOOLEAN]
        OBVIOUS
    <3>4. TRUE \in BOOLEAN
        OBVIOUS
    <3>5. QED
        BY <2>1, <2>3, <3>1, <3>2, <3>3, <3>4
  <2>4. CASE session' = [session EXCEPT !.on = ~@]
    <3>1. \A r \in [unlocked : BOOLEAN, holder : Holders, on : BOOLEAN] :
              /\ [r EXCEPT !.on = ~@] \in [unlocked : BOOLEAN, holder : Holders, on : BOOLEAN]
              /\ [r EXCEPT !.on = ~@].holder = r.holder
        OBVIOUS
    <3>2. QED
        BY <2>1, <2>4, <3>1
  <2>5. QED
      BY <2>2, <2>3, <2>4 DEF SessionChanges
<1>5. FocusTypes' /\ PagesSpeakTruly'
    BY <1>2, <1>3, <1>4, WiresStay
<1>6. ~Judged'
    BY <1>3 DEF Judged
<1>7. SampleSound'
  <2>1. Popup \in BeaconPages
      BY DEF BeaconPages
  <2>2. IsThere(user, session'.holder) => IsThere(user, session.holder)
      BY <1>4, <2>1 DEF IsThere
  <2>3. (sample \in {"settling", "looking", "locking"} /\ IsThere(user, session'.holder)) => seen'.present
      BY <1>3, <2>2 DEF FocusInv, SampleSound
  <2>4. IsThere(user, session.holder)' <=> IsThere(user, session'.holder)
      BY <1>2 DEF IsThere, BeaconPages
  <2>5. sample = "settling" =>
          \A p \in focusedPages \cap BeaconPages : toWorker[p] = <<>> => seen'.present
      BY <1>3 DEF FocusInv, SampleSound
  <2>6. QED
      BY <1>2, <1>6, <2>3, <2>4, <2>5 DEF SampleSound, BeaconPages
<1>8. SamplesTellTheTruth'
    BY <1>2 DEF SamplesTellTheTruth
<1>9. QED
    BY <1>2, <1>5, <1>7, <1>8 DEF FocusInv, BeaconPages

(* Where Chrome says the focus is, against where the user is.              *)
LEMMA WindowsAndUsers ==
    /\ StillOurs => IsThere(user, session.holder)
    /\ IsThere(user, session.holder) /\ user \notin BeaconPages => StillOurs
    /\ ~StillOurs => Adopted = session
<1>1. StillOurs => IsThere(user, session.holder)
  <2> SUFFICES ASSUME StillOurs PROVE IsThere(user, session.holder)
      OBVIOUS
  <2>1. CASE user \in Windows
    <3>1. user # Tab
        BY <2>1, Pages2
    <3>2. FocusedWindow = user
        BY <2>1, <3>1 DEF FocusedWindow
    <3>3. QED
        BY <2>1, <3>2 DEF StillOurs, IsThere
  <2>2. CASE user \notin Windows
      BY <2>2 DEF StillOurs, FocusedWindow, IsThere, BeaconPages
  <2>3. QED
      BY <2>1, <2>2
<1>2. IsThere(user, session.holder) /\ user \notin BeaconPages => StillOurs
    BY Pages2 DEF StillOurs, FocusedWindow, IsThere
<1>3. ~StillOurs => Adopted = session
    BY DEF StillOurs, Adopted
<1>4. QED
    BY <1>1, <1>2, <1>3

LEMMA AdoptedTyped == FocusTypes => Adopted \in [unlocked : BOOLEAN, holder : Holders, on : BOOLEAN]
<1> SUFFICES ASSUME FocusTypes PROVE Adopted \in [unlocked : BOOLEAN, holder : Holders, on : BOOLEAN]
    OBVIOUS
<1>1. FocusedWindow \in Holders
    BY DEF FocusedWindow, Holders
<1>2. session \in [unlocked : BOOLEAN, holder : Holders, on : BOOLEAN]
    BY DEF FocusTypes
<1>3. \A r \in [unlocked : BOOLEAN, holder : Holders, on : BOOLEAN], h \in Holders :
          [r EXCEPT !.holder = h] \in [unlocked : BOOLEAN, holder : Holders, on : BOOLEAN]
    OBVIOUS
<1>4. QED
    BY <1>1, <1>2, <1>3 DEF Adopted

LEMMA FirstLookKeeps == FocusInv /\ FirstLook => FocusInv'
<1> SUFFICES ASSUME FocusInv, FirstLook PROVE FocusInv'
    OBVIOUS
<1>1. FocusTypes
    BY DEF FocusInv
<1>2. /\ user' = user /\ lastWindow' = lastWindow /\ port' = port
      /\ toWorker' = toWorker /\ beacons' = beacons
      /\ seen' = [present |-> IsThere(user, session.holder),
                  left |-> ~IsThere(user, session.holder), moves |-> 0]
    BY DEF FirstLook
<1>3. /\ seen' \in [present : BOOLEAN, left : BOOLEAN, moves : Nat]
      /\ seen'.present <=> IsThere(user, session.holder)
      /\ seen'.left <=> ~IsThere(user, session.holder)
      /\ seen'.moves = 0
  <2>1. PICK x \in BOOLEAN : x = IsThere(user, session.holder)
      BY DEF IsThere
  <2>2. PICK y \in BOOLEAN : y = ~IsThere(user, session.holder)
      BY DEF IsThere
  <2>3. seen' = [present |-> x, left |-> y, moves |-> 0]
      BY <1>2, <2>1, <2>2
  <2>4. \A n \in Nat : [present |-> x, left |-> y, moves |-> n] \in [present : BOOLEAN, left : BOOLEAN, moves : Nat]
      BY Zenon
  <2>5. seen'.present = x /\ seen'.left = y /\ seen'.moves = 0
      BY <2>3
  <2>6. 0 \in Nat
      OBVIOUS
  <2>7. QED
      BY <2>1, <2>2, <2>3, <2>4, <2>5, <2>6
<1>4. CASE sample' = "none" /\ verdict' = "none" /\ session' = session /\ focusedPages' = focusedPages
  <2>1. FocusTypes' /\ PagesSpeakTruly'
      BY <1>1, <1>2, <1>3, <1>4, WiresStay DEF FocusTypes
  <2>2. QED
      BY <1>2, <1>4, <2>1 DEF FocusInv, SampleSound, SamplesTellTheTruth, BeaconPages
<1>5. CASE StillOurs /\ session' = Adopted /\ sample' = "none" /\ verdict' = "kept" /\ focusedPages' = focusedPages
  <2>1. FocusTypes' /\ PagesSpeakTruly'
      BY <1>1, <1>2, <1>3, <1>5, AdoptedTyped, WiresStay
  <2>2. seen'.present
      BY <1>3, <1>5, WindowsAndUsers
  <2>3. QED
      BY <1>2, <1>5, <2>1, <2>2 DEF FocusInv, SampleSound, SamplesTellTheTruth, BeaconPages
<1>6. CASE ~StillOurs /\ session' = session /\ sample' = "settling" /\ verdict' = "none" /\ RefreshClaims
  <2>1. FocusTypes' /\ PagesSpeakTruly'
      BY <1>1, <1>2, <1>3, <1>6, WiresStay DEF FocusTypes
  <2>2. focusedPages' = {} /\ pinged' = pinged \cup (beacons \cap port)
      BY <1>6 DEF RefreshClaims
  <2>3. user \in BeaconPages /\ toWorker[user] = <<>> => user \in pinged'
    <3>1. user \in BeaconPages => user \in port
        BY DEF FocusInv, PagesSpeakTruly
    <3>2. ~WillConnect(<<>>)
        BY DEF WillConnect
    <3>3. user \in port /\ toWorker[user] = <<>> => user \in beacons
        BY <3>2 DEF FocusInv, PagesSpeakTruly
    <3>4. QED
        BY <2>2, <3>1, <3>3
  <2>4. Judged' => IsThere(user, session.holder) /\ user \in BeaconPages
      BY <1>3, <1>6, WindowsAndUsers DEF Judged
  <2>5. IsThere(user, session.holder)' <=> IsThere(user, session.holder)
      BY <1>2, <1>6 DEF IsThere, BeaconPages
  <2>6. SampleSound'
      BY <1>2, <1>3, <1>6, <2>2, <2>3, <2>4, <2>5 DEF SampleSound, BeaconPages
  <2>7. QED
      BY <1>6, <2>1, <2>2, <2>6 DEF FocusInv, SamplesTellTheTruth
<1>7. QED
    BY <1>4, <1>5, <1>6 DEF FirstLook, SampleEnds

LEMMA SettledKeeps == FocusInv /\ Settled => FocusInv'
<1> SUFFICES ASSUME FocusInv, Settled PROVE FocusInv'
    OBVIOUS
<1>1. /\ user' = user /\ lastWindow' = lastWindow /\ port' = port
      /\ toWorker' = toWorker /\ beacons' = beacons /\ focusedPages' = focusedPages
      /\ session' = session /\ seen' = seen
      /\ sample = "settling" /\ pinged = {} /\ \A p \in BeaconPages : toWorker[p] = <<>>
    BY DEF Settled
<1>2. FocusTypes' /\ PagesSpeakTruly'
    BY <1>1, WiresStay DEF FocusInv, FocusTypes
<1>3. CASE focusedPages # {}
  <2>1. sample' = "none" /\ verdict' = "kept"
      BY <1>3 DEF Settled, SampleEnds
  <2>2. seen.present
      BY <1>1, <1>3 DEF FocusInv, SampleSound
  <2>3. QED
      BY <1>1, <1>2, <2>1, <2>2 DEF FocusInv, SampleSound, SamplesTellTheTruth, BeaconPages
<1>4. CASE focusedPages = {}
  <2>1. sample' = "looking" /\ verdict' = verdict
      BY <1>4 DEF Settled
  <2>2. Judged => user \notin BeaconPages
      BY <1>1, <1>4 DEF FocusInv, SampleSound
  <2>3. Judged' <=> Judged
      BY <1>1 DEF Judged
  <2>4. IsThere(user, session.holder)' <=> IsThere(user, session.holder)
      BY <1>1 DEF IsThere, BeaconPages
  <2>5. SampleSound'
      BY <1>1, <2>1, <2>2, <2>3, <2>4 DEF FocusInv, SampleSound, BeaconPages
  <2>6. SamplesTellTheTruth'
      BY <1>1, <2>1 DEF FocusInv, SamplesTellTheTruth
  <2>7. QED
      BY <1>1, <1>2, <2>5, <2>6 DEF FocusInv, BeaconPages
<1>5. QED
    BY <1>3, <1>4

LEMMA SecondLookKeeps == FocusInv /\ SecondLook => FocusInv'
<1> SUFFICES ASSUME FocusInv, SecondLook PROVE FocusInv'
    OBVIOUS
<1>1. /\ user' = user /\ lastWindow' = lastWindow /\ port' = port
      /\ toWorker' = toWorker /\ beacons' = beacons /\ focusedPages' = focusedPages
      /\ session' = Adopted /\ seen' = seen /\ sample = "looking"
    BY DEF SecondLook
<1>2. FocusTypes' /\ PagesSpeakTruly'
    BY <1>1, AdoptedTyped, WiresStay DEF FocusInv, FocusTypes
<1>3. CASE StillOurs
  <2>1. sample' = "none" /\ verdict' = "kept"
      BY <1>3 DEF SecondLook, SampleEnds
  <2>2. seen.present
      BY <1>1, <1>3, WindowsAndUsers DEF FocusInv, SampleSound
  <2>3. QED
      BY <1>1, <1>2, <2>1, <2>2 DEF FocusInv, SampleSound, SamplesTellTheTruth, BeaconPages
<1>4. CASE ~StillOurs
  <2>1. sample' = "locking" /\ verdict' = verdict /\ session' = session
      BY <1>1, <1>4, WindowsAndUsers DEF SecondLook
  <2>2. ~Judged
      BY <1>1, <1>4, WindowsAndUsers DEF FocusInv, SampleSound
  <2>3. Judged' <=> Judged
      BY <1>1 DEF Judged
  <2>4. IsThere(user, session.holder)' <=> IsThere(user, session.holder)
      BY <1>1, <2>1 DEF IsThere, BeaconPages
  <2>5. SampleSound'
      BY <1>1, <2>1, <2>2, <2>3, <2>4 DEF FocusInv, SampleSound
  <2>6. SamplesTellTheTruth'
      BY <1>1, <2>1 DEF FocusInv, SamplesTellTheTruth
  <2>7. QED
      BY <1>1, <1>2, <2>5, <2>6 DEF FocusInv, BeaconPages
<1>5. QED
    BY <1>3, <1>4

LEMMA BlurLockKeeps == FocusInv /\ BlurLocks => FocusInv'
<1> SUFFICES ASSUME FocusInv, BlurLocks PROVE FocusInv'
    OBVIOUS
<1>1. /\ user' = user /\ lastWindow' = lastWindow /\ port' = port
      /\ toWorker' = toWorker /\ beacons' = beacons /\ focusedPages' = focusedPages
      /\ session' = [session EXCEPT !.unlocked = FALSE] /\ seen' = seen
      /\ sample = "locking" /\ sample' = "none" /\ verdict' \in {"locked", "none"}
    BY DEF BlurLocks, SampleEnds
<1>2. session' \in [unlocked : BOOLEAN, holder : Holders, on : BOOLEAN]
  <2>1. \A r \in [unlocked : BOOLEAN, holder : Holders, on : BOOLEAN], x \in BOOLEAN :
              [r EXCEPT !.unlocked = x] \in [unlocked : BOOLEAN, holder : Holders, on : BOOLEAN]
      OBVIOUS
  <2>2. FALSE \in BOOLEAN
      OBVIOUS
  <2>3. QED
      BY <1>1, <2>1, <2>2 DEF FocusInv, FocusTypes
<1>3. FocusTypes' /\ PagesSpeakTruly'
    BY <1>1, <1>2, WiresStay DEF FocusInv, FocusTypes
<1>4. ~Judged /\ seen.moves \in Nat
    BY <1>1 DEF FocusInv, SampleSound, FocusTypes
<1>5. SamplesTellTheTruth'
    BY <1>1, <1>4 DEF SamplesTellTheTruth, Judged
<1>6. QED
    BY <1>1, <1>3, <1>5 DEF FocusInv, SampleSound, BeaconPages

LEMMA FocusKeeps == FocusInv /\ [FocusWatchNext]_focusWatch => FocusInv'
<1> SUFFICES ASSUME FocusInv, [FocusWatchNext]_focusWatch PROVE FocusInv'
    OBVIOUS
<1>1. CASE UNCHANGED focusWatch
  <2>1. /\ user' = user /\ lastWindow' = lastWindow /\ port' = port /\ pinged' = pinged
        /\ toWorker' = toWorker /\ beacons' = beacons /\ focusedPages' = focusedPages
        /\ session' = session /\ seen' = seen /\ sample' = sample /\ verdict' = verdict
      BY <1>1 DEF focusWatch
  <2>2. FocusTypes' /\ PagesSpeakTruly'
      BY <2>1, WiresStay DEF FocusInv, FocusTypes
  <2>3. (Judged' <=> Judged) /\ (IsThere(user, session.holder)' <=> IsThere(user, session.holder))
      BY <2>1 DEF Judged, IsThere, BeaconPages
  <2>4. SampleSound' /\ SamplesTellTheTruth'
      BY <2>1, <2>3 DEF FocusInv, SampleSound, SamplesTellTheTruth, BeaconPages
  <2>5. QED
      BY <2>1, <2>2, <2>4 DEF FocusInv, BeaconPages
<1>2. CASE FocusWatchNext
    BY <1>2, MovesKeep, BeaconDeathKeeps, TriggerKeeps, SessionChangeKeeps, FirstLookKeeps, SettledKeeps,
       SecondLookKeeps, BlurLockKeeps, AnswersKeep, HearsKeep DEF FocusWatchNext
<1>3. QED
    BY <1>1, <1>2

(* "Lock when this window loses focus" (background/autolock.ts): whatever  *)
(* the pages said, and in whatever order it arrives, a sample leaves the   *)
(* vault open only if the user was there at some moment of it, and locks   *)
(* only if the user had left.                                              *)
THEOREM SamplesAlwaysTellTheTruth == FocusWatchSpec => []SamplesTellTheTruth
<1>1. FocusInv => SamplesTellTheTruth
    BY DEF FocusInv
<1>2. QED
    BY InitFocus, FocusKeeps, <1>1, PTL DEF FocusWatchSpec

-----------------------------------------------------------------------------
(* WriteBudget: what the governor grants, and the wait it names.           *)

LEMMA BudgetNumbers ==
    /\ Minute \in Nat \ {0} /\ Hour \in Nat \ {0} /\ Minute < Hour
    /\ PerMinute \in Nat \ {0} /\ PerHour \in Nat \ {0} /\ PerMinute <= PerHour
    /\ MaxTime \in Nat
    BY WriteBudgetConstants

(* The first of some numbers.                                             *)
LEMMA EarliestOf ==
    ASSUME NEW S \in SUBSET Nat, S # {}
    PROVE  \E first \in S : \A k \in S : first <= k
<1>1. PICK x \in S : \A y \in S : ~ (<<y, x>> \in OpToRel(<, Nat))
  <2>1. S \subseteq Nat
      OBVIOUS
  <2>2. QED
      BY <2>1, NatLessThanWellFounded, WFMin
<1>2. \A y \in S : x <= y
  <2> SUFFICES ASSUME NEW y \in S, y < x PROVE FALSE
      BY \A y \in S : y \in Nat
  <2>1. <<y, x>> \in OpToRel(<, Nat)
      BY DEF OpToRel
  <2>2. QED
      BY <1>1, <2>1
<1>3. QED
    BY <1>2

(* Stamps as they were charged, one after the other.                       *)
Chronological(stamps) ==
    /\ stamps \in Seq(Nat)
    /\ \A i, j \in 1 .. Len(stamps) : i <= j => stamps[i] <= stamps[j]

(* The writes that are in the window at a moment t.                        *)
LiveAt(stamps, window, t) == {i \in 1 .. Len(stamps) : stamps[i] + window > t}

(* `tail` is what is left of `stamps` when some that left the window went.  *)
TailOf(tail, stamps, window) ==
    /\ Len(tail) <= Len(stamps)
    /\ \A i \in 1 .. Len(tail) : tail[i] = stamps[(Len(stamps) - Len(tail)) + i]
    /\ \A i \in 1 .. Len(stamps) - Len(tail) : stamps[i] + window <= now

LEMMA IntervalSize ==
    ASSUME NEW d \in Nat, NEW last \in Nat, d <= last
    PROVE  Cardinality(d + 1 .. last) = last - d
<1>1. d + 1 \in Int /\ last \in Int
    OBVIOUS
<1>2. Cardinality(d + 1 .. last) = IF d + 1 > last THEN 0 ELSE last - (d + 1) + 1
    BY <1>1, FS_Interval
<1>3. QED
    BY <1>2

(* Of stamps in order the last are the ones in the window.                 *)
LEMMA LiveIsATail ==
    ASSUME NEW stamps, Chronological(stamps), NEW window \in Nat, NEW t \in Nat
    PROVE  \E d \in 0 .. Len(stamps) :
              /\ LiveAt(stamps, window, t) = d + 1 .. Len(stamps)
              /\ Cardinality(LiveAt(stamps, window, t)) = Len(stamps) - d
<1>1. Len(stamps) \in Nat /\ \A i \in 1 .. Len(stamps) : stamps[i] \in Nat
    BY DEF Chronological
<1>2. PICK d \in 0 .. Len(stamps) : LiveAt(stamps, window, t) = d + 1 .. Len(stamps)
  <2>1. CASE LiveAt(stamps, window, t) = {}
    <3>1. {} = Len(stamps) + 1 .. Len(stamps)
        BY <1>1
    <3>2. Len(stamps) \in 0 .. Len(stamps)
        BY <1>1
    <3>3. QED
        BY <2>1, <3>1, <3>2
  <2>2. CASE LiveAt(stamps, window, t) # {}
    <3>1. LiveAt(stamps, window, t) \subseteq Nat
        BY DEF LiveAt
    <3>2. PICK first \in LiveAt(stamps, window, t) : \A i \in LiveAt(stamps, window, t) : first <= i
        BY <2>2, <3>1, EarliestOf
    <3>3. first \in 1 .. Len(stamps) /\ stamps[first] + window > t
        BY DEF LiveAt
    <3>4. \A i \in 1 .. Len(stamps) : i >= first => stamps[i] + window > t
        BY <1>1, <3>3 DEF Chronological
    <3>5. LiveAt(stamps, window, t) = (first - 1) + 1 .. Len(stamps)
        BY <1>1, <3>2, <3>3, <3>4 DEF LiveAt
    <3>6. first - 1 \in 0 .. Len(stamps)
        BY <1>1, <3>3
    <3>7. QED
        BY <3>5, <3>6
  <2>3. QED
      BY <2>1, <2>2
<1>3. Cardinality(d + 1 .. Len(stamps)) = Len(stamps) - d
    BY <1>1, <1>2, IntervalSize
<1>4. QED
    BY <1>2, <1>3

(* The n-th number from d + 1 on.                                          *)
LEMMA NthFromThere ==
    ASSUME NEW d \in Nat, NEW last \in Nat, NEW n \in 1 .. last - d
    PROVE  NthOf(d + 1 .. last, n) = d + n
<1>1. ASSUME NEW k \in d + 1 .. last
      PROVE  Cardinality({j \in d + 1 .. last : j <= k}) = k - d
  <2>1. {j \in d + 1 .. last : j <= k} = d + 1 .. k
      BY <1>1
  <2>2. Cardinality(d + 1 .. k) = k - d
      BY <1>1, IntervalSize
  <2>3. QED
      BY <2>1, <2>2
<1>2. d + n \in d + 1 .. last /\ (d + n) - d = n
    OBVIOUS
<1>3. \A k \in d + 1 .. last : Cardinality({j \in d + 1 .. last : j <= k}) = n <=> k = d + n
    BY <1>1
<1>4. QED
    BY <1>2, <1>3 DEF NthOf

(* A filter over stamps in order leaves a tail of them, all in the window. *)
LEMMA RecentIsATail ==
    ASSUME NEW stamps, Chronological(stamps), NEW window \in Nat, now \in Nat
    PROVE  /\ Chronological(Recent(stamps, window))
           /\ TailOf(Recent(stamps, window), stamps, window)
           /\ Len(Recent(stamps, window)) = Cardinality(LiveAt(stamps, window, now))
           /\ \A i \in 1 .. Len(Recent(stamps, window)) : Recent(stamps, window)[i] + window > now
<1>1. stamps \in Seq(Nat) /\ Len(stamps) \in Nat /\ \A i \in 1 .. Len(stamps) : stamps[i] \in Nat
    BY DEF Chronological
<1>2. PICK d \in 0 .. Len(stamps) :
          /\ LiveAt(stamps, window, now) = d + 1 .. Len(stamps)
          /\ Cardinality(LiveAt(stamps, window, now)) = Len(stamps) - d
    BY LiveIsATail
<1>3. {i \in DOMAIN stamps : stamps[i] + window > now} = d + 1 .. Len(stamps)
    BY <1>1, <1>2 DEF LiveAt
<1>4. Cardinality(d + 1 .. Len(stamps)) = Len(stamps) - d
    BY <1>1, <1>2, IntervalSize
<1>5. Recent(stamps, window) = [n \in 1 .. Len(stamps) - d |-> stamps[NthOf(d + 1 .. Len(stamps), n)]]
    BY <1>3, <1>4 DEF Recent
<1>6. \A n \in 1 .. Len(stamps) - d : NthOf(d + 1 .. Len(stamps), n) = d + n
    BY <1>1, NthFromThere
<1>7. Recent(stamps, window) = [n \in 1 .. Len(stamps) - d |-> stamps[d + n]]
    BY <1>5, <1>6
<1>8. Len(stamps) - d \in Nat /\ \A n \in 1 .. Len(stamps) - d : stamps[d + n] \in Nat
    BY <1>1
<1>9. /\ Recent(stamps, window) \in Seq(Nat)
      /\ Len(Recent(stamps, window)) = Len(stamps) - d
      /\ \A n \in 1 .. Len(stamps) - d : Recent(stamps, window)[n] = stamps[d + n]
    BY <1>7, <1>8
<1>10. \A n \in 1 .. Len(stamps) - d : d + n \in d + 1 .. Len(stamps)
    BY <1>1
<1>11. \A n \in 1 .. Len(stamps) - d : stamps[d + n] + window > now
    BY <1>2, <1>10 DEF LiveAt
<1>12. \A i \in 1 .. d : stamps[i] + window <= now
  <2>1. ASSUME NEW i \in 1 .. d PROVE stamps[i] + window <= now
    <3>1. i \in 1 .. Len(stamps) /\ i \notin d + 1 .. Len(stamps)
        BY <1>1
    <3>2. ~(stamps[i] + window > now) /\ stamps[i] \in Nat
        BY <1>1, <1>2, <3>1 DEF LiveAt
    <3>3. QED
        BY <3>2
  <2>2. QED
      BY <2>1
<1>13. Chronological(Recent(stamps, window))
  <2>1. ASSUME NEW i \in 1 .. Len(stamps) - d, NEW j \in 1 .. Len(stamps) - d, i <= j
        PROVE  stamps[d + i] <= stamps[d + j]
      BY <1>1, <2>1 DEF Chronological
  <2>2. QED
      BY <1>9, <2>1 DEF Chronological
<1>14. Len(stamps) - (Len(stamps) - d) = d
    BY <1>1
<1>15. TailOf(Recent(stamps, window), stamps, window)
    BY <1>1, <1>9, <1>12, <1>14 DEF TailOf
<1>16. QED
    BY <1>2, <1>9, <1>11, <1>13, <1>15

(* What left the window does not count: a tail has as many in it.          *)
LEMMA TailLivesOn ==
    ASSUME NEW tail, NEW stamps, Chronological(tail), Chronological(stamps), NEW window \in Nat, now \in Nat,
           NEW t \in Nat, t >= now, TailOf(tail, stamps, window)
    PROVE  Cardinality(LiveAt(tail, window, t)) = Cardinality(LiveAt(stamps, window, t))
<1>1. /\ Len(tail) \in Nat /\ Len(stamps) \in Nat /\ Len(tail) <= Len(stamps)
      /\ \A i \in 1 .. Len(stamps) : stamps[i] \in Nat
      /\ \A i \in 1 .. Len(tail) : tail[i] = stamps[(Len(stamps) - Len(tail)) + i]
      /\ \A i \in 1 .. Len(stamps) - Len(tail) : stamps[i] + window <= now
    BY DEF Chronological, TailOf
<1>2. PICK gone \in Nat : gone = Len(stamps) - Len(tail)
  <2>1. Len(stamps) - Len(tail) \in Nat
      BY <1>1
  <2>2. QED
      BY <2>1
<1>3. PICK d \in 0 .. Len(stamps) :
          /\ LiveAt(stamps, window, t) = d + 1 .. Len(stamps)
          /\ Cardinality(LiveAt(stamps, window, t)) = Len(stamps) - d
    BY LiveIsATail
<1>4. d >= gone
  <2>1. SUFFICES ASSUME d < gone PROVE FALSE
      BY <1>2, <1>3
  <2>2. d + 1 \in 1 .. gone /\ d + 1 \in d + 1 .. Len(stamps)
      BY <1>1, <1>2, <1>3, <2>1
  <2>3. stamps[d + 1] + window <= now
      BY <1>1, <1>2, <2>2
  <2>4. stamps[d + 1] + window > t /\ stamps[d + 1] \in Nat
      BY <1>1, <1>3, <2>2 DEF LiveAt
  <2>5. QED
      BY <2>3, <2>4
<1>5. LiveAt(tail, window, t) = (d - gone) + 1 .. Len(tail)
  <2>1. ASSUME NEW i \in 1 .. Len(tail)
        PROVE  tail[i] + window > t <=> i \in (d - gone) + 1 .. Len(tail)
    <3>1. gone + i \in 1 .. Len(stamps) /\ tail[i] = stamps[gone + i]
        BY <1>1, <1>2
    <3>2. stamps[gone + i] + window > t <=> gone + i \in d + 1 .. Len(stamps)
        BY <1>3, <3>1 DEF LiveAt
    <3>3. gone + i \in d + 1 .. Len(stamps) <=> i \in (d - gone) + 1 .. Len(tail)
        BY <1>1, <1>2, <1>3, <1>4
    <3>4. QED
        BY <3>1, <3>2, <3>3
  <2>2. (d - gone) + 1 .. Len(tail) \subseteq 1 .. Len(tail)
      BY <1>1, <1>2, <1>3, <1>4
  <2>3. QED
      BY <2>1, <2>2 DEF LiveAt
<1>6. Cardinality((d - gone) + 1 .. Len(tail)) = Len(tail) - (d - gone)
  <2>1. d - gone \in Nat /\ d - gone <= Len(tail)
      BY <1>1, <1>2, <1>3, <1>4
  <2>2. QED
      BY <1>1, <2>1, IntervalSize
<1>7. QED
    BY <1>1, <1>2, <1>3, <1>5, <1>6

LEMMA TailsOfTails ==
    ASSUME NEW low, NEW mid, NEW high, Chronological(low), Chronological(mid), Chronological(high),
           now \in Nat, NEW short \in Nat, NEW long \in Nat, short <= long,
           TailOf(low, mid, short), TailOf(mid, high, long)
    PROVE  TailOf(low, high, short)
<1>1. /\ Len(low) \in Nat /\ Len(mid) \in Nat /\ Len(high) \in Nat
      /\ Len(low) <= Len(mid) /\ Len(mid) <= Len(high)
      /\ \A i \in 1 .. Len(high) : high[i] \in Nat
    BY DEF Chronological, TailOf
<1>2. PICK e \in Nat, g \in Nat : e = Len(mid) - Len(low) /\ g = Len(high) - Len(mid)
  <2>1. Len(mid) - Len(low) \in Nat /\ Len(high) - Len(mid) \in Nat
      BY <1>1
  <2>2. QED
      BY <2>1
<1>3. ASSUME NEW i \in 1 .. Len(low)
      PROVE  low[i] = high[(Len(high) - Len(low)) + i]
  <2>1. low[i] = mid[e + i] /\ e + i \in 1 .. Len(mid)
      BY <1>1, <1>2 DEF TailOf
  <2>2. mid[e + i] = high[g + (e + i)]
      BY <1>2, <2>1 DEF TailOf
  <2>3. g + (e + i) = (Len(high) - Len(low)) + i
      BY <1>1, <1>2
  <2>4. QED
      BY <2>1, <2>2, <2>3
<1>4. ASSUME NEW i \in 1 .. Len(high) - Len(low)
      PROVE  high[i] + short <= now
  <2>1. high[i] \in Nat
      BY <1>1
  <2>2. CASE i <= g
    <3>1. high[i] + long <= now
        BY <1>2, <2>2 DEF TailOf
    <3>2. QED
        BY <2>1, <3>1
  <2>3. CASE i > g
    <3>1. PICK k \in 1 .. e : i = g + k
      <4>1. i - g \in 1 .. e /\ i = g + (i - g)
          BY <1>1, <1>2, <2>3
      <4>2. QED
          BY <4>1
    <3>2. mid[k] + short <= now /\ k \in 1 .. Len(mid)
        BY <1>1, <1>2 DEF TailOf
    <3>3. mid[k] = high[i]
        BY <1>2, <3>1, <3>2 DEF TailOf
    <3>4. QED
        BY <3>2, <3>3
  <2>4. QED
      BY <1>1, <1>2, <2>2, <2>3
<1>5. QED
    BY <1>1, <1>3, <1>4 DEF TailOf

LEMMA OwnTail ==
    ASSUME NEW stamps, Chronological(stamps), NEW window
    PROVE  TailOf(stamps, stamps, window)
<1>1. Len(stamps) \in Nat /\ Len(stamps) - Len(stamps) = 0
    BY DEF Chronological
<1>2. \A i \in 1 .. Len(stamps) : 0 + i = i
    BY <1>1
<1>3. 1 .. 0 = {}
    OBVIOUS
<1>4. QED
    BY <1>1, <1>2, <1>3 DEF TailOf

(* Writes charged now come last, and are in every window.                  *)
LEMMA ChargedComeLast ==
    ASSUME now \in Nat, NEW stamps, Chronological(stamps), \A i \in 1 .. Len(stamps) : stamps[i] <= now,
           NEW count \in Nat, NEW new, new = stamps \o [i \in 1 .. count |-> now]
    PROVE  /\ Chronological(new) /\ Len(new) = Len(stamps) + count
           /\ \A i \in 1 .. Len(stamps) : new[i] = stamps[i]
           /\ \A i \in 1 .. count : new[Len(stamps) + i] = now
           /\ \A i \in 1 .. Len(new) : new[i] <= now
<1>1. PICK charged \in Seq(Nat) : charged = [i \in 1 .. count |-> now]
    OBVIOUS
<1>2. Len(charged) = count /\ \A i \in 1 .. count : charged[i] = now
    BY <1>1
<1>3. stamps \in Seq(Nat) /\ Len(stamps) \in Nat /\ \A i \in 1 .. Len(stamps) : stamps[i] \in Nat
    BY DEF Chronological
<1>4. /\ new \in Seq(Nat) /\ Len(new) = Len(stamps) + count
      /\ \A i \in 1 .. Len(stamps) : new[i] = stamps[i]
      /\ \A i \in 1 .. count : new[Len(stamps) + i] = now
  <2>1. new = stamps \o charged
      BY <1>1
  <2>2. new \in Seq(Nat) /\ Len(new) = Len(stamps) + count
      BY <1>2, <1>3, <2>1
  <2>3. \A i \in 1 .. Len(stamps) : new[i] = stamps[i]
      BY <1>2, <1>3, <2>1
  <2>4. ASSUME NEW i \in 1 .. count PROVE new[Len(stamps) + i] = now
      BY <1>2, <1>3, <2>1
  <2>5. QED
      BY <2>2, <2>3, <2>4
<1>5. ASSUME NEW i \in 1 .. Len(new) PROVE i \in 1 .. Len(stamps) \/ new[i] = now
  <2>1. CASE i > Len(stamps)
    <3>1. i - Len(stamps) \in 1 .. count /\ i = Len(stamps) + (i - Len(stamps))
        BY <1>3, <1>4, <2>1
    <3>2. QED
        BY <1>4, <3>1
  <2>2. QED
      BY <1>3, <1>4, <2>1
<1>6. \A i \in 1 .. Len(new) : new[i] <= now
    BY <1>3, <1>4, <1>5
<1>7. Chronological(new)
  <2>1. ASSUME NEW i \in 1 .. Len(new), NEW j \in 1 .. Len(new), i <= j PROVE new[i] <= new[j]
    <3>1. CASE new[j] = now
        BY <1>6, <3>1
    <3>2. CASE j \in 1 .. Len(stamps)
        BY <1>3, <1>4, <2>1, <3>2 DEF Chronological
    <3>3. QED
        BY <1>5, <3>1, <3>2
  <2>2. QED
      BY <1>4, <2>1 DEF Chronological
<1>8. QED
    BY <1>4, <1>6, <1>7

LEMMA ChargedCount ==
    ASSUME now \in Nat, NEW stamps, Chronological(stamps), \A i \in 1 .. Len(stamps) : stamps[i] <= now,
           NEW count \in Nat, NEW new, new = stamps \o [i \in 1 .. count |-> now], NEW window \in Nat \ {0}
    PROVE  Cardinality(LiveAt(new, window, now)) = Cardinality(LiveAt(stamps, window, now)) + count
<1>1. stamps \in Seq(Nat) /\ Len(stamps) \in Nat /\ \A i \in 1 .. Len(stamps) : stamps[i] \in Nat
    BY DEF Chronological
<1>2. /\ new \in Seq(Nat) /\ Len(new) = Len(stamps) + count
      /\ \A i \in 1 .. Len(stamps) : new[i] = stamps[i]
      /\ \A i \in 1 .. count : new[Len(stamps) + i] = now
    BY ChargedComeLast DEF Chronological
<1>3. \A i \in 1 .. Len(new) : i > Len(stamps) => new[i] = now
  <2>1. ASSUME NEW i \in 1 .. Len(new), i > Len(stamps) PROVE new[i] = now
    <3>1. i - Len(stamps) \in 1 .. count /\ i = Len(stamps) + (i - Len(stamps))
        BY <1>1, <1>2, <2>1
    <3>2. QED
        BY <1>2, <3>1
  <2>2. QED
      BY <2>1
<1>4. PICK d \in 0 .. Len(stamps) :
          /\ LiveAt(stamps, window, now) = d + 1 .. Len(stamps)
          /\ Cardinality(LiveAt(stamps, window, now)) = Len(stamps) - d
    BY LiveIsATail
<1>5. ASSUME NEW i \in 1 .. Len(new)
      PROVE  new[i] + window > now <=> i \in d + 1 .. Len(new)
  <2>1. CASE i \in 1 .. Len(stamps)
    <3>1. new[i] + window > now <=> i \in d + 1 .. Len(stamps)
        BY <1>2, <1>4, <2>1 DEF LiveAt
    <3>2. QED
        BY <1>1, <1>2, <2>1, <3>1
  <2>2. CASE i > Len(stamps)
      BY <1>1, <1>2, <1>3, <1>4, <2>2
  <2>3. QED
      BY <1>1, <1>2, <2>1, <2>2
<1>6. LiveAt(new, window, now) = d + 1 .. Len(new)
  <2>1. d + 1 .. Len(new) \subseteq 1 .. Len(new)
      BY <1>1, <1>2
  <2>2. QED
      BY <1>5, <2>1 DEF LiveAt
<1>7. Cardinality(d + 1 .. Len(new)) = Len(new) - d
    BY <1>1, <1>2, <1>4, IntervalSize
<1>8. QED
    BY <1>1, <1>2, <1>4, <1>6, <1>7

(* slotWait() names the first moment at which `count` more writes fit.     *)
LEMMA SlotWaitIsExact ==
    ASSUME now \in Nat, NEW stamps, Chronological(stamps), \A i \in 1 .. Len(stamps) : stamps[i] <= now,
           NEW kept, Chronological(kept), NEW window \in Nat, TailOf(kept, stamps, window),
           \A i \in 1 .. Len(kept) : kept[i] + window > now,
           NEW limit \in Nat, NEW count \in 1 .. limit
    PROVE  /\ SlotWait(kept, limit, count, window) \in Nat
           /\ SlotWait(kept, limit, count, window) = 0 => Len(kept) + count <= limit
           /\ \A w \in Nat : Cardinality(LiveAt(stamps, window, now + w)) + count <= limit
                                 <=> w >= SlotWait(kept, limit, count, window)
<1>1. Len(kept) \in Nat /\ \A i \in 1 .. Len(kept) : kept[i] \in Nat
    BY DEF Chronological
<1>2. ASSUME NEW w \in Nat
      PROVE  \E d \in 0 .. Len(kept) :
                /\ LiveAt(kept, window, now + w) = d + 1 .. Len(kept)
                /\ Cardinality(LiveAt(stamps, window, now + w)) = Len(kept) - d
  <2>1. now + w \in Nat /\ now + w >= now
      OBVIOUS
  <2>2. PICK d \in 0 .. Len(kept) :
            /\ LiveAt(kept, window, now + w) = d + 1 .. Len(kept)
            /\ Cardinality(LiveAt(kept, window, now + w)) = Len(kept) - d
      BY <2>1, LiveIsATail
  <2>3. Cardinality(LiveAt(kept, window, now + w)) = Cardinality(LiveAt(stamps, window, now + w))
      BY <2>1, TailLivesOn
  <2>4. QED
      BY <2>2, <2>3
<1>3. CASE Len(kept) + count <= limit
  <2>1. SlotWait(kept, limit, count, window) = 0
      BY <1>3 DEF SlotWait
  <2>2. ASSUME NEW w \in Nat PROVE Cardinality(LiveAt(stamps, window, now + w)) + count <= limit
    <3>1. PICK d \in 0 .. Len(kept) : Cardinality(LiveAt(stamps, window, now + w)) = Len(kept) - d
        BY <1>2
    <3>2. QED
        BY <1>1, <1>3, <3>1
  <2>3. QED
      BY <1>3, <2>1, <2>2
<1>4. CASE Len(kept) + count > limit
  <2>1. PICK k \in Nat : k = Len(kept) + count - limit
      BY <1>1, <1>4
  <2>2. k \in 1 .. Len(kept) /\ Len(kept) - k = limit - count
      BY <1>1, <1>4, <2>1
  <2>3. SlotWait(kept, limit, count, window) = kept[k] + window - now
      BY <1>1, <1>4, <2>1 DEF SlotWait
  <2>4. kept[k] \in Nat /\ kept[k] + window > now
      BY <1>1, <2>2
  <2>5. SlotWait(kept, limit, count, window) \in Nat \ {0}
      BY <2>3, <2>4
  <2>6. ASSUME NEW w \in Nat
        PROVE  Cardinality(LiveAt(stamps, window, now + w)) + count <= limit
                   <=> w >= SlotWait(kept, limit, count, window)
    <3>1. PICK d \in 0 .. Len(kept) :
              /\ LiveAt(kept, window, now + w) = d + 1 .. Len(kept)
              /\ Cardinality(LiveAt(stamps, window, now + w)) = Len(kept) - d
        BY <1>2
    <3>2. kept[k] + window > now + w <=> k \in d + 1 .. Len(kept)
        BY <2>2, <3>1 DEF LiveAt
    <3>3. w >= SlotWait(kept, limit, count, window) <=> ~(kept[k] + window > now + w)
        BY <2>3, <2>4
    <3>4. k \in d + 1 .. Len(kept) <=> d < k
        BY <1>1, <2>2
    <3>5. Len(kept) - d + count <= limit <=> d >= k
        BY <1>1, <2>1, <2>2
    <3>6. QED
        BY <2>2, <3>1, <3>2, <3>3, <3>4, <3>5
  <2>7. QED
      BY <2>5, <2>6
<1>5. QED
    BY <1>1, <1>3, <1>4
LEMMA WaitIsTheLonger ==
    ASSUME NEW stamps, NEW count,
           SlotWait(Recent(stamps, Minute), PerMinute, count, Minute) \in Nat,
           SlotWait(stamps, PerHour, count, Hour) \in Nat
    PROVE  /\ WaitFor(stamps, count) \in {SlotWait(Recent(stamps, Minute), PerMinute, count, Minute),
                                          SlotWait(stamps, PerHour, count, Hour)}
           /\ WaitFor(stamps, count) \in Nat
           /\ WaitFor(stamps, count) >= SlotWait(Recent(stamps, Minute), PerMinute, count, Minute)
           /\ WaitFor(stamps, count) >= SlotWait(stamps, PerHour, count, Hour)
<1>1. ASSUME NEW a \in Nat, NEW b \in Nat
      PROVE  Max({a, b}) \in {a, b} /\ Max({a, b}) >= a /\ Max({a, b}) >= b
  <2>1. \E x \in {a, b} : \A y \in {a, b} : x >= y
      OBVIOUS
  <2>2. QED
      BY <2>1 DEF Max
<1>2. QED
    BY <1>1 DEF WaitFor

BudgetAsks == [count : Nat, stamps : Seq(Nat)]

BudgetTypes ==
    /\ now \in Nat
    /\ Chronological(log) /\ \A i \in 1 .. Len(log) : log[i] <= now
    /\ Chronological(granted) /\ \A i \in 1 .. Len(granted) : granted[i] <= now
    /\ asking \in [Pushers -> BudgetAsks \cup {Null}]
    /\ overlapped \in BOOLEAN

(* A reservation in progress was read from a log in order, and no time has  *)
(* passed since.                                                           *)
AskSound(p) ==
    asking[p] # Null =>
        /\ asking[p].count \in 1 .. PerMinute
        /\ Chronological(asking[p].stamps)
        /\ \A i \in 1 .. Len(asking[p].stamps) : asking[p].stamps[i] <= now /\ asking[p].stamps[i] + Hour > now

(* Where no two reservations met, one at a time is in progress, over the    *)
(* log as it is, and the log has every write granted that is in a window.  *)
LogIsComplete ==
    /\ TailOf(log, granted, Hour)
    /\ \A p, q \in Pushers : asking[p] # Null /\ asking[q] # Null => p = q
    /\ \A p \in Pushers : asking[p] # Null => asking[p].stamps = Prune(log)
    /\ Cardinality(LiveAt(granted, Minute, now)) <= PerMinute
    /\ Cardinality(LiveAt(granted, Hour, now)) <= PerHour

BudgetInv ==
    /\ BudgetTypes
    /\ \A p \in Pushers : AskSound(p)
    /\ ~overlapped => LogIsComplete

LEMMA NothingGranted ==
    ASSUME NEW window, NEW t
    PROVE  /\ Chronological(<<>>)
           /\ TailOf(<<>>, <<>>, window)
           /\ Cardinality(LiveAt(<<>>, window, t)) = 0
<1>1. <<>> \in Seq(Nat) /\ Len(<<>>) = 0 /\ 1 .. 0 = {}
    OBVIOUS
<1>2. Chronological(<<>>)
    BY <1>1 DEF Chronological
<1>3. LiveAt(<<>>, window, t) = {}
    BY <1>1 DEF LiveAt
<1>4. QED
    BY <1>2, <1>3, OwnTail, FS_EmptySet

LEMMA BudgetStart == BudgetInit => BudgetInv
<1> SUFFICES ASSUME BudgetInit PROVE BudgetInv
    OBVIOUS
<1>1. /\ now = 1 /\ log = <<>> /\ granted = <<>> /\ overlapped = FALSE
      /\ asking = [p \in Pushers |-> Null]
    BY DEF BudgetInit
<1>2. \A p \in Pushers : asking[p] = Null
    BY <1>1
<1>3. Len(<<>>) = 0 /\ 1 .. 0 = {}
    OBVIOUS
<1>4. Chronological(log) /\ Chronological(granted) /\ TailOf(log, granted, Hour)
    BY <1>1, NothingGranted
<1>5. /\ Cardinality(LiveAt(granted, Minute, now)) = 0
      /\ Cardinality(LiveAt(granted, Hour, now)) = 0
    BY <1>1, NothingGranted
<1>6. BudgetTypes
    BY <1>1, <1>3, <1>4 DEF BudgetTypes
<1>7. LogIsComplete
    BY <1>2, <1>4, <1>5, BudgetNumbers DEF LogIsComplete
<1>8. QED
    BY <1>2, <1>6, <1>7 DEF BudgetInv, AskSound

LEMMA SpendReadsStep ==
    ASSUME BudgetInv, NEW p \in Pushers, SpendReads(p)
    PROVE  BudgetInv'
<1>1. PICK count \in 1 .. PerMinute : asking' = [asking EXCEPT ![p] = [count |-> count, stamps |-> Prune(log)]]
    BY DEF SpendReads
<1>2. /\ asking[p] = Null
      /\ UNCHANGED <<now, log, granted>>
    BY DEF SpendReads
<1>3. PICK meet \in BOOLEAN : meet <=> overlapped \/ \E q \in Pushers : asking[q] # Null
    OBVIOUS
<1>4. overlapped' \in BOOLEAN /\ (overlapped' <=> overlapped \/ \E q \in Pushers : asking[q] # Null)
  <2>1. overlapped' = (overlapped \/ \E q \in Pushers : asking[q] # Null)
      BY DEF SpendReads
  <2>2. QED
      BY <2>1 DEF BudgetInv, BudgetTypes
<1>5. /\ now \in Nat /\ Chronological(log) /\ \A i \in 1 .. Len(log) : log[i] <= now
      /\ log \in Seq(Nat) /\ Hour \in Nat
    BY BudgetNumbers DEF BudgetInv, BudgetTypes, Chronological
<1>6. /\ Chronological(Prune(log)) /\ TailOf(Prune(log), log, Hour)
      /\ \A i \in 1 .. Len(Prune(log)) : Prune(log)[i] + Hour > now
    BY <1>5, RecentIsATail DEF Prune
<1>7. \A i \in 1 .. Len(Prune(log)) : Prune(log)[i] <= now
  <2>1. ASSUME NEW i \in 1 .. Len(Prune(log)) PROVE Prune(log)[i] <= now
    <3>1. Len(log) \in Nat /\ Len(Prune(log)) \in Nat /\ Len(Prune(log)) <= Len(log)
        BY <1>5, <1>6 DEF TailOf, Chronological
    <3>2. Prune(log)[i] = log[(Len(log) - Len(Prune(log))) + i]
        BY <1>6 DEF TailOf
    <3>3. (Len(log) - Len(Prune(log))) + i \in 1 .. Len(log)
        BY <3>1
    <3>4. QED
        BY <1>5, <3>2, <3>3
  <2>2. QED
      BY <2>1
<1>8. [count |-> count, stamps |-> Prune(log)] \in BudgetAsks
    BY <1>6, BudgetNumbers DEF BudgetAsks, Chronological
<1>9. PICK ask \in BudgetAsks : ask = [count |-> count, stamps |-> Prune(log)]
    BY <1>8
<1>10. /\ asking' \in [Pushers -> BudgetAsks \cup {Null}]
       /\ asking'[p] = ask
       /\ \A q \in Pushers \ {p} : asking'[q] = asking[q]
    BY <1>1, <1>9 DEF BudgetInv, BudgetTypes
<1>11. ask.count \in 1 .. PerMinute /\ ask.stamps = Prune(log)
    BY <1>9
<1>12. BudgetTypes'
    BY <1>2, <1>4, <1>10 DEF BudgetInv, BudgetTypes, LiveAt, Chronological
<1>13. Prune(log)' = Prune(log)
    BY <1>2 DEF Prune, Recent
<1>14. \A q \in Pushers : AskSound(q)'
  <2>1. AskSound(p)'
      BY <1>2, <1>6, <1>7, <1>10, <1>11 DEF AskSound, Chronological
  <2>2. ASSUME NEW q \in Pushers \ {p} PROVE AskSound(q)'
      BY <1>2, <1>10, <2>2 DEF AskSound, BudgetInv, Chronological
  <2>3. QED
      BY <2>1, <2>2
<1>15. ASSUME ~overlapped' PROVE LogIsComplete'
  <2>1. ~overlapped /\ \A q \in Pushers : asking[q] = Null
      BY <1>4, <1>15
  <2>2. LogIsComplete
      BY <2>1 DEF BudgetInv
  <2>3. \A q \in Pushers : asking'[q] # Null => q = p
      BY <1>10, <2>1
  <2>4. \A q \in Pushers : asking'[q] # Null => asking'[q].stamps = Prune(log)'
      BY <1>10, <1>11, <1>13, <2>3
  <2>5. TailOf(log, granted, Hour)'
      BY <1>2, <2>2 DEF LogIsComplete, TailOf
  <2>6. /\ (Cardinality(LiveAt(granted, Minute, now)) <= PerMinute)'
        /\ (Cardinality(LiveAt(granted, Hour, now)) <= PerHour)'
      BY <1>2, <2>2 DEF LogIsComplete, LiveAt
  <2>7. QED
      BY <2>3, <2>4, <2>5, <2>6 DEF LogIsComplete
<1>16. QED
    BY <1>12, <1>14, <1>15 DEF BudgetInv

(* A reservation is granted only if it fits both windows.                  *)
LEMMA NoWaitFits ==
    ASSUME now \in Nat, NEW stamps, Chronological(stamps),
           \A i \in 1 .. Len(stamps) : stamps[i] <= now /\ stamps[i] + Hour > now,
           NEW count \in 1 .. PerMinute
    PROVE  /\ WaitFor(stamps, count) \in Nat
           /\ WaitFor(stamps, count) = 0 =>
                 /\ Cardinality(LiveAt(stamps, Minute, now)) + count <= PerMinute
                 /\ Cardinality(LiveAt(stamps, Hour, now)) + count <= PerHour
<1>1. /\ Minute \in Nat /\ Hour \in Nat /\ PerMinute \in Nat /\ PerHour \in Nat
      /\ count \in 1 .. PerHour
    BY BudgetNumbers
<1>2. PICK minute : minute = Recent(stamps, Minute)
    OBVIOUS
<1>3. /\ Chronological(minute) /\ TailOf(minute, stamps, Minute)
      /\ Len(minute) = Cardinality(LiveAt(stamps, Minute, now))
      /\ \A i \in 1 .. Len(minute) : minute[i] + Minute > now
    BY <1>1, <1>2, RecentIsATail
<1>4. /\ SlotWait(minute, PerMinute, count, Minute) \in Nat
      /\ SlotWait(minute, PerMinute, count, Minute) = 0 => Len(minute) + count <= PerMinute
    BY <1>1, <1>3, SlotWaitIsExact
<1>5. TailOf(stamps, stamps, Hour)
    BY OwnTail
<1>6. /\ SlotWait(stamps, PerHour, count, Hour) \in Nat
      /\ SlotWait(stamps, PerHour, count, Hour) = 0 => Len(stamps) + count <= PerHour
    BY <1>1, <1>5, SlotWaitIsExact
<1>7. Cardinality(LiveAt(stamps, Hour, now)) = Len(stamps)
  <2>1. LiveAt(stamps, Hour, now) = 0 + 1 .. Len(stamps)
      BY DEF LiveAt
  <2>2. Len(stamps) \in Nat
      BY DEF Chronological
  <2>3. Cardinality(0 + 1 .. Len(stamps)) = Len(stamps) - 0
    <3>1. 0 \in Nat /\ 0 <= Len(stamps)
        BY <2>2
    <3>2. QED
        BY <2>2, <3>1, IntervalSize
  <2>4. QED
      BY <2>1, <2>2, <2>3
<1>8. /\ WaitFor(stamps, count) \in Nat
      /\ WaitFor(stamps, count) >= SlotWait(minute, PerMinute, count, Minute)
      /\ WaitFor(stamps, count) >= SlotWait(stamps, PerHour, count, Hour)
    BY <1>2, <1>4, <1>6, WaitIsTheLonger
<1>9. QED
    BY <1>3, <1>4, <1>6, <1>7, <1>8

LEMMA SpendWritesStep ==
    ASSUME BudgetInv, NEW p \in Pushers, SpendWrites(p)
    PROVE  BudgetInv'
<1>1. /\ asking[p] # Null
      /\ asking' = [asking EXCEPT ![p] = Null]
      /\ UNCHANGED <<now, overlapped>>
    BY DEF SpendWrites
<1>2. /\ asking' \in [Pushers -> BudgetAsks \cup {Null}] /\ asking'[p] = Null
      /\ \A q \in Pushers \ {p} : asking'[q] = asking[q]
    BY <1>1 DEF BudgetInv, BudgetTypes
<1>3. \A q \in Pushers : AskSound(q)'
    BY <1>1, <1>2 DEF BudgetInv, AskSound, Chronological
<1>4. PICK stamps : stamps = asking[p].stamps
    OBVIOUS
<1>5. PICK count \in 1 .. PerMinute : count = asking[p].count
    BY <1>1 DEF BudgetInv, AskSound
<1>6. /\ now \in Nat /\ Chronological(stamps)
      /\ \A i \in 1 .. Len(stamps) : stamps[i] <= now /\ stamps[i] + Hour > now
    BY <1>1, <1>4 DEF BudgetInv, BudgetTypes, AskSound
<1>7. CASE UNCHANGED <<log, granted>>
  <2>1. BudgetTypes'
      BY <1>1, <1>2, <1>7 DEF BudgetInv, BudgetTypes, Chronological
  <2>2. ASSUME ~overlapped' PROVE LogIsComplete'
    <3>1. LogIsComplete
        BY <1>1, <2>2 DEF BudgetInv
    <3>2. Prune(log)' = Prune(log)
        BY <1>1, <1>7 DEF Prune, Recent
    <3>3. /\ (Cardinality(LiveAt(granted, Minute, now)) <= PerMinute)'
          /\ (Cardinality(LiveAt(granted, Hour, now)) <= PerHour)'
          /\ TailOf(log, granted, Hour)'
        BY <1>1, <1>7, <3>1 DEF LogIsComplete, LiveAt, TailOf
    <3>4. QED
        BY <1>2, <3>1, <3>2, <3>3 DEF LogIsComplete
  <2>3. QED
      BY <1>3, <2>1, <2>2 DEF BudgetInv
<1>8. CASE ~ UNCHANGED <<log, granted>>
  <2>1. /\ WaitFor(stamps, count) = 0
        /\ log' = stamps \o [i \in 1 .. count |-> now]
        /\ granted' = granted \o [i \in 1 .. count |-> now]
    <3>1. IF WaitFor(stamps, count) > 0
          THEN UNCHANGED <<log, granted>>
          ELSE LET charged == [i \in 1 .. count |-> now]
               IN  log' = stamps \o charged /\ granted' = granted \o charged
        BY <1>4, <1>5, Zenon DEF SpendWrites
    <3>2. WaitFor(stamps, count) \in Nat
        BY <1>6, NoWaitFits
    <3>3. ~(WaitFor(stamps, count) > 0)
        BY <1>8, <3>1
    <3>4. WaitFor(stamps, count) = 0
        BY <3>2, <3>3
    <3>5. QED
        BY <3>1, <3>3, <3>4, Zenon
  <2>2. Chronological(granted) /\ \A i \in 1 .. Len(granted) : granted[i] <= now
      BY DEF BudgetInv, BudgetTypes
  <2>3. /\ Chronological(log') /\ Len(log') = Len(stamps) + count
        /\ \A i \in 1 .. Len(stamps) : log'[i] = stamps[i]
        /\ \A i \in 1 .. count : log'[Len(stamps) + i] = now
        /\ \A i \in 1 .. Len(log') : log'[i] <= now
    <3>1. PICK new : new = stamps \o [i \in 1 .. count |-> now]
        OBVIOUS
    <3>2. count \in Nat /\ \A i \in 1 .. Len(stamps) : stamps[i] <= now
        BY <1>6, BudgetNumbers
    <3>3. log' = new
        BY <2>1, <3>1
    <3>4. QED
        BY <1>6, <3>1, <3>2, <3>3, ChargedComeLast
  <2>4. /\ Chronological(granted') /\ Len(granted') = Len(granted) + count
        /\ \A i \in 1 .. Len(granted) : granted'[i] = granted[i]
        /\ \A i \in 1 .. count : granted'[Len(granted) + i] = now
        /\ \A i \in 1 .. Len(granted') : granted'[i] <= now
    <3>1. PICK new : new = granted \o [i \in 1 .. count |-> now]
        OBVIOUS
    <3>2. count \in Nat
        BY BudgetNumbers
    <3>3. granted' = new
        BY <2>1, <3>1
    <3>4. QED
        BY <1>6, <2>2, <3>1, <3>2, <3>3, ChargedComeLast
  <2>5. ASSUME NEW window \in Nat \ {0}
        PROVE  Cardinality(LiveAt(granted', window, now)) = Cardinality(LiveAt(granted, window, now)) + count
    <3>1. PICK new, before : new = granted' /\ before = granted
        OBVIOUS
    <3>2. now \in Nat /\ count \in Nat /\ Chronological(before) /\ \A i \in 1 .. Len(before) : before[i] <= now
        BY <1>6, <2>2, <3>1, BudgetNumbers
    <3>3. new = before \o [i \in 1 .. count |-> now]
        BY <2>1, <3>1
    <3>4. Cardinality(LiveAt(new, window, now)) = Cardinality(LiveAt(before, window, now)) + count
        BY <3>2, <3>3, ChargedCount
    <3>5. QED
        BY <3>1, <3>4
  <2>6. BudgetTypes'
    <3>1. now' = now /\ overlapped' = overlapped
        BY <1>1
    <3>2. Chronological(log)' /\ Chronological(granted)'
        BY <2>3, <2>4 DEF Chronological
    <3>3. QED
        BY <1>2, <2>3, <2>4, <3>1, <3>2 DEF BudgetInv, BudgetTypes
  <2>7. ASSUME ~overlapped' PROVE LogIsComplete'
    <3>1. LogIsComplete
        BY <1>1, <2>7 DEF BudgetInv
    <3>2. \A q \in Pushers : asking'[q] = Null
        BY <1>1, <1>2, <3>1 DEF LogIsComplete
    <3>3. /\ Minute \in Nat \ {0} /\ Hour \in Nat \ {0} /\ Minute <= Hour
        BY BudgetNumbers
    <3>4. TailOf(stamps, granted, Hour)
      <4>1. stamps = Recent(log, Hour)
          BY <1>1, <1>4, <3>1 DEF LogIsComplete, Prune
      <4>2. Chronological(log) /\ TailOf(log, granted, Hour)
          BY <3>1 DEF BudgetInv, BudgetTypes, LogIsComplete
      <4>3. TailOf(stamps, log, Hour)
          BY <1>6, <3>3, <4>1, <4>2, RecentIsATail
      <4>4. QED
          BY <1>6, <2>2, <3>3, <4>2, <4>3, TailsOfTails
    <3>5. TailOf(stamps, granted, Minute)
      <4>1. TailOf(stamps, stamps, Minute)
          BY <1>6, OwnTail
      <4>2. QED
          BY <1>6, <2>2, <3>3, <3>4, <4>1, TailsOfTails
    <3>6. /\ Cardinality(LiveAt(stamps, Minute, now)) = Cardinality(LiveAt(granted, Minute, now))
          /\ Cardinality(LiveAt(stamps, Hour, now)) = Cardinality(LiveAt(granted, Hour, now))
      <4>1. now >= now
          BY <1>6
      <4>2. QED
          BY <1>6, <2>2, <3>3, <3>4, <3>5, <4>1, TailLivesOn
    <3>7. /\ Cardinality(LiveAt(stamps, Minute, now)) + count <= PerMinute
          /\ Cardinality(LiveAt(stamps, Hour, now)) + count <= PerHour
        BY <1>6, <2>1, NoWaitFits
    <3>8. /\ Cardinality(LiveAt(granted', Minute, now)) <= PerMinute
          /\ Cardinality(LiveAt(granted', Hour, now)) <= PerHour
        BY <2>5, <3>3, <3>6, <3>7
    <3>9. TailOf(log', granted', Hour)
      <4>1. /\ Len(stamps) \in Nat /\ Len(granted) \in Nat /\ Len(stamps) <= Len(granted) /\ count \in Nat
          BY <1>6, <2>2, <3>4, BudgetNumbers DEF Chronological, TailOf
      <4>2. Len(granted') - Len(log') = Len(granted) - Len(stamps) /\ Len(log') <= Len(granted')
          BY <2>3, <2>4, <4>1
      <4>3. ASSUME NEW i \in 1 .. Len(log') PROVE log'[i] = granted'[(Len(granted) - Len(stamps)) + i]
        <5>1. CASE i <= Len(stamps)
          <6>1. i \in 1 .. Len(stamps) /\ (Len(granted) - Len(stamps)) + i \in 1 .. Len(granted)
              BY <4>1, <5>1
          <6>2. stamps[i] = granted[(Len(granted) - Len(stamps)) + i]
              BY <3>4, <6>1 DEF TailOf
          <6>3. QED
              BY <2>3, <2>4, <6>1, <6>2
        <5>2. CASE i > Len(stamps)
          <6>1. PICK k \in 1 .. count : k = i - Len(stamps)
            <7>1. i - Len(stamps) \in 1 .. count
                BY <2>3, <4>1, <5>2
            <7>2. QED
                BY <7>1
          <6>2. i = Len(stamps) + k /\ (Len(granted) - Len(stamps)) + i = Len(granted) + k
              BY <4>1, <6>1
          <6>3. QED
              BY <2>3, <2>4, <6>2
        <5>3. QED
            BY <4>1, <5>1, <5>2
      <4>4. ASSUME NEW i \in 1 .. Len(granted) - Len(stamps) PROVE granted'[i] + Hour <= now
        <5>1. i \in 1 .. Len(granted)
            BY <4>1
        <5>2. granted[i] + Hour <= now
            BY <3>4 DEF TailOf
        <5>3. QED
            BY <2>4, <5>1, <5>2
      <4>5. QED
          BY <4>2, <4>3, <4>4 DEF TailOf
    <3>10. TailOf(log, granted, Hour)'
        BY <1>1, <3>9 DEF TailOf
    <3>11. /\ (Cardinality(LiveAt(granted, Minute, now)) <= PerMinute)'
           /\ (Cardinality(LiveAt(granted, Hour, now)) <= PerHour)'
        BY <1>1, <3>8 DEF LiveAt
    <3>12. QED
        BY <3>2, <3>10, <3>11 DEF LogIsComplete
  <2>8. QED
      BY <1>3, <2>6, <2>7 DEF BudgetInv
<1>9. QED
    BY <1>7, <1>8

LEMMA PushesDieStep ==
    ASSUME BudgetInv, PushesDie
    PROVE  BudgetInv'
<1>1. asking' = [p \in Pushers |-> Null] /\ UNCHANGED <<now, log, granted, overlapped>>
    BY DEF PushesDie
<1>2. asking' \in [Pushers -> BudgetAsks \cup {Null}] /\ \A p \in Pushers : asking'[p] = Null
    BY <1>1
<1>3. BudgetTypes'
    BY <1>1, <1>2 DEF BudgetInv, BudgetTypes, Chronological
<1>4. ASSUME ~overlapped' PROVE LogIsComplete'
    BY <1>1, <1>2, <1>4 DEF BudgetInv, LogIsComplete, LiveAt, TailOf
<1>5. QED
    BY <1>2, <1>3, <1>4 DEF BudgetInv, AskSound

LEMMA LockClearsLogStep ==
    ASSUME BudgetInv, LockClearsLog
    PROVE  BudgetInv'
<1>1. log' = <<>> /\ granted' = <<>> /\ UNCHANGED <<now, asking>>
    BY DEF LockClearsLog
<1>2. overlapped' \in BOOLEAN /\ (overlapped' <=> \E p \in Pushers : asking[p] # Null)
    BY DEF LockClearsLog
<1>3. Len(<<>>) = 0 /\ 1 .. 0 = {}
    OBVIOUS
<1>4. /\ Chronological(log)' /\ Chronological(granted)' /\ TailOf(log, granted, Hour)'
  <2>1. Chronological(<<>>) /\ TailOf(<<>>, <<>>, Hour)
      BY NothingGranted
  <2>2. QED
      BY <1>1, <2>1 DEF Chronological, TailOf
<1>5. BudgetTypes'
    BY <1>1, <1>2, <1>3, <1>4 DEF BudgetInv, BudgetTypes
<1>6. \A p \in Pushers : AskSound(p)'
    BY <1>1 DEF BudgetInv, AskSound, Chronological
<1>7. ASSUME ~overlapped' PROVE LogIsComplete'
  <2>1. \A p \in Pushers : asking'[p] = Null
      BY <1>1, <1>2, <1>7
  <2>2. /\ Cardinality(LiveAt(<<>>, Minute, now')) = 0
        /\ Cardinality(LiveAt(<<>>, Hour, now')) = 0
      BY NothingGranted
  <2>3. /\ (Cardinality(LiveAt(granted, Minute, now)) <= PerMinute)'
        /\ (Cardinality(LiveAt(granted, Hour, now)) <= PerHour)'
      BY <1>1, <2>2, BudgetNumbers DEF LiveAt
  <2>4. QED
      BY <1>4, <2>1, <2>3 DEF LogIsComplete
<1>8. QED
    BY <1>5, <1>6, <1>7 DEF BudgetInv

(* Time only takes writes out of the windows.                              *)
LEMMA TickStep ==
    ASSUME BudgetInv, Tick
    PROVE  BudgetInv'
<1>1. /\ now' = now + 1 /\ \A p \in Pushers : asking[p] = Null
      /\ UNCHANGED <<log, asking, granted, overlapped>>
    BY DEF Tick
<1>2. now \in Nat /\ now' \in Nat /\ now <= now'
    BY <1>1 DEF BudgetInv, BudgetTypes
<1>3. /\ log \in Seq(Nat) /\ granted \in Seq(Nat)
      /\ \A i \in 1 .. Len(log) : log[i] \in Nat /\ log[i] <= now
      /\ \A i \in 1 .. Len(granted) : granted[i] \in Nat /\ granted[i] <= now
    BY DEF BudgetInv, BudgetTypes, Chronological
<1>4. BudgetTypes'
  <2>1. Chronological(log)' /\ Chronological(granted)'
      BY <1>1 DEF BudgetInv, BudgetTypes, Chronological
  <2>2. (\A i \in 1 .. Len(log) : log[i] <= now') /\ (\A i \in 1 .. Len(granted) : granted[i] <= now')
      BY <1>2, <1>3
  <2>3. QED
      BY <1>1, <1>2, <2>1, <2>2 DEF BudgetInv, BudgetTypes
<1>5. ASSUME NEW window \in Nat
      PROVE  Cardinality(LiveAt(granted, window, now')) <= Cardinality(LiveAt(granted, window, now))
  <2>1. LiveAt(granted, window, now') \in SUBSET LiveAt(granted, window, now)
      BY <1>1, <1>2, <1>3 DEF LiveAt
  <2>2. LiveAt(granted, window, now) \in SUBSET (1 .. Len(granted)) /\ 1 \in Int /\ Len(granted) \in Int
      BY <1>3 DEF LiveAt
  <2>3. IsFiniteSet(LiveAt(granted, window, now))
      BY <2>2, FS_Interval, FS_Subset
  <2>4. QED
      BY <2>1, <2>3, FS_Subset
<1>6. ASSUME NEW window \in Nat
      PROVE  Cardinality(LiveAt(granted, window, now)) \in Nat /\ Cardinality(LiveAt(granted, window, now')) \in Nat
  <2>1. /\ LiveAt(granted, window, now) \in SUBSET (1 .. Len(granted))
        /\ LiveAt(granted, window, now') \in SUBSET (1 .. Len(granted))
        /\ 1 \in Int /\ Len(granted) \in Int
      BY <1>3 DEF LiveAt
  <2>2. QED
      BY <2>1, FS_Interval, FS_Subset, FS_CardinalityType
<1>7. ASSUME ~overlapped' PROVE LogIsComplete'
  <2>1. LogIsComplete
      BY <1>1, <1>7 DEF BudgetInv
  <2>2. Minute \in Nat /\ Hour \in Nat /\ PerMinute \in Nat /\ PerHour \in Nat
      BY BudgetNumbers
  <2>3. /\ Cardinality(LiveAt(granted, Minute, now')) <= PerMinute
        /\ Cardinality(LiveAt(granted, Hour, now')) <= PerHour
    <3>1. /\ Cardinality(LiveAt(granted, Minute, now)) <= PerMinute
          /\ Cardinality(LiveAt(granted, Hour, now)) <= PerHour
        BY <2>1 DEF LogIsComplete
    <3>2. QED
        BY <1>5, <1>6, <2>2, <3>1
  <2>4. /\ (Cardinality(LiveAt(granted, Minute, now)) <= PerMinute)'
        /\ (Cardinality(LiveAt(granted, Hour, now)) <= PerHour)'
      BY <1>1, <2>3 DEF LiveAt
  <2>5. TailOf(log, granted, Hour)'
    <3>1. \A i \in 1 .. Len(granted) - Len(log) : granted[i] + Hour <= now'
      <4>1. TailOf(log, granted, Hour) /\ Len(log) \in Nat /\ Len(granted) \in Nat
          BY <1>3, <2>1 DEF LogIsComplete
      <4>2. ASSUME NEW i \in 1 .. Len(granted) - Len(log) PROVE granted[i] + Hour <= now'
        <5>1. i \in 1 .. Len(granted) /\ granted[i] + Hour <= now
            BY <4>1 DEF TailOf
        <5>2. QED
            BY <1>2, <1>3, <2>2, <5>1
      <4>3. QED
          BY <4>2
    <3>2. QED
        BY <1>1, <2>1, <3>1 DEF LogIsComplete, TailOf
  <2>6. QED
      BY <1>1, <2>4, <2>5 DEF LogIsComplete
<1>8. \A p \in Pushers : AskSound(p)'
    BY <1>1 DEF AskSound
<1>9. QED
    BY <1>4, <1>7, <1>8 DEF BudgetInv

LEMMA BudgetStep == BudgetInv /\ [BudgetNext]_budget => BudgetInv'
<1> SUFFICES ASSUME BudgetInv, [BudgetNext]_budget PROVE BudgetInv'
    OBVIOUS
<1>1. CASE UNCHANGED budget
  <2>1. UNCHANGED <<now, log, asking, granted, overlapped>>
      BY <1>1 DEF budget
  <2>2. Prune(log)' = Prune(log)
      BY <2>1 DEF Prune, Recent
  <2>3. BudgetTypes' /\ \A p \in Pushers : AskSound(p)'
      BY <2>1 DEF BudgetInv, BudgetTypes, AskSound, Chronological
  <2>4. ASSUME ~overlapped' PROVE LogIsComplete'
      BY <2>1, <2>2, <2>4 DEF BudgetInv, LogIsComplete, LiveAt, TailOf
  <2>5. QED
      BY <2>3, <2>4 DEF BudgetInv
<1>2. QED
    BY <1>1, SpendReadsStep, SpendWritesStep, PushesDieStep, LockClearsLogStep, TickStep DEF BudgetNext

(* The wait that is named is enough, and not a unit too long.              *)
LEMMA WaitNamed == BudgetInv => WaitIsExact
<1> SUFFICES ASSUME BudgetInv, NEW count \in 1 .. PerMinute, NEW w, w = WaitFor(Prune(log), count)
             PROVE  FitsIn(count, w) /\ (w > 0 => ~FitsIn(count, w - 1))
    BY DEF WaitIsExact
<1>1. /\ now \in Nat /\ Chronological(log) /\ \A i \in 1 .. Len(log) : log[i] <= now
    BY DEF BudgetInv, BudgetTypes
<1>2. /\ Minute \in Nat /\ Hour \in Nat /\ Minute <= Hour /\ PerMinute \in Nat /\ PerHour \in Nat
      /\ count \in 1 .. PerHour
    BY BudgetNumbers
<1>3. PICK hour : hour = Recent(log, Hour)
    OBVIOUS
<1>4. /\ Chronological(hour) /\ TailOf(hour, log, Hour)
      /\ \A i \in 1 .. Len(hour) : hour[i] + Hour > now
    BY <1>1, <1>2, <1>3, RecentIsATail
<1>5. PICK minute : minute = Recent(hour, Minute)
    OBVIOUS
<1>6. /\ Chronological(minute) /\ TailOf(minute, hour, Minute)
      /\ \A i \in 1 .. Len(minute) : minute[i] + Minute > now
    BY <1>1, <1>2, <1>4, <1>5, RecentIsATail
<1>7. TailOf(minute, log, Minute)
    BY <1>1, <1>2, <1>4, <1>6, TailsOfTails
<1>8. PICK m : m = SlotWait(minute, PerMinute, count, Minute)
    OBVIOUS
<1>9. PICK h : h = SlotWait(hour, PerHour, count, Hour)
    OBVIOUS
<1>10. m \in Nat /\ \A t \in Nat : Cardinality(LiveAt(log, Minute, now + t)) + count <= PerMinute <=> t >= m
    BY <1>1, <1>2, <1>6, <1>7, <1>8, SlotWaitIsExact
<1>11. h \in Nat /\ \A t \in Nat : Cardinality(LiveAt(log, Hour, now + t)) + count <= PerHour <=> t >= h
    BY <1>1, <1>2, <1>4, <1>9, SlotWaitIsExact
<1>12. w \in {m, h} /\ w >= m /\ w >= h
  <2>1. w = WaitFor(hour, count)
      BY <1>3 DEF Prune
  <2>2. QED
      BY <1>5, <1>8, <1>9, <1>10, <1>11, <2>1, WaitIsTheLonger
<1>13. ASSUME NEW t \in Nat PROVE FitsIn(count, t) <=> t >= m /\ t >= h
  <2>1. FitsIn(count, t) <=> /\ Cardinality(LiveAt(log, Minute, now + t)) + count <= PerMinute
                             /\ Cardinality(LiveAt(log, Hour, now + t)) + count <= PerHour
      BY DEF FitsIn, LiveAt
  <2>2. QED
      BY <1>10, <1>11, <2>1
<1>14. w \in Nat /\ (w > 0 => w - 1 \in Nat)
    BY <1>10, <1>11, <1>12
<1>15. w > 0 => ~(w - 1 >= m /\ w - 1 >= h)
    BY <1>10, <1>11, <1>12
<1>16. QED
    BY <1>12, <1>13, <1>14, <1>15

(* The write budget, for any number of pushes, any windows and any limits:  *)
(* unless two reservations met, what one session was granted fits both      *)
(* windows whatever died on the way, and the wait a refusal names is the    *)
(* first moment at which the writes fit.                                   *)
THEOREM BudgetAlwaysHolds == BudgetSpec => []BudgetHolds
<1>1. BudgetInit => BudgetInv
    BY BudgetStart
<1>2. BudgetInv /\ [BudgetNext]_budget => BudgetInv'
    BY BudgetStep
<1>3. BudgetInv => GrantedFits
  <2> SUFFICES ASSUME BudgetInv, ~overlapped PROVE Since(Minute) <= PerMinute /\ Since(Hour) <= PerHour
      BY DEF GrantedFits
  <2>1. granted \in Seq(Nat) /\ LogIsComplete
      BY DEF BudgetInv, BudgetTypes, Chronological
  <2>2. DOMAIN granted = 1 .. Len(granted)
      BY <2>1
  <2>3. Since(Minute) = Cardinality(LiveAt(granted, Minute, now)) /\ Since(Hour) = Cardinality(LiveAt(granted, Hour, now))
      BY <2>2 DEF Since, LiveAt
  <2>4. QED
      BY <2>1, <2>3 DEF LogIsComplete
<1>4. BudgetInv => BudgetHolds
    BY <1>3, WaitNamed DEF BudgetHolds
<1>5. QED
    BY <1>1, <1>2, <1>4, PTL DEF BudgetSpec

-----------------------------------------------------------------------------
(* The index a search is answered from                                     *)

SearchFresh ==
    /\ committing \in BOOLEAN
    /\ IndexIsOfTheVault

LEMMA SearchBegins == SearchInit => SearchFresh
  BY DEF SearchInit, SearchFresh, IndexIsOfTheVault

LEMMA SearchKept == SearchFresh /\ [SearchNext]_searching => SearchFresh'
<1> SUFFICES ASSUME SearchFresh, [SearchNext]_searching PROVE SearchFresh'
    OBVIOUS
<1> USE DEF SearchFresh, IndexIsOfTheVault
<1>1. ASSUME NEW items, NEW awaits \in BOOLEAN, Commits(items, awaits)
      PROVE  SearchFresh'
    BY <1>1 DEF Commits
<1>2. ASSUME NEW i \in Marks, DeletesItem(i) \/ MergesReturn(i) \/ \E a \in DOMAIN UrlWords : EditsAddress(i, a)
      PROVE  SearchFresh'
    BY <1>2, <1>1 DEF DeletesItem, MergesReturn, EditsAddress
<1>3. ASSUME NEW i \in Items, NEW p \in Dirs \cup {RootFolder}, MergesMove(i, p)
      PROVE  SearchFresh'
    BY <1>3, <1>1 DEF MergesMove
<1>4. CASE CommitEnds \/ AsksIndex \/ LockDropsIndex \/ RowScrollsAway
    BY <1>4 DEF CommitEnds, AsksIndex, LockDropsIndex, RowScrollsAway
<1>5. ASSUME NEW line \in Lines, NEW terms \in SUBSET Terms, PaintsRow(line, terms)
      PROVE  SearchFresh'
    BY <1>5 DEF PaintsRow
<1>6. CASE UNCHANGED searching
    BY <1>6 DEF searching
<1>7. QED
    BY <1>2, <1>3, <1>4, <1>5, <1>6 DEF SearchNext

(* Whatever is edited, deleted, moved or merged, and whenever the session  *)
(* locks: outside a commit no search is answered from items that have      *)
(* changed since its index was built.                                      *)
THEOREM SearchReadsTheVaultAsItIs == SearchSpec => []IndexIsOfTheVault
<1>1. SearchFresh => IndexIsOfTheVault
    BY DEF SearchFresh
<1>2. QED
    BY <1>1, SearchBegins, SearchKept, PTL DEF SearchSpec

=============================================================================
