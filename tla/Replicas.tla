------------------------------ MODULE Replicas ------------------------------
(***************************************************************************)
(* Two devices that organise one vault apart from each other and merge it  *)
(* through a remote copy.  A sync is one step here, and so is an operation *)
(* with its write: SyncEngine and VaultRepository have what happens inside.*)
(***************************************************************************)
EXTENDS Merge

CONSTANTS
    Machines,       \* the devices
    Starts,         \* the vaults all devices may begin with
    Operations,     \* the kinds of operation the users perform
    Ttl,            \* TOMBSTONE_TTL_MS, in units of time
    MaxTime,        \* bound: time
    MaxEdits        \* bound: operations of the users

VARIABLES
    held,       \* by device: the vault
    common,     \* by device: what it last had in common with the remote
    shared,     \* the vault in the sync area
    pending,    \* by device and id: an unresolved conflict, or Absent
    now,        \* the clock
    edits,      \* operations so far
    knotted     \* history: ids restored while their tombstones formed a cycle

replicas == <<held, common, shared, pending, now, edits, knotted>>

ASSUME Starts \subseteq [Ids -> [parent : Parents, text : Texts, tags : SUBSET Tags, opens : Nat,
                          deletedAt : {0}, order : Seq(Int)] \cup {Absent}]

ReplicasInit ==
    /\ shared \in Starts
    /\ held = [d \in Machines |-> shared]
    /\ common = [d \in Machines |-> shared]
    /\ pending = [d \in Machines |-> Nothing]
    /\ now = 1
    /\ edits = 0
    /\ knotted = {}

-----------------------------------------------------------------------------
(* Operations of a user on one device *)

Permitted(d, operation) == operation \in Operations /\ edits < MaxEdits

(* apply(): the batch is committed, or rejected with nothing changed.      *)
Commit(d, mutations) ==
    LET result == ApplyMutations(held[d], mutations, now)
    IN  /\ result \notin {Failed, held[d]}
        /\ held' = [held EXCEPT ![d] = result]
        /\ edits' = edits + 1
        /\ UNCHANGED <<common, shared, pending, now>>

(* crypto.randomUUID(): an id nobody has.                                  *)
FreshId(id) ==
    \A m \in {shared} \cup Range(held) \cup {BaseOf(common[d]) : d \in Machines} : id \notin Present(m)

Add(d) ==
    /\ Permitted(d, "add")
    /\ \E id \in Ids, p \in Parents :
        /\ FreshId(id)
        /\ Commit(d, <<[kind |-> "add", id |-> id, parent |-> p,
                        text |-> CHOOSE t \in Texts : TRUE, tags |-> {}]>>)
    /\ UNCHANGED knotted

EditItem(d) ==
    /\ Permitted(d, "edit")
    /\ \E id \in Live(held[d]), text \in Texts :
        Commit(d, <<[kind |-> "update", id |-> id, patch |-> [text |-> text]]>>)
    /\ UNCHANGED knotted

OpenItem(d) ==
    /\ Permitted(d, "open")
    /\ \E id \in Live(held[d]) \ Folders :
        Commit(d, <<[kind |-> "update", id |-> id,
                     patch |-> [opens |-> held[d][id].opens + 1]]>>)
    /\ UNCHANGED knotted

Tag(d) ==
    /\ Permitted(d, "tag")
    /\ \E add, remove \in {{}} \cup {{tag} : tag \in Tags} :
        \E ids \in SUBSET Ids : Commit(d, TagItems(held[d], ids, add, remove))
    /\ UNCHANGED knotted

RetagAll(d) ==
    /\ Permitted(d, "tag")
    /\ \E from \in Tags :
        \/ \E to \in Tags \ {from} : Commit(d, RenameTag(held[d], from, to))
        \/ Commit(d, DeleteTag(held[d], from))
    /\ UNCHANGED knotted

Selections(d) == {<<i>> : i \in Present(held[d])}

Move(d) ==
    /\ Permitted(d, "move")
    /\ \E ids \in Selections(d), p \in Parents :
        \E after \in {Absent} \cup (IF "place" \in Operations
                                   THEN {RootId} \cup Range(ListChildren(held[d], p))
                                   ELSE {}) :
            Commit(d, Moves(ids, p, after))
    /\ UNCHANGED knotted

Delete(d) ==
    /\ Permitted(d, "delete")
    /\ \E ids \in Selections(d) : Commit(d, Deletes(ids))
    /\ UNCHANGED knotted

RemoveFolder(d) ==
    /\ Permitted(d, "delete")
    /\ \E id \in Folders \cap Present(held[d]), mode \in {"recursive", "reparent"} :
        Commit(d, DeleteFolder(held[d], id, mode))
    /\ UNCHANGED knotted

(* A cycle of tombstones is restored as one.                               *)
Knots(m, ids) == {i \in ids : i \in DescendantsOf(m, m[i].parent) /\ IsDeleted(m[i])
                              /\ m[i].parent \in DescendantsOf(m, i)}

Restore(d) ==
    /\ Permitted(d, "restore")
    /\ \E ids \in Selections(d) :
        /\ Commit(d, Restores(ids))
        /\ knotted' = knotted \cup Knots(held[d], RestoreBatch(held[d], ids[1]))

(* resolve() *)
Resolve(d) ==
    /\ Permitted(d, "resolve")
    /\ \E id \in Ids :
        /\ pending[d][id] # Absent
        /\ LET mine == pending[d][id].mine
               theirs == pending[d][id].theirs
           IN  \E mutations \in
                   {<<>>, KeepTheirs(id, mine, theirs)} \cup
                   (IF IsDeleted(mine) # IsDeleted(theirs) THEN {}
                    ELSE {<<CopyOf(copy, theirs)>> : copy \in {i \in Ids : FreshId(i)}}) :
                 LET result == ApplyMutations(held[d], mutations, now)
                 IN  /\ result # Failed
                     /\ held' = [held EXCEPT ![d] = result]
                     /\ knotted' = knotted \cup
                          IF mutations # <<>> /\ mutations[1].kind = "restore"
                            THEN Knots(held[d], RestoreBatch(held[d], id)) ELSE {}
        /\ pending' = [pending EXCEPT ![d][id] = Absent]
        /\ edits' = edits + 1
        /\ UNCHANGED <<common, shared, now>>

-----------------------------------------------------------------------------
(* The system *)

(* A sync: publish what changed here, or merge what changed there.         *)
Sync(d) ==
    LET moved == shared # common[d]
        merged == IF moved THEN Merged(common[d], held[d], shared) ELSE held[d]
        fresh == IF moved THEN Conflicts(common[d], held[d], shared) ELSE {}
        conflicts == [i \in Ids |->
            IF i \in fresh THEN [mine |-> held[d][i], theirs |-> shared[i]]
                           ELSE pending[d][i]]
        out == OutboundView(merged, conflicts)
    IN  /\ held' = [held EXCEPT ![d] = merged]
        /\ pending' = [pending EXCEPT ![d] = conflicts]
        /\ shared' = out
        /\ common' = [common EXCEPT ![d] = out]
        /\ UNCHANGED <<now, edits, knotted>>

(* A migration that stops after clearBase().                               *)
LoseBase(d) ==
    /\ Permitted(d, "rebase")
    /\ common' = [common EXCEPT ![d] = Absent]
    /\ edits' = edits + 1
    /\ UNCHANGED <<held, shared, pending, now, knotted>>

(* housekeep(): old tombstones are purged.                                 *)
Purge(d) ==
    /\ held' = [held EXCEPT ![d] = PurgeTombstones(@, now, Ttl)]
    /\ UNCHANGED <<common, shared, pending, now, edits, knotted>>

TimePasses ==
    /\ now < MaxTime
    /\ now' = now + 1
    /\ UNCHANGED <<held, common, shared, pending, edits, knotted>>

ReplicasNext ==
    \/ \E d \in Machines :
        \/ Add(d) \/ EditItem(d) \/ OpenItem(d) \/ Tag(d) \/ RetagAll(d)
        \/ Move(d) \/ Delete(d) \/ RemoveFolder(d) \/ Restore(d) \/ Resolve(d)
        \/ Sync(d) \/ LoseBase(d) \/ Purge(d)
    \/ TimePasses

-----------------------------------------------------------------------------
(* Properties *)

(* Where an item is filed, and where that is filed, itself included.       *)
Path(m, id) == {id} \cup {i \in Ids : id \in DescendantsOf(m, i)}

(* Nobody's live item becomes unreachable, whatever is moved and deleted   *)
(* apart and however it is merged (reattachOrphans, restoreItem), unless   *)
(* folders are restored whose tombstones a merge has filed in each other.  *)
LiveItemsReachable ==
    \A d \in Machines : \A i \in Live(held[d]) :
        ReachesRoot(held[d], i) \/ Path(held[d], i) \cap knotted # {}

(* For every merge that is due, merge(b, l, r) and merge(b, r, l) find the *)
(* same conflicts and agree on every other item; on where it is filed, as  *)
(* long as no folder above it is in conflict (merge.ts:27).                *)
MergeIsSymmetric ==
    \A d \in Machines :
        LET mine == Merged(common[d], held[d], shared)
            theirs == Merged(common[d], shared, held[d])
            clashes == Conflicts(common[d], held[d], shared)
        IN  shared # common[d] =>
            /\ clashes = Conflicts(common[d], shared, held[d])
            /\ Present(mine) = Present(theirs)
            /\ \A i \in Present(mine) \ clashes :
                \/ mine[i] = theirs[i]
                \/ /\ [mine[i] EXCEPT !.parent = RootId] = [theirs[i] EXCEPT !.parent = RootId]
                   /\ (Path(mine, i) \cup Path(theirs, i)) \cap clashes # {}

(* What every merge leaves on every machine.                               *)
ReplicasHold == LiveItemsReachable /\ MergeIsSymmetric

(* Undoing a delete brings back all it took and nothing else               *)
(* (restoreItem), unless something below was deleted at the same instant.  *)
UndoRestoresTheBatch ==
    \A d \in Machines : \A i \in Live(held[d]) :
        \/ ~ReachesRoot(held[d], i)
        \/ \E k \in DescendantsOf(held[d], i) : held[d][k].deletedAt = now
        \/ RestoreItem(DeleteItem(held[d], i, now), i) = held[d]
==============================================================================
