----------------------------- MODULE VaultModel -----------------------------
(***************************************************************************)
(* The tree of bookmarks: mutations (src/vault/model.ts), the batches that *)
(* the manager's operations become (src/background/organize.ts), and the   *)
(* three-way merge of two trees (src/sync/merge.ts), as operators on item  *)
(* maps.                                                                   *)
(*                                                                         *)
(* Abstraction.  Title, address, note, page words and picture are one      *)
(* text, merged like the scalar fields.  An id has one type for good.      *)
(* Stamps that decide nothing (createdAt, updatedAt, rev) are left out.    *)
(***************************************************************************)
EXTENDS Order, FiniteSetsExt, Functions

CONSTANTS
    Ids,            \* positive numbers, compared as the ids are
    Folders,        \* the ids of folders
    Texts,          \* what can be typed
    Tags,           \* names of tags
    Absent,         \* an id the map does not hold
    Failed          \* the batch was rejected: nothing of it is applied

RootId == 0

ASSUME ModelConstants ==
    /\ Ids \subseteq Nat \ {RootId}
    /\ Folders \subseteq Ids

Depth == Cardinality(Ids)
Parents == Folders \cup {RootId}

Present(m) == {i \in Ids : m[i] # Absent}
IsDeleted(item) == item.deletedAt # 0
Live(m) == {i \in Present(m) : ~IsDeleted(m[i])}

-----------------------------------------------------------------------------
(* Queries *)

(* listChildren(): by order key, ties by id.                               *)
ListChildren(m, p) ==
    SetToSortSeq({i \in Live(m) : m[i].parent = p},
        LAMBDA i, j : \/ Below(m[i].order, m[j].order)
                      \/ m[i].order = m[j].order /\ i < j)

(* descendantsOf(): tombstones included; cycles are walked once.           *)
DescendantsOf(m, id) ==
    LET Down[n \in 0 .. Depth] ==
            IF n = 0 THEN {id}
            ELSE LET known == Down[n - 1]
                 IN  known \cup {i \in Present(m) : m[i].parent \in known}
    IN  Down[Depth] \ {id}

(* reachesRoot(): through live folders only.                               *)
ReachesRoot(m, id) ==
    LET Up[n \in 0 .. Depth] ==
            IF n = 0 THEN m[id].parent
            ELSE LET p == Up[n - 1]
                 IN  IF p \in Folders \cap Live(m) THEN m[p].parent ELSE p
    IN  Up[Depth] = RootId

UsableParent(m, p) == p = RootId \/ p \in Folders \cap Live(m)

-----------------------------------------------------------------------------
(* Mutations: an item map, or Failed *)

LastOrder(siblings, m) == IF siblings = <<>> THEN Refused ELSE m[Last(siblings)].order

AddItem(m, id, p, text, tags) ==
    IF ~UsableParent(m, p) \/ id \in Present(m) THEN Failed
    ELSE [m EXCEPT ![id] =
            [parent |-> p, text |-> text, tags |-> tags, opens |-> 0, deletedAt |-> 0,
             order |-> OrderBetween(LastOrder(ListChildren(m, p), m), Refused)]]

UpdateItem(m, id, patch) ==
    IF id \notin Live(m) THEN Failed ELSE [m EXCEPT ![id] = patch @@ @]

DeleteItem(m, id, now) ==
    IF id \notin Present(m) THEN Failed
    ELSE IF IsDeleted(m[id]) THEN m
    ELSE LET doomed == ({id} \cup DescendantsOf(m, id)) \cap Live(m)
         IN  [i \in Ids |-> IF i \in doomed THEN [m[i] EXCEPT !.deletedAt = now]
                                            ELSE m[i]]

(* What restoreItem() brings back: the descendants that died with it.      *)
BatchAnyDeletion(m, id) ==                   (* Bug: whenever they died      *)
    {id} \cup {i \in DescendantsOf(m, id) : IsDeleted(m[i])}

RestoreBatch(m, id) ==
    {id} \cup {i \in DescendantsOf(m, id) :
                 IsDeleted(m[i]) /\ m[i].deletedAt = m[id].deletedAt}

RestoreItem(m, id) ==
    IF id \notin Present(m) THEN Failed
    ELSE IF ~IsDeleted(m[id]) THEN m
    ELSE LET batch == RestoreBatch(m, id)
             home(i) == IF m[i].parent \in batch \/ UsableParent(m, m[i].parent)
                          THEN m[i].parent ELSE RootId
         IN  [i \in Ids |-> IF i \in batch
                              THEN [m[i] EXCEPT !.deletedAt = 0, !.parent = home(i)]
                              ELSE m[i]]

(* moveItem(): after a sibling, first (RootId for null) or last (Absent    *)
(* for a missing afterId).                                                 *)
NewOrder(m, id, p, after) ==
    LET siblings == SelectSeq(ListChildren(m, p), LAMBDA i : i # id)
        at == IF after \in ToSet(siblings) THEN CHOOSE k \in DOMAIN siblings : siblings[k] = after
                                           ELSE 0
        order(k) == IF k \in DOMAIN siblings THEN m[siblings[k]].order ELSE Refused
    IN  IF after = Absent THEN OrderBetween(LastOrder(siblings, m), Refused)
        ELSE IF after # RootId /\ at = 0 THEN Refused
        ELSE OrderBetween(order(at), order(at + 1))

MoveItem(m, id, p, after) ==
    IF \/ id \notin Live(m) \/ ~UsableParent(m, p)
       \/ p \in {id} \cup DescendantsOf(m, id)
       \/ NewOrder(m, id, p, after) = Refused
      THEN Failed
      ELSE [m EXCEPT ![id].parent = p, ![id].order = NewOrder(m, id, p, after)]

ApplyMutation(m, mutation, now) ==
    CASE mutation.kind = "add" ->
            AddItem(m, mutation.id, mutation.parent, mutation.text, mutation.tags)
      [] mutation.kind = "update" -> UpdateItem(m, mutation.id, mutation.patch)
      [] mutation.kind = "delete" -> DeleteItem(m, mutation.id, now)
      [] mutation.kind = "restore" -> RestoreItem(m, mutation.id)
      [] mutation.kind = "move" ->
            MoveItem(m, mutation.id, mutation.parent, mutation.after)

(* applyMutations(): all of the batch, or nothing.                         *)
ApplyMutations(m, mutations, now) ==
    FoldLeft(LAMBDA sofar, mutation :
                IF sofar = Failed THEN Failed ELSE ApplyMutation(sofar, mutation, now),
             m, mutations)

(* purgeTombstones() *)
PurgeTombstones(m, now, ttl) ==
    [i \in Ids |-> IF i \in Present(m) /\ IsDeleted(m[i]) /\ now - m[i].deletedAt > ttl
                     THEN Absent ELSE m[i]]

-----------------------------------------------------------------------------
(* Batches *)

OnEach(ids, mutation(_)) == [k \in DOMAIN ids |-> mutation(ids[k])]

Deletes(ids) == OnEach(ids, LAMBDA i : [kind |-> "delete", id |-> i])
Restores(ids) == OnEach(ids, LAMBDA i : [kind |-> "restore", id |-> i])

(* moveItems(): each lands after the one before it.                        *)
MovesToAnchor(ids, p, after) ==              (* Bug: all after the anchor    *)
    [k \in DOMAIN ids |-> [kind |-> "move", id |-> ids[k], parent |-> p, after |-> after]]

Moves(ids, p, after) ==
    [k \in DOMAIN ids |-> [kind |-> "move", id |-> ids[k], parent |-> p,
                           after |-> IF k = 1 THEN after ELSE ids[k - 1]]]

(* deleteFolderMutations() *)
DeleteFolder(m, id, mode) ==
    (IF mode = "reparent"
       THEN OnEach(ListChildren(m, id),
                   LAMBDA i : [kind |-> "move", id |-> i, parent |-> m[id].parent,
                               after |-> Absent])
       ELSE <<>>) \o Deletes(<<id>>)

(* tagMutations(), renameTagMutations(), deleteTagMutations(): those whose *)
(* tags change; removals come after additions.                             *)
Retag(m, ids, NewTags(_)) ==
    LET changing == {i \in (ids \cap Live(m)) \ Folders : NewTags(m[i].tags) # m[i].tags}
    IN  OnEach(SetToSeq(changing),
               LAMBDA i : [kind |-> "update", id |-> i,
                           patch |-> [tags |-> NewTags(m[i].tags)]])

TagItems(m, ids, add, remove) == Retag(m, ids, LAMBDA tags : (tags \cup add) \ remove)

RenameTag(m, from, to) ==
    Retag(m, Ids, LAMBDA tags : IF from \in tags THEN (tags \ {from}) \cup {to} ELSE tags)

DeleteTag(m, tag) == Retag(m, Ids, LAMBDA tags : tags \ {tag})

(* resolutionMutations(): mine needs none.                                 *)
CopyOf(id, item) ==
    [kind |-> "add", id |-> id, parent |-> RootId, text |-> item.text, tags |-> item.tags]

KeepTheirs(id, mine, theirs) ==
    IF IsDeleted(theirs) THEN Deletes(<<id>>)
    ELSE (IF IsDeleted(mine) THEN Restores(<<id>>) ELSE <<>>)
         \o <<[kind |-> "update", id |-> id,
               patch |-> [text |-> theirs.text, tags |-> theirs.tags]]>>
         \o (IF mine.parent # theirs.parent
               THEN <<[kind |-> "move", id |-> id, parent |-> theirs.parent,
                       after |-> Absent]>>
               ELSE <<>>)
==============================================================================
