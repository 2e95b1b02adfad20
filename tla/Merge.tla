------------------------------- MODULE Merge --------------------------------
(***************************************************************************)
(* The three-way merge of two trees against their last common state        *)
(* (src/sync/merge.ts).                                                    *)
(***************************************************************************)
EXTENDS VaultModel

Scalars == {"text", "parent", "order"}

(* editKey(): what a person owns; opens are not edits.                     *)
EditKey(item) == [field \in Scalars \cup {"tags"} |-> item[field]] @@
                 [deleted |-> IsDeleted(item)]

Edited(base, side) == EditKey(base) # EditKey(side)

(* mergeFields(), scalar(): the side that changed it, this one if both did.*)
Clashes(base, mine, theirs) ==
    {f \in Scalars : /\ mine[f] # theirs[f]
                     /\ base # Absent => mine[f] # base[f] /\ theirs[f] # base[f]}

Scalar(f, base, mine, theirs) ==
    IF base # Absent /\ mine[f] = base[f] THEN theirs[f] ELSE mine[f]

(* mergedTags(): the union, less what either side removed.                 *)
MergedTags(base, mine, theirs) ==
    LET was == IF base = Absent THEN {} ELSE base.tags
    IN  (mine.tags \cup theirs.tags) \
        (was \ (mine.tags \cap theirs.tags))

(* tombstoned(): the earlier of the two deletions.                         *)
DeathOfMine(mine, theirs) ==                 (* Bug: whoever merges decides  *)
    IF IsDeleted(mine) THEN mine.deletedAt ELSE theirs.deletedAt

DeathOf(mine, theirs) ==
    IF IsDeleted(mine) /\ IsDeleted(theirs)
      THEN Min({mine.deletedAt, theirs.deletedAt})
      ELSE mine.deletedAt + theirs.deletedAt

MergeFields(base, mine, theirs) ==
    [parent |-> Scalar("parent", base, mine, theirs),
     text |-> Scalar("text", base, mine, theirs),
     order |-> Scalar("order", base, mine, theirs),
     tags |-> MergedTags(base, mine, theirs),
     opens |-> Max({mine.opens, theirs.opens}),
     deletedAt |-> DeathOf(mine, theirs)]

(* One side deleted what the other edited: only a person may choose.       *)
EditVsDelete(base, mine, theirs) ==
    /\ IsDeleted(mine) # IsDeleted(theirs)
    /\ base # Absent => Edited(base, IF IsDeleted(mine) THEN theirs ELSE mine)

(* mergeOne(), bothPresent(): a change outranks a purge.                   *)
MergeOne(base, mine, theirs) ==
    CASE mine = Absent /\ theirs = Absent -> Absent
      [] mine = Absent /\ theirs # Absent ->
            IF base = Absent \/ Edited(base, theirs) THEN theirs ELSE Absent
      [] mine # Absent /\ theirs = Absent ->
            IF base = Absent \/ Edited(base, mine) THEN mine ELSE Absent
      [] OTHER -> IF EditVsDelete(base, mine, theirs) THEN mine
                  ELSE MergeFields(base, mine, theirs)

InConflict(base, mine, theirs) ==
    /\ mine # Absent /\ theirs # Absent
    /\ \/ EditVsDelete(base, mine, theirs)
       \/ /\ IsDeleted(mine) = IsDeleted(theirs)
          /\ Clashes(base, mine, theirs) # {}

(* reattachOrphans(): in the order of the ids, each seeing the last.       *)
ReattachOrphans(m) ==
    FoldLeft(LAMBDA sofar, i :
                IF i \in Live(sofar) /\ ~ReachesRoot(sofar, i)
                  THEN [sofar EXCEPT ![i].parent = RootId] ELSE sofar,
             m, SetToSortSeq(Ids, LAMBDA i, j : i < j))

Nothing == [i \in Ids |-> Absent]

(* merge(): base is Absent when there is no common ancestor.               *)
BaseOf(base) == IF base = Absent THEN Nothing ELSE base

Merged(base, mine, theirs) ==
    ReattachOrphans([i \in Ids |-> MergeOne(BaseOf(base)[i], mine[i], theirs[i])])

Conflicts(base, mine, theirs) ==
    {i \in Ids : InConflict(BaseOf(base)[i], mine[i], theirs[i])}

(* outboundView(): the other side's version of what is unresolved.         *)
OutboundView(m, pending) ==
    [i \in Ids |-> IF pending[i] # Absent THEN pending[i].theirs ELSE m[i]]
==============================================================================
