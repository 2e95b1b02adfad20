----------------------------- MODULE Arranging ------------------------------
(***************************************************************************)
(* One device arranges its bookmarks by hand: adds, drops between siblings *)
(* and folders dissolved into their parents (src/background/organize.ts    *)
(* over src/vault/model.ts and src/vault/order.ts).                        *)
(***************************************************************************)
EXTENDS VaultModel

CONSTANT MaxArranged    \* bound: operations

VARIABLES
    shelf,      \* the item map
    arranged    \* operations so far

arranging == <<shelf, arranged>>

ArrangingInit ==
    /\ shelf = [i \in Ids |-> Absent]
    /\ arranged = 0

Arrange(mutations) ==
    LET result == ApplyMutations(shelf, mutations, 1)
    IN  /\ arranged < MaxArranged
        /\ result \notin {Failed, shelf}
        /\ shelf' = result
        /\ arranged' = arranged + 1

(* addItems(): one after the other behind the last sibling.                *)
AddItems ==
    \E n \in 1 .. 3, p \in Parents :
        LET fresh == SetToSortSeq(Ids \ Present(shelf), LAMBDA i, j : i < j)
        IN  /\ n <= Len(fresh)
            /\ Arrange(OnEach(SubSeq(fresh, 1, n),
                   LAMBDA i : [kind |-> "add", id |-> i, parent |-> p,
                               text |-> CHOOSE t \in Texts : TRUE, tags |-> {}]))

MoveItems ==
    \E i, j \in Live(shelf), p \in Parents :
        \E after \in {RootId} \cup ToSet(ListChildren(shelf, p)) :
            Arrange(Moves(IF i = j THEN <<i>> ELSE <<i, j>>, p, after))

Dissolve ==
    \E f \in Folders \cap Live(shelf) : Arrange(DeleteFolder(shelf, f, "reparent"))

ArrangingNext == AddItems \/ MoveItems \/ Dissolve

-----------------------------------------------------------------------------
(* Properties *)

Key(i) == shelf[i].order

(* Siblings have keys of their own, and between any two neighbours, or     *)
(* beyond the ends, there is room for as many more in ascending order as   *)
(* are asked for (orderBetween, ordersBetween).                            *)
EveryGapTakesKeys ==
    \A p \in Parents :
        LET row == ListChildren(shelf, p)
            edge(k) == IF k \in DOMAIN row THEN <<Key(row[k])>> ELSE <<>>
            bound(k) == IF k \in DOMAIN row THEN Key(row[k]) ELSE Refused
        IN  \A k \in 0 .. Len(row), count \in {1, 3} :
                LET keys == edge(k) \o OrdersBetween(bound(k), bound(k + 1), count)
                            \o edge(k + 1)
                IN  /\ \A n \in DOMAIN keys : ValidKey(keys[n])
                    /\ \A n \in 1 .. Len(keys) - 1 : Below(keys[n], keys[n + 1])

(* A selection that is dropped behind a sibling is displayed behind it, in *)
(* the order it was picked up in, and the rest stays as it was (moveItems, *)
(* moveItem, listChildren).                                                *)
DropsLandWhereAimed ==
    \A p \in {q \in Parents : UsableParent(shelf, q)} :
        LET row == ListChildren(shelf, p)
        IN  \A i, j \in Live(shelf) \ ({p} \cup {f \in Ids : p \in DescendantsOf(shelf, f)}) :
                i # j =>
                \A k \in {n \in 0 .. Len(row) : n = 0 \/ row[n] \notin {i, j}} :
                    LET rest == SelectSeq(row, LAMBDA s : s \notin {i, j})
                        after == IF k = 0 THEN RootId ELSE row[k]
                        at == Cardinality({n \in 1 .. k : row[n] \notin {i, j}})
                        moved == ApplyMutations(shelf, Moves(<<i, j>>, p, after), 1)
                    IN  /\ moved # Failed
                        /\ ListChildren(moved, p) =
                             SubSeq(rest, 1, at) \o <<i, j>> \o SubSeq(rest, at + 1, Len(rest))

(* Arranging a folder: both of the above.                                  *)
ArrangementHolds == EveryGapTakesKeys /\ DropsLandWhereAimed
=============================================================================
