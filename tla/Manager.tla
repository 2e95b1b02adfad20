------------------------------ MODULE Manager -------------------------------
(***************************************************************************)
(* The bookmark list of the manager page (src/manager/app.ts, state.ts,    *)
(* list.ts): a page that asks the service worker for what it shows, while  *)
(* the user goes on and the vault changes under it.                        *)
(*                                                                         *)
(* A chore is an asynchronous procedure of the page between two awaits;    *)
(* what runs between two awaits is one step.  The worker reads the vault   *)
(* in the turn in which it answers, and what it sends arrives in order.    *)
(*                                                                         *)
(* Abstraction.  The vault is two folders with rows in their manual order; *)
(* a search finds the bookmarks that have a text, in the order of ids.     *)
(***************************************************************************)
EXTENDS Integers, FiniteSets, SequencesExt

CONSTANTS
    Rows,           \* ids of bookmarks, numbers
    Places,         \* folders
    Words,          \* what a bookmark says and a search looks for
    Chores,         \* 1 .. n: procedures that may run at a time
    None,
    MaxEvents       \* bound: what the user and other devices do, answers lost

AtTheEnd == 0      \* no afterId: behind all others

(* What the page asks for, and a change of the vault that it asks for.     *)
Kinds == {"view", "tree", "item", "change"}

Changes ==
    [kind : {"move"}, ids : Seq(Rows), to : Places, after : Rows \cup {None, AtTheEnd}]
    \cup [kind : {"save"}, ids : Seq(Rows), text : Words]
    \cup [kind : {"delete", "restore"}, ids : Seq(Rows)]

ChoreRecords ==
    [at : {"loading", "item", "change"}, latest : BOOLEAN,
     place : Places \cup Rows \cup {None}, query : Words \cup {None},
     unserved : SUBSET Kinds, awaited : SUBSET Kinds,
     goal : {"show", "on success", "reselect", "toast", "detail"},
     ids : Seq(Rows), change : Changes \cup {None}]

Items == [id : Rows, text : Words]

(* None is no row, no text, no procedure and no answer.                    *)
ASSUME ManagerAssumption ==
    /\ Rows \subseteq Nat \ {AtTheEnd} /\ IsFiniteSet(Rows)
    /\ Places # {} /\ Words # {} /\ Chores # {}
    /\ None \notin Rows /\ None \notin Words /\ None \notin Chores
    /\ None \notin Seq(Rows) /\ None \notin Items /\ None \notin ChoreRecords

VARIABLES
    filed,      \* the rows of each folder in order, deleted ones included (worker)
    gone,       \* the deleted ones
    says,       \* the text of each bookmark (worker)
    mail,       \* messages from the worker to the page, in order
    page,       \* ManagerState, the DOM and the closures of mountManager()
    chores,     \* the procedures under way, or None
    events

manager == <<filed, gone, says, mail, page, chores, events>>

(* The numbers of a set in order; the rows of a list that are in a set.    *)
Increasing(S) ==
    [n \in 1 .. Cardinality(S) |-> CHOOSE r \in S : Cardinality({s \in S : s < r}) = n - 1]

Kept(rows, some) ==
    LET at == Increasing({k \in DOMAIN rows : rows[k] \in some})
    IN  [n \in DOMAIN at |-> rows[at[n]]]

AllRows == Rows \ gone
Alive(rows) == Kept(rows, AllRows)

(* listView(), tree() and getItem() of the worker.                         *)
ListView(place, query) ==
    IF query = None THEN Alive(filed[place])
    ELSE Increasing({r \in AllRows : says[r] = query})

Tree == [p \in Places |-> Len(Alive(filed[p]))]
GetItem(r) == IF r \in AllRows THEN [id |-> r, text |-> says[r]] ELSE None

(* reloadAll() as it starts; reloadView() asks for the view alone.  What   *)
(* it was called for is done when everything has been painted.             *)
Reload(place, query, what, goal, ids) ==
    [at |-> "loading", latest |-> TRUE, place |-> place, query |-> query,
     unserved |-> what, awaited |-> what, goal |-> goal, ids |-> ids, change |-> None]

AskItem(r) ==
    [at |-> "item", latest |-> FALSE, place |-> None, query |-> None,
     unserved |-> {"item"}, awaited |-> {"item"}, goal |-> "detail", ids |-> <<r>>,
     change |-> None]

Change(change, goal, ids) ==
    [at |-> "change", latest |-> FALSE, place |-> None, query |-> None,
     unserved |-> {"change"}, awaited |-> {"change"}, goal |-> goal, ids |-> ids,
     change |-> change]

Free == {c \in Chores : chores[c] = None}
OneOf(free) == CHOOSE c \in free : TRUE

(* ++latestView: only the last view that was asked for may be written.     *)
Latest(all, c, chore) ==
    [d \in Chores |->
        IF d = c THEN chore
        ELSE IF all[d] # None /\ chore.latest THEN [all[d] EXCEPT !.latest = FALSE]
        ELSE all[d]]

(* A reload of everything mends what a lost answer left behind.            *)
Mending(pg, chore) ==
    IF chore.unserved = {"tree", "view"} THEN [pg EXCEPT !.lost = FALSE] ELSE pg

Begin(pg, chore) ==
    /\ Free # {}
    /\ page' = Mending(pg, chore)
    /\ chores' = Latest(chores, OneOf(Free), chore)

ManagerInit ==
    /\ gone = {}
    /\ says = [r \in Rows |-> CHOOSE w \in Words : TRUE]
    /\ mail = <<>>
    /\ LET start == CHOOSE p \in Places : TRUE
       IN  /\ filed = [p \in Places |-> IF p = start THEN Increasing(Rows) ELSE <<>>]
           /\ page = [place |-> start, query |-> None, box |-> None, settling |-> FALSE,
                      selection |-> {}, rows |-> <<>>, shown |-> <<>>, tree |-> None,
                      detail |-> None, dragging |-> {}, dialog |-> None, undo |-> None,
                      lost |-> FALSE, locked |-> FALSE]
           /\ chores = [c \in Chores |->
                          IF c = OneOf(Chores) THEN Reload(start, None, {"tree", "view"}, "show", <<>>)
                          ELSE None]
    /\ events = 0

-----------------------------------------------------------------------------
(* Where a chore goes on *)

Sole(pg) ==
    IF Cardinality(pg.selection) = 1 /\ pg.selection \subseteq ToSet(pg.rows)
      THEN CHOOSE r \in pg.selection : TRUE ELSE None

(* afterSelectionChange(): the detail pane follows the selection.          *)
Selected(pg, all, c) ==
    IF Sole(pg) = None THEN [page |-> [pg EXCEPT !.detail = None],
                             chores |-> [all EXCEPT ![c] = None]]
    ELSE [page |-> pg, chores |-> [all EXCEPT ![c] = AskItem(Sole(pg))]]

(* paintSidebar(), paintList(), paintDetail(), and what comes after them.  *)
Painted(pg, all, c) ==
    LET shown == IF all[c].goal = "detail" THEN pg ELSE [pg EXCEPT !.shown = pg.rows]
    IN  IF all[c].goal = "reselect"
          THEN Selected([shown EXCEPT !.selection = ToSet(all[c].ids)], all, c)
          ELSE [page |-> IF all[c].goal = "toast" THEN [shown EXCEPT !.undo = all[c].ids]
                                                  ELSE shown,
                chores |-> [all EXCEPT ![c] = None]]

(* refreshDetail() at the end of a reload.                                 *)
Loaded(pg, all, c) ==
    IF Sole(pg) = None THEN Painted([pg EXCEPT !.detail = None], all, c)
    ELSE [page |-> pg,
          chores |-> [all EXCEPT ![c] = [@ EXCEPT !.at = "item", !.unserved = {"item"},
                                                  !.awaited = {"item"}, !.latest = FALSE,
                                                  !.place = Sole(pg)]]]

(* refreshView(): the answer, and the selection cut down to what it holds. *)
WithViewAnyOrder(pg, chore, rows) ==         (* Bug: an old answer is shown  *)
    IF rows = None THEN [pg EXCEPT !.rows = <<>>]
    ELSE [pg EXCEPT !.rows = rows, !.selection = @ \cap ToSet(rows)]

WithView(pg, chore, rows) ==
    IF ~chore.latest THEN pg
    ELSE IF rows = None THEN [pg EXCEPT !.rows = <<>>]
    ELSE [pg EXCEPT !.rows = rows, !.selection = @ \cap ToSet(rows)]

WithTree(pg, tree) == [pg EXCEPT !.tree = tree]

(* refreshDetail(): written only if the selection has not moved on.        *)
WithItem(pg, asked, answer) ==
    IF answer = None \/ Sole(pg) # asked THEN pg ELSE [pg EXCEPT !.detail = answer]

Asked(chore) == IF chore.goal = "detail" THEN chore.ids[1] ELSE chore.place

(* An answer, or None for an ERROR, reaches the procedure that awaits it.  *)
Arrived(c, what, answer) ==
    LET left == [chores[c] EXCEPT !.awaited = @ \ {what}]
        all == [chores EXCEPT ![c] = left]
        done(pg) == IF left.awaited = {} THEN Loaded(pg, all, c)
                                         ELSE [page |-> pg, chores |-> all]
    IN  CASE what = "view" -> done(WithView(page, left, answer))
          [] what = "tree" -> done(WithTree(page, answer))
          [] what = "item" -> Painted(WithItem(page, Asked(left), answer), all, c)
          [] what = "change" ->
                LET pg == IF answer # None /\ left.goal = "toast" THEN [page EXCEPT !.selection = {}]
                          ELSE page
                IN  IF answer = None /\ left.goal # "show"
                      THEN [page |-> pg, chores |-> [chores EXCEPT ![c] = None]]
                      ELSE LET again == Reload(pg.place, pg.query, {"tree", "view"},
                                               left.goal, left.ids)
                           IN  [page |-> Mending(pg, again),
                                chores |-> Latest(chores, c, again)]

-----------------------------------------------------------------------------
(* The page *)

Gesture ==
    /\ ~page.locked
    /\ events < MaxEvents
    /\ events' = events + 1
    /\ UNCHANGED <<filed, gone, says, mail>>

(* goTo(): a navigation ends the search.                                   *)
GoTo ==
    /\ Gesture
    /\ page.dialog = None
    /\ \E p \in Places :
        Begin([page EXCEPT !.place = p, !.query = None, !.box = None, !.settling = FALSE,
                           !.selection = {}],
              Reload(p, None, {"tree", "view"}, "show", <<>>))

Types ==
    /\ Gesture
    /\ page.dialog = None
    /\ \E w \in Words \cup {None} :
        /\ w # page.box
        /\ page' = [page EXCEPT !.box = w, !.settling = TRUE]
    /\ UNCHANGED chores

(* Escape in the search box leaves the selection alone.                    *)
EscapesSearch ==
    /\ Gesture
    /\ page.box # None
    /\ page.dialog = None
    /\ Begin([page EXCEPT !.box = None, !.settling = FALSE, !.query = None],
             Reload(page.place, None, {"view"}, "show", <<>>))

(* The debounced handler of the search box.                                *)
Settles ==
    /\ page.settling
    /\ ~page.locked
    /\ IF page.box = page.query
         THEN page' = [page EXCEPT !.settling = FALSE] /\ UNCHANGED chores
         ELSE Begin([page EXCEPT !.settling = FALSE, !.query = page.box, !.selection = {}],
                    Reload(page.place, page.box, {"view"}, "show", <<>>))
    /\ UNCHANGED <<filed, gone, says, mail, events>>

(* selectAt(): an index of what is painted, looked up in what is loaded.   *)
Click ==
    /\ Gesture
    /\ page.dialog = None
    /\ Free # {}
    /\ \E k \in DOMAIN page.shown, toggle \in BOOLEAN :
        LET row == page.rows[k]
            next == Selected([page EXCEPT !.selection =
                                IF ~toggle THEN {row}
                                ELSE IF row \in @ THEN @ \ {row} ELSE @ \cup {row}],
                             chores, OneOf(Free))
        IN  /\ k \in DOMAIN page.rows
            /\ page' = next.page
            /\ chores' = next.chores

(* beginDrag() of a selection; dragend.                                    *)
Drag ==
    /\ ~page.locked
    /\ events < MaxEvents      \* what follows is counted
    /\ page.dialog = None
    /\ page' = [page EXCEPT !.dragging = IF @ = {} THEN page.selection ELSE {}]
    /\ page' # page
    /\ UNCHANGED <<filed, gone, says, mail, chores, events>>

InOrder(ids) == Kept(page.rows, ids) \o Increasing(ids \ ToSet(page.rows))

DropInFolder ==
    /\ Gesture
    /\ page.dragging # {}
    /\ \E p \in Places :
        Begin([page EXCEPT !.dragging = {}],
              Change([kind |-> "move", ids |-> InOrder(page.dragging), to |-> p,
                      after |-> AtTheEnd], "on success", <<>>))

(* dropAt(): behind the nearest row above that is not being dragged.       *)
DropAt ==
    /\ Gesture
    /\ page.dragging # {}
    /\ page.query = None
    /\ \E k \in 0 .. Len(page.shown) :
        LET above == {n \in DOMAIN page.rows : n <= k /\ page.rows[n] \notin page.dragging}
        IN  \E at \in above \cup {0} :
              /\ \A n \in above : n <= at
              /\ Begin([page EXCEPT !.dragging = {}],
                       Change([kind |-> "move", ids |-> InOrder(page.dragging), to |-> page.place,
                               after |-> IF at = 0 THEN None ELSE page.rows[at]],
                              "reselect", InOrder(page.dragging)))

(* nudgeSelection(): the selected rows step over the row next to them.     *)
Nudge ==
    /\ Gesture
    /\ page.dialog = None
    /\ page.query = None
    /\ LET chosen == {k \in DOMAIN page.rows : page.rows[k] \in page.selection}
           ids == Kept(page.rows, page.selection)
           land(after) == Begin(page, Change([kind |-> "move", ids |-> ids, to |-> page.place,
                                              after |-> after], "reselect", ids))
       IN  \E k \in chosen :
            \/ /\ \A n \in chosen : k <= n
               /\ k > 1
               /\ land(IF k = 2 THEN None ELSE page.rows[k - 2])
            \/ /\ \A n \in chosen : n <= k
               /\ k < Len(page.rows)
               /\ land(page.rows[k + 1])

(* saveDetail(): what the pane shows is what is saved.                     *)
SaveDetail ==
    /\ Gesture
    /\ page.dialog = None
    /\ page.detail # None
    /\ \E w \in Words :
        Begin(page, Change([kind |-> "save", ids |-> <<page.detail.id>>, text |-> w],
                           "on success", <<>>))

(* deleteSelection() and moveSelection() ask first.                        *)
Asks ==
    /\ ~page.locked
    /\ events < MaxEvents
    /\ page.dialog = None
    /\ page.selection # {}
    /\ \/ page' = [page EXCEPT !.dialog = [for |-> "delete", ids |-> InOrder(page.selection)]]
       \/ page' = [page EXCEPT !.dialog = [for |-> "move", ids |-> <<>>]]
    /\ UNCHANGED <<filed, gone, says, mail, chores, events>>

Cancels ==
    /\ page.dialog # None
    /\ ~page.locked
    /\ page' = [page EXCEPT !.dialog = None]
    /\ UNCHANGED <<filed, gone, says, mail, chores, events>>

(* removeWithUndo(): the ids are those it asked about.                     *)
ConfirmsDelete ==
    /\ ~page.locked
    /\ page.dialog # None /\ page.dialog.for = "delete"
    /\ Begin([page EXCEPT !.dialog = None],
             Change([kind |-> "delete", ids |-> page.dialog.ids], "toast", page.dialog.ids))
    /\ UNCHANGED <<filed, gone, says, mail, events>>

(* moveSelection() reads the selection when the dialog has been answered.  *)
ConfirmsMove ==
    /\ Gesture
    /\ page.dialog # None /\ page.dialog.for = "move"
    /\ \E p \in Places :
        Begin([page EXCEPT !.dialog = None],
              Change([kind |-> "move", ids |-> InOrder(page.selection), to |-> p,
                      after |-> AtTheEnd], "show", <<>>))

(* The button of the toast.                                                *)
Undo ==
    /\ Gesture
    /\ page.undo # None
    /\ Begin([page EXCEPT !.undo = None],
             Change([kind |-> "restore", ids |-> page.undo], "show", <<>>))

(* onBroadcast() *)
Hears(message) ==
    IF message = "VAULT_CHANGED"
      THEN Begin(page, Reload(page.place, page.query, {"tree", "view"}, "show", <<>>))
      ELSE /\ page' = [page EXCEPT !.locked = TRUE]
           /\ chores' = [c \in Chores |-> None]

Receives ==
    /\ mail # <<>>
    /\ ~page.locked
    /\ mail' = Tail(mail)
    /\ LET m == Head(mail)
       IN  IF m.to = None THEN Hears(m.body)
           ELSE /\ page' = Arrived(m.to, m.what, m.body).page
                /\ chores' = Arrived(m.to, m.what, m.body).chores
    /\ UNCHANGED <<filed, gone, says, events>>

-----------------------------------------------------------------------------
(* The worker *)

Without(ids) == [p \in Places |-> Kept(filed[p], Rows \ ToSet(ids))]

(* mutate() refuses what names a row that is not there; moveItems() also   *)
(* a sibling that is not.                                                  *)
Refuses(change) ==
    \/ change.kind \in {"move", "save"} /\ ~(ToSet(change.ids) \subseteq AllRows)
    \/ /\ change.kind = "move"
       /\ change.after \notin ToSet(Alive(Without(change.ids)[change.to])) \cup {AtTheEnd, None}

Moved(ids, to, after) ==
    LET rest == Without(ids)
        row == rest[to]
        at == CASE after = AtTheEnd -> Len(row)
                [] after = None -> 0
                [] OTHER -> CHOOSE k \in DOMAIN row : row[k] = after
    IN  [rest EXCEPT ![to] = SubSeq(row, 1, at) \o ids \o SubSeq(row, at + 1, Len(row))]

Applied(change) ==
    /\ filed' = IF change.kind = "move" THEN Moved(change.ids, change.to, change.after) ELSE filed
    /\ gone' = CASE change.kind = "delete" -> gone \cup ToSet(change.ids)
                 [] change.kind = "restore" -> gone \ ToSet(change.ids)
                 [] OTHER -> gone
    /\ says' = IF change.kind = "save" THEN [says EXCEPT ![change.ids[1]] = change.text] ELSE says

Letter(c, what, body) == [to |-> c, what |-> what, body |-> body]

(* mutate(), commit(): commits, tells every page, answers.                 *)
Commits(c) ==
    /\ chores[c] # None
    /\ "change" \in chores[c].unserved
    /\ chores' = [chores EXCEPT ![c].unserved = {}]
    /\ IF Refuses(chores[c].change)
         THEN /\ mail' = Append(mail, Letter(c, "change", None))
              /\ UNCHANGED <<filed, gone, says>>
         ELSE /\ Applied(chores[c].change)
              /\ mail' = mail \o <<Letter(None, "news", "VAULT_CHANGED"),
                                   Letter(c, "change", "OK")>>
    /\ UNCHANGED <<page, events>>

Serves(c, what) ==
    /\ chores[c] # None
    /\ what \in chores[c].unserved \ {"change"}
    /\ chores' = [chores EXCEPT ![c].unserved = @ \ {what}]
    /\ mail' = Append(mail, Letter(c, what,
                  CASE what = "view" -> ListView(chores[c].place, chores[c].query)
                    [] what = "tree" -> Tree
                    [] what = "item" -> GetItem(Asked(chores[c]))))
    /\ UNCHANGED <<filed, gone, says, page, events>>

(* send(): the worker stopped; the request may have been carried out.      *)
Unreachable(c, what) ==
    /\ chores[c] # None
    /\ what \in chores[c].unserved
    /\ events < MaxEvents
    /\ events' = events + 1
    /\ chores' = [chores EXCEPT ![c].unserved = @ \ {what}]
    /\ mail' = Append(mail, Letter(c, what, None))
    /\ page' = [page EXCEPT !.lost = TRUE]
    /\ \/ UNCHANGED <<filed, gone, says>>
       \/ what = "change" /\ ~Refuses(chores[c].change) /\ Applied(chores[c].change)

(* Another window or another device; a lock.                               *)
ChangesElsewhere ==
    /\ events < MaxEvents
    /\ events' = events + 1
    /\ \E r \in AllRows :
        \/ gone' = gone \cup {r} /\ UNCHANGED says
        \/ UNCHANGED gone /\ \E w \in Words : says' = [says EXCEPT ![r] = w]
    /\ mail' = Append(mail, Letter(None, "news", "VAULT_CHANGED"))
    /\ UNCHANGED <<filed, page, chores>>

LocksElsewhere ==
    /\ events < MaxEvents
    /\ events' = events + 1
    /\ mail' = Append(mail, Letter(None, "news", "SESSION_LOCKED"))
    /\ UNCHANGED <<filed, gone, says, page, chores>>

ManagerNext ==
    \/ GoTo \/ Types \/ EscapesSearch \/ Settles \/ Click
    \/ Drag \/ DropInFolder \/ DropAt \/ Nudge
    \/ SaveDetail \/ Asks \/ Cancels \/ ConfirmsDelete \/ ConfirmsMove \/ Undo
    \/ Receives
    \/ \E c \in Chores :
        \/ Commits(c)
        \/ \E what \in {"view", "tree", "item"} : Serves(c, what)
        \/ \E what \in {"view", "tree", "item", "change"} : Unreachable(c, what)
    \/ ChangesElsewhere \/ LocksElsewhere

ManagerSpec == ManagerInit /\ [][ManagerNext]_manager

-----------------------------------------------------------------------------
(* When nothing is under way the page shows the vault as it is: the rows   *)
(* of the place or the search, the counts of the tree and the one selected *)
(* bookmark, whatever was asked for in between (refreshView's token,       *)
(* refreshDetail's comparison, reloadAll), unless it says that something   *)
(* failed.                                                                 *)
QuietPageShowsTheVault ==
    \/ page.locked \/ page.lost
    \/ mail # <<>> \/ page.settling \/ \E c \in Chores : chores[c] # None
    \/ /\ page.rows = ListView(page.place, page.query)
       /\ page.shown = page.rows
       /\ page.tree = Tree
       /\ page.detail = IF Sole(page) = None THEN None ELSE GetItem(Sole(page))
=============================================================================
