----------------------------- MODULE Duplicates ------------------------------
(***************************************************************************)
(* Addresses saved more than once: how they are found                      *)
(* (src/vault/duplicates.ts), the screen that proposes them                *)
(* (src/manager/duplicates.ts) and the manager's one way to delete, with   *)
(* its question and its undo (removeWithUndo() of manager/app.ts).         *)
(*                                                                         *)
(* A bookmark's number is its id and its age.  Removal is here only of     *)
(* bookmarks; folders, tags and notes of the rows are left out.  Other     *)
(* pages and computers change the vault meanwhile.                         *)
(***************************************************************************)
EXTENDS Naturals, Sequences, SequencesExt, FiniteSets

CONSTANTS Copies,         \* bookmarks, older first
          SavedAs,        \* [Copies -> addresses]: as they were saved
          Stripped,       \* an address without its tracking parameters
          NormalForm,     \* of an address: scheme, host, path, sorted query
          NotShown,       \* no such screen
          NoQuestion,     \* no dialog
          NoOffer,        \* no toast
          MaxPresses,     \* bound: what the user does
          MaxMeanwhile,   \* bound: what others do
          MaxUnderWay     \* bound: requests under way when the user goes on

Addresses == {NormalForm[Stripped[SavedAs[copy]]] : copy \in Copies}

ASSUME DuplicatesAssumption ==
    /\ Copies \subseteq Nat /\ IsFiniteSet(Copies)
    /\ NotShown \notin [groups : Seq(Seq(Copies)), ticked : SUBSET Copies, state : {"loading", "shown", "refused"}]
    /\ NoQuestion \notin [ids : SUBSET Copies, warned : SUBSET Addresses, mine : BOOLEAN, fresh : BOOLEAN]
    /\ \A ids \in SUBSET Copies : ids # NoOffer

VARIABLES shelf,          \* the bookmarks that are not deleted
          proposal,       \* the screen: what it proposes and what is ticked
          question,       \* the dialog over it
          offer,          \* the toast: what an undo restores
          requests, presses, meanwhile,
          story           \* what happened, for the properties

duplicates == <<shelf, proposal, question, offer, requests, presses, meanwhile, story>>

-----------------------------------------------------------------------------
(* vault/duplicates.ts *)

DuplicateKey(copy) == NormalForm[Stripped[SavedAs[copy]]]

SameAddress(live, copy) == {other \in live : DuplicateKey(other) = DuplicateKey(copy)}

(* byAge(): the n-th has n - 1 before it.                                  *)
OldestFirst(copies) ==
    [n \in 1 .. Cardinality(copies) |-> CHOOSE copy \in copies : Cardinality({c \in copies : c < copy}) = n - 1]

(* duplicateGroups(): largest first, then oldest first.                    *)
Groups(live) ==
    {OldestFirst(SameAddress(live, copy)) : copy \in {c \in live : Cardinality(SameAddress(live, c)) > 1}}

Ahead(groups, group) ==
    {g \in groups : Len(g) > Len(group) \/ (Len(g) = Len(group) /\ Head(g) < Head(group))}

DuplicateGroups(live) ==
    [n \in 1 .. Cardinality(Groups(live)) |->
        CHOOSE group \in Groups(live) : Cardinality(Ahead(Groups(live), group)) = n - 1]

(* duplicateCount(): without the groups, for the sidebar: the addresses     *)
(* that were seen before on a walk over the bookmarks.                      *)
DuplicateCount(live) ==
    {DuplicateKey(copy) : copy \in {c \in live : \E seen \in SameAddress(live, c) : seen < c}}

-----------------------------------------------------------------------------
(* The screen *)

AskFor(type, ids, warned) ==
    [type |-> type, ids |-> ids, warned |-> warned, at |-> "sent", ok |-> FALSE, groups |-> <<>>, mine |-> TRUE]

(* openDuplicates(): a screen of its own, which asks for its contents; what *)
(* the one before it waits for is painted where nobody looks.               *)
Loading == [groups |-> <<>>, ticked |-> {}, state |-> "loading"]
Opened(waiting) ==
    Append([k \in DOMAIN waiting |-> [waiting[k] EXCEPT !.mine = FALSE]], AskFor("list", {}, {}))

DuplicatesInit ==
    /\ shelf = Copies
    /\ proposal = NotShown
    /\ question = NoQuestion
    /\ offer = NoOffer
    /\ requests = <<>>
    /\ presses = 0 /\ meanwhile = 0
    /\ story = [elsewhere |-> FALSE, refused |-> FALSE, overlapped |-> FALSE, crossed |-> FALSE,
                gone |-> {}, unasked |-> {}, raised |-> {}]

Press == presses < MaxPresses /\ presses' = presses + 1 /\ question = NoQuestion

(* A removal or an undo waits for the worker: a list made now is old soon.  *)
Moving(waiting) == \E k \in DOMAIN waiting : waiting[k].type # "list" /\ waiting[k].at = "sent"

OpensDuplicates ==
    /\ Press
    /\ Len(requests) < MaxUnderWay
    /\ proposal' = Loading
    /\ requests' = Opened(requests)
    /\ UNCHANGED <<shelf, question, offer, meanwhile, story>>

LeavesDuplicates ==
    /\ Press
    /\ proposal # NotShown
    /\ proposal' = NotShown
    /\ UNCHANGED <<shelf, question, offer, requests, meanwhile, story>>

Proposed == IF proposal = NotShown THEN {} ELSE UNION {ToSet(proposal.groups[n]) : n \in DOMAIN proposal.groups}

(* A tick taken back from a copy that is on its way out comes too late.    *)
Ticks(copy) ==
    /\ Press
    /\ copy \in Proposed
    /\ proposal' = [proposal EXCEPT !.ticked = IF copy \in @ THEN @ \ {copy} ELSE @ \cup {copy}]
    /\ story' = [story EXCEPT !.overlapped =
                    @ \/ (copy \in proposal.ticked /\ \E k \in DOMAIN requests : copy \in requests[k].ids)]
    /\ UNCHANGED <<shelf, question, offer, requests, meanwhile>>

(* "Tick all but the oldest" *)
TicksExtras(n) ==
    /\ Press
    /\ proposal' = [proposal EXCEPT !.ticked = @ \cup ToSet(Tail(proposal.groups[n]))]
    /\ UNCHANGED <<shelf, question, offer, requests, meanwhile, story>>

(* confirmRemoval(): the addresses of which every copy is ticked.          *)
Emptied(screen) ==
    {DuplicateKey(Head(screen.groups[n])) : n \in {g \in DOMAIN screen.groups : ToSet(screen.groups[g]) \subseteq screen.ticked}}

PressesRemove ==
    /\ Press
    /\ proposal # NotShown /\ proposal.ticked # {}
    /\ Len(requests) < MaxUnderWay
    /\ question' = [ids |-> proposal.ticked, warned |-> Emptied(proposal), mine |-> TRUE, fresh |-> TRUE]
    /\ UNCHANGED <<shelf, proposal, offer, requests, meanwhile, story>>

(* The screen under the dialog was painted anew, or is about to be.        *)
AskedOfOld ==
    \/ \E k \in DOMAIN requests : requests[k].type = "list"
    \/ ~question.mine \/ ~question.fresh

(* Bug: the ticks are taken away as soon as the removal is on its way.     *)
AnswersQuestionAndForgets(yes) ==
    /\ question # NoQuestion
    /\ question' = NoQuestion
    /\ proposal' = IF proposal = NotShown THEN proposal ELSE [proposal EXCEPT !.ticked = {}]
    /\ requests' = IF yes THEN Append(requests, [AskFor("delete", question.ids, question.warned) EXCEPT !.mine = question.mine])
                   ELSE requests
    /\ story' = [story EXCEPT !.overlapped = @ \/ AskedOfOld]
    /\ UNCHANGED <<shelf, offer, presses, meanwhile>>

AnswersQuestion(yes) ==
    /\ question # NoQuestion
    /\ question' = NoQuestion
    /\ requests' = IF yes THEN Append(requests, [AskFor("delete", question.ids, question.warned) EXCEPT !.mine = question.mine])
                   ELSE requests
    /\ story' = [story EXCEPT !.overlapped = @ \/ AskedOfOld]
    /\ UNCHANGED <<shelf, proposal, offer, presses, meanwhile>>

PressesUndo ==
    /\ Press
    /\ offer # NoOffer
    /\ Len(requests) < MaxUnderWay
    /\ offer' = NoOffer
    /\ requests' = Append(requests, AskFor("restore", offer, {}))
    /\ UNCHANGED <<shelf, proposal, question, meanwhile, story>>

OfferExpires ==
    /\ offer # NoOffer
    /\ offer' = NoOffer
    /\ UNCHANGED <<shelf, proposal, question, requests, presses, meanwhile, story>>

-----------------------------------------------------------------------------
(* The worker *)

ChangesMeanwhile(copy) ==
    /\ meanwhile < MaxMeanwhile
    /\ meanwhile' = meanwhile + 1
    /\ shelf' = IF copy \in shelf THEN shelf \ {copy} ELSE shelf \cup {copy}
    /\ story' = [story EXCEPT !.elsewhere = TRUE]
    /\ UNCHANGED <<proposal, question, offer, requests, presses>>

Served(k, ok, groups) == requests' = [requests EXCEPT ![k].at = "answered", ![k].ok = ok, ![k].groups = groups]

ListsDuplicates(k) ==
    /\ requests[k].type = "list" /\ requests[k].at = "sent"
    /\ Served(k, TRUE, DuplicateGroups(shelf))
    /\ story' = [story EXCEPT !.overlapped = @ \/ Moving(requests)]
    /\ UNCHANGED <<shelf, proposal, question, offer, presses, meanwhile>>

DeletesCopies(k) ==
    /\ requests[k].type = "delete" /\ requests[k].at = "sent"
    /\ shelf' = shelf \ requests[k].ids
    /\ Served(k, TRUE, <<>>)
    /\ LET keys(live) == {DuplicateKey(copy) : copy \in live}
       IN  story' = [story EXCEPT !.gone = @ \cup (requests[k].ids \cap shelf),
                                  !.unasked = @ \cup ((keys(shelf) \ keys(shelf')) \ requests[k].warned)]
    /\ UNCHANGED <<proposal, question, offer, presses, meanwhile>>

(* Copies brought back that another removal is about to take again.        *)
OnTheirWayOut(ids) ==
    \E k \in DOMAIN requests : requests[k].type = "delete" /\ requests[k].at = "sent" /\ requests[k].ids \cap ids # {}

RestoresCopies(k) ==
    /\ requests[k].type = "restore" /\ requests[k].at = "sent"
    /\ shelf' = shelf \cup requests[k].ids
    /\ Served(k, TRUE, <<>>)
    /\ story' = [story EXCEPT !.raised = @ \cup ((requests[k].ids \ shelf) \ story.gone),
                              !.overlapped = @ \/ OnTheirWayOut(requests[k].ids)]
    /\ UNCHANGED <<proposal, question, offer, presses, meanwhile>>

RefusesRequest(k) ==
    /\ requests[k].at = "sent"
    /\ meanwhile < MaxMeanwhile
    /\ meanwhile' = meanwhile + 1
    /\ Served(k, FALSE, <<>>)
    /\ story' = [story EXCEPT !.refused = TRUE]
    /\ UNCHANGED <<shelf, proposal, question, offer, presses>>

-----------------------------------------------------------------------------
(* Answers *)

Back(k, type) == requests[k].type = type /\ requests[k].at = "answered"
Others(k) == RemoveAt(requests, k)

(* reload(): a list painted is a list on which nothing is ticked.          *)
ProposalArrives(k) ==
    /\ Back(k, "list")
    /\ requests' = Others(k)
    /\ proposal' = IF proposal = NotShown \/ ~requests[k].mine THEN proposal
                   ELSE [groups |-> requests[k].groups, ticked |-> {},
                         state |-> IF requests[k].ok THEN "shown" ELSE "refused"]
    /\ question' = IF question = NoQuestion \/ ~requests[k].mine THEN question ELSE [question EXCEPT !.fresh = FALSE]
    /\ story' = [story EXCEPT !.crossed = @ \/ \E earlier \in 1 .. k - 1 : requests[earlier].type = "list"]
    /\ UNCHANGED <<shelf, offer, presses, meanwhile>>

(* removeWithUndo(): the toast first, then the screen that asked reloads.  *)
RemovalArrives(k) ==
    /\ Back(k, "delete")
    /\ offer' = IF requests[k].ok THEN requests[k].ids ELSE offer
    /\ requests' = IF requests[k].ok
                   THEN Append(Others(k), [AskFor("list", {}, {}) EXCEPT !.mine = requests[k].mine])
                   ELSE Others(k)
    /\ UNCHANGED <<shelf, proposal, question, presses, meanwhile, story>>

UndoArrives(k) ==
    /\ Back(k, "restore")
    /\ proposal' = IF proposal = NotShown THEN proposal ELSE Loading
    /\ requests' = IF proposal = NotShown THEN Others(k) ELSE Opened(Others(k))
    /\ question' = IF proposal = NotShown \/ question = NoQuestion THEN question ELSE [question EXCEPT !.mine = FALSE]
    /\ UNCHANGED <<shelf, offer, presses, meanwhile, story>>

DuplicatesNext ==
    \/ OpensDuplicates \/ LeavesDuplicates \/ PressesRemove \/ PressesUndo \/ OfferExpires
    \/ \E copy \in Copies : Ticks(copy) \/ ChangesMeanwhile(copy)
    \/ proposal # NotShown /\ \E n \in DOMAIN proposal.groups : TicksExtras(n)
    \/ \E yes \in BOOLEAN : AnswersQuestion(yes)
    \/ \E k \in DOMAIN requests :
        \/ ListsDuplicates(k) \/ DeletesCopies(k) \/ RestoresCopies(k) \/ RefusesRequest(k)
        \/ ProposalArrives(k) \/ RemovalArrives(k) \/ UndoArrives(k)

DuplicatesSpec == DuplicatesInit /\ [][DuplicatesNext]_duplicates

(***************************** properties **********************************)

(* "Seven addresses to look at, which is the number of rows the screen will *)
(* show": the two ways to count agree, and every group is of live copies.   *)
CountIsTheRows ==
    proposal # NotShown => Cardinality(DuplicateCount(shelf)) = Len(DuplicateGroups(shelf))

(* "Ticking every copy of an address removes that bookmark from the vault   *)
(* outright": it is not done without the question saying so.  Excused: the  *)
(* vault changed elsewhere, a list or a removal came between (a question    *)
(* over a screen painted anew, a tick or an undo of copies on their way     *)
(* out, a list of copies still to go).                                      *)
NoAddressVanishesUnasked ==
    story.unasked # {} => story.elsewhere \/ story.overlapped

(* The undo brings back what was removed from here and nothing else, unless *)
(* the vault changed elsewhere.                                            *)
UndoRaisesNothingElse ==
    story.raised # {} => story.elsewhere

(* With nothing under way the screen proposes what is there.                *)
ProposalIsCurrent ==
    (/\ requests = <<>> /\ question = NoQuestion
     /\ proposal # NotShown
     /\ ~(story.elsewhere \/ story.overlapped \/ story.crossed \/ story.refused)) =>
        /\ proposal.state = "shown"
        /\ proposal.groups = DuplicateGroups(shelf)

DuplicatesHold ==
    CountIsTheRows /\ NoAddressVanishesUnasked /\ UndoRaisesNothingElse /\ ProposalIsCurrent
=============================================================================
