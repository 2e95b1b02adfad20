------------------------------- MODULE Popup ---------------------------------
(***************************************************************************)
(* The popup: its shell (src/popup/popup.ts), the unlocked screen          *)
(* (popup/vault.ts), the quick settings (popup/settings.ts) and what its   *)
(* requests do in the worker (src/background/add.ts, items.ts).            *)
(*                                                                         *)
(* A page is a URL the user may save; which of them the filter's query     *)
(* finds is given.  A request is served in one step (the awaits of the     *)
(* handlers are in the modules of the repository and of the session) and   *)
(* the answers arrive in any order.  Left out: the reason a lock gives,    *)
(* icons, the floating preview and the offer of thumbnails.                *)
(***************************************************************************)
EXTENDS Wire, SequencesExt

CONSTANTS Bookmarks,      \* pages the user may save
          NoBookmark,
          Matching,       \* those the filter's query finds
          MaxFlights,     \* bound: calls under way when the user goes on
          MaxHappened     \* bound: gestures, changes elsewhere and lost answers

(* What the worker may answer. *)
Replies ==
    [code : {"none", "adoptable", "locked", "open", "OK", "ERROR", "added", "duplicate"},
     rows : SUBSET Bookmarks, item : Bookmarks \cup {NoBookmark}]

ASSUME PopupAssumption ==
    /\ Matching \subseteq Bookmarks
    /\ NoBookmark \notin Bookmarks
    /\ NoCall \notin Replies

VARIABLES standing, saved, tab, popup, flights, news, happened, astray

popups == <<standing, saved, tab, popup, flights, news, happened, astray>>

Finds(filtered) == {x \in Bookmarks : saved[x] = "live" /\ (filtered => x \in Matching)}

(* A screen just rendered, over the dialog that may be open. *)
Rendered(screen) ==
    [screen |-> screen, rows |-> {}, notice |-> "none", about |-> NoBookmark, filtered |-> FALSE, timer |-> FALSE,
     toast |-> NoBookmark, dialog |-> popup.dialog, dialogMine |-> FALSE, settings |-> FALSE]

(***************************** calls ***************************************)

Ask(type, about, filtered) ==
    [type |-> type, about |-> about, filtered |-> filtered, mine |-> TRUE, latest |-> TRUE, answer |-> NoCall]

(* What the screens before the last render still wait for reaches nothing. *)
Detached(waiting) == [k \in DOMAIN waiting |-> [waiting[k] EXCEPT !.mine = FALSE]]

Refresh(waiting) == Append(waiting, Ask("GET_STATE", NoBookmark, FALSE))

(* reload(), of which the last one counts; `about` is the deletion behind it. *)
Reload(waiting, about, filtered) ==
    Append([k \in DOMAIN waiting |->
               IF waiting[k].type = "LIST_ITEMS" THEN [waiting[k] EXCEPT !.latest = FALSE] ELSE waiting[k]],
           Ask("LIST_ITEMS", about, filtered))

Acting(waiting) ==
    \E k \in DOMAIN waiting :
        waiting[k].mine /\ waiting[k].type \in {"ADD_ACTIVE_TAB", "DELETE_ITEMS", "RESTORE_ITEMS"}

PopupInit ==
    /\ standing \in {"none", "adoptable", "locked", "open"}
    /\ saved \in [Bookmarks -> {"never", "live"}]
    /\ standing = "none" => \A x \in Bookmarks : saved[x] = "never"
    /\ tab \in Bookmarks \cup {NoBookmark}
    /\ popup = [screen |-> "loading", rows |-> {}, notice |-> "none", about |-> NoBookmark, filtered |-> FALSE,
                timer |-> FALSE, toast |-> NoBookmark, dialog |-> NoBookmark, dialogMine |-> FALSE,
                settings |-> FALSE]
    /\ flights = Refresh(<<>>)
    /\ news = {}
    /\ happened = 0
    /\ astray = FALSE

(***************************** the worker **********************************)

(* addUrl(): the refusals, the duplicate check and the add, flushed. *)
AddActiveTab ==
    IF tab = NoBookmark THEN [answer |-> "ERROR", saved |-> saved]
    ELSE IF saved[tab] = "live" THEN [answer |-> "duplicate", saved |-> saved]
    ELSE [answer |-> "added", saved |-> [saved EXCEPT ![tab] = "live"]]

LookupActiveTab == IF tab # NoBookmark /\ saved[tab] = "live" THEN tab ELSE NoBookmark

Reply(code, rows, item) == [code |-> code, rows |-> rows, item |-> item]
Done(code) == Reply(code, {}, NoBookmark)

Serves(k) ==
    /\ flights[k].answer = NoCall
    /\ LET type == flights[k].type
           x == flights[k].about
           Answer(reply) == flights' = [flights EXCEPT ![k].answer = reply]
           Refuses == Answer(Done("ERROR")) /\ UNCHANGED <<standing, saved, news>>
           Reads(reply) == Answer(reply) /\ UNCHANGED <<standing, saved, news>>
           Writes(after, broadcasts, code) ==
               /\ saved' = after /\ news' = news \cup broadcasts
               /\ Answer(Done(code)) /\ UNCHANGED standing
       IN \/ type = "GET_STATE" /\ Reads(Done(standing))
          \/ /\ type \in {"LIST_ITEMS", "LOOKUP_ACTIVE_TAB", "OPEN_ITEM", "REFRESH_THUMB", "ADD_ACTIVE_TAB",
                          "DELETE_ITEMS", "RESTORE_ITEMS"}
             /\ standing # "open" /\ Refuses
          \/ /\ standing = "open"
             /\ \/ type = "LIST_ITEMS" /\ Reads(Reply("OK", Finds(flights[k].filtered), NoBookmark))
                \/ type = "LOOKUP_ACTIVE_TAB" /\ Reads(Reply("OK", {}, LookupActiveTab))
                \/ type \in {"OPEN_ITEM", "REFRESH_THUMB"} /\ Reads(Done(IF saved[x] = "live" THEN "OK" ELSE "ERROR"))
                \/ /\ type = "ADD_ACTIVE_TAB"
                   /\ LET add == AddActiveTab
                      IN Writes(add.saved, IF add.answer = "added" THEN {"VAULT_CHANGED"} ELSE {}, add.answer)
                \/ /\ type = "DELETE_ITEMS"
                   /\ IF saved[x] = "live" THEN Writes([saved EXCEPT ![x] = "gone"], {"VAULT_CHANGED"}, "OK") ELSE Refuses
                \/ /\ type = "RESTORE_ITEMS"
                   /\ IF saved[x] = "gone" THEN Writes([saved EXCEPT ![x] = "live"], {"VAULT_CHANGED"}, "OK") ELSE Refuses
          \/ type = "SET_SETTINGS" /\ Writes(saved, {"SETTINGS_CHANGED"}, "OK")
          \/ /\ type = "LOCK"
             /\ standing' = (IF standing = "open" THEN "locked" ELSE standing)
             /\ news' = news \cup {"SESSION_LOCKED"}
             /\ Answer(Done("OK")) /\ UNCHANGED saved
          \/ /\ type \in {"UNLOCK", "CREATE_VAULT"}
             /\ \/ /\ standing \in (IF type = "UNLOCK" THEN {"locked", "adoptable"} ELSE {"none", "adoptable"})
                   /\ standing' = "open"
                   /\ saved' = (IF type = "UNLOCK" THEN saved ELSE [b \in Bookmarks |-> "never"])
                   /\ news' = news \cup {"SESSION_UNLOCKED"} /\ Answer(Done("OK"))
                \/ Refuses
    /\ UNCHANGED <<tab, popup, happened, astray>>

(* The worker dies: send() answers UNREACHABLE, whatever was done by then. *)
LosesAnswer(k) ==
    /\ happened < MaxHappened /\ happened' = happened + 1
    /\ flights' = [flights EXCEPT ![k].answer = Done("ERROR")]
    /\ astray' = TRUE
    /\ UNCHANGED <<standing, saved, tab, popup, news>>

(***************************** answers *************************************)

(* refresh(): the answer renders a screen, and an unlocked one asks for its rows. *)
Shell(code) ==
    LET next == Rendered(CASE code = "none" -> "create" [] code = "adoptable" -> "adopt" [] code = "locked" -> "unlock"
                           [] code = "ERROR" -> "error" [] code = "open" /\ popup.settings -> "settings" [] OTHER -> "vault")
    IN [next EXCEPT !.settings = popup.settings /\ code \in {"open", "ERROR"}]

StateArrives(k) ==
    LET rest == RemoveAt(flights, k)
        code == flights[k].answer.code
    IN /\ flights[k].type = "GET_STATE"
       /\ popup' = Shell(code)
       /\ flights' = IF Shell(code).screen = "vault"
                     THEN Append(Reload(Detached(rest), NoBookmark, FALSE), Ask("LOOKUP_ACTIVE_TAB", NoBookmark, FALSE))
                     ELSE Detached(rest)
       /\ astray' = (astray \/ Acting(rest) \/ popup.dialog # NoBookmark
                        \/ \E j \in 1 .. (k - 1) : flights[j].type = "GET_STATE")

(* A bug: an older answer is rendered over a newer one. *)
CountsAnyway(ask) == ask.mine

(* The token of reload(). *)
Counts(ask) == ask.mine /\ ask.latest

ListArrives(k) ==
    /\ flights[k].type = "LIST_ITEMS"
    /\ LET ask == flights[k]
           shown == IF ~Counts(ask) THEN popup
                    ELSE IF ask.answer.code = "ERROR" THEN [popup EXCEPT !.rows = {}, !.notice = "danger"]
                    ELSE [popup EXCEPT !.rows = ask.answer.rows]
       IN popup' = (IF ask.mine /\ ask.about # NoBookmark THEN [shown EXCEPT !.toast = ask.about] ELSE shown)
    /\ flights' = RemoveAt(flights, k)
    /\ UNCHANGED astray

(* announceIfSaved(), which stays out of the way of another notice. *)
LookupArrives(k) ==
    /\ flights[k].type = "LOOKUP_ACTIVE_TAB"
    /\ LET heardAs == IF flights[k].answer.code = "ERROR" THEN "ERROR" ELSE ParseResponse(ResponseMap["LOOKUP_ACTIVE_TAB"])
           x == flights[k].answer.item
       IN popup' = IF flights[k].mine /\ heardAs # "ERROR" /\ x # NoBookmark /\ popup.notice = "none"
                   THEN [popup EXCEPT !.notice = "saved", !.about = x] ELSE popup
    /\ flights' = RemoveAt(flights, k)
    /\ UNCHANGED astray

AddArrives(k) ==
    /\ flights[k].type = "ADD_ACTIVE_TAB"
    /\ LET rest == RemoveAt(flights, k)
           code == flights[k].answer.code
       IN IF ~flights[k].mine THEN popup' = popup /\ flights' = rest
          ELSE CASE code = "ERROR" -> popup' = [popup EXCEPT !.notice = "danger"] /\ flights' = rest
                 [] code = "duplicate" -> popup' = [popup EXCEPT !.notice = "saved", !.about = tab] /\ flights' = rest
                 [] OTHER -> /\ popup' = [popup EXCEPT !.notice = "info", !.filtered = FALSE]
                             /\ flights' = Reload(rest, NoBookmark, FALSE)
    /\ UNCHANGED astray

(* deleteItem() and the undo: the list is read again, then the toast is shown. *)
EditArrives(k) ==
    /\ flights[k].type \in {"DELETE_ITEMS", "RESTORE_ITEMS"}
    /\ LET rest == RemoveAt(flights, k)
           failed == flights[k].answer.code = "ERROR"
           deleted == flights[k].type = "DELETE_ITEMS"
       IN IF ~flights[k].mine THEN popup' = popup /\ flights' = rest
          ELSE /\ popup' = IF failed THEN [popup EXCEPT !.notice = "danger"] ELSE popup
               /\ flights' = IF failed /\ deleted THEN rest
                             ELSE Reload(rest, IF deleted THEN flights[k].about ELSE NoBookmark, popup.filtered)
    /\ UNCHANGED astray

OtherArrives(k) ==
    /\ flights[k].type \in {"OPEN_ITEM", "REFRESH_THUMB", "SET_SETTINGS", "LOCK", "UNLOCK", "CREATE_VAULT"}
    /\ LET type == flights[k].type
           failed == flights[k].answer.code = "ERROR"
           rest == RemoveAt(flights, k)
       IN CASE type = "OPEN_ITEM" /\ ~failed -> popup' = [popup EXCEPT !.screen = "closed", !.rows = {}] /\ flights' = <<>>
            [] (type = "REFRESH_THUMB" \/ (type = "OPEN_ITEM" /\ failed)) /\ flights[k].mine ->
                   popup' = [popup EXCEPT !.notice = IF failed THEN "danger" ELSE "info"] /\ flights' = rest
            [] type \in {"SET_SETTINGS", "LOCK"} \/ (type \in {"UNLOCK", "CREATE_VAULT"} /\ ~failed) ->
                   popup' = popup /\ flights' = Refresh(rest)
            [] OTHER -> popup' = popup /\ flights' = rest
    /\ UNCHANGED astray

Arrives(k) ==
    /\ flights[k].answer # NoCall
    /\ StateArrives(k) \/ ListArrives(k) \/ LookupArrives(k) \/ AddArrives(k) \/ EditArrives(k) \/ OtherArrives(k)
    /\ UNCHANGED <<standing, saved, tab, news, happened>>

(***************************** gestures ************************************)

Asking(type, about) ==
    flights' = Append(flights, Ask(type, about, FALSE))

Adds ==
    /\ popup.screen = "vault"
    /\ \A k \in DOMAIN flights : ~(flights[k].type = "ADD_ACTIVE_TAB" /\ flights[k].mine)
    /\ popup' = [popup EXCEPT !.notice = "none"]
    /\ Asking("ADD_ACTIVE_TAB", NoBookmark)

AsksToDelete(x) ==
    /\ popup.screen = "vault" /\ x \in popup.rows
    /\ popup' = [popup EXCEPT !.dialog = x, !.dialogMine = TRUE]
    /\ UNCHANGED flights

ConfirmsDeletion ==
    /\ popup.dialog # NoBookmark
    /\ popup' = [popup EXCEPT !.dialog = NoBookmark]
    /\ flights' = Append(flights, [Ask("DELETE_ITEMS", popup.dialog, FALSE) EXCEPT !.mine = popup.dialogMine])

CancelsDeletion ==
    /\ popup.dialog # NoBookmark
    /\ popup' = [popup EXCEPT !.dialog = NoBookmark]
    /\ UNCHANGED flights

Undoes ==
    /\ popup.toast # NoBookmark
    /\ popup' = [popup EXCEPT !.toast = NoBookmark]
    /\ Asking("RESTORE_ITEMS", popup.toast)

Filters ==
    /\ popup.screen = "vault"
    /\ popup' = [popup EXCEPT !.filtered = ~@, !.timer = TRUE]
    /\ UNCHANGED flights

RefreshesPreview ==
    /\ popup.notice = "saved"
    /\ popup' = [popup EXCEPT !.notice = "info"]
    /\ Asking("REFRESH_THUMB", popup.about)

OpensItem(x) ==
    /\ popup.screen = "vault" /\ x \in popup.rows
    /\ Asking("OPEN_ITEM", x) /\ UNCHANGED popup

LocksHere == popup.screen = "vault" /\ Asking("LOCK", NoBookmark) /\ UNCHANGED popup

TurnsToSettings ==
    /\ popup.screen \in {"vault", "settings"}
    /\ popup' = [popup EXCEPT !.settings = (popup.screen = "vault")]
    /\ flights' = Refresh(flights)

ChangesSetting == popup.screen = "settings" /\ Asking("SET_SETTINGS", NoBookmark) /\ UNCHANGED popup

TypesPassword ==
    /\ popup.screen \in {"unlock", "adopt", "create"}
    /\ \A k \in DOMAIN flights : flights[k].type \notin {"UNLOCK", "CREATE_VAULT"}
    /\ Asking(IF popup.screen = "create" THEN "CREATE_VAULT" ELSE "UNLOCK", NoBookmark)
    /\ UNCHANGED popup

(* "Start a separate vault" and back, drawn without asking the worker. *)
StartsSeparate ==
    /\ popup.screen = "adopt"
    /\ popup' = [popup EXCEPT !.screen = "create"]
    /\ UNCHANGED flights

Gestures ==
    /\ happened < MaxHappened /\ happened' = happened + 1
    /\ Len(flights) < MaxFlights
    /\ popup.dialog = NoBookmark
    /\ \/ Adds \/ Undoes \/ Filters \/ RefreshesPreview \/ LocksHere \/ TurnsToSettings \/ ChangesSetting
       \/ TypesPassword \/ StartsSeparate
       \/ \E x \in Bookmarks : AsksToDelete(x) \/ OpensItem(x)
    /\ UNCHANGED <<standing, saved, tab, news, astray>>

(* The dialog is modal. *)
AnswersDialog ==
    /\ ConfirmsDeletion \/ CancelsDeletion
    /\ UNCHANGED <<standing, saved, tab, news, happened, astray>>

FilterSettles ==
    /\ popup.timer
    /\ popup' = [popup EXCEPT !.timer = FALSE]
    /\ flights' = IF popup.screen = "vault" THEN Reload(flights, NoBookmark, popup.filtered) ELSE flights
    /\ UNCHANGED <<standing, saved, tab, news, happened, astray>>

OfferEnds ==
    /\ popup.toast # NoBookmark
    /\ popup' = [popup EXCEPT !.toast = NoBookmark]
    /\ UNCHANGED <<standing, saved, tab, flights, news, happened, astray>>

(***************************** broadcasts **********************************)

(* "What the popup repaints for, spelled out one message at a time." *)
Repaints == {"SESSION_LOCKED", "SESSION_UNLOCKED", "SETTINGS_CHANGED"}

HearsNews ==
    \E b \in news :
        /\ news' = news \ {b}
        /\ IF b = "PANIC"
           THEN popup' = [popup EXCEPT !.screen = "closed", !.rows = {}] /\ flights' = <<>>
           ELSE popup' = popup /\ flights' = IF b \in Repaints THEN Refresh(flights) ELSE flights
        /\ UNCHANGED <<standing, saved, tab, happened, astray>>

(* Another window, a sync, or an alarm. *)
HappensElsewhere ==
    /\ happened < MaxHappened /\ happened' = happened + 1
    /\ \/ /\ standing = "open" /\ standing' = "locked"
          /\ \E b \in {"SESSION_LOCKED", "PANIC"} : news' = news \cup {b}
          /\ UNCHANGED <<saved, astray>>
       \/ /\ standing \in {"locked", "adoptable"} /\ standing' = "open"
          /\ news' = news \cup {"SESSION_UNLOCKED"}
          /\ UNCHANGED <<saved, astray>>
       \/ news' = news \cup {"SETTINGS_CHANGED"} /\ UNCHANGED <<standing, saved, astray>>
       \/ /\ standing = "open"
          /\ \E x \in Bookmarks : saved' = [saved EXCEPT ![x] = IF @ = "live" THEN "gone" ELSE "live"]
          /\ news' = news \cup {"VAULT_CHANGED"}
          /\ astray' = TRUE /\ UNCHANGED standing
    /\ UNCHANGED <<tab, popup, flights>>

PopupNext ==
    /\ popup.screen # "closed"
    /\ \/ \E k \in DOMAIN flights : Serves(k) \/ LosesAnswer(k) \/ Arrives(k)
       \/ Gestures \/ AnswersDialog \/ FilterSettles \/ OfferEnds \/ HearsNews \/ HappensElsewhere

(***************************** properties **********************************)

Settled == flights = <<>> /\ news = {} /\ ~popup.timer /\ popup.screen # "closed"

Screens ==
    [none |-> {"create"}, adoptable |-> {"adopt", "create"}, locked |-> {"unlock"}, open |-> {"vault", "settings"}]

(* With nothing under way the popup shows the screen of the vault's state   *)
(* and the rows of its filter: the last reload() wins (vault.ts:101), and   *)
(* each change made here is followed by one.  Unless the vault changed      *)
(* elsewhere, an answer was lost, a repaint came in the middle of a change, *)
(* or two refresh() crossed, which nothing prevents.                        *)
SettledPopupShowsTheVault ==
    (Settled /\ ~astray) =>
        /\ popup.screen \in Screens[standing]
        /\ popup.screen = "vault" => popup.rows = Finds(popup.filtered)

(* "This only has to not show a stale list" (vault.ts:131): whatever was    *)
(* lost or crossed, a popup with nothing under way over a locked vault has  *)
(* no rows on screen and no deletion to undo.                               *)
LockedPopupShowsNothing ==
    (Settled /\ standing # "open") => popup.rows = {} /\ popup.toast = NoBookmark

(* What the popup shows: both of the above.                                 *)
PopupTellsTheTruth == SettledPopupShowsTheVault /\ LockedPopupShowsNothing
=============================================================================
