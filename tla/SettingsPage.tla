---------------------------- MODULE SettingsPage -----------------------------
(***************************************************************************)
(* The settings screen of the manager (src/manager/settings.ts and         *)
(* openSettings() of manager/app.ts): its switches and choices, the two    *)
(* answers to "two vaults, one sync area", Drive, the password and the     *)
(* button that destroys the vault, with what the worker does for them      *)
(* (background/session.ts, syncing.ts).                                    *)
(*                                                                         *)
(* Three of the switches stand for all: one asks for a permission, one     *)
(* offers a clean-up, one does neither.  A vault is "ours" or "theirs";    *)
(* the remote is the backend the question is about.  A move to Drive is    *)
(* one step here (module Migration has its steps), and so is writing a     *)
(* setting (SettingsSync).  Left out: texts, the quota bar, shortcuts.     *)
(***************************************************************************)
EXTENDS Naturals, Sequences, SequencesExt

CONSTANTS Switches,       \* the switches on the screen
          NoScreen,           \* another screen is shown
          NoAnswer,        \* no answer yet
          MaxDeeds,       \* bound: what the user and others do
          MaxSends        \* bound: requests under way when the user goes on

ASSUME SettingsPageAssumption ==
    Switches \subseteq {"clearHistoryOnLock", "stripTrackingParams", "lockOnBrowserBlur"}

VARIABLES prefs, permitted, localVault, remoteVault, knownPrefs, settingsScreen, sends, deeds, pageRecord

settingsPage == <<prefs, permitted, localVault, remoteVault, knownPrefs, settingsScreen, sends, deeds, pageRecord>>

(* settingsScreen(): everything is drawn from what is known now. *)
Built(mismatch) ==
    [boxes |-> [s \in Switches |-> [checked |-> knownPrefs[s], busy |-> FALSE]],
     mismatch |-> mismatch, armed |-> FALSE, replacing |-> FALSE,
     typed |-> FALSE, sure |-> FALSE, erasable |-> FALSE, alsoRemote |-> TRUE,
     pressed |-> {}, dialog |-> "none", deciding |-> FALSE]

Sent(type, arg) ==
    [type |-> type, arg |-> arg, at |-> "sent", ok |-> FALSE, answer |-> NoAnswer, mine |-> TRUE,
     asked |-> pageRecord.asked]

(* What the screen before the last build waits for reaches nothing on it. *)
Orphans(waiting) == [k \in DOMAIN waiting |-> [waiting[k] EXCEPT !.mine = FALSE]]

(* openSettings() asks first and shows the screen when it has its answers. *)
Reopened(waiting) == Append(waiting, Sent("status", ""))

SettingsPageInit ==
    /\ pageRecord = [asked |-> FALSE, adopted |-> FALSE, destroyed |-> FALSE, lost |-> FALSE,
                 elsewhere |-> FALSE, crossed |-> FALSE, rebuilt |-> FALSE]
    /\ prefs = [s \in Switches |-> FALSE]
    /\ permitted = FALSE
    /\ localVault = "ours"
    /\ remoteVault \in {"ours", "theirs"}
    /\ knownPrefs = prefs
    /\ settingsScreen = NoScreen
    /\ sends = <<Sent("status", "")>>
    /\ deeds = 0

(***************************** the user ************************************)

Deed == deeds < MaxDeeds /\ deeds' = deeds + 1

(* A gesture on the page: an open dialog lies over it. *)
OnPage ==
    /\ Deed
    /\ settingsScreen # NoScreen /\ settingsScreen.dialog = "none"
    /\ Len(sends) < MaxSends

Toggles(s) ==
    /\ OnPage
    /\ ~settingsScreen.boxes[s].busy
    /\ LET wanted == ~settingsScreen.boxes[s].checked
       IN /\ settingsScreen' = [settingsScreen EXCEPT !.boxes[s] = [checked |-> wanted, busy |-> TRUE]]
          /\ sends' = Append(sends, Sent(IF s = "clearHistoryOnLock" /\ wanted THEN "permission" ELSE "set",
                                         [switch |-> s, wanted |-> wanted]))
    /\ UNCHANGED <<prefs, permitted, localVault, remoteVault, knownPrefs, pageRecord>>

(* Sync now, the password and Drive: a button that is dead until its answer. *)
Presses(button) ==
    /\ OnPage
    /\ button \notin settingsScreen.pressed
    /\ settingsScreen' = [settingsScreen EXCEPT !.pressed = @ \cup {button}]
    /\ sends' = Append(sends, Sent(button, ""))
    /\ UNCHANGED <<prefs, permitted, localVault, remoteVault, knownPrefs, pageRecord>>

(* mismatchChoices(): "keep this vault" is asked twice ... *)
PressesReplace ==
    /\ OnPage
    /\ settingsScreen.mismatch /\ ~settingsScreen.replacing
    /\ IF settingsScreen.armed
       THEN /\ settingsScreen' = [settingsScreen EXCEPT !.replacing = TRUE]
            /\ sends' = Append(sends, Sent("replace", ""))
       ELSE settingsScreen' = [settingsScreen EXCEPT !.armed = TRUE] /\ UNCHANGED sends
    /\ UNCHANGED <<prefs, permitted, localVault, remoteVault, knownPrefs, pageRecord>>

(* ... and "keep the synced one" in a dialog, with its password. *)
OpensAdoption ==
    /\ OnPage
    /\ settingsScreen.mismatch
    /\ settingsScreen' = [settingsScreen EXCEPT !.dialog = "adopt"]
    /\ UNCHANGED <<prefs, permitted, localVault, remoteVault, knownPrefs, sends, pageRecord>>

Confirms(password) ==
    /\ Deed
    /\ settingsScreen # NoScreen /\ ~settingsScreen.deciding /\ settingsScreen.dialog # "none"
    /\ IF settingsScreen.dialog = "adopt"
       THEN /\ settingsScreen' = [settingsScreen EXCEPT !.deciding = TRUE]
            /\ sends' = Append(sends, Sent("adopt", [password |-> password, found |-> "none"]))
            /\ pageRecord' = [pageRecord EXCEPT !.adopted = TRUE]
       ELSE /\ password = "right"
            /\ settingsScreen' = [settingsScreen EXCEPT !.dialog = "none"]
            /\ sends' = Append(sends, Sent("strip", [switch |-> "stripTrackingParams", wanted |-> TRUE]))
            /\ UNCHANGED pageRecord
    /\ UNCHANGED <<prefs, permitted, localVault, remoteVault, knownPrefs>>

Dismisses ==
    /\ Deed
    /\ settingsScreen # NoScreen /\ settingsScreen.dialog # "none" /\ ~settingsScreen.deciding
    /\ settingsScreen' = [settingsScreen EXCEPT !.dialog = "none",
                            !.boxes = [s \in Switches |-> IF settingsScreen.dialog = "cleanup" /\ s = "stripTrackingParams"
                                                          THEN [@[s] EXCEPT !.busy = FALSE] ELSE @[s]]]
    /\ UNCHANGED <<prefs, permitted, localVault, remoteVault, knownPrefs, sends, pageRecord>>

(* Bug: a question once asked stays asked. *)
TypesPhraseStillSure(complete) ==
    /\ OnPage
    /\ settingsScreen.typed # complete
    /\ settingsScreen' = [settingsScreen EXCEPT !.typed = complete, !.erasable = complete]
    /\ pageRecord' = [pageRecord EXCEPT !.asked = @ /\ complete]
    /\ UNCHANGED <<prefs, permitted, localVault, remoteVault, knownPrefs, sends>>

(* destroyVault(): the phrase is typed, or no longer what it was; ... *)
TypesPhrase(complete) ==
    /\ OnPage
    /\ settingsScreen.typed # complete
    /\ settingsScreen' = [settingsScreen EXCEPT !.typed = complete, !.erasable = complete, !.sure = @ /\ complete]
    /\ pageRecord' = [pageRecord EXCEPT !.asked = @ /\ complete]
    /\ UNCHANGED <<prefs, permitted, localVault, remoteVault, knownPrefs, sends>>

TicksRemote ==
    /\ OnPage
    /\ settingsScreen' = [settingsScreen EXCEPT !.alsoRemote = ~@]
    /\ UNCHANGED <<prefs, permitted, localVault, remoteVault, knownPrefs, sends, pageRecord>>

(* ... the first press asks, the second one erases. *)
PressesDestroy ==
    /\ OnPage
    /\ settingsScreen.erasable
    /\ IF settingsScreen.sure
       THEN /\ settingsScreen' = [settingsScreen EXCEPT !.erasable = FALSE]
            /\ sends' = Append(sends, Sent("destroy", settingsScreen.alsoRemote))
            /\ UNCHANGED pageRecord
       ELSE /\ settingsScreen' = [settingsScreen EXCEPT !.sure = TRUE]
            /\ pageRecord' = [pageRecord EXCEPT !.asked = TRUE]
            /\ UNCHANGED sends
    /\ UNCHANGED <<prefs, permitted, localVault, remoteVault, knownPrefs>>

(* The screen is left; what it asked for goes on.  It can be opened again. *)
LeavesSettings ==
    /\ OnPage
    /\ settingsScreen' = NoScreen
    /\ sends' = Orphans(sends)
    /\ pageRecord' = [pageRecord EXCEPT !.asked = FALSE]
    /\ UNCHANGED <<prefs, permitted, localVault, remoteVault, knownPrefs>>

OpensSettings ==
    /\ Deed
    /\ settingsScreen = NoScreen /\ localVault # "none" /\ Len(sends) < MaxSends
    /\ sends' = Reopened(sends)
    /\ UNCHANGED <<prefs, permitted, localVault, remoteVault, knownPrefs, settingsScreen, pageRecord>>

(* The popup's quick settings, which this page hears of but does not redraw *)
(* (once, as a bound).                                                      *)
ChangesElsewhere(s) ==
    /\ Deed
    /\ ~pageRecord.elsewhere
    /\ prefs' = [prefs EXCEPT ![s] = ~@]
    /\ knownPrefs' = prefs'
    /\ pageRecord' = [pageRecord EXCEPT !.elsewhere = TRUE]
    /\ UNCHANGED <<permitted, localVault, remoteVault, settingsScreen, sends>>

(***************************** the worker **********************************)

Answers(k, ok, answer) == sends' = [sends EXCEPT ![k].ok = ok, ![k].answer = answer, ![k].at = "answered"]
Answered(k, ok) == Answers(k, ok, NoAnswer)
Onward(k, at, arg) == sends' = [sends EXCEPT ![k].at = at, ![k].arg = arg]

Grants(k, yes) ==
    /\ sends[k].type = "permission" /\ sends[k].at = "sent"
    /\ permitted' = (permitted \/ yes)
    /\ Answered(k, permitted')
    /\ UNCHANGED <<prefs, localVault, remoteVault, knownPrefs, settingsScreen, deeds, pageRecord>>

(* updateSettings(), and the requests that change neither vault nor setting. *)
ServesSimple(k) ==
    /\ sends[k].at = "sent"
    /\ \/ /\ sends[k].type = "set"
          /\ prefs' = [prefs EXCEPT ![sends[k].arg.switch] = sends[k].arg.wanted]
          /\ Answers(k, TRUE, prefs')
       \/ /\ sends[k].type \in {"count", "strip", "password"}
          /\ \E yes \in BOOLEAN : Answered(k, yes)
          /\ UNCHANGED prefs
       \/ /\ sends[k].type = "status"
          /\ Answered(k, localVault # remoteVault /\ remoteVault # "none") /\ UNCHANGED prefs
    /\ UNCHANGED <<permitted, localVault, remoteVault, knownPrefs, settingsScreen, deeds, pageRecord>>

(* syncNow(): a vault that is not there is written, another one is left alone. *)
Pushes(k) ==
    /\ \/ sends[k].type = "sync" /\ sends[k].at = "sent"
       \/ sends[k].type = "replace" /\ sends[k].at = "removed"
    /\ IF localVault = "none" \/ remoteVault \notin {"none", localVault}
       THEN Answered(k, FALSE) /\ UNCHANGED remoteVault
       ELSE remoteVault' = localVault /\ Answered(k, TRUE)
    /\ UNCHANGED <<prefs, permitted, localVault, knownPrefs, settingsScreen, deeds, pageRecord>>

(* replaceRemoteVault(): the remote is removed, then the next push fills it. *)
RemovesRemote(k) ==
    /\ sends[k].type = "replace" /\ sends[k].at = "sent"
    /\ IF localVault = "none" THEN Answered(k, FALSE) /\ UNCHANGED remoteVault
       ELSE remoteVault' = "none" /\ Onward(k, "removed", sends[k].arg)
    /\ UNCHANGED <<prefs, permitted, localVault, knownPrefs, settingsScreen, deeds, pageRecord>>

(* adoptRemoteVault(): the remote is fetched, then it takes the place of ours. *)
FetchesRemote(k) ==
    /\ sends[k].type = "adopt" /\ sends[k].at = "sent"
    /\ IF localVault = "none" \/ remoteVault = "none" THEN Answered(k, FALSE)
       ELSE Onward(k, "fetched", [sends[k].arg EXCEPT !.found = remoteVault])
    /\ UNCHANGED <<prefs, permitted, localVault, remoteVault, knownPrefs, settingsScreen, deeds, pageRecord>>

AdoptsFetched(k) ==
    /\ sends[k].type = "adopt" /\ sends[k].at = "fetched"
    /\ IF localVault = "none" \/ sends[k].arg.password = "wrong" THEN Answered(k, FALSE) /\ UNCHANGED localVault
       ELSE localVault' = sends[k].arg.found /\ Answered(k, TRUE)
    /\ UNCHANGED <<prefs, permitted, remoteVault, knownPrefs, settingsScreen, deeds, pageRecord>>

(* connectDrive(): refused while another vault is there. *)
ConnectsDrive(k) ==
    /\ sends[k].type = "drive" /\ sends[k].at = "sent"
    /\ \/ remoteVault = localVault /\ localVault # "none" /\ Answered(k, TRUE) /\ UNCHANGED remoteVault
       \/ remoteVault = "none" /\ localVault # "none" /\ remoteVault' = localVault /\ Answered(k, TRUE)
       \/ remoteVault \notin {"none", localVault} /\ Answers(k, FALSE, "mismatch") /\ UNCHANGED remoteVault
       \/ Answered(k, FALSE) /\ UNCHANGED remoteVault
    /\ UNCHANGED <<prefs, permitted, localVault, knownPrefs, settingsScreen, deeds, pageRecord>>

(* The synced copy goes first, whatever becomes of the one here, ... *)
DestroysRemote(k) ==
    /\ sends[k].type = "destroy" /\ sends[k].at = "sent" /\ sends[k].arg
    /\ remoteVault' \in {"none", remoteVault}
    /\ Onward(k, "removed", TRUE)
    /\ UNCHANGED <<prefs, permitted, localVault, knownPrefs, settingsScreen, deeds, pageRecord>>

(* ... which stays when it has been locked since. *)
DestroysVault(k) ==
    /\ sends[k].type = "destroy" /\ sends[k].at = (IF sends[k].arg THEN "removed" ELSE "sent")
    /\ \/ Answered(k, FALSE) /\ UNCHANGED <<localVault, pageRecord>>
       \/ /\ localVault # "none"
          /\ localVault' = "none"
          /\ pageRecord' = [pageRecord EXCEPT !.destroyed = TRUE]
          /\ Answered(k, TRUE)
    /\ UNCHANGED <<prefs, permitted, remoteVault, knownPrefs, settingsScreen, deeds>>

(* The worker dies at some point of it: the page hears an error. *)
LosesSend(k) ==
    /\ Deed
    /\ sends[k].type # "permission"
    /\ sends' = [sends EXCEPT ![k].ok = FALSE, ![k].answer = NoAnswer, ![k].at = "answered"]
    /\ pageRecord' = [pageRecord EXCEPT !.lost = TRUE]
    /\ UNCHANGED <<prefs, permitted, localVault, remoteVault, knownPrefs, settingsScreen>>

(***************************** answers *************************************)

Arrived(k, type) == sends[k].type = type /\ sends[k].at = "answered"
Shown(k) == settingsScreen # NoScreen /\ sends[k].mine
OtherSends(k) == RemoveAt(sends, k)

SwitchSettled(s, stored) ==
    [settingsScreen EXCEPT !.boxes[s] = [checked |-> IF stored THEN @.checked ELSE ~@.checked, busy |-> FALSE]]

PermissionArrives(k) ==
    /\ Arrived(k, "permission")
    /\ IF sends[k].ok THEN sends' = Append(OtherSends(k), [Sent("set", sends[k].arg) EXCEPT !.mine = sends[k].mine])
       ELSE sends' = OtherSends(k)
    /\ settingsScreen' = IF ~sends[k].ok /\ Shown(k) THEN SwitchSettled(sends[k].arg.switch, FALSE) ELSE settingsScreen
    /\ UNCHANGED <<prefs, permitted, localVault, remoteVault, knownPrefs, deeds, pageRecord>>

(* toggle(): a switch that was refused goes back; one that was stored may have an offer to make. *)
SettingArrives(k) ==
    LET arg == sends[k].arg
        stored == sends[k].ok
        offers == stored /\ arg.switch = "stripTrackingParams" /\ arg.wanted
    IN /\ Arrived(k, "set")
       /\ knownPrefs' = (IF stored THEN sends[k].answer ELSE knownPrefs)
       /\ pageRecord' = [pageRecord EXCEPT !.crossed = @ \/ (stored /\ sends[k].answer # prefs)]
       /\ sends' = (IF offers THEN Append(OtherSends(k), [Sent("count", arg) EXCEPT !.mine = sends[k].mine]) ELSE OtherSends(k))
       /\ settingsScreen' = IF ~offers /\ Shown(k) THEN SwitchSettled(arg.switch, stored) ELSE settingsScreen
       /\ UNCHANGED <<prefs, permitted, localVault, remoteVault, deeds>>

(* offerTrackingCleanup(): nothing to clean, or a question (here: once the *)
(* dialog before it is closed, and only over the screen that asked).       *)
CleanupArrives(k) ==
    /\ \/ Arrived(k, "count")
       \/ Arrived(k, "strip")
    /\ sends' = OtherSends(k)
    /\ Shown(k) => settingsScreen.dialog = "none"
    /\ settingsScreen' = IF ~Shown(k) THEN settingsScreen
               ELSE IF sends[k].type = "count" /\ sends[k].ok
                    THEN [settingsScreen EXCEPT !.dialog = "cleanup"]
                    ELSE SwitchSettled("stripTrackingParams", TRUE)
    /\ UNCHANGED <<prefs, permitted, localVault, remoteVault, knownPrefs, deeds, pageRecord>>

ButtonArrives(k) ==
    /\ sends[k].type \in {"sync", "password", "drive"} /\ sends[k].at = "answered"
    /\ settingsScreen' = IF ~Shown(k) THEN settingsScreen
               ELSE [settingsScreen EXCEPT !.pressed = @ \ {sends[k].type},
                                 !.mismatch = @ \/ sends[k].answer = "mismatch"]
    /\ sends' = IF sends[k].type = "drive" /\ sends[k].ok THEN Reopened(OtherSends(k)) ELSE OtherSends(k)
    /\ UNCHANGED <<prefs, permitted, localVault, remoteVault, knownPrefs, deeds, pageRecord>>

ReplaceArrives(k) ==
    /\ Arrived(k, "replace")
    /\ settingsScreen' = IF Shown(k) THEN [settingsScreen EXCEPT !.replacing = FALSE, !.armed = FALSE] ELSE settingsScreen
    /\ sends' = IF sends[k].ok THEN Reopened(OtherSends(k)) ELSE OtherSends(k)
    /\ UNCHANGED <<prefs, permitted, localVault, remoteVault, knownPrefs, deeds, pageRecord>>

AdoptionArrives(k) ==
    /\ Arrived(k, "adopt")
    /\ settingsScreen' = IF Shown(k)
               THEN [settingsScreen EXCEPT !.deciding = FALSE, !.dialog = IF sends[k].ok THEN "none" ELSE @]
               ELSE settingsScreen
    /\ sends' = IF sends[k].ok THEN Reopened(OtherSends(k)) ELSE OtherSends(k)
    /\ UNCHANGED <<prefs, permitted, localVault, remoteVault, knownPrefs, deeds, pageRecord>>

DestructionArrives(k) ==
    /\ Arrived(k, "destroy")
    /\ settingsScreen' = IF sends[k].ok THEN NoScreen
               ELSE IF Shown(k) THEN [settingsScreen EXCEPT !.erasable = TRUE] ELSE settingsScreen
    /\ sends' = IF sends[k].ok THEN Orphans(OtherSends(k)) ELSE OtherSends(k)
    /\ UNCHANGED <<prefs, permitted, localVault, remoteVault, knownPrefs, deeds, pageRecord>>

(* The screen is built from the answers, wherever the user is by now. *)
ScreenArrives(k) ==
    /\ Arrived(k, "status")
    /\ settingsScreen' = IF localVault = "none" THEN NoScreen ELSE Built(sends[k].ok)
    /\ sends' = Orphans(OtherSends(k))
    /\ pageRecord' = [pageRecord EXCEPT !.asked = FALSE,
                                !.rebuilt = @ \/ \E other \in DOMAIN sends : sends[other].type \in {"permission", "set"}]
    /\ UNCHANGED <<prefs, permitted, localVault, remoteVault, knownPrefs, deeds>>

SettingsPageNext ==
    \/ \E s \in Switches : Toggles(s) \/ ChangesElsewhere(s)
    \/ \E button \in {"sync", "password", "drive"} : Presses(button)
    \/ \E password \in {"right", "wrong"} : Confirms(password)
    \/ \E complete \in BOOLEAN : TypesPhrase(complete)
    \/ PressesReplace \/ OpensAdoption \/ Dismisses \/ TicksRemote \/ PressesDestroy \/ LeavesSettings \/ OpensSettings
    \/ \E k \in DOMAIN sends :
        \/ \E yes \in BOOLEAN : Grants(k, yes)
        \/ ServesSimple(k) \/ Pushes(k) \/ RemovesRemote(k) \/ FetchesRemote(k) \/ AdoptsFetched(k)
        \/ ConnectsDrive(k) \/ DestroysRemote(k) \/ DestroysVault(k) \/ LosesSend(k)
        \/ PermissionArrives(k) \/ SettingArrives(k) \/ CleanupArrives(k) \/ ButtonArrives(k) \/ ReplaceArrives(k)
        \/ AdoptionArrives(k) \/ DestructionArrives(k) \/ ScreenArrives(k)

(***************************** properties **********************************)

(* "A switch, and the guarantee that it shows what actually happened": with *)
(* nothing under way each switch stands as stored.  Excused: a change made  *)
(* elsewhere, a lost answer, answers that overtook each other, and a screen *)
(* built anew while a switch of the old one waits: it never hears of it.    *)
SwitchesShowTheSettings ==
    (/\ sends = <<>> /\ settingsScreen # NoScreen
     /\ ~(pageRecord.elsewhere \/ pageRecord.lost \/ pageRecord.crossed \/ pageRecord.rebuilt)) =>
        \A s \in Switches : settingsScreen.boxes[s].checked = prefs[s]

(* "The second press is the one that erases": no vault is destroyed without *)
(* the question asked since its phrase was last completed.                  *)
ErasingIsAskedFor == \A k \in DOMAIN sends : sends[k].type = "destroy" => sends[k].asked

(* Neither answer to the question of the two vaults loses both: each is     *)
(* somewhere, unless the other was chosen.                                  *)
OneVaultSurvives ==
    /\ localVault # "none" \/ pageRecord.destroyed
    /\ "ours" \notin {localVault, remoteVault} => pageRecord.adopted \/ pageRecord.destroyed

(* With nothing under way and no question open, no control waits.           *)
NothingStaysDead ==
    (sends = <<>> /\ settingsScreen # NoScreen /\ settingsScreen.dialog = "none") =>
        /\ settingsScreen.pressed = {} /\ ~settingsScreen.replacing /\ ~settingsScreen.deciding
        /\ settingsScreen.typed => settingsScreen.erasable
        /\ \A s \in Switches : ~settingsScreen.boxes[s].busy

SettingsPageHolds ==
    SwitchesShowTheSettings /\ ErasingIsAskedFor /\ OneVaultSurvives /\ NothingStaysDead
==============================================================================
