----------------------------- MODULE FocusWatch -----------------------------
(***************************************************************************)
(* "Lock when this window loses focus" (background/autolock.ts with        *)
(* shared/focus-beacon.ts): the worker samples where the focus is, and     *)
(* the pages of the extension say whether it is in one of them, since      *)
(* Chrome knows no window for the popup.                                   *)
(*                                                                         *)
(* A sample is asynchronous: what runs between two awaits is one step.     *)
(* Assumed: what is on a port when the settle begins, and the answers to   *)
(* the pings, arrive before it ends (BLUR_SETTLE_MS); a connect that finds *)
(* no worker is left out (it follows a reload of the extension, which      *)
(* locks).                                                                 *)
(***************************************************************************)
EXTENDS Integers, Sequences, FiniteSets

CONSTANTS
    Windows,
    Tab,            \* a page of the extension in a tab of HomeOfTab
    HomeOfTab,
    Popup,          \* the page of the toolbar button
    Away,           \* another program, or a minimised browser
    MaxMoves        \* bound: moves of the user and deaths of the worker

VARIABLES
    user,           \* where the keyboard focus is
    lastWindow,     \* getLastFocused()
    port,           \* pages whose beacon has a port
    toWorker,       \* what each page has sent and the worker has not received
    pinged,         \* pages with a ping on its way to them
    beacons,        \* the worker's variables
    focusedPages,
    sample,         \* where sampleFocus() is, or "none"
    session,        \* unlocked, focusHolder, settings.lockOnBrowserBlur
    verdict,        \* history: how the last sample ended
    seen,           \* history: what the user did during the sample
    moves

focusWatch == <<user, lastWindow, port, toWorker, pinged, beacons, focusedPages,
                sample, session, verdict, seen, moves>>

BeaconPages == {Tab, Popup}
Nowhere == "no window"      \* none is focused, or no holder was recorded

ASSUME FocusWatchAssumption ==
    Tab # Popup /\ BeaconPages \cap Windows = {} /\ Nowhere \notin Windows

FocusedWindow == CASE user \in Windows -> user
                   [] user = Tab -> HomeOfTab
                   [] OTHER -> Nowhere

(* Somebody is where the setting lets them be.                             *)
IsThere(at, holder) ==
    \/ at \in BeaconPages
    \/ at \in Windows /\ (holder = Nowhere \/ holder = at)

FocusWatchInit ==
    /\ user \in Windows
    /\ lastWindow = user
    /\ port = {Tab}
    /\ toWorker = [p \in BeaconPages |-> <<>>]
    /\ pinged = {}
    /\ beacons = {Tab}
    /\ focusedPages = {}
    /\ sample = "none"
    /\ session = [unlocked |-> TRUE, holder |-> user, on |-> TRUE]
    /\ verdict = "none"
    /\ seen = [present |-> FALSE, left |-> FALSE, moves |-> 0]
    /\ moves = 0

Witnessed(at) ==
    [present |-> seen.present \/ IsThere(at, session.holder),
     left |-> seen.left \/ ~IsThere(at, session.holder), moves |-> seen.moves]

-----------------------------------------------------------------------------
(* The pages: startFocusBeacon() *)

(* document.hasFocus()                                                     *)
Report(p, at) == IF at = p THEN "focused" ELSE "blurred"

(* report(): a page without a port connects if it has the focus.           *)
Reported(wire, p, at) ==
    IF p \in port THEN Append(wire[p], Report(p, at))
    ELSE IF at = p THEN <<"connect", "focused">>
    ELSE wire[p]

(* The focus moves.  A minimised window fires no blur in its page (what    *)
(* the page said before that has arrived); the popup closes when it loses  *)
(* the focus.                                                              *)
FocusMoves ==
    /\ moves < MaxMoves
    /\ moves' = moves + 1
    /\ \E at \in (Windows \cup BeaconPages \cup {Away}) \ {user}, silent \in BOOLEAN :
        LET told == {p \in BeaconPages : p = at \/ (p = user /\ ~(silent /\ p = Tab))}
        IN  /\ silent => user = Tab /\ toWorker[Tab] = <<>>
            /\ user' = at
            /\ lastWindow' = CASE at \in Windows -> at
                               [] at = Tab -> HomeOfTab
                               [] OTHER -> lastWindow
            /\ toWorker' = [p \in BeaconPages |->
                    IF p = Popup /\ user = Popup THEN Append(toWorker[p], "gone")
                    ELSE IF p \in told
                      THEN IF p = Popup THEN toWorker[p] \o <<"connect", "focused">>
                           ELSE Reported(toWorker, p, at)
                    ELSE toWorker[p]]
            /\ port' = (port \ {Popup}) \cup (BeaconPages \cap {at})
            /\ pinged' = IF user = Popup THEN pinged \ {Popup} ELSE pinged
            /\ seen' = [Witnessed(at) EXCEPT !.moves = @ + 1]
    /\ UNCHANGED <<beacons, focusedPages, sample, session, verdict>>

(* The worker asked again: report().                                       *)
Answers(p) ==
    /\ p \in pinged
    /\ pinged' = pinged \ {p}
    /\ toWorker' = [toWorker EXCEPT ![p] = Append(@, Report(p, user))]
    /\ UNCHANGED <<user, lastWindow, port, beacons, focusedPages, sample, session,
                   verdict, seen, moves>>

(* MV3 stops the worker: every port drops, and the page that has the focus *)
(* connects to a new one.                                                  *)
BeaconWorkerDies ==
    /\ moves < MaxMoves
    /\ moves' = moves + 1
    /\ beacons' = {}
    /\ focusedPages' = {}
    /\ sample' = "none"
    /\ verdict' = "none"
    /\ pinged' = {}
    /\ port' = port \cap {user}
    /\ toWorker' = [p \in BeaconPages |->
                      IF p \in port /\ p = user THEN <<"connect", "focused">> ELSE <<>>]
    /\ UNCHANGED <<user, lastWindow, session, seen>>

-----------------------------------------------------------------------------
(* The worker *)

(* sampleFocus() begins, unless one is under way.                          *)
Sampled == IF sample = "none" THEN "asked" ELSE sample

(* trackFocusBeacon()                                                      *)
BeaconHears(p) ==
    /\ toWorker[p] # <<>>
    /\ toWorker' = [toWorker EXCEPT ![p] = Tail(@)]
    /\ LET m == Head(toWorker[p])
           dropped == m \in {"blurred", "gone"} /\ p \in focusedPages
       IN  /\ beacons' = CASE m = "connect" -> beacons \cup {p}
                           [] m = "gone" -> beacons \ {p}
                           [] OTHER -> beacons
           /\ focusedPages' = CASE m = "focused" -> focusedPages \cup {p}
                                [] m = "connect" -> focusedPages
                                [] OTHER -> focusedPages \ {p}
           /\ sample' = IF dropped THEN Sampled ELSE sample
    /\ UNCHANGED <<user, lastWindow, port, pinged, session, verdict, seen, moves>>

(* onFocusChanged, which Chrome fires as it pleases; the watch alarm.      *)
Triggered ==
    /\ sample = "none"
    /\ sample' = Sampled
    /\ UNCHANGED <<user, lastWindow, port, toWorker, pinged, beacons, focusedPages,
                   session, verdict, seen, moves>>

SampleEnds(how) ==
    /\ sample' = "none"
    /\ verdict' = how

(* windowStillOurs(): adopts a holder if none was recorded.                *)
StillOurs ==
    /\ FocusedWindow # Nowhere
    /\ session.holder = Nowhere \/ session.holder = FocusedWindow

Adopted == IF FocusedWindow # Nowhere /\ session.holder = Nowhere
             THEN [session EXCEPT !.holder = FocusedWindow] ELSE session

RefreshNothing ==                     (* Bug: old claims are trusted        *)
    UNCHANGED <<focusedPages, pinged>>

(* refreshClaims()                                                         *)
RefreshClaims ==
    /\ focusedPages' = {}
    /\ pinged' = pinged \cup (beacons \cap port)

(* settings(), unlocked(), windowStillOurs(), refreshClaims().             *)
FirstLook ==
    /\ sample = "asked"
    /\ seen' = [present |-> IsThere(user, session.holder),
                left |-> ~IsThere(user, session.holder), moves |-> 0]
    /\ \/ /\ ~session.on \/ ~session.unlocked
          /\ SampleEnds("none")
          /\ UNCHANGED <<session, pinged, focusedPages>>
       \/ /\ session.on /\ session.unlocked /\ StillOurs
          /\ session' = Adopted
          /\ SampleEnds("kept")
          /\ UNCHANGED <<pinged, focusedPages>>
       \/ /\ session.on /\ session.unlocked /\ ~StillOurs
          /\ sample' = "settling"
          /\ verdict' = "none"
          /\ RefreshClaims
          /\ UNCHANGED session
    /\ UNCHANGED <<user, lastWindow, port, toWorker, beacons, moves>>

(* settle() has passed: what was on the way has arrived.                   *)
Settled ==
    /\ sample = "settling"
    /\ pinged = {} /\ \A p \in BeaconPages : toWorker[p] = <<>>
    /\ IF focusedPages # {} THEN SampleEnds("kept")
       ELSE sample' = "looking" /\ UNCHANGED verdict
    /\ UNCHANGED <<user, lastWindow, port, toWorker, pinged, beacons, focusedPages,
                   session, seen, moves>>

SecondLook ==
    /\ sample = "looking"
    /\ IF StillOurs THEN SampleEnds("kept") ELSE sample' = "locking" /\ UNCHANGED verdict
    /\ session' = Adopted
    /\ UNCHANGED <<user, lastWindow, port, toWorker, pinged, beacons, focusedPages,
                   seen, moves>>

(* unlocked() once more, and lock('blur').                                 *)
BlurLocks ==
    /\ sample = "locking"
    /\ SampleEnds(IF session.unlocked THEN "locked" ELSE "none")
    /\ session' = [session EXCEPT !.unlocked = FALSE]
    /\ UNCHANGED <<user, lastWindow, port, toWorker, pinged, beacons, focusedPages,
                   seen, moves>>

(* What else happens to the session: another lock, an unlock in the popup  *)
(* (owningWindowId()), the setting.                                        *)
SessionChanges ==
    /\ moves < MaxMoves
    /\ moves' = moves + 1
    /\ verdict' = "none"
    /\ \/ session' = [session EXCEPT !.unlocked = FALSE]
       \/ user = Popup /\ ~session.unlocked
          /\ \E holder \in {lastWindow, Nowhere} :
                session' = [session EXCEPT !.unlocked = TRUE, !.holder = holder]
       \/ session' = [session EXCEPT !.on = ~@]
    /\ session' # session
    /\ seen' = [seen EXCEPT !.moves = 2]
    /\ UNCHANGED <<user, lastWindow, port, toWorker, pinged, beacons, focusedPages, sample>>

FocusWatchNext ==
    \/ FocusMoves \/ BeaconWorkerDies \/ Triggered \/ SessionChanges
    \/ FirstLook \/ Settled \/ SecondLook \/ BlurLocks
    \/ \E p \in BeaconPages : Answers(p) \/ BeaconHears(p)

FocusWatchSpec == FocusWatchInit /\ [][FocusWatchNext]_focusWatch

-----------------------------------------------------------------------------
(* A sample tells the truth: it leaves the vault open only if the user was *)
(* in the session's window or in a page of the extension at some moment of *)
(* it, and it locks only if the user had left - whatever claims a page     *)
(* made, forgot to withdraw or had on its way.  (Somebody who opens the    *)
(* popup a second time while a sample is ending can be taken for gone:     *)
(* two moves in one sample are not judged.)                                *)
SamplesTellTheTruth ==
    /\ verdict = "kept" => seen.present
    /\ verdict = "locked" => seen.left \/ seen.moves > 1
=============================================================================
