----------------------------- MODULE Onboarding ------------------------------
(***************************************************************************)
(* The first run: the wizard (src/manager/onboarding/screen.ts, steps.ts), *)
(* the form that creates the vault (ui/create-form.ts), the record of how  *)
(* far the wizard came (background/session.ts, storage/local.ts) and       *)
(* Chrome's "Allow in Incognito" (background/incognito.ts).                *)
(*                                                                         *)
(* A password is weak or strong.  The phrase and the second field of the   *)
(* form are one flag: the form is ready.  Opening the page reads the       *)
(* record and the state in one step.  Left out: the texts, the table of    *)
(* the sync tiers and the offer to clear history (module History).         *)
(***************************************************************************)
EXTENDS Naturals, Sequences, SequencesExt

CONSTANTS Tabs,           \* tabs with the wizard
          Shut,           \* no wizard, no vault, no answer yet
          MaxGestures,    \* bound: what the user does besides going on
          MaxAsks         \* bound: requests and updates under way when the user goes on

ASSUME OnboardingAssumption ==
    /\ {MaxGestures, MaxAsks} \subseteq Nat
    /\ Shut \notin {"weak", "strong"} /\ Shut \notin BOOLEAN

VARIABLES made, toggle, access, stored, stamping, wizard, asks, gestures, past

onboarding == <<made, toggle, access, stored, stamping, wizard, asks, gestures, past>>

(***************************** steps.ts ************************************)

OnboardingSteps == <<"intro", "password", "sync", "chrome", "incognito">>
LastStep == Len(OnboardingSteps) - 1
PasswordStep == 1

StepAt(index) == OnboardingSteps[(IF index > LastStep THEN LastStep ELSE index) + 1]

CanAdvance(progress) ==
    CASE StepAt(progress.step) = "password" -> progress.exists
      [] StepAt(progress.step) = "incognito" -> progress.allowed \/ progress.skipped
      [] OTHER -> TRUE

NextStep(progress) ==
    IF CanAdvance(progress) /\ progress.step < LastStep THEN progress.step + 1 ELSE progress.step

BackStep(progress) == IF progress.step = 0 THEN 0 ELSE progress.step - 1

ResumeStep(record, exists) ==
    LET clamped == IF record.step > LastStep THEN LastStep ELSE record.step
    IN IF record.completed THEN Shut
       ELSE IF exists \/ clamped < PasswordStep THEN clamped ELSE PasswordStep

(***************************** the form ************************************)

EmptyForm == [typed |-> "", ready |-> FALSE, acceptable |-> FALSE, warned |-> FALSE, estimating |-> FALSE,
              busy |-> FALSE]

CanSubmit(form) == form.typed # "" /\ form.ready /\ ~form.busy

(* What the form is left with when the estimate of what is typed arrives. *)
Estimated(form) ==
    [form EXCEPT !.estimating = FALSE, !.acceptable = (form.typed = "strong"),
                 !.warned = @ /\ form.typed # "strong"]

(***************************** the tab *************************************)

Request(op) == [op |-> op, answer |-> Shut, mine |-> TRUE, password |-> Shut]

Waiting(t, op) == Append(asks[t], Request(op))

(* paint() renders the step anew: a form that was on the screen is gone. *)
Repainted(w) ==
    [w EXCEPT !.screen = StepAt(w.step),
              !.form = IF StepAt(w.step) = "password" /\ ~w.exists THEN EmptyForm ELSE Shut]

(* A request of the form that was replaced answers to nobody. *)
Orphaned(waiting) == [k \in DOMAIN waiting |-> [waiting[k] EXCEPT !.mine = @ /\ waiting[k].op # "create"]]

Shows(t, w) == wizard' = [wizard EXCEPT ![t] = w]

Closes(t) ==
    /\ wizard' = [wizard EXCEPT ![t] = Shut]
    /\ asks' = [asks EXCEPT ![t] = <<>>]

Stamp(patch) == [patch |-> patch, read |-> Shut]

PatchOfStep(step) == [completed |-> "same", step |-> step, skipped |-> FALSE]
PatchOfSkip == [completed |-> "same", step |-> Shut, skipped |-> TRUE]
PatchOfCompletion(done) == [completed |-> done, step |-> IF done = "no" THEN 0 ELSE Shut, skipped |-> FALSE]

(* goTo(): the step is taken at once, stored without waiting, and refreshed. *)
GoesTo(t, w, step, waiting) ==
    IF step = w.step
    THEN Shows(t, w) /\ asks' = [asks EXCEPT ![t] = waiting] /\ UNCHANGED stamping
    ELSE /\ Shows(t, [w EXCEPT !.step = step])
         /\ stamping' = Append(stamping, Stamp(PatchOfStep(step)))
         /\ asks' = [asks EXCEPT ![t] = Append(waiting, Request("state"))]

(* advance(): the gate, the end of the flow, or the next step. *)
Advances(t, w, waiting) ==
    IF CanAdvance(w) /\ w.step >= LastStep
    THEN /\ stamping' = Append(stamping, Stamp(PatchOfCompletion("yes")))
         /\ asks' = [asks EXCEPT ![t] = Append(waiting, Request("finish"))]
         /\ Shows(t, w)
    ELSE GoesTo(t, w, NextStep(w), waiting)

OnboardingInit ==
    /\ made = Shut
    /\ toggle = FALSE
    /\ access = Shut
    /\ stored = [completed |-> FALSE, step |-> 0, skipped |-> FALSE]
    /\ stamping = <<>>
    /\ wizard = [t \in Tabs |-> Shut]
    /\ asks = [t \in Tabs |-> <<>>]
    /\ gestures = 0
    /\ past = [destroyed |-> FALSE, chosen |-> FALSE, warned |-> FALSE, hasty |-> FALSE, finished |-> FALSE,
               crossed |-> FALSE]

Gesture == gestures < MaxGestures /\ gestures' = gestures + 1

Attends(t) == wizard[t] # Shut /\ Len(asks[t]) + Len(stamping) < MaxAsks

GestureIn(t) == Gesture /\ Attends(t)

(***************************** the user ************************************)

OpensWizard(t) ==
    /\ Gesture
    /\ wizard[t] = Shut
    /\ ResumeStep(stored, made # Shut) # Shut
    /\ Shows(t, [step |-> ResumeStep(stored, made # Shut), exists |-> made # Shut, allowed |-> FALSE,
                 skipped |-> stored.skipped, screen |-> "loading", form |-> Shut])
    /\ asks' = [asks EXCEPT ![t] = <<Request("state")>>]
    /\ UNCHANGED <<made, toggle, access, stored, stamping, past>>

PressesBack(t) ==
    /\ GestureIn(t)
    /\ wizard[t].screen # "loading" /\ wizard[t].step # 0
    /\ GoesTo(t, wizard[t], BackStep(wizard[t]), asks[t])
    /\ UNCHANGED <<made, toggle, access, stored, past>>

PressesNext(t) ==
    /\ Attends(t)
    /\ Advances(t, wizard[t], asks[t])
    /\ UNCHANGED <<made, toggle, access, stored, gestures, past>>

TypesNewPassword(t, strength) ==
    /\ GestureIn(t)
    /\ wizard[t].form # Shut
    /\ Shows(t, [wizard[t] EXCEPT !.form.typed = strength, !.form.ready = TRUE, !.form.estimating = TRUE,
                                  !.form.busy = FALSE])
    /\ UNCHANGED <<made, toggle, access, stored, stamping, asks, past>>

(* submitCreate(): a password below "good" is asked about once. *)
Submits(t) ==
    /\ Attends(t)
    /\ wizard[t].form # Shut /\ CanSubmit(wizard[t].form)
    /\ IF ~wizard[t].form.acceptable /\ ~wizard[t].form.warned
       THEN /\ Shows(t, [wizard[t] EXCEPT !.form.warned = TRUE])
            /\ past' = [past EXCEPT !.warned = TRUE]
            /\ UNCHANGED asks
       ELSE /\ Shows(t, [wizard[t] EXCEPT !.form.busy = TRUE])
            /\ asks' = [asks EXCEPT ![t] = Append(asks[t], [Request("create") EXCEPT !.password = wizard[t].form.typed])]
            /\ past' = [past EXCEPT !.hasty = @ \/ wizard[t].form.estimating]
    /\ UNCHANGED <<made, toggle, access, stored, gestures, stamping>>

PressesSkip(t) ==
    /\ Attends(t)
    /\ wizard[t].screen = "incognito" /\ ~wizard[t].allowed
    /\ Shows(t, [wizard[t] EXCEPT !.skipped = TRUE])
    /\ stamping' = Append(stamping, Stamp(PatchOfSkip))
    /\ asks' = [asks EXCEPT ![t] = Waiting(t, "skip")]
    /\ past' = [past EXCEPT !.chosen = TRUE]
    /\ UNCHANGED <<made, toggle, access, stored, gestures>>

Rechecks(t) ==
    /\ GestureIn(t)
    /\ wizard[t].screen = "incognito"
    /\ asks' = [asks EXCEPT ![t] = Waiting(t, "recheck")]
    /\ UNCHANGED <<made, toggle, access, stored, stamping, wizard, past>>

ClosesTab(t) ==
    /\ Gesture
    /\ wizard[t] # Shut
    /\ Closes(t)
    /\ UNCHANGED <<made, toggle, access, stored, stamping, past>>

(* Replay onboarding, in Settings. *)
Replays ==
    /\ Gesture
    /\ stored.completed
    /\ stamping' = Append(stamping, Stamp(PatchOfCompletion("no")))
    /\ UNCHANGED <<made, toggle, access, stored, wizard, asks, past>>

(* Another page of the extension creates the vault, or destroys it. *)
CreatesElsewhere ==
    /\ Gesture
    /\ made = Shut /\ made' = "strong"
    /\ UNCHANGED <<toggle, access, stored, stamping, wizard, asks, past>>

DestroysElsewhere ==
    /\ Gesture
    /\ made # Shut /\ made' = Shut
    /\ access' = Shut
    /\ past' = [past EXCEPT !.destroyed = TRUE]
    /\ UNCHANGED <<toggle, stored, stamping, wizard, asks>>

(* The tick reloads the extension: every page and the worker are gone. *)
TicksIncognito ==
    /\ Gesture
    /\ ~toggle /\ toggle' = TRUE
    /\ access' = Shut
    /\ stamping' = <<>>
    /\ wizard' = [t \in Tabs |-> Shut]
    /\ asks' = [t \in Tabs |-> <<>>]
    /\ past' = [past EXCEPT !.chosen = TRUE]
    /\ UNCHANGED <<made, stored>>

(***************************** the worker **********************************)

(* updateOnboarding(): the record is read ... *)
ReadsRecord(k) ==
    /\ stamping[k].read = Shut
    /\ stamping' = [stamping EXCEPT ![k].read = stored]
    /\ UNCHANGED <<made, toggle, access, stored, wizard, asks, gestures, past>>

PatchedForgetful(current, patch) ==                        \* Bug: a patch that does not name it clears it
    [completed |-> patch.completed = "yes",
     step |-> IF patch.step # Shut THEN patch.step ELSE current.step,
     skipped |-> patch.skipped \/ current.skipped]

PatchedOnboarding(current, patch) ==
    [completed |-> IF patch.completed = "same" THEN current.completed ELSE patch.completed = "yes",
     step |-> IF patch.step # Shut THEN patch.step ELSE current.step,
     skipped |-> patch.skipped \/ current.skipped]

(* ... and written, over what others wrote since. *)
WritesRecord(k) ==
    /\ stamping[k].read # Shut
    /\ stored' = PatchedOnboarding(stamping[k].read, stamping[k].patch)
    /\ stamping' = RemoveAt(stamping, k)
    /\ past' = [past EXCEPT !.crossed = @ \/ stamping[k].read # stored,
                            !.finished = IF stamping[k].patch.completed = "same" THEN @
                                         ELSE stamping[k].patch.completed = "yes"]
    /\ UNCHANGED <<made, toggle, access, wizard, asks, gestures>>

(* handleRequest(): SET_ONBOARDING is answered once its record is written. *)
AnswersAsk(t, k) ==
    LET ask == asks[t][k]
        Says(answer) == asks' = [asks EXCEPT ![t][k].answer = answer]
        Written(test(_)) == \A n \in DOMAIN stamping : ~test(stamping[n].patch)
    IN /\ ask.answer = Shut
       /\ \/ ask.op = "state" /\ Says(made # Shut) /\ UNCHANGED <<made, access>>
          \/ /\ ask.op = "access"
             /\ access' = (IF access # Shut THEN access ELSE toggle)
             /\ Says(access') /\ UNCHANGED made
          \/ ask.op = "recheck" /\ access' = toggle /\ Says(toggle) /\ UNCHANGED made
          \/ /\ ask.op = "create"
             /\ made' = (IF made = Shut THEN ask.password ELSE made)
             /\ Says(made = Shut) /\ UNCHANGED access
          \/ /\ ask.op = "skip" /\ Written(LAMBDA p : p.skipped)
             /\ Says(TRUE) /\ UNCHANGED <<made, access>>
          \/ /\ ask.op = "finish" /\ Written(LAMBDA p : p.completed = "yes")
             /\ Says(TRUE) /\ UNCHANGED <<made, access>>
       /\ UNCHANGED <<toggle, stored, stamping, wizard, gestures, past>>

(***************************** answers *************************************)

StateAnswered(t, k) ==
    /\ asks[t][k].op = "state" /\ asks[t][k].answer # Shut
    /\ Shows(t, [wizard[t] EXCEPT !.exists = asks[t][k].answer])
    /\ asks' = [asks EXCEPT ![t][k] = Request("access")]
    /\ UNCHANGED <<made, toggle, access, stored, stamping, gestures, past>>

(* The answer of "access" ends a refresh, that of "recheck" a button: both paint. *)
AccessAnswered(t, k) ==
    /\ asks[t][k].op \in {"access", "recheck"} /\ asks[t][k].answer # Shut
    /\ Shows(t, Repainted([wizard[t] EXCEPT !.allowed = asks[t][k].answer]))
    /\ asks' = [asks EXCEPT ![t] = Orphaned(RemoveAt(asks[t], k))]
    /\ UNCHANGED <<made, toggle, access, stored, stamping, gestures, past>>

(* onCreated() opens the gate and goes on; a failure is the form's to show. *)
CreateAnswered(t, k) ==
    LET rest == RemoveAt(asks[t], k)
        w == wizard[t]
    IN /\ asks[t][k].op = "create" /\ asks[t][k].answer # Shut
       /\ IF asks[t][k].answer
          THEN GoesTo(t, [w EXCEPT !.exists = TRUE], NextStep([w EXCEPT !.exists = TRUE]), rest)
          ELSE /\ Shows(t, IF asks[t][k].mine THEN [w EXCEPT !.form.busy = FALSE] ELSE w)
               /\ asks' = [asks EXCEPT ![t] = rest]
               /\ UNCHANGED stamping
       /\ UNCHANGED <<made, toggle, access, stored, gestures, past>>

SkipAnswered(t, k) ==
    /\ asks[t][k].op = "skip" /\ asks[t][k].answer # Shut
    /\ Advances(t, wizard[t], RemoveAt(asks[t], k))
    /\ UNCHANGED <<made, toggle, access, stored, gestures, past>>

(* onFinish() leaves for the manager. *)
FinishAnswered(t, k) ==
    /\ asks[t][k].op = "finish" /\ asks[t][k].answer # Shut
    /\ Closes(t)
    /\ UNCHANGED <<made, toggle, access, stored, stamping, gestures, past>>

(* refreshStrength(): the estimate of what is typed now; an older one is dropped. *)
EstimateArrives(t) ==
    /\ wizard[t] # Shut /\ wizard[t].form # Shut /\ wizard[t].form.estimating
    /\ Shows(t, [wizard[t] EXCEPT !.form = Estimated(@)])
    /\ UNCHANGED <<made, toggle, access, stored, stamping, asks, gestures, past>>

OnboardingNext ==
    \/ \E t \in Tabs :
        \/ OpensWizard(t) \/ PressesBack(t) \/ PressesNext(t) \/ Submits(t) \/ PressesSkip(t) \/ Rechecks(t)
        \/ ClosesTab(t) \/ EstimateArrives(t)
        \/ \E strength \in {"weak", "strong"} : TypesNewPassword(t, strength)
        \/ \E k \in DOMAIN asks[t] :
            \/ AnswersAsk(t, k) \/ StateAnswered(t, k) \/ AccessAnswered(t, k) \/ CreateAnswered(t, k)
            \/ SkipAnswered(t, k) \/ FinishAnswered(t, k)
    \/ Replays \/ CreatesElsewhere \/ DestroysElsewhere \/ TicksIncognito
    \/ \E k \in DOMAIN stamping : ReadsRecord(k) \/ WritesRecord(k)

OnboardingSpec == OnboardingInit /\ [][OnboardingNext]_onboarding

(***************************** properties **********************************)

(* "There is no code path from Next to step 3 that does not go through a   *)
(* real vault": nobody is past the password step, or done with the wizard, *)
(* before a vault was created.                                             *)
NothingBeforeTheVault ==
    made # Shut \/ past.destroyed
    \/ /\ \A t \in Tabs : wizard[t] # Shut => wizard[t].step <= PasswordStep
       /\ stored.step <= PasswordStep /\ ~stored.completed

(* The wizard is over only for someone who allowed private windows or      *)
(* chose to do without.                                                    *)
NothingUndecided == stored.completed => past.chosen

(* Below "good" the flow asks a second time: no vault has a weak password  *)
(* nobody was warned of, unless it was sent before its estimate arrived.   *)
WeakIsAskedAbout == made = "weak" => past.warned \/ past.hasty

(* "It never appears again": a finished wizard stays finished until it is  *)
(* replayed, unless two updates of its record crossed.                     *)
FinishedStays == past.finished /\ ~past.crossed => stored.completed

WizardKeepsItsGates == NothingBeforeTheVault /\ NothingUndecided /\ WeakIsAskedAbout /\ FinishedStays
==============================================================================
