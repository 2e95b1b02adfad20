----------------------------- MODULE PagesProofs ------------------------------
(* Pages of the extension and what they ask of the worker, which share no  *)
(* state, each for every value of its constants: the first-run wizard      *)
(* (Onboarding), a call on its way to its handler (Wire), the settings of  *)
(* every computer (SettingsSync) and the backup screen (Restoring).        *)
EXTENDS Onboarding, Wire, SettingsSync, Restoring, TLAPS, FiniteSetTheorems, SequenceTheorems, WellFoundedInduction

-----------------------------------------------------------------------------
(* Sequences                                                               *)

(* A sequence with one more element has that one and its own.              *)
LEMMA Appended ==
    ASSUME NEW S, NEW s \in Seq(S), NEW e \in S
    PROVE  /\ Append(s, e) \in Seq(S)
           /\ Append(s, e) # <<>>
           /\ \A k \in DOMAIN Append(s, e) :
                 Append(s, e)[k] = e \/ \E n \in DOMAIN s : Append(s, e)[k] = s[n]
  OBVIOUS

(* A sequence without one of its elements has only elements of its own.    *)
LEMMA Removed ==
    ASSUME NEW S, NEW s \in Seq(S), NEW i \in DOMAIN s
    PROVE  /\ RemoveAt(s, i) \in Seq(S)
           /\ \A k \in DOMAIN RemoveAt(s, i) : \E n \in DOMAIN s : RemoveAt(s, i)[k] = s[n]
  <1> DEFINE a == SubSeq(s, 1, i - 1)
             b == SubSeq(s, i + 1, Len(s))
  <1>1. i \in 1 .. Len(s) /\ Len(s) \in Nat
    OBVIOUS
  <1>2. a \in Seq(S) /\ Len(a) = i - 1 /\ \A k \in 1 .. (i - 1) : a[k] = s[k]
    BY <1>1
  <1>3. b \in Seq(S) /\ Len(b) = Len(s) - i /\ \A k \in 1 .. (Len(s) - i) : b[k] = s[i + k]
    BY <1>1
  <1>4. RemoveAt(s, i) = a \o b
    BY DEF RemoveAt
  <1> HIDE DEF a, b
  <1>5. a \o b \in Seq(S) /\ DOMAIN (a \o b) = 1 .. (Len(s) - 1)
    BY <1>1, <1>2, <1>3
  <1>6. ASSUME NEW k \in 1 .. (Len(s) - 1) PROVE \E n \in DOMAIN s : (a \o b)[k] = s[n]
    <2>1. CASE k <= i - 1
      BY <1>1, <1>2, <1>3, <2>1
    <2>2. CASE k > i - 1
      <3>1. (a \o b)[k] = b[k - (i - 1)] /\ k - (i - 1) \in 1 .. (Len(s) - i)
        BY <1>1, <1>2, <1>3, <2>2, SMTT(30)
      <3>2. b[k - (i - 1)] = s[i + (k - (i - 1))] /\ i + (k - (i - 1)) \in DOMAIN s
        BY <1>1, <1>3, <3>1, SMTT(30)
      <3> QED
        BY <3>1, <3>2
    <2>3. k <= i - 1 \/ k > i - 1
      BY <1>1
    <2> QED
      BY <2>1, <2>2, <2>3
  <1> QED
    BY <1>4, <1>5, <1>6

-----------------------------------------------------------------------------
(* The wizard                                                              *)

Strengths == {"weak", "strong"}
Steps == 0 .. 4

Forms ==
    [typed : Strengths \cup {""}, ready : BOOLEAN, acceptable : BOOLEAN, warned : BOOLEAN,
     estimating : BOOLEAN, busy : BOOLEAN]

Wizards ==
    [step : Steps, exists : BOOLEAN, allowed : BOOLEAN, skipped : BOOLEAN,
     screen : {"loading", "intro", "password", "sync", "chrome", "incognito"},
     form : Forms \cup {Shut}]

Requests ==
    [op : {"state", "access", "recheck", "create", "skip", "finish"},
     answer : BOOLEAN \cup {Shut}, mine : BOOLEAN, password : Strengths \cup {Shut}]

SetupRecords == [completed : BOOLEAN, step : Steps, skipped : BOOLEAN]

Stamps ==
    [patch : [completed : {"same", "yes", "no"}, step : Steps \cup {Shut}, skipped : BOOLEAN],
     read : SetupRecords \cup {Shut}]

Pasts ==
    [destroyed : BOOLEAN, chosen : BOOLEAN, warned : BOOLEAN, hasty : BOOLEAN,
     finished : BOOLEAN, crossed : BOOLEAN]

(* There has been no vault yet.                                            *)
Vaultless == made = Shut /\ ~past.destroyed

AskedOrHasty == past.warned \/ past.hasty

(* What a record of the wizard's progress, an update of it, a tab or an    *)
(* answer says of the vault and of the user's choice is so.                *)
RecordSound(rec) ==
    /\ Vaultless => rec.step <= PasswordStep /\ ~rec.completed
    /\ rec.completed \/ rec.skipped => past.chosen

StampSound(stamp) ==
    /\ stamp.read # Shut => RecordSound(stamp.read)
    /\ Vaultless => stamp.patch.completed # "yes"
    /\ Vaultless => stamp.patch.step = Shut \/ stamp.patch.step <= PasswordStep
    /\ stamp.patch.completed = "yes" \/ stamp.patch.skipped => past.chosen

FormSound(form) ==
    /\ form.acceptable => form.typed = "strong" \/ form.estimating
    /\ form.warned => past.warned

WizardSound(w) ==
    /\ Vaultless => w.step <= PasswordStep /\ ~w.exists
    /\ w.allowed \/ w.skipped => past.chosen
    /\ w.form # Shut => FormSound(w.form)

RequestSound(ask) ==
    /\ ask.op = "create" => ask.password \in Strengths
    /\ ask.op = "create" /\ ask.password = "weak" => AskedOrHasty
    /\ ask.op \in {"state", "create"} /\ Vaultless => ask.answer # TRUE
    /\ ask.op \in {"access", "recheck"} /\ ask.answer = TRUE => past.chosen

(* A tab without a wizard waits for nothing, and only the form on the      *)
(* screen is told what became of its request.                              *)
TabSound(w, waiting) ==
    /\ waiting # <<>> => w \in Wizards /\ WizardSound(w)
    /\ w # Shut => WizardSound(w)
    /\ \A k \in DOMAIN waiting :
        /\ RequestSound(waiting[k])
        /\ waiting[k].op = "create" /\ waiting[k].mine => w.form \in Forms /\ FormSound(w.form)

TabsSound ==
    /\ wizard \in [Tabs -> Wizards \cup {Shut}]
    /\ asks \in [Tabs -> Seq(Requests)]
    /\ \A t \in Tabs : TabSound(wizard[t], asks[t])

UpdatesSound ==
    /\ stamping \in Seq(Stamps)
    /\ \A k \in DOMAIN stamping : StampSound(stamping[k])

PastSound ==
    /\ made \in Strengths \cup {Shut} /\ stored \in SetupRecords /\ past \in Pasts
    /\ toggle \in BOOLEAN /\ access \in BOOLEAN \cup {Shut}
    /\ toggle \/ access = TRUE => past.chosen
    /\ RecordSound(stored)
    /\ WeakIsAskedAbout
    /\ FinishedStays

WizardInv == TabsSound /\ UpdatesSound /\ PastSound

LEMMA WizardInvImplies == WizardInv => WizardKeepsItsGates
  BY DEF WizardInv, WizardKeepsItsGates, NothingBeforeTheVault, NothingUndecided, TabsSound, PastSound,
         TabSound, WizardSound, RecordSound, Vaultless

LEMMA WizardInit == OnboardingInit => WizardInv
  <1> SUFFICES ASSUME OnboardingInit PROVE WizardInv
    OBVIOUS
  <1>1. stored \in SetupRecords /\ past \in Pasts /\ RecordSound(stored)
    BY DEF OnboardingInit, SetupRecords, Pasts, Steps, RecordSound, PasswordStep
  <1>2. made \in Strengths \cup {Shut} /\ access \in BOOLEAN \cup {Shut} /\ toggle \in BOOLEAN
    BY DEF OnboardingInit
  <1>3. ~toggle /\ access # TRUE /\ made # "weak" /\ ~past.finished
    BY OnboardingAssumption DEF OnboardingInit
  <1>4. UpdatesSound
    BY DEF OnboardingInit, UpdatesSound
  <1>5. TabsSound
    BY DEF OnboardingInit, TabsSound, TabSound
  <1> QED
    BY <1>1, <1>2, <1>3, <1>4, <1>5 DEF WizardInv, PastSound, WeakIsAskedAbout, FinishedStays

(* What was, was: once there has been a vault, a choice or a warning, there *)
(* has been one ever after.                                                *)
Onward ==
    /\ Vaultless' => Vaultless
    /\ past.chosen => past'.chosen
    /\ past.warned => past'.warned
    /\ AskedOrHasty => AskedOrHasty'

(* So what was sound stays sound.                                          *)
LEMMA SoundStays ==
    ASSUME Onward
    PROVE  /\ \A r : RecordSound(r) => RecordSound(r)'
           /\ \A s : StampSound(s) => StampSound(s)'
           /\ \A f : FormSound(f) => FormSound(f)'
           /\ \A w : WizardSound(w) => WizardSound(w)'
           /\ \A a : RequestSound(a) => RequestSound(a)'
           /\ \A w, waiting : TabSound(w, waiting) => TabSound(w, waiting)'
  <1>1. \A r : RecordSound(r) => RecordSound(r)'
    BY DEF Onward, RecordSound
  <1>2. \A s : StampSound(s) => StampSound(s)'
    BY <1>1 DEF Onward, StampSound
  <1>3. \A f : FormSound(f) => FormSound(f)'
    BY DEF Onward, FormSound
  <1>4. \A w : WizardSound(w) => WizardSound(w)'
    BY <1>3 DEF Onward, WizardSound
  <1>5. \A a : RequestSound(a) => RequestSound(a)'
    BY DEF Onward, RequestSound
  <1>6. \A w, waiting : TabSound(w, waiting) => TabSound(w, waiting)'
    BY <1>3, <1>4, <1>5 DEF TabSound
  <1> QED
    BY <1>1, <1>2, <1>3, <1>4, <1>5, <1>6

(* A step that touches neither the vault nor what is remembered of it.     *)
LEMMA PastStays ==
    ASSUME PastSound, UNCHANGED <<made, toggle, access, stored, past>>
    PROVE  PastSound' /\ Onward
  BY DEF PastSound, Onward, RecordSound, WeakIsAskedAbout, FinishedStays, Vaultless, AskedOrHasty

LEMMA TabsStay == TabsSound /\ Onward /\ UNCHANGED <<wizard, asks>> => TabsSound'
  <1> SUFFICES ASSUME TabsSound, Onward, UNCHANGED <<wizard, asks>>, NEW t \in Tabs
               PROVE  TabSound(wizard[t], asks[t])'
    BY DEF TabsSound
  <1>1. TabSound(wizard[t], asks[t]) /\ wizard'[t] = wizard[t] /\ asks'[t] = asks[t]
    BY DEF TabsSound
  <1> QED
    BY <1>1, SoundStays

LEMMA UpdatesStay == UpdatesSound /\ Onward /\ UNCHANGED stamping => UpdatesSound'
  <1> SUFFICES ASSUME UpdatesSound, Onward, UNCHANGED stamping, NEW k \in DOMAIN stamping
               PROVE  StampSound(stamping[k])'
    BY DEF UpdatesSound
  <1>1. StampSound(stamping[k]) /\ stamping'[k] = stamping[k]
    BY DEF UpdatesSound
  <1> QED
    BY <1>1, SoundStays

(* A step that changes one tab.                                            *)
LEMMA TabChanges ==
    ASSUME TabsSound, Onward, NEW t \in Tabs, NEW w \in Wizards \cup {Shut},
           NEW waiting \in Seq(Requests),
           wizard' = [wizard EXCEPT ![t] = w], asks' = [asks EXCEPT ![t] = waiting],
           TabSound(w, waiting)'
    PROVE  TabsSound'
  <1>1. wizard \in [Tabs -> Wizards \cup {Shut}] /\ asks \in [Tabs -> Seq(Requests)]
    BY DEF TabsSound
  <1>2. ASSUME NEW u \in Tabs PROVE TabSound(wizard[u], asks[u])'
    <2>1. CASE u = t
      BY <1>1, <2>1
    <2>2. CASE u # t
      <3>1. wizard'[u] = wizard[u] /\ asks'[u] = asks[u] /\ TabSound(wizard[u], asks[u])
        BY <1>1, <2>2 DEF TabsSound
      <3> QED
        BY <3>1, SoundStays
    <2> QED
      BY <2>1, <2>2
  <1> QED
    BY <1>1, <1>2 DEF TabsSound

LEMMA TabTurns ==
    ASSUME TabsSound, Onward, NEW t \in Tabs, NEW w \in Wizards \cup {Shut},
           NEW waiting \in Seq(Requests),
           wizard' = [wizard EXCEPT ![t] = w], asks' = [asks EXCEPT ![t] = waiting],
           TabSound(w, waiting)
    PROVE  TabsSound'
  BY SoundStays, TabChanges

(* A step that asks for one more update of the record.                     *)
LEMMA UpdateAsked ==
    ASSUME UpdatesSound, Onward, NEW stamp \in Stamps,
           stamping' = Append(stamping, stamp), StampSound(stamp)'
    PROVE  UpdatesSound'
  <1>1. /\ stamping' \in Seq(Stamps)
        /\ \A k \in DOMAIN stamping' :
              stamping'[k] = stamp \/ \E n \in DOMAIN stamping : stamping'[k] = stamping[n]
    BY Appended DEF UpdatesSound
  <1>2. \A n \in DOMAIN stamping : \A s : s = stamping[n] => StampSound(s)'
    BY SoundStays DEF UpdatesSound
  <1>3. \A s : s = stamp => StampSound(s)'
    OBVIOUS
  <1> QED
    BY <1>1, <1>2, <1>3 DEF UpdatesSound

(* A tab asks one thing more, or hears an answer.                          *)
LEMMA AsksMore ==
    ASSUME NEW w, NEW waiting \in Seq(Requests), TabSound(w, waiting), w \in Wizards, WizardSound(w),
           NEW ask \in Requests, RequestSound(ask),
           ask.op = "create" /\ ask.mine => w.form \in Forms /\ FormSound(w.form)
    PROVE  Append(waiting, ask) \in Seq(Requests) /\ TabSound(w, Append(waiting, ask))
  BY Appended DEF TabSound

LEMMA HearsOne ==
    ASSUME NEW w, NEW waiting \in Seq(Requests), TabSound(w, waiting), NEW k \in DOMAIN waiting
    PROVE  /\ RemoveAt(waiting, k) \in Seq(Requests) /\ TabSound(w, RemoveAt(waiting, k))
           /\ w \in Wizards /\ WizardSound(w) /\ waiting[k] \in Requests /\ RequestSound(waiting[k])
  <1>1. waiting # <<>> /\ waiting[k] \in Requests
    OBVIOUS
  <1>2. w \in Wizards /\ WizardSound(w) /\ RequestSound(waiting[k])
    BY <1>1 DEF TabSound
  <1>3. /\ RemoveAt(waiting, k) \in Seq(Requests)
        /\ \A j \in DOMAIN RemoveAt(waiting, k) : \E n \in DOMAIN waiting : RemoveAt(waiting, k)[j] = waiting[n]
    BY Removed
  <1>4. TabSound(w, RemoveAt(waiting, k))
    BY <1>2, <1>3 DEF TabSound
  <1> QED
    BY <1>1, <1>2, <1>3, <1>4

LEMMA FiveSteps ==
    /\ LastStep = 4
    /\ \A w \in Wizards :
        /\ w.step = 1 => (CanAdvance(w) <=> w.exists)
        /\ w.step = 4 => (CanAdvance(w) <=> w.allowed \/ w.skipped)
        /\ StepAt(w.step) \in {"loading", "intro", "password", "sync", "chrome", "incognito"}
  <1>1. LastStep = 4
    BY DEF LastStep, OnboardingSteps
  <1>2. ASSUME NEW w \in Wizards
        PROVE  /\ w.step = 1 => StepAt(w.step) = "password"
               /\ w.step = 4 => StepAt(w.step) = "incognito"
               /\ StepAt(w.step) \in {"loading", "intro", "password", "sync", "chrome", "incognito"}
    <2>1. w.step \in Steps
      BY DEF Wizards
    <2> QED
      BY <1>1, <2>1 DEF StepAt, OnboardingSteps, Steps
  <1> QED
    BY <1>1, <1>2 DEF CanAdvance

(* goTo(), from a tab whose gates are respected to a step that respects    *)
(* them.                                                                   *)
LEMMA GoesToSound ==
    ASSUME TabsSound, UpdatesSound, PastSound, UNCHANGED <<made, toggle, access, stored, past>>,
           NEW t \in Tabs, NEW w \in Wizards, WizardSound(w),
           NEW waiting \in Seq(Requests), TabSound(w, waiting),
           NEW step \in Steps, Vaultless => step <= PasswordStep,
           GoesTo(t, w, step, waiting)
    PROVE  TabsSound' /\ UpdatesSound'
  <1>1. Onward
    BY PastStays
  <1>2. CASE step = w.step
    <2>1. /\ wizard' = [wizard EXCEPT ![t] = w] /\ asks' = [asks EXCEPT ![t] = waiting]
          /\ UNCHANGED stamping
      BY <1>2 DEF GoesTo, Shows
    <2>2. TabSound(w, waiting)'
      BY <1>1, SoundStays
    <2> QED
      BY <1>1, <2>1, <2>2, TabChanges, UpdatesStay
  <1>3. CASE step # w.step
    <2> DEFINE next == [w EXCEPT !.step = step]
               stamp == Stamp(PatchOfStep(step))
               more == Append(waiting, Request("state"))
    <2>1. /\ wizard' = [wizard EXCEPT ![t] = next] /\ asks' = [asks EXCEPT ![t] = more]
          /\ stamping' = Append(stamping, stamp)
      BY <1>3 DEF GoesTo, Shows
    <2>2. /\ next \in Wizards /\ next.step = step /\ next.form = w.form
          /\ next.exists = w.exists /\ next.allowed = w.allowed /\ next.skipped = w.skipped
      BY DEF Wizards
    <2>3. Request("state") \in Requests /\ Request("state").op = "state" /\ Request("state").answer = Shut
      BY DEF Request, Requests
    <2>4. stamp \in Stamps /\ StampSound(stamp)
      BY DEF Stamp, PatchOfStep, Stamps, StampSound
    <2> HIDE DEF next, stamp
    <2>5. WizardSound(next) /\ TabSound(next, waiting)
      BY <2>2 DEF WizardSound, TabSound
    <2>6. RequestSound(Request("state"))
      BY <2>3, OnboardingAssumption DEF RequestSound
    <2>7. more \in Seq(Requests) /\ TabSound(next, more)
      BY <2>2, <2>3, <2>5, <2>6, AsksMore
    <2> HIDE DEF more
    <2>8. TabSound(next, more)' /\ StampSound(stamp)'
      BY <1>1, <2>4, <2>7, SoundStays
    <2> QED
      BY <1>1, <2>1, <2>2, <2>4, <2>7, <2>8, TabChanges, UpdateAsked
  <1> QED
    BY <1>2, <1>3

(* advance(): neither the next step nor the end is past a closed gate.     *)
LEMMA AdvancesSound ==
    ASSUME TabsSound, UpdatesSound, PastSound, UNCHANGED <<made, toggle, access, stored, past>>,
           NEW t \in Tabs, NEW w \in Wizards, WizardSound(w),
           NEW waiting \in Seq(Requests), TabSound(w, waiting),
           Advances(t, w, waiting)
    PROVE  TabsSound' /\ UpdatesSound'
  <1>1. Onward
    BY PastStays
  <1>2. CASE CanAdvance(w) /\ w.step >= LastStep
    <2> DEFINE stamp == Stamp(PatchOfCompletion("yes"))
               more == Append(waiting, Request("finish"))
    <2>1. /\ wizard' = [wizard EXCEPT ![t] = w] /\ asks' = [asks EXCEPT ![t] = more]
          /\ stamping' = Append(stamping, stamp)
      BY <1>2 DEF Advances, Shows
    <2>2. w.step = 4 /\ (w.allowed \/ w.skipped)
      BY <1>2, FiveSteps DEF Wizards, Steps
    <2>3. past.chosen /\ ~Vaultless
      BY <2>2 DEF WizardSound, PasswordStep
    <2>4. Request("finish") \in Requests /\ Request("finish").op = "finish"
      BY DEF Request, Requests
    <2>5. stamp \in Stamps /\ StampSound(stamp)
      BY <2>3 DEF Stamp, PatchOfCompletion, Stamps, StampSound
    <2>6. RequestSound(Request("finish"))
      BY <2>4 DEF RequestSound
    <2>7. more \in Seq(Requests) /\ TabSound(w, more)
      BY <2>4, <2>6, AsksMore
    <2> HIDE DEF stamp, more
    <2>8. TabSound(w, more)' /\ StampSound(stamp)'
      BY <1>1, <2>5, <2>7, SoundStays
    <2> QED
      BY <1>1, <2>1, <2>5, <2>7, <2>8, TabChanges, UpdateAsked
  <1>3. CASE ~(CanAdvance(w) /\ w.step >= LastStep)
    <2>1. w.step \in Steps
      BY DEF Wizards
    <2>2. NextStep(w) \in Steps
      BY <2>1, FiveSteps DEF NextStep, Steps
    <2>3. Vaultless => NextStep(w) <= PasswordStep
      BY <2>1, FiveSteps DEF NextStep, Steps, PasswordStep, WizardSound
    <2> QED
      BY <1>3, <2>2, <2>3, GoesToSound DEF Advances
  <1> QED
    BY <1>2, <1>3

(* The wizard of an open tab, and what the tab waits for.                  *)
LEMMA OpenTab ==
    ASSUME TabsSound, NEW t \in Tabs
    PROVE  /\ asks[t] \in Seq(Requests) /\ TabSound(wizard[t], asks[t])
           /\ wizard[t] # Shut => wizard[t] \in Wizards /\ WizardSound(wizard[t])
  BY DEF TabsSound, TabSound

LEMMA NavigatesSound ==
    ASSUME WizardInv, NEW t \in Tabs, OpensWizard(t) \/ PressesBack(t) \/ PressesNext(t) \/ ClosesTab(t)
    PROVE  WizardInv'
  <1>1. TabsSound /\ UpdatesSound /\ PastSound /\ UNCHANGED <<made, toggle, access, stored, past>>
    BY DEF WizardInv, OpensWizard, PressesBack, PressesNext, ClosesTab
  <1>2. PastSound' /\ Onward
    BY <1>1, PastStays
  <1>3. CASE OpensWizard(t)
    <2> DEFINE step == ResumeStep(stored, made # Shut)
               w == [step |-> step, exists |-> made # Shut, allowed |-> FALSE,
                     skipped |-> stored.skipped, screen |-> "loading", form |-> Shut]
               waiting == <<Request("state")>>
    <2>1. /\ wizard' = [wizard EXCEPT ![t] = w] /\ asks' = [asks EXCEPT ![t] = waiting]
          /\ UNCHANGED stamping /\ step # Shut
      BY <1>3 DEF OpensWizard, Shows
    <2>2. stored.step \in Steps /\ stored.skipped \in BOOLEAN /\ stored.completed \in BOOLEAN
      BY <1>1 DEF PastSound, SetupRecords
    <2>3. step \in Steps /\ (Vaultless => step <= PasswordStep)
      BY <2>1, <2>2, FiveSteps DEF ResumeStep, Steps, PasswordStep, Vaultless
    <2>4. w \in Wizards
      BY <2>2, <2>3 DEF Wizards
    <2>5. WizardSound(w)
      BY <1>1, <2>3 DEF WizardSound, PastSound, RecordSound, Vaultless
    <2>6. /\ waiting \in Seq(Requests)
          /\ \A k \in DOMAIN waiting : waiting[k].op = "state" /\ waiting[k].answer = Shut
      BY DEF Request, Requests
    <2> HIDE DEF w, waiting
    <2>7. TabSound(w, waiting)
      BY <2>4, <2>5, <2>6, OnboardingAssumption DEF TabSound, RequestSound
    <2> QED
      BY <1>1, <1>2, <2>1, <2>4, <2>6, <2>7, TabTurns, UpdatesStay DEF WizardInv
  <1>4. CASE PressesBack(t)
    <2>1. /\ GoesTo(t, wizard[t], BackStep(wizard[t]), asks[t])
          /\ wizard[t] \in Wizards /\ WizardSound(wizard[t])
          /\ asks[t] \in Seq(Requests) /\ TabSound(wizard[t], asks[t])
      BY <1>1, <1>4, OpenTab DEF PressesBack, GestureIn, Attends
    <2>2. BackStep(wizard[t]) \in Steps /\ (Vaultless => BackStep(wizard[t]) <= PasswordStep)
      BY <2>1 DEF Wizards, BackStep, Steps, WizardSound, PasswordStep
    <2> QED
      BY <1>1, <1>2, <2>1, <2>2, GoesToSound DEF WizardInv
  <1>5. CASE PressesNext(t)
    <2>1. /\ Advances(t, wizard[t], asks[t])
          /\ wizard[t] \in Wizards /\ WizardSound(wizard[t])
          /\ asks[t] \in Seq(Requests) /\ TabSound(wizard[t], asks[t])
      BY <1>1, <1>5, OpenTab DEF PressesNext, Attends
    <2> QED
      BY <1>1, <1>2, <2>1, AdvancesSound DEF WizardInv
  <1>6. CASE ClosesTab(t)
    <2>1. /\ wizard' = [wizard EXCEPT ![t] = Shut] /\ asks' = [asks EXCEPT ![t] = <<>>]
          /\ UNCHANGED stamping
      BY <1>6 DEF ClosesTab, Closes
    <2>2. TabSound(Shut, <<>>)'
      BY DEF TabSound
    <2>3. <<>> \in Seq(Requests)
      OBVIOUS
    <2> QED
      BY <1>1, <1>2, <2>1, <2>2, <2>3, TabChanges, UpdatesStay DEF WizardInv
  <1> QED
    BY <1>3, <1>4, <1>5, <1>6

(* The form, as far as it asks nothing yet.                                *)
LEMMA FormsSound ==
    ASSUME WizardInv, NEW t \in Tabs, NEW strength \in Strengths,
           TypesNewPassword(t, strength) \/ EstimateArrives(t) \/ Rechecks(t)
    PROVE  WizardInv'
  <1>1. /\ TabsSound /\ UpdatesSound /\ PastSound
        /\ UNCHANGED <<made, toggle, access, stored, past, stamping>>
    BY DEF WizardInv, TypesNewPassword, EstimateArrives, Rechecks
  <1>2. PastSound' /\ Onward
    BY <1>1, PastStays
  <1>3. /\ wizard[t] \in Wizards /\ WizardSound(wizard[t])
        /\ asks[t] \in Seq(Requests) /\ TabSound(wizard[t], asks[t])
    BY <1>1, OpenTab DEF TypesNewPassword, EstimateArrives, Rechecks, GestureIn, Attends
  <1>4. ASSUME NEW form \in Forms, FormSound(form), wizard[t].form # Shut, UNCHANGED asks,
               wizard' = [wizard EXCEPT ![t] = [wizard[t] EXCEPT !.form = form]]
        PROVE  WizardInv'
    <2> DEFINE w == [wizard[t] EXCEPT !.form = form]
    <2>1. /\ w \in Wizards /\ w.form = form /\ w.step = wizard[t].step /\ w.exists = wizard[t].exists
          /\ w.allowed = wizard[t].allowed /\ w.skipped = wizard[t].skipped
      BY <1>3 DEF Wizards
    <2>2. asks' = [asks EXCEPT ![t] = asks[t]]
      BY <1>1, <1>4 DEF TabsSound
    <2>3. wizard' = [wizard EXCEPT ![t] = w]
      BY <1>4
    <2> HIDE DEF w
    <2>4. WizardSound(w)
      BY <1>3, <1>4, <2>1 DEF WizardSound
    <2>5. TabSound(w, asks[t])
      BY <1>3, <1>4, <2>1, <2>4 DEF TabSound
    <2>8. TabsSound'
      BY <1>1, <1>2, <1>3, <2>1, <2>2, <2>3, <2>5, TabTurns
    <2> QED
      BY <1>1, <1>2, <2>8, UpdatesStay DEF WizardInv
  <1>5. wizard[t].form \in Forms \cup {Shut} /\ (wizard[t].form # Shut => FormSound(wizard[t].form))
    BY <1>3 DEF Wizards, WizardSound
  <1>6. CASE TypesNewPassword(t, strength)
    <2> DEFINE old == wizard[t].form
               form == [old EXCEPT !.typed = strength, !.ready = TRUE, !.estimating = TRUE, !.busy = FALSE]
    <2>1. /\ wizard[t].form # Shut /\ UNCHANGED asks
          /\ wizard' = [wizard EXCEPT ![t] = [wizard[t] EXCEPT !.form.typed = strength, !.form.ready = TRUE,
                                                  !.form.estimating = TRUE, !.form.busy = FALSE]]
      BY <1>6 DEF TypesNewPassword, Shows
    <2>2. old \in Forms /\ FormSound(old)
      BY <1>5, <2>1
    <2>3. [wizard[t] EXCEPT !.form.typed = strength, !.form.ready = TRUE,
                            !.form.estimating = TRUE, !.form.busy = FALSE]
            = [wizard[t] EXCEPT !.form = form]
      BY <1>3, <2>2 DEF Wizards, Forms
    <2>4. form \in Forms /\ form.estimating = TRUE /\ form.warned = old.warned
      BY <2>2 DEF Forms
    <2> HIDE DEF form
    <2>5. FormSound(form)
      BY <2>2, <2>4 DEF FormSound
    <2> QED
      BY <1>4, <2>1, <2>3, <2>4, <2>5
  <1>7. CASE EstimateArrives(t)
    <2> DEFINE form == Estimated(wizard[t].form)
    <2>1. /\ wizard[t].form # Shut /\ UNCHANGED asks
          /\ wizard' = [wizard EXCEPT ![t] = [wizard[t] EXCEPT !.form = form]]
      BY <1>3, <1>7 DEF EstimateArrives, Shows, Wizards
    <2>2. wizard[t].form \in Forms /\ FormSound(wizard[t].form)
      BY <1>5, <2>1
    <2>3. /\ form \in Forms
          /\ form.acceptable => form.typed = "strong"
          /\ form.warned => wizard[t].form.warned
      BY <2>2 DEF Forms, Estimated
    <2> HIDE DEF form
    <2>4. FormSound(form)
      BY <2>2, <2>3 DEF FormSound
    <2> QED
      BY <1>4, <2>1, <2>3, <2>4
  <1>8. CASE Rechecks(t)
    <2> DEFINE more == Append(asks[t], Request("recheck"))
    <2>1. asks' = [asks EXCEPT ![t] = more] /\ UNCHANGED wizard
      BY <1>8 DEF Rechecks, Waiting
    <2>2. Request("recheck") \in Requests /\ Request("recheck").op = "recheck" /\ Request("recheck").answer = Shut
      BY DEF Request, Requests
    <2>3. RequestSound(Request("recheck"))
      BY <2>2, OnboardingAssumption DEF RequestSound
    <2>4. more \in Seq(Requests) /\ TabSound(wizard[t], more)
      BY <1>3, <2>2, <2>3, AsksMore
    <2> HIDE DEF more
    <2>5. wizard' = [wizard EXCEPT ![t] = wizard[t]]
      BY <1>1, <2>1 DEF TabsSound
    <2> QED
      BY <1>1, <1>2, <1>3, <2>1, <2>4, <2>5, TabTurns, UpdatesStay DEF WizardInv
  <1> QED
    BY <1>6, <1>7, <1>8

(* The form is sent: a weak password only after a warning, or unread.      *)
LEMMA SubmitsSound == ASSUME WizardInv, NEW t \in Tabs, Submits(t) PROVE WizardInv'
  <1>1. /\ TabsSound /\ UpdatesSound /\ PastSound /\ past \in Pasts
        /\ UNCHANGED <<made, toggle, access, stored, stamping>>
    BY DEF WizardInv, PastSound, Submits
  <1>2. /\ wizard[t] \in Wizards /\ WizardSound(wizard[t])
        /\ asks[t] \in Seq(Requests) /\ TabSound(wizard[t], asks[t])
    BY <1>1, OpenTab DEF Submits, Attends
  <1>3. wizard[t].form \in Forms /\ FormSound(wizard[t].form) /\ wizard[t].form.typed \in Strengths
    BY <1>2 DEF Submits, Wizards, WizardSound, CanSubmit, Forms
  <1>4. ASSUME NEW form \in Forms, FormSound(form)', Onward,
               wizard' = [wizard EXCEPT ![t] = [wizard[t] EXCEPT !.form = form]],
               NEW waiting \in Seq(Requests), asks' = [asks EXCEPT ![t] = waiting],
               \A k \in DOMAIN waiting : RequestSound(waiting[k])'
        PROVE  TabsSound'
    <2>1. PICK w \in Wizards : w = [wizard[t] EXCEPT !.form = form]
      BY <1>2 DEF Wizards
    <2>2. /\ w.form = form /\ w.step = wizard[t].step /\ w.exists = wizard[t].exists
          /\ w.allowed = wizard[t].allowed /\ w.skipped = wizard[t].skipped
      BY <1>2, <2>1 DEF Wizards
    <2>3. WizardSound(w)'
      BY <1>2, <1>4, <2>2 DEF WizardSound, Onward
    <2>4. TabSound(w, waiting)'
      BY <1>4, <2>2, <2>3 DEF TabSound
    <2> QED
      BY <1>1, <1>4, <2>1, <2>4, TabChanges
  <1>5. \A n \in DOMAIN asks[t] : RequestSound(asks[t][n])
    BY <1>2 DEF TabSound
  <1>6. CASE ~wizard[t].form.acceptable /\ ~wizard[t].form.warned
    <2>1. /\ wizard' = [wizard EXCEPT ![t] = [wizard[t] EXCEPT !.form.warned = TRUE]]
          /\ past' = [past EXCEPT !.warned = TRUE] /\ UNCHANGED asks
      BY <1>6 DEF Submits, Shows
    <2>2. /\ past' \in Pasts /\ past'.warned = TRUE /\ past'.hasty = past.hasty
          /\ past'.chosen = past.chosen /\ past'.destroyed = past.destroyed
          /\ past'.finished = past.finished /\ past'.crossed = past.crossed
      BY <1>1, <2>1 DEF Pasts
    <2>3. Onward
      BY <1>1, <2>2 DEF Onward, Vaultless, AskedOrHasty
    <2>4. PastSound'
      BY <1>1, <2>2 DEF PastSound, RecordSound, WeakIsAskedAbout, FinishedStays, Vaultless
    <2>5. PICK form \in Forms : form = [wizard[t].form EXCEPT !.warned = TRUE]
      BY <1>3 DEF Forms
    <2>6. wizard' = [wizard EXCEPT ![t] = [wizard[t] EXCEPT !.form = form]]
      BY <1>2, <2>1, <2>5 DEF Wizards
    <2>7. FormSound(form)'
      BY <1>3, <2>2, <2>5 DEF FormSound, Forms
    <2>8. PICK waiting \in Seq(Requests) : waiting = asks[t]
      BY <1>2
    <2>9. asks' = [asks EXCEPT ![t] = waiting]
      BY <1>1, <2>1, <2>8 DEF TabsSound
    <2>10. \A k \in DOMAIN waiting : RequestSound(waiting[k])'
      BY <1>5, <2>3, <2>8, SoundStays
    <2> QED
      BY <1>1, <1>4, <2>1, <2>3, <2>4, <2>6, <2>7, <2>9, <2>10, UpdatesStay DEF WizardInv
  <1>7. CASE ~(~wizard[t].form.acceptable /\ ~wizard[t].form.warned)
    <2> DEFINE hasty == past.hasty \/ wizard[t].form.estimating
    <2>1. /\ wizard' = [wizard EXCEPT ![t] = [wizard[t] EXCEPT !.form.busy = TRUE]]
          /\ asks' = [asks EXCEPT ![t] = Append(asks[t], [Request("create") EXCEPT
                                                             !.password = wizard[t].form.typed])]
          /\ past' = [past EXCEPT !.hasty = hasty]
      BY <1>7 DEF Submits, Shows
    <2>2. hasty \in BOOLEAN
      BY <1>1, <1>3 DEF Pasts, Forms
    <2> HIDE DEF hasty
    <2>3. /\ past' \in Pasts /\ past'.hasty = hasty /\ past'.warned = past.warned
          /\ past'.chosen = past.chosen /\ past'.destroyed = past.destroyed
          /\ past'.finished = past.finished /\ past'.crossed = past.crossed
      BY <1>1, <2>1, <2>2 DEF Pasts
    <2>4. (past.hasty \/ wizard[t].form.estimating) => past'.hasty
      BY <2>3 DEF hasty
    <2>5. Onward
      BY <1>1, <2>3, <2>4 DEF Onward, Vaultless, AskedOrHasty
    <2>6. PastSound'
      BY <1>1, <2>3, <2>4 DEF PastSound, RecordSound, WeakIsAskedAbout, FinishedStays, Vaultless
    <2>7. PICK form \in Forms : form = [wizard[t].form EXCEPT !.busy = TRUE]
      BY <1>3 DEF Forms
    <2>8. wizard' = [wizard EXCEPT ![t] = [wizard[t] EXCEPT !.form = form]]
      BY <1>2, <2>1, <2>7 DEF Wizards
    <2>9. FormSound(form)'
      BY <1>3, <2>3, <2>7 DEF FormSound, Forms
    <2>10. Request("create") \in Requests /\ Request("create").op = "create" /\ Request("create").answer = Shut
      BY DEF Request, Requests
    <2>11. PICK ask \in Requests : ask = [Request("create") EXCEPT !.password = wizard[t].form.typed]
      BY <1>3, <2>10 DEF Requests
    <2>a. ask.op = "create" /\ ask.answer = Shut /\ ask.password = wizard[t].form.typed
      BY <2>10, <2>11 DEF Requests
    <2>12. wizard[t].form.typed = "weak" => past'.warned \/ past'.hasty
      BY <1>3, <1>7, <2>3, <2>4 DEF FormSound
    <2>13. RequestSound(ask)'
      BY <1>3, <2>a, <2>12, OnboardingAssumption DEF RequestSound, AskedOrHasty
    <2>14. PICK waiting \in Seq(Requests) : waiting = Append(asks[t], ask)
      BY <1>2, Appended
    <2>15. \A k \in DOMAIN waiting : waiting[k] = ask \/ \E n \in DOMAIN asks[t] : waiting[k] = asks[t][n]
      BY <1>2, <2>14, Appended
    <2>16. \A n \in DOMAIN asks[t] : \A r : r = asks[t][n] => RequestSound(r)'
      BY <1>5, <2>5, SoundStays
    <2>17. \A k \in DOMAIN waiting : RequestSound(waiting[k])'
      BY <2>13, <2>15, <2>16
    <2>18. asks' = [asks EXCEPT ![t] = waiting]
      BY <2>1, <2>11, <2>14
    <2> QED
      BY <1>1, <1>4, <2>5, <2>6, <2>8, <2>9, <2>17, <2>18, UpdatesStay DEF WizardInv
  <1> QED
    BY <1>6, <1>7

(* Doing without private windows is a choice, made here.                   *)
LEMMA SkipsSound == ASSUME WizardInv, NEW t \in Tabs, PressesSkip(t) PROVE WizardInv'
  <1>1. /\ TabsSound /\ UpdatesSound /\ PastSound /\ past \in Pasts
        /\ UNCHANGED <<made, toggle, access, stored>>
        /\ past' = [past EXCEPT !.chosen = TRUE]
        /\ stamping' = Append(stamping, Stamp(PatchOfSkip))
        /\ wizard' = [wizard EXCEPT ![t] = [wizard[t] EXCEPT !.skipped = TRUE]]
        /\ asks' = [asks EXCEPT ![t] = Append(asks[t], Request("skip"))]
    BY DEF WizardInv, PastSound, PressesSkip, Shows, Waiting
  <1>2. /\ wizard[t] \in Wizards /\ WizardSound(wizard[t])
        /\ asks[t] \in Seq(Requests) /\ TabSound(wizard[t], asks[t])
    BY <1>1, OpenTab DEF PressesSkip, Attends
  <1>3. /\ past' \in Pasts /\ past'.chosen = TRUE /\ past'.warned = past.warned /\ past'.hasty = past.hasty
        /\ past'.destroyed = past.destroyed
        /\ past'.finished = past.finished /\ past'.crossed = past.crossed
    BY <1>1 DEF Pasts
  <1>4. Onward
    BY <1>1, <1>3 DEF Onward, Vaultless, AskedOrHasty
  <1>5. PastSound'
    BY <1>1, <1>3 DEF PastSound, RecordSound, WeakIsAskedAbout, FinishedStays, Vaultless
  <1>6. PICK stamp \in Stamps : stamp = Stamp(PatchOfSkip)
    BY DEF Stamps, Stamp, PatchOfSkip
  <1>7. StampSound(stamp)'
    BY <1>3, <1>6 DEF StampSound, Stamp, PatchOfSkip
  <1>8. PICK w \in Wizards : w = [wizard[t] EXCEPT !.skipped = TRUE]
    BY <1>2 DEF Wizards
  <1>9. w.form = wizard[t].form /\ w.step = wizard[t].step /\ w.exists = wizard[t].exists
    BY <1>2, <1>8 DEF Wizards
  <1>10. PICK waiting \in Seq(Requests) : waiting = asks[t]
    BY <1>2
  <1>11. PICK v \in Wizards : v = wizard[t]
    BY <1>2
  <1>12. WizardSound(v)' /\ TabSound(v, waiting)'
    BY <1>2, <1>4, <1>10, <1>11, SoundStays
  <1>13. WizardSound(w)'
    BY <1>3, <1>9, <1>11, <1>12 DEF WizardSound
  <1>14. TabSound(w, waiting)'
    BY <1>9, <1>11, <1>12, <1>13 DEF TabSound
  <1>15. Request("skip") \in Requests /\ Request("skip").op = "skip"
    BY DEF Request, Requests
  <1>16. PICK more \in Seq(Requests) : more = Append(waiting, Request("skip"))
    BY <1>15, Appended
  <1>17. \A k \in DOMAIN more :
            more[k].op = "skip" \/ \E n \in DOMAIN waiting : more[k] = waiting[n]
    BY <1>15, <1>16, Appended
  <1>18. TabSound(w, more)'
    BY <1>13, <1>14, <1>17 DEF TabSound, RequestSound
  <1> QED
    BY <1>1, <1>4, <1>5, <1>6, <1>7, <1>8, <1>10, <1>16, <1>18, TabChanges, UpdateAsked DEF WizardInv

(* The vault comes and goes by other pages, and the tick box reloads all.  *)
LEMMA ElsewhereSound ==
    ASSUME WizardInv, Replays \/ CreatesElsewhere \/ DestroysElsewhere \/ TicksIncognito
    PROVE  WizardInv'
  <1>1. TabsSound /\ UpdatesSound /\ PastSound /\ past \in Pasts
    BY DEF WizardInv, PastSound
  <1>2. CASE Replays
    <2>1. /\ UNCHANGED <<made, toggle, access, stored, wizard, asks, past>>
          /\ stamping' = Append(stamping, Stamp(PatchOfCompletion("no")))
      BY <1>2 DEF Replays
    <2>2. PastSound' /\ Onward
      BY <1>1, <2>1, PastStays
    <2>3. PICK stamp \in Stamps : stamp = Stamp(PatchOfCompletion("no"))
      <3>1. 0 \in Steps
        BY DEF Steps
      <3>2. PatchOfCompletion("no") = [completed |-> "no", step |-> 0, skipped |-> FALSE]
        BY DEF PatchOfCompletion
      <3>3. PatchOfCompletion("no") \in [completed : {"same", "yes", "no"}, step : Steps \cup {Shut},
                                         skipped : BOOLEAN]
        <4>1. \A b \in BOOLEAN, c \in {"same", "yes", "no"}, n \in Steps \cup {Shut} :
                [completed |-> c, step |-> n, skipped |-> b]
                    \in [completed : {"same", "yes", "no"}, step : Steps \cup {Shut}, skipped : BOOLEAN]
          BY Zenon
        <4> QED
          BY <3>1, <3>2, <4>1, ZenonT(40)
      <3> QED
        BY <3>3, Zenon DEF Stamps, Stamp
    <2>4. StampSound(stamp)'
      BY <2>3 DEF StampSound, Stamp, PatchOfCompletion, PasswordStep
    <2> QED
      BY <1>1, <2>1, <2>2, <2>3, <2>4, TabsStay, UpdateAsked DEF WizardInv
  <1>3. CASE CreatesElsewhere
    <2>1. /\ made = Shut /\ made' = "strong"
          /\ UNCHANGED <<toggle, access, stored, stamping, wizard, asks, past>>
      BY <1>3 DEF CreatesElsewhere
    <2>2. Onward
      BY <2>1, OnboardingAssumption DEF Onward, Vaultless, AskedOrHasty
    <2>3. PastSound'
      BY <1>1, <2>1, <2>2, SoundStays, OnboardingAssumption
         DEF PastSound, RecordSound, WeakIsAskedAbout, FinishedStays, Strengths, Vaultless
    <2> QED
      BY <1>1, <2>1, <2>2, <2>3, TabsStay, UpdatesStay DEF WizardInv
  <1>4. CASE DestroysElsewhere
    <2>1. /\ made' = Shut /\ access' = Shut /\ past' = [past EXCEPT !.destroyed = TRUE]
          /\ UNCHANGED <<toggle, stored, stamping, wizard, asks>>
      BY <1>4 DEF DestroysElsewhere
    <2>2. /\ past' \in Pasts /\ past'.destroyed = TRUE /\ past'.warned = past.warned /\ past'.hasty = past.hasty
          /\ past'.chosen = past.chosen
          /\ past'.finished = past.finished /\ past'.crossed = past.crossed
      BY <1>1, <2>1 DEF Pasts
    <2>3. Onward
      BY <2>1, <2>2 DEF Onward, Vaultless, AskedOrHasty
    <2>4. PastSound'
      BY <1>1, <2>1, <2>2, OnboardingAssumption
         DEF PastSound, RecordSound, WeakIsAskedAbout, FinishedStays, Vaultless
    <2> QED
      BY <1>1, <2>1, <2>3, <2>4, TabsStay, UpdatesStay DEF WizardInv
  <1>5. CASE TicksIncognito
    <2>1. /\ toggle' = TRUE /\ access' = Shut /\ past' = [past EXCEPT !.chosen = TRUE]
          /\ stamping' = <<>> /\ wizard' = [t \in Tabs |-> Shut] /\ asks' = [t \in Tabs |-> <<>>]
          /\ UNCHANGED <<made, stored>>
      BY <1>5 DEF TicksIncognito
    <2>2. /\ past' \in Pasts /\ past'.destroyed = past.destroyed /\ past'.warned = past.warned
          /\ past'.hasty = past.hasty /\ past'.chosen = TRUE
          /\ past'.finished = past.finished /\ past'.crossed = past.crossed
      BY <1>1, <2>1 DEF Pasts
    <2>3. PastSound'
      BY <1>1, <2>1, <2>2, OnboardingAssumption
         DEF PastSound, RecordSound, WeakIsAskedAbout, FinishedStays, Vaultless
    <2>4. UpdatesSound'
      BY <2>1 DEF UpdatesSound
    <2>5. TabsSound'
      BY <2>1 DEF TabsSound, TabSound
    <2> QED
      BY <2>3, <2>4, <2>5 DEF WizardInv
  <1> QED
    BY <1>2, <1>3, <1>4, <1>5

(* The record: whatever was read of it is as sound as it is itself.        *)
LEMMA RecordsSound ==
    ASSUME WizardInv, NEW k \in DOMAIN stamping, ReadsRecord(k) \/ WritesRecord(k)
    PROVE  WizardInv'
  <1>1. /\ TabsSound /\ UpdatesSound /\ PastSound /\ past \in Pasts /\ stored \in SetupRecords
        /\ RecordSound(stored) /\ stamping \in Seq(Stamps) /\ stamping[k] \in Stamps
        /\ StampSound(stamping[k])
    BY DEF WizardInv, PastSound, UpdatesSound
  <1>2. CASE ReadsRecord(k)
    <2>1. /\ UNCHANGED <<made, toggle, access, stored, wizard, asks, past>>
          /\ stamping' = [stamping EXCEPT ![k] = [stamping[k] EXCEPT !.read = stored]]
      BY <1>1, <1>2 DEF ReadsRecord
    <2>2. PastSound' /\ Onward
      BY <1>1, <2>1, PastStays
    <2>3. PICK stamp \in Stamps : stamp = [stamping[k] EXCEPT !.read = stored]
      BY <1>1 DEF Stamps
    <2>4. stamp.read = stored /\ stamp.patch = stamping[k].patch
      BY <1>1, <2>3 DEF Stamps
    <2>5. StampSound(stamp)
      BY <1>1, <2>4 DEF StampSound
    <2>6. stamping' \in Seq(Stamps) /\ DOMAIN stamping' = DOMAIN stamping
      BY <1>1, <2>1, <2>3
    <2>7. ASSUME NEW n \in DOMAIN stamping' PROVE StampSound(stamping[n])'
      <3>1. PICK s : s = stamping'[n]
        OBVIOUS
      <3>2. s = stamp \/ s = stamping[n]
        BY <1>1, <2>1, <2>3, <2>6, <3>1
      <3>3. StampSound(s)
        BY <1>1, <2>5, <2>6, <3>2 DEF UpdatesSound
      <3> QED
        BY <2>2, <3>1, <3>3, SoundStays
    <2> QED
      BY <1>1, <2>1, <2>2, <2>6, <2>7, TabsStay DEF WizardInv, UpdatesSound
  <1>3. CASE WritesRecord(k)
    <2> DEFINE read == stamping[k].read
               patch == stamping[k].patch
               across == past.crossed \/ read # stored
               finished == IF patch.completed = "same" THEN past.finished ELSE patch.completed = "yes"
    <2>1. /\ read # Shut /\ stored' = PatchedOnboarding(read, patch)
          /\ stamping' = RemoveAt(stamping, k)
          /\ past' = [past EXCEPT !.crossed = across, !.finished = finished]
          /\ UNCHANGED <<made, toggle, access, wizard, asks>>
      BY <1>3 DEF WritesRecord
    <2>2. /\ read \in SetupRecords /\ RecordSound(read)
          /\ patch \in [completed : {"same", "yes", "no"}, step : Steps \cup {Shut}, skipped : BOOLEAN]
      BY <1>1, <2>1 DEF Stamps, StampSound
    <2>3. across \in BOOLEAN /\ finished \in BOOLEAN
      BY <1>1, <2>2 DEF Pasts
    <2> HIDE DEF across, finished
    <2>4. /\ past' \in Pasts /\ past'.crossed = across /\ past'.finished = finished
          /\ past'.destroyed = past.destroyed /\ past'.warned = past.warned
          /\ past'.hasty = past.hasty /\ past'.chosen = past.chosen
      BY <1>1, <2>1, <2>3 DEF Pasts
    <2>5. Onward
      BY <2>1, <2>4 DEF Onward, Vaultless, AskedOrHasty
    <2>6. /\ stored'.completed = (IF patch.completed = "same" THEN read.completed ELSE patch.completed = "yes")
          /\ stored'.step = (IF patch.step # Shut THEN patch.step ELSE read.step)
          /\ stored'.skipped = (patch.skipped \/ read.skipped)
      BY <2>1 DEF PatchedOnboarding
    <2>7. stored' \in SetupRecords
      <3>1. /\ (IF patch.completed = "same" THEN read.completed ELSE patch.completed = "yes") \in BOOLEAN
            /\ (IF patch.step # Shut THEN patch.step ELSE read.step) \in Steps
            /\ (patch.skipped \/ read.skipped) \in BOOLEAN
        BY <2>2 DEF SetupRecords
      <3> QED
        BY <2>1, <3>1 DEF PatchedOnboarding, SetupRecords
    <2>8. RecordSound(stored)'
      <3>1. Vaultless' => stored'.step <= PasswordStep /\ ~stored'.completed
        BY <1>1, <2>1, <2>2, <2>4, <2>6 DEF StampSound, RecordSound, Vaultless
      <3>2. stored'.completed \/ stored'.skipped => past'.chosen
        BY <1>1, <2>1, <2>2, <2>4, <2>6 DEF StampSound, RecordSound
      <3> QED
        BY <3>1, <3>2 DEF RecordSound
    <2>9. FinishedStays'
      <3>1. CASE patch.completed = "same"
        BY <1>1, <2>4, <2>6, <3>1 DEF FinishedStays, PastSound, across, finished
      <3>2. CASE patch.completed # "same"
        BY <2>4, <2>6, <3>2 DEF FinishedStays, finished
      <3> QED
        BY <3>1, <3>2
    <2>10. PastSound'
      BY <1>1, <2>1, <2>4, <2>7, <2>8, <2>9 DEF PastSound, WeakIsAskedAbout
    <2>11. UpdatesSound'
      <3>1. /\ stamping' \in Seq(Stamps)
            /\ \A n \in DOMAIN stamping' : \E m \in DOMAIN stamping : stamping'[n] = stamping[m]
        BY <1>1, <2>1, Removed
      <3>2. \A m \in DOMAIN stamping : \A s : s = stamping[m] => StampSound(s)'
        BY <1>1, <2>5, SoundStays DEF UpdatesSound
      <3> QED
        BY <3>1, <3>2 DEF UpdatesSound
    <2> QED
      BY <1>1, <2>1, <2>5, <2>10, <2>11, TabsStay DEF WizardInv
  <1> QED
    BY <1>2, <1>3

(* A tab hears what it asked.                                              *)
LEMMA AnswerGiven ==
    ASSUME TabsSound, Onward, NEW t \in Tabs, NEW k \in DOMAIN asks[t],
           NEW answer \in BOOLEAN \cup {Shut},
           asks' = [asks EXCEPT ![t][k].answer = answer], UNCHANGED wizard,
           Vaultless' /\ asks[t][k].op \in {"state", "create"} => answer # TRUE,
           asks[t][k].op \in {"access", "recheck"} /\ answer = TRUE => past'.chosen
    PROVE  TabsSound'
  <1> DEFINE ask == asks[t][k]
  <1>1. /\ asks[t] \in Seq(Requests) /\ TabSound(wizard[t], asks[t])
        /\ asks \in [Tabs -> Seq(Requests)] /\ wizard \in [Tabs -> Wizards \cup {Shut}]
    BY OpenTab DEF TabsSound
  <1>2. ask \in Requests /\ wizard[t] \in Wizards /\ WizardSound(wizard[t]) /\ RequestSound(ask)
    BY <1>1, HearsOne
  <1>3. PICK r \in Requests : r = [ask EXCEPT !.answer = answer]
    BY <1>2 DEF Requests
  <1>4. r.answer = answer /\ r.op = ask.op /\ r.mine = ask.mine /\ r.password = ask.password
    BY <1>2, <1>3 DEF Requests
  <1>5. RequestSound(r)'
    BY <1>2, <1>4 DEF RequestSound, Onward
  <1>6. PICK waiting \in Seq(Requests) : waiting = [asks[t] EXCEPT ![k] = r]
    <2>1. \A a \in Seq(Requests) : \A n \in DOMAIN a : [a EXCEPT ![n] = r] \in Seq(Requests)
      OBVIOUS
    <2> QED
      BY <1>1, <2>1
  <1>7. asks' = [asks EXCEPT ![t] = waiting]
    BY <1>1, <1>3, <1>6
  <1>8. PICK w \in Wizards : w = wizard[t]
    BY <1>2
  <1>9. wizard' = [wizard EXCEPT ![t] = w]
    BY <1>1, <1>8
  <1>10. \A n \in DOMAIN waiting :
            \/ waiting[n] = r /\ n = k
            \/ n \in DOMAIN asks[t] /\ waiting[n] = asks[t][n]
    BY <1>1, <1>6
  <1>11. \A n \in DOMAIN asks[t] : \A q : q = asks[t][n] => RequestSound(q)'
    BY <1>1, SoundStays DEF TabSound
  <1>12. WizardSound(w)'
    BY <1>2, <1>8, SoundStays
  <1>13. \A n \in DOMAIN waiting : waiting[n].op = "create" /\ waiting[n].mine => w.form \in Forms /\ FormSound(w.form)
    BY <1>1, <1>4, <1>8, <1>10 DEF TabSound
  <1>14. TabSound(w, waiting)'
    <2>1. FormSound(w.form) => FormSound(w.form)'
      BY SoundStays
    <2> QED
      BY <1>5, <1>10, <1>11, <1>12, <1>13, <2>1 DEF TabSound
  <1> QED
    BY <1>7, <1>9, <1>14, TabChanges

LEMMA AnswersSound == ASSUME WizardInv, NEW t \in Tabs, NEW k \in DOMAIN asks[t], AnswersAsk(t, k) PROVE WizardInv'
  <1>1. /\ TabsSound /\ UpdatesSound /\ PastSound /\ past \in Pasts
        /\ UNCHANGED <<toggle, stored, stamping, wizard, past>>
    BY DEF WizardInv, PastSound, AnswersAsk
  <1>2. asks[t][k] \in Requests /\ RequestSound(asks[t][k])
    BY <1>1, OpenTab, HearsOne
  <1>3. ASSUME Onward, NEW answer \in BOOLEAN \cup {Shut}, asks' = [asks EXCEPT ![t][k].answer = answer],
               Vaultless' /\ asks[t][k].op \in {"state", "create"} => answer # TRUE,
               asks[t][k].op \in {"access", "recheck"} /\ answer = TRUE => past.chosen
        PROVE  TabsSound' /\ UpdatesSound'
    BY <1>1, <1>3, AnswerGiven, UpdatesStay
  <1>4. CASE UNCHANGED <<made, access>> /\ asks[t][k].op = "state"
              /\ asks' = [asks EXCEPT ![t][k].answer = (made # Shut)]
    <2>1. PastSound' /\ Onward
      BY <1>1, <1>4, PastStays
    <2>2. Vaultless' => ~(made # Shut)
      BY <1>4 DEF Vaultless
    <2>3. PICK answer \in BOOLEAN : answer = (made # Shut)
      OBVIOUS
    <2> QED
      BY <1>3, <1>4, <2>1, <2>2, <2>3 DEF WizardInv
  <1>5. CASE UNCHANGED <<made, access>> /\ asks[t][k].op \in {"skip", "finish"}
              /\ asks' = [asks EXCEPT ![t][k].answer = TRUE]
    <2>1. PastSound' /\ Onward
      BY <1>1, <1>5, PastStays
    <2>2. PICK answer \in BOOLEAN : answer = TRUE
      OBVIOUS
    <2> QED
      BY <1>3, <1>5, <2>1, <2>2 DEF WizardInv
  <1>6. CASE UNCHANGED made /\ asks[t][k].op \in {"access", "recheck"}
              /\ access' \in {access, toggle} /\ access' \in BOOLEAN \cup {Shut}
              /\ asks' = [asks EXCEPT ![t][k].answer = access']
    <2>1. Onward
      BY <1>1, <1>6 DEF Onward, Vaultless, AskedOrHasty
    <2>2. access' = TRUE => past.chosen
      BY <1>1, <1>6 DEF PastSound
    <2>3. PastSound'
      BY <1>1, <1>6, <2>2 DEF PastSound, RecordSound, WeakIsAskedAbout, FinishedStays, Vaultless
    <2>4. PICK answer \in BOOLEAN \cup {Shut} : answer = access'
      BY <1>6
    <2> QED
      BY <1>3, <1>6, <2>1, <2>2, <2>3, <2>4 DEF WizardInv
  <1>7. CASE UNCHANGED access /\ asks[t][k].op = "create"
              /\ made' = (IF made = Shut THEN asks[t][k].password ELSE made)
              /\ asks' = [asks EXCEPT ![t][k].answer = (made = Shut)]
    <2>1. asks[t][k].password \in Strengths /\ (asks[t][k].password = "weak" => AskedOrHasty)
      BY <1>2, <1>7 DEF RequestSound
    <2>2. made' # Shut
      BY <1>7, <2>1, OnboardingAssumption DEF Strengths
    <2>3. Onward
      BY <1>1, <2>2 DEF Onward, Vaultless, AskedOrHasty
    <2>4. PastSound'
      BY <1>1, <1>7, <2>1, <2>2
         DEF PastSound, RecordSound, WeakIsAskedAbout, FinishedStays, Vaultless, AskedOrHasty
    <2>5. PICK answer \in BOOLEAN : answer = (made = Shut)
      OBVIOUS
    <2> QED
      BY <1>3, <1>7, <2>2, <2>3, <2>4, <2>5 DEF WizardInv, Vaultless
  <1>8. \/ UNCHANGED <<made, access>> /\ asks[t][k].op = "state"
              /\ asks' = [asks EXCEPT ![t][k].answer = (made # Shut)]
        \/ UNCHANGED <<made, access>> /\ asks[t][k].op \in {"skip", "finish"}
              /\ asks' = [asks EXCEPT ![t][k].answer = TRUE]
        \/ UNCHANGED made /\ asks[t][k].op = "access"
              /\ access' = (IF access # Shut THEN access ELSE toggle)
              /\ asks' = [asks EXCEPT ![t][k].answer = access']
        \/ UNCHANGED made /\ asks[t][k].op = "recheck" /\ access' = toggle
              /\ asks' = [asks EXCEPT ![t][k].answer = toggle]
        \/ UNCHANGED access /\ asks[t][k].op = "create"
              /\ made' = (IF made = Shut THEN asks[t][k].password ELSE made)
              /\ asks' = [asks EXCEPT ![t][k].answer = (made = Shut)]
    BY DEF AnswersAsk
  <1>9. toggle \in BOOLEAN /\ access \in BOOLEAN \cup {Shut}
    BY <1>1 DEF PastSound
  <1> QED
    BY <1>4, <1>5, <1>6, <1>7, <1>8, <1>9

(* What an answer does to the tab.                                         *)
LEMMA HearsSound ==
    ASSUME WizardInv, NEW t \in Tabs, NEW k \in DOMAIN asks[t],
           \/ StateAnswered(t, k) \/ AccessAnswered(t, k) \/ CreateAnswered(t, k)
           \/ SkipAnswered(t, k) \/ FinishAnswered(t, k)
    PROVE  WizardInv'
  <1>1. /\ TabsSound /\ UpdatesSound /\ PastSound /\ past \in Pasts
        /\ UNCHANGED <<made, toggle, access, stored, past>>
    BY DEF WizardInv, PastSound, StateAnswered, AccessAnswered, CreateAnswered, SkipAnswered, FinishAnswered
  <1>2. PastSound' /\ Onward
    BY <1>1, PastStays
  <1> DEFINE rest == RemoveAt(asks[t], k)
             ask == asks[t][k]
  <1>3. /\ asks[t] \in Seq(Requests) /\ TabSound(wizard[t], asks[t])
        /\ rest \in Seq(Requests) /\ TabSound(wizard[t], rest)
        /\ wizard[t] \in Wizards /\ WizardSound(wizard[t])
        /\ ask \in Requests /\ RequestSound(ask)
    BY <1>1, OpenTab, HearsOne
  <1>4. CASE StateAnswered(t, k)
    <2> DEFINE w == [wizard[t] EXCEPT !.exists = ask.answer]
               waiting == [asks[t] EXCEPT ![k] = Request("access")]
    <2>1. /\ ask.op = "state" /\ ask.answer # Shut /\ UNCHANGED stamping
          /\ wizard' = [wizard EXCEPT ![t] = w] /\ asks' = [asks EXCEPT ![t] = waiting]
      BY <1>1, <1>3, <1>4 DEF StateAnswered, Shows, TabsSound
    <2>2. ask.answer \in BOOLEAN /\ (Vaultless => ask.answer # TRUE)
      BY <1>3, <2>1 DEF Requests, RequestSound
    <2>3. /\ w \in Wizards /\ w.exists = ask.answer /\ w.step = wizard[t].step /\ w.form = wizard[t].form
          /\ w.allowed = wizard[t].allowed /\ w.skipped = wizard[t].skipped
      BY <1>3, <2>2 DEF Wizards
    <2> HIDE DEF w
    <2>4. WizardSound(w)
      BY <1>3, <2>2, <2>3 DEF WizardSound
    <2>5. Request("access") \in Requests /\ Request("access").op = "access" /\ Request("access").answer = Shut
      BY DEF Request, Requests
    <2>6. /\ waiting \in Seq(Requests)
          /\ \A n \in DOMAIN waiting :
                waiting[n] = Request("access") \/ (n \in DOMAIN asks[t] /\ waiting[n] = asks[t][n])
      <3>1. \A a \in Seq(Requests) : \A n \in DOMAIN a : \A r \in Requests : [a EXCEPT ![n] = r] \in Seq(Requests)
        OBVIOUS
      <3> QED
        BY <1>3, <2>5, <3>1
    <2> HIDE DEF waiting
    <2>7. TabSound(w, waiting)
      BY <1>3, <2>3, <2>4, <2>5, <2>6, OnboardingAssumption DEF TabSound, RequestSound
    <2> QED
      BY <1>1, <1>2, <2>1, <2>3, <2>6, <2>7, TabTurns, UpdatesStay DEF WizardInv
  <1>5. CASE AccessAnswered(t, k)
    <2> DEFINE v == [wizard[t] EXCEPT !.allowed = ask.answer]
               w == Repainted(v)
               waiting == Orphaned(rest)
    <2>1. /\ ask.op \in {"access", "recheck"} /\ ask.answer # Shut /\ UNCHANGED stamping
          /\ wizard' = [wizard EXCEPT ![t] = w] /\ asks' = [asks EXCEPT ![t] = waiting]
      BY <1>5 DEF AccessAnswered, Shows
    <2>2. ask.answer \in BOOLEAN /\ (ask.answer = TRUE => past.chosen)
      BY <1>3, <2>1 DEF Requests, RequestSound
    <2>3. /\ v \in Wizards /\ v.exists = wizard[t].exists /\ v.step = wizard[t].step
          /\ v.allowed = ask.answer /\ v.skipped = wizard[t].skipped
      BY <1>3, <2>2 DEF Wizards
    <2> HIDE DEF v
    <2>4. EmptyForm \in Forms /\ EmptyForm.acceptable = FALSE /\ EmptyForm.warned = FALSE
      BY DEF EmptyForm, Forms
    <2>5. /\ w \in Wizards /\ w.exists = v.exists /\ w.step = v.step
          /\ w.allowed = v.allowed /\ w.skipped = v.skipped /\ w.form \in {EmptyForm, Shut}
      BY <2>3, <2>4, FiveSteps DEF Repainted, Wizards
    <2> HIDE DEF w
    <2>6. WizardSound(w)
      BY <1>3, <2>2, <2>3, <2>4, <2>5 DEF WizardSound, FormSound
    <2>7. /\ waiting \in Seq(Requests)
          /\ \A n \in DOMAIN waiting :
                /\ n \in DOMAIN rest /\ waiting[n].op = rest[n].op /\ waiting[n].password = rest[n].password
                /\ waiting[n].answer = rest[n].answer
                /\ ~(waiting[n].op = "create" /\ waiting[n].mine)
      <3>1. \A a \in Requests :
              LET r == [a EXCEPT !.mine = @ /\ a.op # "create"]
              IN  /\ r \in Requests /\ r.op = a.op /\ r.password = a.password /\ r.answer = a.answer
                  /\ ~(r.op = "create" /\ r.mine)
        <4> SUFFICES ASSUME NEW a \in Requests
                     PROVE  LET r == [a EXCEPT !.mine = @ /\ a.op # "create"]
                            IN  /\ r \in Requests /\ r.op = a.op /\ r.password = a.password /\ r.answer = a.answer
                                /\ ~(r.op = "create" /\ r.mine)
          OBVIOUS
        <4> DEFINE mine == a.mine /\ a.op # "create"
        <4>1. mine \in BOOLEAN
          OBVIOUS
        <4>2. a.op = "create" => ~mine
          OBVIOUS
        <4> HIDE DEF mine
        <4> DEFINE r == [a EXCEPT !.mine = mine]
        <4>3. /\ r \in Requests /\ r.op = a.op /\ r.password = a.password /\ r.answer = a.answer
              /\ r.mine = mine
          BY <4>1 DEF Requests
        <4> QED
          BY <4>2, <4>3 DEF mine
      <3>2. \A b \in Seq(Requests) : \A n \in DOMAIN b : b[n] \in Requests
        OBVIOUS
      <3>3. waiting = [n \in DOMAIN rest |-> [rest[n] EXCEPT !.mine = @ /\ rest[n].op # "create"]]
        BY DEF Orphaned
      <3>4. DOMAIN rest = 1 .. Len(rest) /\ Len(rest) \in Nat
        BY <1>3
      <3> HIDE DEF rest, waiting
      <3>5. waiting \in [1 .. Len(rest) -> Requests] /\ DOMAIN waiting = DOMAIN rest
        BY <1>3, <3>1, <3>2, <3>3, <3>4
      <3>6. \A L \in Nat : \A f \in [1 .. L -> Requests] : f \in Seq(Requests)
        OBVIOUS
      <3> QED
        BY <1>3, <3>1, <3>2, <3>3, <3>4, <3>5, <3>6
    <2> HIDE DEF waiting
    <2>8. \A n \in DOMAIN rest : RequestSound(rest[n])
      BY <1>3 DEF TabSound
    <2>9. TabSound(w, waiting)
      BY <2>5, <2>6, <2>7, <2>8 DEF TabSound, RequestSound
    <2> QED
      BY <1>1, <1>2, <2>1, <2>5, <2>7, <2>9, TabTurns, UpdatesStay DEF WizardInv
  <1>6. CASE CreateAnswered(t, k)
    <2>1. CASE ask.answer
      <3> DEFINE w == [wizard[t] EXCEPT !.exists = TRUE]
      <3>1. ask.op = "create" /\ ask.answer # Shut /\ GoesTo(t, w, NextStep(w), rest)
        BY <1>6, <2>1 DEF CreateAnswered
      <3>2. ~Vaultless
        <4>1. ask.answer = TRUE
          BY <1>3, <2>1, <3>1 DEF Requests
        <4> QED
          BY <1>3, <3>1, <4>1 DEF RequestSound
      <3>3. /\ w \in Wizards /\ w.step = wizard[t].step /\ w.form = wizard[t].form
            /\ w.allowed = wizard[t].allowed /\ w.skipped = wizard[t].skipped
        BY <1>3 DEF Wizards
      <3> HIDE DEF w
      <3>4. WizardSound(w) /\ TabSound(w, rest)
        BY <1>3, <3>2, <3>3 DEF WizardSound, TabSound
      <3>5. NextStep(w) \in Steps
        BY <3>3, FiveSteps DEF NextStep, Wizards, Steps
      <3> QED
        BY <1>1, <1>2, <1>3, <3>1, <3>2, <3>3, <3>4, <3>5, GoesToSound DEF WizardInv
    <2>2. CASE ~ask.answer
      <3> DEFINE w == IF ask.mine THEN [wizard[t] EXCEPT !.form.busy = FALSE] ELSE wizard[t]
      <3>1. /\ ask.op = "create" /\ UNCHANGED stamping
            /\ wizard' = [wizard EXCEPT ![t] = w] /\ asks' = [asks EXCEPT ![t] = rest]
        BY <1>6, <2>2 DEF CreateAnswered, Shows
      <3>2. CASE ask.mine
        <4>1. wizard[t].form \in Forms /\ FormSound(wizard[t].form)
          BY <1>3, <3>1, <3>2 DEF TabSound
        <4>2. PICK form \in Forms : form = [wizard[t].form EXCEPT !.busy = FALSE]
          BY <4>1 DEF Forms
        <4>3. FormSound(form)
          BY <4>1, <4>2 DEF FormSound, Forms
        <4>4. w = [wizard[t] EXCEPT !.form = form]
          BY <1>3, <3>2, <4>2 DEF Wizards
        <4>5. /\ w \in Wizards /\ w.form = form /\ w.exists = wizard[t].exists /\ w.step = wizard[t].step
              /\ w.allowed = wizard[t].allowed /\ w.skipped = wizard[t].skipped
          BY <1>3, <4>4 DEF Wizards
        <4> HIDE DEF w
        <4>6. WizardSound(w)
          BY <1>3, <4>3, <4>5 DEF WizardSound
        <4>7. TabSound(w, rest)
          BY <1>3, <4>3, <4>5, <4>6 DEF TabSound
        <4> QED
          BY <1>1, <1>2, <1>3, <3>1, <4>5, <4>7, TabTurns, UpdatesStay DEF WizardInv
      <3>3. CASE ~ask.mine
        BY <1>1, <1>2, <1>3, <3>1, <3>3, TabTurns, UpdatesStay DEF WizardInv
      <3> QED
        BY <3>2, <3>3
    <2> QED
      BY <2>1, <2>2
  <1>7. CASE SkipAnswered(t, k)
    BY <1>1, <1>2, <1>3, <1>7, AdvancesSound DEF SkipAnswered, WizardInv
  <1>8. CASE FinishAnswered(t, k)
    <2>1. /\ wizard' = [wizard EXCEPT ![t] = Shut] /\ asks' = [asks EXCEPT ![t] = <<>>]
          /\ UNCHANGED stamping
      BY <1>8 DEF FinishAnswered, Closes
    <2>2. TabSound(Shut, <<>>)
      BY DEF TabSound
    <2>3. <<>> \in Seq(Requests)
      OBVIOUS
    <2> QED
      BY <1>1, <1>2, <2>1, <2>2, <2>3, TabTurns, UpdatesStay DEF WizardInv
  <1> QED
    BY <1>4, <1>5, <1>6, <1>7, <1>8

LEMMA WizardStep == WizardInv /\ [OnboardingNext]_onboarding => WizardInv'
  <1>1. ASSUME WizardInv, UNCHANGED onboarding PROVE WizardInv'
    BY <1>1, PastStays, TabsStay, UpdatesStay DEF WizardInv, onboarding
  <1>2. ASSUME WizardInv, OnboardingNext PROVE WizardInv'
    BY <1>2, NavigatesSound, FormsSound, SubmitsSound, SkipsSound, ElsewhereSound, RecordsSound,
       AnswersSound, HearsSound DEF OnboardingNext, Strengths
  <1> QED
    BY <1>1, <1>2

(* The gates of the wizard hold in any number of tabs, whatever answers    *)
(* late, and wherever the vault is created or destroyed meanwhile: nobody  *)
(* is past the password step before there was a vault, or done before the  *)
(* choice about private windows; a weak password was asked about; and a    *)
(* finished wizard stays finished until it is replayed.                    *)
THEOREM WizardAlwaysKeepsItsGates == OnboardingSpec => []WizardKeepsItsGates
  BY WizardInit, WizardStep, WizardInvImplies, PTL DEF OnboardingSpec

-----------------------------------------------------------------------------
(* Wire: what a handler is given.                                          *)

(* A call under way asks for what its page said, field by field, and what   *)
(* the worker handles is what the parser made of that.                      *)
SaidSound(m) == m.type # Misspelt => DOMAIN m.fields = DOMAIN Shape[m.type]

Conveyed ==
    /\ DOMAIN call = WirePages
    /\ \A p \in WirePages :
          /\ At(p, "sent") \/ At(p, "handling") => SaidSound(call[p].said)
          /\ At(p, "handling") => /\ call[p].request = ParseRequest(call[p].said)
                                  /\ call[p].request # Refused

LEMMA ConveyedMeansSaid == Conveyed => MeansWhatWasSaid
<1> SUFFICES ASSUME Conveyed, NEW p \in WirePages, At(p, "handling"),
                    NEW f \in DOMAIN Shape[call[p].said.type]
             PROVE  /\ call[p].said.fields[f] \in Shape[call[p].said.type][f]
                    /\ IF call[p].said.fields[f] = "absent" THEN f \notin DOMAIN call[p].request.fields
                       ELSE /\ f \in DOMAIN call[p].request.fields
                            /\ call[p].request.fields[f] = call[p].said.fields[f]
    BY DEF MeansWhatWasSaid
<1> DEFINE m == call[p].said
<1>1. /\ SaidSound(m) /\ ParseRequest(m) # Refused /\ call[p].request = ParseRequest(m)
    BY DEF Conveyed
<1>2. f \in DOMAIN Shape[m.type]
    OBVIOUS
<1> HIDE DEF m
<1>3. /\ m.type \in DOMAIN Shape /\ \A g \in DOMAIN Shape[m.type] : m.fields[g] \in Shape[m.type][g]
      /\ ParseRequest(m) = [type |-> m.type, fields |-> Said(m.fields)]
    BY <1>1 DEF ParseRequest
<1>4. m.type # Misspelt /\ f \in DOMAIN m.fields
    BY <1>1, <1>2, <1>3, WireAssumption DEF SaidSound
<1>5. call[p].request.fields = Said(m.fields)
    BY <1>1, <1>3
<1>6. IF m.fields[f] = "absent" THEN f \notin DOMAIN Said(m.fields)
      ELSE f \in DOMAIN Said(m.fields) /\ Said(m.fields)[f] = m.fields[f]
    BY <1>4 DEF Said
<1>7. QED
    BY <1>2, <1>3, <1>5, <1>6 DEF m

(* A step leaves the call of a page alone, ends it, or moves it one stage.  *)
LEMMA CallsMove ==
    ASSUME Conveyed, NEW p \in WirePages, NEW new, call' = [call EXCEPT ![p] = new],
           new = NoCall \/ (new.at # "sent" /\ new.at # "handling")
    PROVE  Conveyed'
<1>1. DOMAIN call' = WirePages
    BY DEF Conveyed
<1>2. ASSUME NEW q \in WirePages
      PROVE  /\ At(q, "sent")' \/ At(q, "handling")' => SaidSound(call'[q].said)
             /\ At(q, "handling")' => /\ call'[q].request = ParseRequest(call'[q].said)
                                      /\ call'[q].request # Refused
  <2>1. CASE q # p
    <3>1. call'[q] = call[q]
        BY <2>1 DEF Conveyed
    <3>2. QED
        BY <3>1 DEF Conveyed, At
  <2>2. CASE q = p
    <3>1. call'[q] = new
        BY <2>2 DEF Conveyed
    <3>2. QED
        BY <3>1 DEF At
  <2>3. QED
      BY <2>1, <2>2
<1>3. QED
    BY <1>1, <1>2 DEF Conveyed, At, SaidSound

LEMMA CallsBegin ==
    ASSUME Conveyed, NEW p \in WirePages, NEW m, SaidSound(m),
           call' = [call EXCEPT ![p] = [at |-> "sent", said |-> m]]
    PROVE  Conveyed'
<1>1. DOMAIN call' = WirePages /\ call'[p] = [at |-> "sent", said |-> m]
    BY DEF Conveyed
<1>2. ASSUME NEW q \in WirePages
      PROVE  /\ At(q, "sent")' \/ At(q, "handling")' => SaidSound(call'[q].said)
             /\ At(q, "handling")' => /\ call'[q].request = ParseRequest(call'[q].said)
                                      /\ call'[q].request # Refused
  <2>1. CASE q # p
    <3>1. call'[q] = call[q]
        BY <2>1 DEF Conveyed
    <3>2. QED
        BY <3>1 DEF Conveyed, At
  <2>2. CASE q = p
      BY <1>1, <2>2 DEF At
  <2>3. QED
      BY <2>1, <2>2
<1>3. QED
    BY <1>1, <1>2 DEF Conveyed, At, SaidSound

LEMMA CallsAreTaken ==
    ASSUME Conveyed, NEW p \in WirePages, At(p, "sent"), ParseRequest(call[p].said) # Refused,
           call' = [call EXCEPT ![p] = [at |-> "handling", said |-> call[p].said,
                                        request |-> ParseRequest(call[p].said)]]
    PROVE  Conveyed'
<1>1. PICK m, r : m = call[p].said /\ r = ParseRequest(call[p].said)
    OBVIOUS
<1>2. /\ DOMAIN call' = WirePages /\ call'[p] = [at |-> "handling", said |-> m, request |-> r]
      /\ SaidSound(m) /\ r = ParseRequest(m) /\ r # Refused
    BY <1>1 DEF Conveyed
<1>3. ASSUME NEW q \in WirePages
      PROVE  /\ At(q, "sent")' \/ At(q, "handling")' => SaidSound(call'[q].said)
             /\ At(q, "handling")' => /\ call'[q].request = ParseRequest(call'[q].said)
                                      /\ call'[q].request # Refused
  <2>1. CASE q # p
    <3>1. call'[q] = call[q]
        BY <2>1 DEF Conveyed
    <3>2. QED
        BY <3>1 DEF Conveyed, At
  <2>2. CASE q = p
      BY <1>2, <2>2 DEF At
  <2>3. QED
      BY <2>1, <2>2
<1>4. QED
    BY <1>2, <1>3 DEF Conveyed, At, SaidSound

LEMMA ConveyedStep == Conveyed /\ [WireNext]_wire => Conveyed'
<1> SUFFICES ASSUME Conveyed, [WireNext]_wire PROVE Conveyed'
    OBVIOUS
<1>1. ASSUME NEW p \in WirePages, Sends(p) PROVE Conveyed'
  <2>1. PICK t \in Asked \cup {Misspelt} :
             \E fields \in [(IF t \in Asked THEN DOMAIN Shape[t] ELSE {}) -> Sayable] :
                 call' = [call EXCEPT ![p] = [at |-> "sent", said |-> [type |-> t, fields |-> fields]]]
      BY <1>1 DEF Sends
  <2>2. PICK fields \in [(IF t \in Asked THEN DOMAIN Shape[t] ELSE {}) -> Sayable] :
             call' = [call EXCEPT ![p] = [at |-> "sent", said |-> [type |-> t, fields |-> fields]]]
      BY <2>1
  <2>3. PICK m : m = [type |-> t, fields |-> fields]
      OBVIOUS
  <2>4. SaidSound(m)
      BY <2>1, <2>2, <2>3 DEF SaidSound
  <2>5. QED
      BY <2>2, <2>3, <2>4, CallsBegin
<1>2. ASSUME NEW p \in WirePages, Takes(p) PROVE Conveyed'
  <2>1. CASE ParseRequest(call[p].said) = Refused
    <3>1. PICK new : new = [at |-> "answered", said |-> call[p].said, answer |-> Misspelt]
        OBVIOUS
    <3>2. call' = [call EXCEPT ![p] = new]
        BY <1>2, <2>1, <3>1 DEF Takes
    <3>3. QED
        BY <3>1, <3>2, CallsMove
  <2>2. CASE ParseRequest(call[p].said) # Refused
      BY <1>2, <2>2, CallsAreTaken DEF Takes
  <2>3. QED
      BY <2>1, <2>2
<1>3. ASSUME NEW p \in WirePages, HandleRequest(p) PROVE Conveyed'
  <2>1. PICK answer : call' = [call EXCEPT ![p] = [at |-> "answered", said |-> @.said, answer |-> answer]]
      BY <1>3 DEF HandleRequest
  <2>2. PICK new : new = [at |-> "answered", said |-> call[p].said, answer |-> answer]
      OBVIOUS
  <2>3. QED
      BY <2>1, <2>2, CallsMove
<1>4. ASSUME NEW p \in WirePages, Hearing(p) PROVE Conveyed'
  <2>1. PICK new : new = [at |-> "done", said |-> call[p].said, answer |-> call[p].answer,
                          got |-> ParseResponse(call[p].answer)]
      OBVIOUS
  <2>2. call' = [call EXCEPT ![p] = new]
      BY <1>4, <2>1 DEF Hearing
  <2>3. QED
      BY <2>1, <2>2, CallsMove
<1>5. ASSUME NEW p \in WirePages, GoesOn(p) PROVE Conveyed'
    BY <1>5, CallsMove DEF GoesOn
<1>6. ASSUME NEW p \in WirePages, Narrates(p) PROVE Conveyed'
    BY <1>6 DEF Narrates, Conveyed, At
<1>7. CASE WireWorkerDies
  <2>1. DOMAIN call' = WirePages
      BY <1>7 DEF WireWorkerDies
  <2>2. ASSUME NEW q \in WirePages
        PROVE  /\ At(q, "sent")' \/ At(q, "handling")' => SaidSound(call'[q].said)
               /\ At(q, "handling")' => /\ call'[q].request = ParseRequest(call'[q].said)
                                        /\ call'[q].request # Refused
    <3>1. CASE At(q, "handling")
      <4>1. call'[q] = [at |-> "done", said |-> call[q].said, answer |-> Misspelt, got |-> "ERROR"]
          BY <1>7, <3>1 DEF WireWorkerDies
      <4>2. QED
          BY <4>1 DEF At
    <3>2. CASE ~At(q, "handling")
      <4>1. call'[q] = call[q]
          BY <1>7, <3>2 DEF WireWorkerDies
      <4>2. QED
          BY <3>2, <4>1 DEF Conveyed, At
    <3>3. QED
        BY <3>1, <3>2
  <2>3. QED
      BY <2>1, <2>2 DEF Conveyed, At, SaidSound
<1>8. CASE UNCHANGED wire
    BY <1>8 DEF wire, Conveyed, At
<1>9. QED
    BY <1>1, <1>2, <1>3, <1>4, <1>5, <1>6, <1>7, <1>8 DEF WireNext

(* A handler is given exactly what its page said, an absent field as an     *)
(* absent field, and only what every field of the type may be (the parser   *)
(* of messages.ts), for any pages, requests and deaths of the worker.       *)
THEOREM HandlersAlwaysGetWhatWasSaid == WireSpec => []MeansWhatWasSaid
<1>1. WireInit => Conveyed
    BY DEF WireInit, Conveyed, At
<1>2. Conveyed /\ [WireNext]_wire => Conveyed'
    BY ConveyedStep
<1>3. Conveyed => MeansWhatWasSaid
    BY ConveyedMeansSaid
<1>4. QED
    BY <1>1, <1>2, <1>3, PTL DEF WireSpec

-----------------------------------------------------------------------------
(* SettingsSync: the program obeys the vault's record, and the record holds *)
(* the latest choices.                                                     *)

(* A computer that obeys `rec` has every value of it that its build knows.  *)
Obeys(c, values, rec) == \A f \in Fields : rec[f] # Unset /\ rec[f].v \in Known[c] => values[f] = rec[f].v

SettingsTypes ==
    /\ file \in [Computers -> LocalFiles]
    /\ record \in [Computers -> Records]
    /\ unlocked \in [Computers -> BOOLEAN] /\ crossed \in [Computers -> BOOLEAN]
    /\ remote \in [stamp : Nat, settings : Records]
    /\ update \in [Computers -> Updates \cup {NoJob}]
    /\ run \in [Computers -> Runs \cup {NoJob}]
    /\ clock \in Nat

(* What the file is, by how far the handlers that write it have come: the   *)
(* patch of a page is stamped against a file that followed the record, and  *)
(* what a sync run is about to write follows the record it merged.          *)
Following(c) ==
    /\ Adopting(c) => update[c] = NoJob
    /\ ~Adopting(c) /\ update[c] = NoJob => Obeys(c, file[c], record[c])
    /\ update[c] # NoJob => Obeys(c, update[c].previous, record[c])
    /\ update[c] # NoJob /\ update[c].at = "stamp" => file[c] = update[c].next
    /\ run[c] # NoJob /\ run[c].at = "read" => run[c].settings = record[c]
    /\ run[c] # NoJob /\ run[c].at = "write" => Obeys(c, run[c].next, record[c])

SettingsInv ==
    /\ SettingsTypes
    /\ \A c \in Computers :
          /\ ~unlocked[c] => run[c] = NoJob
          /\ unlocked[c] /\ ~crossed[c] => Following(c)

LEMMA MergeIsARecord ==
    ASSUME NEW mine \in Records, NEW theirs \in Records
    PROVE  MergeSyncedSettings(mine, theirs) \in Records
<1>1. ASSUME NEW f \in Fields
      PROVE  NewerField(mine[f], theirs[f]) \in Stamped
    BY DEF NewerField, Records
<1>2. QED
    BY <1>1 DEF MergeSyncedSettings, Records

LEMMA StampedIsARecord ==
    ASSUME NEW rec \in Records, NEW previous \in LocalFiles, NEW next \in LocalFiles, NEW t \in Nat
    PROVE  StampSettings(rec, previous, next, t) \in Records
<1>1. ASSUME NEW f \in Fields
      PROVE  (IF next[f] = previous[f] THEN rec[f] ELSE [v |-> next[f], at |-> t]) \in Stamped
    BY DEF LocalFiles, Records, Stamped
<1>2. QED
    BY <1>1 DEF StampSettings, Records

(* The record after the stamp is obeyed by what the page asked for, if what *)
(* it was compared with obeyed the record before.                           *)
LEMMA StampIsObeyed ==
    ASSUME NEW c \in Computers, NEW rec \in Records, NEW previous \in LocalFiles, NEW next \in LocalFiles, NEW t \in Nat,
           Obeys(c, previous, rec)
    PROVE  Obeys(c, next, StampSettings(rec, previous, next, t))
<1> SUFFICES ASSUME NEW f \in Fields,
                    StampSettings(rec, previous, next, t)[f] # Unset,
                    StampSettings(rec, previous, next, t)[f].v \in Known[c]
             PROVE  next[f] = StampSettings(rec, previous, next, t)[f].v
    BY DEF Obeys
<1>1. CASE next[f] = previous[f]
    BY <1>1 DEF StampSettings, Obeys
<1>2. CASE next[f] # previous[f]
    BY <1>2 DEF StampSettings
<1>3. QED
    BY <1>1, <1>2

LEMMA AppliedObeys ==
    ASSUME NEW c \in Computers, NEW local \in LocalFiles, NEW rec \in Records
    PROVE  /\ ApplySyncedSettings(c, local, rec) \in LocalFiles
           /\ Obeys(c, ApplySyncedSettings(c, local, rec), rec)
<1>1. ASSUME NEW f \in Fields
      PROVE  (IF rec[f] # Unset /\ rec[f].v \in Known[c] THEN rec[f].v ELSE local[f]) \in Nat
    BY SettingsAssumption DEF LocalFiles
<1>2. ApplySyncedSettings(c, local, rec) \in LocalFiles
    BY <1>1 DEF ApplySyncedSettings, LocalFiles
<1>3. Obeys(c, ApplySyncedSettings(c, local, rec), rec)
    BY DEF ApplySyncedSettings, Obeys
<1>4. QED
    BY <1>2, <1>3

LEMMA SettingsStart == SettingsSyncInit => SettingsInv
<1> SUFFICES ASSUME SettingsSyncInit PROVE SettingsInv
    OBVIOUS
<1>1. EmptyRecord \in Records
    BY DEF EmptyRecord, Records, Stamped
<1>2. SettingsTypes
  <2>1. file \in [Computers -> LocalFiles]
      BY SettingsAssumption DEF SettingsSyncInit, LocalFiles
  <2>2. record \in [Computers -> Records] /\ remote \in [stamp : Nat, settings : Records]
      BY <1>1 DEF SettingsSyncInit
  <2>3. QED
      BY <2>1, <2>2 DEF SettingsSyncInit, SettingsTypes
<1>3. ASSUME NEW c \in Computers PROVE Following(c)
    BY <1>3 DEF SettingsSyncInit, Following, Adopting, Obeys, EmptyRecord
<1>4. QED
    BY <1>2, <1>3 DEF SettingsInv, SettingsSyncInit

(* What a step of one computer leaves to prove.                             *)
LEMMA OthersGoOn ==
    ASSUME SettingsInv, NEW c \in Computers, SettingsTypes',
           \A d \in Computers \ {c} :
               /\ file'[d] = file[d] /\ record'[d] = record[d] /\ unlocked'[d] = unlocked[d]
               /\ update'[d] = update[d] /\ run'[d] = run[d] /\ crossed'[d] = crossed[d],
           ~unlocked'[c] => run'[c] = NoJob,
           unlocked'[c] /\ ~crossed'[c] => Following(c)'
    PROVE  SettingsInv'
<1>1. ASSUME NEW d \in Computers
      PROVE  /\ ~unlocked'[d] => run'[d] = NoJob
             /\ unlocked'[d] /\ ~crossed'[d] => Following(d)'
  <2>1. CASE d = c
      BY <2>1
  <2>2. CASE d # c
      BY <2>2 DEF SettingsInv, Following, Adopting
  <2>3. QED
      BY <2>1, <2>2
<1>2. QED
    BY <1>1 DEF SettingsInv

(***************************** one lemma per step ***************************)

LEMMA SettingsKinds ==
    /\ \A u \in Updates : u.at \in {"write", "stamp"} /\ u.previous \in LocalFiles /\ u.next \in LocalFiles
    /\ \A r \in Runs : r.at = "read" => r.settings \in Records /\ r.push \in BOOLEAN
    /\ \A r \in Runs : r.at = "write" => r.next \in LocalFiles /\ r.push \in BOOLEAN
    /\ \A r \in Runs : r.at \in {"read", "write", "push"}
    BY DEF Updates, Runs

LEMMA PatchesStep ==
    ASSUME SettingsInv, NEW c \in Computers, Patches(c)
    PROVE  SettingsInv'
<1>1. PICK f \in Fields, v \in Known[c] :
           /\ unlocked[c] /\ update[c] = NoJob
           /\ update' = [update EXCEPT ![c] = [at |-> "write", previous |-> file[c],
                                               next |-> [file[c] EXCEPT ![f] = v]]]
           /\ crossed' = [crossed EXCEPT ![c] = @ \/ Adopting(c)]
           /\ UNCHANGED <<file, record, unlocked, moved, seen, remote, run, clock, chosen, stops>>
    BY DEF Patches
<1>2. PICK next : next = [file[c] EXCEPT ![f] = v]
    OBVIOUS
<1>3. PICK previous : previous = file[c]
    OBVIOUS
<1>4. PICK job : job = [at |-> "write", previous |-> previous, next |-> next]
    OBVIOUS
<1>5. previous \in LocalFiles /\ next \in LocalFiles
    BY <1>2, <1>3, SettingsAssumption DEF SettingsInv, SettingsTypes, LocalFiles
<1>6. job \in Updates /\ job # NoJob /\ job.at = "write" /\ job.previous = previous
    BY <1>4, <1>5, SettingsAssumption DEF Updates
<1>7. update' = [update EXCEPT ![c] = job]
    BY <1>1, <1>2, <1>3, <1>4
<1>8. /\ update' \in [Computers -> Updates \cup {NoJob}] /\ update'[c] = job
      /\ \A d \in Computers \ {c} : update'[d] = update[d]
    BY <1>6, <1>7 DEF SettingsInv, SettingsTypes
<1>9. PICK crossing \in BOOLEAN : crossing <=> crossed[c] \/ Adopting(c)
    OBVIOUS
<1>10. crossed' = [crossed EXCEPT ![c] = crossing]
  <2>1. crossing = (crossed[c] \/ Adopting(c))
      BY <1>9 DEF Adopting, SettingsInv, SettingsTypes
  <2>2. QED
      BY <1>1, <2>1, Zenon
<1>11. /\ crossed' \in [Computers -> BOOLEAN] /\ crossed'[c] = crossing
       /\ \A d \in Computers \ {c} : crossed'[d] = crossed[d]
    BY <1>10 DEF SettingsInv, SettingsTypes
<1>12. SettingsTypes'
    BY <1>1, <1>8, <1>11 DEF SettingsInv, SettingsTypes
<1>13. ASSUME ~crossed'[c] PROVE Following(c)'
  <2>1. ~crossed[c] /\ ~Adopting(c)
      BY <1>9, <1>11, <1>13
  <2>2. Obeys(c, file[c], record[c])
      BY <1>1, <2>1 DEF SettingsInv, Following
  <2>3. ~Adopting(c)'
      BY <1>1, <2>1 DEF Adopting
  <2>4. QED
      BY <1>1, <1>3, <1>6, <1>8, <2>2, <2>3 DEF Following, Adopting
<1>14. QED
    BY <1>1, <1>8, <1>11, <1>12, <1>13, OthersGoOn

LEMMA WritesPatchStep ==
    ASSUME SettingsInv, NEW c \in Computers, WritesPatch(c)
    PROVE  SettingsInv'
<1>1. /\ update[c] # NoJob /\ update[c].at = "write"
      /\ file' = [file EXCEPT ![c] = update[c].next]
      /\ update' = [update EXCEPT ![c].at = "stamp"]
      /\ UNCHANGED <<record, unlocked, moved, seen, remote, run, clock, chosen, crossed, choices, stops>>
    BY DEF WritesPatch, Writing
<1>2. PICK job \in Updates : job = update[c]
    BY <1>1 DEF SettingsInv, SettingsTypes
<1>3. PICK next : next = [job EXCEPT !.at = "stamp"]
    OBVIOUS
<1>4. next \in Updates /\ next # NoJob /\ next.at = "stamp" /\ next.next = job.next /\ next.previous = job.previous
    BY <1>2, <1>3, SettingsAssumption DEF Updates
<1>5. update' = [update EXCEPT ![c] = next]
    BY <1>1, <1>2, <1>3
<1>6. /\ update' \in [Computers -> Updates \cup {NoJob}] /\ update'[c] = next
      /\ \A d \in Computers \ {c} : update'[d] = update[d]
    BY <1>4, <1>5 DEF SettingsInv, SettingsTypes
<1>7. job.next \in LocalFiles
    BY <1>2, SettingsKinds
<1>8. /\ file' \in [Computers -> LocalFiles] /\ file'[c] = job.next
      /\ \A d \in Computers \ {c} : file'[d] = file[d]
    BY <1>1, <1>2, <1>7 DEF SettingsInv, SettingsTypes
<1>9. SettingsTypes'
    BY <1>1, <1>6, <1>8 DEF SettingsInv, SettingsTypes
<1>10. ASSUME unlocked'[c], ~crossed'[c] PROVE Following(c)'
  <2>1. Following(c)
      BY <1>1, <1>10 DEF SettingsInv
  <2>2. ~Adopting(c) /\ Obeys(c, job.previous, record[c])
      BY <1>1, <1>2, <2>1 DEF Following
  <2>3. ~Adopting(c)'
      BY <1>1, <2>2 DEF Adopting
  <2>4. QED
      BY <1>1, <1>4, <1>6, <1>8, <2>2, <2>3 DEF Following, Adopting
<1>11. ~unlocked'[c] => run'[c] = NoJob
    BY <1>1 DEF SettingsInv
<1>12. QED
    BY <1>1, <1>6, <1>8, <1>9, <1>10, <1>11, OthersGoOn

LEMMA StampsRecordStep ==
    ASSUME SettingsInv, NEW c \in Computers, StampsRecord(c)
    PROVE  SettingsInv'
<1>1. /\ update[c] # NoJob /\ update[c].at = "stamp"
      /\ update' = [update EXCEPT ![c] = NoJob]
      /\ UNCHANGED <<file, unlocked, seen, remote, run, clock, choices, stops>>
    BY DEF StampsRecord
<1>2. PICK job \in Updates : job = update[c]
    BY <1>1 DEF SettingsInv, SettingsTypes
<1>3. /\ update' \in [Computers -> Updates \cup {NoJob}] /\ update'[c] = NoJob
      /\ \A d \in Computers \ {c} : update'[d] = update[d]
    BY <1>1 DEF SettingsInv, SettingsTypes
<1>4. ~unlocked'[c] => run'[c] = NoJob
    BY <1>1 DEF SettingsInv
<1>5. CASE unlocked[c]
  <2>1. PICK stamped : stamped = StampSettings(record[c], job.previous, job.next, clock)
      OBVIOUS
  <2>2. record' = [record EXCEPT ![c] = stamped] /\ crossed' = crossed
      BY <1>2, <1>5, <2>1 DEF StampsRecord
  <2>3. stamped \in Records
      BY <1>2, <2>1, SettingsKinds, StampedIsARecord DEF SettingsInv, SettingsTypes
  <2>4. /\ record' \in [Computers -> Records] /\ record'[c] = stamped
        /\ \A d \in Computers \ {c} : record'[d] = record[d]
      BY <2>2, <2>3 DEF SettingsInv, SettingsTypes
  <2>5. SettingsTypes'
      BY <1>1, <1>3, <2>2, <2>4 DEF SettingsInv, SettingsTypes
  <2>6. ASSUME ~crossed'[c] PROVE Following(c)'
    <3>1. Following(c)
        BY <1>5, <2>2, <2>6 DEF SettingsInv
    <3>2. ~Adopting(c) /\ Obeys(c, job.previous, record[c]) /\ file[c] = job.next
        BY <1>1, <1>2, <3>1 DEF Following
    <3>3. Obeys(c, job.next, stamped)
      <4>1. record[c] \in Records /\ clock \in Nat /\ job.previous \in LocalFiles /\ job.next \in LocalFiles
          BY <1>2, SettingsKinds DEF SettingsInv, SettingsTypes
      <4>2. QED
          BY <2>1, <3>2, <4>1, StampIsObeyed
    <3>4. ~Adopting(c)'
        BY <1>1, <3>2 DEF Adopting
    <3>5. QED
        BY <1>1, <1>3, <2>4, <3>2, <3>3, <3>4 DEF Following, Adopting
  <2>7. QED
      BY <1>1, <1>3, <1>4, <2>2, <2>4, <2>5, <2>6, OthersGoOn
<1>6. CASE ~unlocked[c]
  <2>1. record' = record /\ crossed' = [crossed EXCEPT ![c] = TRUE]
      BY <1>6 DEF StampsRecord
  <2>2. /\ crossed' \in [Computers -> BOOLEAN] /\ crossed'[c]
        /\ \A d \in Computers \ {c} : crossed'[d] = crossed[d]
      BY <2>1 DEF SettingsInv, SettingsTypes
  <2>3. SettingsTypes'
      BY <1>1, <1>3, <2>1, <2>2 DEF SettingsInv, SettingsTypes
  <2>4. QED
      BY <1>1, <1>3, <1>4, <2>1, <2>2, <2>3, OthersGoOn
<1>7. QED
    BY <1>5, <1>6

LEMMA ReconcilesStep ==
    ASSUME SettingsInv, NEW c \in Computers, Reconciles(c)
    PROVE  SettingsInv'
<1>1. PICK merged : merged = MergeSyncedSettings(record[c], remote.settings)
    OBVIOUS
<1>2. PICK same \in BOOLEAN : same <=> remote.stamp # 0 /\ merged = remote.settings
    OBVIOUS
<1>3. PICK next : next = IF merged # record[c] THEN [at |-> "read", settings |-> merged, push |-> ~same]
                         ELSE IF same THEN NoJob ELSE [at |-> "push"]
    OBVIOUS
<1>4. PICK crossing \in BOOLEAN : crossing <=> crossed[c] \/ (merged # record[c] /\ update[c] # NoJob)
    OBVIOUS
<1>5. /\ unlocked[c] /\ run[c] = NoJob
      /\ record' = [record EXCEPT ![c] = merged]
      /\ UNCHANGED <<file, unlocked, remote, update, clock, chosen, choices, stops>>
    BY <1>1 DEF Reconciles
<1>6. run' = [run EXCEPT ![c] = next]
  <2>1. same = (remote.stamp # 0 /\ merged = remote.settings)
      BY <1>2
  <2>2. run' = [run EXCEPT ![c] =
                    IF merged # record[c]
                    THEN [at |-> "read", settings |-> merged,
                          push |-> ~(remote.stamp # 0 /\ merged = remote.settings)]
                    ELSE IF (remote.stamp # 0 /\ merged = remote.settings) THEN NoJob
                    ELSE [at |-> "push"]]
      BY <1>1, Zenon DEF Reconciles
  <2>3. QED
      BY <1>3, <2>1, <2>2, Zenon
<1>7. crossed' = [crossed EXCEPT ![c] = crossing]
  <2>1. crossing = (crossed[c] \/ (merged # record[c] /\ update[c] # NoJob))
      BY <1>4 DEF SettingsInv, SettingsTypes
  <2>2. crossed' = [crossed EXCEPT ![c] = crossed[c] \/ (merged # record[c] /\ update[c] # NoJob)]
      BY <1>1, Zenon DEF Reconciles
  <2>3. QED
      BY <2>1, <2>2, Zenon
<1>8. merged \in Records
    BY <1>1, MergeIsARecord DEF SettingsInv, SettingsTypes
<1>9. /\ record' \in [Computers -> Records] /\ record'[c] = merged
      /\ \A d \in Computers \ {c} : record'[d] = record[d]
    BY <1>5, <1>8 DEF SettingsInv, SettingsTypes
<1>10. /\ next \in Runs \cup {NoJob}
       /\ merged # record[c] => next # NoJob /\ next.at = "read" /\ next.settings = merged
       /\ merged = record[c] => next = NoJob \/ next.at = "push"
  <2>1. (~same) \in BOOLEAN
      OBVIOUS
  <2>2. CASE merged # record[c]
    <3>1. PICK push \in BOOLEAN : push = (~same)
        BY <2>1
    <3>2. next = [at |-> "read", settings |-> merged, push |-> push]
        BY <1>3, <2>2, <3>1, Zenon
    <3>3. next \in Runs /\ next.at = "read" /\ next.settings = merged
        BY <1>8, <3>2 DEF Runs
    <3>4. QED
        BY <2>2, <3>3, SettingsAssumption
  <2>3. CASE merged = record[c]
    <3>1. next = NoJob \/ next = [at |-> "push"]
        BY <1>3, <2>3
    <3>2. QED
        BY <2>3, <3>1 DEF Runs
  <2>4. QED
      BY <2>2, <2>3
<1>11. /\ run' \in [Computers -> Runs \cup {NoJob}] /\ run'[c] = next
       /\ \A d \in Computers \ {c} : run'[d] = run[d]
    BY <1>6, <1>10 DEF SettingsInv, SettingsTypes
<1>12. /\ crossed' \in [Computers -> BOOLEAN] /\ crossed'[c] = crossing
       /\ \A d \in Computers \ {c} : crossed'[d] = crossed[d]
    BY <1>7 DEF SettingsInv, SettingsTypes
<1>13. SettingsTypes'
    BY <1>5, <1>9, <1>11, <1>12 DEF SettingsInv, SettingsTypes
<1>14. ASSUME ~crossed'[c] PROVE Following(c)'
  <2>1. ~crossed[c] /\ (merged # record[c] => update[c] = NoJob)
      BY <1>4, <1>12, <1>14
  <2>2. Following(c) /\ ~Adopting(c)
      BY <1>5, <2>1 DEF SettingsInv, Adopting
  <2>3. CASE merged # record[c]
      BY <1>5, <1>9, <1>10, <1>11, <2>1, <2>3 DEF Following, Adopting
  <2>4. CASE merged = record[c]
    <3>1. ~Adopting(c)' /\ record'[c] = record[c]
        BY <1>9, <1>10, <1>11, <2>4 DEF Adopting
    <3>2. run'[c] = NoJob \/ run'[c].at = "push"
        BY <1>10, <1>11, <2>4
    <3>3. QED
        BY <1>5, <2>2, <3>1, <3>2 DEF Following, Adopting
  <2>5. QED
      BY <2>3, <2>4
<1>15. unlocked'[c]
    BY <1>5
<1>16. QED
    BY <1>5, <1>9, <1>11, <1>12, <1>13, <1>14, <1>15, OthersGoOn

LEMMA ReadsFileStep ==
    ASSUME SettingsInv, NEW c \in Computers, ReadsFile(c)
    PROVE  SettingsInv'
<1>1. /\ run[c] # NoJob /\ run[c].at = "read"
      /\ UNCHANGED <<file, record, unlocked, moved, seen, remote, update, clock, chosen, crossed, choices, stops>>
    BY DEF ReadsFile
<1>2. PICK values : values = ApplySyncedSettings(c, file[c], run[c].settings)
    OBVIOUS
<1>3. run[c] \in Runs /\ run[c].settings \in Records /\ run[c].push \in BOOLEAN
    BY <1>1, SettingsKinds DEF SettingsInv, SettingsTypes
<1>4. values \in LocalFiles /\ Obeys(c, values, run[c].settings)
    BY <1>2, <1>3, AppliedObeys DEF SettingsInv, SettingsTypes
<1>5. PICK push \in BOOLEAN : push = run[c].push
    BY <1>3
<1>6. PICK next : next = [at |-> "write", push |-> push, next |-> values]
    OBVIOUS
<1>7. next \in Runs /\ next # NoJob /\ next.at = "write" /\ next.next = values
  <2>1. next \in Runs /\ next.at = "write" /\ next.next = values
      BY <1>4, <1>6 DEF Runs
  <2>2. QED
      BY <2>1, SettingsAssumption
<1>8. run' = [run EXCEPT ![c] = next]
    BY <1>2, <1>5, <1>6, Zenon DEF ReadsFile
<1>9. /\ run' \in [Computers -> Runs \cup {NoJob}] /\ run'[c] = next
      /\ \A d \in Computers \ {c} : run'[d] = run[d]
    BY <1>7, <1>8 DEF SettingsInv, SettingsTypes
<1>10. SettingsTypes'
    BY <1>1, <1>9 DEF SettingsInv, SettingsTypes
<1>11. ASSUME unlocked'[c], ~crossed'[c] PROVE Following(c)'
  <2>1. Following(c) /\ Adopting(c)
      BY <1>1, <1>11 DEF SettingsInv, Adopting
  <2>2. update[c] = NoJob /\ run[c].settings = record[c]
      BY <1>1, <2>1 DEF Following
  <2>3. QED
      BY <1>1, <1>4, <1>7, <1>9, <2>2 DEF Following, Adopting
<1>12. ~unlocked'[c] => run'[c] = NoJob
    BY <1>1 DEF SettingsInv
<1>13. QED
    BY <1>1, <1>9, <1>10, <1>11, <1>12, OthersGoOn

LEMMA AdoptsSettingsStep ==
    ASSUME SettingsInv, NEW c \in Computers, AdoptsSettings(c)
    PROVE  SettingsInv'
<1>1. /\ run[c] # NoJob /\ run[c].at = "write"
      /\ file' = [file EXCEPT ![c] = run[c].next]
      /\ UNCHANGED <<record, unlocked, moved, seen, remote, update, clock, chosen, crossed, choices, stops>>
    BY DEF AdoptsSettings, Writing
<1>2. PICK next : next = IF run[c].push THEN [at |-> "push"] ELSE NoJob
    OBVIOUS
<1>3. run' = [run EXCEPT ![c] = next]
    BY <1>2 DEF AdoptsSettings
<1>4. next = NoJob \/ (next \in Runs /\ next.at = "push")
    BY <1>2 DEF Runs
<1>5. /\ run' \in [Computers -> Runs \cup {NoJob}] /\ run'[c] = next
      /\ \A d \in Computers \ {c} : run'[d] = run[d]
    BY <1>3, <1>4 DEF SettingsInv, SettingsTypes
<1>6. PICK values \in LocalFiles : values = run[c].next
    BY <1>1, SettingsKinds DEF SettingsInv, SettingsTypes
<1>7. /\ file' \in [Computers -> LocalFiles] /\ file'[c] = values
      /\ \A d \in Computers \ {c} : file'[d] = file[d]
    BY <1>1, <1>6 DEF SettingsInv, SettingsTypes
<1>8. SettingsTypes'
    BY <1>1, <1>5, <1>7 DEF SettingsInv, SettingsTypes
<1>9. ASSUME unlocked'[c], ~crossed'[c] PROVE Following(c)'
  <2>1. Following(c) /\ Adopting(c)
      BY <1>1, <1>9 DEF SettingsInv, Adopting
  <2>2. update[c] = NoJob /\ Obeys(c, values, record[c])
      BY <1>1, <1>6, <2>1 DEF Following
  <2>3. QED
      BY <1>1, <1>4, <1>5, <1>7, <2>2 DEF Following, Adopting
<1>10. unlocked'[c]
    BY <1>1 DEF SettingsInv
<1>11. QED
    BY <1>1, <1>5, <1>7, <1>8, <1>9, <1>10, OthersGoOn

LEMMA PublishesStep ==
    ASSUME SettingsInv, NEW c \in Computers, Publishes(c)
    PROVE  SettingsInv'
<1>1. /\ run[c] # NoJob /\ run[c].at = "push"
      /\ remote' = [stamp |-> remote.stamp + 1, settings |-> record[c]]
      /\ run' = [run EXCEPT ![c] = NoJob]
      /\ UNCHANGED <<file, record, unlocked, update, clock, chosen, crossed, choices, stops>>
    BY DEF Publishes
<1>2. remote' \in [stamp : Nat, settings : Records]
    BY <1>1 DEF SettingsInv, SettingsTypes
<1>3. /\ run' \in [Computers -> Runs \cup {NoJob}] /\ run'[c] = NoJob
      /\ \A d \in Computers \ {c} : run'[d] = run[d]
    BY <1>1 DEF SettingsInv, SettingsTypes
<1>4. SettingsTypes'
    BY <1>1, <1>2, <1>3 DEF SettingsInv, SettingsTypes
<1>5. ASSUME unlocked'[c], ~crossed'[c] PROVE Following(c)'
  <2>1. Following(c) /\ ~Adopting(c)
      BY <1>1, <1>5 DEF SettingsInv, Adopting
  <2>2. ~Adopting(c)'
      BY <1>3 DEF Adopting
  <2>3. QED
      BY <1>1, <1>3, <2>1, <2>2 DEF Following
<1>6. QED
    BY <1>1, <1>3, <1>4, <1>5, OthersGoOn

LEMMA LocksSettingsStep ==
    ASSUME SettingsInv, NEW c \in Computers, LocksSettings(c)
    PROVE  SettingsInv'
<1>1. /\ unlocked' = [unlocked EXCEPT ![c] = FALSE]
      /\ run' = [run EXCEPT ![c] = NoJob]
      /\ UNCHANGED <<file, record, seen, remote, update, clock, chosen, crossed, choices>>
    BY DEF LocksSettings
<1>2. /\ unlocked' \in [Computers -> BOOLEAN] /\ ~unlocked'[c]
      /\ \A d \in Computers \ {c} : unlocked'[d] = unlocked[d]
    BY <1>1 DEF SettingsInv, SettingsTypes
<1>3. /\ run' \in [Computers -> Runs \cup {NoJob}] /\ run'[c] = NoJob
      /\ \A d \in Computers \ {c} : run'[d] = run[d]
    BY <1>1 DEF SettingsInv, SettingsTypes
<1>4. SettingsTypes'
    BY <1>1, <1>2, <1>3 DEF SettingsInv, SettingsTypes
<1>5. QED
    BY <1>1, <1>2, <1>3, <1>4, OthersGoOn

LEMMA UnlocksSettingsStep ==
    ASSUME SettingsInv, NEW c \in Computers, UnlocksSettings(c)
    PROVE  SettingsInv'
<1>1. /\ ~unlocked[c] /\ update[c] = NoJob
      /\ unlocked' = [unlocked EXCEPT ![c] = TRUE]
      /\ file' = [file EXCEPT ![c] = ApplySyncedSettings(c, file[c], record[c])]
      /\ crossed' = [crossed EXCEPT ![c] = FALSE]
      /\ UNCHANGED <<record, moved, seen, remote, update, run, clock, chosen, choices, stops>>
    BY DEF UnlocksSettings, VaultSettings
<1>2. PICK values : values = ApplySyncedSettings(c, file[c], record[c])
    OBVIOUS
<1>3. values \in LocalFiles /\ Obeys(c, values, record[c])
    BY <1>2, AppliedObeys DEF SettingsInv, SettingsTypes
<1>4. /\ file' \in [Computers -> LocalFiles] /\ file'[c] = values
      /\ \A d \in Computers \ {c} : file'[d] = file[d]
    BY <1>1, <1>2, <1>3 DEF SettingsInv, SettingsTypes
<1>5. /\ unlocked' \in [Computers -> BOOLEAN] /\ unlocked'[c]
      /\ \A d \in Computers \ {c} : unlocked'[d] = unlocked[d]
    BY <1>1 DEF SettingsInv, SettingsTypes
<1>6. /\ crossed' \in [Computers -> BOOLEAN]
      /\ \A d \in Computers \ {c} : crossed'[d] = crossed[d]
    BY <1>1 DEF SettingsInv, SettingsTypes
<1>7. SettingsTypes'
    BY <1>1, <1>4, <1>5, <1>6 DEF SettingsInv, SettingsTypes
<1>8. run[c] = NoJob
    BY <1>1 DEF SettingsInv
<1>9. Following(c)'
    BY <1>1, <1>3, <1>4, <1>8 DEF Following, Adopting
<1>10. QED
    BY <1>1, <1>4, <1>5, <1>6, <1>7, <1>9, OthersGoOn

LEMMA SettingsWorkerDiesStep ==
    ASSUME SettingsInv, NEW c \in Computers, SettingsWorkerDies(c)
    PROVE  SettingsInv'
<1>1. /\ crossed' = [crossed EXCEPT ![c] = crossed[c] \/ Adopting(c) \/ update[c] # NoJob]
      /\ run' = [run EXCEPT ![c] = NoJob]
      /\ update' = [update EXCEPT ![c] = NoJob]
      /\ UNCHANGED <<file, record, unlocked, seen, remote, clock, chosen, choices>>
    BY DEF SettingsWorkerDies
<1>2. PICK crossing \in BOOLEAN : crossing <=> crossed[c] \/ Adopting(c) \/ update[c] # NoJob
    OBVIOUS
<1>3. crossed' = [crossed EXCEPT ![c] = crossing]
  <2>1. crossing = (crossed[c] \/ Adopting(c) \/ update[c] # NoJob)
      BY <1>2 DEF Adopting, SettingsInv, SettingsTypes
  <2>2. QED
      BY <1>1, <2>1, Zenon
<1>4. /\ crossed' \in [Computers -> BOOLEAN] /\ crossed'[c] = crossing
      /\ \A d \in Computers \ {c} : crossed'[d] = crossed[d]
    BY <1>3 DEF SettingsInv, SettingsTypes
<1>5. /\ run' \in [Computers -> Runs \cup {NoJob}] /\ run'[c] = NoJob
      /\ \A d \in Computers \ {c} : run'[d] = run[d]
    BY <1>1 DEF SettingsInv, SettingsTypes
<1>6. /\ update' \in [Computers -> Updates \cup {NoJob}] /\ update'[c] = NoJob
      /\ \A d \in Computers \ {c} : update'[d] = update[d]
    BY <1>1 DEF SettingsInv, SettingsTypes
<1>7. SettingsTypes'
    BY <1>1, <1>4, <1>5, <1>6 DEF SettingsInv, SettingsTypes
<1>8. ASSUME unlocked'[c], ~crossed'[c] PROVE Following(c)'
  <2>1. ~crossed[c] /\ ~Adopting(c) /\ update[c] = NoJob
      BY <1>2, <1>4, <1>8
  <2>2. Obeys(c, file[c], record[c])
      BY <1>1, <1>8, <2>1 DEF SettingsInv, Following
  <2>3. QED
      BY <1>1, <1>5, <1>6, <2>2 DEF Following, Adopting
<1>9. QED
    BY <1>1, <1>4, <1>5, <1>6, <1>7, <1>8, OthersGoOn

LEMMA SettingsStep == SettingsInv /\ [SettingsSyncNext]_settingsSync => SettingsInv'
<1> SUFFICES ASSUME SettingsInv, [SettingsSyncNext]_settingsSync PROVE SettingsInv'
    OBVIOUS
<1>1. CASE SettingsTick
  <2>1. /\ UNCHANGED <<file, record, unlocked, remote, update, run, crossed>>
        /\ clock' \in Nat
      BY <1>1 DEF SettingsTick, SettingsInv, SettingsTypes
  <2>2. SettingsTypes'
      BY <2>1 DEF SettingsInv, SettingsTypes
  <2>3. QED
      BY <2>1, <2>2 DEF SettingsInv, Following, Adopting
<1>2. CASE UNCHANGED settingsSync
  <2>1. UNCHANGED <<file, record, unlocked, remote, update, run, crossed, clock>>
      BY <1>2 DEF settingsSync
  <2>2. SettingsTypes'
      BY <2>1 DEF SettingsInv, SettingsTypes
  <2>3. QED
      BY <2>1, <2>2 DEF SettingsInv, Following, Adopting
<1>3. ASSUME NEW c \in Computers,
             \/ Patches(c) \/ WritesPatch(c) \/ StampsRecord(c)
             \/ Reconciles(c) \/ ReadsFile(c) \/ AdoptsSettings(c) \/ Publishes(c)
             \/ LocksSettings(c) \/ UnlocksSettings(c) \/ SettingsWorkerDies(c)
      PROVE  SettingsInv'
    BY <1>3, PatchesStep, WritesPatchStep, StampsRecordStep, ReconcilesStep, ReadsFileStep, AdoptsSettingsStep,
       PublishesStep, LocksSettingsStep, UnlocksSettingsStep, SettingsWorkerDiesStep
<1>4. QED
    BY <1>1, <1>2, <1>3 DEF SettingsSyncNext

(* With no handler in the middle of writing it, the file the program obeys  *)
(* holds the vault's value of every setting its build knows, on any number  *)
(* of computers, unless two handlers wrote it across each other or a worker *)
(* died between the file and the stamp.                                     *)
THEOREM FileAlwaysFollowsVault == SettingsSyncSpec => []FileFollowsVault
<1>1. SettingsSyncInit => SettingsInv
    BY SettingsStart
<1>2. SettingsInv /\ [SettingsSyncNext]_settingsSync => SettingsInv'
    BY SettingsStep
<1>3. SettingsInv => FileFollowsVault
  <2> SUFFICES ASSUME SettingsInv, NEW c \in Computers,
                      update[c] = NoJob, run[c] = NoJob, unlocked[c], ~crossed[c]
               PROVE  file[c] = ApplySyncedSettings(c, file[c], record[c])
      BY DEF FileFollowsVault
  <2>1. Obeys(c, file[c], record[c])
      BY DEF SettingsInv, Following, Adopting
  <2>2. \A f \in Fields : file[c][f] = IF record[c][f] # Unset /\ record[c][f].v \in Known[c]
                                       THEN record[c][f].v ELSE file[c][f]
      BY <2>1 DEF Obeys
  <2>3. file[c] = [f \in Fields |-> file[c][f]]
      BY DEF SettingsInv, SettingsTypes, LocalFiles
  <2>4. QED
      BY <2>2, <2>3 DEF ApplySyncedSettings
<1>4. QED
    BY <1>1, <1>2, <1>3, PTL DEF SettingsSyncSpec

(* A stamp that another does not replace.                                  *)
Outranks(a, b) == NewerField(a, b) = a

LEMMA StampsAreOrdered ==
    ASSUME NEW a \in Stamped, NEW b \in Stamped
    PROVE  /\ NewerField(a, b) \in {a, b}
           /\ Outranks(a, a)
           /\ Outranks(NewerField(a, b), a)
           /\ Outranks(NewerField(a, b), b)
<1>1. CASE a = Unset \/ b = Unset
    BY <1>1 DEF Outranks, NewerField
<1>2. CASE a # Unset /\ b # Unset
  <2>1. a \in [v : Nat, at : Nat] /\ b \in [v : Nat, at : Nat]
      BY <1>2 DEF Stamped
  <2>2. /\ a.v \in Nat /\ a.at \in Nat /\ b.v \in Nat /\ b.at \in Nat
        /\ a.v = b.v /\ a.at = b.at => a = b
      BY <2>1
  <2>3. QED
      BY <1>2, <2>2 DEF Outranks, NewerField
<1>3. QED
    BY <1>1, <1>2

LEMMA RankIsTransitive ==
    ASSUME NEW a \in Stamped, NEW b \in Stamped, NEW x \in Stamped, Outranks(a, b), Outranks(b, x)
    PROVE  Outranks(a, x)
<1>1. CASE a = Unset \/ b = Unset \/ x = Unset
    BY <1>1 DEF Outranks, NewerField
<1>2. CASE a # Unset /\ b # Unset /\ x # Unset
  <2>1. a \in [v : Nat, at : Nat] /\ b \in [v : Nat, at : Nat] /\ x \in [v : Nat, at : Nat]
      BY <1>2 DEF Stamped
  <2>2. /\ a.v \in Nat /\ a.at \in Nat /\ b.v \in Nat /\ b.at \in Nat /\ x.v \in Nat /\ x.at \in Nat
        /\ a.v = x.v /\ a.at = x.at => a = x
        /\ a.v = b.v /\ a.at = b.at => a = b
        /\ b.v = x.v /\ b.at = x.at => b = x
      BY <2>1
  <2>3. QED
      BY <1>2, <2>2 DEF Outranks, NewerField
<1>3. QED
    BY <1>1, <1>2

(* Two records of which each outranks the other are the same: what is       *)
(* newest is so on every computer.                                         *)
LEMMA NewestIsOne ==
    ASSUME NEW a \in Stamped, NEW b \in Stamped, Outranks(a, b), Outranks(b, a)
    PROVE  a = b
<1>1. CASE a = Unset \/ b = Unset
    BY <1>1 DEF Outranks, NewerField
<1>2. CASE a # Unset /\ b # Unset
  <2>1. a \in [v : Nat, at : Nat] /\ b \in [v : Nat, at : Nat]
      BY <1>2 DEF Stamped
  <2>2. /\ a.v \in Nat /\ a.at \in Nat /\ b.v \in Nat /\ b.at \in Nat
        /\ a.v = b.v /\ a.at = b.at => a = b
      BY <2>1
  <2>3. QED
      BY <1>2, <2>2 DEF Outranks, NewerField
<1>3. QED
    BY <1>1, <1>2

(* Every stamp in a vault, here or at the provider, is of a choice, and no  *)
(* choice is lost: the record of some computer holds it or a newer one.     *)
ChoicesKept ==
    /\ chosen \in [Fields -> SUBSET [v : Nat, at : Nat]]
    /\ \A f \in Fields : remote.settings[f] \in chosen[f] \cup {Unset}
    /\ \A c \in Computers, f \in Fields : record[c][f] \in chosen[f] \cup {Unset}
    /\ \A f \in Fields : \A choice \in chosen[f] : \E c \in Computers : Outranks(record[c][f], choice)

(* A computer that has nothing to send and has seen the last push holds     *)
(* what that push wrote.                                                   *)
Level(c) == ~moved[c] /\ seen[c] = remote.stamp => record[c] = remote.settings

Levels ==
    /\ moved \in [Computers -> BOOLEAN] /\ seen \in [Computers -> Nat]
    /\ \A c \in Computers : seen[c] <= remote.stamp /\ Level(c)

ChoicesInv == SettingsInv /\ ChoicesKept /\ Levels

LEMMA ChoicesStart == SettingsSyncInit => ChoicesInv
<1> SUFFICES ASSUME SettingsSyncInit PROVE ChoicesInv
    OBVIOUS
<1>1. \A f \in Fields : EmptyRecord[f] = Unset
    BY DEF EmptyRecord
<1>2. ChoicesKept
    BY <1>1 DEF SettingsSyncInit, ChoicesKept
<1>3. Levels
    BY DEF SettingsSyncInit, Levels, Level
<1>4. QED
    BY <1>2, <1>3, SettingsStart DEF ChoicesInv

LEMMA StampsRecordKeepsChoices ==
    ASSUME ChoicesInv, NEW c \in Computers, StampsRecord(c)
    PROVE  ChoicesKept' /\ Levels'
<1>1. /\ update[c] # NoJob /\ update[c].at = "stamp"
      /\ \A f \in Fields : update[c].next[f] # update[c].previous[f] /\ record[c][f] # Unset
                               => record[c][f].at < clock
      /\ UNCHANGED <<seen, remote>>
    BY DEF StampsRecord
<1>2. PICK job \in Updates : job = update[c]
    BY <1>1 DEF ChoicesInv, SettingsInv, SettingsTypes
<1>3. job.previous \in LocalFiles /\ job.next \in LocalFiles /\ clock \in Nat /\ record \in [Computers -> Records]
    BY <1>2, SettingsKinds DEF ChoicesInv, SettingsInv, SettingsTypes
<1>4. CASE ~unlocked[c]
  <2>1. UNCHANGED <<record, moved, chosen>>
      BY <1>4 DEF StampsRecord
  <2>2. QED
      BY <1>1, <2>1 DEF ChoicesInv, ChoicesKept, Levels, Level
<1>5. CASE unlocked[c]
  <2>1. PICK stamped : stamped = StampSettings(record[c], job.previous, job.next, clock)
      OBVIOUS
  <2>2. /\ record' = [record EXCEPT ![c] = stamped]
        /\ moved' = [moved EXCEPT ![c] = moved[c] \/ stamped # record[c]]
        /\ chosen' = [f \in Fields |-> IF job.next[f] # job.previous[f]
                                       THEN chosen[f] \cup {[v |-> job.next[f], at |-> clock]}
                                       ELSE chosen[f]]
      BY <1>2, <1>5, <2>1, Zenon DEF StampsRecord
  <2>3. record'[c] = stamped /\ \A d \in Computers \ {c} : record'[d] = record[d]
      BY <1>3, <2>2
  <2>4. PICK went \in BOOLEAN : went <=> moved[c] \/ stamped # record[c]
      OBVIOUS
  <2>5. /\ moved' \in [Computers -> BOOLEAN] /\ (moved'[c] <=> moved[c] \/ stamped # record[c])
        /\ \A d \in Computers \ {c} : moved'[d] = moved[d]
    <3>1. went = (moved[c] \/ stamped # record[c])
        BY <2>4 DEF ChoicesInv, Levels
    <3>2. moved' = [moved EXCEPT ![c] = went]
        BY <2>2, <3>1, Zenon
    <3>3. QED
        BY <2>4, <3>2 DEF ChoicesInv, Levels
  <2>6. Levels'
      BY <1>1, <2>3, <2>5 DEF ChoicesInv, Levels, Level
  <2>7. ASSUME NEW f \in Fields
        PROVE  /\ chosen'[f] \in SUBSET [v : Nat, at : Nat]
               /\ chosen[f] \subseteq chosen'[f]
               /\ stamped[f] \in chosen'[f] \cup {Unset}
               /\ stamped[f] \in Stamped
               /\ Outranks(stamped[f], record[c][f])
               /\ \A choice \in chosen'[f] \ chosen[f] : choice = stamped[f]
    <3>1. record[c][f] \in Stamped /\ record[c][f] \in chosen[f] \cup {Unset}
          /\ chosen[f] \in SUBSET [v : Nat, at : Nat] /\ job.next[f] \in Nat
        BY <1>3 DEF Records, LocalFiles, ChoicesInv, ChoicesKept
    <3>2. CASE job.next[f] = job.previous[f]
      <4>1. stamped[f] = record[c][f] /\ chosen'[f] = chosen[f]
          BY <2>1, <2>2, <3>2 DEF StampSettings
      <4>2. QED
          BY <3>1, <4>1, StampsAreOrdered
    <3>3. CASE job.next[f] # job.previous[f]
      <4>1. PICK stamp \in [v : Nat, at : Nat] : stamp = [v |-> job.next[f], at |-> clock]
          BY <1>3, <3>1
      <4>2. stamped[f] = stamp /\ chosen'[f] = chosen[f] \cup {stamp} /\ stamp.at = clock /\ stamp # Unset
          BY <2>1, <2>2, <3>3, <4>1, SettingsAssumption DEF StampSettings
      <4>3. record[c][f] = Unset \/ (record[c][f] \in [v : Nat, at : Nat] /\ record[c][f].at < clock)
          BY <1>1, <1>2, <3>1, <3>3 DEF Stamped
      <4>4. Outranks(stamp, record[c][f])
          BY <1>3, <4>2, <4>3 DEF Outranks, NewerField
      <4>5. QED
          BY <3>1, <4>2, <4>4 DEF Stamped
    <3>4. QED
        BY <3>2, <3>3
  <2>8. chosen' \in [Fields -> SUBSET [v : Nat, at : Nat]]
      BY <2>2, <2>7
  <2>9. ASSUME NEW f \in Fields, NEW choice \in chosen'[f]
        PROVE  \E d \in Computers : Outranks(record'[d][f], choice)
    <3>1. CASE choice \in chosen[f]
      <4>1. PICK d \in Computers : Outranks(record[d][f], choice)
          BY <3>1 DEF ChoicesInv, ChoicesKept
      <4>2. choice \in Stamped /\ record[d][f] \in Stamped
          BY <1>3, <2>7 DEF Records, Stamped
      <4>3. QED
          BY <2>3, <2>7, <4>1, <4>2, RankIsTransitive
    <3>2. CASE choice \notin chosen[f]
        BY <2>3, <2>7, <3>2, StampsAreOrdered
    <3>3. QED
        BY <3>1, <3>2
  <2>10. ASSUME NEW d \in Computers, NEW f \in Fields
         PROVE  record'[d][f] \in chosen'[f] \cup {Unset}
      BY <2>3, <2>7 DEF ChoicesInv, ChoicesKept
  <2>11. ChoicesKept'
      BY <1>1, <2>7, <2>8, <2>9, <2>10 DEF ChoicesInv, ChoicesKept
  <2>12. QED
      BY <2>6, <2>11
<1>6. QED
    BY <1>4, <1>5

LEMMA ReconcilesKeepsChoices ==
    ASSUME ChoicesInv, NEW c \in Computers, Reconciles(c)
    PROVE  ChoicesKept' /\ Levels'
<1>1. PICK merged : merged = MergeSyncedSettings(record[c], remote.settings)
    OBVIOUS
<1>2. PICK same \in BOOLEAN : same <=> remote.stamp # 0 /\ merged = remote.settings
    OBVIOUS
<1>3. /\ moved[c] \/ remote.stamp # seen[c]
      /\ record' = [record EXCEPT ![c] = merged]
      /\ UNCHANGED <<remote, chosen>>
    BY <1>1 DEF Reconciles
<1>4. record \in [Computers -> Records] /\ remote.settings \in Records /\ remote.stamp \in Nat
    BY DEF ChoicesInv, SettingsInv, SettingsTypes
<1>5. record'[c] = merged /\ \A d \in Computers \ {c} : record'[d] = record[d]
    BY <1>3, <1>4
<1>6. same = (remote.stamp # 0 /\ merged = remote.settings)
    BY <1>2
<1>7. /\ moved' = [moved EXCEPT ![c] = moved[c] /\ ~same]
      /\ seen' = [seen EXCEPT ![c] = IF same THEN remote.stamp ELSE seen[c]]
    BY <1>1, <1>6, Zenon DEF Reconciles
<1>8. /\ moved' \in [Computers -> BOOLEAN] /\ (moved'[c] <=> moved[c] /\ ~same)
      /\ \A d \in Computers \ {c} : moved'[d] = moved[d]
  <2>1. PICK stays \in BOOLEAN : stays = (moved[c] /\ ~same)
      BY DEF ChoicesInv, Levels
  <2>2. moved' = [moved EXCEPT ![c] = stays]
      BY <1>7, <2>1, Zenon
  <2>3. QED
      BY <2>1, <2>2 DEF ChoicesInv, Levels
<1>9. /\ seen' \in [Computers -> Nat] /\ seen'[c] = IF same THEN remote.stamp ELSE seen[c]
      /\ \A d \in Computers \ {c} : seen'[d] = seen[d]
    BY <1>4, <1>7 DEF ChoicesInv, Levels
<1>10. Levels'
    BY <1>2, <1>3, <1>5, <1>8, <1>9 DEF ChoicesInv, Levels, Level
<1>11. ASSUME NEW f \in Fields
       PROVE  /\ merged[f] \in chosen[f] \cup {Unset} /\ merged[f] \in Stamped
              /\ Outranks(merged[f], record[c][f])
  <2>1. record[c][f] \in Stamped /\ remote.settings[f] \in Stamped
      BY <1>4 DEF Records
  <2>2. merged[f] = NewerField(record[c][f], remote.settings[f])
      BY <1>1 DEF MergeSyncedSettings
  <2>3. record[c][f] \in chosen[f] \cup {Unset} /\ remote.settings[f] \in chosen[f] \cup {Unset}
      BY DEF ChoicesInv, ChoicesKept
  <2>4. QED
      BY <2>1, <2>2, <2>3, StampsAreOrdered
<1>12. ASSUME NEW f \in Fields, NEW choice \in chosen[f]
       PROVE  \E d \in Computers : Outranks(record'[d][f], choice)
  <2>1. PICK d \in Computers : Outranks(record[d][f], choice)
      BY DEF ChoicesInv, ChoicesKept
  <2>2. choice \in Stamped /\ record[d][f] \in Stamped
      BY <1>4 DEF Records, Stamped, ChoicesInv, ChoicesKept
  <2>3. QED
      BY <1>5, <1>11, <2>1, <2>2, RankIsTransitive
<1>13. ChoicesKept'
    BY <1>3, <1>5, <1>11, <1>12 DEF ChoicesInv, ChoicesKept
<1>14. QED
    BY <1>10, <1>13

LEMMA PublishesKeepsChoices ==
    ASSUME ChoicesInv, NEW c \in Computers, Publishes(c)
    PROVE  ChoicesKept' /\ Levels'
<1>1. /\ remote' = [stamp |-> remote.stamp + 1, settings |-> record[c]]
      /\ seen' = [seen EXCEPT ![c] = remote.stamp + 1]
      /\ moved' = [moved EXCEPT ![c] = FALSE]
      /\ UNCHANGED <<record, chosen>>
    BY DEF Publishes
<1>2. remote.stamp \in Nat /\ remote'.stamp = remote.stamp + 1 /\ remote'.settings = record[c]
    BY <1>1 DEF ChoicesInv, SettingsInv, SettingsTypes
<1>3. /\ seen' \in [Computers -> Nat] /\ seen'[c] = remote.stamp + 1
      /\ moved' \in [Computers -> BOOLEAN]
      /\ \A d \in Computers \ {c} : seen'[d] = seen[d] /\ moved'[d] = moved[d]
    BY <1>1, <1>2 DEF ChoicesInv, Levels
<1>4. \A d \in Computers : seen[d] \in Nat /\ seen[d] <= remote.stamp
    BY DEF ChoicesInv, Levels
<1>5. Levels'
    BY <1>1, <1>2, <1>3, <1>4 DEF Levels, Level
<1>6. ChoicesKept'
    BY <1>1, <1>2 DEF ChoicesInv, ChoicesKept
<1>7. QED
    BY <1>5, <1>6

(* A run that is stopped has its computer try again.                       *)
LEMMA StopsKeepChoices ==
    ASSUME ChoicesInv, NEW c \in Computers, LocksSettings(c) \/ SettingsWorkerDies(c)
    PROVE  ChoicesKept' /\ Levels'
<1>1. /\ moved' = [moved EXCEPT ![c] = moved[c] \/ run[c] # NoJob]
      /\ UNCHANGED <<record, seen, remote, chosen>>
    BY DEF LocksSettings, SettingsWorkerDies
<1>2. PICK went \in BOOLEAN : went = (moved[c] \/ run[c] # NoJob)
    BY DEF ChoicesInv, Levels
<1>3. moved' = [moved EXCEPT ![c] = went]
    BY <1>1, <1>2, Zenon
<1>4. moved' \in [Computers -> BOOLEAN] /\ \A d \in Computers : moved[d] => moved'[d]
    BY <1>2, <1>3 DEF ChoicesInv, Levels
<1>5. QED
    BY <1>1, <1>4 DEF ChoicesInv, ChoicesKept, Levels, Level

LEMMA ChoicesStep == ChoicesInv /\ [SettingsSyncNext]_settingsSync => ChoicesInv'
<1> SUFFICES ASSUME ChoicesInv, [SettingsSyncNext]_settingsSync PROVE ChoicesInv'
    OBVIOUS
<1>1. SettingsInv'
    BY SettingsStep DEF ChoicesInv
<1>2. ASSUME UNCHANGED <<record, moved, seen, remote, chosen>> PROVE ChoicesKept' /\ Levels'
    BY <1>2 DEF ChoicesInv, ChoicesKept, Levels, Level
<1>3. ASSUME SettingsTick \/ UNCHANGED settingsSync PROVE ChoicesKept' /\ Levels'
    BY <1>2, <1>3 DEF SettingsTick, settingsSync
<1>4. ASSUME NEW c \in Computers,
             Patches(c) \/ WritesPatch(c) \/ ReadsFile(c) \/ AdoptsSettings(c) \/ UnlocksSettings(c)
      PROVE  ChoicesKept' /\ Levels'
    BY <1>2, <1>4 DEF Patches, WritesPatch, ReadsFile, AdoptsSettings, UnlocksSettings
<1>5. ASSUME NEW c \in Computers,
             \/ Patches(c) \/ WritesPatch(c) \/ StampsRecord(c)
             \/ Reconciles(c) \/ ReadsFile(c) \/ AdoptsSettings(c) \/ Publishes(c)
             \/ LocksSettings(c) \/ UnlocksSettings(c) \/ SettingsWorkerDies(c)
      PROVE  ChoicesKept' /\ Levels'
    BY <1>4, <1>5, StampsRecordKeepsChoices, ReconcilesKeepsChoices, PublishesKeepsChoices, StopsKeepChoices
<1>6. QED
    BY <1>1, <1>3, <1>5 DEF SettingsSyncNext, ChoicesInv

LEMMA InStepHoldsTheLatest == ChoicesInv => LatestChoiceWins
<1> SUFFICES ASSUME ChoicesInv, \A d \in Computers : InStep(d), NEW c \in Computers, NEW f \in Fields
             PROVE  /\ record[c][f] \in chosen[f] \cup {Unset}
                    /\ \A choice \in chosen[f] : NewerField(record[c][f], choice) = record[c][f]
    BY DEF LatestChoiceWins
<1>1. \A d \in Computers : record[d] = remote.settings
    BY DEF InStep, ChoicesInv, Levels, Level
<1>2. QED
    BY <1>1 DEF ChoicesInv, ChoicesKept, Outranks

(* The settings that travel, on any number of computers whose runs, locks,  *)
(* crashes and pushes over one another come in any order: once all are in   *)
(* step each field is on every one of them the newest choice made anywhere, *)
(* and a program at rest obeys its vault's record.                          *)
THEOREM SettingsAlwaysHold == SettingsSyncSpec => []SettingsHold
<1>1. SettingsSyncInit => ChoicesInv
    BY ChoicesStart
<1>2. ChoicesInv /\ [SettingsSyncNext]_settingsSync => ChoicesInv'
    BY ChoicesStep
<1>3. ChoicesInv => LatestChoiceWins
    BY InStepHoldsTheLatest
<1>4. QED
    BY <1>1, <1>2, <1>3, FileAlwaysFollowsVault, PTL DEF SettingsSyncSpec, SettingsHold

-----------------------------------------------------------------------------
(* Restoring: backups, restores and the undo.                              *)

Passwords == {"", "ours", "other"} \cup Brief
Backups ==
    [kind : {"backup"}, newer : {FALSE}, weak : {FALSE}, sealedWith : Passwords, damaged : {FALSE}, holds : SUBSET Marks]
IoFiles == FilesAround \cup Backups

Stages ==
    {"rest", "backup", "sealing", "reading", "password", "previewing", "mode", "counting", "phrase", "last",
     "importing", "painting", "undo", "undoing"}
Modes == {"none", "vault", "custom", "merge", "replace"}
Replies ==
    {"none", "fine", "refused", "disputed", "VAULT_LOCKED", "UNSUPPORTED_SCHEMA", "CORRUPT_VAULT", "WRONG_PASSWORD"}

IoRuns ==
    [at : Stages, mine : BOOLEAN, file : IoFiles \cup {0}, password : Passwords, mode : Modes,
     count : Nat, reply : Replies, disputed : BOOLEAN, undo : BOOLEAN]

Chronicles ==
    [elsewhere : BOOLEAN, failed : BOOLEAN, crossed : BOOLEAN, strayed : BOOLEAN,
     mixed : BOOLEAN, misled : BOOLEAN, swapped : BOOLEAN]

RestoringTypes ==
    /\ holdings \in SUBSET Marks
    /\ wayBack \in (SUBSET Marks) \cup {NoWay}
    /\ vaultOpen \in BOOLEAN
    /\ ioRuns \in [IoJobs -> IoRuns]
    /\ dialogs \in Seq(IoJobs)
    /\ ioPage \in IoScreens \cup {NotUp}
    /\ chronicle \in Chronicles

(* What a job knows by the await it has reached: only one that waits for    *)
(* the worker has a reply, a restore has its file, and what is about to be  *)
(* handed over is sealed under the password that was typed.                 *)
AwaitsWorker == {"sealing", "previewing", "counting", "importing", "painting", "undoing"}
Restore == {"reading", "password", "previewing", "mode", "counting", "phrase", "last", "importing"}

Knows(r) ==
    /\ r.reply # "none" => r.at \in AwaitsWorker
    /\ r.at \in Restore => r.file \in IoFiles
    /\ r.at = "sealing" /\ r.reply = "fine" =>
          /\ r.file \in Backups /\ r.file.sealedWith = r.password
          /\ r.mode = "vault" => r.password = VaultPassword

(* A job that may replace the vault without being told again.               *)
Told(r) ==
    \/ r.at \in {"phrase", "last"}
    \/ r.at = "counting" /\ r.reply # "none"
    \/ r.at = "importing" /\ r.reply = "none" /\ r.mode = "replace"

(* A job the bar is up for.                                                 *)
AtWork(r) == r.mine /\ r.at \in {"importing", "undoing"}
Workers == {j \in IoJobs : AtWork(ioRuns[j])}

(* The notice is behind while a job that changed the way back has not asked *)
(* for it again, or the answer it asked for is still to be painted.         *)
Landed(r) == r.at \in {"importing", "undoing"} /\ r.reply \notin {"none", "refused"}
Fresh(r) == r.at = "painting" /\ r.mine /\ (r.reply = "none" \/ (r.undo <=> wayBack # NoWay))
Behind(r) == r.at = "painting" /\ r.mine /\ r.reply # "none" /\ ~(r.undo <=> wayBack # NoWay)

Astray == chronicle.elsewhere \/ chronicle.failed \/ chronicle.crossed \/ chronicle.strayed

JobsKnow == \A j \in IoJobs : Knows(ioRuns[j])

BackupsSealed ==
    \A saved \in handedOver :
        /\ saved.file \in Backups
        /\ saved.mode = "vault" => saved.file.sealedWith = VaultPassword

CountsHold ==
    /\ chronicle.elsewhere \/ chronicle.failed \/
          (~chronicle.misled /\ \A j \in IoJobs : Told(ioRuns[j]) => ioRuns[j].count = Cardinality(holdings))
    /\ ~vaultOpen => chronicle.failed

BarHolds ==
    ioPage # NotUp => /\ ioPage.depth = Cardinality(Workers)
                      /\ ~chronicle.failed => (ioPage.bar # "none" <=> ioPage.depth > 0)

NoticeHolds ==
    Astray \/
    /\ ioPage # NotUp => \/ ioPage.undo <=> wayBack # NoWay
                         \/ \E j \in IoJobs : Landed(ioRuns[j]) \/ Fresh(ioRuns[j])
    /\ (\E j \in IoJobs : Behind(ioRuns[j])) => \E j \in IoJobs : Landed(ioRuns[j])

RestoringInv ==
    /\ RestoringTypes /\ JobsKnow /\ BackupsSealed /\ CountsHold /\ BarHolds /\ NoticeHolds
    /\ ModeWasTicked

(***************************** records and sequences ************************)

LEMMA LeastOf ==
    ASSUME NEW S \in SUBSET Nat, S # {}
    PROVE  Min(S) \in S
<1>1. PICK x \in S : \A y \in S : ~ (<<y, x>> \in OpToRel(<, Nat))
  <2>1. S \subseteq Nat
      OBVIOUS
  <2>2. QED
      BY <2>1, NatLessThanWellFounded, WFMin
<1>2. \A y \in S : x <= y
  <2> SUFFICES ASSUME NEW y \in S, y < x PROVE FALSE
      BY \A y \in S : y \in Nat
  <2>1. <<y, x>> \in OpToRel(<, Nat)
      BY DEF OpToRel
  <2>2. QED
      BY <1>1, <2>1
<1>3. QED
    BY <1>2 DEF Min

LEMMA RemovedIsASequence ==
    ASSUME NEW s \in Seq(IoJobs), NEW j
    PROVE  RemoveFirst(s, j) \in Seq(IoJobs)
<1>1. CASE ~ \E i \in 1 .. Len(s) : s[i] = j
    BY <1>1 DEF RemoveFirst
<1>2. CASE \E i \in 1 .. Len(s) : s[i] = j
  <2> DEFINE I == {i \in 1 .. Len(s) : s[i] = j}
  <2>1. I \in SUBSET Nat /\ I # {}
      BY <1>2
  <2>2. Min(I) \in I
      BY <2>1, LeastOf
  <2>3. RemoveFirst(s, j) = SubSeq(s, 1, Min(I) - 1) \o SubSeq(s, Min(I) + 1, Len(s))
      BY <1>2, <2>1 DEF RemoveFirst, SelectInSeq, RemoveAt
  <2>4. PICK n \in 1 .. Len(s) : n = Min(I)
      BY <2>2
  <2>5. SubSeq(s, 1, n - 1) \in Seq(IoJobs) /\ SubSeq(s, n + 1, Len(s)) \in Seq(IoJobs)
    <3>1. Len(s) \in Nat /\ n \in Nat /\ 1 <= n /\ n <= Len(s) /\ \A i \in 1 .. Len(s) : s[i] \in IoJobs
        BY <2>4
    <3>2. (\A i \in 1 .. (n - 1) : s[i] \in IoJobs) /\ (\A i \in (n + 1) .. Len(s) : s[i] \in IoJobs)
        BY <3>1
    <3>3. QED
        BY <3>1, <3>2, SubSeqProperties
  <2>6. QED
      BY <2>3, <2>4, <2>5
<1>3. QED
    BY <1>1, <1>2

LEMMA JobChanges ==
    ASSUME RestoringTypes, NEW j \in IoJobs, NEW new \in IoRuns, ioRuns' = [ioRuns EXCEPT ![j] = new]
    PROVE  /\ ioRuns' \in [IoJobs -> IoRuns] /\ ioRuns'[j] = new
           /\ \A k \in IoJobs \ {j} : ioRuns'[k] = ioRuns[k]
    BY DEF RestoringTypes

LEMMA NoRunIsARun == NoRun \in IoRuns /\ NoRun.at = "rest" /\ NoRun.reply = "none"
    BY DEF NoRun, IoRuns, Passwords, Stages, Modes, Replies

LEMMA BegunIsARun ==
    ASSUME NEW at \in Stages
    PROVE  /\ Begun(at) \in IoRuns /\ Begun(at).at = at /\ Begun(at).mine /\ Begun(at).reply = "none"
    BY DEF Begun, NoRun, IoRuns, Passwords, Stages, Modes, Replies

(* Reaches(): another stage, and nothing answered yet.                      *)
LEMMA ReachedIsARun ==
    ASSUME RestoringTypes, NEW j \in IoJobs, NEW at \in Stages, Reaches(j, at)
    PROVE  \E new \in IoRuns :
              /\ ioRuns' = [ioRuns EXCEPT ![j] = new]
              /\ new.at = at /\ new.reply = "none" /\ new.mine = ioRuns[j].mine /\ new.file = ioRuns[j].file
              /\ new.mode = ioRuns[j].mode /\ new.count = ioRuns[j].count
<1>1. PICK r \in IoRuns : r = ioRuns[j]
    BY DEF RestoringTypes
<1>2. PICK new : new = [r EXCEPT !.at = at, !.reply = "none"]
    OBVIOUS
<1>3. new \in IoRuns
    BY <1>2 DEF IoRuns, Replies
<1>4. /\ new.at = at /\ new.reply = "none" /\ new.mine = r.mine /\ new.file = r.file
      /\ new.mode = r.mode /\ new.count = r.count
    BY <1>2 DEF IoRuns
<1>5. ioRuns' = [ioRuns EXCEPT ![j] = new]
    BY <1>1, <1>2 DEF Reaches, RestoringTypes
<1>6. QED
    BY <1>1, <1>3, <1>4, <1>5

(***************************** what a step keeps ****************************)

LEMMA CountsStay ==
    ASSUME RestoringTypes, CountsHold, NEW j \in IoJobs, NEW new \in IoRuns, ioRuns' = [ioRuns EXCEPT ![j] = new],
           holdings' = holdings, vaultOpen' = vaultOpen,
           chronicle.elsewhere => chronicle'.elsewhere, chronicle.failed => chronicle'.failed,
           chronicle'.misled => chronicle.misled,
           Told(new) => \/ chronicle.elsewhere \/ chronicle.failed \/ new.count = Cardinality(holdings)
                        \/ Told(ioRuns[j]) /\ new.count = ioRuns[j].count
    PROVE  CountsHold'
<1>1. ioRuns'[j] = new /\ \A k \in IoJobs \ {j} : ioRuns'[k] = ioRuns[k]
    BY JobChanges
<1>2. ~vaultOpen' => chronicle'.failed
    BY DEF CountsHold
<1>3. CASE chronicle.elsewhere \/ chronicle.failed
    BY <1>2, <1>3 DEF CountsHold
<1>4. CASE ~(chronicle.elsewhere \/ chronicle.failed)
  <2>1. ~chronicle'.misled
      BY <1>4 DEF CountsHold
  <2>2. ASSUME NEW k \in IoJobs, Told(ioRuns'[k]) PROVE ioRuns'[k].count = Cardinality(holdings')
    <3>1. CASE k = j
        BY <1>1, <1>4, <2>2, <3>1 DEF CountsHold
    <3>2. CASE k # j
        BY <1>1, <1>4, <2>2, <3>2 DEF CountsHold
    <3>3. QED
        BY <3>1, <3>2
  <2>3. QED
      BY <1>2, <2>1, <2>2 DEF CountsHold, Told
<1>5. QED
    BY <1>3, <1>4

LEMMA WorkersAreFinite ==
    /\ IsFiniteSet(Workers) /\ Cardinality(Workers) \in Nat
    /\ \A j \in IoJobs : j \in Workers <=> AtWork(ioRuns[j])
<1>1. Workers \subseteq IoJobs /\ \A j \in IoJobs : j \in Workers <=> AtWork(ioRuns[j])
    BY DEF Workers
<1>2. IsFiniteSet(Workers)
    BY <1>1, FS_Subset, RestoringAssumption
<1>3. QED
    BY <1>1, <1>2, FS_CardinalityType

LEMMA BarStays ==
    ASSUME RestoringTypes, BarHolds, NEW j \in IoJobs, NEW new \in IoRuns, ioRuns' = [ioRuns EXCEPT ![j] = new],
           AtWork(new) <=> AtWork(ioRuns[j]),
           chronicle.failed => chronicle'.failed,
           \/ ioPage' = ioPage \/ ioPage' = NotUp
           \/ ioPage # NotUp /\ ioPage'.depth = ioPage.depth /\ ioPage'.bar = ioPage.bar
    PROVE  BarHolds'
<1>1. ioRuns'[j] = new /\ \A k \in IoJobs \ {j} : ioRuns'[k] = ioRuns[k]
    BY JobChanges
<1>2. \A k \in IoJobs : AtWork(ioRuns'[k]) <=> AtWork(ioRuns[k])
    BY <1>1
<1>3. Workers' = Workers
    BY <1>2 DEF Workers, AtWork
<1>4. QED
    BY <1>3 DEF BarHolds

LEMMA BarRises ==
    ASSUME RestoringTypes, BarHolds, NEW j \in IoJobs, NEW new \in IoRuns, ioRuns' = [ioRuns EXCEPT ![j] = new],
           ~AtWork(ioRuns[j]), AtWork(new), chronicle'.failed = chronicle.failed, ioPage' = BusyFrom(ioPage)
    PROVE  BarHolds'
<1>1. ioRuns'[j] = new /\ \A k \in IoJobs \ {j} : ioRuns'[k] = ioRuns[k]
    BY JobChanges
<1>2. \A k \in IoJobs : AtWork(ioRuns'[k]) <=> AtWork(ioRuns[k]) \/ k = j
    BY <1>1
<1>3. Workers' = Workers \cup {j}
    BY <1>2 DEF Workers, AtWork
<1>4. Cardinality(Workers') = Cardinality(Workers) + 1
    BY <1>3, WorkersAreFinite, FS_AddElement
<1>5. CASE ioPage = NotUp
    BY <1>5 DEF BusyFrom, BarHolds
<1>6. CASE ioPage # NotUp
  <2>1. ioPage \in IoScreens /\ ioPage' = [ioPage EXCEPT !.depth = @ + 1, !.bar = "working"]
      BY <1>6 DEF RestoringTypes, BusyFrom
  <2>2. ioPage'.depth = ioPage.depth + 1 /\ ioPage'.bar = "working" /\ ioPage.depth \in Nat
      BY <2>1 DEF IoScreens
  <2>3. QED
      BY <1>4, <1>6, <2>2 DEF BarHolds
<1>7. QED
    BY <1>5, <1>6

LEMMA BarFalls ==
    ASSUME RestoringTypes, BarHolds, NEW j \in IoJobs, NEW new \in IoRuns, ioRuns' = [ioRuns EXCEPT ![j] = new],
           AtWork(ioRuns[j]), ~AtWork(new), chronicle'.failed = chronicle.failed, ioPage' = BusyEnds(ioPage)
    PROVE  BarHolds' /\ ioPage' \in IoScreens \cup {NotUp}
<1>1. ioRuns'[j] = new /\ \A k \in IoJobs \ {j} : ioRuns'[k] = ioRuns[k]
    BY JobChanges
<1>2. \A k \in IoJobs : AtWork(ioRuns'[k]) <=> AtWork(ioRuns[k]) /\ k # j
    BY <1>1
<1>3. Workers' = Workers \ {j} /\ j \in Workers
    BY <1>2 DEF Workers, AtWork
<1>4. /\ Cardinality(Workers') = Cardinality(Workers) - 1
      /\ Cardinality(Workers) \in Nat /\ Cardinality(Workers') \in Nat
  <2>1. IsFiniteSet(Workers \ {j}) /\ Cardinality(Workers \ {j}) = Cardinality(Workers) - 1
      BY <1>3, WorkersAreFinite, FS_RemoveElement
  <2>2. QED
      BY <1>3, <2>1, WorkersAreFinite, FS_CardinalityType
<1>5. CASE ioPage = NotUp
    BY <1>5 DEF BusyEnds, BarHolds
<1>6. CASE ioPage # NotUp
  <2>1. /\ ioPage \in IoScreens
        /\ ioPage' = [ioPage EXCEPT !.depth = @ - 1, !.bar = IF ioPage.depth = 1 THEN "none" ELSE @]
      BY <1>6 DEF RestoringTypes, BusyEnds
  <2>2. /\ ioPage'.depth = ioPage.depth - 1 /\ ioPage.depth \in Nat
        /\ ioPage'.bar = IF ioPage.depth = 1 THEN "none" ELSE ioPage.bar
      BY <2>1 DEF IoScreens
  <2>3. ioPage.depth = Cardinality(Workers) /\ ioPage.depth - 1 \in Nat
      BY <1>4, <1>6 DEF BarHolds
  <2>4. BarHolds'
      BY <1>4, <1>6, <2>2, <2>3 DEF BarHolds
  <2>5. ioPage' \in IoScreens
      BY <2>1, <2>3 DEF IoScreens
  <2>6. QED
      BY <2>4, <2>5
<1>7. QED
    BY <1>5, <1>6

(* A worker that seals or imports reports its progress to the last step.    *)
LEMMA CountedToTheEnd ==
    ASSUME RestoringTypes, BarHolds
    PROVE  /\ Counted(ioPage, TRUE) \in IoScreens \cup {NotUp}
           /\ ioPage = NotUp => Counted(ioPage, TRUE) = NotUp
           /\ ioPage # NotUp => /\ Counted(ioPage, TRUE).depth = ioPage.depth
                                /\ Counted(ioPage, TRUE).undo = ioPage.undo
                                /\ Counted(ioPage, TRUE).bar # "none" <=> ioPage.depth > 0
<1>1. CASE ioPage = NotUp
    BY <1>1 DEF Counted
<1>2. CASE ioPage # NotUp
  <2>1. /\ ioPage \in IoScreens
        /\ Counted(ioPage, TRUE) = [ioPage EXCEPT !.bar = IF ioPage.depth > 0 THEN "working" ELSE "none"]
      BY <1>2 DEF RestoringTypes, Counted, Idled
  <2>2. QED
      BY <1>2, <2>1 DEF IoScreens
<1>3. QED
    BY <1>1, <1>2

LEMMA BarCounts ==
    ASSUME RestoringTypes, BarHolds, NEW j \in IoJobs, NEW new \in IoRuns, ioRuns' = [ioRuns EXCEPT ![j] = new],
           AtWork(new) <=> AtWork(ioRuns[j]), ioPage' = Counted(ioPage, TRUE), chronicle.failed => chronicle'.failed
    PROVE  BarHolds'
<1>1. ioRuns'[j] = new /\ \A k \in IoJobs \ {j} : ioRuns'[k] = ioRuns[k]
    BY JobChanges
<1>2. \A k \in IoJobs : AtWork(ioRuns'[k]) <=> AtWork(ioRuns[k])
    BY <1>1
<1>3. Workers' = Workers
    BY <1>2 DEF Workers, AtWork
<1>4. QED
    BY <1>3, CountedToTheEnd DEF BarHolds

LEMMA NoticeStays ==
    ASSUME RestoringTypes, NoticeHolds, NEW j \in IoJobs, NEW new \in IoRuns, ioRuns' = [ioRuns EXCEPT ![j] = new],
           wayBack' = wayBack,
           Astray => Astray',
           ioPage' = NotUp \/ (ioPage # NotUp /\ ioPage'.undo = ioPage.undo),
           Landed(ioRuns[j]) => Landed(new), Fresh(ioRuns[j]) => Fresh(new), Behind(new) => Behind(ioRuns[j])
    PROVE  NoticeHolds'
<1>1. ioRuns'[j] = new /\ \A k \in IoJobs \ {j} : ioRuns'[k] = ioRuns[k]
    BY JobChanges
<1>2. CASE Astray
    BY <1>2 DEF NoticeHolds
<1>3. CASE ~Astray
  <2>1. \A k \in IoJobs : /\ Landed(ioRuns[k]) => Landed(ioRuns'[k])
                          /\ Fresh(ioRuns[k]) => Fresh(ioRuns'[k])
                          /\ Behind(ioRuns'[k]) => Behind(ioRuns[k])
      BY <1>1
  <2>2. QED
      BY <1>3, <2>1 DEF NoticeHolds, Landed, Fresh, Behind
<1>4. QED
    BY <1>2, <1>3

LEMMA JobsKeepKnowing ==
    ASSUME RestoringTypes, JobsKnow, NEW j \in IoJobs, NEW new \in IoRuns, ioRuns' = [ioRuns EXCEPT ![j] = new],
           Knows(new)
    PROVE  JobsKnow'
<1>1. ioRuns'[j] = new /\ \A k \in IoJobs \ {j} : ioRuns'[k] = ioRuns[k]
    BY JobChanges
<1>2. \A k \in IoJobs : Knows(ioRuns'[k])
    BY <1>1 DEF JobsKnow
<1>3. QED
    BY <1>2 DEF JobsKnow, Knows

(* A job away from the bar and the notice goes on to the next await.        *)
Quiet(r) == r.at \notin {"importing", "undoing", "painting"}

LEMMA JobMovesQuietly ==
    ASSUME RestoringInv, NEW j \in IoJobs, NEW new \in IoRuns, ioRuns' = [ioRuns EXCEPT ![j] = new],
           UNCHANGED <<holdings, wayBack, vaultOpen, ioPage, handedOver, chronicle>>,
           dialogs' \in Seq(IoJobs),
           Quiet(ioRuns[j]), Quiet(new), Knows(new),
           Told(new) => \/ chronicle.elsewhere \/ chronicle.failed \/ new.count = Cardinality(holdings)
                        \/ Told(ioRuns[j]) /\ new.count = ioRuns[j].count
    PROVE  RestoringInv'
<1>1. RestoringTypes'
    BY JobChanges DEF RestoringInv, RestoringTypes
<1>2. JobsKnow'
    BY JobsKeepKnowing DEF RestoringInv
<1>3. BackupsSealed' /\ ModeWasTicked'
    BY DEF RestoringInv, BackupsSealed, ModeWasTicked
<1>4. CountsHold'
    BY CountsStay DEF RestoringInv
<1>5. BarHolds'
    BY BarStays DEF RestoringInv, AtWork, Quiet
<1>6. NoticeHolds'
  <2>1. /\ ~Landed(ioRuns[j]) /\ ~Fresh(ioRuns[j]) /\ ~Behind(new)
      BY DEF Landed, Fresh, Behind, Quiet
  <2>2. Astray' <=> Astray
      BY DEF Astray
  <2>3. ioPage' = NotUp \/ (ioPage # NotUp /\ ioPage'.undo = ioPage.undo)
      OBVIOUS
  <2>4. QED
      BY <2>1, <2>2, <2>3, NoticeStays DEF RestoringInv
<1>7. QED
    BY <1>1, <1>2, <1>3, <1>4, <1>5, <1>6 DEF RestoringInv

LEMMA FreeRunIsFree ==
    ASSUME Underway # IoJobs
    PROVE  FreeRun \in IoJobs /\ ioRuns[FreeRun].at = "rest"
<1>1. \E j \in IoJobs : j \notin Underway
    BY DEF Underway
<1>2. FreeRun \in IoJobs /\ FreeRun \notin Underway
    BY <1>1 DEF FreeRun
<1>3. QED
    BY <1>2 DEF Underway

(***************************** one lemma per step ***************************)

LEMMA PressesBackupStep == RestoringInv /\ PressesBackup => RestoringInv'
<1> SUFFICES ASSUME RestoringInv, PressesBackup PROVE RestoringInv'
    OBVIOUS
<1>1. PICK j \in IoJobs : j = FreeRun /\ ioRuns[j].at = "rest"
    BY FreeRunIsFree DEF PressesBackup, UserStarts
<1>2. PICK new \in IoRuns : new = Begun("backup") /\ new.at = "backup" /\ new.reply = "none"
  <2>1. "backup" \in Stages
      BY DEF Stages
  <2>2. QED
      BY <2>1, BegunIsARun
<1>3. ioRuns' = [ioRuns EXCEPT ![j] = new] /\ dialogs' = Append(dialogs, j)
    BY <1>1, <1>2 DEF PressesBackup, ShowsDialog
<1>4. dialogs' \in Seq(IoJobs)
    BY <1>3 DEF RestoringInv, RestoringTypes
<1>5. UNCHANGED <<holdings, wayBack, vaultOpen, ioPage, handedOver, chronicle>>
    BY DEF PressesBackup
<1>6. Quiet(ioRuns[j]) /\ Quiet(new) /\ Knows(new) /\ ~Told(new)
    BY <1>1, <1>2 DEF Quiet, Knows, Restore, AwaitsWorker, Told
<1>7. QED
    BY <1>3, <1>4, <1>5, <1>6, JobMovesQuietly

LEMMA SubmitsBackupStep ==
    ASSUME RestoringInv, NEW j \in IoJobs, NEW mode \in {"vault", "custom"}, NEW typed \in Passwords, NEW again,
           SubmitsBackup(j, mode, typed, again)
    PROVE  RestoringInv'
<1>1. PICK r \in IoRuns : r = ioRuns[j]
    BY DEF RestoringInv, RestoringTypes
<1>2. PICK new : new = [r EXCEPT !.at = "sealing", !.password = typed, !.mode = mode]
    OBVIOUS
<1>3. new \in IoRuns /\ new.at = "sealing" /\ new.reply = r.reply
    BY <1>2 DEF IoRuns, Stages, Modes
<1>4. r.at = "backup" /\ r.reply = "none"
    BY <1>1 DEF SubmitsBackup, RestoringInv, JobsKnow, Knows, AwaitsWorker
<1>5. ioRuns' = [ioRuns EXCEPT ![j] = new]
    BY <1>1, <1>2 DEF SubmitsBackup, RestoringInv, RestoringTypes
<1>6. UNCHANGED <<holdings, wayBack, vaultOpen, dialogs, ioPage, handedOver, chronicle>>
    BY DEF SubmitsBackup
<1>7. Quiet(ioRuns[j]) /\ Quiet(new) /\ Knows(new) /\ ~Told(new)
    BY <1>1, <1>3, <1>4 DEF Quiet, Knows, Restore, AwaitsWorker, Told
<1>8. dialogs' \in Seq(IoJobs)
    BY <1>6 DEF RestoringInv, RestoringTypes
<1>9. QED
    BY <1>3, <1>5, <1>6, <1>7, <1>8, JobMovesQuietly

LEMMA PicksFileStep ==
    ASSUME RestoringInv, NEW picked \in FilesAround \cup {saved.file : saved \in handedOver}, PicksFile(picked)
    PROVE  RestoringInv'
<1>1. PICK j \in IoJobs : j = FreeRun /\ ioRuns[j].at = "rest"
    BY FreeRunIsFree DEF PicksFile, UserStarts
<1>2. picked \in IoFiles
    BY DEF RestoringInv, BackupsSealed, IoFiles
<1>3. PICK r \in IoRuns : r = Begun("reading") /\ r.at = "reading" /\ r.reply = "none"
  <2>1. "reading" \in Stages
      BY DEF Stages
  <2>2. QED
      BY <2>1, BegunIsARun
<1>4. PICK new : new = [r EXCEPT !.file = picked]
    OBVIOUS
<1>5. new \in IoRuns /\ new.at = "reading" /\ new.reply = "none" /\ new.file = picked
    BY <1>2, <1>3, <1>4 DEF IoRuns
<1>6. ioRuns' = [ioRuns EXCEPT ![j] = new]
    BY <1>1, <1>3, <1>4 DEF PicksFile
<1>7. UNCHANGED <<holdings, wayBack, vaultOpen, dialogs, ioPage, handedOver, chronicle>>
    BY DEF PicksFile
<1>8. Quiet(ioRuns[j]) /\ Quiet(new) /\ Knows(new) /\ ~Told(new)
    BY <1>1, <1>2, <1>5 DEF Quiet, Knows, Restore, AwaitsWorker, Told
<1>9. dialogs' \in Seq(IoJobs)
    BY <1>7 DEF RestoringInv, RestoringTypes
<1>10. QED
    BY <1>5, <1>6, <1>7, <1>8, <1>9, JobMovesQuietly

LEMMA FileReadStep ==
    ASSUME RestoringInv, NEW j \in IoJobs, FileRead(j)
    PROVE  RestoringInv'
<1>1. ioRuns[j].at = "reading" /\ Reaches(j, "password") /\ "password" \in Stages
    BY DEF FileRead, Stages
<1>2. PICK new \in IoRuns :
          /\ ioRuns' = [ioRuns EXCEPT ![j] = new]
          /\ new.at = "password" /\ new.reply = "none" /\ new.file = ioRuns[j].file
    BY <1>1, ReachedIsARun DEF RestoringInv
<1>3. /\ UNCHANGED <<holdings, wayBack, vaultOpen, ioPage, handedOver, chronicle>>
      /\ dialogs' = Append(dialogs, j)
    BY DEF FileRead, ShowsDialog
<1>4. dialogs' \in Seq(IoJobs)
    BY <1>3 DEF RestoringInv, RestoringTypes
<1>5. Knows(ioRuns[j])
    BY DEF RestoringInv, JobsKnow
<1>6. Quiet(ioRuns[j]) /\ Quiet(new) /\ Knows(new) /\ ~Told(new)
    BY <1>1, <1>2, <1>5 DEF Quiet, Knows, Restore, AwaitsWorker, Told
<1>7. QED
    BY <1>2, <1>3, <1>4, <1>6, JobMovesQuietly

LEMMA SubmitsPasswordStep ==
    ASSUME RestoringInv, NEW j \in IoJobs, NEW typed \in Passwords, SubmitsPassword(j, typed)
    PROVE  RestoringInv'
<1>1. PICK r \in IoRuns : r = ioRuns[j]
    BY DEF RestoringInv, RestoringTypes
<1>2. PICK new : new = [r EXCEPT !.at = "previewing", !.password = typed]
    OBVIOUS
<1>3. new \in IoRuns /\ new.at = "previewing" /\ new.reply = r.reply /\ new.file = r.file
    BY <1>2 DEF IoRuns, Stages
<1>4. r.at = "password" /\ r.file \in IoFiles
    BY <1>1 DEF SubmitsPassword, RestoringInv, JobsKnow, Knows, Restore
<1>5. ioRuns' = [ioRuns EXCEPT ![j] = new]
    BY <1>1, <1>2 DEF SubmitsPassword, RestoringInv, RestoringTypes
<1>6. UNCHANGED <<holdings, wayBack, vaultOpen, dialogs, ioPage, handedOver, chronicle>>
    BY DEF SubmitsPassword
<1>7. Quiet(ioRuns[j]) /\ Quiet(new) /\ Knows(new) /\ ~Told(new)
    BY <1>1, <1>3, <1>4 DEF Quiet, Knows, Restore, AwaitsWorker, Told
<1>8. dialogs' \in Seq(IoJobs)
    BY <1>6 DEF RestoringInv, RestoringTypes
<1>9. QED
    BY <1>3, <1>5, <1>6, <1>7, <1>8, JobMovesQuietly

LEMMA FilesAnswer ==
    ASSUME NEW picked, NEW password
    PROVE  OpenVaultFile(picked, password) \in Replies
    BY DEF OpenVaultFile, ParseVaultFile, ParseVmv, ParseContainer, OpenVmv, OpenContainer, Replies

LEMMA PreviewsImportStep ==
    ASSUME RestoringInv, NEW j \in IoJobs, PreviewsImport(j)
    PROVE  RestoringInv'
<1>1. PICK r \in IoRuns : r = ioRuns[j]
    BY DEF RestoringInv, RestoringTypes
<1>2. PICK reply : reply = IF vaultOpen THEN OpenVaultFile(ioRuns[j].file, ioRuns[j].password) ELSE "VAULT_LOCKED"
    OBVIOUS
<1>3. reply \in Replies
    BY <1>2, FilesAnswer DEF Replies
<1>4. PICK new : new = [r EXCEPT !.reply = reply]
    OBVIOUS
<1>5. new \in IoRuns /\ new.at = r.at /\ new.file = r.file
    BY <1>3, <1>4 DEF IoRuns
<1>6. r.at = "previewing" /\ r.file \in IoFiles
    BY <1>1 DEF PreviewsImport, RestoringInv, JobsKnow, Knows, Restore
<1>7. ioRuns' = [ioRuns EXCEPT ![j] = new]
    BY <1>1, <1>2, <1>4 DEF PreviewsImport, RestoringInv, RestoringTypes
<1>8. UNCHANGED <<holdings, wayBack, vaultOpen, dialogs, ioPage, handedOver, chronicle>>
    BY DEF PreviewsImport
<1>9. Quiet(ioRuns[j]) /\ Quiet(new) /\ Knows(new) /\ ~Told(new)
    BY <1>1, <1>5, <1>6 DEF Quiet, Knows, Restore, AwaitsWorker, Told
<1>10. dialogs' \in Seq(IoJobs)
    BY <1>8 DEF RestoringInv, RestoringTypes
<1>11. QED
    BY <1>5, <1>7, <1>8, <1>9, <1>10, JobMovesQuietly

(* DialogRefuses(): back in the dialog.                                     *)
LEMMA DialogRefusesStep ==
    ASSUME RestoringInv, NEW j \in IoJobs, NEW at \in {"backup", "password"}, DialogRefuses(j, at),
           Quiet(ioRuns[j]), at = "password" => ioRuns[j].file \in IoFiles,
           UNCHANGED <<holdings, wayBack, vaultOpen, ioPage, handedOver, chronicle>>
    PROVE  RestoringInv'
<1>1. PICK r \in IoRuns : r = ioRuns[j]
    BY DEF RestoringInv, RestoringTypes
<1>2. PICK new : new = [r EXCEPT !.at = at, !.reply = "none", !.password = "", !.mode = "none"]
    OBVIOUS
<1>3. new \in IoRuns /\ new.at = at /\ new.reply = "none" /\ new.file = r.file
    BY <1>2 DEF IoRuns, Stages, Replies, Passwords, Modes
<1>4. ioRuns' = [ioRuns EXCEPT ![j] = new]
    BY <1>1, <1>2 DEF DialogRefuses, RestoringInv, RestoringTypes
<1>5. Quiet(new) /\ Knows(new) /\ ~Told(new)
    BY <1>1, <1>3 DEF Quiet, Knows, Restore, AwaitsWorker, Told
<1>6. dialogs' \in Seq(IoJobs)
    BY DEF DialogRefuses, RestoringInv, RestoringTypes
<1>7. QED
    BY <1>3, <1>4, <1>5, <1>6, JobMovesQuietly

LEMMA PreviewArrivesStep ==
    ASSUME RestoringInv, NEW j \in IoJobs, PreviewArrives(j)
    PROVE  RestoringInv'
<1>1. /\ ioRuns[j].at = "previewing"
      /\ UNCHANGED <<holdings, wayBack, vaultOpen, ioPage, handedOver, chronicle>>
    BY DEF PreviewArrives
<1>2. ioRuns[j].file \in IoFiles /\ Quiet(ioRuns[j])
    BY <1>1 DEF RestoringInv, JobsKnow, Knows, Restore, Quiet
<1>3. CASE ioRuns[j].reply = "fine"
  <2>1. Reaches(j, "mode") /\ dialogs' = Append(RemoveFirst(dialogs, j), j) /\ "mode" \in Stages
      BY <1>3 DEF PreviewArrives, Stages
  <2>2. PICK new \in IoRuns :
            /\ ioRuns' = [ioRuns EXCEPT ![j] = new]
            /\ new.at = "mode" /\ new.reply = "none" /\ new.file = ioRuns[j].file
      BY <2>1, ReachedIsARun DEF RestoringInv
  <2>3. dialogs' \in Seq(IoJobs)
    <3>1. RemoveFirst(dialogs, j) \in Seq(IoJobs)
        BY RemovedIsASequence DEF RestoringInv, RestoringTypes
    <3>2. QED
        BY <2>1, <3>1
  <2>4. Quiet(new) /\ Knows(new) /\ ~Told(new)
      BY <1>2, <2>2 DEF Quiet, Knows, Restore, AwaitsWorker, Told
  <2>5. QED
      BY <1>1, <1>2, <2>2, <2>3, <2>4, JobMovesQuietly
<1>4. CASE ioRuns[j].reply # "fine"
    BY <1>1, <1>2, <1>4, DialogRefusesStep DEF PreviewArrives
<1>5. QED
    BY <1>3, <1>4

LEMMA TicksModeStep ==
    ASSUME RestoringInv, NEW j \in IoJobs, NEW mode \in {"merge", "replace"}, TicksMode(j, mode)
    PROVE  RestoringInv'
<1>1. PICK r \in IoRuns : r = ioRuns[j]
    BY DEF RestoringInv, RestoringTypes
<1>2. PICK new : new = [r EXCEPT !.mode = mode]
    OBVIOUS
<1>3. new \in IoRuns /\ new.at = r.at /\ new.reply = r.reply /\ new.file = r.file
    BY <1>2 DEF IoRuns, Modes
<1>4. r.at = "mode" /\ r.reply = "none" /\ r.file \in IoFiles
    BY <1>1 DEF TicksMode, RestoringInv, JobsKnow, Knows, Restore, AwaitsWorker
<1>5. ioRuns' = [ioRuns EXCEPT ![j] = new]
    BY <1>1, <1>2 DEF TicksMode, RestoringInv, RestoringTypes
<1>6. UNCHANGED <<holdings, wayBack, vaultOpen, dialogs, ioPage, handedOver, chronicle>>
    BY DEF TicksMode
<1>7. Quiet(ioRuns[j]) /\ Quiet(new) /\ Knows(new) /\ ~Told(new)
    BY <1>1, <1>3, <1>4 DEF Quiet, Knows, Restore, AwaitsWorker, Told
<1>8. dialogs' \in Seq(IoJobs)
    BY <1>6 DEF RestoringInv, RestoringTypes
<1>9. QED
    BY <1>3, <1>5, <1>6, <1>7, <1>8, JobMovesQuietly

LEMMA CountsBookmarksStep ==
    ASSUME RestoringInv, NEW j \in IoJobs, CountsBookmarks(j)
    PROVE  RestoringInv'
<1>1. PICK r \in IoRuns : r = ioRuns[j]
    BY DEF RestoringInv, RestoringTypes
<1>2. PICK count : count = IF vaultOpen THEN Cardinality(holdings) ELSE 0
    OBVIOUS
<1>3. count \in Nat
  <2>1. IsFiniteSet(holdings)
      BY RestoringAssumption, FS_Subset DEF RestoringInv, RestoringTypes
  <2>2. QED
      BY <1>2, <2>1, FS_CardinalityType
<1>4. PICK new : new = [r EXCEPT !.reply = "fine", !.count = count]
    OBVIOUS
<1>5. new \in IoRuns /\ new.at = r.at /\ new.file = r.file /\ new.count = count
    BY <1>3, <1>4 DEF IoRuns, Replies
<1>6. r.at = "counting" /\ r.file \in IoFiles
    BY <1>1 DEF CountsBookmarks, RestoringInv, JobsKnow, Knows, Restore
<1>7. ioRuns' = [ioRuns EXCEPT ![j] = new]
    BY <1>1, <1>2, <1>4 DEF CountsBookmarks, RestoringInv, RestoringTypes
<1>8. UNCHANGED <<holdings, wayBack, vaultOpen, dialogs, ioPage, handedOver, chronicle>>
    BY DEF CountsBookmarks
<1>9. Quiet(ioRuns[j]) /\ Quiet(new) /\ Knows(new)
    BY <1>1, <1>5, <1>6 DEF Quiet, Knows, Restore, AwaitsWorker
<1>10. chronicle.failed \/ new.count = Cardinality(holdings)
    BY <1>2, <1>5 DEF RestoringInv, CountsHold
<1>11. dialogs' \in Seq(IoJobs)
    BY <1>8 DEF RestoringInv, RestoringTypes
<1>12. QED
    BY <1>5, <1>7, <1>8, <1>9, <1>10, <1>11, JobMovesQuietly

LEMMA CountArrivesStep ==
    ASSUME RestoringInv, NEW j \in IoJobs, CountArrives(j)
    PROVE  RestoringInv'
<1>1. ioRuns[j].at = "counting" /\ ioRuns[j].reply # "none" /\ Reaches(j, "phrase") /\ "phrase" \in Stages
    BY DEF CountArrives, Stages
<1>2. PICK new \in IoRuns :
          /\ ioRuns' = [ioRuns EXCEPT ![j] = new]
          /\ new.at = "phrase" /\ new.reply = "none" /\ new.file = ioRuns[j].file /\ new.count = ioRuns[j].count
    BY <1>1, ReachedIsARun DEF RestoringInv
<1>3. /\ UNCHANGED <<holdings, wayBack, vaultOpen, ioPage, handedOver, chronicle>>
      /\ dialogs' = Append(dialogs, j)
    BY DEF CountArrives, ShowsDialog
<1>4. dialogs' \in Seq(IoJobs)
    BY <1>3 DEF RestoringInv, RestoringTypes
<1>5. Knows(ioRuns[j])
    BY DEF RestoringInv, JobsKnow
<1>6. Quiet(ioRuns[j]) /\ Quiet(new) /\ Knows(new) /\ Told(ioRuns[j])
    BY <1>1, <1>2, <1>5 DEF Quiet, Knows, Restore, AwaitsWorker, Told
<1>7. QED
    BY <1>2, <1>3, <1>4, <1>6, JobMovesQuietly

LEMMA TypesReplacePhraseStep ==
    ASSUME RestoringInv, NEW j \in IoJobs, TypesReplacePhrase(j)
    PROVE  RestoringInv'
<1>1. ioRuns[j].at = "phrase" /\ Reaches(j, "last") /\ "last" \in Stages
    BY DEF TypesReplacePhrase, Stages
<1>2. PICK new \in IoRuns :
          /\ ioRuns' = [ioRuns EXCEPT ![j] = new]
          /\ new.at = "last" /\ new.reply = "none" /\ new.file = ioRuns[j].file /\ new.count = ioRuns[j].count
    BY <1>1, ReachedIsARun DEF RestoringInv
<1>3. UNCHANGED <<holdings, wayBack, vaultOpen, dialogs, ioPage, handedOver, chronicle>>
    BY DEF TypesReplacePhrase
<1>4. dialogs' \in Seq(IoJobs)
    BY <1>3 DEF RestoringInv, RestoringTypes
<1>5. Knows(ioRuns[j])
    BY DEF RestoringInv, JobsKnow
<1>6. Quiet(ioRuns[j]) /\ Quiet(new) /\ Knows(new) /\ Told(ioRuns[j])
    BY <1>1, <1>2, <1>5 DEF Quiet, Knows, Restore, AwaitsWorker, Told
<1>7. QED
    BY <1>2, <1>3, <1>4, <1>6, JobMovesQuietly

LEMMA CancelsDialogStep ==
    ASSUME RestoringInv, NEW j \in IoJobs, CancelsDialog(j)
    PROVE  RestoringInv'
<1>1. /\ ioRuns[j].at \in {"backup", "password", "mode", "phrase", "last", "undo"}
      /\ ioRuns' = [ioRuns EXCEPT ![j] = NoRun] /\ dialogs' = RemoveFirst(dialogs, j)
      /\ UNCHANGED <<holdings, wayBack, vaultOpen, ioPage, handedOver, chronicle>>
    BY DEF CancelsDialog, RunEnds, ShutsDialog
<1>2. dialogs' \in Seq(IoJobs)
    BY <1>1, RemovedIsASequence DEF RestoringInv, RestoringTypes
<1>3. Quiet(ioRuns[j]) /\ Quiet(NoRun) /\ Knows(NoRun) /\ ~Told(NoRun)
    BY <1>1, NoRunIsARun DEF Quiet, Knows, Restore, AwaitsWorker, Told
<1>4. QED
    BY <1>1, <1>2, <1>3, NoRunIsARun, JobMovesQuietly

LEMMA PressesUndoImportStep == RestoringInv /\ PressesUndoImport => RestoringInv'
<1> SUFFICES ASSUME RestoringInv, PressesUndoImport PROVE RestoringInv'
    OBVIOUS
<1>1. PICK j \in IoJobs : j = FreeRun /\ ioRuns[j].at = "rest"
    BY FreeRunIsFree DEF PressesUndoImport, UserStarts
<1>2. PICK new \in IoRuns : new = Begun("undo") /\ new.at = "undo" /\ new.reply = "none"
  <2>1. "undo" \in Stages
      BY DEF Stages
  <2>2. QED
      BY <2>1, BegunIsARun
<1>3. ioRuns' = [ioRuns EXCEPT ![j] = new] /\ dialogs' = Append(dialogs, j)
    BY <1>1, <1>2 DEF PressesUndoImport, ShowsDialog
<1>4. dialogs' \in Seq(IoJobs)
    BY <1>3 DEF RestoringInv, RestoringTypes
<1>5. UNCHANGED <<holdings, wayBack, vaultOpen, ioPage, handedOver, chronicle>>
    BY DEF PressesUndoImport
<1>6. Quiet(ioRuns[j]) /\ Quiet(new) /\ Knows(new) /\ ~Told(new)
    BY <1>1, <1>2 DEF Quiet, Knows, Restore, AwaitsWorker, Told
<1>7. QED
    BY <1>3, <1>4, <1>5, <1>6, JobMovesQuietly

(* The bar goes up for a job of this screen, and the notice stays.          *)
LEMMA BusyFromKeeps ==
    ASSUME RestoringTypes
    PROVE  /\ BusyFrom(ioPage) \in IoScreens \cup {NotUp}
           /\ BusyFrom(ioPage) = NotUp \/ (ioPage # NotUp /\ BusyFrom(ioPage).undo = ioPage.undo)
<1>1. CASE ioPage = NotUp
    BY <1>1 DEF BusyFrom
<1>2. CASE ioPage # NotUp
  <2>1. PICK page \in IoScreens : page = ioPage
      BY <1>2 DEF RestoringTypes
  <2>2. PICK next : next = [page EXCEPT !.depth = @ + 1, !.bar = "working"]
      OBVIOUS
  <2>3. BusyFrom(ioPage) = next
      BY <1>2, <2>1, <2>2 DEF BusyFrom
  <2>4. page.depth + 1 \in Nat
      BY DEF IoScreens
  <2>5. next \in IoScreens /\ next.undo = page.undo
      BY <2>2, <2>4 DEF IoScreens
  <2>6. QED
      BY <1>2, <2>1, <2>3, <2>5
<1>3. QED
    BY <1>1, <1>2

LEMMA BusyEndsKeeps ==
    ASSUME RestoringTypes
    PROVE  BusyEnds(ioPage) = NotUp \/ (ioPage # NotUp /\ BusyEnds(ioPage).undo = ioPage.undo)
<1>1. CASE ioPage = NotUp
    BY <1>1 DEF BusyEnds
<1>2. CASE ioPage # NotUp
  <2>1. /\ ioPage \in IoScreens
        /\ BusyEnds(ioPage) = [ioPage EXCEPT !.depth = @ - 1, !.bar = IF ioPage.depth = 1 THEN "none" ELSE @]
      BY <1>2 DEF RestoringTypes, BusyEnds
  <2>2. QED
      BY <1>2, <2>1 DEF IoScreens
<1>3. QED
    BY <1>1, <1>2

LEMMA JobGoesToWork ==
    ASSUME RestoringInv, NEW j \in IoJobs, NEW new \in IoRuns, ioRuns' = [ioRuns EXCEPT ![j] = new],
           UNCHANGED <<holdings, wayBack, vaultOpen, handedOver>>,
           chronicle' \in Chronicles, ModeWasTicked',
           chronicle'.elsewhere = chronicle.elsewhere, chronicle'.failed = chronicle.failed,
           chronicle'.crossed = chronicle.crossed, chronicle'.strayed = chronicle.strayed,
           chronicle'.misled = chronicle.misled,
           dialogs' \in Seq(IoJobs),
           Quiet(ioRuns[j]), new.at \in {"importing", "undoing"}, new.reply = "none", new.mine = ioRuns[j].mine,
           Knows(new), Told(new) => Told(ioRuns[j]) /\ new.count = ioRuns[j].count,
           ioPage' = IF ioRuns[j].mine THEN BusyFrom(ioPage) ELSE ioPage
    PROVE  RestoringInv'
<1>1. RestoringTypes'
    BY JobChanges, BusyFromKeeps DEF RestoringInv, RestoringTypes
<1>2. JobsKnow'
    BY JobsKeepKnowing DEF RestoringInv
<1>3. BackupsSealed'
    BY DEF RestoringInv, BackupsSealed
<1>4. CountsHold'
    BY CountsStay DEF RestoringInv
<1>5. BarHolds'
  <2>1. CASE ioRuns[j].mine
    <3>1. ~AtWork(ioRuns[j]) /\ AtWork(new) /\ ioPage' = BusyFrom(ioPage)
        BY <2>1 DEF AtWork, Quiet
    <3>2. QED
        BY <3>1, BarRises DEF RestoringInv
  <2>2. CASE ~ioRuns[j].mine
    <3>1. (AtWork(new) <=> AtWork(ioRuns[j])) /\ ioPage' = ioPage
        BY <2>2 DEF AtWork, Quiet
    <3>2. chronicle.failed => chronicle'.failed
        OBVIOUS
    <3>3. QED
        BY <3>1, <3>2, BarStays DEF RestoringInv
  <2>3. QED
      BY <2>1, <2>2
<1>6. NoticeHolds'
  <2>1. /\ ~Landed(ioRuns[j]) /\ ~Fresh(ioRuns[j]) /\ ~Behind(new)
      BY DEF Landed, Fresh, Behind, Quiet
  <2>2. Astray => Astray'
      BY DEF Astray
  <2>3. ioPage' = NotUp \/ (ioPage # NotUp /\ ioPage'.undo = ioPage.undo)
      BY BusyFromKeeps DEF RestoringInv
  <2>4. QED
      BY <2>1, <2>2, <2>3, NoticeStays DEF RestoringInv
<1>7. QED
    BY <1>1, <1>2, <1>3, <1>4, <1>5, <1>6 DEF RestoringInv

LEMMA ConfirmsReplaceStep ==
    ASSUME RestoringInv, NEW j \in IoJobs, ConfirmsReplace(j)
    PROVE  RestoringInv'
<1>1. ioRuns[j].at = "last" /\ Reaches(j, "importing") /\ "importing" \in Stages
    BY DEF ConfirmsReplace, Stages
<1>2. PICK new \in IoRuns :
          /\ ioRuns' = [ioRuns EXCEPT ![j] = new]
          /\ new.at = "importing" /\ new.reply = "none" /\ new.mine = ioRuns[j].mine
          /\ new.file = ioRuns[j].file /\ new.count = ioRuns[j].count
    BY <1>1, ReachedIsARun DEF RestoringInv
<1>3. /\ UNCHANGED <<holdings, wayBack, vaultOpen, handedOver, chronicle>>
      /\ dialogs' = RemoveFirst(dialogs, j)
      /\ ioPage' = IF ioRuns[j].mine THEN BusyFrom(ioPage) ELSE ioPage
    BY DEF ConfirmsReplace, ShutsDialog
<1>4. dialogs' \in Seq(IoJobs)
    BY <1>3, RemovedIsASequence DEF RestoringInv, RestoringTypes
<1>5. Knows(ioRuns[j])
    BY DEF RestoringInv, JobsKnow
<1>6. Quiet(ioRuns[j]) /\ Knows(new) /\ Told(ioRuns[j])
    BY <1>1, <1>2, <1>5 DEF Quiet, Knows, Restore, AwaitsWorker, Told
<1>7. chronicle' \in Chronicles /\ ModeWasTicked'
    BY <1>3 DEF RestoringInv, RestoringTypes, ModeWasTicked
<1>8. QED
    BY <1>2, <1>3, <1>4, <1>6, <1>7, JobGoesToWork

LEMMA ConfirmsUndoStep ==
    ASSUME RestoringInv, NEW j \in IoJobs, ConfirmsUndo(j)
    PROVE  RestoringInv'
<1>1. ioRuns[j].at = "undo" /\ Reaches(j, "undoing") /\ "undoing" \in Stages
    BY DEF ConfirmsUndo, Stages
<1>2. PICK new \in IoRuns :
          /\ ioRuns' = [ioRuns EXCEPT ![j] = new]
          /\ new.at = "undoing" /\ new.reply = "none" /\ new.mine = ioRuns[j].mine
    BY <1>1, ReachedIsARun DEF RestoringInv
<1>3. /\ UNCHANGED <<holdings, wayBack, vaultOpen, handedOver, chronicle>>
      /\ dialogs' = RemoveFirst(dialogs, j)
      /\ ioPage' = IF ioRuns[j].mine THEN BusyFrom(ioPage) ELSE ioPage
    BY DEF ConfirmsUndo, ShutsDialog
<1>4. dialogs' \in Seq(IoJobs)
    BY <1>3, RemovedIsASequence DEF RestoringInv, RestoringTypes
<1>5. Quiet(ioRuns[j]) /\ Knows(new) /\ ~Told(new)
    BY <1>1, <1>2 DEF Quiet, Knows, Restore, AwaitsWorker, Told
<1>6. chronicle' \in Chronicles /\ ModeWasTicked'
    BY <1>3 DEF RestoringInv, RestoringTypes, ModeWasTicked
<1>7. QED
    BY <1>2, <1>3, <1>4, <1>5, <1>6, JobGoesToWork

(* The mode that is found was ticked in this dialog, or another one asks    *)
(* the same question.                                                      *)
LEMMA FoundModeWasTicked ==
    ASSUME RestoringTypes, TickedModes # {}
    PROVE  \E k \in ToSet(dialogs) :
              /\ k \in IoJobs /\ ioRuns[k].at = "mode" /\ ioRuns[k].mode # "none"
              /\ ioRuns[dialogs[Min(TickedModes)]].mode = ioRuns[k].mode
<1>1. DOMAIN dialogs = 1 .. Len(dialogs) /\ Len(dialogs) \in Nat
      /\ \A i \in 1 .. Len(dialogs) : dialogs[i] \in IoJobs
    BY DEF RestoringTypes
<1>2. TickedModes \in SUBSET Nat
    BY <1>1 DEF TickedModes
<1>3. Min(TickedModes) \in TickedModes
    BY <1>2, LeastOf
<1>4. PICK n \in TickedModes : n = Min(TickedModes)
    BY <1>3
<1>5. /\ n \in DOMAIN dialogs /\ dialogs[n] \in IoJobs
      /\ ioRuns[dialogs[n]].at = "mode" /\ ioRuns[dialogs[n]].mode # "none"
    BY <1>1, <1>4 DEF TickedModes
<1>6. dialogs[n] \in ToSet(dialogs)
    BY <1>5 DEF ToSet
<1>7. QED
    BY <1>4, <1>5, <1>6

LEMMA SubmitsModeStep ==
    ASSUME RestoringInv, NEW j \in IoJobs, SubmitsMode(j)
    PROVE  RestoringInv'
<1>1. PICK r \in IoRuns : r = ioRuns[j]
    BY DEF RestoringInv, RestoringTypes
<1>2. r.at = "mode" /\ r.reply = "none" /\ r.file \in IoFiles
    BY <1>1 DEF SubmitsMode, RestoringInv, JobsKnow, Knows, Restore, AwaitsWorker
<1>3. PICK k \in ToSet(dialogs) :
          /\ k \in IoJobs /\ ioRuns[k].at = "mode" /\ ioRuns[k].mode # "none"
          /\ ioRuns[dialogs[Min(TickedModes)]].mode = ioRuns[k].mode
    BY FoundModeWasTicked DEF SubmitsMode, RestoringInv
<1>4. PICK found \in Modes : found = ioRuns[k].mode
    BY <1>3 DEF RestoringInv, RestoringTypes, IoRuns
<1>5. PICK new : new = [r EXCEPT !.at = IF found = "merge" THEN "importing" ELSE "counting", !.mode = found]
    OBVIOUS
<1>6. /\ new \in IoRuns /\ new.at = (IF found = "merge" THEN "importing" ELSE "counting")
      /\ new.mode = found /\ new.reply = "none" /\ new.file = r.file /\ new.mine = r.mine
    BY <1>2, <1>5 DEF IoRuns, Stages
<1>7. ioRuns' = [ioRuns EXCEPT ![j] = new]
    BY <1>1, <1>3, <1>4, <1>5 DEF SubmitsMode, RestoringInv, RestoringTypes
<1>8. PICK swap \in BOOLEAN, mix \in BOOLEAN :
          /\ swap <=> found # ioRuns[j].mode
          /\ mix <=> \E o \in ToSet(dialogs) \ {j} : ioRuns[o].at = "mode"
    OBVIOUS
<1>9. chronicle' = [chronicle EXCEPT !.swapped = @ \/ swap, !.mixed = @ \/ mix]
  <2>1. swap = (found # ioRuns[j].mode) /\ mix = (\E o \in ToSet(dialogs) \ {j} : ioRuns[o].at = "mode")
      BY <1>8
  <2>2. chronicle' = [chronicle EXCEPT
                         !.swapped = @ \/ found # ioRuns[j].mode,
                         !.mixed = @ \/ \E o \in ToSet(dialogs) \ {j} : ioRuns[o].at = "mode"]
      BY <1>3, <1>4 DEF SubmitsMode
  <2>3. QED
      BY <2>1, <2>2, Zenon
<1>10. /\ chronicle' \in Chronicles
       /\ chronicle'.swapped <=> chronicle.swapped \/ swap
       /\ chronicle'.mixed <=> chronicle.mixed \/ mix
       /\ chronicle'.elsewhere = chronicle.elsewhere /\ chronicle'.failed = chronicle.failed
       /\ chronicle'.crossed = chronicle.crossed /\ chronicle'.strayed = chronicle.strayed
       /\ chronicle'.misled = chronicle.misled
    BY <1>9 DEF RestoringInv, RestoringTypes, Chronicles
<1>11. swap => mix
    BY <1>3, <1>4, <1>8
<1>12. ModeWasTicked'
    BY <1>10, <1>11 DEF RestoringInv, ModeWasTicked
<1>13. /\ UNCHANGED <<holdings, wayBack, vaultOpen, handedOver>>
       /\ dialogs' = RemoveFirst(dialogs, j)
       /\ ioPage' = IF found = "merge" /\ ioRuns[j].mine THEN BusyFrom(ioPage) ELSE ioPage
    BY <1>3, <1>4 DEF SubmitsMode, ShutsDialog
<1>14. dialogs' \in Seq(IoJobs)
    BY <1>13, RemovedIsASequence DEF RestoringInv, RestoringTypes
<1>15. Quiet(ioRuns[j]) /\ Knows(new) /\ ~Told(new)
    BY <1>1, <1>2, <1>6 DEF Quiet, Knows, Restore, AwaitsWorker, Told
<1>16. CASE found = "merge"
  <2>1. ioPage' = IF ioRuns[j].mine THEN BusyFrom(ioPage) ELSE ioPage
      BY <1>13, <1>16
  <2>2. new.at = "importing" /\ new.mine = ioRuns[j].mine
      BY <1>1, <1>6, <1>16
  <2>3. QED
      BY <1>6, <1>7, <1>10, <1>12, <1>13, <1>14, <1>15, <2>1, <2>2, JobGoesToWork
<1>17. CASE found # "merge"
  <2>1. ioPage' = ioPage /\ Quiet(new)
      BY <1>6, <1>13, <1>17 DEF Quiet
  <2>2. RestoringTypes'
      BY <1>6, <1>7, <1>10, <1>13, <1>14, <2>1, JobChanges DEF RestoringInv, RestoringTypes
  <2>3. JobsKnow' /\ BackupsSealed'
      BY <1>6, <1>7, <1>13, <1>15, JobsKeepKnowing DEF RestoringInv, BackupsSealed
  <2>4. CountsHold'
      BY <1>6, <1>7, <1>10, <1>13, <1>15, CountsStay DEF RestoringInv
  <2>5. BarHolds'
    <3>1. (AtWork(new) <=> AtWork(ioRuns[j])) /\ (chronicle.failed => chronicle'.failed)
        BY <1>10, <1>15, <2>1 DEF AtWork, Quiet
    <3>2. QED
        BY <1>6, <1>7, <2>1, <3>1, BarStays DEF RestoringInv
  <2>6. NoticeHolds'
    <3>1. /\ ~Landed(ioRuns[j]) /\ ~Fresh(ioRuns[j]) /\ ~Behind(new)
        BY <1>15, <2>1 DEF Landed, Fresh, Behind, Quiet
    <3>2. (Astray => Astray') /\ (ioPage' = NotUp \/ (ioPage # NotUp /\ ioPage'.undo = ioPage.undo))
        BY <1>10, <2>1 DEF Astray
    <3>3. wayBack' = wayBack
        BY <1>13
    <3>4. QED
        BY <1>6, <1>7, <3>1, <3>2, <3>3, NoticeStays DEF RestoringInv
  <2>7. QED
      BY <1>12, <2>2, <2>3, <2>4, <2>5, <2>6 DEF RestoringInv
<1>18. QED
    BY <1>16, <1>17

LEMMA ExportsStep ==
    ASSUME RestoringInv, NEW j \in IoJobs, Exports(j)
    PROVE  RestoringInv'
<1>1. PICK r \in IoRuns : r = ioRuns[j]
    BY DEF RestoringInv, RestoringTypes
<1>2. PICK sealed \in BOOLEAN : sealed <=> vaultOpen /\ (ioRuns[j].mode = "vault" => ioRuns[j].password = VaultPassword)
    OBVIOUS
<1>3. sealed = (vaultOpen /\ (ioRuns[j].mode = "vault" => ioRuns[j].password = VaultPassword))
    BY <1>2 DEF RestoringInv, RestoringTypes
<1>4. PICK picked : picked = IF sealed THEN Sealed(holdings, r.password) ELSE 0
    OBVIOUS
<1>5. PICK new : new = [r EXCEPT !.reply = IF sealed THEN "fine" ELSE "refused", !.file = picked]
    OBVIOUS
<1>6. /\ ioPage' = IF sealed THEN Counted(ioPage, TRUE) ELSE ioPage
      /\ ioRuns' = [ioRuns EXCEPT ![j].reply = IF sealed THEN "fine" ELSE "refused",
                                  ![j].file = IF sealed THEN Sealed(holdings, ioRuns[j].password) ELSE 0]
      /\ UNCHANGED <<holdings, wayBack, vaultOpen, dialogs, handedOver, chronicle>>
    BY <1>3, Zenon DEF Exports
<1>7. ioRuns' = [ioRuns EXCEPT ![j] = new]
    BY <1>1, <1>4, <1>5, <1>6 DEF RestoringInv, RestoringTypes
<1>8. sealed => picked \in Backups /\ picked.sealedWith = r.password
    BY <1>4 DEF Sealed, Backups, RestoringInv, RestoringTypes, IoRuns
<1>9. picked \in IoFiles \cup {0}
    BY <1>4, <1>8 DEF IoFiles
<1>10. /\ new \in IoRuns /\ new.at = r.at /\ new.mine = r.mine /\ new.mode = r.mode /\ new.password = r.password
       /\ new.file = picked /\ new.reply = IF sealed THEN "fine" ELSE "refused"
    BY <1>5, <1>9 DEF IoRuns, Replies
<1>11. r.at = "sealing"
    BY <1>1 DEF Exports
<1>12. Quiet(ioRuns[j]) /\ Quiet(new) /\ Knows(new) /\ ~Told(new)
    BY <1>1, <1>2, <1>8, <1>10, <1>11 DEF Quiet, Knows, Restore, AwaitsWorker, Told
<1>13. /\ ioPage' \in IoScreens \cup {NotUp}
       /\ ioPage' = NotUp \/ (ioPage # NotUp /\ ioPage'.undo = ioPage.undo)
  <2>1. CASE sealed
      BY <1>6, <2>1, CountedToTheEnd DEF RestoringInv
  <2>2. CASE ~sealed
      BY <1>6, <2>2 DEF RestoringInv, RestoringTypes
  <2>3. QED
      BY <2>1, <2>2
<1>14. RestoringTypes'
    BY <1>6, <1>7, <1>10, <1>13, JobChanges DEF RestoringInv, RestoringTypes
<1>15. JobsKnow' /\ BackupsSealed' /\ ModeWasTicked'
    BY <1>6, <1>7, <1>10, <1>12, JobsKeepKnowing DEF RestoringInv, BackupsSealed, ModeWasTicked
<1>16. CountsHold'
    BY <1>6, <1>7, <1>10, <1>12, CountsStay DEF RestoringInv
<1>17. BarHolds'
  <2>1. (AtWork(new) <=> AtWork(ioRuns[j])) /\ (chronicle.failed => chronicle'.failed)
      BY <1>6, <1>12 DEF AtWork, Quiet
  <2>2. CASE sealed
      BY <1>6, <1>7, <1>10, <2>1, <2>2, BarCounts DEF RestoringInv
  <2>3. CASE ~sealed
      BY <1>6, <1>7, <1>10, <2>1, <2>3, BarStays DEF RestoringInv
  <2>4. QED
      BY <2>2, <2>3
<1>18. NoticeHolds'
  <2>1. ~Landed(ioRuns[j]) /\ ~Fresh(ioRuns[j]) /\ ~Behind(new)
      BY <1>12 DEF Landed, Fresh, Behind, Quiet
  <2>2. (Astray => Astray') /\ wayBack' = wayBack
      BY <1>6 DEF Astray
  <2>3. QED
      BY <1>7, <1>10, <1>13, <2>1, <2>2, NoticeStays DEF RestoringInv
<1>19. QED
    BY <1>14, <1>15, <1>16, <1>17, <1>18 DEF RestoringInv

LEMMA ExportArrivesStep ==
    ASSUME RestoringInv, NEW j \in IoJobs, ExportArrives(j)
    PROVE  RestoringInv'
<1>1. /\ ioRuns[j].at = "sealing" /\ Quiet(ioRuns[j])
      /\ UNCHANGED <<holdings, wayBack, vaultOpen, ioPage, chronicle>>
    BY DEF ExportArrives, Quiet
<1>2. CASE ioRuns[j].reply = "fine"
  <2>1. /\ handedOver' = handedOver \cup {[file |-> ioRuns[j].file, mode |-> ioRuns[j].mode]}
        /\ ioRuns' = [ioRuns EXCEPT ![j] = NoRun] /\ dialogs' = RemoveFirst(dialogs, j)
      BY <1>2 DEF ExportArrives, RunEnds, ShutsDialog
  <2>2. /\ ioRuns[j].file \in Backups
        /\ ioRuns[j].mode = "vault" => ioRuns[j].file.sealedWith = VaultPassword
      BY <1>1, <1>2 DEF RestoringInv, JobsKnow, Knows
  <2>3. BackupsSealed'
    <3>1. PICK saved : saved = [file |-> ioRuns[j].file, mode |-> ioRuns[j].mode]
        OBVIOUS
    <3>2. saved.file \in Backups /\ (saved.mode = "vault" => saved.file.sealedWith = VaultPassword)
        BY <2>2, <3>1
    <3>3. handedOver' = handedOver \cup {saved}
        BY <2>1, <3>1
    <3>4. QED
        BY <3>2, <3>3 DEF RestoringInv, BackupsSealed
  <2>4. dialogs' \in Seq(IoJobs)
      BY <2>1, RemovedIsASequence DEF RestoringInv, RestoringTypes
  <2>5. Quiet(NoRun) /\ Knows(NoRun) /\ ~Told(NoRun)
      BY NoRunIsARun DEF Quiet, Knows, Restore, AwaitsWorker, Told
  <2>6. RestoringTypes'
      BY <1>1, <2>1, <2>4, NoRunIsARun, JobChanges DEF RestoringInv, RestoringTypes
  <2>7. JobsKnow' /\ ModeWasTicked'
      BY <1>1, <2>1, <2>5, NoRunIsARun, JobsKeepKnowing DEF RestoringInv, ModeWasTicked
  <2>8. CountsHold'
      BY <1>1, <2>1, <2>5, NoRunIsARun, CountsStay DEF RestoringInv
  <2>9. BarHolds'
    <3>1. (AtWork(NoRun) <=> AtWork(ioRuns[j])) /\ (chronicle.failed => chronicle'.failed)
        BY <1>1, <2>5 DEF AtWork, Quiet
    <3>2. QED
        BY <1>1, <2>1, <3>1, NoRunIsARun, BarStays DEF RestoringInv
  <2>10. NoticeHolds'
    <3>1. ~Landed(ioRuns[j]) /\ ~Fresh(ioRuns[j]) /\ ~Behind(NoRun)
        BY <1>1, <2>5 DEF Landed, Fresh, Behind, Quiet
    <3>2. (Astray => Astray') /\ wayBack' = wayBack
        BY <1>1 DEF Astray
    <3>3. ioPage' = NotUp \/ (ioPage # NotUp /\ ioPage'.undo = ioPage.undo)
        BY <1>1
    <3>4. QED
        BY <2>1, <3>1, <3>2, <3>3, NoRunIsARun, NoticeStays DEF RestoringInv
  <2>11. QED
      BY <2>3, <2>6, <2>7, <2>8, <2>9, <2>10 DEF RestoringInv
<1>3. CASE ioRuns[j].reply # "fine"
    BY <1>1, <1>3, DialogRefusesStep DEF ExportArrives
<1>4. QED
    BY <1>2, <1>3

(* The notice, after a job that may have changed the way back.              *)
LEMMA LandedKeepsNotice ==
    ASSUME NEW j \in IoJobs, Landed(ioRuns[j])
    PROVE  NoticeHolds
    BY DEF NoticeHolds

LEMMA RunsImportStep ==
    ASSUME RestoringInv, NEW j \in IoJobs, RunsImport(j)
    PROVE  RestoringInv'
<1>1. PICK r \in IoRuns : r = ioRuns[j]
    BY DEF RestoringInv, RestoringTypes
<1>2. r.at = "importing" /\ r.reply = "none" /\ r.file \in IoFiles
    BY <1>1 DEF RunsImport, RestoringInv, JobsKnow, Knows, Restore
<1>3. UNCHANGED <<vaultOpen, dialogs, handedOver>>
    BY DEF RunsImport
<1>4. CASE vaultOpen /\ OpenVaultFile(ioRuns[j].file, ioRuns[j].password) = "fine"
  <2>1. PICK reply : reply = IF r.mode = "merge" /\ r.file.holds \cap holdings \cap ChangedBoth # {}
                             THEN "disputed" ELSE "fine"
      OBVIOUS
  <2>2. PICK new : new = [r EXCEPT !.reply = reply]
      OBVIOUS
  <2>3. /\ holdings' = r.file.holds \cup (IF r.mode = "merge" THEN holdings ELSE {})
        /\ wayBack' = IF r.mode = "replace" THEN holdings ELSE wayBack
        /\ ioPage' = Counted(ioPage, TRUE)
        /\ ioRuns' = [ioRuns EXCEPT ![j].reply = reply]
      BY <1>1, <1>4, <2>1 DEF RunsImport
  <2>4. ioRuns' = [ioRuns EXCEPT ![j] = new]
      BY <1>1, <2>2, <2>3 DEF RestoringInv, RestoringTypes
  <2>5. /\ new \in IoRuns /\ new.at = "importing" /\ new.mine = r.mine /\ new.file = r.file
        /\ new.reply \in {"disputed", "fine"}
      BY <1>2, <2>1, <2>2 DEF IoRuns, Replies
  <2>6. PICK misled \in BOOLEAN, stale \in BOOLEAN :
            /\ misled <=> r.mode = "replace" /\ r.count # Cardinality(holdings)
            /\ stale <=> \E k \in Underway \ {j} : ioRuns[k].at \in Replacing
      OBVIOUS
  <2>7. chronicle' = [chronicle EXCEPT !.misled = @ \/ misled, !.elsewhere = @ \/ stale]
    <3>1. /\ misled = (r.mode = "replace" /\ r.count # Cardinality(holdings))
          /\ stale = (\E k \in Underway \ {j} : ioRuns[k].at \in Replacing)
        BY <2>6
    <3>2. chronicle' = [chronicle EXCEPT
                           !.misled = @ \/ (ioRuns[j].mode = "replace" /\ ioRuns[j].count # Cardinality(holdings)),
                           !.elsewhere = @ \/ \E k \in Underway \ {j} : ioRuns[k].at \in Replacing]
        BY <1>4 DEF RunsImport
    <3>3. QED
        BY <1>1, <3>1, <3>2, Zenon
  <2>8. /\ chronicle' \in Chronicles
        /\ chronicle'.misled <=> chronicle.misled \/ misled
        /\ chronicle'.elsewhere <=> chronicle.elsewhere \/ stale
        /\ chronicle'.failed = chronicle.failed
        /\ chronicle'.swapped = chronicle.swapped /\ chronicle'.mixed = chronicle.mixed
      BY <2>7 DEF RestoringInv, RestoringTypes, Chronicles
  <2>9. holdings' \in SUBSET Marks /\ wayBack' \in (SUBSET Marks) \cup {NoWay}
    <3>1. r.file.holds \in SUBSET Marks
      <4>1. CASE r.file \in FilesAround
          BY <4>1 DEF Marks
      <4>2. CASE r.file \in Backups
          BY <4>2 DEF Backups
      <4>3. QED
          BY <1>2, <4>1, <4>2 DEF IoFiles
    <3>2. QED
        BY <2>3, <3>1 DEF RestoringInv, RestoringTypes
  <2>10. RestoringTypes'
      BY <1>3, <2>3, <2>4, <2>5, <2>8, <2>9, CountedToTheEnd, JobChanges DEF RestoringInv, RestoringTypes
  <2>11. ioRuns'[j] = new /\ \A k \in IoJobs \ {j} : ioRuns'[k] = ioRuns[k]
      BY <2>4, <2>5, JobChanges DEF RestoringInv
  <2>12. JobsKnow'
    <3>1. Knows(new)
        BY <1>2, <2>5 DEF Knows, AwaitsWorker
    <3>2. QED
        BY <2>4, <2>5, <3>1, JobsKeepKnowing DEF RestoringInv
  <2>13. BackupsSealed' /\ ModeWasTicked'
      BY <1>3, <2>8 DEF RestoringInv, BackupsSealed, ModeWasTicked
  <2>14. CountsHold'
    <3>1. ~vaultOpen' => chronicle'.failed
        BY <1>3, <2>8 DEF RestoringInv, CountsHold
    <3>2. ASSUME ~chronicle'.elsewhere, ~chronicle'.failed
          PROVE  ~chronicle'.misled /\ \A k \in IoJobs : ~Told(ioRuns'[k])
      <4>1. ~stale /\ ~chronicle.elsewhere /\ ~chronicle.failed
          BY <2>8, <3>2
      <4>2. ~chronicle.misled /\ (r.mode = "replace" => r.count = Cardinality(holdings))
          BY <1>1, <1>2, <4>1 DEF RestoringInv, CountsHold, Told
      <4>3. ~chronicle'.misled
          BY <2>6, <2>8, <4>2
      <4>4. \A k \in IoJobs \ {j} : ~Told(ioRuns[k])
          BY <2>6, <4>1 DEF Told, Underway, Replacing
      <4>5. ~Told(new)
          BY <2>5 DEF Told
      <4>6. QED
          BY <2>11, <4>3, <4>4, <4>5
    <3>3. QED
        BY <3>1, <3>2 DEF CountsHold, Told
  <2>15. BarHolds'
    <3>1. AtWork(new) <=> AtWork(ioRuns[j])
        BY <1>1, <1>2, <2>5 DEF AtWork
    <3>2. QED
        BY <2>3, <2>4, <2>5, <2>8, <3>1, BarCounts DEF RestoringInv
  <2>16. NoticeHolds'
    <3>1. Landed(ioRuns'[j])
        BY <2>5, <2>11 DEF Landed
    <3>2. QED
        BY <3>1 DEF NoticeHolds, Landed
  <2>17. QED
      BY <2>10, <2>12, <2>13, <2>14, <2>15, <2>16 DEF RestoringInv
<1>5. CASE ~(vaultOpen /\ OpenVaultFile(ioRuns[j].file, ioRuns[j].password) = "fine")
  <2>1. PICK new : new = [r EXCEPT !.reply = "refused"]
      OBVIOUS
  <2>2. /\ ioRuns' = [ioRuns EXCEPT ![j].reply = "refused"]
        /\ UNCHANGED <<holdings, wayBack, ioPage, chronicle>>
      BY <1>5 DEF RunsImport
  <2>3. ioRuns' = [ioRuns EXCEPT ![j] = new]
      BY <1>1, <2>1, <2>2 DEF RestoringInv, RestoringTypes
  <2>4. /\ new \in IoRuns /\ new.at = "importing" /\ new.mine = r.mine /\ new.file = r.file
        /\ new.reply = "refused"
      BY <1>2, <2>1 DEF IoRuns, Replies
  <2>5. Knows(new) /\ ~Told(new)
      BY <1>2, <2>4 DEF Knows, AwaitsWorker, Told
  <2>6. RestoringTypes'
      BY <1>3, <2>2, <2>3, <2>4, JobChanges DEF RestoringInv, RestoringTypes
  <2>7. JobsKnow' /\ BackupsSealed' /\ ModeWasTicked'
      BY <1>3, <2>2, <2>3, <2>4, <2>5, JobsKeepKnowing DEF RestoringInv, BackupsSealed, ModeWasTicked
  <2>8. CountsHold'
      BY <1>3, <2>2, <2>3, <2>4, <2>5, CountsStay DEF RestoringInv
  <2>9. BarHolds'
    <3>1. (AtWork(new) <=> AtWork(ioRuns[j])) /\ (chronicle.failed => chronicle'.failed)
        BY <1>1, <1>2, <2>2, <2>4 DEF AtWork
    <3>2. QED
        BY <2>2, <2>3, <2>4, <3>1, BarStays DEF RestoringInv
  <2>10. NoticeHolds'
    <3>1. ~Landed(ioRuns[j]) /\ ~Fresh(ioRuns[j]) /\ ~Behind(new)
        BY <1>1, <1>2, <2>4 DEF Landed, Fresh, Behind
    <3>2. (Astray => Astray') /\ wayBack' = wayBack
        BY <2>2 DEF Astray
    <3>3. ioPage' = NotUp \/ (ioPage # NotUp /\ ioPage'.undo = ioPage.undo)
        BY <2>2
    <3>4. QED
        BY <2>3, <2>4, <3>1, <3>2, <3>3, NoticeStays DEF RestoringInv
  <2>11. QED
      BY <2>6, <2>7, <2>8, <2>9, <2>10 DEF RestoringInv
<1>6. QED
    BY <1>4, <1>5

(* A job whose answer has come is done, or asks for the notice.             *)
LEMMA JobSettles ==
    ASSUME RestoringInv, NEW j \in IoJobs, NEW new \in IoRuns, ioRuns' = [ioRuns EXCEPT ![j] = new],
           UNCHANGED <<holdings, wayBack, vaultOpen, dialogs, handedOver>>,
           chronicle' \in Chronicles,
           chronicle'.misled = chronicle.misled, chronicle'.elsewhere = chronicle.elsewhere,
           chronicle.failed => chronicle'.failed,
           chronicle'.swapped = chronicle.swapped, chronicle'.mixed = chronicle.mixed,
           Knows(new), ~Told(new),
           ioPage' \in IoScreens \cup {NotUp}, BarHolds', NoticeHolds'
    PROVE  RestoringInv'
<1>1. RestoringTypes'
    BY JobChanges DEF RestoringInv, RestoringTypes
<1>2. JobsKnow' /\ BackupsSealed' /\ ModeWasTicked'
    BY JobsKeepKnowing DEF RestoringInv, BackupsSealed, ModeWasTicked
<1>3. CountsHold'
  <2>1. holdings' = holdings /\ vaultOpen' = vaultOpen
      OBVIOUS
  <2>2. QED
      BY <2>1, CountsStay DEF RestoringInv
<1>4. QED
    BY <1>1, <1>2, <1>3 DEF RestoringInv

LEMMA EndsBusyStep ==
    ASSUME RestoringInv, NEW j \in IoJobs, ioRuns[j].at \in {"importing", "undoing"}, ioRuns[j].reply # "none",
           EndsBusy(j)
    PROVE  RestoringInv'
<1>1. PICK r \in IoRuns : r = ioRuns[j]
    BY DEF RestoringInv, RestoringTypes
<1>2. /\ UNCHANGED <<holdings, wayBack, vaultOpen, dialogs, handedOver>>
      /\ ioPage' = IF r.mine THEN BusyEnds(ioPage) ELSE ioPage
    BY <1>1 DEF EndsBusy
<1>3. ASSUME NEW new \in IoRuns, ioRuns' = [ioRuns EXCEPT ![j] = new], new.at \in {"rest", "painting"},
             chronicle'.failed = chronicle.failed
      PROVE  BarHolds' /\ ioPage' \in IoScreens \cup {NotUp}
  <2>1. CASE r.mine
    <3>1. AtWork(ioRuns[j]) /\ ~AtWork(new) /\ ioPage' = BusyEnds(ioPage)
        BY <1>1, <1>2, <1>3, <2>1 DEF AtWork
    <3>2. QED
        BY <1>3, <3>1, BarFalls DEF RestoringInv
  <2>2. CASE ~r.mine
    <3>1. (AtWork(new) <=> AtWork(ioRuns[j])) /\ ioPage' = ioPage
        BY <1>1, <1>2, <1>3, <2>2 DEF AtWork
    <3>2. chronicle.failed => chronicle'.failed
        BY <1>3
    <3>3. BarHolds'
        BY <1>3, <3>1, <3>2, BarStays DEF RestoringInv
    <3>4. QED
        BY <3>1, <3>3 DEF RestoringInv, RestoringTypes
  <2>3. QED
      BY <2>1, <2>2
<1>4. ioPage' = NotUp \/ (ioPage # NotUp /\ ioPage'.undo = ioPage.undo)
    BY <1>2, BusyEndsKeeps DEF RestoringInv
<1>5. CASE ioRuns[j].reply = "refused"
  <2>1. ioRuns' = [ioRuns EXCEPT ![j] = NoRun] /\ chronicle' = chronicle
      BY <1>5 DEF EndsBusy, RunEnds
  <2>2. Knows(NoRun) /\ ~Told(NoRun)
      BY NoRunIsARun DEF Knows, Restore, AwaitsWorker, Told
  <2>3. BarHolds' /\ ioPage' \in IoScreens \cup {NotUp}
      BY <1>3, <2>1, NoRunIsARun
  <2>4. NoticeHolds'
    <3>1. ~Landed(ioRuns[j]) /\ ~Fresh(ioRuns[j]) /\ ~Behind(NoRun)
        BY <1>5, NoRunIsARun DEF Landed, Fresh, Behind
    <3>2. (Astray => Astray') /\ wayBack' = wayBack
        BY <1>2, <2>1 DEF Astray
    <3>3. QED
        BY <1>4, <2>1, <3>1, <3>2, NoRunIsARun, NoticeStays DEF RestoringInv
  <2>5. chronicle' \in Chronicles
      BY <2>1 DEF RestoringInv, RestoringTypes
  <2>6. QED
      BY <1>2, <2>1, <2>2, <2>3, <2>4, <2>5, NoRunIsARun, JobSettles
<1>6. CASE ioRuns[j].reply # "refused"
  <2>1. PICK disputed \in BOOLEAN, across \in BOOLEAN, stray \in BOOLEAN :
            /\ disputed <=> r.reply = "disputed"
            /\ across <=> Crossing(j)
            /\ stray <=> ~r.mine
      OBVIOUS
  <2>2. PICK begun \in IoRuns : begun = Begun("painting") /\ begun.at = "painting" /\ begun.reply = "none"
    <3>1. "painting" \in Stages
        BY DEF Stages
    <3>2. QED
        BY <3>1, BegunIsARun
  <2>3. PICK new : new = [begun EXCEPT !.mine = r.mine, !.disputed = disputed]
      OBVIOUS
  <2>4. new \in IoRuns /\ new.at = "painting" /\ new.reply = "none" /\ new.mine = r.mine
      BY <2>2, <2>3 DEF IoRuns
  <2>5. ioRuns' = [ioRuns EXCEPT ![j] = new]
    <3>1. ioRuns' = [ioRuns EXCEPT ![j] =
                       [Begun("painting") EXCEPT !.mine = ioRuns[j].mine, !.disputed = ioRuns[j].reply = "disputed"]]
        BY <1>6 DEF EndsBusy
    <3>2. disputed = (ioRuns[j].reply = "disputed")
        BY <1>1, <2>1
    <3>3. QED
        BY <1>1, <2>2, <2>3, <3>1, <3>2, Zenon
  <2>6. chronicle' = [chronicle EXCEPT !.crossed = @ \/ across, !.strayed = @ \/ stray]
    <3>1. chronicle' = [chronicle EXCEPT !.crossed = @ \/ Crossing(j), !.strayed = @ \/ ~ioRuns[j].mine]
        BY <1>6 DEF EndsBusy
    <3>2. Crossing(j) \in BOOLEAN
        BY DEF Crossing
    <3>3. across = Crossing(j) /\ stray = ~ioRuns[j].mine
        BY <1>1, <2>1, <3>2
    <3>4. QED
        BY <3>1, <3>3, Zenon
  <2>7. /\ chronicle' \in Chronicles
        /\ chronicle'.crossed <=> chronicle.crossed \/ across
        /\ chronicle'.strayed <=> chronicle.strayed \/ stray
        /\ chronicle'.elsewhere = chronicle.elsewhere /\ chronicle'.failed = chronicle.failed
        /\ chronicle'.misled = chronicle.misled
        /\ chronicle'.swapped = chronicle.swapped /\ chronicle'.mixed = chronicle.mixed
      BY <2>6 DEF RestoringInv, RestoringTypes, Chronicles
  <2>8. Knows(new) /\ ~Told(new)
      BY <2>4 DEF Knows, Restore, AwaitsWorker, Told
  <2>9. BarHolds' /\ ioPage' \in IoScreens \cup {NotUp}
      BY <1>3, <2>4, <2>5, <2>7
  <2>10. NoticeHolds'
    <3>1. CASE Astray'
        BY <3>1 DEF NoticeHolds
    <3>2. CASE ~Astray'
      <4>1. r.mine /\ \A k \in Underway \ {j} : ioRuns[k].at # "painting"
          BY <2>1, <2>7, <3>2 DEF Astray, Crossing
      <4>2. \A k \in IoJobs \ {j} : ioRuns[k].at # "painting"
          BY <4>1 DEF Underway
      <4>3. ioRuns'[j] = new /\ \A k \in IoJobs \ {j} : ioRuns'[k] = ioRuns[k]
          BY <2>4, <2>5, JobChanges DEF RestoringInv
      <4>4. Fresh(ioRuns[j])'
          BY <2>4, <4>1, <4>3 DEF Fresh
      <4>5. \A k \in IoJobs : ~Behind(ioRuns[k])'
          BY <2>4, <4>2, <4>3 DEF Behind
      <4>6. QED
          BY <4>4, <4>5 DEF NoticeHolds
    <3>3. QED
        BY <3>1, <3>2
  <2>11. QED
      BY <1>2, <2>4, <2>5, <2>7, <2>8, <2>9, <2>10, JobSettles
<1>7. QED
    BY <1>5, <1>6

LEMMA ReadsOfferStep ==
    ASSUME RestoringInv, NEW j \in IoJobs, ReadsOffer(j)
    PROVE  RestoringInv'
<1>1. PICK r \in IoRuns : r = ioRuns[j]
    BY DEF RestoringInv, RestoringTypes
<1>2. r.at = "painting" /\ r.reply = "none"
    BY <1>1 DEF ReadsOffer
<1>3. PICK offer \in BOOLEAN : offer <=> vaultOpen /\ wayBack # NoWay
    OBVIOUS
<1>4. PICK new : new = [r EXCEPT !.reply = "fine", !.undo = offer]
    OBVIOUS
<1>5. new \in IoRuns /\ new.at = "painting" /\ new.reply = "fine" /\ new.mine = r.mine /\ new.undo = offer
    BY <1>2, <1>4 DEF IoRuns, Replies
<1>6. ioRuns' = [ioRuns EXCEPT ![j] = new]
  <2>1. offer = (vaultOpen /\ wayBack # NoWay)
      BY <1>3 DEF RestoringInv, RestoringTypes
  <2>2. ioRuns' = [ioRuns EXCEPT ![j].reply = "fine", ![j].undo = offer]
      BY <2>1, Zenon DEF ReadsOffer
  <2>3. QED
      BY <1>1, <1>4, <2>2 DEF RestoringInv, RestoringTypes
<1>7. UNCHANGED <<holdings, wayBack, vaultOpen, dialogs, ioPage, handedOver, chronicle>>
    BY DEF ReadsOffer
<1>8. Knows(new) /\ ~Told(new)
    BY <1>5 DEF Knows, Restore, AwaitsWorker, Told
<1>9. BarHolds'
  <2>1. (AtWork(new) <=> AtWork(ioRuns[j])) /\ (chronicle.failed => chronicle'.failed)
      BY <1>1, <1>2, <1>5, <1>7 DEF AtWork
  <2>2. QED
      BY <1>5, <1>6, <1>7, <2>1, BarStays DEF RestoringInv
<1>10. NoticeHolds'
  <2>1. CASE Astray
      BY <1>7, <2>1 DEF NoticeHolds, Astray
  <2>2. CASE ~Astray
    <3>1. vaultOpen
        BY <2>2 DEF Astray, RestoringInv, CountsHold
    <3>2. new.undo <=> wayBack # NoWay
        BY <1>3, <1>5, <3>1
    <3>3. ~Landed(ioRuns[j]) /\ (Fresh(ioRuns[j]) => Fresh(new)) /\ ~Behind(new)
        BY <1>1, <1>2, <1>5, <3>2 DEF Landed, Fresh, Behind
    <3>4. (Astray => Astray') /\ wayBack' = wayBack /\ (ioPage' = NotUp \/ (ioPage # NotUp /\ ioPage'.undo = ioPage.undo))
        BY <1>7, <2>2
    <3>5. QED
        BY <1>5, <1>6, <3>3, <3>4, NoticeStays DEF RestoringInv
  <2>3. QED
      BY <2>1, <2>2
<1>11. chronicle' \in Chronicles /\ ioPage' \in IoScreens \cup {NotUp}
    BY <1>7 DEF RestoringInv, RestoringTypes
<1>12. QED
    BY <1>5, <1>6, <1>7, <1>8, <1>9, <1>10, <1>11, JobSettles

(* The screen goes away under its jobs, which go on without it.             *)
LEMMA MadeAnOrphan ==
    ASSUME NEW r \in IoRuns
    PROVE  /\ [r EXCEPT !.mine = FALSE] \in IoRuns
           /\ Knows(r) => Knows([r EXCEPT !.mine = FALSE])
           /\ Told([r EXCEPT !.mine = FALSE]) => Told(r)
           /\ [r EXCEPT !.mine = FALSE].count = r.count
           /\ ~[r EXCEPT !.mine = FALSE].mine
<1>1. PICK new : new = [r EXCEPT !.mine = FALSE]
    OBVIOUS
<1>2. /\ new \in IoRuns /\ ~new.mine /\ new.at = r.at /\ new.reply = r.reply /\ new.file = r.file
      /\ new.mode = r.mode /\ new.count = r.count /\ new.password = r.password
    BY <1>1 DEF IoRuns
<1>3. (Knows(r) => Knows(new)) /\ (Told(new) => Told(r))
    BY <1>2 DEF Knows, Told
<1>4. QED
    BY <1>1, <1>2, <1>3

LEMMA PageGoneKeeps ==
    ASSUME RestoringInv
    PROVE  /\ PageGone \in [IoJobs -> IoRuns]
           /\ \A k \in IoJobs : /\ Knows(PageGone[k]) /\ ~PageGone[k].mine
                                /\ Told(PageGone[k]) => Told(ioRuns[k])
                                /\ PageGone[k].count = ioRuns[k].count
<1>1. \A k \in IoJobs : ioRuns[k] \in IoRuns /\ Knows(ioRuns[k])
    BY DEF RestoringInv, RestoringTypes, JobsKnow
<1>2. PageGone \in [IoJobs -> IoRuns]
    BY <1>1, MadeAnOrphan DEF PageGone
<1>3. \A k \in IoJobs : PageGone[k] = [ioRuns[k] EXCEPT !.mine = FALSE]
    BY DEF PageGone
<1>4. QED
    BY <1>1, <1>2, <1>3, MadeAnOrphan, ZenonT(60)

(* A screen that opens or goes away: no job is at work on it.               *)
LEMMA ScreenChanges ==
    ASSUME RestoringInv,
           UNCHANGED <<holdings, wayBack, handedOver>>, vaultOpen' \in BOOLEAN, dialogs' \in Seq(IoJobs),
           chronicle' \in Chronicles, chronicle'.misled = chronicle.misled,
           chronicle'.elsewhere = chronicle.elsewhere, chronicle.failed => chronicle'.failed,
           ~vaultOpen' => vaultOpen' = vaultOpen \/ chronicle'.failed,
           chronicle'.swapped = chronicle.swapped, chronicle'.mixed = chronicle.mixed,
           ioRuns' \in [IoJobs -> IoRuns],
           \A k \in IoJobs : /\ Knows(ioRuns'[k])
                             /\ Told(ioRuns'[k]) => Told(ioRuns[k]) /\ ioRuns'[k].count = ioRuns[k].count
                             /\ ioRuns'[k].mine => /\ ioRuns'[k].at \in {"rest", "painting"}
                                                   /\ ioRuns'[k].reply = "none",
           \/ ioPage' = NotUp
           \/ /\ ioPage' \in IoScreens /\ ioPage'.depth = 0 /\ ioPage'.bar = "none"
              /\ \E k \in IoJobs : ioRuns'[k].mine /\ ioRuns'[k].at = "painting"
    PROVE  RestoringInv'
<1>1. RestoringTypes'
    BY DEF RestoringInv, RestoringTypes
<1>2. JobsKnow'
    BY DEF JobsKnow, Knows
<1>3. BackupsSealed' /\ ModeWasTicked'
    BY DEF RestoringInv, BackupsSealed, ModeWasTicked
<1>4. CountsHold'
  <2>1. ~vaultOpen' => chronicle'.failed
      BY DEF RestoringInv, CountsHold
  <2>2. CASE chronicle'.elsewhere \/ chronicle'.failed
      BY <2>1, <2>2 DEF CountsHold
  <2>3. CASE ~(chronicle'.elsewhere \/ chronicle'.failed)
    <3>1. ~chronicle.misled /\ \A k \in IoJobs : Told(ioRuns[k]) => ioRuns[k].count = Cardinality(holdings)
        BY <2>3 DEF RestoringInv, CountsHold
    <3>2. \A k \in IoJobs : Told(ioRuns'[k]) => ioRuns'[k].count = Cardinality(holdings')
        BY <3>1
    <3>3. QED
        BY <2>1, <3>1, <3>2 DEF CountsHold, Told
  <2>4. QED
      BY <2>2, <2>3
<1>5. BarHolds'
  <2>1. \A k \in IoJobs : ~AtWork(ioRuns[k])'
      BY DEF AtWork
  <2>2. Workers' = {}
      BY <2>1 DEF Workers
  <2>3. Cardinality(Workers') = 0
      BY <2>2, FS_EmptySet
  <2>4. QED
      BY <2>3 DEF BarHolds
<1>6. NoticeHolds'
  <2>1. \A k \in IoJobs : ~Behind(ioRuns[k])'
      BY DEF Behind
  <2>2. ioPage' # NotUp => \E k \in IoJobs : Fresh(ioRuns[k])'
      BY DEF Fresh
  <2>3. QED
      BY <2>1, <2>2 DEF NoticeHolds
<1>7. QED
    BY <1>1, <1>2, <1>3, <1>4, <1>5, <1>6 DEF RestoringInv

LEMMA OpensIoStep == RestoringInv /\ OpensIo => RestoringInv'
<1> SUFFICES ASSUME RestoringInv, OpensIo PROVE RestoringInv'
    OBVIOUS
<1>1. PICK j \in IoJobs : j = FreeRun
    BY FreeRunIsFree DEF OpensIo, UserStarts
<1>2. PICK new \in IoRuns : new = Begun("painting") /\ new.at = "painting" /\ new.mine /\ new.reply = "none"
  <2>1. "painting" \in Stages
      BY DEF Stages
  <2>2. QED
      BY <2>1, BegunIsARun
<1>3. ioRuns' = [k \in IoJobs |-> IF k = j THEN new ELSE PageGone[k]]
  <2>1. ioRuns' = [k \in IoJobs |-> IF k = FreeRun THEN Begun("painting") ELSE [ioRuns[k] EXCEPT !.mine = FALSE]]
      BY DEF OpensIo
  <2>2. \A k \in IoJobs : PageGone[k] = [ioRuns[k] EXCEPT !.mine = FALSE]
      BY DEF PageGone
  <2>3. QED
      BY <1>1, <1>2, <2>1, <2>2
<1>4. ioRuns' \in [IoJobs -> IoRuns]
    BY <1>2, <1>3, PageGoneKeeps
<1>5. /\ ioRuns'[j] = new
      /\ \A k \in IoJobs : k # j => ioRuns'[k] = PageGone[k]
    BY <1>3
<1>6. /\ UNCHANGED <<holdings, wayBack, vaultOpen, dialogs, handedOver, chronicle>>
      /\ ioPage' = [bar |-> "none", depth |-> 0, undo |-> FALSE]
    BY DEF OpensIo
<1>7. ioPage' \in IoScreens /\ ioPage'.depth = 0 /\ ioPage'.bar = "none"
    BY <1>6 DEF IoScreens
<1>8. \A k \in IoJobs : /\ Knows(ioRuns'[k])
                        /\ Told(ioRuns'[k]) => Told(ioRuns[k]) /\ ioRuns'[k].count = ioRuns[k].count
                        /\ ioRuns'[k].mine => ioRuns'[k].at \in {"rest", "painting"} /\ ioRuns'[k].reply = "none"
  <2>1. Knows(new) /\ ~Told(new)
      BY <1>2 DEF Knows, Restore, AwaitsWorker, Told
  <2>2. QED
      BY <1>2, <1>5, <2>1, PageGoneKeeps
<1>9. /\ vaultOpen' \in BOOLEAN /\ dialogs' \in Seq(IoJobs) /\ chronicle' \in Chronicles
      /\ ~vaultOpen' => vaultOpen' = vaultOpen
    BY <1>6 DEF RestoringInv, RestoringTypes
<1>10. QED
    BY <1>2, <1>4, <1>5, <1>6, <1>7, <1>8, <1>9, ScreenChanges

LEMMA LeavesIoStep == RestoringInv /\ LeavesIo => RestoringInv'
<1> SUFFICES ASSUME RestoringInv, LeavesIo PROVE RestoringInv'
    OBVIOUS
<1>1. /\ UNCHANGED <<holdings, wayBack, vaultOpen, dialogs, handedOver, chronicle>>
      /\ ioPage' = NotUp /\ ioRuns' = PageGone
    BY DEF LeavesIo
<1>2. /\ vaultOpen' \in BOOLEAN /\ dialogs' \in Seq(IoJobs) /\ chronicle' \in Chronicles
      /\ ~vaultOpen' => vaultOpen' = vaultOpen
    BY <1>1 DEF RestoringInv, RestoringTypes
<1>3. QED
    BY <1>1, <1>2, PageGoneKeeps, ScreenChanges

(* What is put down as a failure, and nothing else.                         *)
LEMMA FailureIsNoted ==
    ASSUME RestoringTypes, chronicle' = [chronicle EXCEPT !.failed = TRUE]
    PROVE  /\ chronicle' \in Chronicles /\ chronicle'.failed
           /\ chronicle'.elsewhere = chronicle.elsewhere /\ chronicle'.misled = chronicle.misled
           /\ chronicle'.swapped = chronicle.swapped /\ chronicle'.mixed = chronicle.mixed
    BY DEF RestoringTypes, Chronicles

LEMMA LocksVaultStep == RestoringInv /\ LocksVault => RestoringInv'
<1> SUFFICES ASSUME RestoringInv, LocksVault PROVE RestoringInv'
    OBVIOUS
<1>1. /\ UNCHANGED <<holdings, wayBack, dialogs, handedOver>>
      /\ vaultOpen' = FALSE /\ ioPage' = NotUp /\ ioRuns' = PageGone
      /\ chronicle' = [chronicle EXCEPT !.failed = TRUE]
    BY DEF LocksVault
<1>2. vaultOpen' \in BOOLEAN /\ dialogs' \in Seq(IoJobs)
    BY <1>1 DEF RestoringInv, RestoringTypes
<1>3. /\ chronicle' \in Chronicles /\ chronicle'.failed
      /\ chronicle'.elsewhere = chronicle.elsewhere /\ chronicle'.misled = chronicle.misled
      /\ chronicle'.swapped = chronicle.swapped /\ chronicle'.mixed = chronicle.mixed
    BY <1>1, FailureIsNoted DEF RestoringInv
<1>4. QED
    BY <1>1, <1>2, <1>3, PageGoneKeeps, ScreenChanges

LEMMA OfferArrivesStep ==
    ASSUME RestoringInv, NEW j \in IoJobs, OfferArrives(j)
    PROVE  RestoringInv'
<1>1. PICK r \in IoRuns : r = ioRuns[j]
    BY DEF RestoringInv, RestoringTypes
<1>2. r.at = "painting" /\ r.reply # "none"
    BY <1>1 DEF OfferArrives
<1>3. UNCHANGED <<holdings, wayBack, vaultOpen, dialogs, handedOver, chronicle>>
    BY DEF OfferArrives
<1>4. Knows(NoRun) /\ ~Told(NoRun)
    BY NoRunIsARun DEF Knows, Restore, AwaitsWorker, Told
<1>5. CASE r.disputed
  <2>1. ioPage' = NotUp /\ ioRuns' = [PageGone EXCEPT ![j] = NoRun]
      BY <1>1, <1>5 DEF OfferArrives
  <2>2. ioRuns' \in [IoJobs -> IoRuns] /\ ioRuns'[j] = NoRun /\ \A k \in IoJobs : k # j => ioRuns'[k] = PageGone[k]
      BY <2>1, PageGoneKeeps, NoRunIsARun
  <2>3. \A k \in IoJobs : /\ Knows(ioRuns'[k])
                          /\ Told(ioRuns'[k]) => Told(ioRuns[k]) /\ ioRuns'[k].count = ioRuns[k].count
                          /\ ioRuns'[k].mine => ioRuns'[k].at \in {"rest", "painting"} /\ ioRuns'[k].reply = "none"
      BY <1>4, <2>2, PageGoneKeeps, NoRunIsARun
  <2>4. /\ vaultOpen' \in BOOLEAN /\ dialogs' \in Seq(IoJobs) /\ chronicle' \in Chronicles
        /\ ~vaultOpen' => vaultOpen' = vaultOpen
      BY <1>3 DEF RestoringInv, RestoringTypes
  <2>5. QED
      BY <1>3, <2>1, <2>2, <2>3, <2>4, ScreenChanges
<1>6. CASE ~r.disputed
  <2>1. /\ ioRuns' = [ioRuns EXCEPT ![j] = NoRun]
        /\ ioPage' = IF r.mine /\ ioPage # NotUp THEN [ioPage EXCEPT !.undo = r.undo] ELSE ioPage
      BY <1>1, <1>6 DEF OfferArrives, RunEnds
  <2>2. /\ ioPage' \in IoScreens \cup {NotUp}
        /\ ioPage' = ioPage \/ (ioPage # NotUp /\ ioPage'.depth = ioPage.depth /\ ioPage'.bar = ioPage.bar)
        /\ r.mine /\ ioPage # NotUp => ioPage'.undo = r.undo
        /\ ~r.mine \/ ioPage = NotUp => ioPage' = ioPage
      BY <2>1 DEF RestoringInv, RestoringTypes, IoScreens, IoRuns
  <2>3. BarHolds'
    <3>1. (AtWork(NoRun) <=> AtWork(ioRuns[j])) /\ (chronicle.failed => chronicle'.failed)
        BY <1>1, <1>2, <1>3, NoRunIsARun DEF AtWork
    <3>2. QED
        BY <2>1, <2>2, <3>1, NoRunIsARun, BarStays DEF RestoringInv
  <2>4. NoticeHolds'
    <3>1. CASE Astray
        BY <1>3, <3>1 DEF NoticeHolds, Astray
    <3>2. CASE ~Astray
      <4>1. ioRuns'[j] = NoRun /\ \A k \in IoJobs \ {j} : ioRuns'[k] = ioRuns[k]
          BY <2>1, NoRunIsARun, JobChanges DEF RestoringInv
      <4>2. /\ \A k \in IoJobs \ {j} : /\ Landed(ioRuns[k])' <=> Landed(ioRuns[k])
                                       /\ Fresh(ioRuns[k])' <=> Fresh(ioRuns[k])
                                       /\ Behind(ioRuns[k])' <=> Behind(ioRuns[k])
            /\ ~Behind(ioRuns[j])'
          BY <1>3, <4>1, NoRunIsARun DEF Landed, Fresh, Behind
      <4>3. ~Landed(ioRuns[j]) /\ (Fresh(ioRuns[j]) => r.mine)
          BY <1>1, <1>2 DEF Landed, Fresh
      <4>4. (\E k \in IoJobs : Landed(ioRuns[k])) => \E k \in IoJobs : Landed(ioRuns[k])'
          BY <4>2, <4>3
      <4>5. (\E k \in IoJobs : Behind(ioRuns[k])') => \E k \in IoJobs : Landed(ioRuns[k])'
          BY <3>2, <4>2, <4>4 DEF RestoringInv, NoticeHolds
      <4>6. ioPage' # NotUp => \/ ioPage'.undo <=> wayBack' # NoWay
                               \/ \E k \in IoJobs : Landed(ioRuns[k])' \/ Fresh(ioRuns[k])'
        <5>1. CASE r.mine /\ ioPage # NotUp
          <6>1. Behind(ioRuns[j]) \/ (r.undo <=> wayBack # NoWay)
              BY <1>1, <1>2, <5>1 DEF Behind
          <6>2. Behind(ioRuns[j]) => \E k \in IoJobs : Landed(ioRuns[k])'
              BY <3>2, <4>4 DEF RestoringInv, NoticeHolds
          <6>3. QED
              BY <1>3, <2>2, <5>1, <6>1, <6>2
        <5>2. CASE ~(r.mine /\ ioPage # NotUp)
          <6>1. ioPage' = ioPage
              BY <2>2, <5>2
          <6>2. CASE ioPage = NotUp
              BY <6>1, <6>2
          <6>3. CASE ioPage # NotUp
            <7>1. ~Fresh(ioRuns[j])
                BY <4>3, <5>2, <6>3
            <7>2. \/ ioPage.undo <=> wayBack # NoWay
                  \/ \E k \in IoJobs : Landed(ioRuns[k]) \/ Fresh(ioRuns[k])
                BY <3>2, <6>3 DEF RestoringInv, NoticeHolds
            <7>3. QED
                BY <1>3, <4>2, <4>3, <6>1, <7>1, <7>2
          <6>4. QED
              BY <6>2, <6>3
        <5>3. QED
            BY <5>1, <5>2
      <4>7. QED
          BY <4>5, <4>6 DEF NoticeHolds
    <3>3. QED
        BY <3>1, <3>2
  <2>5. chronicle' \in Chronicles
      BY <1>3 DEF RestoringInv, RestoringTypes
  <2>6. QED
      BY <1>3, <1>4, <2>1, <2>2, <2>3, <2>4, <2>5, NoRunIsARun, JobSettles
<1>7. QED
    BY <1>5, <1>6

LEMMA UndoesImportStep ==
    ASSUME RestoringInv, NEW j \in IoJobs, UndoesImport(j)
    PROVE  RestoringInv'
<1>1. PICK r \in IoRuns : r = ioRuns[j]
    BY DEF RestoringInv, RestoringTypes
<1>2. r.at = "undoing" /\ r.reply = "none"
    BY <1>1 DEF UndoesImport
<1>3. UNCHANGED <<vaultOpen, dialogs, ioPage, handedOver>>
    BY DEF UndoesImport
<1>4. PICK reply \in {"fine", "refused"} : reply = IF vaultOpen /\ wayBack # NoWay THEN "fine" ELSE "refused"
    OBVIOUS
<1>5. PICK new : new = [r EXCEPT !.reply = reply]
    OBVIOUS
<1>6. new \in IoRuns /\ new.at = "undoing" /\ new.mine = r.mine /\ new.reply = reply
    BY <1>2, <1>5 DEF IoRuns, Replies
<1>7. ioRuns' = [ioRuns EXCEPT ![j] = new]
    BY <1>1, <1>4, <1>5 DEF UndoesImport, RestoringInv, RestoringTypes
<1>8. Knows(new) /\ ~Told(new) /\ (AtWork(new) <=> AtWork(ioRuns[j]))
    BY <1>1, <1>2, <1>6 DEF Knows, Restore, AwaitsWorker, Told, AtWork
<1>9. CASE vaultOpen /\ wayBack # NoWay
  <2>1. holdings' = wayBack /\ wayBack' = NoWay /\ reply = "fine"
      BY <1>4, <1>9 DEF UndoesImport
  <2>2. PICK stale \in BOOLEAN : stale <=> \E k \in Underway \ {j} : ioRuns[k].at \in Replacing
      OBVIOUS
  <2>3. chronicle' = [chronicle EXCEPT !.elsewhere = @ \/ stale]
    <3>1. stale = (\E k \in Underway \ {j} : ioRuns[k].at \in Replacing)
        BY <2>2
    <3>2. chronicle' = [chronicle EXCEPT !.elsewhere = @ \/ \E k \in Underway \ {j} : ioRuns[k].at \in Replacing]
        BY <1>9 DEF UndoesImport
    <3>3. QED
        BY <3>1, <3>2, Zenon
  <2>4. /\ chronicle' \in Chronicles
        /\ chronicle'.elsewhere <=> chronicle.elsewhere \/ stale
        /\ chronicle'.misled = chronicle.misled /\ chronicle'.failed = chronicle.failed
        /\ chronicle'.swapped = chronicle.swapped /\ chronicle'.mixed = chronicle.mixed
      BY <2>3 DEF RestoringInv, RestoringTypes, Chronicles
  <2>5. RestoringTypes'
      BY <1>3, <1>6, <1>7, <1>9, <2>1, <2>4, JobChanges DEF RestoringInv, RestoringTypes
  <2>6. ioRuns'[j] = new /\ \A k \in IoJobs \ {j} : ioRuns'[k] = ioRuns[k]
      BY <1>6, <1>7, JobChanges DEF RestoringInv
  <2>7. JobsKnow' /\ BackupsSealed' /\ ModeWasTicked'
      BY <1>3, <1>6, <1>7, <1>8, <2>4, JobsKeepKnowing DEF RestoringInv, BackupsSealed, ModeWasTicked
  <2>8. CountsHold'
    <3>1. ~vaultOpen' => chronicle'.failed
        BY <1>3, <2>4 DEF RestoringInv, CountsHold
    <3>2. ASSUME ~chronicle'.elsewhere, ~chronicle'.failed
          PROVE  ~chronicle'.misled /\ \A k \in IoJobs : ~Told(ioRuns'[k])
      <4>1. ~stale /\ ~chronicle.elsewhere /\ ~chronicle.failed
          BY <2>4, <3>2
      <4>2. ~chronicle'.misled
          BY <2>4, <4>1 DEF RestoringInv, CountsHold
      <4>3. \A k \in IoJobs \ {j} : ~Told(ioRuns[k])
          BY <2>2, <4>1 DEF Told, Underway, Replacing
      <4>4. QED
          BY <1>8, <2>6, <4>2, <4>3
    <3>3. QED
        BY <3>1, <3>2 DEF CountsHold, Told
  <2>9. BarHolds'
    <3>1. chronicle.failed => chronicle'.failed
        BY <2>4
    <3>2. QED
        BY <1>3, <1>6, <1>7, <1>8, <3>1, BarStays DEF RestoringInv
  <2>10. NoticeHolds'
    <3>1. Landed(ioRuns[j])'
        BY <1>6, <2>1, <2>6 DEF Landed
    <3>2. QED
        BY <3>1 DEF NoticeHolds
  <2>11. QED
      BY <2>5, <2>7, <2>8, <2>9, <2>10 DEF RestoringInv
<1>10. CASE ~(vaultOpen /\ wayBack # NoWay)
  <2>1. UNCHANGED <<holdings, wayBack, chronicle>> /\ reply = "refused"
      BY <1>4, <1>10 DEF UndoesImport
  <2>2. BarHolds'
    <3>1. chronicle.failed => chronicle'.failed
        BY <2>1
    <3>2. QED
        BY <1>3, <1>6, <1>7, <1>8, <3>1, BarStays DEF RestoringInv
  <2>3. NoticeHolds'
    <3>1. ~Landed(ioRuns[j]) /\ ~Fresh(ioRuns[j]) /\ ~Behind(new)
        BY <1>1, <1>2, <1>6 DEF Landed, Fresh, Behind
    <3>2. (Astray => Astray') /\ wayBack' = wayBack
        BY <2>1 DEF Astray
    <3>3. ioPage' = NotUp \/ (ioPage # NotUp /\ ioPage'.undo = ioPage.undo)
        BY <1>3
    <3>4. QED
        BY <1>6, <1>7, <3>1, <3>2, <3>3, NoticeStays DEF RestoringInv
  <2>4. chronicle' \in Chronicles /\ ioPage' \in IoScreens \cup {NotUp}
      BY <1>3, <2>1 DEF RestoringInv, RestoringTypes
  <2>5. QED
      BY <1>3, <1>6, <1>7, <1>8, <2>1, <2>2, <2>3, <2>4, JobSettles
<1>11. QED
    BY <1>9, <1>10

(* What happens elsewhere to the vault, the jobs and the screen being left   *)
(* as they are: what was counted or offered may be stale.                   *)
LEMMA ElsewhereStep ==
    ASSUME RestoringInv, UNCHANGED <<vaultOpen, ioRuns, dialogs, ioPage, handedOver>>,
           holdings' \in SUBSET Marks, wayBack' \in (SUBSET Marks) \cup {NoWay},
           chronicle' = [chronicle EXCEPT !.elsewhere = TRUE]
    PROVE  RestoringInv'
<1>1. /\ chronicle' \in Chronicles /\ chronicle'.elsewhere
      /\ chronicle'.failed = chronicle.failed
      /\ chronicle'.swapped = chronicle.swapped /\ chronicle'.mixed = chronicle.mixed
    BY DEF RestoringInv, RestoringTypes, Chronicles
<1>2. RestoringTypes'
    BY <1>1 DEF RestoringInv, RestoringTypes
<1>3. JobsKnow' /\ BackupsSealed' /\ ModeWasTicked'
    BY <1>1 DEF RestoringInv, JobsKnow, BackupsSealed, ModeWasTicked
<1>4. CountsHold'
    BY <1>1 DEF RestoringInv, CountsHold
<1>5. BarHolds'
    BY <1>1 DEF RestoringInv, BarHolds, Workers
<1>6. NoticeHolds'
    BY <1>1 DEF NoticeHolds, Astray
<1>7. QED
    BY <1>2, <1>3, <1>4, <1>5, <1>6 DEF RestoringInv

LEMMA EditsElsewhereStep ==
    ASSUME RestoringInv, NEW mark \in ChangedBoth, EditsElsewhere(mark)
    PROVE  RestoringInv'
<1>1. /\ UNCHANGED <<wayBack, vaultOpen, ioRuns, dialogs, ioPage, handedOver>>
      /\ chronicle' = [chronicle EXCEPT !.elsewhere = TRUE]
      /\ holdings' = IF mark \in holdings THEN holdings \ {mark} ELSE holdings \cup {mark}
    BY DEF EditsElsewhere
<1>2. holdings' \in SUBSET Marks /\ wayBack' \in (SUBSET Marks) \cup {NoWay}
    BY <1>1 DEF RestoringInv, RestoringTypes, Marks
<1>3. QED
    BY <1>1, <1>2, ElsewhereStep

LEMMA OfferLapsesStep == RestoringInv /\ OfferLapses => RestoringInv'
<1> SUFFICES ASSUME RestoringInv, OfferLapses PROVE RestoringInv'
    OBVIOUS
<1>1. /\ UNCHANGED <<holdings, vaultOpen, ioRuns, dialogs, ioPage, handedOver>>
      /\ wayBack' = NoWay /\ chronicle' = [chronicle EXCEPT !.elsewhere = TRUE]
    BY DEF OfferLapses
<1>2. holdings' \in SUBSET Marks /\ wayBack' \in (SUBSET Marks) \cup {NoWay}
    BY <1>1 DEF RestoringInv, RestoringTypes
<1>3. QED
    BY <1>1, <1>2, ElsewhereStep

LEMMA NothingHappens ==
    ASSUME RestoringInv, vaultOpen' \in BOOLEAN, vaultOpen => vaultOpen',
           UNCHANGED <<holdings, wayBack, ioRuns, dialogs, ioPage, handedOver, chronicle>>
    PROVE  RestoringInv'
<1>1. RestoringTypes' /\ JobsKnow' /\ BackupsSealed' /\ ModeWasTicked'
    BY DEF RestoringInv, RestoringTypes, JobsKnow, BackupsSealed, ModeWasTicked
<1>2. CountsHold'
    BY DEF RestoringInv, CountsHold
<1>3. BarHolds'
    BY DEF RestoringInv, BarHolds, Workers
<1>4. NoticeHolds'
    BY DEF RestoringInv, NoticeHolds, Astray, Fresh, Behind
<1>5. QED
    BY <1>1, <1>2, <1>3, <1>4 DEF RestoringInv

LEMMA ProgressElsewhereStep ==
    ASSUME RestoringInv, NEW finished \in BOOLEAN, ProgressElsewhere(finished)
    PROVE  RestoringInv'
<1>1. /\ UNCHANGED <<holdings, wayBack, vaultOpen, ioRuns, dialogs, handedOver>>
      /\ ioPage # NotUp /\ ioPage' = Counted(ioPage, finished)
      /\ chronicle' = [chronicle EXCEPT !.failed = TRUE]
    BY DEF ProgressElsewhere
<1>2. ioPage' \in IoScreens /\ ioPage'.depth = ioPage.depth
    BY <1>1 DEF Counted, Idled, RestoringInv, RestoringTypes, IoScreens
<1>3. /\ chronicle' \in Chronicles /\ chronicle'.failed
      /\ chronicle'.swapped = chronicle.swapped /\ chronicle'.mixed = chronicle.mixed
    BY <1>1, FailureIsNoted DEF RestoringInv
<1>4. RestoringTypes' /\ JobsKnow' /\ BackupsSealed' /\ ModeWasTicked'
    BY <1>1, <1>2, <1>3 DEF RestoringInv, RestoringTypes, JobsKnow, BackupsSealed, ModeWasTicked
<1>5. CountsHold'
    BY <1>1, <1>3 DEF CountsHold
<1>6. BarHolds'
    BY <1>1, <1>2, <1>3 DEF RestoringInv, BarHolds, Workers
<1>7. NoticeHolds'
    BY <1>3 DEF NoticeHolds, Astray
<1>8. QED
    BY <1>4, <1>5, <1>6, <1>7 DEF RestoringInv

LEMMA WorkerFailsStep ==
    ASSUME RestoringInv, NEW j \in IoJobs, WorkerFails(j)
    PROVE  RestoringInv'
<1>1. PICK r \in IoRuns : r = ioRuns[j]
    BY DEF RestoringInv, RestoringTypes
<1>2. /\ UNCHANGED <<holdings, wayBack, vaultOpen, dialogs, ioPage, handedOver>>
      /\ chronicle' = [chronicle EXCEPT !.failed = TRUE]
      /\ r.reply = "none"
    BY <1>1 DEF WorkerFails
<1>3. /\ chronicle' \in Chronicles /\ chronicle'.failed
      /\ chronicle'.elsewhere = chronicle.elsewhere /\ chronicle'.misled = chronicle.misled
      /\ chronicle'.swapped = chronicle.swapped /\ chronicle'.mixed = chronicle.mixed
    BY <1>2, FailureIsNoted DEF RestoringInv
<1>4. \E new \in IoRuns : /\ ioRuns' = [ioRuns EXCEPT ![j] = new]
                          /\ Knows(new) /\ (AtWork(new) <=> AtWork(r))
  <2>1. Knows(r)
      BY <1>1 DEF RestoringInv, JobsKnow
  <2>2. CASE r.at = "reading" /\ ioRuns' = [ioRuns EXCEPT ![j] = NoRun]
    <3>1. Knows(NoRun) /\ (AtWork(NoRun) <=> AtWork(r))
        BY <2>2, NoRunIsARun DEF Knows, Restore, AwaitsWorker, AtWork
    <3>2. QED
        BY <2>2, <3>1, NoRunIsARun
  <2>3. ASSUME NEW reply \in {"refused", "fine"}, ioRuns' = [ioRuns EXCEPT ![j].reply = reply],
               r.at \in AwaitsWorker, r.at = "sealing" => reply = "refused"
        PROVE  \E new \in IoRuns : /\ ioRuns' = [ioRuns EXCEPT ![j] = new]
                                   /\ Knows(new) /\ (AtWork(new) <=> AtWork(r))
    <3>1. PICK new : new = [r EXCEPT !.reply = reply]
        OBVIOUS
    <3>2. new \in IoRuns /\ new.at = r.at /\ new.mine = r.mine /\ new.file = r.file /\ new.reply = reply
        BY <3>1 DEF IoRuns, Replies
    <3>3. ioRuns' = [ioRuns EXCEPT ![j] = new]
        BY <1>1, <2>3, <3>1 DEF RestoringInv, RestoringTypes
    <3>4. Knows(new) /\ (AtWork(new) <=> AtWork(r))
        BY <2>1, <2>3, <3>2 DEF Knows, AtWork
    <3>5. QED
        BY <3>2, <3>3, <3>4
  <2>4. \/ r.at = "reading" /\ ioRuns' = [ioRuns EXCEPT ![j] = NoRun]
        \/ r.at \in AwaitsWorker /\ ioRuns' = [ioRuns EXCEPT ![j].reply = "refused"]
        \/ r.at \in AwaitsWorker /\ r.at # "sealing" /\ ioRuns' = [ioRuns EXCEPT ![j].reply = "fine"]
      BY <1>1 DEF WorkerFails, RunEnds, AwaitsWorker
  <2>5. QED
      BY <2>2, <2>3, <2>4
<1>5. PICK new \in IoRuns : /\ ioRuns' = [ioRuns EXCEPT ![j] = new]
                            /\ Knows(new) /\ (AtWork(new) <=> AtWork(r))
    BY <1>4
<1>6. RestoringTypes'
    BY <1>2, <1>3, <1>5, JobChanges DEF RestoringInv, RestoringTypes
<1>7. JobsKnow' /\ BackupsSealed' /\ ModeWasTicked'
    BY <1>2, <1>3, <1>5, JobsKeepKnowing DEF RestoringInv, BackupsSealed, ModeWasTicked
<1>8. CountsHold'
    BY <1>3 DEF CountsHold
<1>9. BarHolds'
  <2>1. chronicle.failed => chronicle'.failed
      BY <1>3
  <2>2. QED
      BY <1>1, <1>2, <1>5, <2>1, BarStays DEF RestoringInv
<1>10. NoticeHolds'
    BY <1>3 DEF NoticeHolds, Astray
<1>11. QED
    BY <1>6, <1>7, <1>8, <1>9, <1>10 DEF RestoringInv

(***************************** every step ***********************************)

LEMMA RestoringStep == RestoringInv /\ [RestoringNext]_restoring => RestoringInv'
<1> SUFFICES ASSUME RestoringInv, [RestoringNext]_restoring PROVE RestoringInv'
    OBVIOUS
<1>1. CASE OpensIo \/ LeavesIo \/ PressesBackup \/ PressesUndoImport \/ OfferLapses \/ LocksVault
    BY <1>1, OpensIoStep, LeavesIoStep, PressesBackupStep, PressesUndoImportStep, OfferLapsesStep, LocksVaultStep
<1>2. CASE UnlocksVault \/ UNCHANGED restoring
    BY <1>2, NothingHappens DEF UnlocksVault, restoring, RestoringInv, RestoringTypes
<1>3. CASE \E picked \in FilesAround \cup {saved.file : saved \in handedOver} : PicksFile(picked)
    BY <1>3, PicksFileStep
<1>4. CASE \/ \E mark \in ChangedBoth : EditsElsewhere(mark)
           \/ \E finished \in BOOLEAN : ProgressElsewhere(finished)
    BY <1>4, EditsElsewhereStep, ProgressElsewhereStep
<1>5. ASSUME NEW j \in IoJobs,
             \/ \E typed \in {VaultPassword, "other"} : SubmitsBackup(j, "vault", typed, "")
             \/ \E typed, again \in {"other"} \cup Brief : SubmitsBackup(j, "custom", typed, again)
             \/ \E typed \in {VaultPassword, "other"} : SubmitsPassword(j, typed)
             \/ \E mode \in {"merge", "replace"} : TicksMode(j, mode)
      PROVE  RestoringInv'
  <2>1. VaultPassword \in Passwords /\ "other" \in Passwords /\ Brief \subseteq Passwords
      BY DEF Passwords, VaultPassword
  <2>2. QED
      BY <1>5, <2>1, SubmitsBackupStep, SubmitsPasswordStep, TicksModeStep
<1>6. ASSUME NEW j \in IoJobs,
             \/ Exports(j) \/ ExportArrives(j) \/ FileRead(j) \/ PreviewsImport(j) \/ PreviewArrives(j)
             \/ SubmitsMode(j) \/ CountsBookmarks(j) \/ CountArrives(j) \/ TypesReplacePhrase(j)
      PROVE  RestoringInv'
    BY <1>6, ExportsStep, ExportArrivesStep, FileReadStep, PreviewsImportStep, PreviewArrivesStep, SubmitsModeStep,
       CountsBookmarksStep, CountArrivesStep, TypesReplacePhraseStep
<1>7. ASSUME NEW j \in IoJobs,
             \/ ConfirmsReplace(j) \/ CancelsDialog(j) \/ RunsImport(j) \/ ReadsOffer(j) \/ OfferArrives(j)
             \/ ConfirmsUndo(j) \/ UndoesImport(j) \/ WorkerFails(j)
      PROVE  RestoringInv'
    BY <1>7, ConfirmsReplaceStep, CancelsDialogStep, RunsImportStep, ReadsOfferStep, OfferArrivesStep,
       ConfirmsUndoStep, UndoesImportStep, WorkerFailsStep
<1>8. ASSUME NEW j \in IoJobs, ImportArrives(j) \/ UndoneArrives(j)
      PROVE  RestoringInv'
    BY <1>8, EndsBusyStep DEF ImportArrives, UndoneArrives
<1>9. QED
    BY <1>1, <1>2, <1>3, <1>4, <1>5, <1>6, <1>7, <1>8 DEF RestoringNext

LEMMA RestoringBegins == RestoringInit => RestoringInv
<1> SUFFICES ASSUME RestoringInit PROVE RestoringInv
    OBVIOUS
<1>1. ioRuns \in [IoJobs -> IoRuns] /\ \A j \in IoJobs : ioRuns[j] = NoRun
    BY NoRunIsARun DEF RestoringInit
<1>2. /\ chronicle \in Chronicles /\ ~chronicle.swapped /\ ~chronicle.misled
    BY DEF RestoringInit, Chronicles
<1>3. RestoringTypes
    BY <1>1, <1>2 DEF RestoringInit, RestoringTypes, Marks
<1>4. Knows(NoRun) /\ ~Told(NoRun)
    BY NoRunIsARun DEF Knows, Restore, AwaitsWorker, Told
<1>5. JobsKnow /\ BackupsSealed /\ ModeWasTicked
    BY <1>1, <1>2, <1>4 DEF RestoringInit, JobsKnow, BackupsSealed, ModeWasTicked
<1>6. CountsHold
    BY <1>1, <1>2, <1>4 DEF RestoringInit, CountsHold
<1>7. BarHolds
    BY DEF RestoringInit, BarHolds
<1>8. NoticeHolds
    BY <1>1, NoRunIsARun DEF RestoringInit, NoticeHolds, Behind
<1>9. QED
    BY <1>3, <1>5, <1>6, <1>7, <1>8 DEF RestoringInv

LEMMA RestoringInvMeans == RestoringInv => RestoringHolds
<1> SUFFICES ASSUME RestoringInv PROVE RestoringHolds
    OBVIOUS
<1>1. BackupsOpen
    BY DEF RestoringInv, BackupsSealed, Backups, BackupsOpen, OpenVaultFile, ParseVaultFile, ParseVmv, OpenVmv
<1>2. ReplaceWasCounted /\ ModeWasTicked
    BY DEF RestoringInv, CountsHold, ReplaceWasCounted
<1>3. NoticeIsTrue
  <2>1. Underway = {} => \A j \in IoJobs : ~Landed(ioRuns[j]) /\ ~Fresh(ioRuns[j])
      BY DEF Underway, Landed, Fresh
  <2>2. QED
      BY <2>1 DEF RestoringInv, NoticeHolds, NoticeIsTrue, Astray
<1>4. BarTellsTheTruth
  <2>1. Workers = {j \in IoJobs : ioRuns[j].mine /\ ioRuns[j].at \in {"importing", "undoing"}}
      BY DEF Workers, AtWork
  <2>2. Cardinality(Workers) > 0 <=> Workers # {}
      BY WorkersAreFinite, FS_EmptySet
  <2>3. QED
      BY <2>1, <2>2 DEF RestoringInv, BarHolds, BarTellsTheTruth
<1>5. QED
    BY <1>1, <1>2, <1>3, <1>4 DEF RestoringHolds

(* The backup screen keeps its word, however many jobs, files and dialogs   *)
(* there are and however they interleave (src/manager/io.ts): every backup  *)
(* handed over opens, a replace was told its count, the mode applied was    *)
(* ticked for that file, and the bar and the undo notice are true.          *)
THEOREM BackupScreenAlwaysHolds == RestoringSpec => []RestoringHolds
<1>1. RestoringInit => RestoringInv
    BY RestoringBegins
<1>2. RestoringInv /\ [RestoringNext]_restoring => RestoringInv'
    BY RestoringStep
<1>3. RestoringInv => RestoringHolds
    BY RestoringInvMeans
<1>4. QED
    BY <1>1, <1>2, <1>3, PTL DEF RestoringSpec
=============================================================================
