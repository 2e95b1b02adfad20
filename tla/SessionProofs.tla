---------------------------- MODULE SessionProofs ----------------------------
(* Invariants of Session for every number of handlers, objects and edits.  *)
EXTENDS Session, TLAPS

Steps == {"idle", "read", "deriving", "lock-read", "lock-hook", "lock-forget",
          "lock-alarms", "opening", "have", "flush", "touch", "arm", "reread",
          "settings", "settings-write", "start", "stand-down"}
Kinds == {"none", "use", "touch", "hold", "state", "destroy", "arrived", "settings",
          "unlock", "adopt", "lock", "panic", "enforce", "housekeep"}

Handling == [pc : Steps, op : Kinds, rec : Records \cup {Null},
             obj : Objects \cup {Null}, gen : Nat, until : Deadlines,
             live : BOOLEAN, under : BOOLEAN, edit : Edits \cup {Null}]

(* What a suspended handler carries.                                       *)
Sound(h) ==
    /\ h \in Handling
    /\ h.pc \in {"lock-hook", "have", "flush", "start", "stand-down"} => h.obj # Null
    /\ h.pc \in {"opening", "touch", "settings-write"} => h.rec # Null
    /\ h.pc = "flush" => h.edit # Null
    /\ h.edit # Null => h.pc = "flush" /\ h.op = "use"

TypeInv ==
    /\ TypeOK
    /\ handler \in [Handlers -> Handling]
    /\ \A x \in Handlers : Sound(handler[x])

-----------------------------------------------------------------------------
(* Values *)

LEMMA NullIsNothing == Null \notin Vaults /\ Null \notin Objects /\ Null \notin Edits
BY ConstantsAssumption

LEMMA NullIsNoRecord == Null \notin Records
BY ConstantsAssumption

LEMMA BlankTyped == \A v \in Vaults : Blank(v) \in Disks
BY DEF Blank, Disks

LEMMA ClosedTyped ==
    ASSUME NEW v \in Vaults, NEW edits \in SUBSET Edits
    PROVE  /\ Closed \in [open : BOOLEAN, vault : Vaults, edits : SUBSET Edits,
                          dirty : SUBSET Edits]
           /\ Opened(v, edits) \in [open : BOOLEAN, vault : Vaults, edits : SUBSET Edits,
                                    dirty : SUBSET Edits]
BY DEF Closed, Opened, Vaults

(* A flush leaves a vault on disk or what was there.                       *)
LEMMA FlushTyped ==
    ASSUME NEW d \in Disks \cup {Null},
           NEW o \in [open : BOOLEAN, vault : Vaults, edits : SUBSET Edits,
                      dirty : SUBSET Edits]
    PROVE  Flushed(o, d) \in Disks \cup {Null}
<1> DEFINE b == [e \in Edits |->
                    IF e \in o.dirty THEN [vault |-> o.vault, edited |-> TRUE]
                    ELSE IF d = Null THEN [vault |-> o.vault, edited |-> FALSE]
                    ELSE d.buckets[e]]
<1>1. ASSUME NEW e \in Edits PROVE b[e] \in [vault : Vaults, edited : BOOLEAN]
  <2>1. CASE e \in o.dirty
      BY <2>1
  <2>2. CASE e \notin o.dirty /\ d = Null
      BY <2>2
  <2>3. CASE e \notin o.dirty /\ d # Null
    <3>1. d.buckets \in [Edits -> [vault : Vaults, edited : BOOLEAN]]
        BY <2>3 DEF Disks
    <3>2. QED
        BY <2>3, <3>1
  <2>4. QED
      BY <2>1, <2>2, <2>3
<1>2. b \in [Edits -> [vault : Vaults, edited : BOOLEAN]]
    BY <1>1
<1>3. [vault |-> o.vault, tags |-> o.edits, buckets |-> b] \in Disks
    BY <1>2 DEF Disks
<1>4. QED
    BY <1>3 DEF Flushed

LEMMA DeadlineTyped ==
    ASSUME NEW m \in 0 .. MaxTime, NEW t \in 0 .. MaxTime
    PROVE  DeadlineFrom(m, t) \in Deadlines
<1>1. MaxTime \in Nat /\ NeverExpires \in Nat
    BY ConstantsAssumption DEF NeverExpires
<1>2. CASE m = 0
    BY <1>1, <1>2 DEF DeadlineFrom, Deadlines
<1>3. CASE m # 0
    BY <1>1, <1>3 DEF DeadlineFrom, Deadlines, NeverExpires
<1>4. QED
    BY <1>2, <1>3

LEMMA AlarmTyped == \A d \in Deadlines : AlarmFor(d) \in Deadlines \cup {Null}
BY DEF AlarmFor

LEMMA IdleSound == Sound(Idle)
<1>1. 0 \in Deadlines
    BY ConstantsAssumption DEF Deadlines, NeverExpires
<1>2. Idle \in Handling
    BY <1>1 DEF Idle, Handling, Steps, Kinds
<1>3. QED
    BY <1>2 DEF Sound, Idle

LEMMA BegunSound ==
    ASSUME TypeOK, NEW op \in Kinds
    PROVE  Sound(Begun(op)) /\ Begun(op).op = op /\ Begun(op).pc = "read"
           /\ Begun(op).rec = record /\ Begun(op).gen = generation
           /\ Begun(op).under = Locking /\ Begun(op).edit = Null
           /\ Begun(op).live = (record # Null /\ ~Expired(record, now))
<1>1. Locking \in BOOLEAN /\ (record # Null /\ ~Expired(record, now)) \in BOOLEAN
    BY DEF Locking, Expired
<1>2. Idle \in Handling
    BY IdleSound DEF Sound
<1> DEFINE begun(r, n, l, u) ==
             [Idle EXCEPT !.op = op, !.pc = "read", !.rec = r, !.gen = n,
                          !.live = l, !.under = u]
           Fields(b, r, n, l, u) ==
             /\ b \in Handling
             /\ b.op = op /\ b.pc = "read" /\ b.rec = r /\ b.gen = n
             /\ b.live = l /\ b.under = u /\ b.edit = Null
<1>3. \A r \in Records \cup {Null}, n \in Nat, l, u \in BOOLEAN :
        Fields(begun(r, n, l, u), r, n, l, u)
  <2> TAKE r \in Records \cup {Null}, n \in Nat, l, u \in BOOLEAN
  <2>1. Idle.edit = Null /\ "read" \in Steps
      BY DEF Idle, Steps
  <2>2. begun(r, n, l, u) \in Handling
      BY <1>2, <2>1 DEF Handling
  <2>3. /\ begun(r, n, l, u).op = op /\ begun(r, n, l, u).pc = "read"
        /\ begun(r, n, l, u).rec = r /\ begun(r, n, l, u).gen = n
        /\ begun(r, n, l, u).live = l /\ begun(r, n, l, u).under = u
        /\ begun(r, n, l, u).edit = Null
      BY <1>2, <2>1 DEF Handling
  <2>4. QED
      BY <2>2, <2>3
<1>4. Begun(op) = begun(record, generation, record # Null /\ ~Expired(record, now), Locking)
    BY DEF Begun
<1>5. Fields(Begun(op), record, generation, record # Null /\ ~Expired(record, now), Locking)
  <2>1. record \in Records \cup {Null} /\ generation \in Nat
      BY DEF TypeOK
  <2> HIDE DEF begun, Fields
  <2>2. QED
      BY <1>1, <1>3, <1>4, <2>1, Zenon
<1>6. QED
    BY <1>5 DEF Sound

-----------------------------------------------------------------------------
(* What a handler does to its own record and to the lock generation        *)

LockSteps == {"lock-read", "lock-hook", "lock-forget"}

(* touch() or rememberFocusHolder() with the record in hand.               *)
Pending(h) ==
    \/ h.pc = "read" /\ h.op \in {"touch", "hold"}
    \/ h.pc = "touch"

(* A handler uses the vault only if there was a session when it began; and *)
(* a touch that no lock has overtaken began while one was on its way, if   *)
(* one is on its way still, or if the record has gone.                     *)
Fits(h) ==
    /\ h.gen <= generation
    /\ h.op = "use" /\ h.pc = "read" /\ h.rec # Null /\ ~Expired(h.rec, now) => h.live
    /\ h.op = "use" /\ h.pc \in {"opening", "have", "flush"} => h.live
    /\ Pending(h) /\ h.gen = generation /\ Locking => h.under
    /\ Pending(h) /\ h.gen = generation /\ record = Null /\ h.rec # Null => h.under

AllFit == \A x \in Handlers : Fits(handler[x])

(* Handler x becomes h.                                                    *)
Becomes(x, h) ==
    /\ Sound(h)
    /\ handler' = [handler EXCEPT ![x] = h]
    /\ now' = now

(* It ends or goes on without looking at the vault, and locks nothing.     *)
Harmless(h) ==
    /\ ~Pending(h)
    /\ h.pc \notin LockSteps
    /\ h.op = "use" => h.pc \notin {"read", "opening", "have", "flush"}

Effect(x, h) ==
    /\ Becomes(x, h)
    /\ generation' \in {generation, generation + 1}
    /\ h.gen <= generation'
    /\ generation' = generation =>
          /\ h.pc \in LockSteps => handler[x].pc \in LockSteps
          /\ record # Null /\ record' = Null => handler[x].pc \in LockSteps
    /\ h.op = "use" /\ h.pc = "read" /\ h.rec # Null /\ ~Expired(h.rec, now) => h.live
    /\ h.op = "use" /\ h.pc \in {"opening", "have", "flush"} => h.live
    /\ Pending(h) =>
          /\ generation' = generation
          /\ record' = record
          /\ \/ /\ Pending(handler[x])
                /\ h.gen = handler[x].gen /\ h.rec = handler[x].rec
                /\ h.under = handler[x].under
             \/ h.rec = record /\ h.under = Locking

LEMMA BecomesTyped ==
    ASSUME TypeInv, NEW x \in Handlers, NEW h, Becomes(x, h)
    PROVE  /\ handler' \in [Handlers -> Handling]
           /\ handler'[x] = h
           /\ \A y \in Handlers \ {x} : handler'[y] = handler[y]
           /\ \A y \in Handlers : Sound(handler'[y])
BY DEF Becomes, TypeInv, Sound

(* What an effect leaves true of every handler.                            *)
LEMMA EffectFits ==
    ASSUME TypeInv, AllFit, NEW x \in Handlers, NEW h, Effect(x, h)
    PROVE  AllFit'
<1> SUFFICES ASSUME NEW y \in Handlers PROVE Fits(handler[y])'
    BY DEF AllFit
<1>1. /\ handler'[x] = h
      /\ \A z \in Handlers \ {x} : handler'[z] = handler[z]
    BY BecomesTyped DEF Effect
<1>2. now' = now /\ generation \in Nat /\ generation' \in {generation, generation + 1}
    BY DEF Effect, Becomes, TypeInv, TypeOK
<1>3. ASSUME generation' = generation, Locking' PROVE Locking
    BY <1>1, <1>3 DEF Effect, Locking, LockSteps
<1>4. ASSUME generation' = generation, record' = Null PROVE record = Null \/ Locking
    BY <1>4 DEF Effect, Locking, LockSteps
<1>5. ASSUME NEW z \in Handlers
      PROVE  handler[z] \in Handling /\ Fits(handler[z]) /\ handler[z].gen \in Nat
    BY DEF TypeInv, AllFit, Handling
<1>6. CASE y = x
  <2>1. /\ h.gen <= generation'
        /\ h.op = "use" /\ h.pc = "read" /\ h.rec # Null /\ ~Expired(h.rec, now) => h.live
        /\ h.op = "use" /\ h.pc \in {"opening", "have", "flush"} => h.live
      BY DEF Effect
  <2>2. ASSUME Pending(h), h.gen = generation', Locking' PROVE h.under
      BY <1>3, <1>5, <2>2 DEF Effect, Fits
  <2>3. ASSUME Pending(h), h.gen = generation', record' = Null, h.rec # Null PROVE h.under
      BY <1>4, <1>5, <2>3 DEF Effect, Fits
  <2>4. QED
      BY <1>1, <1>2, <1>6, <2>1, <2>2, <2>3 DEF Fits, Pending, Expired
<1>7. CASE y # x
  <2>1. handler'[y] = handler[y]
      BY <1>1, <1>7
  <2>2. handler[y].gen <= generation'
      BY <1>2, <1>5 DEF Fits
  <2>3. ASSUME Pending(handler[y]), handler[y].gen = generation', Locking'
        PROVE  handler[y].under
    <3>1. generation' = generation
        BY <1>2, <1>5, <2>3 DEF Fits
    <3>2. QED
        BY <1>3, <1>5, <2>3, <3>1 DEF Fits
  <2>4. ASSUME Pending(handler[y]), handler[y].gen = generation', record' = Null,
               handler[y].rec # Null
        PROVE  handler[y].under
    <3>1. generation' = generation
        BY <1>2, <1>5, <2>4 DEF Fits
    <3>2. QED
        BY <1>4, <1>5, <2>4, <3>1 DEF Fits
  <2>5. QED
      BY <1>2, <1>5, <2>1, <2>2, <2>3, <2>4 DEF Fits, Pending, Expired
<1>8. QED
    BY <1>6, <1>7

LEMMA HarmlessEffect ==
    ASSUME TypeInv, AllFit, NEW x \in Handlers, NEW h, Becomes(x, h), Harmless(h),
           h.gen <= generation',
           \/ generation' = generation /\ (handler[x].pc \in LockSteps \/ record' # Null
                                           \/ record' = record)
           \/ generation' = generation + 1
    PROVE  Effect(x, h)
<1>1. generation \in Nat
    BY DEF TypeInv, TypeOK
<1>2. QED
    BY <1>1 DEF Effect, Harmless

LEMMA IdleHarmless == Harmless(Idle) /\ Idle.gen = 0
BY DEF Harmless, Idle, Pending, LockSteps

(* A handler that is done.                                                 *)
LEMMA EndEffect ==
    ASSUME TypeInv, AllFit, NEW x \in Handlers, handler' = [handler EXCEPT ![x] = Idle],
           now' = now, generation' = generation,
           handler[x].pc \in LockSteps \/ record' # Null \/ record' = record
    PROVE  Effect(x, Idle)
<1>1. Becomes(x, Idle)
    BY IdleSound DEF Becomes
<1>2. 0 <= generation
    BY DEF TypeInv, TypeOK
<1>3. QED
    BY <1>1, <1>2, HarmlessEffect, IdleHarmless

(* An operation that begins by reading the record.                         *)
LEMMA BeginEffect ==
    ASSUME TypeInv, AllFit, NEW x \in Handlers, NEW op \in Kinds,
           handler' = [handler EXCEPT ![x] = Begun(op)],
           now' = now, generation' = generation, record' = record
    PROVE  Effect(x, Begun(op))
<1>1. /\ Sound(Begun(op)) /\ Begun(op).op = op /\ Begun(op).pc = "read"
      /\ Begun(op).rec = record /\ Begun(op).gen = generation
      /\ Begun(op).under = Locking
      /\ Begun(op).live = (record # Null /\ ~Expired(record, now))
    BY BegunSound DEF TypeInv
<1>2. generation <= generation
    BY DEF TypeInv, TypeOK
<1>3. QED
    BY <1>1, <1>2 DEF Effect, Becomes, LockSteps

(* beginLock's callers: the handler is nobody's reader any more.           *)
LEMMA LockEffect ==
    ASSUME TypeInv, AllFit, NEW x \in Handlers, NEW panic \in BOOLEAN, NEW h,
           Sound(h), h.edit = Null, h.gen <= generation, BeginLock(x, h, panic)
    PROVE  \E k : Effect(x, k) /\ (k.obj = Null \/ k.obj = repository)
<1>1. h \in Handling
    BY DEF Sound
<1>2. record \in Records \cup {Null} /\ repository \in Objects \cup {Null}
      /\ generation \in Nat
    BY DEF TypeInv, TypeOK
<1>3. generation' = generation + 1 /\ now' = now
    BY DEF BeginLock
<1>4. CASE ~panic /\ repository = Null
  <2> DEFINE k == [h EXCEPT !.pc = "lock-read", !.rec = record, !.obj = Null]
  <2>1. handler' = [handler EXCEPT ![x] = k]
      BY <1>4 DEF BeginLock
  <2>2. k \in Handling /\ k.pc = "lock-read" /\ k.gen = h.gen /\ k.obj = Null
        /\ k.edit = Null
      BY <1>1, <1>2, ZenonT(60) DEF Handling, Steps
  <2> HIDE DEF k
  <2>3. Effect(x, k)
      BY <1>2, <1>3, <2>1, <2>2 DEF Effect, Becomes, Sound, Pending, Handling
  <2>4. QED
      BY <2>2, <2>3
<1>5. CASE ~ (~panic /\ repository = Null)
  <2> DEFINE k == [h EXCEPT !.pc = IF panic THEN "lock-forget" ELSE "lock-hook",
                            !.obj = repository]
  <2>1. handler' = [handler EXCEPT ![x] = k]
      BY <1>5 DEF BeginLock
  <2>2. k \in Handling /\ k.pc \in {"lock-forget", "lock-hook"} /\ k.gen = h.gen
        /\ k.obj = repository /\ k.edit = Null /\ (k.pc = "lock-hook" => k.obj # Null)
      BY <1>1, <1>2, <1>5 DEF Handling, Steps
  <2> HIDE DEF k
  <2>3. Effect(x, k)
      BY <1>2, <1>3, <2>1, <2>2 DEF Effect, Becomes, Sound, Pending, Handling
  <2>4. QED
      BY <2>2, <2>3
<1>6. QED
    BY <1>4, <1>5

(* A handler goes on to a step where it neither looks at the vault nor     *)
(* holds a record it may write back.                                       *)
LEMMA MoveEffect ==
    ASSUME TypeInv, AllFit, NEW x \in Handlers, NEW h, Becomes(x, h), Harmless(h),
           h.gen <= generation, generation' = generation,
           handler[x].pc \in LockSteps \/ record' # Null \/ record' = record
    PROVE  Effect(x, h)
BY HarmlessEffect

LEMMA HandlerFacts ==
    ASSUME TypeInv, AllFit, NEW x \in Handlers
    PROVE  /\ handler[x] \in Handling
           /\ Sound(handler[x])
           /\ Fits(handler[x])
           /\ handler[x].gen <= generation
           /\ 0 <= generation
BY DEF TypeInv, TypeOK, AllFit, Fits

(* What a handler that asked for a lock does when it is over.              *)
LEMMA AfterLockEffect ==
    ASSUME TypeInv, AllFit, NEW x \in Handlers, handler[x].edit = Null,
           handler' = [handler EXCEPT ![x] = AfterLock(@)],
           now' = now, generation' = generation,
           handler[x].pc \in LockSteps \/ record' = record
    PROVE  \E h : Effect(x, h)
<1>1. CASE handler[x].op = "settings"
  <2> DEFINE h == [handler[x] EXCEPT !.pc = "reread", !.obj = Null]
  <2>1. handler' = [handler EXCEPT ![x] = h]
      BY <1>1 DEF AfterLock
  <2>2. h \in Handling /\ h.pc = "reread" /\ h.op = "settings" /\ h.gen = handler[x].gen
        /\ h.edit = Null
    <3>1. "reread" \in Steps
        BY DEF Steps
    <3>2. handler[x] \in Handling
        BY HandlerFacts
    <3>3. QED
        BY <1>1, <3>1, <3>2 DEF Handling
  <2> HIDE DEF h
  <2>3. Becomes(x, h) /\ Harmless(h)
      BY <2>1, <2>2 DEF Becomes, Sound, Harmless, Pending, LockSteps
  <2>4. QED
      BY <2>2, <2>3, HandlerFacts, MoveEffect
<1>2. CASE handler[x].op # "settings"
  <2>1. handler' = [handler EXCEPT ![x] = Idle]
      BY <1>2 DEF AfterLock
  <2>2. QED
      BY <2>1, EndEffect
<1>3. QED
    BY <1>1, <1>2

(* Only a handler that is flushing carries an edit.                        *)
LEMMA NoEdit ==
    ASSUME TypeInv, NEW x \in Handlers, handler[x].pc # "flush"
    PROVE  handler[x].edit = Null
BY DEF TypeInv, Sound

LEMMA StartEffects ==
    ASSUME TypeInv, AllFit, NEW x \in Handlers, UserStarts(x) \/ Alarms(x)
    PROVE  \E h : Effect(x, h)
<1>1. ASSUME NEW op \in Operations, Call(x, op) PROVE \E h : Effect(x, h)
  <2>1. op \in Kinds /\ handler' = [handler EXCEPT ![x] = Begun(op)]
      BY <1>1 DEF Call, Start, Kinds
  <2>2. now' = now /\ generation' = generation /\ record' = record
      BY <1>1 DEF Call, storage
  <2>3. QED
      BY <2>1, <2>2, BeginEffect
<1>2. ASSUME CallSettings(x) \/ Alarms(x) PROVE \E h : Effect(x, h)
  <2>1. PICK op \in Kinds : handler' = [handler EXCEPT ![x] = Begun(op)]
      BY <1>2 DEF CallSettings, Alarms, AutolockFires, HousekeepingFires, Start, Kinds
  <2>2. now' = now /\ generation' = generation /\ record' = record
      BY <1>2 DEF CallSettings, Alarms, AutolockFires, HousekeepingFires, storage
  <2>3. QED
      BY <2>1, <2>2, BeginEffect
<1>3. ASSUME CallUnlock(x) PROVE \E h : Effect(x, h)
  <2> DEFINE h == [Idle EXCEPT !.op = "unlock", !.pc = "deriving"]
  <2>1. handler' = [handler EXCEPT ![x] = h] /\ now' = now /\ generation' = generation
        /\ record' = record
      BY <1>3 DEF CallUnlock, Start, storage
  <2>2. h \in Handling /\ h.pc = "deriving" /\ h.gen = 0 /\ h.edit = Null
      BY IdleSound DEF Sound, Idle, Handling, Steps, Kinds
  <2> HIDE DEF h
  <2>3. Becomes(x, h) /\ Harmless(h)
      BY <2>1, <2>2 DEF Becomes, Sound, Harmless, Pending, LockSteps
  <2>4. QED
      BY <2>1, <2>2, <2>3, HandlerFacts, MoveEffect
<1>4. ASSUME CallAdopt(x) PROVE \E h : Effect(x, h)
  <2> DEFINE h == [Idle EXCEPT !.op = "adopt", !.obj = repository,
                               !.pc = IF repository = Null THEN "deriving"
                                                           ELSE "stand-down"]
  <2>1. handler' = [handler EXCEPT ![x] = h] /\ now' = now /\ generation' = generation
        /\ record' = record
      BY <1>4 DEF CallAdopt, Start, storage
  <2>2. repository \in Objects \cup {Null}
      BY DEF TypeInv, TypeOK
  <2>3. h \in Handling /\ h.pc \in {"deriving", "stand-down"} /\ h.gen = 0 /\ h.edit = Null
        /\ (h.pc = "stand-down" => h.obj # Null)
      BY <2>2, IdleSound DEF Sound, Idle, Handling, Steps, Kinds
  <2> HIDE DEF h
  <2>4. Becomes(x, h) /\ Harmless(h)
      BY <2>1, <2>3 DEF Becomes, Sound, Harmless, Pending, LockSteps
  <2>5. QED
      BY <2>1, <2>3, <2>4, HandlerFacts, MoveEffect
<1>5. ASSUME NEW panic \in BOOLEAN, CallLock(x, panic) PROVE \E h : Effect(x, h)
  <2> DEFINE h == [Idle EXCEPT !.op = IF panic THEN "panic" ELSE "lock"]
  <2>1. BeginLock(x, h, panic)
      BY <1>5 DEF CallLock
  <2>2. h \in Handling /\ h.gen = 0 /\ h.edit = Null /\ h.pc = "idle"
      BY IdleSound DEF Sound, Idle, Handling, Steps, Kinds
  <2> HIDE DEF h
  <2>3. Sound(h) /\ h.gen <= generation
      BY <2>2, HandlerFacts DEF Sound
  <2>4. QED
      BY <2>1, <2>2, <2>3, LockEffect
<1>6. QED
    BY <1>1, <1>2, <1>3, <1>4, <1>5 DEF UserStarts

LEMMA LockEffects ==
    ASSUME TypeInv, AllFit, NEW x \in Handlers,
           \/ LockRehydrates(x) \/ LockFlushes(x) \/ LockForgets(x) \/ LockClearsAlarms(x)
           \/ AskedTooLate(x) \/ CheckedTooLate(x)
    PROVE  \E h : Effect(x, h)
<1>h. /\ handler[x] \in Handling /\ Sound(handler[x])
      /\ handler[x].gen <= generation /\ 0 <= generation /\ generation \in Nat
    BY HandlerFacts DEF TypeInv, TypeOK
<1>s. {"lock-hook", "lock-forget", "lock-alarms"} \subseteq Steps
    BY DEF Steps
<1>1. ASSUME LockRehydrates(x) PROVE \E h : Effect(x, h)
  <2>1. /\ now' = now /\ generation' = generation /\ record' = record
        /\ handler[x].pc = "lock-read" /\ handler[x].edit = Null
      BY <1>1, NoEdit DEF LockRehydrates, storage, At
  <2>2. CASE \E o \in Objects :
                handler' = [handler EXCEPT ![x].pc = "lock-hook", ![x].obj = o]
    <3>1. PICK o \in Objects :
            handler' = [handler EXCEPT ![x].pc = "lock-hook", ![x].obj = o]
        BY <2>2
    <3> DEFINE h == [handler[x] EXCEPT !.pc = "lock-hook", !.obj = o]
    <3>2. handler' = [handler EXCEPT ![x] = h]
        BY <3>1
    <3>3. h \in Handling /\ h.pc = "lock-hook" /\ h.obj = o /\ h.gen = handler[x].gen
          /\ h.edit = Null
        BY <1>h, <1>s, <2>1 DEF Handling
    <3> HIDE DEF h
    <3>4. Effect(x, h)
        BY <1>h, <2>1, <3>2, <3>3, NullIsNothing
        DEF Effect, Becomes, Sound, Pending, LockSteps
    <3>5. QED
        BY <3>4
  <2>3. CASE handler' = [handler EXCEPT ![x].pc = "lock-forget"]
    <3> DEFINE h == [handler[x] EXCEPT !.pc = "lock-forget"]
    <3>1. handler' = [handler EXCEPT ![x] = h]
        BY <2>3
    <3>2. h \in Handling /\ h.pc = "lock-forget" /\ h.gen = handler[x].gen /\ h.edit = Null
        BY <1>h, <1>s, <2>1 DEF Handling
    <3> HIDE DEF h
    <3>3. Effect(x, h)
        BY <1>h, <2>1, <3>1, <3>2 DEF Effect, Becomes, Sound, Pending, LockSteps
    <3>4. QED
        BY <3>3
  <2>4. QED
      BY <1>1, <2>2, <2>3 DEF LockRehydrates, Go
<1>2. ASSUME LockFlushes(x) PROVE \E h : Effect(x, h)
  <2> DEFINE h == [handler[x] EXCEPT !.pc = "lock-forget"]
  <2>1. /\ now' = now /\ generation' = generation /\ record' = record
        /\ handler[x].pc = "lock-hook" /\ handler[x].edit = Null
        /\ handler' = [handler EXCEPT ![x] = h]
      BY <1>2, NoEdit DEF LockFlushes, Go, At
  <2>2. h \in Handling /\ h.pc = "lock-forget" /\ h.gen = handler[x].gen /\ h.edit = Null
      BY <1>h, <1>s, <2>1 DEF Handling
  <2> HIDE DEF h
  <2>3. Effect(x, h)
      BY <1>h, <2>1, <2>2 DEF Effect, Becomes, Sound, Pending, LockSteps
  <2>4. QED
      BY <2>3
<1>3. ASSUME LockForgets(x) PROVE \E h : Effect(x, h)
  <2> DEFINE h == [handler[x] EXCEPT !.pc = "lock-alarms", !.obj = Null]
  <2>1. /\ now' = now /\ generation' = generation
        /\ handler[x].pc = "lock-forget" /\ handler[x].edit = Null
        /\ handler' = [handler EXCEPT ![x] = h]
      BY <1>3, NoEdit DEF LockForgets, At
  <2>2. h \in Handling /\ h.pc = "lock-alarms" /\ h.gen = handler[x].gen /\ h.edit = Null
      BY <1>h, <1>s, <2>1 DEF Handling
  <2> HIDE DEF h
  <2>3. Becomes(x, h) /\ Harmless(h) /\ handler[x].pc \in LockSteps
      BY <2>1, <2>2 DEF Becomes, Sound, Harmless, Pending, LockSteps
  <2>4. QED
      BY <1>h, <2>1, <2>2, <2>3, MoveEffect
<1>4. ASSUME LockClearsAlarms(x) PROVE \E h : Effect(x, h)
  <2>1. /\ now' = now /\ generation' = generation /\ record' = record
        /\ handler[x].edit = Null /\ handler' = [handler EXCEPT ![x] = AfterLock(@)]
      BY <1>4, NoEdit DEF LockClearsAlarms, At
  <2>2. QED
      BY <2>1, AfterLockEffect
<1>5. ASSUME AskedTooLate(x) \/ CheckedTooLate(x) PROVE \E h : Effect(x, h)
  <2>1. BeginLock(x, handler[x], FALSE) /\ handler[x].edit = Null
      BY <1>5, NoEdit DEF AskedTooLate, CheckedTooLate, Asking, Checking, At
  <2>2. QED
      BY <1>h, <2>1, LockEffect
<1>6. QED
    BY <1>1, <1>2, <1>3, <1>4, <1>5

LEMMA UseEffects ==
    ASSUME TypeInv, AllFit, NEW x \in Handlers,
           \/ AskedWhileLocked(x) \/ AskedWarm(x) \/ AskedCold(x) \/ Rehydrate(x)
           \/ Apply(x) \/ FlushEdit(x) \/ Housekeep(x) \/ Destroy(x)
    PROVE  \E h : Effect(x, h)
<1>h. /\ handler[x] \in Handling /\ Sound(handler[x]) /\ Fits(handler[x])
      /\ handler[x].gen <= generation /\ generation \in Nat
    BY HandlerFacts DEF TypeInv, TypeOK
<1>s. {"have", "opening", "flush", "lock-forget"} \subseteq Steps
    BY DEF Steps
<1>1. ASSUME AskedWhileLocked(x) PROVE \E h : Effect(x, h)
  <2>1. /\ now' = now /\ generation' = generation /\ record' = record
        /\ handler[x].edit = Null /\ handler' = [handler EXCEPT ![x] = AfterLock(@)]
      BY <1>1, NoEdit DEF AskedWhileLocked, Asking, At, storage
  <2>2. QED
      BY <2>1, AfterLockEffect
<1>2. ASSUME AskedWarm(x) PROVE \E h : Effect(x, h)
  <2> DEFINE h == [handler[x] EXCEPT !.pc = "have", !.obj = repository]
  <2>1. /\ now' = now /\ generation' = generation /\ record' = record
        /\ handler[x].pc = "read" /\ handler[x].edit = Null /\ Valid(x)
        /\ handler' = [handler EXCEPT ![x] = h]
        /\ repository \in Objects
      BY <1>2, NoEdit DEF AskedWarm, Asking, At, storage, Warm, TypeInv, TypeOK
  <2>2. /\ h \in Handling /\ h.pc = "have" /\ h.gen = handler[x].gen /\ h.edit = Null
        /\ h.obj = repository /\ h.op = handler[x].op /\ h.live = handler[x].live
      BY <1>h, <1>s, <2>1 DEF Handling
  <2>3. h.op = "use" => h.live
      BY <1>h, <2>1, <2>2 DEF Fits, Valid
  <2> HIDE DEF h
  <2>4. Effect(x, h)
      BY <1>h, <2>1, <2>2, <2>3, NullIsNothing
      DEF Effect, Becomes, Sound, Pending, LockSteps
  <2>5. QED
      BY <2>4
<1>3. ASSUME AskedCold(x) PROVE \E h : Effect(x, h)
  <2> DEFINE h == [handler[x] EXCEPT !.pc = "opening"]
  <2>1. /\ now' = now /\ generation' = generation /\ record' = record
        /\ handler[x].pc = "read" /\ handler[x].edit = Null /\ Valid(x)
        /\ handler' = [handler EXCEPT ![x] = h]
      BY <1>3, NoEdit DEF AskedCold, Asking, At, storage, Go
  <2>2. /\ h \in Handling /\ h.pc = "opening" /\ h.gen = handler[x].gen /\ h.edit = Null
        /\ h.rec = handler[x].rec /\ h.op = handler[x].op /\ h.live = handler[x].live
      BY <1>h, <1>s, <2>1 DEF Handling
  <2>3. (h.op = "use" => h.live) /\ h.rec # Null
      BY <1>h, <2>1, <2>2 DEF Fits, Valid
  <2> HIDE DEF h
  <2>4. Effect(x, h)
      BY <1>h, <2>1, <2>2, <2>3 DEF Effect, Becomes, Sound, Pending, LockSteps
  <2>5. QED
      BY <2>4
<1>4. ASSUME Rehydrate(x) PROVE \E h : Effect(x, h)
  <2>1. /\ now' = now /\ generation' = generation /\ record' = record
        /\ handler[x].pc = "opening" /\ handler[x].edit = Null
      BY <1>4, NoEdit DEF Rehydrate, At, storage
  <2>2. CASE handler' = [handler EXCEPT ![x] = Idle]
      BY <2>1, <2>2, EndEffect
  <2>3. CASE \E o \in Objects : handler' = [handler EXCEPT ![x].pc = "have", ![x].obj = o]
    <3>1. PICK o \in Objects : handler' = [handler EXCEPT ![x].pc = "have", ![x].obj = o]
        BY <2>3
    <3> DEFINE h == [handler[x] EXCEPT !.pc = "have", !.obj = o]
    <3>2. handler' = [handler EXCEPT ![x] = h]
        BY <3>1
    <3>3. /\ h \in Handling /\ h.pc = "have" /\ h.gen = handler[x].gen /\ h.edit = Null
          /\ h.obj = o /\ h.op = handler[x].op /\ h.live = handler[x].live
        BY <1>h, <1>s, <2>1 DEF Handling
    <3>4. h.op = "use" => h.live
        BY <1>h, <2>1, <3>3 DEF Fits
    <3> HIDE DEF h
    <3>5. Effect(x, h)
        BY <1>h, <2>1, <3>2, <3>3, <3>4, NullIsNothing
        DEF Effect, Becomes, Sound, Pending, LockSteps
    <3>6. QED
        BY <3>5
  <2>4. QED
      BY <1>4, <2>2, <2>3 DEF Rehydrate, Done
<1>5. ASSUME Apply(x) PROVE \E h : Effect(x, h)
  <2>1. /\ now' = now /\ generation' = generation /\ record' = record
        /\ handler[x].pc = "have" /\ handler[x].op = "use"
      BY <1>5 DEF Apply, At, storage
  <2>2. CASE handler' = [handler EXCEPT ![x] = Idle]
      BY <2>1, <2>2, EndEffect
  <2>3. CASE \E e \in Edits : handler' = [handler EXCEPT ![x].pc = "flush", ![x].edit = e]
    <3>1. PICK e \in Edits : handler' = [handler EXCEPT ![x].pc = "flush", ![x].edit = e]
        BY <2>3
    <3> DEFINE h == [handler[x] EXCEPT !.pc = "flush", !.edit = e]
    <3>2. handler' = [handler EXCEPT ![x] = h]
        BY <3>1
    <3>3. /\ h \in Handling /\ h.pc = "flush" /\ h.gen = handler[x].gen /\ h.edit = e
          /\ h.obj = handler[x].obj /\ h.op = "use" /\ h.live = handler[x].live
        BY <1>h, <1>s, <2>1 DEF Handling
    <3>4. h.live /\ h.obj # Null
        BY <1>h, <2>1, <3>3 DEF Fits, Sound
    <3> HIDE DEF h
    <3>5. Effect(x, h)
        BY <1>h, <2>1, <3>2, <3>3, <3>4, NullIsNothing
        DEF Effect, Becomes, Sound, Pending, LockSteps
    <3>6. QED
        BY <3>5
  <2>4. QED
      BY <1>5, <2>2, <2>3 DEF Apply, Done
<1>6. ASSUME FlushEdit(x) PROVE \E h : Effect(x, h)
  <2> DEFINE h == [Begun("touch") EXCEPT !.live = handler[x].live]
  <2>1. /\ now' = now /\ generation' = generation /\ record' = record
        /\ handler' = [handler EXCEPT ![x] = h]
      BY <1>6 DEF FlushEdit
  <2>2. /\ Sound(Begun("touch")) /\ Begun("touch").op = "touch" /\ Begun("touch").pc = "read"
        /\ Begun("touch").rec = record /\ Begun("touch").gen = generation
        /\ Begun("touch").under = Locking /\ Begun("touch").edit = Null
      BY BegunSound DEF TypeInv, Kinds
  <2>3. Begun("touch") \in Handling /\ handler[x].live \in BOOLEAN
      BY <1>h, <2>2 DEF Sound, Handling
  <2>4. /\ h \in Handling /\ h.op = "touch" /\ h.pc = "read"
        /\ h.rec = Begun("touch").rec /\ h.gen = Begun("touch").gen
        /\ h.under = Begun("touch").under /\ h.edit = Begun("touch").edit
    <3> DEFINE b == Begun("touch")
    <3> HIDE DEF b
    <3>1. b \in Handling /\ b.op = "touch" /\ b.pc = "read"
        BY <2>2, <2>3 DEF b
    <3>2. /\ [b EXCEPT !.live = handler[x].live] \in Handling
          /\ [b EXCEPT !.live = handler[x].live].op = "touch"
          /\ [b EXCEPT !.live = handler[x].live].pc = "read"
          /\ [b EXCEPT !.live = handler[x].live].rec = b.rec
          /\ [b EXCEPT !.live = handler[x].live].gen = b.gen
          /\ [b EXCEPT !.live = handler[x].live].under = b.under
          /\ [b EXCEPT !.live = handler[x].live].edit = b.edit
        BY <2>3, <3>1 DEF Handling
    <3>3. QED
        BY <3>2 DEF b
  <2> HIDE DEF h
  <2>5. h.under = Locking
      BY <2>2, <2>4
  <2>6. Effect(x, h)
      BY <1>h, <2>1, <2>2, <2>4, <2>5 DEF Effect, Becomes, Sound, LockSteps
  <2>7. QED
      BY <2>6
<1>7. ASSUME Housekeep(x) PROVE \E h : Effect(x, h)
  <2>1. /\ now' = now /\ generation' = generation /\ record' = record
        /\ handler' = [handler EXCEPT ![x] = Idle]
      BY <1>7 DEF Housekeep, Done, storage
  <2>2. QED
      BY <2>1, EndEffect
<1>8. ASSUME Destroy(x) PROVE \E h : Effect(x, h)
  <2> DEFINE h == [handler[x] EXCEPT !.pc = "lock-forget", !.obj = Null]
  <2>1. /\ now' = now /\ generation' = generation + 1
        /\ handler[x].pc = "have" /\ handler[x].edit = Null
        /\ handler' = [handler EXCEPT ![x] = h]
      BY <1>8, NoEdit DEF Destroy, At
  <2>2. h \in Handling /\ h.pc = "lock-forget" /\ h.gen = handler[x].gen /\ h.edit = Null
      BY <1>h, <1>s, <2>1 DEF Handling
  <2>3. h.gen \in Nat
      BY <2>2 DEF Handling
  <2> HIDE DEF h
  <2>4. Effect(x, h)
      BY <1>h, <2>1, <2>2, <2>3 DEF Effect, Becomes, Sound, Pending
  <2>5. QED
      BY <2>4
<1>9. QED
    BY <1>1, <1>2, <1>3, <1>4, <1>5, <1>6, <1>7, <1>8

LEMMA WindowEffects ==
    ASSUME TypeInv, AllFit, NEW x \in Handlers,
           \/ TouchReadsSettings(x) \/ TouchWrites(x) \/ ArmAlarm(x) \/ RememberHolder(x)
           \/ StateAnswers(x) \/ EnforceDeadline(x)
    PROVE  \E h : Effect(x, h)
<1>h. /\ handler[x] \in Handling /\ Sound(handler[x])
      /\ handler[x].gen <= generation /\ generation \in Nat
    BY HandlerFacts DEF TypeInv, TypeOK
<1>s. {"touch", "arm"} \subseteq Steps
    BY DEF Steps
<1>1. ASSUME TouchReadsSettings(x) PROVE \E h : Effect(x, h)
  <2> DEFINE h == [handler[x] EXCEPT !.pc = "touch", !.until = DeadlineFrom(timeout, now)]
  <2>1. /\ now' = now /\ generation' = generation /\ record' = record
        /\ handler[x].pc = "read" /\ handler[x].edit = Null /\ Valid(x)
        /\ handler[x].op = "touch" /\ handler' = [handler EXCEPT ![x] = h]
      BY <1>1, NoEdit DEF TouchReadsSettings, At, storage
  <2>2. DeadlineFrom(timeout, now) \in Deadlines
      BY ConstantsAssumption, DeadlineTyped DEF TypeInv, TypeOK
  <2>3. /\ h \in Handling /\ h.pc = "touch" /\ h.gen = handler[x].gen /\ h.edit = Null
        /\ h.rec = handler[x].rec /\ h.op = "touch" /\ h.under = handler[x].under
      BY <1>h, <1>s, <2>1, <2>2 DEF Handling
  <2>4. h.rec # Null
      BY <2>1, <2>3 DEF Valid
  <2> HIDE DEF h
  <2>5. Effect(x, h)
      BY <1>h, <2>1, <2>3, <2>4 DEF Effect, Becomes, Sound, Pending, LockSteps
  <2>6. QED
      BY <2>5
<1>2. ASSUME TouchWrites(x) PROVE \E h : Effect(x, h)
  <2>1. /\ now' = now /\ generation' = generation
        /\ handler[x].pc = "touch" /\ handler[x].edit = Null /\ handler[x].rec # Null
      BY <1>h, <1>2, NoEdit DEF TouchWrites, At, Sound
  <2>2. CASE handler' = [handler EXCEPT ![x] = Idle] /\ record' = record
      BY <2>1, <2>2, EndEffect
  <2>3. CASE /\ handler' = [handler EXCEPT ![x].pc = "arm"]
             /\ record' = [handler[x].rec EXCEPT !.until = handler[x].until]
    <3> DEFINE h == [handler[x] EXCEPT !.pc = "arm"]
    <3>1. handler' = [handler EXCEPT ![x] = h]
        BY <2>3
    <3>2. h \in Handling /\ h.pc = "arm" /\ h.gen = handler[x].gen /\ h.edit = Null
        BY <1>h, <1>s, <2>1 DEF Handling
    <3>3. record' # Null
        BY <1>h, <2>1, <2>3, NullIsNoRecord DEF Handling, Records
    <3> HIDE DEF h
    <3>4. Becomes(x, h) /\ Harmless(h)
        BY <2>1, <3>1, <3>2 DEF Becomes, Sound, Harmless, Pending, LockSteps
    <3>5. QED
        BY <1>h, <2>1, <3>2, <3>3, <3>4, MoveEffect
  <2>4. QED
      BY <1>2, <2>2, <2>3 DEF TouchWrites, Done, Go
<1>3. ASSUME ArmAlarm(x) \/ StateAnswers(x) \/ EnforceDeadline(x) PROVE \E h : Effect(x, h)
  <2>1. /\ now' = now /\ generation' = generation /\ record' = record
        /\ handler' = [handler EXCEPT ![x] = Idle]
      BY <1>3 DEF ArmAlarm, StateAnswers, EnforceDeadline, Done, storage
  <2>2. QED
      BY <2>1, EndEffect
<1>4. ASSUME RememberHolder(x) PROVE \E h : Effect(x, h)
  <2>1. /\ now' = now /\ generation' = generation
        /\ handler' = [handler EXCEPT ![x] = Idle]
      BY <1>4 DEF RememberHolder, Done
  <2>2. record' # Null \/ record' = record
      BY <1>h, <1>4, NullIsNoRecord DEF RememberHolder, Handling, Records
  <2>3. QED
      BY <2>1, <2>2, EndEffect
<1>5. QED
    BY <1>1, <1>2, <1>3, <1>4

LEMMA SettingsEffects ==
    ASSUME TypeInv, AllFit, NEW x \in Handlers,
           ReadAgain(x) \/ SettingsArm(x) \/ SettingsWrite(x) \/ SettingsArrived(x)
    PROVE  \E h : Effect(x, h)
<1>h. /\ handler[x] \in Handling /\ Sound(handler[x])
      /\ handler[x].gen <= generation /\ generation \in Nat
    BY HandlerFacts DEF TypeInv, TypeOK
<1>s. {"settings", "settings-write", "arm"} \subseteq Steps
    BY DEF Steps
<1>d. DeadlineFrom(timeout, now) \in Deadlines
    BY ConstantsAssumption, DeadlineTyped DEF TypeInv, TypeOK
<1>r. record \in Records \cup {Null}
    BY DEF TypeInv, TypeOK
<1>1. ASSUME ReadAgain(x) PROVE \E h : Effect(x, h)
  <2> DEFINE h == [handler[x] EXCEPT !.pc = "settings", !.obj = Null, !.rec = record]
  <2>1. /\ now' = now /\ generation' = generation /\ record' = record
        /\ handler[x].edit = Null /\ handler' = [handler EXCEPT ![x] = h]
      BY <1>1, NoEdit DEF ReadAgain, At, storage
  <2>2. h \in Handling /\ h.pc = "settings" /\ h.gen = handler[x].gen /\ h.edit = Null
      BY <1>h, <1>s, <1>r, <2>1 DEF Handling
  <2> HIDE DEF h
  <2>3. Becomes(x, h) /\ Harmless(h)
      BY <2>1, <2>2 DEF Becomes, Sound, Harmless, Pending, LockSteps
  <2>4. QED
      BY <1>h, <2>1, <2>2, <2>3, MoveEffect
<1>2. ASSUME SettingsArm(x) PROVE \E h : Effect(x, h)
  <2>1. /\ now' = now /\ generation' = generation /\ record' = record
        /\ handler[x].edit = Null
      BY <1>2, NoEdit DEF SettingsArm, At
  <2>2. CASE handler' = [handler EXCEPT ![x] = Idle]
      BY <2>1, <2>2, EndEffect
  <2>3. CASE /\ handler[x].rec # Null
             /\ handler' = [handler EXCEPT ![x].pc = "settings-write",
                                           ![x].until = DeadlineFrom(timeout, now)]
    <3> DEFINE h == [handler[x] EXCEPT !.pc = "settings-write",
                                       !.until = DeadlineFrom(timeout, now)]
    <3>1. handler' = [handler EXCEPT ![x] = h]
        BY <2>3
    <3>2. /\ h \in Handling /\ h.pc = "settings-write" /\ h.gen = handler[x].gen
          /\ h.edit = Null /\ h.rec # Null
        BY <1>h, <1>s, <1>d, <2>1, <2>3 DEF Handling
    <3> HIDE DEF h
    <3>3. Becomes(x, h) /\ Harmless(h)
        BY <2>1, <3>1, <3>2 DEF Becomes, Sound, Harmless, Pending, LockSteps
    <3>4. QED
        BY <1>h, <2>1, <3>2, <3>3, MoveEffect
  <2>4. QED
      BY <1>2, <2>2, <2>3 DEF SettingsArm, Done
<1>3. ASSUME SettingsWrite(x) PROVE \E h : Effect(x, h)
  <2>1. /\ now' = now /\ generation' = generation
        /\ handler' = [handler EXCEPT ![x] = Idle]
      BY <1>3 DEF SettingsWrite, Done
  <2>2. record' # Null
      BY <1>h, <1>3, NullIsNoRecord DEF SettingsWrite, At, Sound, Handling, Records
  <2>3. QED
      BY <2>1, <2>2, EndEffect
<1>4. ASSUME SettingsArrived(x) PROVE \E h : Effect(x, h)
  <2>1. /\ now' = now /\ generation' = generation
        /\ handler[x].edit = Null
      BY <1>4, NoEdit DEF SettingsArrived, At
  <2>2. CASE handler' = [handler EXCEPT ![x] = Idle] /\ record' = record
      BY <2>1, <2>2, EndEffect
  <2>3. CASE /\ handler[x].rec # Null
             /\ record' = [handler[x].rec EXCEPT !.until = DeadlineFrom(timeout, now)]
             /\ handler' = [handler EXCEPT ![x].pc = "arm",
                                           ![x].until = DeadlineFrom(timeout, now)]
    <3> DEFINE h == [handler[x] EXCEPT !.pc = "arm", !.until = DeadlineFrom(timeout, now)]
    <3>1. handler' = [handler EXCEPT ![x] = h]
        BY <2>3
    <3>2. h \in Handling /\ h.pc = "arm" /\ h.gen = handler[x].gen /\ h.edit = Null
        BY <1>h, <1>s, <1>d, <2>1 DEF Handling
    <3>3. record' # Null
        BY <1>h, <1>d, <2>3, NullIsNoRecord DEF Handling, Records
    <3> HIDE DEF h
    <3>4. Becomes(x, h) /\ Harmless(h)
        BY <2>1, <3>1, <3>2 DEF Becomes, Sound, Harmless, Pending, LockSteps
    <3>5. QED
        BY <1>h, <2>1, <3>2, <3>3, <3>4, MoveEffect
  <2>4. QED
      BY <1>4, <2>2, <2>3 DEF SettingsArrived, Done
<1>5. QED
    BY <1>1, <1>2, <1>3, <1>4

LEMMA PasswordEffects ==
    ASSUME TypeInv, AllFit, NEW x \in Handlers,
           \/ Unlock(x) \/ UnlockFails(x) \/ StartSession(x)
           \/ StandDown(x) \/ AdoptOver(x) \/ AdoptWrongPassword(x)
    PROVE  \E h : Effect(x, h)
<1>h. /\ handler[x] \in Handling /\ Sound(handler[x])
      /\ handler[x].gen <= generation /\ generation \in Nat
    BY HandlerFacts DEF TypeInv, TypeOK
<1>s. {"start", "arm", "deriving"} \subseteq Steps
    BY DEF Steps
<1>d. DeadlineFrom(timeout, now) \in Deadlines
    BY ConstantsAssumption, DeadlineTyped DEF TypeInv, TypeOK
<1>1. ASSUME Unlock(x) \/ AdoptOver(x) PROVE \E h : Effect(x, h)
  <2>1. /\ now' = now /\ generation' = generation /\ record' = record
        /\ handler[x].edit = Null
      BY <1>1, NoEdit DEF Unlock, AdoptOver, At
  <2>2. PICK o \in Objects :
          handler' = [handler EXCEPT
                        ![x] = [@ EXCEPT !.pc = "start", !.obj = o,
                                         !.until = DeadlineFrom(timeout, now)]]
      BY <1>1 DEF Unlock, AdoptOver
  <2> DEFINE h == [handler[x] EXCEPT !.pc = "start", !.obj = o,
                                     !.until = DeadlineFrom(timeout, now)]
  <2>3. handler' = [handler EXCEPT ![x] = h]
      BY <2>2
  <2>4. /\ h \in Handling /\ h.pc = "start" /\ h.gen = handler[x].gen /\ h.edit = Null
        /\ h.obj = o
      BY <1>h, <1>s, <1>d, <2>1 DEF Handling
  <2> HIDE DEF h
  <2>5. Becomes(x, h) /\ Harmless(h)
      BY <2>1, <2>3, <2>4, NullIsNothing DEF Becomes, Sound, Harmless, Pending, LockSteps
  <2>6. QED
      BY <1>h, <2>1, <2>4, <2>5, MoveEffect
<1>2. ASSUME UnlockFails(x) \/ AdoptWrongPassword(x) PROVE \E h : Effect(x, h)
  <2>1. /\ now' = now /\ generation' = generation /\ record' = record
        /\ handler' = [handler EXCEPT ![x] = Idle]
      BY <1>2 DEF UnlockFails, AdoptWrongPassword, Done, storage
  <2>2. QED
      BY <2>1, EndEffect
<1>3. ASSUME StartSession(x) PROVE \E h : Effect(x, h)
  <2>1. /\ now' = now /\ generation' = generation /\ handler[x].edit = Null
      BY <1>3, NoEdit DEF StartSession, At
  <2>2. CASE handler' = [handler EXCEPT ![x] = Idle] /\ record' = record
      BY <2>1, <2>2, EndEffect
  <2>3. CASE /\ record' = [vault |-> object[handler[x].obj].vault,
                           until |-> handler[x].until, held |-> FALSE]
             /\ handler' = [handler EXCEPT ![x].pc = "arm", ![x].obj = Null]
    <3> DEFINE h == [handler[x] EXCEPT !.pc = "arm", !.obj = Null]
    <3>1. handler' = [handler EXCEPT ![x] = h]
        BY <2>3
    <3>2. h \in Handling /\ h.pc = "arm" /\ h.gen = handler[x].gen /\ h.edit = Null
        BY <1>h, <1>s, <2>1 DEF Handling
    <3>3. record' # Null
      <4>1. handler[x].obj \in Objects
          BY <1>h, <1>3 DEF StartSession, At, Sound, Handling
      <4>2. record' \in Records
          BY <1>h, <2>3, <4>1 DEF TypeInv, TypeOK, Records, Handling
      <4>3. QED
          BY <4>2, NullIsNoRecord
    <3> HIDE DEF h
    <3>4. Becomes(x, h) /\ Harmless(h)
        BY <2>1, <3>1, <3>2 DEF Becomes, Sound, Harmless, Pending, LockSteps
    <3>5. QED
        BY <1>h, <2>1, <3>2, <3>3, <3>4, MoveEffect
  <2>4. QED
      BY <1>3, <2>2, <2>3 DEF StartSession, Done
<1>4. ASSUME StandDown(x) PROVE \E h : Effect(x, h)
  <2> DEFINE h == [handler[x] EXCEPT !.pc = "deriving", !.obj = Null]
  <2>1. /\ now' = now /\ generation' = generation /\ record' = record
        /\ handler[x].edit = Null /\ handler' = [handler EXCEPT ![x] = h]
      BY <1>4, NoEdit DEF StandDown, At
  <2>2. h \in Handling /\ h.pc = "deriving" /\ h.gen = handler[x].gen /\ h.edit = Null
      BY <1>h, <1>s, <2>1 DEF Handling
  <2> HIDE DEF h
  <2>3. Becomes(x, h) /\ Harmless(h)
      BY <2>1, <2>2 DEF Becomes, Sound, Harmless, Pending, LockSteps
  <2>4. QED
      BY <1>h, <2>1, <2>2, <2>3, MoveEffect
<1>5. QED
    BY <1>1, <1>2, <1>3, <1>4

LEMMA HandlerEffects ==
    ASSUME TypeInv, AllFit, NEW x \in Handlers, UserStarts(x) \/ Proceed(x) \/ Alarms(x)
    PROVE  \E h : Effect(x, h)
<1>1. CASE UserStarts(x) \/ Alarms(x)
    BY <1>1, StartEffects
<1>2. CASE Proceed(x)
    BY <1>2, LockEffects, UseEffects, WindowEffects, SettingsEffects, PasswordEffects
    DEF Proceed
<1>3. QED
    BY <1>1, <1>2

-----------------------------------------------------------------------------
(* Types                                                                   *)

ObjectsTyped ==
    object \in [Objects -> [open : BOOLEAN, vault : Vaults, edits : SUBSET Edits,
                            dirty : SUBSET Edits]]

(* The variables TypeOK types, handlers apart.                             *)
RestTyped ==
    /\ record \in Records \cup {Null}
    /\ disk \in Disks \cup {Null}
    /\ timeout \in Timeouts
    /\ alarm \in Deadlines \cup {Null}
    /\ repository \in Objects \cup {Null}
    /\ ObjectsTyped
    /\ now \in 0 .. MaxTime
    /\ answered \subseteq Edits

LEMMA LockTyped ==
    ASSUME TypeInv, NEW x \in Handlers,
           \/ LockRehydrates(x) \/ LockFlushes(x) \/ LockForgets(x) \/ LockClearsAlarms(x)
           \/ \E h, panic : BeginLock(x, h, panic)
    PROVE  RestTyped'
<1>h. handler[x] \in Handling /\ Sound(handler[x])
    BY DEF TypeInv
<1>r. RestTyped
    BY DEF TypeInv, TypeOK, RestTyped, ObjectsTyped
<1>1. CASE LockRehydrates(x)
  <2>1. ObjectsTyped'
    <3>1. CASE UNCHANGED object
        BY <1>r, <3>1 DEF RestTyped, ObjectsTyped
    <3>2. CASE \E o \in Objects :
                  /\ disk # Null /\ handler[x].rec # Null
                  /\ object' = [object EXCEPT ![o] = Opened(handler[x].rec.vault, disk.tags)]
      <4>1. handler[x].rec.vault \in Vaults /\ disk.tags \in SUBSET Edits
          BY <1>h, <1>r, <3>2 DEF Handling, Records, Disks, RestTyped
      <4>2. QED
          BY <1>r, <3>2, <4>1, ClosedTyped DEF RestTyped, ObjectsTyped
    <3>3. QED
        BY <1>1, <3>1, <3>2 DEF LockRehydrates, Opens
  <2>2. QED
      BY <1>1, <1>r, <2>1 DEF LockRehydrates, RestTyped, storage, history
<1>2. CASE LockFlushes(x)
  <2>1. handler[x].obj \in Objects
      BY <1>2, <1>h DEF LockFlushes, At, Sound, Handling
  <2>2. ObjectsTyped'
      BY <1>2, <1>r, <2>1 DEF LockFlushes, RestTyped, ObjectsTyped
  <2>3. disk' \in Disks \cup {Null}
      BY <1>2, <1>r, <2>1, FlushTyped DEF LockFlushes, RestTyped, ObjectsTyped
  <2>4. QED
      BY <1>2, <1>r, <2>2, <2>3 DEF LockFlushes, RestTyped, history
<1>3. CASE LockForgets(x)
  <2>1. ObjectsTyped'
      BY <1>3, <1>r, ClosedTyped DEF LockForgets, RestTyped, ObjectsTyped, Vaults
  <2>2. QED
      BY <1>3, <1>r, <2>1 DEF LockForgets, RestTyped, history
<1>4. CASE LockClearsAlarms(x)
    BY <1>4, <1>r DEF LockClearsAlarms, RestTyped, ObjectsTyped
<1>5. CASE \E h, panic : BeginLock(x, h, panic)
    BY <1>5, <1>r DEF BeginLock, RestTyped, ObjectsTyped, history
<1>6. QED
    BY <1>1, <1>2, <1>3, <1>4, <1>5

LEMMA UseTyped ==
    ASSUME TypeInv, NEW x \in Handlers,
           \/ AskedWhileLocked(x) \/ AskedWarm(x) \/ AskedCold(x) \/ Rehydrate(x)
           \/ Apply(x) \/ FlushEdit(x) \/ Housekeep(x) \/ Destroy(x)
    PROVE  RestTyped'
<1>h. handler[x] \in Handling /\ Sound(handler[x])
    BY DEF TypeInv
<1>r. RestTyped
    BY DEF TypeInv, TypeOK, RestTyped, ObjectsTyped
<1>1. CASE AskedWhileLocked(x)
  <2>1. ObjectsTyped' /\ repository' = Null
      BY <1>1, <1>r, ClosedTyped DEF AskedWhileLocked, Forget, RestTyped, ObjectsTyped, Vaults
  <2>2. QED
      BY <1>1, <1>r, <2>1 DEF AskedWhileLocked, RestTyped, storage, history
<1>2. CASE AskedWarm(x) \/ AskedCold(x) \/ Housekeep(x)
    BY <1>2, <1>r DEF AskedWarm, AskedCold, Housekeep, RestTyped, ObjectsTyped, storage, history
<1>3. CASE Rehydrate(x)
  <2>1. ObjectsTyped' /\ repository' \in Objects \cup {Null}
    <3>1. CASE UNCHANGED <<object, repository>>
        BY <1>r, <3>1 DEF RestTyped, ObjectsTyped
    <3>2. CASE \E o \in Objects :
                  /\ disk # Null /\ repository' = o
                  /\ object' = [object EXCEPT ![o] = Opened(handler[x].rec.vault, disk.tags)]
      <4>1. handler[x].rec.vault \in Vaults /\ disk.tags \in SUBSET Edits
          BY <1>h, <1>r, <1>3, <3>2
          DEF Rehydrate, At, Sound, Handling, Records, Disks, RestTyped
      <4>2. QED
          BY <1>r, <3>2, <4>1, ClosedTyped DEF RestTyped, ObjectsTyped
    <3>3. QED
        BY <1>3, <3>1, <3>2 DEF Rehydrate, Opens
  <2>2. QED
      BY <1>3, <1>r, <2>1 DEF Rehydrate, RestTyped, storage, history
<1>4. CASE Apply(x)
  <2>1. handler[x].obj \in Objects
      BY <1>4, <1>h DEF Apply, At, Sound, Handling
  <2>2. ObjectsTyped'
    <3>1. CASE UNCHANGED object
        BY <1>r, <3>1 DEF RestTyped, ObjectsTyped
    <3>2. CASE \E e \in Edits : object' = [object EXCEPT ![handler[x].obj].edits = @ \cup {e},
                                                     ![handler[x].obj].dirty = @ \cup {e}]
      <4> DEFINE o == handler[x].obj
      <4>1. PICK e \in Edits : object' = [object EXCEPT ![o].edits = @ \cup {e}, ![o].dirty = @ \cup {e}]
          BY <3>2
      <4>2. o \in Objects /\ object \in [Objects -> [open : BOOLEAN, vault : Vaults, edits : SUBSET Edits,
                                                   dirty : SUBSET Edits]]
          BY <1>r, <2>1 DEF RestTyped, ObjectsTyped
      <4>3. PICK held : held = [object[o] EXCEPT !.edits = @ \cup {e}, !.dirty = @ \cup {e}]
          OBVIOUS
      <4>4. held \in [open : BOOLEAN, vault : Vaults, edits : SUBSET Edits, dirty : SUBSET Edits]
          BY <4>2, <4>3
      <4>5. object' = [object EXCEPT ![o] = held]
          BY <4>1, <4>2, <4>3
      <4>6. QED
          BY <4>2, <4>4, <4>5 DEF ObjectsTyped
    <3>3. QED
        BY <1>4, <3>1, <3>2 DEF Apply
  <2>3. QED
      BY <1>4, <1>r, <2>2 DEF Apply, RestTyped, storage
<1>5. CASE FlushEdit(x)
  <2>1. handler[x].obj \in Objects /\ handler[x].edit \in Edits
      BY <1>5, <1>h DEF FlushEdit, At, Sound, Handling
  <2>2. ObjectsTyped'
      BY <1>5, <1>r, <2>1 DEF FlushEdit, RestTyped, ObjectsTyped
  <2>3. disk' \in Disks \cup {Null}
      BY <1>5, <1>r, <2>1, FlushTyped DEF FlushEdit, RestTyped, ObjectsTyped
  <2>4. QED
      BY <1>5, <1>r, <2>1, <2>2, <2>3 DEF FlushEdit, RestTyped
<1>6. CASE Destroy(x)
  <2>1. ObjectsTyped'
      BY <1>6, <1>r, ClosedTyped DEF Destroy, RestTyped, ObjectsTyped, Vaults
  <2>2. QED
      BY <1>6, <1>r, <2>1 DEF Destroy, RestTyped
<1>7. QED
    BY <1>1, <1>2, <1>3, <1>4, <1>5, <1>6

LEMMA WindowTyped ==
    ASSUME TypeInv, NEW x \in Handlers,
           \/ TouchReadsSettings(x) \/ TouchWrites(x) \/ ArmAlarm(x) \/ RememberHolder(x)
           \/ StateAnswers(x) \/ EnforceDeadline(x)
           \/ ReadAgain(x) \/ SettingsArm(x) \/ SettingsWrite(x) \/ SettingsArrived(x)
    PROVE  RestTyped'
<1>h. handler[x] \in Handling /\ Sound(handler[x])
    BY DEF TypeInv
<1>r. RestTyped
    BY DEF TypeInv, TypeOK, RestTyped, ObjectsTyped
<1>d. DeadlineFrom(timeout, now) \in Deadlines
    BY <1>r, ConstantsAssumption, DeadlineTyped DEF RestTyped
<1>1. CASE TouchReadsSettings(x) \/ StateAnswers(x) \/ ReadAgain(x)
    BY <1>1, <1>r
    DEF TouchReadsSettings, StateAnswers, ReadAgain, RestTyped, ObjectsTyped, storage, history
<1>2. CASE TouchWrites(x) \/ SettingsWrite(x)
  <2>1. record' \in Records \cup {Null}
    <3>1. handler[x].rec \in Records /\ handler[x].until \in Deadlines
        BY <1>2, <1>h DEF TouchWrites, SettingsWrite, At, Sound, Handling
    <3>2. QED
        BY <1>2, <1>r, <3>1 DEF TouchWrites, SettingsWrite, Records, RestTyped
  <2>2. QED
      BY <1>2, <1>r, <2>1 DEF TouchWrites, SettingsWrite, RestTyped, ObjectsTyped, history
<1>3. CASE ArmAlarm(x) \/ SettingsArm(x)
  <2>1. alarm' \in Deadlines \cup {Null}
      BY <1>3, <1>h, <1>r, <1>d, AlarmTyped DEF ArmAlarm, SettingsArm, Handling, RestTyped
  <2>2. QED
      BY <1>3, <1>r, <2>1 DEF ArmAlarm, SettingsArm, RestTyped, ObjectsTyped, history
<1>4. CASE RememberHolder(x)
  <2>1. record' \in Records \cup {Null}
      BY <1>4, <1>h, <1>r DEF RememberHolder, Handling, Records, RestTyped
  <2>2. QED
      BY <1>4, <1>r, <2>1 DEF RememberHolder, RestTyped, ObjectsTyped, history
<1>5. CASE EnforceDeadline(x)
  <2>1. ObjectsTyped' /\ repository' \in Objects \cup {Null}
      BY <1>5, <1>r, ClosedTyped DEF EnforceDeadline, Forget, RestTyped, ObjectsTyped, Vaults
  <2>2. alarm' \in Deadlines \cup {Null}
      BY <1>5, <1>h, AlarmTyped DEF EnforceDeadline, Valid, Handling, Records
  <2>3. QED
      BY <1>5, <1>r, <2>1, <2>2 DEF EnforceDeadline, RestTyped, history
<1>6. CASE SettingsArrived(x)
  <2>1. record' \in Records \cup {Null}
      BY <1>6, <1>h, <1>r, <1>d DEF SettingsArrived, Handling, Records, RestTyped
  <2>2. QED
      BY <1>6, <1>r, <2>1 DEF SettingsArrived, RestTyped, ObjectsTyped, history
<1>7. QED
    BY <1>1, <1>2, <1>3, <1>4, <1>5, <1>6

LEMMA PasswordTyped ==
    ASSUME TypeInv, NEW x \in Handlers,
           \/ Unlock(x) \/ UnlockFails(x) \/ StartSession(x)
           \/ StandDown(x) \/ AdoptOver(x) \/ AdoptWrongPassword(x)
    PROVE  RestTyped'
<1>h. handler[x] \in Handling /\ Sound(handler[x])
    BY DEF TypeInv
<1>r. RestTyped
    BY DEF TypeInv, TypeOK, RestTyped, ObjectsTyped
<1>1. CASE Unlock(x)
  <2> DEFINE d == IF disk = Null THEN Blank(Local) ELSE disk
  <2>1. d \in Disks
      BY <1>r, BlankTyped DEF RestTyped, Vaults
  <2>2. d.vault \in Vaults /\ d.tags \in SUBSET Edits
      BY <2>1 DEF Disks
  <2> HIDE DEF d
  <2>3. PICK o \in Objects : /\ object' = [object EXCEPT ![o] = Opened(d.vault, d.tags)]
                             /\ repository' = o
      BY <1>1 DEF Unlock, d
  <2>4. ObjectsTyped'
      BY <1>r, <2>2, <2>3, ClosedTyped DEF RestTyped, ObjectsTyped
  <2>5. disk' = d
      BY <1>1 DEF Unlock, d
  <2>6. QED
      BY <1>1, <1>r, <2>1, <2>3, <2>4, <2>5 DEF Unlock, RestTyped, history
<1>2. CASE UnlockFails(x) \/ AdoptWrongPassword(x)
    BY <1>2, <1>r DEF UnlockFails, AdoptWrongPassword, RestTyped, ObjectsTyped, storage, history
<1>3. CASE StartSession(x)
  <2>1. record' \in Records \cup {Null}
    <3>1. handler[x].obj \in Objects
        BY <1>3, <1>h DEF StartSession, At, Sound, Handling
    <3>2. object[handler[x].obj].vault \in Vaults /\ handler[x].until \in Deadlines
        BY <1>h, <1>r, <3>1 DEF Handling, RestTyped, ObjectsTyped
    <3>3. [vault |-> object[handler[x].obj].vault, until |-> handler[x].until,
           held |-> FALSE] \in Records
        BY <3>2 DEF Records
    <3>4. QED
        BY <1>3, <1>r, <3>3 DEF StartSession, RestTyped
  <2>2. QED
      BY <1>3, <1>r, <2>1 DEF StartSession, RestTyped, ObjectsTyped
<1>4. CASE StandDown(x)
  <2>1. handler[x].obj \in Objects
      BY <1>4, <1>h DEF StandDown, At, Sound, Handling
  <2>2. ObjectsTyped'
      BY <1>4, <1>r, ClosedTyped DEF StandDown, RestTyped, ObjectsTyped, Vaults
  <2>3. disk' \in Disks \cup {Null}
      BY <1>4, <1>r, <2>1, FlushTyped DEF StandDown, RestTyped, ObjectsTyped
  <2>4. QED
      BY <1>4, <1>r, <2>2, <2>3 DEF StandDown, RestTyped, history
<1>5. CASE AdoptOver(x)
  <2>1. PICK o \in Objects : object' = [object EXCEPT ![o] = Opened(Remote, {})]
                             /\ repository' = o
      BY <1>5 DEF AdoptOver
  <2>2. ObjectsTyped'
      BY <1>r, <2>1, ClosedTyped DEF RestTyped, ObjectsTyped, Vaults
  <2>3. disk' \in Disks
      BY <1>5, BlankTyped DEF AdoptOver, Vaults
  <2>4. QED
      BY <1>5, <1>r, <2>1, <2>2, <2>3 DEF AdoptOver, RestTyped
<1>6. QED
    BY <1>1, <1>2, <1>3, <1>4, <1>5

LEMMA StartTyped ==
    ASSUME TypeInv, NEW x \in Handlers, UserStarts(x) \/ Alarms(x)
    PROVE  RestTyped'
<1>r. RestTyped
    BY DEF TypeInv, TypeOK, RestTyped, ObjectsTyped
<1>1. ASSUME NEW op, Call(x, op) PROVE RestTyped'
    BY <1>1, <1>r DEF Call, RestTyped, ObjectsTyped, storage, history
<1>2. CASE CallSettings(x) \/ CallUnlock(x) \/ CallAdopt(x)
    BY <1>2, <1>r DEF CallSettings, CallUnlock, CallAdopt, RestTyped, ObjectsTyped, storage, history
<1>3. ASSUME NEW panic, CallLock(x, panic) PROVE RestTyped'
    BY <1>3, LockTyped DEF CallLock
<1>4. CASE Alarms(x)
    BY <1>4, <1>r
    DEF Alarms, AutolockFires, HousekeepingFires, RestTyped, ObjectsTyped, storage, history
<1>5. QED
    BY <1>1, <1>2, <1>3, <1>4 DEF UserStarts

-----------------------------------------------------------------------------
(* The invariant                                                           *)

SessionInv == TypeInv /\ AllFit

LEMMA InitSession == Init => SessionInv
<1> SUFFICES ASSUME Init PROVE SessionInv
    OBVIOUS
<1>1. handler \in [Handlers -> Handling] /\ \A x \in Handlers : handler[x] = Idle
    BY IdleSound DEF Init, Sound
<1>2. timeout \in 0 .. MaxTime /\ 0 \in 0 .. MaxTime /\ Timeouts \subseteq 0 .. MaxTime
    BY ConstantsAssumption DEF Init
<1>3. DeadlineFrom(timeout, 0) \in Deadlines
    BY <1>2, DeadlineTyped
<1>4. record \in Records
    BY <1>3 DEF Init, Records, Vaults
<1>5. alarm \in Deadlines \cup {Null}
    BY <1>4, AlarmTyped DEF Init, Records
<1>6. disk \in Disks
    BY BlankTyped DEF Init, Vaults
<1>7. object \in [Objects -> [open : BOOLEAN, vault : Vaults, edits : SUBSET Edits,
                              dirty : SUBSET Edits]]
    BY ClosedTyped DEF Init, Vaults
<1>8. \A x \in Handlers : /\ handler[x].rec \in Records \cup {Null}
                          /\ handler[x].obj \in Objects \cup {Null}
                          /\ handler[x].until \in Deadlines
    BY <1>1 DEF Handling
<1>9. TypeOK
    BY <1>2, <1>4, <1>5, <1>6, <1>7, <1>8 DEF TypeOK, Init
<1>10. AllFit
  <2>1. Idle.pc = "idle" /\ Idle.gen = 0 /\ generation = 0
      BY DEF Idle, Init
  <2>2. QED
      BY <1>1, <2>1 DEF AllFit, Fits, Pending
<1>11. QED
    BY <1>1, <1>9, <1>10, IdleSound DEF SessionInv, TypeInv

LEMMA HandlerStep ==
    ASSUME SessionInv, NEW x \in Handlers, UserStarts(x) \/ Proceed(x) \/ Alarms(x)
    PROVE  SessionInv'
<1>1. PICK h : Effect(x, h)
    BY HandlerEffects DEF SessionInv
<1>2. AllFit'
    BY <1>1, EffectFits DEF SessionInv
<1>3. handler' \in [Handlers -> Handling] /\ \A y \in Handlers : Sound(handler'[y])
    BY <1>1, BecomesTyped DEF Effect, SessionInv
<1>4. RestTyped'
  <2>1. CASE UserStarts(x) \/ Alarms(x)
      BY <2>1, StartTyped DEF SessionInv
  <2>2. CASE AskedTooLate(x) \/ CheckedTooLate(x)
      BY <2>2, LockTyped DEF AskedTooLate, CheckedTooLate, SessionInv
  <2>3. CASE Proceed(x) /\ ~ (AskedTooLate(x) \/ CheckedTooLate(x))
      BY <2>3, LockTyped, UseTyped, WindowTyped, PasswordTyped DEF Proceed, SessionInv
  <2>4. QED
      BY <2>1, <2>2, <2>3
<1>5. generation' \in Nat
    BY <1>1 DEF Effect, SessionInv, TypeInv, TypeOK
<1>6. \A y \in Handlers : /\ handler'[y].rec \in Records \cup {Null}
                          /\ handler'[y].obj \in Objects \cup {Null}
                          /\ handler'[y].until \in Deadlines
    BY <1>3 DEF Handling
<1>7. TypeOK'
    BY <1>4, <1>5, <1>6 DEF RestTyped, ObjectsTyped, TypeOK
<1>8. QED
    BY <1>2, <1>3, <1>7 DEF SessionInv, TypeInv, Sound

LEMMA StepSession == SessionInv /\ [Next]_vars => SessionInv'
<1> SUFFICES ASSUME SessionInv, [Next]_vars PROVE SessionInv'
    OBVIOUS
<1>1. ASSUME NEW x \in Handlers, UserStarts(x) \/ Proceed(x) \/ Alarms(x)
      PROVE  SessionInv'
    BY <1>1, HandlerStep
<1>2. CASE Tick
  <2>1. now' \in 0 .. MaxTime /\ now <= now' /\ now \in Nat /\ now' \in Nat
      BY <1>2, ConstantsAssumption DEF Tick, SessionInv, TypeInv, TypeOK
  <2>2. UNCHANGED <<storage, worker, history>>
      BY <1>2 DEF Tick
  <2>3. ASSUME NEW h \in Handling, Fits(h) PROVE Fits(h)'
    <3>1. ASSUME h.rec # Null, ~Expired(h.rec, now') PROVE ~Expired(h.rec, now)
        BY <2>1, <3>1, ConstantsAssumption
        DEF Expired, Handling, Records, Deadlines, NeverExpires
    <3>2. generation' = generation /\ record' = record /\ (Locking' <=> Locking)
        BY <2>2 DEF worker, storage, Locking
    <3>3. QED
        BY <2>3, <3>1, <3>2 DEF Fits
  <2>4. QED
      BY <2>1, <2>2, <2>3
      DEF SessionInv, AllFit, TypeInv, TypeOK, storage, worker, history
<1>3. CASE WorkerDies
  <2>1. handler' \in [Handlers -> Handling] /\ \A x \in Handlers : handler'[x] = Idle
      BY <1>3, IdleSound DEF WorkerDies, Sound
  <2>2. object' \in [Objects -> [open : BOOLEAN, vault : Vaults, edits : SUBSET Edits,
                                 dirty : SUBSET Edits]]
      BY <1>3, ClosedTyped DEF WorkerDies, Vaults
  <2>3. \A x \in Handlers : /\ handler'[x].rec \in Records \cup {Null}
                            /\ handler'[x].obj \in Objects \cup {Null}
                            /\ handler'[x].until \in Deadlines
      BY <2>1 DEF Handling
  <2>4. TypeOK'
      BY <1>3, <2>2, <2>3 DEF WorkerDies, SessionInv, TypeInv, TypeOK, history
  <2>5. AllFit'
    <3>1. Idle.pc = "idle" /\ Idle.gen = 0 /\ generation' = 0
        BY <1>3 DEF Idle, WorkerDies
    <3>2. QED
        BY <2>1, <3>1 DEF AllFit, Fits, Pending
  <2>6. QED
      BY <2>1, <2>4, <2>5, IdleSound DEF SessionInv, TypeInv, Sound
<1>4. CASE UNCHANGED vars
    BY <1>4
    DEF vars, SessionInv, AllFit, Fits, Pending, Locking, TypeInv, TypeOK, Sound
<1>5. QED
    BY <1>1, <1>2, <1>3, <1>4 DEF Next

LEMMA SessionsHold == Spec => []SessionInv
BY InitSession, StepSession, PTL DEF Spec

(* Every reachable state of the session, its handlers and the objects they *)
(* hold is well typed: a handler carries the record it was granted, and    *)
(* never writes back one it has not read (session.ts).                     *)
THEOREM SessionTypeCorrect == Spec => []TypeOK
<1>1. SessionInv => TypeOK
    BY DEF SessionInv, TypeInv
<1>2. QED
    BY SessionsHold, <1>1, PTL

(* However many handlers run at once, whatever objects they left in memory *)
(* and whenever the worker dies, one that began while no session was open, *)
(* or after the deadline, never edits the vault (currentRepository looks   *)
(* at the record before the cache).                                        *)
THEOREM EditsNeedASession == Spec => []NoEditWithoutSession
<1>1. SessionInv => NoEditWithoutSession
    BY DEF SessionInv, TypeInv, AllFit, Sound, Fits, NoEditWithoutSession
<1>2. QED
    BY SessionsHold, <1>1, PTL

(* A touch() or rememberFocusHolder() that a lock overtook never brings    *)
(* the key back into storage.session, in any interleaving of handlers and  *)
(* locks: the generation it compares has moved on.                         *)
THEOREM LocksAreNotUndone == Spec => OldHandlersRespectLocks
<1> DEFINE Ok == KeyComesBack =>
                   \E x \in Handlers : \/ At(x, "start") \/ At(x, "settings-write")
                                       \/ handler[x].op = "arrived"
                                       \/ handler[x].under
<1>1. ASSUME SessionInv, [Next]_vars PROVE [Ok]_vars
  <2>1. SUFFICES ASSUME KeyComesBack
                 PROVE  \E x \in Handlers : \/ At(x, "start") \/ At(x, "settings-write")
                                            \/ handler[x].op = "arrived"
                                            \/ handler[x].under
      BY <2>1
  <2>2. record = Null /\ record' # Null /\ record' # record
      BY <2>1 DEF KeyComesBack
  <2>3. PICK x \in Handlers : UserStarts(x) \/ Proceed(x) \/ Alarms(x)
      BY <1>1, <2>2 DEF Next, Tick, WorkerDies, vars, storage
  <2>4. \/ TouchWrites(x) \/ RememberHolder(x) \/ SettingsWrite(x)
        \/ SettingsArrived(x) \/ StartSession(x)
    <3>1. ~ (UserStarts(x) \/ Alarms(x))
        BY <2>2
        DEF UserStarts, Alarms, Call, CallSettings, CallUnlock, CallAdopt, CallLock, BeginLock,
            AutolockFires, HousekeepingFires, storage
    <3>2. QED
        BY <2>2, <2>3, <3>1
        DEF Proceed, LockRehydrates, LockFlushes, LockForgets, LockClearsAlarms,
            AskedWhileLocked, AskedWarm, AskedCold, Rehydrate, AskedTooLate, Apply,
            FlushEdit, Housekeep, Destroy, CheckedTooLate, BeginLock, TouchReadsSettings,
            ArmAlarm, StateAnswers, EnforceDeadline, ReadAgain, SettingsArm, Unlock,
            UnlockFails, StandDown, AdoptOver, AdoptWrongPassword, storage
  <2>5. Fits(handler[x]) /\ Sound(handler[x])
      BY <1>1 DEF SessionInv, AllFit, TypeInv
  <2>6. CASE TouchWrites(x) \/ RememberHolder(x)
    <3>1. /\ Pending(handler[x]) /\ handler[x].gen = generation /\ handler[x].rec # Null
        BY <2>2, <2>5, <2>6 DEF TouchWrites, RememberHolder, At, Pending, Sound
    <3>2. handler[x].under
        BY <2>2, <2>5, <3>1 DEF Fits
    <3>3. QED
        BY <3>2
  <2>7. CASE SettingsWrite(x) \/ SettingsArrived(x) \/ StartSession(x)
      BY <2>7 DEF SettingsWrite, SettingsArrived, StartSession, At
  <2>8. QED
      BY <2>4, <2>6, <2>7
<1>2. Spec => [][Ok]_vars
    BY <1>1, SessionsHold, PTL DEF Spec
<1>3. QED
    BY <1>2 DEF OldHandlersRespectLocks
==============================================================================
