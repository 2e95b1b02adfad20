------------------------------- MODULE Session -------------------------------
(***************************************************************************)
(* Key custody (src/background/session.ts) with the deadline arithmetic of *)
(* autolock.ts: one profile, its service worker, the session record that   *)
(* outlives the worker, and the handlers that run at once inside it.       *)
(*                                                                         *)
(* An action is the code between two awaits.  A storage call takes effect, *)
(* or reads, when it is issued (chrome.storage.session applies operations  *)
(* in that order) and its caller goes on in a later action, carrying what  *)
(* it read in its own record.                                              *)
(*                                                                         *)
(* Abstractions.  A key is the vault it opens.  The vault is the set of    *)
(* edits made to it, one per bucket; VaultRepository has the detail of a   *)
(* flush, here it is one step.  Left out: broadcasts, toolbar, onboarding. *)
(***************************************************************************)
EXTENDS Naturals, FiniteSets

CONSTANTS
    Handlers,       \* messages, alarms and commands being handled at once
    Operations,     \* the operations a user or another device may start
    Objects,        \* VaultRepository objects the worker may have built
    Edits,          \* changes a user may make, each in a bucket of its own
    Local, Remote,  \* the vault of this profile, and one another device made
    Timeouts,       \* idle timeouts the settings may hold, 0 for never
    Null,           \* JavaScript's null
    MaxTime,        \* bound on the clock
    MaxEvents       \* bound on operations started and workers stopped

Vaults == {Local, Remote}
NeverExpires == 2 * MaxTime + 1
Deadlines == 0 .. NeverExpires

(* The session record.                                                     *)
Records == [vault : Vaults, until : Deadlines, held : BOOLEAN]

ASSUME ConstantsAssumption ==
    /\ MaxTime \in Nat
    /\ Timeouts \subseteq 0 .. MaxTime /\ Timeouts # {}
    /\ MaxEvents \in Nat
    /\ Local # Remote /\ Null \notin Vaults \cup Objects \cup Edits \cup Records

VARIABLES
    record,     \* vm.session in chrome.storage.session, or Null
    disk,       \* vm.header and the buckets in chrome.storage.local, or Null
    timeout,    \* idleTimeoutMinutes in vm.settings
    alarm,      \* the time vm.autolock is armed for, or Null
    repository, \* the module variable: an object, or Null
    object,     \* the objects the worker has built
    generation, \* lockGeneration
    handler,    \* the handlers, suspended at an await or idle
    now,        \* Date.now(), in units of the shortest timeout
    accepted,   \* history: edits some object has accepted
    answered,   \* history: edits the user was told are saved
    locked,     \* history: a lock has completed and no password was typed since
    events      \* how many MaxEvents counts so far

storage == <<record, disk, timeout, alarm>>
worker == <<repository, object, generation, handler>>
history == <<accepted, answered, locked>>
vars == <<record, disk, timeout, alarm, repository, object, generation,
          handler, now, accepted, answered, locked, events>>

-----------------------------------------------------------------------------
(* Data *)

(* What a flush leaves: the header with the tags of all buckets, and every *)
(* bucket with the edit it holds, if any.                                  *)
Disks == [vault : Vaults, tags : SUBSET Edits, 
          buckets : [Edits -> [vault : Vaults, edited : BOOLEAN]]]

Blank(v) == [vault |-> v, tags |-> {},
             buckets |-> [e \in Edits |-> [vault |-> v, edited |-> FALSE]]]

(* #open decrypts every bucket the header lists and compares its tag.      *)
Opens(d, v) ==
    /\ d # Null
    /\ d.vault = v
    /\ \A e \in Edits : d.buckets[e] = [vault |-> v, edited |-> e \in d.tags]

Closed == [open |-> FALSE, vault |-> Local, edits |-> {}, dirty |-> {}]
Opened(v, edits) == [open |-> TRUE, vault |-> v, edits |-> edits, dirty |-> {}]

(* writePending(): the dirty buckets, then a header with this object's own *)
(* tags.  A locked object has no header and writes nothing.                *)
Flushed(o, d) ==
    IF ~o.open \/ o.dirty = {} THEN d
    ELSE [vault |-> o.vault, tags |-> o.edits,
          buckets |-> [e \in Edits |->
              IF e \in o.dirty THEN [vault |-> o.vault, edited |-> TRUE]
              ELSE IF d = Null THEN [vault |-> o.vault, edited |-> FALSE]
              ELSE d.buckets[e]]]

DeadlineFrom(minutes, time) ==
    IF minutes = 0 THEN NeverExpires ELSE time + minutes

(* armAutolock(): an alarm for the deadline, none for "never".             *)
AlarmFor(until) == IF until = NeverExpires THEN Null ELSE until

Expired(rec, time) == rec.until <= time

-----------------------------------------------------------------------------
(* Handlers *)

Idle == [pc |-> "idle", op |-> "none", rec |-> Null, obj |-> Null,
         gen |-> 0, until |-> 0, live |-> FALSE, under |-> FALSE, edit |-> Null]

At(x, pc) == handler[x].pc = pc
Running(x) == handler[x].pc # "idle"

Go(x, pc) == handler' = [handler EXCEPT ![x].pc = pc]
Done(x) == handler' = [handler EXCEPT ![x] = Idle]

(* An object nothing refers to any more is garbage, and a free one.        *)
Referenced(o) == o = repository \/ \E x \in Handlers : handler[x].obj = o
Fresh(o) == ~Referenced(o) /\ \A p \in Objects : Referenced(p) \/ o <= p

(* What a handler does when a lock that it ran has finished: only          *)
(* updateSettings() has anything left to do.                               *)
AfterLock(h) == IF h.op = "settings" THEN [h EXCEPT !.pc = "reread", !.obj = Null]
                                     ELSE Idle

(* A lock has taken its generation and not yet cleared the record.         *)
Locking == \E x \in Handlers :
    handler[x].pc \in {"lock-read", "lock-hook", "lock-forget"}

(* Every operation begins by reading the session record, after taking the  *)
(* lock generation.  For the properties, live is whether a session was     *)
(* open then and under whether a lock was on its way.                      *)
Begun(op) == [Idle EXCEPT !.op = op, !.pc = "read", !.rec = record,
                          !.gen = generation,
                          !.live = record # Null /\ ~Expired(record, now),
                          !.under = Locking]

TypeOK ==
    /\ record \in Records \cup {Null}
    /\ disk \in Disks \cup {Null}
    /\ timeout \in Timeouts
    /\ alarm \in Deadlines \cup {Null}
    /\ repository \in Objects \cup {Null}
    /\ object \in [Objects -> [open : BOOLEAN, vault : Vaults,
                               edits : SUBSET Edits, dirty : SUBSET Edits]]
    /\ generation \in Nat
    /\ \A x \in Handlers :
          /\ handler[x].rec \in Records \cup {Null}
          /\ handler[x].obj \in Objects \cup {Null}
          /\ handler[x].until \in Deadlines
    /\ now \in 0 .. MaxTime
    /\ answered \subseteq Edits

(* A session is open and the worker has just been started again.           *)
Init ==
    /\ timeout \in Timeouts
    /\ record = [vault |-> Local, until |-> DeadlineFrom(timeout, 0), held |-> FALSE]
    /\ alarm = AlarmFor(record.until)
    /\ disk = Blank(Local)
    /\ repository = Null
    /\ object = [o \in Objects |-> Closed]
    /\ generation = 0
    /\ handler = [x \in Handlers |-> Idle]
    /\ now = 0 /\ accepted = {} /\ answered = {} /\ locked = FALSE
    /\ events = 0

-----------------------------------------------------------------------------
(* Starting *)

Counted == events < MaxEvents /\ events' = events + 1

Start(x, h) ==
    /\ ~Running(x)
    /\ handler' = [handler EXCEPT ![x] = h]

(* A message, command or port event for an operation that reads the        *)
(* record first.                                                           *)
Call(x, op) ==
    /\ op \in Operations \cap {"use", "touch", "hold", "state", "destroy", "arrived"}
    /\ Counted
    /\ Start(x, Begun(op))
    /\ UNCHANGED <<storage, repository, object, generation, now, history>>

(* updateSettings() writes vm.settings before it looks for a session.      *)
CallSettings(x) ==
    /\ "settings" \in Operations
    /\ Counted
    /\ Start(x, Begun("settings"))
    /\ timeout' \in Timeouts
    /\ UNCHANGED <<record, disk, alarm, repository, object, generation,
                   now, history>>

(* The password is right; a wrong one ends before anything changes.        *)
CallUnlock(x) ==
    /\ "unlock" \in Operations
    /\ Counted
    /\ Start(x, [Idle EXCEPT !.op = "unlock", !.pc = "deriving"])
    /\ UNCHANGED <<storage, repository, object, generation, now, history>>

(* chrome.alarms wakes the worker: vm.autolock once its time has come,     *)
(* vm.housekeeping twice a day.                                            *)
AutolockFires(x) ==
    /\ alarm # Null /\ alarm <= now
    /\ alarm' = Null
    /\ Start(x, Begun("enforce"))
    /\ UNCHANGED <<record, disk, timeout, repository, object, generation,
                   now, history, events>>

HousekeepingFires(x) ==
    /\ Start(x, Begun("housekeep"))
    /\ UNCHANGED <<storage, repository, object, generation, now, history,
                   events>>

-----------------------------------------------------------------------------
(* lock() *)

(* The synchronous start of lock(), run by x on the way to something else  *)
(* or as an operation of its own.  A cold worker is rehydrated first if    *)
(* there is anything to flush for; a panic-lock clears the key at once.    *)
BeginLock(x, h, panic) ==
    /\ generation' = generation + 1
    /\ IF ~panic /\ repository = Null
         THEN /\ handler' = [handler EXCEPT ![x] =
                    [h EXCEPT !.pc = "lock-read", !.rec = record, !.obj = Null]]
              /\ UNCHANGED <<repository, record>>
         ELSE /\ repository' = Null
              /\ record' = IF panic THEN Null ELSE record
              /\ handler' = [handler EXCEPT ![x] =
                    [h EXCEPT !.pc = IF panic THEN "lock-forget" ELSE "lock-hook",
                              !.obj = repository]]
    /\ UNCHANGED <<disk, timeout, alarm, object, now, history>>

CallLock(x, panic) ==
    /\ (IF panic THEN "panic" ELSE "lock") \in Operations
    /\ ~Running(x)
    /\ Counted
    /\ BeginLock(x, [Idle EXCEPT !.op = IF panic THEN "panic" ELSE "lock"], panic)

(* rehydrateForLock().  What another handler has put into repository in    *)
(* the meantime is dropped.                                                *)
LockRehydrates(x) ==
    /\ At(x, "lock-read")
    /\ repository' = Null
    /\ LET rec == handler[x].rec IN
       IF rec # Null /\ Opens(disk, rec.vault)
         THEN \E o \in Objects :
                /\ Fresh(o)
                /\ object' = [object EXCEPT ![o] = Opened(rec.vault, disk.tags)]
                /\ handler' = [handler EXCEPT ![x].pc = "lock-hook", ![x].obj = o]
         ELSE Go(x, "lock-forget") /\ UNCHANGED object
    /\ UNCHANGED <<storage, generation, now, history, events>>

(* beforeLock() has cleaned the history; current.lock() flushes.           *)
LockFlushes(x) ==
    /\ At(x, "lock-hook")
    /\ disk' = Flushed(object[handler[x].obj], disk)
    /\ object' = [object EXCEPT ![handler[x].obj].dirty = {}]
    /\ Go(x, "lock-forget")
    /\ UNCHANGED <<record, timeout, alarm, repository, generation, now,
                   history, events>>

(* The object forgets its secrets, and storage.session is cleared.         *)
LockForgets(x) ==
    /\ At(x, "lock-forget")
    /\ object' = IF handler[x].obj = Null THEN object
                 ELSE [object EXCEPT ![handler[x].obj] = Closed]
    /\ record' = Null
    /\ handler' = [handler EXCEPT ![x].pc = "lock-alarms", ![x].obj = Null]
    /\ UNCHANGED <<disk, timeout, alarm, repository, generation, now,
                   history, events>>

LockClearsAlarms(x) ==
    /\ At(x, "lock-alarms")
    /\ alarm' = Null
    /\ locked' = TRUE
    /\ handler' = [handler EXCEPT ![x] = AfterLock(@)]
    /\ UNCHANGED <<record, disk, timeout, repository, object, generation,
                   now, accepted, answered, events>>

-----------------------------------------------------------------------------
(* currentRepository() *)

Asks == {"use", "housekeep", "destroy", "settings"}
Asking(x) == At(x, "read") /\ handler[x].op \in Asks

(* No record: forget() drops the cached repository without flushing it.    *)
Forget ==
    /\ repository' = Null
    /\ object' = IF repository = Null THEN object
                 ELSE [object EXCEPT ![repository] = Closed]

AskedWhileLocked(x) ==
    /\ Asking(x) /\ handler[x].rec = Null
    /\ Forget
    /\ handler' = [handler EXCEPT ![x] = AfterLock(@)]
    /\ UNCHANGED <<storage, generation, now, history, events>>

(* Bug: an expired session is refused and left to the alarm.          *)
AskedTooLateRefuses(x) ==
    /\ Asking(x) /\ handler[x].rec # Null
    /\ Expired(handler[x].rec, now)
    /\ handler' = [handler EXCEPT ![x] = AfterLock(@)]
    /\ UNCHANGED <<storage, repository, object, generation, now, history,
                   events>>

AskedTooLate(x) ==
    /\ Asking(x) /\ handler[x].rec # Null
    /\ Expired(handler[x].rec, now)
    /\ BeginLock(x, handler[x], FALSE)
    /\ UNCHANGED events

Valid(x) == handler[x].rec # Null /\ ~Expired(handler[x].rec, now)

Warm == repository # Null /\ object[repository].open

(* Bug: the cache is looked at before the record.                     *)
AskedWarmCacheFirst(x) ==
    /\ Asking(x)
    /\ Warm
    /\ handler' = [handler EXCEPT ![x].pc = "have", ![x].obj = repository]
    /\ UNCHANGED <<storage, repository, object, generation, now, history,
                   events>>

AskedWarm(x) ==
    /\ Asking(x) /\ Valid(x)
    /\ Warm
    /\ handler' = [handler EXCEPT ![x].pc = "have", ![x].obj = repository]
    /\ UNCHANGED <<storage, repository, object, generation, now, history,
                   events>>

AskedCold(x) ==
    /\ Asking(x) /\ Valid(x)
    /\ ~Warm
    /\ Go(x, "opening")
    /\ UNCHANGED <<storage, repository, object, generation, now, history,
                   events>>

(* openFromRecord() is done.  Nothing checks whether another handler was   *)
(* here first, or whether a lock was.                                      *)
Rehydrate(x) ==
    /\ At(x, "opening")
    /\ IF Opens(disk, handler[x].rec.vault)
         THEN \E o \in Objects :
                /\ Fresh(o)
                /\ object' = [object EXCEPT
                                ![o] = Opened(handler[x].rec.vault, disk.tags)]
                /\ repository' = o
                /\ handler' = [handler EXCEPT ![x].pc = "have", ![x].obj = o]
         ELSE Done(x) /\ UNCHANGED <<object, repository>>
    /\ UNCHANGED <<storage, generation, now, history, events>>

-----------------------------------------------------------------------------
(* Using the vault: mutate() in items.ts, commit() in organize.ts *)

(* apply(); it throws if the object was locked meanwhile.                  *)
Apply(x) ==
    /\ At(x, "have") /\ handler[x].op = "use"
    /\ LET o == handler[x].obj IN
       IF object[o].open
         THEN \E e \in Edits :
                /\ e \notin accepted
                /\ accepted' = accepted \cup {e}
                /\ object' = [object EXCEPT ![o].edits = @ \cup {e},
                                            ![o].dirty = @ \cup {e}]
                /\ handler' = [handler EXCEPT ![x].pc = "flush", ![x].edit = e]
         ELSE Done(x) /\ UNCHANGED <<object, accepted>>
    /\ UNCHANGED <<storage, repository, generation, now, answered, locked,
                   events>>

(* flush(), then touch().  The user is told the edit is saved.             *)
FlushEdit(x) ==
    /\ At(x, "flush")
    /\ LET o == handler[x].obj IN
       /\ disk' = Flushed(object[o], disk)
       /\ object' = [object EXCEPT ![o].dirty = {}]
    /\ answered' = answered \cup {handler[x].edit}
    /\ handler' = [handler EXCEPT ![x] = [Begun("touch") EXCEPT !.live = handler[x].live]]
    /\ UNCHANGED <<record, timeout, alarm, repository, generation, now,
                   accepted, locked, events>>

(* housekeep(): purging expired tombstones changes no live item.           *)
Housekeep(x) ==
    /\ At(x, "have") /\ handler[x].op = "housekeep"
    /\ Done(x)
    /\ UNCHANGED <<storage, repository, object, generation, now, history,
                   events>>

(* destroyVault(): keys first, then storage.local, the record, the alarm.  *)
Destroy(x) ==
    /\ At(x, "have") /\ handler[x].op = "destroy"
    /\ generation' = generation + 1
    /\ repository' = Null
    /\ object' = [object EXCEPT ![handler[x].obj] = Closed]
    /\ disk' = Null
    /\ answered' = {}
    /\ handler' = [handler EXCEPT ![x].pc = "lock-forget", ![x].obj = Null]
    /\ UNCHANGED <<record, timeout, alarm, now, accepted, locked, events>>

-----------------------------------------------------------------------------
(* The idle window *)

Checks == {"touch", "state", "enforce"}
Checking(x) == At(x, "read") /\ handler[x].op \in Checks

CheckedTooLate(x) ==
    /\ Checking(x) /\ handler[x].rec # Null
    /\ Expired(handler[x].rec, now)
    /\ BeginLock(x, handler[x], FALSE)
    /\ UNCHANGED events

(* touch() has the record and reads the settings.                          *)
TouchReadsSettings(x) ==
    /\ At(x, "read") /\ handler[x].op = "touch" /\ Valid(x)
    /\ handler' = [handler EXCEPT ![x].pc = "touch",
                                  ![x].until = DeadlineFrom(timeout, now)]
    /\ UNCHANGED <<storage, repository, object, generation, now, history,
                   events>>

(* Bug: the generation is not compared.                               *)
TouchWritesAnyway(x) ==
    /\ At(x, "touch")
    /\ IF handler[x].until # NeverExpires
         THEN /\ record' = [handler[x].rec EXCEPT !.until = handler[x].until]
              /\ Go(x, "arm")
         ELSE Done(x) /\ UNCHANGED record
    /\ UNCHANGED <<disk, timeout, alarm, repository, object, generation,
                   now, history, events>>

(* A lock that began meanwhile has changed the generation.                 *)
TouchWrites(x) ==
    /\ At(x, "touch")
    /\ IF handler[x].until # NeverExpires /\ handler[x].gen = generation
         THEN /\ record' = [handler[x].rec EXCEPT !.until = handler[x].until]
              /\ Go(x, "arm")
         ELSE Done(x) /\ UNCHANGED record
    /\ UNCHANGED <<disk, timeout, alarm, repository, object, generation,
                   now, history, events>>

(* armAutolock() at the end of touch(), startSession(), settingsArrived(). *)
ArmAlarm(x) ==
    /\ At(x, "arm")
    /\ alarm' = AlarmFor(handler[x].until)
    /\ Done(x)
    /\ UNCHANGED <<record, disk, timeout, repository, object, generation,
                   now, history, events>>

(* rememberFocusHolder()                                                   *)
RememberHolder(x) ==
    /\ At(x, "read") /\ handler[x].op = "hold"
    /\ LET h == handler[x] IN
       record' = IF h.rec # Null /\ ~h.rec.held /\ h.gen = generation
                   THEN [h.rec EXCEPT !.held = TRUE] ELSE record
    /\ Done(x)
    /\ UNCHANGED <<disk, timeout, alarm, repository, object, generation,
                   now, history, events>>

(* state() and enforceDeadline() find no session, or one with time left.   *)
StateAnswers(x) ==
    /\ At(x, "read")
    /\ \/ handler[x].op \in {"state", "touch"} /\ handler[x].rec = Null
       \/ handler[x].op = "state" /\ Valid(x)
    /\ Done(x)
    /\ UNCHANGED <<storage, repository, object, generation, now, history,
                   events>>

EnforceDeadline(x) ==
    /\ At(x, "read") /\ handler[x].op = "enforce"
    /\ handler[x].rec = Null \/ Valid(x)
    /\ IF handler[x].rec = Null
         THEN Forget /\ alarm' = Null
         ELSE alarm' = AlarmFor(handler[x].rec.until) /\ UNCHANGED <<repository, object>>
    /\ Done(x)
    /\ UNCHANGED <<record, disk, timeout, generation, now, history,
                   events>>

-----------------------------------------------------------------------------
(* Settings: updateSettings() here, settingsArrived() from a merge *)

(* setSyncedSettings() is over, or there was no vault to carry them.       *)
ReadAgain(x) ==
    /\ \/ At(x, "have") /\ handler[x].op = "settings"
       \/ At(x, "reread")
    /\ handler' = [handler EXCEPT ![x].pc = "settings", ![x].obj = Null,
                                  ![x].rec = record]
    /\ UNCHANGED <<storage, repository, object, generation, now, history,
                   events>>

(* The alarm first, then the record once the owning window is known.       *)
SettingsArm(x) ==
    /\ At(x, "settings")
    /\ IF handler[x].rec = Null
         THEN Done(x) /\ UNCHANGED alarm
         ELSE LET until == DeadlineFrom(timeout, now) IN
              /\ alarm' = AlarmFor(until)
              /\ handler' = [handler EXCEPT ![x].pc = "settings-write",
                                            ![x].until = until]
    /\ UNCHANGED <<record, disk, timeout, repository, object, generation,
                   now, history, events>>

SettingsWrite(x) ==
    /\ At(x, "settings-write")
    /\ record' = [handler[x].rec EXCEPT !.until = handler[x].until, !.held = FALSE]
    /\ Done(x)
    /\ UNCHANGED <<disk, timeout, alarm, repository, object, generation,
                   now, history, events>>

SettingsArrived(x) ==
    /\ At(x, "read") /\ handler[x].op = "arrived"
    /\ IF handler[x].rec = Null
         THEN Done(x) /\ UNCHANGED record
         ELSE LET until == DeadlineFrom(timeout, now) IN
              /\ record' = [handler[x].rec EXCEPT !.until = until]
              /\ handler' = [handler EXCEPT ![x].pc = "arm", ![x].until = until]
    /\ UNCHANGED <<disk, timeout, alarm, repository, object, generation,
                   now, history, events>>

-----------------------------------------------------------------------------
(* A password *)

(* unlock() and createVault(): the key is derived and the vault open.      *)
Unlock(x) ==
    /\ At(x, "deriving") /\ handler[x].op = "unlock"
    /\ disk = Null \/ Opens(disk, disk.vault)
    /\ LET d == IF disk = Null THEN Blank(Local) ELSE disk IN
       /\ disk' = d
       /\ \E o \in Objects :
             /\ Fresh(o)
             /\ object' = [object EXCEPT ![o] = Opened(d.vault, d.tags)]
             /\ repository' = o
             /\ handler' = [handler EXCEPT
                    ![x] = [@ EXCEPT !.pc = "start", !.obj = o,
                                     !.until = DeadlineFrom(timeout, now)]]
    /\ UNCHANGED <<record, timeout, alarm, generation, now, history,
                   events>>

(* A mistyped password, no vault anywhere, or buckets the header disowns.  *)
UnlockFails(x) ==
    /\ At(x, "deriving") /\ handler[x].op = "unlock"
    /\ Done(x)
    /\ UNCHANGED <<storage, repository, object, generation, now, history,
                   events>>

(* startSession(): exportDek() throws if the object was locked meanwhile.  *)
StartSession(x) ==
    /\ At(x, "start")
    /\ LET h == handler[x] IN
       IF object[h.obj].open
         THEN /\ record' = [vault |-> object[h.obj].vault, until |-> h.until,
                            held |-> FALSE]
              /\ locked' = FALSE
              /\ handler' = [handler EXCEPT ![x].pc = "arm", ![x].obj = Null]
         ELSE Done(x) /\ UNCHANGED <<record, locked>>
    /\ UNCHANGED <<disk, timeout, alarm, repository, object, generation,
                   now, accepted, answered, events>>

(* adoptRemoteVault(): the old object is stood down and flushed ...        *)
CallAdopt(x) ==
    /\ "adopt" \in Operations
    /\ disk # Null /\ disk.vault = Local
    /\ Counted
    /\ Start(x, [Idle EXCEPT !.op = "adopt", !.obj = repository,
                             !.pc = IF repository = Null THEN "deriving"
                                                         ELSE "stand-down"])
    /\ repository' = Null
    /\ UNCHANGED <<storage, object, generation, now, history>>

StandDown(x) ==
    /\ At(x, "stand-down")
    /\ disk' = Flushed(object[handler[x].obj], disk)
    /\ object' = [object EXCEPT ![handler[x].obj] = Closed]
    /\ handler' = [handler EXCEPT ![x].pc = "deriving", ![x].obj = Null]
    /\ UNCHANGED <<record, timeout, alarm, repository, generation, now,
                   history, events>>

(* ... and adoptOver() erases the profile once the other vault has opened. *)
AdoptOver(x) ==
    /\ At(x, "deriving") /\ handler[x].op = "adopt"
    /\ disk' = Blank(Remote)
    /\ answered' = {}
    /\ \E o \in Objects :
          /\ Fresh(o)
          /\ object' = [object EXCEPT ![o] = Opened(Remote, {})]
          /\ repository' = o
          /\ handler' = [handler EXCEPT
                 ![x] = [@ EXCEPT !.pc = "start", !.obj = o,
                                  !.until = DeadlineFrom(timeout, now)]]
    /\ UNCHANGED <<record, timeout, alarm, generation, now, accepted,
                   locked, events>>

AdoptWrongPassword(x) ==
    /\ At(x, "deriving") /\ handler[x].op = "adopt"
    /\ Done(x)
    /\ UNCHANGED <<storage, repository, object, generation, now, history,
                   events>>

-----------------------------------------------------------------------------
(* The environment *)

Tick ==
    /\ now < MaxTime
    /\ now' = now + 1
    /\ UNCHANGED <<storage, worker, history, events>>

(* Chrome stops the worker: everything in memory is gone.  If the browser  *)
(* exits, so is storage.session; alarms stay.                              *)
WorkerDies ==
    /\ Counted
    /\ repository' = Null
    /\ object' = [o \in Objects |-> Closed]
    /\ generation' = 0
    /\ handler' = [x \in Handlers |-> Idle]
    /\ record' \in {record, Null}
    /\ UNCHANGED <<disk, timeout, alarm, now, history>>

UserStarts(x) ==
    \/ \E op \in Operations : Call(x, op)
    \/ CallSettings(x)
    \/ CallUnlock(x)
    \/ CallAdopt(x)
    \/ \E panic \in BOOLEAN : CallLock(x, panic)

Proceed(x) ==
    \/ LockRehydrates(x) \/ LockFlushes(x) \/ LockForgets(x) \/ LockClearsAlarms(x)
    \/ AskedWhileLocked(x) \/ AskedWarm(x) \/ AskedCold(x) \/ Rehydrate(x)
    \/ AskedTooLate(x)
    \/ Apply(x) \/ FlushEdit(x) \/ Housekeep(x) \/ Destroy(x)
    \/ CheckedTooLate(x)
    \/ TouchReadsSettings(x) \/ TouchWrites(x) \/ ArmAlarm(x) \/ RememberHolder(x)
    \/ StateAnswers(x) \/ EnforceDeadline(x)
    \/ ReadAgain(x) \/ SettingsArm(x) \/ SettingsWrite(x) \/ SettingsArrived(x)
    \/ Unlock(x) \/ UnlockFails(x) \/ StartSession(x)
    \/ StandDown(x) \/ AdoptOver(x) \/ AdoptWrongPassword(x)

Alarms(x) == AutolockFires(x) \/ HousekeepingFires(x)

Next ==
    \/ \E x \in Handlers : UserStarts(x) \/ Proceed(x) \/ Alarms(x)
    \/ Tick
    \/ WorkerDies

Spec == Init /\ [][Next]_vars

(* Promises settle and Chrome delivers alarms; users and time are free.    *)
Fairness ==
    /\ \A x \in Handlers : WF_vars(Proceed(x))
    /\ WF_vars(\E x \in Handlers : AutolockFires(x))
    /\ SF_vars(\E x \in Handlers : HousekeepingFires(x))
FairSpec == Spec /\ Fairness

-----------------------------------------------------------------------------
(* Properties *)

(* session.ts:18: after a lock, chrome.storage.session is empty.           *)
NoKeyAfterLock == locked => record = Null

(* A key is put back into storage.session only by a password, by one of    *)
(* the two settings handlers, which compare no generation, or by a handler *)
(* that began after the lock did: touch() and rememberFocusHolder() never  *)
(* undo a lock that began after them, nor a panic-lock.                    *)
KeyComesBack == record = Null /\ record' # Null
OldHandlersRespectLocks ==
    [][KeyComesBack =>
         \E x \in Handlers : \/ At(x, "start") \/ At(x, "settings-write")
                             \/ handler[x].op = "arrived"
                             \/ handler[x].under]_vars

(* A handler that began while no session was open, or after the deadline   *)
(* had passed, never changes the vault, whatever objects other handlers    *)
(* left in memory and whatever runs beside it.                             *)
NoEditWithoutSession ==
    \A x \in Handlers : handler[x].edit # Null => handler[x].live

(* What is in chrome.storage.local opens again.                            *)
VaultOpens == disk # Null => Opens(disk, disk.vault)

(* A session past its deadline is closed, though the alarm may have been   *)
(* cleared by a lock that overlapped the unlock.                           *)
ExpiredSessionsEnd ==
    (record # Null /\ record.until <= now)
        ~> (record = Null \/ record.until > now)

(* A vault that was opened while a lock went past does not stay decrypted. *)
MemoryForgets ==
    (record = Null /\ repository # Null) ~> (record # Null \/ repository = Null)

(* What is to end does: ExpiredSessionsEnd, MemoryForgets.                 *)
SessionsEnd == ExpiredSessionsEnd /\ MemoryForgets
=============================================================================
