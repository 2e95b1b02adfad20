----------------------------- MODULE WriteBudget -----------------------------
(***************************************************************************)
(* The write-rate governor of the sync area (src/sync/rate.ts).  A push    *)
(* reserves all its writes before the first, against two sliding windows   *)
(* over a log kept in the session area.  The log is read, and then written *)
(* back, in two storage calls with nothing to keep two reservations apart. *)
(* Locking clears that area, log included.                                 *)
(*                                                                         *)
(* Abstraction.  Time advances in units; the constants keep the order of   *)
(* 100 a minute and 1,400 an hour.                                         *)
(***************************************************************************)
EXTENDS Naturals, FiniteSetsExt, Sequences

CONSTANTS
    Pushers,        \* pushes that may reserve at the same time
    Null,           \* JavaScript's null
    Minute, Hour,   \* MINUTE_MS, HOUR_MS
    PerMinute,      \* WRITES_PER_MINUTE
    PerHour,        \* WRITES_PER_HOUR
    MaxTime,        \* bound: how long it is looked at
    MaxGrants       \* bound: a reservation is made only while fewer writes were granted

ASSUME WriteBudgetConstants ==
    /\ {Minute, Hour, PerMinute, PerHour, MaxTime, MaxGrants} \subseteq Nat \ {0}
    /\ Minute < Hour
    /\ PerMinute <= PerHour
    /\ Null \notin [count : Nat, stamps : Seq(Nat)]

VARIABLES
    now,        \* the clock
    log,        \* vm.syncWrites: when each write was charged, oldest first
    asking,     \* by pusher: the reservation in progress, or Null
    granted,    \* history: when each write granted since the last lock was
    overlapped  \* history: whether two reservations were in progress at once

budget == <<now, log, asking, granted, overlapped>>

Infinite == MaxTime + Hour + 1                  \* Number.POSITIVE_INFINITY

NthOf(numbers, n) == CHOOSE k \in numbers : Cardinality({j \in numbers : j <= k}) = n

(* filter(): the stamps still in the window, in their order.               *)
Recent(stamps, window) ==
    LET kept == {i \in DOMAIN stamps : stamps[i] + window > now}
    IN  [n \in 1 .. Cardinality(kept) |-> stamps[NthOf(kept, n)]]

PruneToMinute(stamps) == Recent(stamps, Minute)   (* Bug: the wrong window *)

Prune(stamps) == Recent(stamps, Hour)

(* slotWait(): the write whose expiry frees the last slot that is needed.  *)
SlotWait(stamps, limit, count, window) ==
    IF count > limit THEN Infinite
    ELSE IF Len(stamps) + count <= limit THEN 0
    ELSE stamps[Len(stamps) + count - limit] + window - now

(* #waitFor() *)
WaitFor(stamps, count) ==
    Max({SlotWait(Recent(stamps, Minute), PerMinute, count, Minute),
         SlotWait(stamps, PerHour, count, Hour)})

-----------------------------------------------------------------------------
BudgetInit ==
    /\ now = 1
    /\ log = <<>>
    /\ asking = [p \in Pushers |-> Null]
    /\ granted = <<>>
    /\ overlapped = FALSE

(* spend(): the log is read.                                               *)
SpendReads(p) ==
    /\ asking[p] = Null
    /\ Len(granted) < MaxGrants
    /\ \E count \in 1 .. PerMinute :
        asking' = [asking EXCEPT ![p] =
                    [count |-> count, stamps |-> Prune(log)]]
    /\ overlapped' = (overlapped \/ \E q \in Pushers : asking[q] # Null)
    /\ UNCHANGED <<now, log, granted>>

(* It is refused, or charged and granted.                                  *)
SpendWrites(p) ==
    LET ask == asking[p] IN
    /\ ask # Null
    /\ IF WaitFor(ask.stamps, ask.count) > 0
         THEN UNCHANGED <<log, granted>>
         ELSE LET charged == [i \in 1 .. ask.count |-> now]
              IN  log' = ask.stamps \o charged /\ granted' = granted \o charged
    /\ asking' = [asking EXCEPT ![p] = Null]
    /\ UNCHANGED <<now, overlapped>>

(* The worker dies with the reservations in progress; the log stays.       *)
PushesDie ==
    /\ \E p \in Pushers : asking[p] # Null
    /\ asking' = [p \in Pushers |-> Null]
    /\ UNCHANGED <<now, log, granted, overlapped>>

(* lock() clears the session area, whatever is being reserved.             *)
LockClearsLog ==
    /\ log # <<>>
    /\ log' = <<>>
    /\ granted' = <<>>
    /\ overlapped' = \E p \in Pushers : asking[p] # Null
    /\ UNCHANGED <<now, asking>>

Tick ==
    /\ now < MaxTime
    /\ \A p \in Pushers : asking[p] = Null
    /\ now' = now + 1
    /\ UNCHANGED <<log, asking, granted, overlapped>>

BudgetNext ==
    \/ \E p \in Pushers : SpendReads(p) \/ SpendWrites(p)
    \/ PushesDie
    \/ LockClearsLog
    \/ Tick

BudgetSpec == BudgetInit /\ [][BudgetNext]_budget

-----------------------------------------------------------------------------
(* Properties *)

Since(window) == Cardinality({i \in DOMAIN granted : granted[i] + window > now})

(* What one session was granted fits both windows whatever the worker's    *)
(* lifetimes (spend), as long as no two pushes reserve at once: then one   *)
(* charge may be lost.  Over a lock it does not fit: the log is cleared.   *)
GrantedFits ==
    overlapped \/ (Since(Minute) <= PerMinute /\ Since(Hour) <= PerHour)

(* count writes fit w units from now.                                      *)
FitsIn(count, w) ==
    LET left(window) == Cardinality({i \in 1 .. Len(log) : log[i] + window > now + w})
    IN  left(Minute) + count <= PerMinute /\ left(Hour) + count <= PerHour

(* retryAfter() names the first moment at which count writes fit: a wait   *)
(* that is enough (slotWait), and not a unit too long.                     *)
WaitIsExact ==
    \A count \in 1 .. PerMinute :
        LET w == WaitFor(Prune(log), count) IN
        /\ FitsIn(count, w)
        /\ w > 0 => ~FitsIn(count, w - 1)

(* The write budget of a sync run: both of the above.                      *)
BudgetHolds == GrantedFits /\ WaitIsExact
==============================================================================
