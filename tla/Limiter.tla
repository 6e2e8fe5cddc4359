------------------------------- MODULE Limiter -------------------------------
(***************************************************************************)
(* The primitives of sync2 that count: Limiter, Semaphore and, at the end,       *)
(* SuccessThreshold.                                                             *)
(*                                                                               *)
(* sync2.Limiter and sync2.Semaphore. A Limiter is a buffered channel of slots   *)
(* and a wait group; a slot is taken before the function is counted and given    *)
(* back before it is discounted. A Semaphore hands out slots to its callers      *)
(* directly. sync.WaitGroup and semaphore.Weighted are external.                 *)
(***************************************************************************)
EXTENDS Integers, FiniteSets

CONSTANTS
  Callers,   \* goroutines that call Limiter.Go, each with one function
  Lockers,   \* goroutines that call Semaphore.Lock
  Slots      \* the size of both

ASSUME LimiterAssumption == Slots \in Nat

VARIABLES
  limit,     \* messages in limiter.limit
  working,   \* the count of limiter.working
  fn,        \* of each caller: "idle", "go", "slot", "running", "released", "over", "refused"
  lwait,     \* Limiter.Wait: "idle", "waiting", "returned"
  covered,   \* history: functions whose Go had returned when Wait began
  semaHeld, semaClosed,
  lock       \* of each locker: "idle", "queued", "held", "refused"

limiterVars == <<limit, working, fn, lwait, covered>>
semaVars == <<semaHeld, semaClosed, lock>>

FnStep(c, from, to) == fn[c] = from /\ fn' = [fn EXCEPT ![c] = to]

LimiterGo(c) == FnStep(c, "idle", "go") /\ UNCHANGED <<limit, working, lwait, covered, semaVars>>

\* The select of Go: a slot, or the context of the caller.
AcquireSlot(c) ==
  /\ limit < Slots /\ FnStep(c, "go", "slot") /\ limit' = limit + 1
  /\ UNCHANGED <<working, lwait, covered, semaVars>>

LimiterCancelled(c) == FnStep(c, "go", "refused") /\ UNCHANGED <<limit, working, lwait, covered, semaVars>>

\* working.Add(1) and the start of the goroutine; Go returns true.
AddAndGo(c) ==
  /\ FnStep(c, "slot", "running") /\ working' = working + 1
  /\ UNCHANGED <<limit, lwait, covered, semaVars>>

\* The deferred function: the slot first, then the count.
ReleaseSlot(c) ==
  /\ FnStep(c, "running", "released") /\ limit' = limit - 1
  /\ UNCHANGED <<working, lwait, covered, semaVars>>

WorkingDone(c) ==
  /\ FnStep(c, "released", "over") /\ working' = working - 1
  /\ UNCHANGED <<limit, lwait, covered, semaVars>>

LimiterWait ==
  /\ lwait = "idle" /\ lwait' = "waiting"
  /\ covered' = {c \in Callers : fn[c] \notin {"idle", "go", "slot"}}
  /\ UNCHANGED <<limit, working, fn, semaVars>>

LimiterWaitReturns ==
  /\ lwait = "waiting" /\ working = 0 /\ lwait' = "returned"
  /\ UNCHANGED <<limit, working, fn, covered, semaVars>>

------------------------------------------------------------------------------
(* Semaphore. Acquire takes a free slot without a look at the context when     *)
(* nobody queues, and waits for a slot or the context otherwise.               *)

Queue == {l \in Lockers : lock[l] = "queued"}

Lock(l) ==
  /\ lock[l] = "idle"
  /\ IF semaHeld < Slots /\ Queue = {}
     THEN lock' = [lock EXCEPT ![l] = "held"] /\ semaHeld' = semaHeld + 1
     ELSE lock' = [lock EXCEPT ![l] = "queued"] /\ UNCHANGED semaHeld
  /\ UNCHANGED <<semaClosed, limiterVars>>

\* Release serves a queued locker, if there is one.
Unlock(l) ==
  /\ lock[l] = "held"
  /\ IF Queue = {}
     THEN lock' = [lock EXCEPT ![l] = "idle"] /\ semaHeld' = semaHeld - 1
     ELSE \E q \in Queue : lock' = [lock EXCEPT ![l] = "idle", ![q] = "held"] /\ UNCHANGED semaHeld
  /\ UNCHANGED <<semaClosed, limiterVars>>

SemaphoreClose == semaClosed' = TRUE /\ UNCHANGED <<semaHeld, lock, limiterVars>>

LockRefused(l) ==
  /\ semaClosed /\ lock[l] = "queued"
  /\ lock' = [lock EXCEPT ![l] = "refused"]
  /\ UNCHANGED <<semaHeld, semaClosed, limiterVars>>

------------------------------------------------------------------------------

LimiterInit ==
  /\ limit = 0 /\ working = 0 /\ lwait = "idle" /\ covered = {}
  /\ fn = [c \in Callers |-> "idle"]
  /\ semaHeld = 0 /\ semaClosed = FALSE
  /\ lock = [l \in Lockers |-> "idle"]

LimiterNext ==
  \/ \E c \in Callers :
       LimiterGo(c) \/ AcquireSlot(c) \/ LimiterCancelled(c) \/ AddAndGo(c) \/ ReleaseSlot(c) \/ WorkingDone(c)
  \/ LimiterWait \/ LimiterWaitReturns

SemaphoreNext ==
  \/ \E l \in Lockers : Lock(l) \/ Unlock(l) \/ LockRefused(l)
  \/ SemaphoreClose

\* Neither the limiter nor the semaphore ever lets more than their size run, although
\* slots come back before the functions are discounted and pass from one locker
\* to the next without being free (limiter.go:29-47, semaphore.go:40-47).
LimitKept ==
  /\ Cardinality({c \in Callers : fn[c] = "running"}) <= Slots
  /\ Cardinality({l \in Lockers : lock[l] = "held"}) <= Slots

\* Limiter.Wait returns only after every function whose Go had returned when it was
\* called (limiter.go:36-51).
LimiterWaitCovers == lwait = "returned" => \A c \in covered : fn[c] \in {"over", "refused"}

------------------------------------------------------------------------------
(* sync2.SuccessThreshold: concurrent tasks report and waiters are released     *)
(* when enough have succeeded or none is left. Success and Failure are sequences *)
(* of atomic operations on separate counters.                                   *)

CONSTANTS
  Tasks,            \* the tasks; their number is the tasks parameter
  Scale,            \* thresholds and products are counted in 1/Scale
  RoundErr,         \* how far rounding may take the floating-point product from the exact one
  Thresholds,       \* values of successThreshold
  ThresholdWaiters  \* goroutines that call Wait

ASSUME ThresholdAssumption ==
  /\ IsFiniteSet(Tasks) /\ Thresholds \subseteq Int
  /\ Scale \in Nat \ {0} /\ RoundErr \in Nat

VARIABLES
  threshold,   \* the successThreshold the constructor was given; 0 if it refused it
  toSucceed, pending, successes, failures,
  doneClosed,  \* the done channel is closed
  report,      \* pc of each task's Success or Failure
  twait        \* pc of each Wait

thresholdVars == <<threshold, toSucceed, pending, successes, failures, doneClosed, report, twait>>

ValidThreshold(tasks, p) == tasks > 1 /\ p > 0 /\ p <= Scale

\* What float64(tasks) * successThreshold may come out as: a positive number near it.
Products(tasks, p) == {x \in tasks * p - RoundErr .. tasks * p + RoundErr : x > 0}

TasksToSuccessFloor(tasks, p) ==
  {k \in 0 .. tasks : \E x \in Products(tasks, p) : k * Scale <= x /\ x < (k + 1) * Scale}

\* The values math.Ceil of the product may have, at most tasks: rounding the product up
\* past a whole number asks for one task more, 100 tasks at 0.07 for 8.
TasksToSuccess(tasks, p) ==
  {k \in 1 .. tasks : \E x \in Products(tasks, p) :
     (k - 1) * Scale < x /\ (x <= k * Scale \/ k = tasks)}

Report(t, from, to) == report[t] = from /\ report' = [report EXCEPT ![t] = to]

SuccessBegin(t) ==
  /\ threshold # 0
  /\ Report(t, "working", "counted")
  /\ successes' = successes + 1
  /\ UNCHANGED <<threshold, toSucceed, pending, failures, doneClosed, twait>>

SuccessDecide(t) ==
  /\ Report(t, "counted", "pending")
  /\ toSucceed' = toSucceed - 1
  /\ doneClosed' = (doneClosed \/ toSucceed' <= 0)
  /\ UNCHANGED <<threshold, pending, successes, failures, twait>>

FailureBegin(t) ==
  /\ threshold # 0
  /\ Report(t, "working", "pending")
  /\ failures' = failures + 1
  /\ UNCHANGED <<threshold, toSucceed, pending, successes, doneClosed, twait>>

\* The last step of Success and of Failure.
Reported(t) ==
  /\ Report(t, "pending", "over")
  /\ pending' = pending - 1
  /\ doneClosed' = (doneClosed \/ pending' <= 0)
  /\ UNCHANGED <<threshold, toSucceed, successes, failures, twait>>

ThresholdWait(g) ==
  /\ threshold # 0 /\ twait[g] = "idle"
  /\ twait' = [twait EXCEPT ![g] = "waiting"]
  /\ UNCHANGED <<threshold, toSucceed, pending, successes, failures, doneClosed, report>>

\* Wait ends with the done channel or with the caller's context.
ThresholdReturn(g, how) ==
  /\ twait[g] = "waiting"
  /\ how = "done" => doneClosed
  /\ twait' = [twait EXCEPT ![g] = how]
  /\ UNCHANGED <<threshold, toSucceed, pending, successes, failures, doneClosed, report>>

------------------------------------------------------------------------------

ThresholdInit ==
  /\ \E p \in Thresholds : threshold = IF ValidThreshold(Cardinality(Tasks), p) THEN p ELSE 0
  /\ IF threshold = 0 THEN toSucceed = 0
     ELSE toSucceed \in TasksToSuccess(Cardinality(Tasks), threshold)
  /\ pending = Cardinality(Tasks)
  /\ successes = 0 /\ failures = 0 /\ doneClosed = FALSE
  /\ report = [t \in Tasks |-> "working"]
  /\ twait = [g \in ThresholdWaiters |-> "idle"]

ThresholdNext ==
  \/ \E t \in Tasks : SuccessBegin(t) \/ SuccessDecide(t) \/ FailureBegin(t) \/ Reported(t)
  \/ \E g \in ThresholdWaiters : ThresholdWait(g) \/ \E how \in {"done", "ctx"} : ThresholdReturn(g, how)

Share == threshold * Cardinality(Tasks)

\* n successes are the share of the tasks that was asked for, as far as the rounding of
\* the product tells.
Enough(n) == n * Scale >= Share - RoundErr

\* n successes are the share however the product was rounded.
SurelyEnough(n) == n * Scale >= Share + RoundErr

\* Waiters are released exactly when the outcome is decided, and what they read
\* then says so: enough successes are counted or every task has been, in whatever
\* order the reports interleave; and the report that decides, or the last one,
\* always releases them. Only a share within RoundErr of a whole number of tasks may be
\* taken for one more or one fewer (success_threshold.go:48-53, 63-82).
DoneMeansDecided ==
  LET over == Cardinality({t \in Tasks : report[t] = "over"})
  IN  threshold # 0 =>
        /\ doneClosed => Enough(successes) \/ successes + failures = Cardinality(Tasks)
        /\ over = Cardinality(Tasks) \/ SurelyEnough(over - failures) => doneClosed
==============================================================================
