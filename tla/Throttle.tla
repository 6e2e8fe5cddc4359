------------------------------- MODULE Throttle -------------------------------
(***************************************************************************)
(* The primitives of sync2 that wait on condition variables: Throttle and, at     *)
(* the end, WorkGroup.                                                          *)
(*                                                                              *)
(* sync2.Throttle: consumers and producers share an amount. Every call holds    *)
(* the mutex but while it waits on a condition variable, so a call is one step  *)
(* up to its wait and one step from each wake-up on.                            *)
(***************************************************************************)
EXTENDS Integers, FiniteSets

CONSTANTS
  ThrottleConsumers, ThrottleProducers,   \* goroutines of the two sides
  ThrottleAmounts,                        \* amounts and limits passed to calls
  MaxAvailable                            \* bound on the distance from zero

ASSUME ThrottleAssumption == ThrottleAmounts \subseteq Nat /\ MaxAvailable \in Nat

ThrottleThreads == ThrottleConsumers \cup ThrottleProducers

VARIABLES
  available,   \* throttle.available
  failed,      \* throttle.errs is not empty
  tcall,       \* the call of each goroutine: its wait condition, amount and pc
  crowded      \* history: the sides of which two goroutines have waited at the same time

throttleVars == <<available, failed, tcall, crowded>>

NoCall == [op |-> "none", n |-> 0, pc |-> "idle"]

\* The condition variable a call waits on.
Side(op) == IF op = "WaitUntilBelow" THEN "producer" ELSE "consumer"

WaitsOn(side, call) == call.pc = "waiting" /\ Side(call.op) = side

\* Signal wakes one of the goroutines that wait on the condition variable.
Signal(side, calls) ==
  LET waiting == {t \in ThrottleThreads : WaitsOn(side, calls[t])}
  IN  IF waiting = {} THEN {calls}
      ELSE {[calls EXCEPT ![t].pc = "woken"] : t \in waiting}

SignalConsumer(calls) == Signal("consumer", calls)
SignalProducer(calls) == Signal("producer", calls)

\* The conditions of the three wait loops, which end when the throttle fails.
Blocked(call, avail) ==
  /\ ~failed
  /\ CASE call.op = "ConsumeOrWait"  -> avail <= 0
       [] call.op = "WaitUntilAbove" -> avail <= call.n
       [] call.op = "WaitUntilBelow" -> avail >= call.n

\* The loop of a call and the rest of the call when the loop has ended.
WaitLoop(t, call, avail, calls) ==
  IF Blocked(call, avail)
  THEN /\ tcall' = [calls EXCEPT ![t] = [call EXCEPT !.pc = "waiting"]]
       /\ available' = avail
       /\ crowded' = crowded \cup
            {s \in {Side(call.op)} : \E u \in ThrottleThreads \ {t} : WaitsOn(s, calls[u])}
  ELSE /\ UNCHANGED crowded
       /\ IF call.op = "ConsumeOrWait"
          THEN /\ available' = avail - (IF avail > call.n THEN call.n ELSE avail)
               /\ tcall' \in SignalProducer([calls EXCEPT ![t] = NoCall])
          ELSE /\ available' = avail
               /\ tcall' = [calls EXCEPT ![t] = NoCall]

IdleThread(t) == tcall[t].pc = "idle"
InRange(n) == n \in -MaxAvailable..MaxAvailable

------------------------------------------------------------------------------

ConsumeSilent(t, n) ==
  /\ IdleThread(t) /\ InRange(available - n)
  /\ available' = available - n
  /\ UNCHANGED <<failed, tcall, crowded>>

Consume(t, n) ==
  /\ IdleThread(t) /\ InRange(available - n)
  /\ available' = available - n
  /\ tcall' \in SignalProducer(tcall)
  /\ UNCHANGED <<failed, crowded>>

\* ConsumeOrWait(n) and WaitUntilAbove(n).
ConsumerWait(t, op, n) ==
  /\ IdleThread(t)
  /\ WaitLoop(t, [op |-> op, n |-> n, pc |-> "running"], available, tcall)
  /\ UNCHANGED failed

Produce(t, n) ==
  /\ IdleThread(t) /\ InRange(available + n)
  /\ available' = available + n
  /\ tcall' \in SignalConsumer(tcall)
  /\ UNCHANGED <<failed, crowded>>

ProduceAndWaitUntilBelow(t, n, limit) ==
  /\ IdleThread(t) /\ InRange(available + n)
  /\ \E calls \in SignalConsumer(tcall) :
       WaitLoop(t, [op |-> "WaitUntilBelow", n |-> limit, pc |-> "running"], available + n, calls)
  /\ UNCHANGED failed

WaitUntilBelow(t, limit) ==
  /\ IdleThread(t)
  /\ WaitLoop(t, [op |-> "WaitUntilBelow", n |-> limit, pc |-> "running"], available, tcall)
  /\ UNCHANGED failed

\* A goroutine that was signalled takes the mutex again and looks again.
ThrottleResume(t) ==
  /\ tcall[t].pc = "woken"
  /\ WaitLoop(t, tcall[t], available, tcall)
  /\ UNCHANGED failed

Fail ==
  /\ failed' = TRUE
  /\ \E calls \in SignalConsumer(tcall) : tcall' \in SignalProducer(calls)
  /\ UNCHANGED <<available, crowded>>

------------------------------------------------------------------------------

ThrottleInit ==
  /\ available = 0 /\ failed = FALSE /\ crowded = {}
  /\ tcall = [t \in ThrottleThreads |-> NoCall]

ThrottleNext ==
  \/ \E t \in ThrottleConsumers, n \in ThrottleAmounts :
       \/ Consume(t, n)
       \/ \E op \in {"ConsumeOrWait", "WaitUntilAbove"} : ConsumerWait(t, op, n)
  \/ \E t \in ThrottleProducers, n \in ThrottleAmounts :
       \/ Produce(t, n) \/ WaitUntilBelow(t, n)
       \/ \E limit \in ThrottleAmounts : ProduceAndWaitUntilBelow(t, n, limit)
  \/ \E t \in ThrottleThreads : ThrottleResume(t)
  \/ Fail

\* Each change signals one waiter of the other side, which is enough as long as the
\* goroutines of a side wait one at a time ("between a consumer and producer",
\* throttle.go:10), however many there are: one that sleeps has nothing to do yet, so
\* neither side waits for the other although the amount, or a failure, allows it to go
\* on (throttle.go:40, 58, 78, 87, 110-111).
NoMissedSignal ==
  \A t \in ThrottleThreads :
    tcall[t].pc = "waiting" /\ Side(tcall[t].op) \notin crowded => Blocked(tcall[t], available)

------------------------------------------------------------------------------
(* sync2.WorkGroup: Go refuses work once the group is closed, Wait waits until  *)
(* no work is left. Go takes the mutex in Start and starts the goroutine after   *)
(* it, so Wait and Close can come in between.                                    *)

CONSTANTS
  Jobs,          \* functions passed to Go, each once
  GroupWaiters   \* goroutines that call Wait

VARIABLES
  closed,     \* group.closed
  workers,    \* group.workers
  job,        \* "new", "counted" (Start returned true), "running", "refused", "over"
  gwait,      \* pc of Wait: "idle", "waiting", "woken", "returned"
  waitedClosed  \* history: waiters whose Wait began after Close returned

groupVars == <<closed, workers, job, gwait, waitedClosed>>

StartAnyway(j) ==
  /\ job[j] = "new"
  /\ job' = [job EXCEPT ![j] = "counted"]
  /\ workers' = workers + 1
  /\ UNCHANGED <<closed, gwait, waitedClosed>>

\* Start, called by Go: counted under the mutex.
Start(j) ==
  /\ job[j] = "new"
  /\ job' = [job EXCEPT ![j] = IF closed THEN "refused" ELSE "counted"]
  /\ workers' = IF closed THEN workers ELSE workers + 1
  /\ UNCHANGED <<closed, gwait, waitedClosed>>

\* The goroutine of Go begins to run fn.
RunJob(j) ==
  /\ job[j] = "counted"
  /\ job' = [job EXCEPT ![j] = "running"]
  /\ UNCHANGED <<closed, workers, gwait, waitedClosed>>

\* fn has returned and Done runs: the last one wakes the waiters.
Done(j) ==
  /\ job[j] = "running"
  /\ job' = [job EXCEPT ![j] = "over"]
  /\ workers' = workers - 1
  /\ gwait' = IF workers' # 0 THEN gwait
              ELSE [g \in GroupWaiters |-> IF gwait[g] = "waiting" THEN "woken" ELSE gwait[g]]
  /\ UNCHANGED <<closed, waitedClosed>>

GroupWaitLoop(g) == gwait' = [gwait EXCEPT ![g] = IF workers # 0 THEN "waiting" ELSE "returned"]

Wait(g) ==
  /\ gwait[g] = "idle"
  /\ GroupWaitLoop(g)
  /\ waitedClosed' = IF closed THEN waitedClosed \cup {g} ELSE waitedClosed
  /\ UNCHANGED <<closed, workers, job>>

WaitAgain(g) ==
  /\ gwait[g] = "woken"
  /\ GroupWaitLoop(g)
  /\ UNCHANGED <<closed, workers, job, waitedClosed>>

GroupClose == closed' = TRUE /\ UNCHANGED <<workers, job, gwait, waitedClosed>>

------------------------------------------------------------------------------

GroupInit ==
  /\ closed = FALSE /\ workers = 0
  /\ job = [j \in Jobs |-> "new"]
  /\ gwait = [g \in GroupWaiters |-> "idle"]
  /\ waitedClosed = {}

GroupNext ==
  \/ \E j \in Jobs : Start(j) \/ RunJob(j) \/ Done(j)
  \/ \E g \in GroupWaiters : Wait(g) \/ WaitAgain(g)
  \/ GroupClose

\* Once a Wait that began after Close has returned, no function runs, or ever will
\* again: none slips in between the count and its goroutine (workgroup.go:31-52).
ClosedThenQuiet ==
  \A g \in waitedClosed : gwait[g] = "returned" => \A j \in Jobs : job[j] \notin {"counted", "running"}

\* A waiter is not left behind by the last Done, also when new work came in while
\* it was waking up (workgroup.go:64-66, 76-78).
WaiterWoken == workers = 0 => \A g \in GroupWaiters : gwait[g] # "waiting"
==============================================================================
