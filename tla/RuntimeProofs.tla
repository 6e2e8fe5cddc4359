---------------------------- MODULE RuntimeProofs ----------------------------
(***************************************************************************)
(* Machine-checked proofs about Runtime: for each primitive of sync2, errs2 and     *)
(* context2, for the dial of several candidates, the QUIC connection and the test   *)
(* context an inductive invariant, that its initial states have it and that each of *)
(* its steps keeps it; and, with those, that every safety property of Runtime holds *)
(* in each of its behaviours, for any sets of goroutines, candidates and priorities *)
(* and any limit.                                                                   *)
(***************************************************************************)
EXTENDS Runtime, FiniteSetTheorems, TLAPS

------------------------------------------------------------------------------
(* Throttle. *)

ConsumerOps == {"ConsumeOrWait", "WaitUntilAbove"}

\* A call waits, or was woken, with one of the calls of its own side.
CallOK(t, call) ==
  \/ call = NoCall
  \/ /\ call \in [op : ConsumerOps, n : Nat, pc : {"waiting", "woken"}]
     /\ t \in ThrottleConsumers
  \/ /\ call \in [op : {"WaitUntilBelow"}, n : Nat, pc : {"waiting", "woken"}]
     /\ t \in ThrottleProducers

CallsOK(calls) ==
  /\ calls \in [ThrottleThreads -> [op : {"none", "WaitUntilBelow"} \cup ConsumerOps, n : Nat,
                                    pc : {"idle", "waiting", "woken"}]]
  /\ \A t \in ThrottleThreads : CallOK(t, calls[t])

\* Nobody else waits on the same side, and who waits has to.
Alone(side, calls) == \A t, u \in ThrottleThreads : WaitsOn(side, calls[t]) /\ WaitsOn(side, calls[u]) => t = u
AllBlocked(side, calls, avail) == \A t \in ThrottleThreads : WaitsOn(side, calls[t]) => Blocked(calls[t], avail)

\* On a side that was never crowded one goroutine waits at most, and has to.
Orderly(calls, avail) ==
  \A side \in {"consumer", "producer"} \ crowded : Alone(side, calls) /\ AllBlocked(side, calls, avail)

ThrottleInv ==
  /\ available \in Int /\ failed \in BOOLEAN
  /\ CallsOK(tcall)
  /\ Orderly(tcall, available)

\* Signal wakes a goroutine of the given side, which is everyone who waits on it when it
\* waits alone, and changes nothing else.
LEMMA SignalWakes ==
  ASSUME NEW side \in {"consumer", "producer"}, NEW calls, CallsOK(calls), NEW woken \in Signal(side, calls)
  PROVE  /\ CallsOK(woken)
         /\ \A t \in ThrottleThreads : woken[t].pc = "waiting" => woken[t] = calls[t]
         /\ \A t \in ThrottleThreads : WaitsOn(side, woken[t]) => ~Alone(side, calls)
         /\ \A s \in {"consumer", "producer"} : Alone(s, calls) => Alone(s, woken)
<1> DEFINE sleepers == {t \in ThrottleThreads : WaitsOn(side, calls[t])}
<1>2. CASE sleepers = {}
  BY <1>2 DEF Signal
<1>3. ASSUME NEW t \in sleepers, woken = [calls EXCEPT ![t].pc = "woken"]
      PROVE  /\ CallsOK(woken)
             /\ \A u \in ThrottleThreads : woken[u].pc = "waiting" => woken[u] = calls[u]
             /\ \A u \in ThrottleThreads : WaitsOn(side, woken[u]) => ~Alone(side, calls)
             /\ \A s \in {"consumer", "producer"} : Alone(s, calls) => Alone(s, woken)
  <2>1. /\ woken[t].pc = "woken" /\ \A u \in ThrottleThreads \ {t} : woken[u] = calls[u]
        /\ t \in ThrottleThreads
    BY <1>3 DEF CallsOK
  <2>2. CallsOK(woken)
    BY <1>3 DEF CallsOK, CallOK, ConsumerOps, NoCall, WaitsOn
  <2>3. \A u \in ThrottleThreads : woken[u].pc = "waiting" => u # t /\ woken[u] = calls[u]
    BY <2>1
  <2>4. \A u \in ThrottleThreads : WaitsOn(side, woken[u]) => ~Alone(side, calls)
    BY <1>3, <2>3 DEF WaitsOn, Alone
  <2>5. \A s \in {"consumer", "producer"} : Alone(s, calls) => Alone(s, woken)
    BY <2>3 DEF WaitsOn, Alone
  <2>6. QED
    BY <2>2, <2>3, <2>4, <2>5
<1>4. QED
  BY <1>2, <1>3 DEF Signal

\* After a signal those of its own side who wait were not alone, and those of the other
\* side wait for what they have to if the amount moved away from it.
LEMMA SignalKeeps ==
  ASSUME NEW side \in {"consumer", "producer"}, NEW calls, CallsOK(calls), NEW woken \in Signal(side, calls),
         NEW avail \in Int, NEW after \in Int, Orderly(calls, avail),
         IF side = "consumer" THEN after >= avail
         ELSE failed \/ after <= avail
  PROVE  CallsOK(woken) /\ Orderly(woken, after)
<1>1. /\ CallsOK(woken)
      /\ \A t \in ThrottleThreads : woken[t].pc = "waiting" => woken[t] = calls[t]
      /\ \A t \in ThrottleThreads : WaitsOn(side, woken[t]) => ~Alone(side, calls)
      /\ \A s \in {"consumer", "producer"} : Alone(s, calls) => Alone(s, woken)
  BY SignalWakes
<1>2. ASSUME NEW s \in {"consumer", "producer"} \ crowded, NEW t \in ThrottleThreads, WaitsOn(s, woken[t])
      PROVE  Blocked(woken[t], after)
  <2>1. Alone(s, calls) /\ AllBlocked(s, calls, avail)
    BY DEF Orderly
  <2>2. s # side
    BY <1>1, <1>2, <2>1
  <2>3. woken[t] = calls[t] /\ WaitsOn(s, calls[t])
    BY <1>1, <1>2 DEF WaitsOn
  <2>4. Blocked(calls[t], avail)
    BY <2>1, <2>3 DEF AllBlocked
  <2>5. CASE side = "consumer"
    <3>1. calls[t].op = "WaitUntilBelow" /\ calls[t].n \in Nat
      BY <2>2, <2>3, <2>5 DEF WaitsOn, Side, CallsOK
    <3>2. QED
      BY <2>3, <2>4, <2>5, <3>1 DEF Blocked
  <2>6. CASE side = "producer" /\ after <= avail
    <3>1. calls[t].op \in ConsumerOps /\ calls[t].n \in Nat
      BY <2>2, <2>3, <2>6 DEF WaitsOn, Side, CallsOK, CallOK, NoCall
    <3>2. CASE calls[t].op = "ConsumeOrWait"
      BY <2>3, <2>4, <2>6, <3>1, <3>2 DEF Blocked
    <3>3. CASE calls[t].op = "WaitUntilAbove"
      BY <2>3, <2>4, <2>6, <3>1, <3>3 DEF Blocked
    <3>4. QED
      BY <3>1, <3>2, <3>3 DEF ConsumerOps
  <2>7. CASE failed
    BY <2>4, <2>7 DEF Blocked
  <2>8. QED
    BY <2>5, <2>6, <2>7
<1>3. QED
  BY <1>1, <1>2 DEF Orderly, AllBlocked

\* The loop of a call, entered with calls that wait for what they have to: after it
\* nobody waits without need.
LEMMA LoopKeeps ==
  ASSUME failed \in BOOLEAN, NEW avail \in Int, NEW calls, CallsOK(calls), Orderly(calls, avail),
         NEW t \in ThrottleThreads, NEW call, CallOK(t, [call EXCEPT !.pc = "waiting"]),
         call \in [op : {"WaitUntilBelow"} \cup ConsumerOps, n : Nat, pc : {"running", "woken"}],
         WaitLoop(t, call, avail, calls), UNCHANGED failed
  PROVE  ThrottleInv'
<1> DEFINE rest == [calls EXCEPT ![t] = NoCall]
<1>0. CallsOK(rest) /\ CallOK(t, NoCall) /\ Orderly(rest, avail)
  <2>1. rest[t].pc = "idle" /\ \A u \in ThrottleThreads \ {t} : rest[u] = calls[u]
    BY DEF CallsOK, NoCall
  <2>2. CallsOK(rest) /\ CallOK(t, NoCall)
    BY DEF CallsOK, CallOK, NoCall
  <2>3. \A s, u : u \in ThrottleThreads /\ WaitsOn(s, rest[u]) => rest[u] = calls[u]
    BY <2>1 DEF WaitsOn
  <2>4. \A s : Alone(s, calls) => Alone(s, rest)
    BY <2>3 DEF Alone, WaitsOn
  <2>5. \A s : AllBlocked(s, calls, avail) => AllBlocked(s, rest, avail)
    BY <2>3 DEF AllBlocked, WaitsOn
  <2>6. QED
    BY <2>2, <2>4, <2>5 DEF Orderly
<1>1. CASE Blocked(call, avail)
  <2> DEFINE held == [call EXCEPT !.pc = "waiting"]
             side == Side(call.op)
  <2>1. /\ tcall' = [calls EXCEPT ![t] = held] /\ available' = avail
        /\ crowded' = crowded \cup {s \in {side} : \E u \in ThrottleThreads \ {t} : WaitsOn(s, calls[u])}
    BY <1>1 DEF WaitLoop
  <2>2. /\ held \in [op : {"WaitUntilBelow"} \cup ConsumerOps, n : Nat, pc : {"waiting"}]
        /\ held.op = call.op /\ held.n = call.n
    BY DEF ConsumerOps
  <2>3. CallsOK(tcall')
    BY <2>1, <2>2 DEF CallsOK
  <2>4. Blocked(held, avail)
    BY <1>1, <2>2 DEF Blocked
  <2>5. tcall'[t] = held /\ \A u \in ThrottleThreads \ {t} : tcall'[u] = calls[u]
    BY <2>1 DEF CallsOK
  <2>6. ASSUME NEW s \in {"consumer", "producer"} \ crowded'
        PROVE  Alone(s, tcall') /\ AllBlocked(s, tcall', avail)
    <3>1. Alone(s, calls) /\ AllBlocked(s, calls, avail)
      BY <2>1 DEF Orderly
    <3>2. AllBlocked(s, tcall', avail)
      BY <2>4, <2>5, <3>1 DEF AllBlocked
    <3>3. WaitsOn(s, tcall'[t]) => \A u \in ThrottleThreads \ {t} : ~WaitsOn(s, calls[u])
      BY <2>1, <2>2, <2>5 DEF WaitsOn
    <3>4. Alone(s, tcall')
      BY <2>5, <3>1, <3>3 DEF Alone
    <3>5. QED
      BY <3>2, <3>4
  <2>7. CallsOK(tcall)' /\ Orderly(tcall, available)'
    BY <2>1, <2>3, <2>6 DEF Orderly, AllBlocked, Alone, Blocked, CallsOK, CallOK
  <2>8. QED
    BY <2>1, <2>7 DEF ThrottleInv
<1>2. CASE ~Blocked(call, avail) /\ call.op = "ConsumeOrWait"
  <2>1. /\ tcall' \in SignalProducer(rest) /\ UNCHANGED crowded
        /\ available' = avail - (IF avail > call.n THEN call.n ELSE avail)
    BY <1>2 DEF WaitLoop
  <2>2. tcall' \in Signal("producer", rest)
    BY <2>1 DEF SignalProducer
  <2>3. available' \in Int
    BY <2>1
  <2>4. failed \/ available' <= avail
    BY <1>2, <2>1 DEF Blocked
  <2>5. CallsOK(tcall') /\ Orderly(tcall', available')
    <3> HIDE DEF rest
    <3>1. QED
      BY <1>0, <2>2, <2>3, <2>4, SignalKeeps
  <2>6. CallsOK(tcall)' /\ Orderly(tcall, available)'
    BY <2>1, <2>5 DEF Orderly, AllBlocked, Alone, Blocked, CallsOK, CallOK
  <2>7. QED
    BY <2>3, <2>6 DEF ThrottleInv
<1>3. CASE ~Blocked(call, avail) /\ call.op # "ConsumeOrWait"
  <2>1. tcall' = rest /\ available' = avail /\ UNCHANGED crowded
    BY <1>3 DEF WaitLoop
  <2>2. CallsOK(tcall)' /\ Orderly(tcall, available)'
    BY <1>0, <2>1 DEF Orderly, AllBlocked, Alone, Blocked, CallsOK, CallOK
  <2>3. QED
    BY <2>1, <2>2 DEF ThrottleInv
<1>4. QED
  BY <1>1, <1>2, <1>3

\* A new throttle has it.
LEMMA ThrottleStart == ThrottleInit => ThrottleInv
<1> SUFFICES ASSUME ThrottleInit PROVE ThrottleInv
  OBVIOUS
<1>1. \A t \in ThrottleThreads : tcall[t] = NoCall
  BY DEF ThrottleInit
<1>2. CallsOK(tcall)
  BY <1>1 DEF ThrottleInit, CallsOK, CallOK, NoCall
<1>3. Orderly(tcall, available)
  BY <1>1 DEF Orderly, Alone, AllBlocked, WaitsOn, NoCall
<1>4. available \in Int
  BY DEF ThrottleInit
<1>5. failed \in BOOLEAN
  BY DEF ThrottleInit
<1>6. QED
  BY <1>2, <1>3, <1>4, <1>5 DEF ThrottleInv

\* Every step of the throttle keeps its invariant.
LEMMA ThrottleStep == ThrottleInv /\ [ThrottleNext]_throttleVars => ThrottleInv'
<1> SUFFICES ASSUME ThrottleInv, [ThrottleNext]_throttleVars PROVE ThrottleInv'
  OBVIOUS
<1> USE ThrottleAssumption
<1>0. CallsOK(tcall) /\ Orderly(tcall, available) /\ available \in Int /\ failed \in BOOLEAN
  BY DEF ThrottleInv
\* The invariant of the next state, from what the calls and the amount then are.
<1>1. ASSUME CallsOK(tcall'), Orderly(tcall', available'), available' \in Int, UNCHANGED <<failed, crowded>>
      PROVE  ThrottleInv'
  BY <1>0, <1>1 DEF ThrottleInv, Orderly, AllBlocked, Alone, Blocked, CallsOK, CallOK
<1>3. ASSUME NEW t \in ThrottleConsumers, NEW n \in ThrottleAmounts, Consume(t, n) PROVE ThrottleInv'
  <2>1. /\ n \in Nat /\ available' = available - n /\ available' \in Int /\ UNCHANGED <<failed, crowded>>
        /\ tcall' \in Signal("producer", tcall) /\ available' <= available
    BY <1>0, <1>3 DEF Consume, SignalProducer
  <2>2. CallsOK(tcall') /\ Orderly(tcall', available')
    BY <1>0, <2>1, SignalKeeps
  <2>3. QED
    BY <1>1, <2>1, <2>2
<1>4. ASSUME NEW t \in ThrottleConsumers, NEW n \in ThrottleAmounts, NEW op \in ConsumerOps,
             ConsumerWait(t, op, n)
      PROVE  ThrottleInv'
  <2> DEFINE call == [op |-> op, n |-> n, pc |-> "running"]
  <2>1. /\ t \in ThrottleThreads /\ n \in Nat
        /\ call \in [op : {"WaitUntilBelow"} \cup ConsumerOps, n : Nat, pc : {"running", "woken"}]
        /\ CallOK(t, [call EXCEPT !.pc = "waiting"])
    BY DEF ThrottleThreads, CallOK
  <2>2. WaitLoop(t, call, available, tcall) /\ UNCHANGED failed
    BY <1>4 DEF ConsumerWait
  <2> HIDE DEF call
  <2>3. QED
    BY <1>0, <2>1, <2>2, LoopKeeps
<1>5. ASSUME NEW t \in ThrottleProducers, NEW n \in ThrottleAmounts, Produce(t, n) PROVE ThrottleInv'
  <2>1. /\ n \in Nat /\ available' = available + n /\ available' \in Int /\ UNCHANGED <<failed, crowded>>
        /\ tcall' \in Signal("consumer", tcall) /\ available' >= available
    BY <1>0, <1>5 DEF Produce, SignalConsumer
  <2>2. CallsOK(tcall') /\ Orderly(tcall', available')
    BY <1>0, <2>1, SignalKeeps
  <2>3. QED
    BY <1>1, <2>1, <2>2
<1>6. ASSUME NEW t \in ThrottleProducers, NEW limit_ \in Nat, NEW avail \in Int, NEW calls,
             CallsOK(calls), Orderly(calls, avail),
             WaitLoop(t, [op |-> "WaitUntilBelow", n |-> limit_, pc |-> "running"], avail, calls),
             UNCHANGED failed
      PROVE  ThrottleInv'
  <2> DEFINE call == [op |-> "WaitUntilBelow", n |-> limit_, pc |-> "running"]
  <2>1. /\ t \in ThrottleThreads
        /\ call \in [op : {"WaitUntilBelow"} \cup ConsumerOps, n : Nat, pc : {"running", "woken"}]
        /\ CallOK(t, [call EXCEPT !.pc = "waiting"])
    BY DEF ThrottleThreads, CallOK
  <2>2. WaitLoop(t, call, avail, calls)
    BY <1>6
  <2> HIDE DEF call
  <2>3. QED
    BY <1>0, <1>6, <2>1, <2>2, LoopKeeps
<1>7. ASSUME NEW t \in ThrottleProducers, NEW n \in ThrottleAmounts, WaitUntilBelow(t, n) PROVE ThrottleInv'
  BY <1>0, <1>6, <1>7 DEF WaitUntilBelow
<1>8. ASSUME NEW t \in ThrottleProducers, NEW n \in ThrottleAmounts, NEW limit_ \in ThrottleAmounts,
             ProduceAndWaitUntilBelow(t, n, limit_)
      PROVE  ThrottleInv'
  <2>1. PICK calls \in Signal("consumer", tcall) :
          WaitLoop(t, [op |-> "WaitUntilBelow", n |-> limit_, pc |-> "running"], available + n, calls)
    BY <1>8 DEF ProduceAndWaitUntilBelow, SignalConsumer
  <2>2. /\ n \in Nat /\ limit_ \in Nat /\ available + n \in Int /\ UNCHANGED failed
        /\ available + n >= available
    BY <1>0, <1>8 DEF ProduceAndWaitUntilBelow
  <2>3. CallsOK(calls) /\ Orderly(calls, available + n)
    BY <1>0, <2>2, SignalKeeps
  <2>4. QED
    BY <1>6, <2>1, <2>2, <2>3
<1>9. ASSUME NEW t \in ThrottleThreads, ThrottleResume(t) PROVE ThrottleInv'
  <2>1. /\ tcall[t] \in [op : {"WaitUntilBelow"} \cup ConsumerOps, n : Nat, pc : {"running", "woken"}]
        /\ CallOK(t, [tcall[t] EXCEPT !.pc = "waiting"])
    BY <1>0, <1>9 DEF ThrottleResume, CallsOK, CallOK, NoCall, ConsumerOps
  <2>2. WaitLoop(t, tcall[t], available, tcall) /\ UNCHANGED failed
    BY <1>9 DEF ThrottleResume
  <2>3. QED
    BY <1>0, <2>1, <2>2, LoopKeeps
<1>10. CASE Fail
  <2>1. PICK calls \in Signal("consumer", tcall) : tcall' \in Signal("producer", calls)
    BY <1>10 DEF Fail, SignalConsumer, SignalProducer
  <2>2. failed' = TRUE /\ available' = available /\ crowded' = crowded
    BY <1>10 DEF Fail
  <2>3. /\ CallsOK(calls)
        /\ \A t \in ThrottleThreads : WaitsOn("consumer", calls[t]) => ~Alone("consumer", tcall)
        /\ \A s \in {"consumer", "producer"} : Alone(s, tcall) => Alone(s, calls)
    BY <1>0, <2>1, SignalWakes
  <2>4. /\ CallsOK(tcall')
        /\ \A t \in ThrottleThreads : tcall'[t].pc = "waiting" => tcall'[t] = calls[t]
        /\ \A t \in ThrottleThreads : WaitsOn("producer", tcall'[t]) => ~Alone("producer", calls)
        /\ \A s \in {"consumer", "producer"} : Alone(s, calls) => Alone(s, tcall')
    BY <2>1, <2>3, SignalWakes
  <2>5. ASSUME NEW s \in {"consumer", "producer"} \ crowded
        PROVE  Alone(s, tcall') /\ \A t \in ThrottleThreads : ~WaitsOn(s, tcall'[t])
    <3>1. Alone(s, tcall) /\ Alone(s, calls)
      BY <1>0, <2>3 DEF Orderly
    <3>2. CASE s = "consumer"
      BY <2>3, <2>4, <3>1, <3>2 DEF WaitsOn
    <3>3. CASE s = "producer"
      BY <2>4, <3>1, <3>3
    <3>4. QED
      BY <3>2, <3>3
  <2>6. CallsOK(tcall)' /\ Orderly(tcall, available)'
    BY <2>2, <2>4, <2>5 DEF Orderly, AllBlocked, Alone, CallsOK, CallOK
  <2>7. QED
    BY <1>0, <2>2, <2>6 DEF ThrottleInv
<1>11. CASE UNCHANGED throttleVars
  BY <1>0, <1>1, <1>11 DEF throttleVars
<1>12. QED
  BY <1>3, <1>4, <1>5, <1>7, <1>8, <1>9, <1>10, <1>11 DEF ThrottleNext, ConsumerOps

\* So who sleeps on a side that was never crowded has to.
LEMMA ThrottlePromise == ThrottleInv => NoMissedSignal
BY DEF ThrottleInv, Orderly, AllBlocked, NoMissedSignal, WaitsOn, Side

------------------------------------------------------------------------------
(* WorkGroup. *)

\* Functions that are counted.
Active == {j \in Jobs : job[j] \in {"counted", "running"}}

\* The count is the number of functions that run or are about to, and once a Wait that
\* began after Close has returned there is none, nor can there be one.
GroupInv ==
  /\ closed \in BOOLEAN /\ waitedClosed \subseteq GroupWaiters
  /\ job \in [Jobs -> {"new", "counted", "running", "refused", "over"}]
  /\ gwait \in [GroupWaiters -> {"idle", "waiting", "woken", "returned"}]
  /\ IsFiniteSet(Active) /\ workers = Cardinality(Active)
  /\ \A g \in waitedClosed : closed /\ gwait[g] # "idle" /\ (gwait[g] = "returned" => Active = {})
  /\ WaiterWoken

\* A new group has it.
LEMMA GroupStart == GroupInit => GroupInv
<1> SUFFICES ASSUME GroupInit PROVE GroupInv
  OBVIOUS
<1>1. Active = {}
  BY DEF GroupInit, Active
<1>2. QED
  BY <1>1, FS_EmptySet DEF GroupInit, GroupInv, WaiterWoken

\* Every step of the group keeps its invariant.
LEMMA GroupStep == GroupInv /\ [GroupNext]_groupVars => GroupInv'
<1> SUFFICES ASSUME GroupInv, [GroupNext]_groupVars PROVE GroupInv'
  OBVIOUS
<1>0. IsFiniteSet(Active) /\ workers = Cardinality(Active) /\ workers \in Nat /\ (workers = 0 <=> Active = {})
  BY FS_CardinalityType, FS_EmptySet DEF GroupInv
<1>1. ASSUME NEW j \in Jobs, Start(j) PROVE GroupInv'
  <2>1. CASE closed
    <3>1. Active' = Active
      BY <1>1, <2>1 DEF Start, Active, GroupInv
    <3>2. QED
      BY <1>1, <2>1, <3>1 DEF Start, GroupInv, WaiterWoken
  <2>2. CASE ~closed
    <3>1. Active' = Active \cup {j} /\ j \notin Active
      BY <1>1, <2>2 DEF Start, Active, GroupInv
    <3>2. IsFiniteSet(Active') /\ Cardinality(Active') = workers + 1
      BY <1>0, <3>1, FS_AddElement
    <3>3. waitedClosed = {}
      BY <2>2 DEF GroupInv
    <3>4. QED
      BY <1>0, <1>1, <2>2, <3>2, <3>3 DEF Start, GroupInv, WaiterWoken
  <2>3. QED
    BY <2>1, <2>2
<1>2. ASSUME NEW j \in Jobs, RunJob(j) PROVE GroupInv'
  <2>1. Active' = Active
    BY <1>2 DEF RunJob, Active, GroupInv
  <2>2. QED
    BY <1>2, <2>1 DEF RunJob, GroupInv, WaiterWoken
<1>3. ASSUME NEW j \in Jobs, Done(j) PROVE GroupInv'
  <2>1. Active' = Active \ {j} /\ j \in Active
    BY <1>3 DEF Done, Active, GroupInv
  <2>2. IsFiniteSet(Active') /\ Cardinality(Active') = workers - 1
    BY <1>0, <2>1, FS_RemoveElement
  <2>3. /\ gwait' \in [GroupWaiters -> {"idle", "waiting", "woken", "returned"}]
        /\ \A g \in GroupWaiters : /\ gwait'[g] = "idle" <=> gwait[g] = "idle"
                                   /\ gwait'[g] = "returned" <=> gwait[g] = "returned"
    BY <1>3 DEF Done, GroupInv
  <2>4. WaiterWoken'
    BY <1>0, <1>3 DEF Done, GroupInv, WaiterWoken
  <2>5. QED
    BY <1>3, <2>1, <2>2, <2>3, <2>4 DEF Done, GroupInv
<1>4. ASSUME NEW g \in GroupWaiters, Wait(g) PROVE GroupInv'
  <2>1. Active' = Active
    BY <1>4 DEF Wait, Active
  <2>2. QED
    BY <1>0, <1>4, <2>1 DEF Wait, GroupWaitLoop, GroupInv, WaiterWoken
<1>5. ASSUME NEW g \in GroupWaiters, WaitAgain(g) PROVE GroupInv'
  <2>1. Active' = Active
    BY <1>5 DEF WaitAgain, Active
  <2>2. QED
    BY <1>0, <1>5, <2>1 DEF WaitAgain, GroupWaitLoop, GroupInv, WaiterWoken
<1>6. CASE GroupClose
  BY <1>6 DEF GroupClose, GroupInv, WaiterWoken, Active
<1>7. CASE UNCHANGED groupVars
  BY <1>7 DEF groupVars, GroupInv, WaiterWoken, Active
<1>8. QED
  BY <1>1, <1>2, <1>3, <1>4, <1>5, <1>6, <1>7 DEF GroupNext

\* What a closed group promises follows.
LEMMA GroupPromise == GroupInv => ClosedThenQuiet /\ WaiterWoken
BY DEF GroupInv, ClosedThenQuiet, Active

------------------------------------------------------------------------------
(* SuccessThreshold. *)

Reports(s) == {t \in Tasks : report[t] = s}
Count(s) == Cardinality(Reports(s))
ReportStates == {"working", "counted", "pending", "over"}
\* What toSucceed began with.
ToSucceedAtFirst == toSucceed + (successes - Count("counted"))

\* The counters are functions of how far the reports have come, and the done channel is
\* closed as soon as one of the two that decide has run out.
ThresholdInv ==
  /\ threshold \in 0 .. Scale /\ report \in [Tasks -> ReportStates]
  /\ successes \in Nat /\ failures \in Nat /\ doneClosed \in BOOLEAN /\ toSucceed \in Int
  /\ threshold # 0 => Cardinality(Tasks) > 1
  /\ threshold = 0 => \A t \in Tasks : report[t] = "working"
  /\ successes + failures = Cardinality(Tasks) - Count("working")
  /\ threshold # 0 => ToSucceedAtFirst \in TasksToSuccess(Cardinality(Tasks), threshold)
  /\ pending = Cardinality(Tasks) - Count("over")
  /\ threshold # 0 => (doneClosed <=> toSucceed <= 0 \/ pending <= 0)

\* Disjoint sets are counted together.
LEMMA DisjointUnion ==
  ASSUME NEW A, NEW B, IsFiniteSet(A), IsFiniteSet(B), A \cap B = {}
  PROVE  IsFiniteSet(A \cup B) /\ Cardinality(A \cup B) = Cardinality(A) + Cardinality(B)
<1>1. /\ IsFiniteSet(A \cup B)
      /\ Cardinality(A \cup B) = Cardinality(A) + Cardinality(B) - Cardinality(A \cap B)
  BY FS_Union
<1>2. Cardinality(A) \in Nat /\ Cardinality(B) \in Nat /\ Cardinality(A \cap B) = 0
  BY FS_EmptySet, FS_CardinalityType
<1>3. QED
  BY <1>1, <1>2

\* Every task is at one place of its report.
LEMMA CountsAddUp ==
  ASSUME report \in [Tasks -> ReportStates]
  PROVE  /\ \A s \in ReportStates : IsFiniteSet(Reports(s)) /\ Count(s) \in Nat
         /\ Cardinality(Tasks) \in Nat
         /\ Count("working") + Count("counted") + Count("pending") + Count("over") = Cardinality(Tasks)
<1>1. /\ \A s \in ReportStates : IsFiniteSet(Reports(s)) /\ Count(s) \in Nat
      /\ Cardinality(Tasks) \in Nat
  BY ThresholdAssumption, FS_Subset, FS_CardinalityType DEF Reports, Count
<1> DEFINE AB == Reports("working") \cup Reports("counted")
           CD == Reports("pending") \cup Reports("over")
<1>2. Reports("working") \cap Reports("counted") = {} /\ Reports("pending") \cap Reports("over") = {}
  BY DEF Reports
<1>3. AB \cap CD = {} /\ AB \cup CD = Tasks
  BY DEF Reports, ReportStates
<1>4. IsFiniteSet(AB) /\ Cardinality(AB) = Count("working") + Count("counted")
  BY <1>1, <1>2, DisjointUnion DEF Count, ReportStates
<1>5. IsFiniteSet(CD) /\ Cardinality(CD) = Count("pending") + Count("over")
  BY <1>1, <1>2, DisjointUnion DEF Count, ReportStates
<1>6. Cardinality(Tasks) = Cardinality(AB) + Cardinality(CD)
  <2> HIDE DEF AB, CD
  <2>1. QED
    BY <1>3, <1>4, <1>5, DisjointUnion
<1>7. QED
  BY <1>1, <1>4, <1>5, <1>6 DEF ReportStates

\* A report that moves on is counted at its new place and no longer at the old one.
LEMMA ReportMoves ==
  ASSUME report \in [Tasks -> ReportStates],
         NEW t \in Tasks, NEW from \in ReportStates, NEW to \in ReportStates, from # to, Report(t, from, to)
  PROVE  /\ report' \in [Tasks -> ReportStates]
         /\ Count(from)' = Count(from) - 1 /\ Count(to)' = Count(to) + 1
         /\ \A s \in ReportStates \ {from, to} : Count(s)' = Count(s)
<1>1. report' \in [Tasks -> ReportStates]
  BY DEF Report
<1>2. Reports(from)' = Reports(from) \ {t} /\ t \in Reports(from)
  BY DEF Report, Reports
<1>3. Reports(to)' = Reports(to) \cup {t} /\ t \notin Reports(to)
  BY DEF Report, Reports
<1>4. \A s \in ReportStates \ {from, to} : Reports(s)' = Reports(s)
  BY DEF Report, Reports
<1>5. IsFiniteSet(Reports(from)) /\ IsFiniteSet(Reports(to))
  BY CountsAddUp
<1>6. Count(from)' = Count(from) - 1
  BY <1>2, <1>5, FS_RemoveElement DEF Count
<1>7. Count(to)' = Count(to) + 1
  BY <1>3, <1>5, FS_AddElement DEF Count
<1>8. QED
  BY <1>1, <1>4, <1>6, <1>7 DEF Count

\* A new threshold has it.
LEMMA ThresholdStart == ThresholdInit => ThresholdInv
<1> SUFFICES ASSUME ThresholdInit PROVE ThresholdInv
  OBVIOUS
<1>1. report \in [Tasks -> ReportStates] /\ \A t \in Tasks : report[t] = "working"
  BY DEF ThresholdInit, ReportStates
<1>2. Reports("working") = Tasks /\ Reports("counted") = {} /\ Reports("over") = {}
  BY <1>1 DEF Reports
<1>3. /\ Count("working") = Cardinality(Tasks) /\ Count("counted") = 0 /\ Count("over") = 0
      /\ Cardinality(Tasks) \in Nat
  BY <1>2, FS_EmptySet, ThresholdAssumption, FS_CardinalityType DEF Count
<1>4. threshold \in 0 .. Scale /\ (threshold # 0 => Cardinality(Tasks) > 1)
  BY <1>3, ThresholdAssumption DEF ThresholdInit, ValidThreshold
<1>5. successes = 0 /\ failures = 0 /\ pending = Cardinality(Tasks) /\ doneClosed = FALSE
  BY DEF ThresholdInit
<1>6. /\ threshold = 0 => toSucceed = 0
      /\ threshold # 0 => toSucceed \in TasksToSuccess(Cardinality(Tasks), threshold)
  BY DEF ThresholdInit
<1>7. toSucceed \in Int /\ (threshold # 0 => toSucceed > 0 /\ pending > 0)
  BY <1>3, <1>4, <1>5, <1>6 DEF TasksToSuccess
<1>8. ToSucceedAtFirst = toSucceed
  BY <1>3, <1>5, <1>7 DEF ToSucceedAtFirst
<1>9. /\ successes + failures = Cardinality(Tasks) - Count("working")
      /\ pending = Cardinality(Tasks) - Count("over")
  BY <1>3, <1>5
<1>10. threshold # 0 => (doneClosed <=> toSucceed <= 0 \/ pending <= 0)
  BY <1>3, <1>5, <1>7
<1>11. QED
  BY <1>1, <1>4, <1>5, <1>6, <1>7, <1>8, <1>9, <1>10 DEF ThresholdInv

\* Every step of the threshold keeps its invariant.
LEMMA ThresholdStep == ThresholdInv /\ [ThresholdNext]_thresholdVars => ThresholdInv'
<1> SUFFICES ASSUME ThresholdInv, [ThresholdNext]_thresholdVars PROVE ThresholdInv'
  OBVIOUS
<1>0. /\ report \in [Tasks -> ReportStates] /\ threshold \in 0 .. Scale
      /\ successes \in Nat /\ failures \in Nat /\ Cardinality(Tasks) \in Nat
      /\ \A s \in ReportStates : Count(s) \in Nat
      /\ Count("working") \in Nat /\ Count("counted") \in Nat /\ Count("over") \in Nat
      /\ successes + failures = Cardinality(Tasks) - Count("working")
      /\ toSucceed \in Int /\ pending = Cardinality(Tasks) - Count("over")
  BY CountsAddUp DEF ThresholdInv, ReportStates
<1>1. pending \in Int
  BY <1>0
<1>2. ASSUME NEW t \in Tasks, SuccessBegin(t) PROVE ThresholdInv'
  <2>1. /\ report' \in [Tasks -> ReportStates]
        /\ Count("working")' = Count("working") - 1 /\ Count("counted")' = Count("counted") + 1
        /\ Count("over")' = Count("over")
    BY <1>0, <1>2, ReportMoves DEF SuccessBegin, ReportStates
  <2>2. /\ successes' = successes + 1 /\ failures' = failures /\ threshold' = threshold /\ threshold # 0
        /\ toSucceed' = toSucceed /\ pending' = pending
    BY <1>2 DEF SuccessBegin
  <2>3. /\ successes' + failures' = Cardinality(Tasks) - Count("working")'
        /\ ToSucceedAtFirst' = ToSucceedAtFirst /\ toSucceed' \in Int
        /\ pending' = Cardinality(Tasks) - Count("over")'
        /\ successes' \in Nat /\ failures' \in Nat
    BY <1>0, <1>1, <2>1, <2>2 DEF ToSucceedAtFirst
  <2>4. doneClosed' = doneClosed
    BY <1>2 DEF SuccessBegin
  <2>5. QED
    BY <2>1, <2>2, <2>3, <2>4 DEF ThresholdInv
<1>3. ASSUME NEW t \in Tasks, SuccessDecide(t) PROVE ThresholdInv'
  <2>0. threshold # 0
    BY <1>3 DEF SuccessDecide, Report, ThresholdInv
  <2>1. /\ report' \in [Tasks -> ReportStates]
        /\ Count("working")' = Count("working") /\ Count("counted")' = Count("counted") - 1
        /\ Count("over")' = Count("over")
    BY <1>0, <1>3, ReportMoves DEF SuccessDecide, ReportStates
  <2>2. /\ successes' = successes /\ failures' = failures /\ threshold' = threshold
        /\ toSucceed' = toSucceed - 1 /\ pending' = pending
    BY <1>3 DEF SuccessDecide
  <2>3. /\ successes' + failures' = Cardinality(Tasks) - Count("working")'
        /\ ToSucceedAtFirst' = ToSucceedAtFirst /\ toSucceed' \in Int
        /\ pending' = Cardinality(Tasks) - Count("over")'
        /\ successes' \in Nat /\ failures' \in Nat
    BY <1>0, <1>1, <2>1, <2>2 DEF ToSucceedAtFirst
  <2>4. toSucceed <= 0 => toSucceed' <= 0
    BY <1>0, <1>1, <2>2
  <2>5. doneClosed' \in BOOLEAN /\ (doneClosed' <=> toSucceed' <= 0 \/ pending' <= 0)
    BY <1>3, <2>0, <2>2, <2>4 DEF SuccessDecide, ThresholdInv
  <2>6. QED
    BY <2>0, <2>1, <2>2, <2>3, <2>5 DEF ThresholdInv
<1>4. ASSUME NEW t \in Tasks, FailureBegin(t) PROVE ThresholdInv'
  <2>1. /\ report' \in [Tasks -> ReportStates]
        /\ Count("working")' = Count("working") - 1 /\ Count("counted")' = Count("counted")
        /\ Count("over")' = Count("over")
    BY <1>0, <1>4, ReportMoves DEF FailureBegin, ReportStates
  <2>2. /\ successes' = successes /\ failures' = failures + 1 /\ threshold' = threshold /\ threshold # 0
        /\ toSucceed' = toSucceed /\ pending' = pending
    BY <1>4 DEF FailureBegin
  <2>3. /\ successes' + failures' = Cardinality(Tasks) - Count("working")'
        /\ ToSucceedAtFirst' = ToSucceedAtFirst /\ toSucceed' \in Int
        /\ pending' = Cardinality(Tasks) - Count("over")'
        /\ successes' \in Nat /\ failures' \in Nat
    <3>1. ToSucceedAtFirst' = ToSucceedAtFirst
      BY <2>1, <2>2 DEF ToSucceedAtFirst
    <3>2. successes' \in Nat /\ failures' \in Nat /\ toSucceed' \in Int
      BY <1>0, <2>2
    <3>3. successes' + failures' = Cardinality(Tasks) - Count("working")'
      BY <1>0, <2>1, <2>2
    <3>4. QED
      BY <1>0, <2>1, <2>2, <3>1, <3>2, <3>3
  <2>4. doneClosed' = doneClosed
    BY <1>4 DEF FailureBegin
  <2>5. QED
    BY <2>1, <2>2, <2>3, <2>4 DEF ThresholdInv
<1>5. ASSUME NEW t \in Tasks, Reported(t) PROVE ThresholdInv'
  <2>0. threshold # 0
    BY <1>5 DEF Reported, Report, ThresholdInv
  <2>1. /\ report' \in [Tasks -> ReportStates]
        /\ Count("working")' = Count("working") /\ Count("counted")' = Count("counted")
        /\ Count("over")' = Count("over") + 1
    BY <1>0, <1>5, ReportMoves DEF Reported, ReportStates
  <2>2. /\ successes' = successes /\ failures' = failures /\ threshold' = threshold
        /\ toSucceed' = toSucceed /\ pending' = pending - 1
    BY <1>5 DEF Reported
  <2>3. /\ successes' + failures' = Cardinality(Tasks) - Count("working")'
        /\ ToSucceedAtFirst' = ToSucceedAtFirst /\ toSucceed' \in Int
        /\ pending' = Cardinality(Tasks) - Count("over")'
        /\ successes' \in Nat /\ failures' \in Nat
    BY <1>0, <1>1, <2>1, <2>2 DEF ToSucceedAtFirst
  <2>4. pending <= 0 => pending' <= 0
    BY <1>0, <1>1, <2>2
  <2>5. doneClosed' \in BOOLEAN /\ (doneClosed' <=> toSucceed' <= 0 \/ pending' <= 0)
    BY <1>5, <2>0, <2>2, <2>4 DEF Reported, ThresholdInv
  <2>6. QED
    BY <2>0, <2>1, <2>2, <2>3, <2>5 DEF ThresholdInv
<1>6. ASSUME UNCHANGED <<threshold, toSucceed, pending, successes, failures, doneClosed, report>>
      PROVE  ThresholdInv'
  BY <1>6 DEF ThresholdInv, Count, Reports, ToSucceedAtFirst
<1>7. QED
  BY <1>2, <1>3, <1>4, <1>5, <1>6 DEF ThresholdNext, ThresholdWait, ThresholdReturn, thresholdVars

\* Multiplying by a positive number keeps the order.
LEMMA MoreIsMore == \A a, b \in Int, k \in Nat : a >= b => a * k >= b * k
<1> SUFFICES ASSUME NEW a \in Int, NEW b \in Int, NEW k \in Nat, a >= b PROVE a * k >= b * k
  OBVIOUS
<1>1. (a - b) * k >= 0
  <2>1. a - b \in Nat
    OBVIOUS
  <2>2. \A m, l \in Nat : m * l >= 0
    OBVIOUS
  <2>3. QED
    BY <2>1, <2>2
<1>2. (a - b) * k = a * k - b * k
  OBVIOUS
<1>3. QED
  BY <1>1, <1>2

\* The counters are right, so the done channel is: what closed it is the outcome, and the
\* outcome has closed it.
LEMMA ThresholdPromise == ThresholdInv => DoneMeansDecided
<1> SUFFICES ASSUME ThresholdInv, threshold # 0
             PROVE  /\ doneClosed => Enough(successes) \/ successes + failures = Cardinality(Tasks)
                    /\ Count("over") = Cardinality(Tasks) \/ SurelyEnough(Count("over") - failures) => doneClosed
  BY DEF DoneMeansDecided, Count, Reports
<1> DEFINE n == Cardinality(Tasks)
<1>1. /\ n \in Nat /\ n > 1 /\ threshold \in 1 .. Scale /\ successes \in Nat /\ failures \in Nat
      /\ Count("working") \in Nat /\ Count("counted") \in Nat /\ Count("pending") \in Nat /\ Count("over") \in Nat
      /\ Count("working") + Count("counted") + Count("pending") + Count("over") = n
      /\ successes + failures = n - Count("working")
      /\ toSucceed \in Int /\ pending = n - Count("over")
  BY CountsAddUp DEF ThresholdInv, ReportStates
<1>2. doneClosed <=> toSucceed <= 0 \/ pending <= 0
  BY DEF ThresholdInv
<1> DEFINE first == ToSucceedAtFirst
<1>3. first \in 1 .. n
  BY <1>1 DEF ThresholdInv, TasksToSuccess
<1>4. PICK x \in Products(n, threshold) : (first - 1) * Scale < x /\ (x <= first * Scale \/ first = n)
  BY DEF ThresholdInv, TasksToSuccess
<1>5. Share \in Int /\ x \in Int /\ Share - RoundErr <= x /\ x <= Share + RoundErr
  <2>1. n * threshold = Share /\ Share \in Int
    BY <1>1 DEF Share
  <2>2. QED
    BY <1>4, <2>1, ThresholdAssumption DEF Products
<1>6. first = toSucceed + (successes - Count("counted"))
  BY DEF ToSucceedAtFirst
<1> HIDE DEF first, n
<1>7. ASSUME doneClosed PROVE Enough(successes) \/ successes + failures = n
  <2>1. CASE toSucceed <= 0
    <3>1. successes >= first
      BY <1>1, <1>6, <2>1
    <3>2. CASE first = n
      BY <1>1, <3>1, <3>2
    <3>3. CASE x <= first * Scale
      <4>1. successes * Scale >= first * Scale
        BY <1>1, <1>3, <3>1, ThresholdAssumption, MoreIsMore
      <4>2. successes * Scale \in Int /\ first * Scale \in Int
        BY <1>1, <1>3, ThresholdAssumption
      <4>3. successes * Scale >= Share - RoundErr
        <5> DEFINE a == successes * Scale
                   b == first * Scale
        <5>1. a \in Int /\ b \in Int /\ a >= b /\ x <= b
          BY <3>3, <4>1, <4>2
        <5> HIDE DEF a, b
        <5>2. a >= Share - RoundErr
          BY <1>5, <5>1, ThresholdAssumption
        <5>3. QED
          BY <5>2 DEF a
      <4>4. QED
        BY <4>3 DEF Enough
    <3>4. QED
      BY <1>4, <3>2, <3>3
  <2>2. CASE pending <= 0
    BY <1>1, <2>2
  <2>3. QED
    BY <1>2, <1>7, <2>1, <2>2
<1>8. ASSUME Count("over") = n PROVE doneClosed
  <2>1. pending <= 0
    BY <1>1, <1>8
  <2>2. QED
    BY <1>2, <2>1
<1>9. ASSUME SurelyEnough(Count("over") - failures) PROVE doneClosed
  <2> DEFINE m == Count("over") - failures
  <2>1. m \in Int /\ m * Scale >= Share + RoundErr
    BY <1>1, <1>9 DEF SurelyEnough
  <2> HIDE DEF m
  <2>2. m >= first
    <3> SUFFICES ASSUME ~(m >= first) PROVE FALSE
      OBVIOUS
    <3>1. first - 1 >= m /\ first - 1 \in Int
      BY <1>3, <2>1
    <3>2. (first - 1) * Scale >= m * Scale
      BY <2>1, <3>1, ThresholdAssumption, MoreIsMore
    <3> DEFINE a == (first - 1) * Scale
               b == m * Scale
    <3>3. a \in Int /\ b \in Int /\ a >= b /\ a < x /\ b >= Share + RoundErr
      BY <1>4, <2>1, <3>1, <3>2, ThresholdAssumption
    <3> HIDE DEF a, b
    <3>4. QED
      BY <1>5, <3>3, ThresholdAssumption
  <2>3. toSucceed <= 0
    BY <1>1, <1>6, <2>2 DEF m
  <2>4. QED
    BY <1>2, <2>3
<1>10. QED
  BY <1>7, <1>8, <1>9 DEF n

------------------------------------------------------------------------------
(* Limiter and Semaphore. *)

Holding == {c \in Callers : fn[c] \in {"slot", "running"}}
Working == {c \in Callers : fn[c] \in {"running", "released"}}
Held == {l \in Lockers : lock[l] = "held"}

\* A slot is held from the send into the channel to the receive from it, and the wait
\* group counts from Add to Done: not the same functions, which is why both are needed.
\* A function that Wait covers is past its Add.
LimiterInv ==
  /\ fn \in [Callers -> {"idle", "go", "slot", "running", "released", "over", "refused"}]
  /\ lwait \in {"idle", "waiting", "returned"}
  /\ IsFiniteSet(Holding) /\ limit = Cardinality(Holding) /\ limit <= Slots
  /\ IsFiniteSet(Working) /\ working = Cardinality(Working)
  /\ covered \subseteq {c \in Callers : fn[c] \notin {"idle", "go", "slot"}}
  /\ LimiterWaitCovers

\* The semaphore counts the lockers that hold it, also when a slot is passed on.
SemaphoreInv ==
  /\ lock \in [Lockers -> {"idle", "queued", "held", "refused"}]
  /\ IsFiniteSet(Held) /\ semaHeld = Cardinality(Held) /\ semaHeld <= Slots

\* New ones have it.
LEMMA LimiterStart == LimiterInit => LimiterInv /\ SemaphoreInv
<1> SUFFICES ASSUME LimiterInit PROVE LimiterInv /\ SemaphoreInv
  OBVIOUS
<1>1. Holding = {} /\ Working = {} /\ Held = {}
  BY DEF LimiterInit, Holding, Working, Held
<1>2. IsFiniteSet({}) /\ Cardinality({}) = 0 /\ 0 <= Slots
  BY FS_EmptySet, LimiterAssumption
<1>3. LimiterInv
  BY <1>1, <1>2 DEF LimiterInit, LimiterInv, LimiterWaitCovers
<1>4. SemaphoreInv
  BY <1>1, <1>2 DEF LimiterInit, SemaphoreInv
<1>5. QED
  BY <1>3, <1>4

\* Every step of the limiter keeps its invariant.
LEMMA LimiterStep == LimiterInv /\ [LimiterNext]_limiterVars => LimiterInv'
<1> SUFFICES ASSUME LimiterInv, [LimiterNext]_limiterVars PROVE LimiterInv'
  OBVIOUS
<1> USE LimiterAssumption
<1>0. /\ IsFiniteSet(Holding) /\ limit = Cardinality(Holding) /\ limit \in Nat /\ limit <= Slots
      /\ IsFiniteSet(Working) /\ working = Cardinality(Working) /\ working \in Nat
      /\ working = 0 <=> Working = {}
  BY FS_CardinalityType, FS_EmptySet DEF LimiterInv
<1>1. ASSUME NEW c \in Callers, LimiterGo(c) \/ LimiterCancelled(c) PROVE LimiterInv'
  <2>1. Holding' = Holding /\ Working' = Working
    BY <1>1 DEF LimiterGo, LimiterCancelled, FnStep, Holding, Working, LimiterInv
  <2>2. QED
    BY <1>1, <2>1 DEF LimiterGo, LimiterCancelled, FnStep, LimiterInv, LimiterWaitCovers
<1>2. ASSUME NEW c \in Callers, AcquireSlot(c) PROVE LimiterInv'
  <2>1. Holding' = Holding \cup {c} /\ c \notin Holding /\ Working' = Working
    BY <1>2 DEF AcquireSlot, FnStep, Holding, Working, LimiterInv
  <2>2. IsFiniteSet(Holding') /\ Cardinality(Holding') = limit'
    BY <1>0, <1>2, <2>1, FS_AddElement DEF AcquireSlot
  <2>3. limit' <= Slots
    BY <1>0, <1>2 DEF AcquireSlot
  <2>4. QED
    BY <1>2, <2>1, <2>2, <2>3 DEF AcquireSlot, FnStep, LimiterInv, LimiterWaitCovers
<1>3. ASSUME NEW c \in Callers, AddAndGo(c) PROVE LimiterInv'
  <2>1. Holding' = Holding /\ Working' = Working \cup {c} /\ c \notin Working
    BY <1>3 DEF AddAndGo, FnStep, Holding, Working, LimiterInv
  <2>2. IsFiniteSet(Working') /\ Cardinality(Working') = working'
    BY <1>0, <1>3, <2>1, FS_AddElement DEF AddAndGo
  <2>3. QED
    BY <1>3, <2>1, <2>2 DEF AddAndGo, FnStep, LimiterInv, LimiterWaitCovers
<1>4. ASSUME NEW c \in Callers, ReleaseSlot(c) PROVE LimiterInv'
  <2>1. Holding' = Holding \ {c} /\ c \in Holding /\ Working' = Working
    BY <1>4 DEF ReleaseSlot, FnStep, Holding, Working, LimiterInv
  <2>2. IsFiniteSet(Holding') /\ Cardinality(Holding') = limit'
    BY <1>0, <1>4, <2>1, FS_RemoveElement DEF ReleaseSlot
  <2>3. limit' <= Slots
    BY <1>0, <1>4 DEF ReleaseSlot
  <2>4. QED
    BY <1>4, <2>1, <2>2, <2>3 DEF ReleaseSlot, FnStep, LimiterInv, LimiterWaitCovers
<1>5. ASSUME NEW c \in Callers, WorkingDone(c) PROVE LimiterInv'
  <2>1. Holding' = Holding /\ Working' = Working \ {c} /\ c \in Working
    BY <1>5 DEF WorkingDone, FnStep, Holding, Working, LimiterInv
  <2>2. IsFiniteSet(Working') /\ Cardinality(Working') = working'
    BY <1>0, <1>5, <2>1, FS_RemoveElement DEF WorkingDone
  <2>3. QED
    BY <1>5, <2>1, <2>2 DEF WorkingDone, FnStep, LimiterInv, LimiterWaitCovers
<1>6. CASE LimiterWait
  <2>1. Holding' = Holding /\ Working' = Working
    BY <1>6 DEF LimiterWait, Holding, Working
  <2>2. QED
    BY <1>6, <2>1 DEF LimiterWait, LimiterInv, LimiterWaitCovers
<1>7. CASE LimiterWaitReturns
  <2>1. Holding' = Holding /\ Working' = Working /\ Working = {}
    BY <1>0, <1>7 DEF LimiterWaitReturns, Holding, Working
  <2>2. QED
    BY <1>7, <2>1 DEF LimiterWaitReturns, LimiterInv, LimiterWaitCovers, Working
<1>8. CASE UNCHANGED limiterVars
  BY <1>8 DEF limiterVars, LimiterInv, LimiterWaitCovers, Holding, Working
<1>9. QED
  BY <1>1, <1>2, <1>3, <1>4, <1>5, <1>6, <1>7, <1>8 DEF LimiterNext

\* Every step of the semaphore keeps its invariant.
LEMMA SemaphoreStep == SemaphoreInv /\ [SemaphoreNext]_semaVars => SemaphoreInv'
<1> SUFFICES ASSUME SemaphoreInv, [SemaphoreNext]_semaVars PROVE SemaphoreInv'
  OBVIOUS
<1> USE LimiterAssumption
<1>0. IsFiniteSet(Held) /\ semaHeld = Cardinality(Held) /\ semaHeld \in Nat /\ semaHeld <= Slots
  BY FS_CardinalityType DEF SemaphoreInv
<1>1. ASSUME NEW l \in Lockers, Lock(l) PROVE SemaphoreInv'
  <2>1. CASE semaHeld < Slots /\ Queue = {}
    <3>1. Held' = Held \cup {l} /\ l \notin Held
      BY <1>1, <2>1 DEF Lock, Held, SemaphoreInv
    <3>2. IsFiniteSet(Held') /\ Cardinality(Held') = semaHeld' /\ semaHeld' <= Slots
      BY <1>0, <1>1, <2>1, <3>1, FS_AddElement DEF Lock
    <3>3. QED
      BY <1>1, <2>1, <3>2 DEF Lock, SemaphoreInv
  <2>2. CASE ~(semaHeld < Slots /\ Queue = {})
    <3>1. Held' = Held
      BY <1>1, <2>2 DEF Lock, Held, SemaphoreInv
    <3>2. QED
      BY <1>1, <2>2, <3>1 DEF Lock, SemaphoreInv
  <2>3. QED
    BY <2>1, <2>2
<1>2. ASSUME NEW l \in Lockers, Unlock(l) PROVE SemaphoreInv'
  <2>1. CASE Queue = {}
    <3>1. Held' = Held \ {l} /\ l \in Held
      BY <1>2, <2>1 DEF Unlock, Held, SemaphoreInv
    <3>2. IsFiniteSet(Held') /\ Cardinality(Held') = semaHeld' /\ semaHeld' <= Slots
      BY <1>0, <1>2, <2>1, <3>1, FS_RemoveElement DEF Unlock
    <3>3. QED
      BY <1>2, <2>1, <3>2 DEF Unlock, SemaphoreInv
  <2>2. CASE Queue # {}
    <3>1. PICK q \in Queue : lock' = [lock EXCEPT ![l] = "idle", ![q] = "held"] /\ semaHeld' = semaHeld
      BY <1>2, <2>2 DEF Unlock
    <3>2. /\ Held' = (Held \ {l}) \cup {q}
          /\ l \in Held /\ q \notin Held \ {l}
      BY <1>2, <3>1 DEF Unlock, Held, Queue, SemaphoreInv
    <3>3. IsFiniteSet(Held \ {l}) /\ Cardinality(Held \ {l}) = semaHeld - 1
      BY <1>0, <3>2, FS_RemoveElement
    <3>4. IsFiniteSet(Held') /\ Cardinality(Held') = semaHeld - 1 + 1
      BY <3>2, <3>3, FS_AddElement
    <3>5. lock' \in [Lockers -> {"idle", "queued", "held", "refused"}]
      BY <3>1 DEF SemaphoreInv
    <3>6. QED
      BY <1>0, <3>1, <3>4, <3>5 DEF SemaphoreInv
  <2>3. QED
    BY <2>1, <2>2
<1>3. ASSUME NEW l \in Lockers, LockRefused(l) PROVE SemaphoreInv'
  <2>1. Held' = Held
    BY <1>3 DEF LockRefused, Held, SemaphoreInv
  <2>2. QED
    BY <1>3, <2>1 DEF LockRefused, SemaphoreInv
<1>4. CASE SemaphoreClose \/ UNCHANGED semaVars
  BY <1>4 DEF SemaphoreClose, semaVars, SemaphoreInv, Held
<1>5. QED
  BY <1>1, <1>2, <1>3, <1>4 DEF SemaphoreNext

\* So neither exceeds its size.
LEMMA LimiterPromise == LimiterInv /\ SemaphoreInv => LimitKept /\ LimiterWaitCovers
<1> SUFFICES ASSUME LimiterInv, SemaphoreInv PROVE LimitKept
  BY DEF LimiterInv
<1> DEFINE runningNow == {c \in Callers : fn[c] = "running"}
<1>1. runningNow \subseteq Holding
  BY DEF Holding
<1>2. Cardinality(runningNow) <= Cardinality(Holding) /\ Cardinality(runningNow) \in Nat /\ Cardinality(Holding) \in Nat
  BY <1>1, FS_Subset, FS_CardinalityType DEF LimiterInv
<1>3. QED
  BY <1>2, LimiterAssumption DEF LimitKept, LimiterInv, SemaphoreInv, Held

------------------------------------------------------------------------------
(* Cooldown. *)

StoppedForGood == \E s \in Stoppers \ early : StopReturned(s)

\* A trigger of the interval is in the channel only until the drain at its end, and a
\* Stop that has returned and was not early has seen Run end, or the channel closed before
\* Run began. A Stop waits only for a Run that was called.
CooldownInv ==
  /\ cloop \in {"none", "started", "check", "select", "fn", "sleep", "drain", "stopped"}
  /\ trigger \in {"empty", "cold", "hot", "closed"}
  /\ cstop \in [Stoppers -> {"idle", "close", "load", "wait", "returned", "closing", "closed"}]
  /\ runexec \in BOOLEAN /\ cstopping \in BOOLEAN
  /\ runexec <=> cloop # "none"
  /\ \A s \in Stoppers : cstop[s] = "wait" => runexec
  /\ StoppedForGood => cstopping \/ cloop = "stopped"
  /\ StoppedForGood => cloop \in {"none", "started", "check", "stopped"}
  /\ trigger = "hot" => cloop \in {"fn", "sleep", "drain", "stopped"}
  /\ firedHot = FALSE

\* A new cooldown has it.
LEMMA CooldownBegins == CooldownInit => CooldownInv
BY DEF CooldownInit, CooldownInv, StoppedForGood, StopReturned

\* Every step of the cooldown keeps its invariant.
LEMMA CooldownStep == CooldownInv /\ [CooldownNext]_cooldownVars => CooldownInv'
<1> SUFFICES ASSUME CooldownInv, [CooldownNext]_cooldownVars PROVE CooldownInv'
  OBVIOUS
<1> USE DEF Loop, cstopVars
<1>1. CASE CooldownStart
  BY <1>1 DEF CooldownInv, StoppedForGood, StopReturned, CooldownStart
<1>2. CASE CooldownRun
  BY <1>2 DEF CooldownInv, StoppedForGood, StopReturned, CooldownRun
<1>3. CASE CooldownCheck
  BY <1>3 DEF CooldownInv, StoppedForGood, StopReturned, CooldownCheck
<1>4. CASE CooldownSelect
  BY <1>4 DEF CooldownInv, StoppedForGood, StopReturned, CooldownSelect, Received
<1>5. CASE FnReturns
  BY <1>5 DEF CooldownInv, StoppedForGood, StopReturned, FnReturns
<1>6. CASE CooldownSleep
  BY <1>6 DEF CooldownInv, StoppedForGood, StopReturned, CooldownSleep
<1>7. CASE Drain
  BY <1>7 DEF CooldownInv, StoppedForGood, StopReturned, Drain, Received
<1>8. CASE Trigger
  BY <1>8 DEF CooldownInv, StoppedForGood, StopReturned, Trigger
<1>9. CASE CooldownCancel
  BY <1>9 DEF CooldownInv, StoppedForGood, StopReturned, CooldownCancel
<1>10. ASSUME NEW s \in Stoppers, StopSend(s) PROVE CooldownInv'
  BY <1>10 DEF CooldownInv, StoppedForGood, StopReturned, StopSend
<1>10a. ASSUME NEW s \in Stoppers, StopClose(s) PROVE CooldownInv'
  BY <1>10a DEF CooldownInv, StoppedForGood, StopReturned, StopClose
<1>11. ASSUME NEW s \in Stoppers, StopLoad(s) PROVE CooldownInv'
  BY <1>11 DEF CooldownInv, StoppedForGood, StopReturned, StopLoad
<1>12. ASSUME NEW s \in Stoppers, StopWait(s) PROVE CooldownInv'
  BY <1>12 DEF CooldownInv, StoppedForGood, StopReturned, StopWait
<1>13. ASSUME NEW s \in Stoppers, CloseLoad(s) PROVE CooldownInv'
  BY <1>13 DEF CooldownInv, StoppedForGood, StopReturned, CloseLoad
<1>14. ASSUME NEW s \in Stoppers, CloseTrigger(s) PROVE CooldownInv'
  BY <1>14 DEF CooldownInv, StoppedForGood, StopReturned, CloseTrigger
<1>15. CASE UNCHANGED cooldownVars
  BY <1>15 DEF CooldownInv, StoppedForGood, StopReturned, cooldownVars
<1>16. QED
  BY <1>1, <1>2, <1>3, <1>4, <1>5, <1>6, <1>7, <1>8, <1>9, <1>10, <1>10a, <1>11, <1>12, <1>13, <1>14, <1>15
  DEF CooldownNext, CooldownLoop

\* So no trigger of the interval causes a run, and no run follows a Stop that has returned.
LEMMA CooldownPromise == CooldownInv => CooldownHolds
BY DEF CooldownInv, CooldownHolds, StoppedForGood, StopReturned

------------------------------------------------------------------------------
(* CustomCancel. *)

\* Once Err has stored an error, or cancel was given one, it stays: everything that was
\* returned is it.
CancelInv ==
  /\ observe \in [Observers -> {"idle", "done", "stored"}]
  /\ seen \subseteq {custom} \ {"nil"}
  /\ \A o \in Observers : /\ observe[o] = "done" => inner # "nil"
                          /\ observe[o] = "stored" => custom # "nil"

\* A new context has it.
LEMMA CancelStart == CancelInit => CancelInv
BY DEF CancelInit, CancelInv

\* Every step of the context keeps its invariant.
LEMMA CancelStep == CancelInv /\ [CancelNext]_cancelVars => CancelInv'
<1> SUFFICES ASSUME CancelInv, [CancelNext]_cancelVars PROVE CancelInv'
  OBVIOUS
<1>1. ASSUME NEW c \in Cancellers, NEW err \in {"nil", "first", "second"}, Cancel(c, err) PROVE CancelInv'
  BY <1>1 DEF Cancel, CancelInv
<1>2. ASSUME NEW o \in Observers, ErrInner(o) PROVE CancelInv'
  BY <1>2 DEF ErrInner, CancelInv
<1>3. ASSUME NEW o \in Observers, ErrStore(o) PROVE CancelInv'
  BY <1>3 DEF ErrStore, CancelInv
<1>4. ASSUME NEW o \in Observers, ErrReturn(o) PROVE CancelInv'
  BY <1>4 DEF ErrReturn, CancelInv
<1>5. CASE ParentCancel \/ CopyRead \/ CopyEof \/ UNCHANGED cancelVars
  BY <1>5 DEF ParentCancel, CopyRead, CopyEof, cancelVars, CancelInv
<1>6. QED
  BY <1>1, <1>2, <1>3, <1>4, <1>5 DEF CancelNext

\* So there is one error.
LEMMA CancelPromise == CancelInv => OneError
<1> SUFFICES ASSUME CancelInv PROVE OneError
  OBVIOUS
<1>1. IsFiniteSet({custom}) /\ Cardinality({custom}) = 1
  BY FS_Singleton
<1>2. seen \subseteq {custom} /\ "nil" \notin seen
  BY DEF CancelInv
<1>3. Cardinality(seen) <= 1
  BY <1>1, <1>2, FS_Subset
<1>4. QED
  BY <1>2, <1>3 DEF OneError

------------------------------------------------------------------------------
(* TaskGroup. *)

Open == {f \in GroupFns : gfn[f] \in {"running", "failed", "locked"}}

\* The wait group counts the functions that have not called Done.
RunGroupInv ==
  /\ gfn \in [GroupFns -> {"new", "running", "failed", "locked", "over"}]
  /\ IsFiniteSet(Open) /\ gcount = Cardinality(Open)
  /\ gresult \in {"none", "errors"}
  /\ gresult = "errors" => \A f \in GroupFns : gfn[f] = "over"

TimeoutInv == work = "returned" => timer = "exited"

\* The number of the error that discardNil takes next.
NextErr == Len(collected) + 1 + IF discard = 0 THEN 0 ELSE 1

\* The errors sent are, in this order, the collected ones, the one that discardNil
\* holds, and the ones in the channel.
CollectInv ==
  /\ errsent \in Nat /\ discard \in Nat /\ errch \in Seq(Nat) /\ collected \in Seq(Nat)
  /\ \A i \in 1 .. Len(collected) : collected[i] = i
  /\ discard # 0 => discard = Len(collected) + 1
  /\ NextErr <= errsent + 1
  /\ \A i \in 1 .. Len(errch) : errch[i] = 0 \/ errch[i] \in NextErr .. errsent
  /\ \A i, j \in 1 .. Len(errch) : i < j /\ errch[i] # 0 /\ errch[j] # 0 => errch[i] < errch[j]
  /\ \A e \in NextErr .. errsent : \E i \in 1 .. Len(errch) : errch[i] = e

FenceInv ==
  /\ fwait \in [FenceWaiters -> {"idle", "select", "true", "false"}]
  /\ \A g \in FenceWaiters : fwait[g] = "true" => released = TRUE

TaskInv == RunGroupInv /\ TimeoutInv /\ CollectInv /\ FenceInv

\* All of them have it at first.
LEMMA TaskStart == TaskInit => TaskInv
<1> SUFFICES ASSUME TaskInit PROVE TaskInv
  OBVIOUS
<1>1. Open = {}
  BY DEF TaskInit, Open
<1>2. RunGroupInv
  BY <1>1, FS_EmptySet DEF TaskInit, RunGroupInv
<1>3. TimeoutInv
  BY DEF TaskInit, TimeoutInv
<1>4. errch = <<>> /\ collected = <<>> /\ errsent = 0 /\ discard = 0
  BY DEF TaskInit
<1>5. CollectInv
  <2>1. Len(collected) = 0 /\ Len(errch) = 0 /\ NextErr = 1 /\ 1 .. 0 = {}
    BY <1>4 DEF NextErr
  <2>2. errch \in Seq(Nat) /\ collected \in Seq(Nat)
    BY <1>4
  <2>3. QED
    BY <1>4, <2>1, <2>2 DEF CollectInv
<1>6. FenceInv
  BY DEF TaskInit, FenceInv
<1>7. QED
  BY <1>2, <1>3, <1>5, <1>6 DEF TaskInv

\* Every step of an errs2.Group keeps its invariant.
LEMMA RunGroupStep == RunGroupInv /\ [RunGroupNext]_runGroupVars => RunGroupInv'
<1> SUFFICES ASSUME RunGroupInv, [RunGroupNext]_runGroupVars PROVE RunGroupInv'
  OBVIOUS
<1>0. IsFiniteSet(Open) /\ gcount = Cardinality(Open) /\ gcount \in Nat /\ (gcount = 0 <=> Open = {})
  BY FS_CardinalityType, FS_EmptySet DEF RunGroupInv
<1>1. ASSUME NEW f \in GroupFns, GroupGo(f) PROVE RunGroupInv'
  <2>1. Open' = Open \cup {f} /\ f \notin Open
    BY <1>1 DEF GroupGo, Fn, Open, RunGroupInv
  <2>2. IsFiniteSet(Open') /\ Cardinality(Open') = gcount'
    BY <1>0, <1>1, <2>1, FS_AddElement DEF GroupGo
  <2>3. QED
    BY <1>1, <2>2 DEF GroupGo, Fn, RunGroupInv
<1>2. ASSUME NEW f \in GroupFns, FnFails(f) \/ FnAppends(f) PROVE RunGroupInv'
  <2>1. Open' = Open
    BY <1>2 DEF FnFails, FnAppends, Fn, Open, RunGroupInv
  <2>2. QED
    BY <1>2, <2>1 DEF FnFails, FnAppends, Fn, RunGroupInv
<1>3. ASSUME NEW f \in GroupFns, FnOk(f) \/ FnDone(f) PROVE RunGroupInv'
  <2>1. Open' = Open \ {f} /\ f \in Open
    BY <1>3 DEF FnOk, FnDone, Fn, Open, RunGroupInv
  <2>2. IsFiniteSet(Open') /\ Cardinality(Open') = gcount'
    BY <1>0, <1>3, <2>1, FS_RemoveElement DEF FnOk, FnDone
  <2>3. QED
    BY <1>3, <2>2 DEF FnOk, FnDone, Fn, RunGroupInv
<1>4. CASE GroupWait
  <2>1. Open' = Open /\ Open = {}
    BY <1>0, <1>4 DEF GroupWait, Open
  <2>2. \A f \in GroupFns : gfn[f] = "over"
    BY <1>4, <2>1 DEF GroupWait, Open, RunGroupInv
  <2>3. QED
    BY <1>4, <2>1, <2>2 DEF GroupWait, RunGroupInv
<1>5. CASE UNCHANGED runGroupVars
  BY <1>5 DEF runGroupVars, RunGroupInv, Open
<1>6. QED
  BY <1>1, <1>2, <1>3, <1>4, <1>5 DEF RunGroupNext

\* Every step of a WithTimeout keeps its invariant.
LEMMA TimeoutStep == TimeoutInv /\ [TimeoutNext]_timeoutVars => TimeoutInv'
BY DEF TimeoutInv, TimeoutNext, timeoutVars, WithTimeout, WorkReturns, TimerSelect, OnTimeoutReturns, TimeoutReturns

\* Every step of a Collect keeps its invariant.
LEMMA CollectStep == CollectInv /\ [CollectNext]_collectVars => CollectInv'
<1> SUFFICES ASSUME CollectInv, [CollectNext]_collectVars PROVE CollectInv'
  OBVIOUS
<1>0. /\ errsent \in Nat /\ discard \in Nat /\ errch \in Seq(Nat) /\ collected \in Seq(Nat)
      /\ Len(errch) \in Nat /\ Len(collected) \in Nat /\ NextErr \in Nat
  BY DEF CollectInv, NextErr
<1>1. ASSUME NEW e \in 0 .. MaxErrs, SendErr(e) PROVE CollectInv'
  <2>0. /\ e \in {0, errsent + 1}
        /\ errch' = Append(errch, e) /\ errsent' = errsent + (IF e = 0 THEN 0 ELSE 1)
        /\ collected' = collected /\ discard' = discard
    BY <1>1 DEF SendErr
  <2>1. /\ e \in Nat /\ (e = 0 \/ e = errsent + 1) /\ errsent + 1 # 0
        /\ errch' = Append(errch, e) /\ errsent' = errsent + (IF e = 0 THEN 0 ELSE 1)
        /\ collected' = collected /\ discard' = discard /\ NextErr' = NextErr
    BY <1>0, <2>0 DEF NextErr
  <2>2. /\ errch' \in Seq(Nat) /\ Len(errch') = Len(errch) + 1 /\ errch'[Len(errch')] = e
        /\ \A i \in 1 .. Len(errch) : errch'[i] = errch[i]
        /\ errsent' \in Nat /\ errsent' >= errsent
    BY <1>0, <2>1
  <2>3. \A i \in 1 .. Len(errch') : errch'[i] = 0 \/ errch'[i] \in NextErr .. errsent'
    BY <1>0, <2>1, <2>2 DEF CollectInv
  <2>4. ASSUME NEW i \in 1 .. Len(errch'), NEW j \in 1 .. Len(errch'), i < j, errch'[i] # 0, errch'[j] # 0
        PROVE  errch'[i] < errch'[j]
    <3>1. i \in 1 .. Len(errch) /\ errch'[i] = errch[i] /\ errch[i] \in NextErr .. errsent
      BY <1>0, <2>2, <2>4, SMTT(30) DEF CollectInv
    <3>2. CASE j \in 1 .. Len(errch)
      BY <2>2, <2>4, <3>1, <3>2 DEF CollectInv
    <3>3. CASE j = Len(errch')
      BY <1>0, <2>1, <2>2, <2>4, <3>1, <3>3
    <3>4. QED
      BY <1>0, <2>2, <3>2, <3>3
  <2>5. ASSUME NEW d \in NextErr .. errsent' PROVE \E i \in 1 .. Len(errch') : errch'[i] = d
    <3>1. CASE d \in NextErr .. errsent
      <4>1. PICK i \in 1 .. Len(errch) : errch[i] = d
        BY <3>1 DEF CollectInv
      <4>2. i \in 1 .. Len(errch') /\ errch'[i] = d
        BY <1>0, <2>2, <4>1, SMTT(30)
      <4>3. QED
        BY <4>2
    <3>2. CASE d = errsent + 1 /\ e # 0
      <4>1. Len(errch') \in 1 .. Len(errch') /\ errch'[Len(errch')] = d
        BY <1>0, <2>1, <2>2, <3>2
      <4>2. QED
        BY <4>1
    <3>3. QED
      BY <1>0, <2>1, <3>1, <3>2
  <2>6. NextErr <= errsent' + 1
    BY <1>0, <2>1, <2>2 DEF CollectInv
  <2>7. QED
    BY <1>0, <2>1, <2>2, <2>3, <2>4, <2>5, <2>6 DEF CollectInv
<1>2. CASE DiscardNil
  <2>1. /\ discard = 0 /\ errch # <<>> /\ discard' = Head(errch) /\ errch' = Tail(errch)
        /\ errsent' = errsent /\ collected' = collected
    BY <1>2 DEF DiscardNil
  <2>2. /\ Len(errch) > 0 /\ Head(errch) = errch[1] /\ errch[1] \in Nat
        /\ Tail(errch) \in Seq(Nat) /\ Len(Tail(errch)) = Len(errch) - 1
        /\ \A i \in 1 .. Len(Tail(errch)) : Tail(errch)[i] = errch[i + 1]
    BY <1>0, <2>1
  <2>3. NextErr = Len(collected) + 1
    BY <2>1 DEF NextErr
  \* The first error in the channel is the next one.
  <2>4. errch[1] # 0 => errch[1] = NextErr
    <3> SUFFICES ASSUME errch[1] # 0 PROVE errch[1] = NextErr
      OBVIOUS
    <3>1. errch[1] \in NextErr .. errsent
      BY <1>0, <2>2 DEF CollectInv
    <3>2. PICK i \in 1 .. Len(errch) : errch[i] = NextErr
      BY <1>0, <3>1 DEF CollectInv
    <3>3. i # 1 => errch[1] < errch[i]
      BY <1>0, <2>2, <2>3, <3>2 DEF CollectInv
    <3>4. QED
      BY <1>0, <3>1, <3>2, <3>3
  <2>5. /\ NextErr' = IF errch[1] = 0 THEN NextErr ELSE NextErr + 1
        /\ discard' # 0 => discard' = Len(collected) + 1
    BY <1>0, <2>1, <2>2, <2>3, <2>4 DEF NextErr
  <2>6. \A i \in 1 .. Len(errch') : errch'[i] = 0 \/ errch'[i] \in NextErr' .. errsent
    <3> SUFFICES ASSUME NEW i \in 1 .. Len(errch'), errch'[i] # 0 PROVE errch'[i] \in NextErr' .. errsent
      OBVIOUS
    <3>1. i + 1 \in 1 .. Len(errch) /\ errch'[i] = errch[i + 1] /\ 1 \in 1 .. Len(errch) /\ 1 < i + 1
      BY <1>0, <2>1, <2>2
    <3>2. errch[i + 1] \in NextErr .. errsent /\ (errch[1] # 0 => errch[1] < errch[i + 1])
      BY <3>1 DEF CollectInv
    <3>3. QED
      BY <1>0, <2>2, <2>4, <2>5, <3>1, <3>2
  <2>7. \A i, j \in 1 .. Len(errch') : i < j /\ errch'[i] # 0 /\ errch'[j] # 0 => errch'[i] < errch'[j]
    <3> SUFFICES ASSUME NEW i \in 1 .. Len(errch'), NEW j \in 1 .. Len(errch'), i < j, errch'[i] # 0, errch'[j] # 0
                 PROVE  errch'[i] < errch'[j]
      OBVIOUS
    <3>1. /\ i + 1 \in 1 .. Len(errch) /\ errch'[i] = errch[i + 1]
          /\ j + 1 \in 1 .. Len(errch) /\ errch'[j] = errch[j + 1] /\ i + 1 < j + 1
      BY <1>0, <2>1, <2>2
    <3>2. QED
      BY <3>1 DEF CollectInv
  <2>8. \A e \in NextErr' .. errsent : \E i \in 1 .. Len(errch') : errch'[i] = e
    <3> SUFFICES ASSUME NEW e \in NextErr' .. errsent PROVE \E i \in 1 .. Len(errch') : errch'[i] = e
      OBVIOUS
    <3>1. e \in NextErr .. errsent /\ e # errch[1]
      BY <1>0, <2>2, <2>3, <2>4, <2>5
    <3>2. PICK i \in 1 .. Len(errch) : errch[i] = e
      BY <3>1 DEF CollectInv
    <3>3. i - 1 \in 1 .. Len(errch') /\ errch'[i - 1] = e
      BY <1>0, <2>1, <2>2, <3>1, <3>2
    <3>4. QED
      BY <3>3
  <2>9. NextErr' <= errsent + 1
    <3>1. errch[1] = 0 \/ errch[1] \in NextErr .. errsent
      BY <1>0, <2>2 DEF CollectInv
    <3>2. QED
      BY <1>0, <2>2, <2>4, <2>5, <3>1 DEF CollectInv
  <2>10. discard' \in Nat /\ errch' \in Seq(Nat)
    BY <1>0, <2>1, <2>2
  <2>11. QED
    BY <1>0, <2>1, <2>5, <2>6, <2>7, <2>8, <2>9, <2>10 DEF CollectInv
<1>3. CASE CollectErr
  <2>1. /\ collected' = IF discard = 0 THEN collected ELSE Append(collected, discard)
        /\ discard' = 0 /\ errch' = errch /\ errsent' = errsent
    BY <1>3 DEF CollectErr
  <2>2. CASE discard = 0
    BY <2>1, <2>2 DEF CollectInv, NextErr
  <2>3. CASE discard # 0
    <3>1. /\ collected' \in Seq(Nat) /\ Len(collected') = Len(collected) + 1
          /\ collected'[Len(collected')] = discard
          /\ \A i \in 1 .. Len(collected) : collected'[i] = collected[i]
      BY <1>0, <2>1, <2>3
    <3>2. NextErr' = NextErr
      BY <1>0, <2>1, <2>3, <3>1 DEF NextErr
    <3>3. \A i \in 1 .. Len(collected') : collected'[i] = i
      <4>1. discard = Len(collected) + 1 /\ \A i \in 1 .. Len(collected) : collected[i] = i
        BY <2>3 DEF CollectInv
      <4> SUFFICES ASSUME NEW i \in 1 .. Len(collected') PROVE collected'[i] = i
        OBVIOUS
      <4>2. Len(collected) \in Nat /\ (i \in 1 .. Len(collected) \/ i = Len(collected'))
        BY <1>0, <3>1
      <4> QED
        BY <3>1, <4>1, <4>2
    <3>4. QED
      BY <1>0, <2>1, <3>1, <3>2, <3>3 DEF CollectInv
  <2>4. QED
    BY <2>2, <2>3
<1>4. CASE CloseErrs \/ CollectTimeout \/ UNCHANGED collectVars
  BY <1>4 DEF CloseErrs, CollectTimeout, collectVars, CollectInv, NextErr
<1>5. QED
  BY <1>1, <1>2, <1>3, <1>4 DEF CollectNext

\* Every step of a fence keeps its invariant.
LEMMA FenceStep == FenceInv /\ [FenceNext]_fenceVars => FenceInv'
<1> SUFFICES ASSUME FenceInv, [FenceNext]_fenceVars PROVE FenceInv'
  OBVIOUS
<1>1. CASE FenceRelease
  BY <1>1 DEF FenceRelease, FenceInv
<1>2. ASSUME NEW g \in FenceWaiters, FenceWait(g) PROVE FenceInv'
  BY <1>2 DEF FenceWait, FenceInv
<1>3. ASSUME NEW g \in FenceWaiters, FenceSelect(g) PROVE FenceInv'
  BY <1>3 DEF FenceSelect, FenceInv
<1>4. CASE UNCHANGED fenceVars
  BY <1>4 DEF fenceVars, FenceInv
<1>5. QED
  BY <1>1, <1>2, <1>3, <1>4 DEF FenceNext

\* So nothing is left behind.
LEMMA TaskPromise == TaskInv => NothingLeftBehind
<1> SUFFICES ASSUME TaskInv PROVE NothingLeftBehind
  OBVIOUS
<1>1. Len(collected) \in Nat /\ DOMAIN collected = 1 .. Len(collected)
  BY DEF TaskInv, CollectInv
<1>2. Len(collected) <= errsent /\ \A i \in DOMAIN collected : collected[i] = i
  BY <1>1 DEF TaskInv, CollectInv, NextErr
<1>3. QED
  BY <1>2 DEF TaskInv, RunGroupInv, TimeoutInv, FenceInv, NothingLeftBehind
------------------------------------------------------------------------------
(* HybridDial. *)

\* Dials that the loop has not heard of.
Unheard == {n \in Names : cand[n] \in {"dial", "shake", "ready", "failed"}}

\* Before the goroutines are started nothing is open.
NothingBegun ==
  /\ chosen = None /\ result = None /\ delivered = {}
  /\ \A n \in Names : cand[n] = "off" /\ sock[n] = "none"

\* While the loop runs, spawned counts the dials it has not heard of, a socket is open if
\* its candidate is at work on it or it is the choice so far, and the choice is the best
\* of what was delivered.
Selecting ==
  /\ result = None
  /\ spawned = Cardinality(Unheard)
  /\ \A n \in Names : /\ cand[n] # "off" => n \in DOMAIN connectors
                      /\ sock[n] = "open" <=> cand[n] \in {"shake", "ready"} \/ n = chosen
                      /\ n \in delivered => cand[n] = "done" /\ connectors[n] <= PriorityOf(chosen)
  /\ delivered \subseteq Names
  /\ IF delivered = {} THEN chosen = None ELSE chosen \in delivered

HybridInv ==
  /\ IsFiniteSet(Unheard)
  /\ pc \in {"setup", "ready", "latency", "select", "plain", "returned"}
  /\ connectors = [n \in DOMAIN connectors |-> connectors[n]] /\ DOMAIN connectors \subseteq Names
  /\ \A n \in DOMAIN connectors : connectors[n] \in Nat \ {0}
  /\ cand \in [Names -> {"off", "dial", "shake", "ready", "failed", "done"}]
  /\ sock \in [Names -> {"none", "open", "closed"}]
  /\ pc \in {"setup", "ready", "latency", "plain"} => NothingBegun
  /\ pc = "plain" => Tcp \in DOMAIN connectors
  /\ pc = "select" => Selecting
  /\ NoSocketLeft /\ KeepsBest

\* A dialer that nothing was registered with has it.
LEMMA HybridStart == HybridInit => HybridInv
<1> SUFFICES ASSUME HybridInit PROVE HybridInv
  OBVIOUS
<1>1. Unheard = {} /\ IsFiniteSet(Unheard)
  BY FS_EmptySet DEF HybridInit, Unheard
<1>2. DOMAIN connectors = {Tcp} /\ connectors[Tcp] \in Nat \ {0}
  BY HybridAssumption DEF HybridInit
<1>3. QED
  BY <1>1, <1>2, HybridAssumption DEF HybridInit, HybridInv, NothingBegun, NoSocketLeft, KeepsBest

\* Every step of the dial keeps its invariant.
LEMMA HybridStep == HybridInv /\ [HybridNext]_hybridVars => HybridInv'
<1> SUFFICES ASSUME HybridInv, [HybridNext]_hybridVars PROVE HybridInv'
  OBVIOUS
<1> USE HybridAssumption
<1> USE DEF setupVars, loopVars
\* The candidates change before the dial only.
<1>1. ASSUME NEW n \in Names, NEW p \in Priorities,
             RegisterCandidateConnectorType(n, p) \/ AddCandidateConnector(n, p)
      PROVE  HybridInv'
  <2>1. /\ DOMAIN connectors' \subseteq Names
        /\ \A m \in DOMAIN connectors' : connectors'[m] \in Nat \ {0}
        /\ connectors' = [m \in DOMAIN connectors' |-> connectors'[m]]
    BY <1>1 DEF RegisterCandidateConnectorType, AddCandidateConnector, SetCandidate, HybridInv
  <2>2. pc \in {"setup", "ready"} /\ UNCHANGED <<forced, unencrypted, loopVars, cand, sock, shake>>
    BY <1>1 DEF RegisterCandidateConnectorType, AddCandidateConnector
  <2>3. QED
    BY <2>1, <2>2 DEF HybridInv, NothingBegun, NoSocketLeft, KeepsBest, Unheard
<1>2. ASSUME NEW n \in Names, RemoveCandidateConnector(n) PROVE HybridInv'
  <2>1. /\ DOMAIN connectors' \subseteq Names
        /\ \A m \in DOMAIN connectors' : connectors'[m] \in Nat \ {0}
        /\ connectors' = [m \in DOMAIN connectors' |-> connectors'[m]]
    BY <1>2 DEF RemoveCandidateConnector, HybridInv
  <2>2. pc = "ready" /\ UNCHANGED <<forced, unencrypted, loopVars, cand, sock, shake>>
    BY <1>2 DEF RemoveCandidateConnector
  <2>3. QED
    BY <2>1, <2>2 DEF HybridInv, NothingBegun, NoSocketLeft, KeepsBest, Unheard
<1>3. CASE NewHybridConnector \/ Dial
  BY <1>3 DEF NewHybridConnector, Dial, HybridInv, NothingBegun, NoSocketLeft, KeepsBest, Unheard
<1>4. CASE Timeout
  BY <1>4 DEF Timeout, HybridInv, NothingBegun, Selecting, PriorityOf, NoSocketLeft, KeepsBest, Unheard
<1>5. CASE LatencyCancelled
  BY <1>5 DEF LatencyCancelled, HybridInv, NothingBegun, NoSocketLeft, KeepsBest, Unheard
<1>6. CASE Spawn
  <2>1. Attempted \subseteq Names /\ Attempted \subseteq DOMAIN connectors
    BY DEF Attempted, HybridInv
  <2>2. Unheard' = Attempted /\ IsFiniteSet(Attempted)
    BY <1>6, <2>1, FS_Subset DEF Spawn, Unheard
  <2>3. NothingBegun /\ cand' \in [Names -> {"off", "dial", "shake", "ready", "failed", "done"}]
    BY <1>6 DEF Spawn, HybridInv
  <2>4. CASE Attempted = {}
    BY <1>6, <2>2, <2>3, <2>4 DEF Spawn, HybridInv, NothingBegun, NoSocketLeft, KeepsBest
  <2>5. CASE Attempted # {}
    <3>1. pc' = "select" /\ spawned' = Cardinality(Attempted)
      BY <1>6, <2>5 DEF Spawn
    <3>2. Selecting'
      BY <1>6, <2>1, <2>2, <2>3, <3>1 DEF Spawn, Selecting, NothingBegun
    <3>3. QED
      BY <1>6, <2>2, <2>3, <3>1, <3>2 DEF Spawn, HybridInv, NoSocketLeft, KeepsBest
  <2>6. QED
    BY <2>4, <2>5
<1>7. CASE DialContextUnencrypted
  BY <1>7 DEF DialContextUnencrypted, Attempted, HybridInv, NothingBegun, NoSocketLeft, KeepsBest, Unheard
<1>8. CASE PlainDial
  <2>1. /\ pc' = "returned" /\ cand' = cand /\ connectors' = connectors /\ chosen' = chosen
        /\ NothingBegun /\ Unheard' = Unheard
    BY <1>8 DEF PlainDial, HybridInv, Unheard
  <2>2. sock' \in [Names -> {"none", "open", "closed"}]
    BY <1>8 DEF PlainDial, HybridInv
  <2>3. NoSocketLeft'
    BY <1>8, <2>1, <2>2 DEF PlainDial, NoSocketLeft, NothingBegun, HybridInv
  <2>4. KeepsBest'
    <3>1. Tcp \in DOMAIN connectors
      BY <1>8 DEF PlainDial, HybridInv
    <3>2. QED
      BY <1>8, <2>1, <3>1 DEF PlainDial, KeepsBest, NothingBegun, HybridInv
  <2>5. QED
    BY <2>1, <2>2, <2>3, <2>4 DEF HybridInv
<1>9. ASSUME NEW n \in Names, HandshakeReturns(n) PROVE HybridInv'
  BY <1>9 DEF HandshakeReturns, HybridInv, NothingBegun, Selecting, PriorityOf, NoSocketLeft, KeepsBest, Unheard
\* A candidate at work implies that the loop is.
<1>10. ASSUME NEW n \in Names, cand[n] \notin {"off", "done"}
       PROVE  pc = "select" /\ Selecting /\ n # chosen /\ n \notin delivered /\ n \in Unheard
  BY <1>10 DEF HybridInv, NothingBegun, NoSocketLeft, Selecting, Unheard
<1>11. ASSUME NEW n \in Names, RawOK(n) \/ RawFail(n) \/ SelectHandshake(n) \/ SelectContext(n)
       PROVE  HybridInv'
  <2>1. pc = "select" /\ Selecting /\ n # chosen /\ n \notin delivered /\ n \in Unheard
    BY <1>10, <1>11 DEF RawOK, RawFail, SelectHandshake, SelectContext
  <2>2. UNCHANGED <<setupVars, loopVars>>
    BY <1>11 DEF RawOK, RawFail, SelectHandshake, SelectContext
  <2>3. PICK to \in {"shake", "ready", "failed"} :
          /\ cand' = [cand EXCEPT ![n] = to]
          /\ sock' \in [Names -> {"none", "open", "closed"}]
          /\ \A m \in Names \ {n} : sock'[m] = sock[m]
          /\ sock'[n] = "open" <=> to # "failed"
    BY <1>11, <2>1 DEF RawOK, RawFail, SelectHandshake, SelectContext, CandidateFails, HybridInv, Selecting
  <2>4. Unheard' = Unheard
    BY <2>1, <2>3 DEF Unheard, HybridInv
  <2>5. cand[n] # "off"
    BY <2>1 DEF Unheard
  <2>6. \A m \in Names : sock'[m] = "open" <=> cand'[m] \in {"shake", "ready"} \/ m = chosen
    BY <2>1, <2>3 DEF Selecting, HybridInv
  <2>7. ASSUME NEW m \in Names
        PROVE  (cand'[m] # "off" => m \in DOMAIN connectors) /\ (m \in delivered => cand'[m] = "done")
    <3>1. CASE m = n
      BY <2>1, <2>5, <3>1 DEF Selecting
    <3>2. CASE m # n
      BY <2>1, <2>3, <3>2 DEF Selecting, HybridInv
    <3>3. QED
      BY <3>1, <3>2
  <2>8. PriorityOf(chosen)' = PriorityOf(chosen)
    BY <2>2 DEF PriorityOf
  <2>9. Selecting'
    BY <2>1, <2>2, <2>4, <2>6, <2>7, <2>8 DEF Selecting
  <2>10. QED
    BY <2>1, <2>2, <2>3, <2>4, <2>9 DEF HybridInv, NoSocketLeft, KeepsBest
\* The loop hears of a candidate.
<1>12. ASSUME NEW n \in Names, cand[n] \notin {"off", "done"}, cand' = [cand EXCEPT ![n] = "done"],
              spawned' = spawned - 1
       PROVE  IsFiniteSet(Unheard') /\ spawned' = Cardinality(Unheard')
  <2>1. n \in Unheard /\ Unheard' = Unheard \ {n}
    BY <1>10, <1>12 DEF Unheard, HybridInv
  <2>2. IsFiniteSet(Unheard') /\ Cardinality(Unheard') = Cardinality(Unheard) - 1
    BY <2>1, FS_RemoveElement DEF HybridInv
  <2>3. spawned = Cardinality(Unheard)
    BY <1>10, <1>12 DEF Selecting
  <2>4. QED
    BY <1>12, <2>2, <2>3
<1>13. ASSUME NEW n \in Names, ReceiveReady(n) PROVE HybridInv'
  <2>1. pc = "select" /\ Selecting /\ n # chosen /\ n \notin delivered
    BY <1>10, <1>13 DEF ReceiveReady
  <2>2. IsFiniteSet(Unheard') /\ spawned' = Cardinality(Unheard')
    BY <1>12, <1>13 DEF ReceiveReady
  <2>3. /\ cand' = [cand EXCEPT ![n] = "done"] /\ delivered' = delivered \cup {n} /\ cand[n] = "ready"
        /\ UNCHANGED <<setupVars, pc, result, shake>>
    BY <1>13 DEF ReceiveReady
  <2>4. /\ PriorityOf(n) = connectors[n] /\ PriorityOf(n) \in Nat \ {0}
        /\ PriorityOf(chosen) \in Nat /\ (chosen = None => PriorityOf(chosen) = 0)
        /\ \A m \in delivered : connectors[m] \in Nat
        /\ chosen # None => chosen \in delivered
    BY <2>1, <2>3 DEF Selecting, PriorityOf, HybridInv
  <2>5. CASE PriorityOf(n) > PriorityOf(chosen)
    <3>1. chosen' = n /\ sock' = IF chosen = None THEN sock ELSE [sock EXCEPT ![chosen] = "closed"]
      BY <1>13, <2>5 DEF ReceiveReady
    <3>2. PriorityOf(n)' = PriorityOf(n)
      BY <2>3 DEF PriorityOf
    <3>3. sock' \in [Names -> {"none", "open", "closed"}]
      BY <3>1 DEF HybridInv
    <3>4. \A m \in delivered' : connectors[m] <= PriorityOf(n)
      BY <2>1, <2>3, <2>4, <2>5 DEF Selecting
    <3>5. \A m \in Names : sock'[m] = "open" <=> cand'[m] \in {"shake", "ready"} \/ m = chosen'
      BY <2>1, <2>3, <2>4, <3>1 DEF Selecting, HybridInv
    <3>6. Selecting'
      BY <2>1, <2>2, <2>3, <2>4, <3>1, <3>2, <3>4, <3>5 DEF Selecting, HybridInv
    <3>7. QED
      BY <2>1, <2>2, <2>3, <3>3, <3>6 DEF HybridInv, NoSocketLeft, KeepsBest
  <2>6. CASE ~(PriorityOf(n) > PriorityOf(chosen))
    <3>1. chosen' = chosen /\ sock' = [sock EXCEPT ![n] = "closed"] /\ chosen # None
      BY <1>13, <2>4, <2>6 DEF ReceiveReady
    <3>2. PriorityOf(chosen)' = PriorityOf(chosen)
      BY <2>3, <3>1 DEF PriorityOf
    <3>3. sock' \in [Names -> {"none", "open", "closed"}]
      BY <3>1 DEF HybridInv
    <3>4. \A m \in delivered' : connectors[m] <= PriorityOf(chosen)
      BY <2>1, <2>3, <2>4, <2>6 DEF Selecting
    <3>5. \A m \in Names : sock'[m] = "open" <=> cand'[m] \in {"shake", "ready"} \/ m = chosen'
      BY <2>1, <2>3, <2>4, <3>1 DEF Selecting, HybridInv
    <3>6. Selecting'
      BY <2>1, <2>2, <2>3, <2>4, <3>1, <3>2, <3>4, <3>5 DEF Selecting, HybridInv
    <3>7. QED
      BY <2>1, <2>2, <2>3, <3>3, <3>6 DEF HybridInv, NoSocketLeft, KeepsBest
  <2>7. QED
    BY <2>5, <2>6
<1>14. ASSUME NEW n \in Names, ReceiveErr(n) PROVE HybridInv'
  <2>1. pc = "select" /\ Selecting /\ n # chosen /\ n \notin delivered
    BY <1>10, <1>14 DEF ReceiveErr
  <2>2. IsFiniteSet(Unheard') /\ spawned' = Cardinality(Unheard')
    BY <1>12, <1>14 DEF ReceiveErr
  <2>3. /\ cand' = [cand EXCEPT ![n] = "done"] /\ cand[n] = "failed"
        /\ UNCHANGED <<setupVars, pc, dialDone, chosen, delivered, result, sock, shake>>
    BY <1>14 DEF ReceiveErr
  <2>4. Selecting'
    BY <2>1, <2>2, <2>3 DEF Selecting, HybridInv, PriorityOf
  <2>5. QED
    BY <2>1, <2>2, <2>3, <2>4 DEF HybridInv, NoSocketLeft, KeepsBest
<1>15. CASE Return
  <2>1. Unheard = {} /\ Selecting
    BY <1>15, FS_EmptySet DEF Return, HybridInv, Selecting
  <2>2. \A n \in Names : cand[n] \in {"off", "done"}
    BY <2>1 DEF Unheard, HybridInv
  <2>3. pc' = "returned" /\ result' = chosen /\ UNCHANGED <<setupVars, spawned, chosen, delivered, cand, sock, shake>>
    BY <1>15 DEF Return
  <2>4. NoSocketLeft'
    BY <2>1, <2>2, <2>3 DEF Selecting, NoSocketLeft
  <2>5. KeepsBest'
    BY <2>1, <2>2, <2>3 DEF Selecting, KeepsBest, PriorityOf
  <2>6. QED
    BY <2>3, <2>4, <2>5 DEF HybridInv, Unheard
<1>16. CASE UNCHANGED hybridVars
  BY <1>16 DEF hybridVars, HybridInv, NothingBegun, Selecting, PriorityOf, NoSocketLeft, KeepsBest, Unheard
<1>17. QED
  BY <1>1, <1>2, <1>3, <1>4, <1>5, <1>6, <1>7, <1>8, <1>9, <1>11, <1>13, <1>14, <1>15, <1>16
  DEF HybridNext, Setup, Candidate, Receive

------------------------------------------------------------------------------
(* QuicConn. *)

\* The once is entered by one user, and who has left it, or got past it, finds the stream
\* or the error, which is how the session has ended.
QuicInv ==
  /\ peerFin \in BOOLEAN /\ session \in {"open", "closed", "broken"} /\ stream \in {"nil", "half", "set"}
  /\ acceptErr \in {"nil", "closed", "broken"} /\ once \in {"new", "running", "done"}
  /\ user \in [ConnUsers -> [pc : {"idle", "once", "accept", "after", "stream", "crashed"},
                             op : ConnOps \cup {"none"}, result : {"none", "ok", "EOF", "reset", "failed", "closed", "broken"}]]
  /\ accepts = IF once = "new" THEN 0 ELSE 1
  /\ once = "new" => stream # "half" /\ acceptErr = "nil"
  /\ once = "done" => stream # "half" /\ (stream = "set" \/ acceptErr # "nil")
  /\ acceptErr # "nil" => acceptErr = session
  /\ \A u \in ConnUsers :
       /\ user[u].pc = "accept" => once = "running"
       /\ user[u].pc = "after" => once = "done"
       /\ user[u].pc = "stream" => stream = "set"
       /\ user[u].result = "EOF" => session = "closed" \/ peerFin
       /\ user[u].result = "reset" => session = "closed"
  /\ \A u, v \in ConnUsers : user[u].pc = "accept" /\ user[v].pc = "accept" => u = v
  /\ tracked \in {"closed", "leaked"} => session # "open"

\* A new connection has it, with or without a stream.
LEMMA QuicStart == QuicInit => QuicInv
<1> SUFFICES ASSUME QuicInit PROVE QuicInv
  OBVIOUS
<1>1. stream \in {"nil", "set"}
  BY DEF QuicInit
<1>2. QED
  BY <1>1 DEF QuicInit, QuicInv

\* Every step of the connection keeps its invariant.
LEMMA QuicStep == QuicInv /\ [QuicNext]_quicVars => QuicInv'
<1> SUFFICES ASSUME QuicInv, [QuicNext]_quicVars PROVE QuicInv'
  OBVIOUS
<1>1. ASSUME NEW u \in ConnUsers, NEW op \in ConnOps, CheckStream(u, op) PROVE QuicInv'
  BY <1>1 DEF CheckStream, QuicInv
<1>2. ASSUME NEW u \in ConnUsers, EnterAccept(u) PROVE QuicInv'
  BY <1>2 DEF EnterAccept, QuicInv
<1>3. ASSUME NEW u \in ConnUsers, AcceptStream(u) PROVE QuicInv'
  BY <1>3 DEF AcceptStream, QuicInv
<1>4. ASSUME NEW u \in ConnUsers, LeaveAccept(u) PROVE QuicInv'
  BY <1>4 DEF LeaveAccept, QuicInv
<1>5. ASSUME NEW u \in ConnUsers, PassOnce(u) PROVE QuicInv'
  BY <1>5 DEF PassOnce, QuicInv
<1>6. ASSUME NEW u \in ConnUsers, AfterOnce(u) PROVE QuicInv'
  BY <1>6 DEF AfterOnce, Returned, captureErr, QuicInv
<1>7. ASSUME NEW u \in ConnUsers, UseStream(u) PROVE QuicInv'
  BY <1>7 DEF UseStream, Returned, captureErr, QuicInv
<1>8. CASE PeerOpensStream \/ PeerFinishes \/ ForgetConn \/ UNCHANGED quicVars
  BY <1>8 DEF PeerOpensStream, PeerFinishes, ForgetConn, quicVars, QuicInv
<1>9. CASE SessionEnds
  BY <1>9 DEF SessionEnds, QuicInv
<1>10. CASE CloseConn
  BY <1>10 DEF CloseConn, QuicInv
<1>11. CASE FinalizeConn
  BY <1>11 DEF FinalizeConn, QuicInv
<1>12. QED
  BY <1>1, <1>2, <1>3, <1>4, <1>5, <1>6, <1>7, <1>8, <1>9, <1>10, <1>11 DEF QuicNext, GetStream

\* So there is one stream.
LEMMA QuicPromise == QuicInv => OneStream
BY DEF QuicInv, OneStream

------------------------------------------------------------------------------
(* TestContext. *)

\* There is a report exactly if the flag is set, and it fails the test; Cleanup goes
\* on only with a report, or when everything has ended and its errors have been looked at.
TestInv ==
  /\ running \in [TestFns -> {"new", "registered", "running", "returned", "done"}]
  /\ cleanup \in {"idle", "select", "cancel", "delete", "done"}
  /\ {reported, groupErr, testFailed, ended} \subseteq BOOLEAN
  /\ reports \in Seq(SUBSET TestFns) /\ Len(reports) = IF reported THEN 1 ELSE 0
  /\ reported => testFailed
  /\ cleanup # "idle" => \A f \in TestFns : running[f] # "registered"
  /\ cleanup \in {"cancel", "delete", "done"} => reported \/ (GroupDone /\ (groupErr => testFailed))
  /\ cleanup = "done" => directory # "made" \/ testFailed

\* A new test has it.
LEMMA TestStart == TestInit => TestInv
<1> SUFFICES ASSUME TestInit PROVE TestInv
  OBVIOUS
<1>1. reports \in Seq(SUBSET TestFns) /\ Len(reports) = IF reported THEN 1 ELSE 0
  BY DEF TestInit
<1>2. QED
  BY <1>1 DEF TestInit, TestInv

\* Every step of a test keeps its invariant.
LEMMA TestStep == TestInv /\ [TestNext]_testVars => TestInv'
<1> SUFFICES ASSUME TestInv, [TestNext]_testVars PROVE TestInv'
  OBVIOUS
<1>1. ASSUME NEW f \in TestFns, GoRegister(f) \/ GoStart(f) PROVE TestInv'
  BY <1>1 DEF GoRegister, GoStart, TestRuns, TestInv, GroupDone
<1>2. ASSUME NEW f \in TestFns, TestFnReturns(f) PROVE TestInv'
  BY <1>2 DEF TestFnReturns, TestInv, GroupDone
<1>3. ASSUME NEW f \in TestFns, MarkDone(f) PROVE TestInv'
  BY <1>3 DEF MarkDone, TestInv, GroupDone
<1>4. CASE TestWait \/ TestTimeout
  BY <1>4 DEF TestWait, TestTimeout, TestRuns, TestInv, GroupDone
<1>4a. CASE TestDir
  <2>1. cleanup = "idle" /\ ended' \in BOOLEAN /\ testFailed' \in BOOLEAN /\ (testFailed => testFailed')
    BY <1>4a DEF TestDir, TestRuns, TestInv
  <2>2. UNCHANGED <<running, groupErr, cleanup, reported, reports>>
    BY <1>4a DEF TestDir
  <2>3. QED
    BY <2>1, <2>2 DEF TestInv, GroupDone
<1>5. CASE TestWaitReturns
  BY <1>5 DEF TestWaitReturns, TestInv, GroupDone
<1>6. CASE MonitorTimeout \/ MonitorCleaning
  BY <1>6 DEF MonitorTimeout, MonitorCleaning, TestInv, GroupDone
<1>7. ASSUME reportRunning
      PROVE  reported' /\ testFailed' /\ reports' \in Seq(SUBSET TestFns) /\ Len(reports') = 1
  <2>1. CASE reported
    BY <1>7, <2>1 DEF reportRunning, TestInv
  <2>2. CASE ~reported
    <3>1. reports' = Append(reports, NotDone) /\ reported' /\ testFailed'
      BY <1>7, <2>2 DEF reportRunning
    <3>2. NotDone \in SUBSET TestFns /\ reports \in Seq(SUBSET TestFns) /\ Len(reports) = 0
      BY <2>2 DEF NotDone, TestInv
    <3>3. reports' \in Seq(SUBSET TestFns) /\ Len(reports') = 1
      BY <3>1, <3>2
    <3>4. QED
      BY <3>1, <3>3
  <2>3. QED
    BY <2>1, <2>2
<1>8. CASE MonitorReport
  BY <1>7, <1>8 DEF MonitorReport, TestInv, GroupDone
<1>9. CASE CleanupBegin
  BY <1>9 DEF CleanupBegin, TestRuns, TestInv, GroupDone
<1>10. CASE CleanupTimeout
  BY <1>7, <1>10 DEF CleanupTimeout, TestInv, GroupDone
<1>11. CASE CleanupCancel
  BY <1>11 DEF CleanupCancel, TestInv, GroupDone
<1>11a. CASE CleanupDelete
  BY <1>11a DEF CleanupDelete, TestInv, GroupDone
<1>12. CASE CleanupAllDone
  BY <1>12 DEF CleanupAllDone, TestInv, GroupDone
<1>13. CASE UNCHANGED testVars
  BY <1>13 DEF testVars, TestInv, GroupDone
<1>14. QED
  BY <1>1, <1>2, <1>3, <1>4, <1>4a, <1>6, <1>8, <1>9, <1>10, <1>11, <1>11a, <1>13, <1>5, <1>12
  DEF TestNext

\* So a test that passes has left nothing behind.
LEMMA TestPromise == TestInv => CleanTest
<1> SUFFICES ASSUME TestInv PROVE CleanTest
  OBVIOUS
<1>1. Len(reports) <= 1 /\ (reported <=> reports # <<>>)
  BY DEF TestInv
<1>2. QED
  BY <1>1 DEF TestInv, CleanTest, GroupDone

------------------------------------------------------------------------------
(* Runtime. *)

\* What holds of every part at any time.
RuntimeInv ==
  /\ ThrottleInv /\ GroupInv /\ ThresholdInv /\ LimiterInv /\ SemaphoreInv /\ CooldownInv
  /\ TaskInv /\ CancelInv
  /\ HybridInv /\ QuicInv /\ TestInv

\* A step is one of the primitive that a behaviour is about and leaves the others alone.
LEMMA Sync2Projects ==
  ASSUME Sync2Next
  PROVE  /\ [ThrottleNext]_throttleVars /\ [GroupNext]_groupVars /\ [ThresholdNext]_thresholdVars
         /\ [LimiterNext]_limiterVars /\ [SemaphoreNext]_semaVars /\ [CooldownNext]_cooldownVars
         /\ [RunGroupNext]_runGroupVars /\ [TimeoutNext]_timeoutVars /\ [CollectNext]_collectVars
         /\ [FenceNext]_fenceVars /\ [CancelNext]_cancelVars
<1> USE DEF Only
<1>1. LimiterNext => UNCHANGED semaVars
  BY DEF LimiterNext, LimiterGo, AcquireSlot, LimiterCancelled, AddAndGo, ReleaseSlot, WorkingDone,
         LimiterWait, LimiterWaitReturns
<1>2. SemaphoreNext => UNCHANGED limiterVars
  BY DEF SemaphoreNext, Lock, Unlock, LockRefused, SemaphoreClose
<1>3. UNCHANGED taskVars => UNCHANGED <<runGroupVars, timeoutVars, collectVars, fenceVars>>
  BY DEF taskVars
<1>4. /\ RunGroupNext => UNCHANGED <<timeoutVars, collectVars, fenceVars>>
      /\ TimeoutNext => UNCHANGED <<runGroupVars, collectVars, fenceVars>>
      /\ CollectNext => UNCHANGED <<runGroupVars, timeoutVars, fenceVars>>
      /\ FenceNext => UNCHANGED <<runGroupVars, timeoutVars, collectVars>>
  BY DEF RunGroupNext, TimeoutNext, CollectNext, FenceNext
<1>5. QED
  BY <1>1, <1>2, <1>3, <1>4 DEF Sync2Next

\* A step is one of the part that a behaviour is about and leaves the others alone.
LEMMA RuntimeProjects ==
  ASSUME [RuntimeNext]_runtimeVars
  PROVE  /\ Sync2Next \/ UNCHANGED sync2Vars
         /\ [HybridNext]_hybridVars /\ [QuicNext]_quicVars /\ [TestNext]_testVars
BY DEF RuntimeNext, runtimeVars

\* Initially.
LEMMA RuntimeStart == RuntimeInit => RuntimeInv
BY ThrottleStart, GroupStart, ThresholdStart, LimiterStart, CooldownBegins, TaskStart, CancelStart,
   HybridStart, QuicStart, TestStart
DEF RuntimeInit, Sync2Init, RuntimeInv

\* Every step keeps the invariants of all the parts.
LEMMA RuntimeStep == RuntimeInv /\ [RuntimeNext]_runtimeVars => RuntimeInv'
<1> SUFFICES ASSUME RuntimeInv, [RuntimeNext]_runtimeVars PROVE RuntimeInv'
  OBVIOUS
<1>1. HybridInv' /\ QuicInv' /\ TestInv'
  BY RuntimeProjects, HybridStep, QuicStep, TestStep DEF RuntimeInv
<1>2. UNCHANGED sync2Vars =>
        /\ UNCHANGED throttleVars /\ UNCHANGED groupVars /\ UNCHANGED thresholdVars
        /\ UNCHANGED limiterVars /\ UNCHANGED semaVars /\ UNCHANGED cooldownVars
        /\ UNCHANGED runGroupVars /\ UNCHANGED timeoutVars /\ UNCHANGED collectVars
        /\ UNCHANGED fenceVars /\ UNCHANGED cancelVars
  BY DEF sync2Vars, taskVars
<1>3. /\ [ThrottleNext]_throttleVars /\ [GroupNext]_groupVars /\ [ThresholdNext]_thresholdVars
      /\ [LimiterNext]_limiterVars /\ [SemaphoreNext]_semaVars /\ [CooldownNext]_cooldownVars
      /\ [RunGroupNext]_runGroupVars /\ [TimeoutNext]_timeoutVars /\ [CollectNext]_collectVars
      /\ [FenceNext]_fenceVars /\ [CancelNext]_cancelVars
  BY <1>2, RuntimeProjects, Sync2Projects
<1>4. ThrottleInv' /\ GroupInv' /\ ThresholdInv' /\ LimiterInv' /\ SemaphoreInv' /\ CooldownInv' /\ CancelInv'
  BY <1>3, ThrottleStep, GroupStep, ThresholdStep, LimiterStep, SemaphoreStep, CooldownStep, CancelStep
  DEF RuntimeInv
<1>5. RunGroupInv' /\ TimeoutInv' /\ CollectInv' /\ FenceInv'
  BY <1>3, RunGroupStep, TimeoutStep, CollectStep, FenceStep DEF RuntimeInv, TaskInv
<1>6. QED
  BY <1>1, <1>4, <1>5 DEF RuntimeInv, TaskInv

\* The invariants hold in every behaviour.
THEOREM RuntimeInvariant == RuntimeSpec => []RuntimeInv
<1>1. RuntimeInit => RuntimeInv
  BY RuntimeStart
<1>2. RuntimeInv /\ [RuntimeNext]_runtimeVars => RuntimeInv'
  BY RuntimeStep
<1>3. QED
  BY <1>1, <1>2, PTL DEF RuntimeSpec

\* Nobody sleeps through what it waits for: the signals of a throttle and the broadcast of
\* a work group reach everyone they concern, whatever the order of the calls
\* (throttle.go:40-111, workgroup.go:64-78).
THEOREM NobodySleepsOn == RuntimeSpec => []NoLostWakeUp
<1>1. RuntimeInv => NoLostWakeUp
  BY GroupPromise, ThrottlePromise DEF RuntimeInv, NoLostWakeUp
<1>2. QED
  BY <1>1, RuntimeInvariant, PTL

\* A wait that has returned leaves nothing behind of what it waited for, and no more run
\* than there are slots, for any number of goroutines and any size (workgroup.go:31-78,
\* limiter.go:29-51, semaphore.go:40-47, group.go:17-36, timeout.go:15-34,
\* collect.go:13-40, fence.go:35-48, testcontext/context.go:124-164, 230-305).
THEOREM WaitsCoverAll == RuntimeSpec => []WaitsCover
<1>1. RuntimeInv => WaitsCover
  BY GroupPromise, LimiterPromise, TaskPromise, TestPromise DEF RuntimeInv, WaitsCover, WaitCovers
<1>2. QED
  BY <1>1, RuntimeInvariant, PTL

\* Waiters of a success threshold are released exactly when the outcome is decided,
\* for any number of tasks and any share of them (success_threshold.go:48-82).
THEOREM ThresholdDecides == RuntimeSpec => []DoneMeansDecided
<1>1. RuntimeInv => DoneMeansDecided
  BY ThresholdPromise DEF RuntimeInv
<1>2. QED
  BY <1>1, RuntimeInvariant, PTL

\* A cooldown never runs on a trigger of the interval before, nor after a Stop has
\* returned, also when Run begins only then (cooldown.go:40-132).
THEOREM CooldownSafe == RuntimeSpec => []CooldownHolds
<1>1. RuntimeInv => CooldownHolds
  BY CooldownPromise DEF RuntimeInv
<1>2. QED
  BY <1>1, RuntimeInvariant, PTL

\* A context with a custom error has one error for ever, whoever cancels it first
\* (context2/cancel.go:37-67).
THEOREM OneErrorOnly == RuntimeSpec => []OneError
<1>1. RuntimeInv => OneError
  BY CancelPromise DEF RuntimeInv
<1>2. QED
  BY <1>1, RuntimeInvariant, PTL

\* A dial that has returned leaves no socket open but the one it returns, and no
\* goroutine, for any number of candidates (hybrid.go:150-260).
THEOREM DialLeavesNothing == RuntimeSpec => []NoSocketLeft
<1>1. RuntimeInv => NoSocketLeft
  BY DEF RuntimeInv, HybridInv
<1>2. QED
  BY <1>1, RuntimeInvariant, PTL

\* It returns the connection of the highest priority of those that were made
\* (hybrid.go:150-260).
THEOREM DialKeepsBest == RuntimeSpec => []KeepsBest
<1>1. RuntimeInv => KeepsBest
  BY DEF RuntimeInv, HybridInv
<1>2. QED
  BY <1>1, RuntimeInvariant, PTL

\* A QUIC connection accepts one stream at most, and whoever gets past the once has it or
\* the error (quic/conn.go:38-95, 150-177, 233-250).
THEOREM QuicOneStream == RuntimeSpec => []OneStream
<1>1. RuntimeInv => OneStream
  BY QuicPromise DEF RuntimeInv
<1>2. QED
  BY <1>1, RuntimeInvariant, PTL
==============================================================================
