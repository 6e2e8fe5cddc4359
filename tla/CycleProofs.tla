----------------------------- MODULE CycleProofs -----------------------------
(***************************************************************************)
(* Machine-checked proofs for Cycle: any number of callers and stoppers.      *)
(***************************************************************************)
EXTENDS Cycle, TLAPS

\* fn that began after stopping or cancellation is the last one: the loop is in
\* it, on its way from it to the prioritised select, or done.
LateInv ==
  lateFn = 0 \/ (lateFn = 1 /\ run \in {"fn", "check", "done"} /\ (stopping \/ ctxDone))

\* Nothing is paused before the loop exists, so Run never starts a ticker that
\* Pause has stopped.
PausedInv ==
  /\ paused => ~tick /\ ~ticker
  /\ run \in {"none", "started"} => ~paused

\* runexec is never behind Start and Run; a stopper that signalled after them
\* gets past its waits only once stopped is closed, which is the loop's end.
StopInv ==
  /\ run # "none" => runexec
  /\ stopped <=> run = "done"
  /\ \A s \in began : /\ run # "none" /\ stop[s] # "idle"
                      /\ stop[s] \in {"again", "closing", "returned"} => stopped

\* The one caller that waits for the current fn is the one it runs for, and it
\* called before fn began.
WaitInv ==
  /\ serving # NoCaller => call[serving].op = "TriggerWait" /\ serving \in covers
  /\ \A c \in Callers : call[c].pc = "wait" => serving = c

CycleInv == CycleTypeOK /\ LateInv /\ PausedInv /\ StopInv /\ WaitInv

------------------------------------------------------------------------------

\* The end of Run keeps the types, whichever path led to it.
LEMMA FinishType ==
  ASSUME CycleTypeOK, Finish, UNCHANGED <<runexec, stopping, ctrlClosed, ctxDone, stop, began>>
  PROVE  CycleTypeOK'
<1>1. call' \in [Callers -> [op : Ops \cup {"none"}, pc : CallPcs]]
  <2>1. NoCall \in [op : Ops \cup {"none"}, pc : CallPcs]
    BY DEF NoCall, CallPcs
  <2>2. QED
    BY <2>1 DEF CycleTypeOK, Finish
<1>2. QED
  BY <1>1 DEF CycleTypeOK, Finish

\* Every step keeps the types, and a trigger is served only inside fn.
LEMMA TypeStep == CycleTypeOK /\ [CycleNext]_cycleVars => CycleTypeOK'
<1> SUFFICES ASSUME CycleTypeOK, [CycleNext]_cycleVars PROVE CycleTypeOK'
  OBVIOUS
<1> USE CycleAssumption
<1>1. CASE Start
  BY <1>1 DEF Start, CycleTypeOK
<1>2. CASE Run
  BY <1>2 DEF Run, BeginFn, Waiters, Calling, CycleTypeOK
<1>3. CASE FnReturns
  BY <1>3 DEF FnReturns, NoCall, CallPcs, CycleTypeOK
<1>4. CASE FnFails
  BY <1>4, FinishType DEF FnFails
<1>5. CASE Check
  <2>1. CASE stopping \/ ctxDone
    BY <1>5, <2>1, FinishType DEF Check
  <2>2. CASE ~(stopping \/ ctxDone)
    BY <1>5, <2>2 DEF Check, CycleTypeOK
  <2>3. QED
    BY <2>1, <2>2
<1>6. CASE SelectStop
  BY <1>6, FinishType DEF SelectStop
<1>7. CASE SelectTick
  <2>1. Waiters \subseteq Callers
    BY DEF Waiters, Calling
  <2>2. lateFn' \in Nat
    BY <1>7 DEF SelectTick, BeginFn, CycleTypeOK
  <2>3. QED
    BY <1>7, <2>1, <2>2 DEF SelectTick, BeginFn, CycleTypeOK
<1>8. CASE Tick
  BY <1>8 DEF Tick, loopVars, CycleTypeOK
<1>9. CASE Cancel
  BY <1>9 DEF Cancel, loopVars, CycleTypeOK
<1>10. ASSUME NEW c \in Callers, NEW op \in Ops, Call(c, op) PROVE CycleTypeOK'
  BY <1>10 DEF Call, CallPcs, CycleTypeOK
<1>11. ASSUME NEW c \in Callers, Block(c) PROVE CycleTypeOK'
  BY <1>11 DEF Block, Goto, loopVars, CallPcs, CycleTypeOK
<1>12. ASSUME NEW c \in Callers, SendStopped(c) PROVE CycleTypeOK'
  BY <1>12 DEF SendStopped, Return, NoCall, loopVars, CallPcs, CycleTypeOK
<1>13. ASSUME NEW c \in Callers, SendPanics(c) PROVE CycleTypeOK'
  BY <1>13 DEF SendPanics, Goto, loopVars, CallPcs, CycleTypeOK
<1>14. ASSUME NEW c \in Callers, Receive(c) PROVE CycleTypeOK'
  <2>1. NoCall \in [op : Ops \cup {"none"}, pc : CallPcs]
    BY DEF NoCall, CallPcs
  <2>2. serving = NoCaller
    BY <1>14 DEF Receive, CycleTypeOK
  <2>3. CASE call[c].op \in TickerOps /\ Return(c) /\ serving' = serving
    BY <1>14, <2>1, <2>2, <2>3
      
          DEF Receive, BeginFn, Waiters, Calling, Return, TickerMessage, TickerOps,
              CycleTypeOK
  <2>4. CASE call[c].op = "Trigger" /\ BeginFn(NoCaller) /\ Return(c)
    BY <1>14, <2>1, <2>4
       DEF Receive, BeginFn, Waiters, Calling, Return, TickerOps, CycleTypeOK
  <2>5. CASE call[c].op = "TriggerWait" /\ BeginFn(c) /\ Goto(c, "wait")
    BY <1>14, <2>5
      
          DEF Receive, BeginFn, Waiters, Calling, Goto, TickerOps, CycleTypeOK, Ops,
              CallPcs
  <2>6. QED
    BY <1>14, <2>3, <2>4, <2>5 DEF Receive
<1>15. ASSUME NEW s \in Stoppers, Signal(s) PROVE CycleTypeOK'
  BY <1>15 DEF Signal, loopVars, StopPcs, CycleTypeOK
<1>16. ASSUME NEW s \in Stoppers, Load(s) PROVE CycleTypeOK'
  BY <1>16 DEF Load, AfterStop, loopVars, StopPcs, CycleTypeOK
<1>17. ASSUME NEW s \in Stoppers, CloseControl(s) PROVE CycleTypeOK'
  BY <1>17 DEF CloseControl, loopVars, StopPcs, CycleTypeOK
<1>18. CASE UNCHANGED cycleVars
  BY <1>18 DEF cycleVars, loopVars, CycleTypeOK
<1>19. QED
  BY <1>1, <1>2, <1>3, <1>4, <1>5, <1>6, <1>7, <1>8,
     <1>9, <1>10, <1>11, <1>12, <1>13, <1>14, <1>15, <1>16, <1>17, <1>18
     DEF CycleNext, Loop

\* Every step keeps LateInv: fn begins from select or before the loop, and the
\* loop comes back to select only when neither channel is closed.
LEMMA LateStep == CycleTypeOK /\ LateInv /\ [CycleNext]_cycleVars => LateInv'
<1> SUFFICES ASSUME CycleTypeOK /\ LateInv, [CycleNext]_cycleVars PROVE LateInv'
  OBVIOUS
<1> USE CycleAssumption
<1>1. CASE Start
  BY <1>1 DEF Start, CycleTypeOK, LateInv
<1>2. CASE Run
  BY <1>2 DEF Run, BeginFn, Waiters, Calling, CycleTypeOK, LateInv
<1>3. CASE FnReturns
  BY <1>3 DEF FnReturns, NoCall, CycleTypeOK, LateInv
<1>4. CASE FnFails
  BY <1>4 DEF FnFails, Finish, NoCall, CycleTypeOK, LateInv
<1>5. CASE Check
  BY <1>5 DEF Check, Finish, NoCall, CycleTypeOK, LateInv
<1>6. CASE SelectStop
  BY <1>6 DEF SelectStop, Finish, NoCall, CycleTypeOK, LateInv
<1>7. CASE SelectTick
  BY <1>7 DEF SelectTick, BeginFn, Waiters, Calling, CycleTypeOK, LateInv
<1>8. CASE Tick
  BY <1>8 DEF Tick, loopVars, CycleTypeOK, LateInv
<1>9. CASE Cancel
  BY <1>9 DEF Cancel, loopVars, CycleTypeOK, LateInv
<1>10. ASSUME NEW c \in Callers, NEW op \in Ops, Call(c, op) PROVE LateInv'
  BY <1>10 DEF Call, CycleTypeOK, LateInv
<1>11. ASSUME NEW c \in Callers, Block(c) PROVE LateInv'
  BY <1>11 DEF Block, Goto, loopVars, CycleTypeOK, LateInv
<1>12. ASSUME NEW c \in Callers, SendStopped(c) PROVE LateInv'
  BY <1>12 DEF SendStopped, Return, NoCall, loopVars, CycleTypeOK, LateInv
<1>13. ASSUME NEW c \in Callers, SendPanics(c) PROVE LateInv'
  BY <1>13 DEF SendPanics, Goto, loopVars, CycleTypeOK, LateInv
<1>14. ASSUME NEW c \in Callers, Receive(c) PROVE LateInv'
  BY <1>14
     DEF Receive, BeginFn, Waiters, Calling, Goto, Return, NoCall, TickerMessage,
         TickerOps, CycleTypeOK, LateInv
<1>15. ASSUME NEW s \in Stoppers, Signal(s) PROVE LateInv'
  BY <1>15 DEF Signal, loopVars, CycleTypeOK, LateInv
<1>16. ASSUME NEW s \in Stoppers, Load(s) PROVE LateInv'
  BY <1>16 DEF Load, AfterStop, loopVars, CycleTypeOK, LateInv
<1>17. ASSUME NEW s \in Stoppers, CloseControl(s) PROVE LateInv'
  BY <1>17 DEF CloseControl, loopVars, CycleTypeOK, LateInv
<1>18. CASE UNCHANGED cycleVars
  BY <1>18 DEF cycleVars, loopVars, CycleTypeOK, LateInv
<1>19. QED
  BY <1>1, <1>2, <1>3, <1>4, <1>5, <1>6, <1>7, <1>8,
     <1>9, <1>10, <1>11, <1>12, <1>13, <1>14, <1>15, <1>16, <1>17, <1>18
     DEF CycleNext, Loop

\* Every step keeps PausedInv: the ticker and the flag change together.
LEMMA PausedStep == CycleTypeOK /\ PausedInv /\ [CycleNext]_cycleVars => PausedInv'
<1> SUFFICES ASSUME CycleTypeOK /\ PausedInv, [CycleNext]_cycleVars PROVE PausedInv'
  OBVIOUS
<1> USE CycleAssumption
<1>1. CASE Start
  BY <1>1 DEF Start, CycleTypeOK, PausedInv
<1>2. CASE Run
  BY <1>2 DEF Run, BeginFn, Waiters, Calling, CycleTypeOK, PausedInv
<1>3. CASE FnReturns
  BY <1>3 DEF FnReturns, NoCall, CycleTypeOK, PausedInv
<1>4. CASE FnFails
  BY <1>4 DEF FnFails, Finish, NoCall, CycleTypeOK, PausedInv
<1>5. CASE Check
  BY <1>5 DEF Check, Finish, NoCall, CycleTypeOK, PausedInv
<1>6. CASE SelectStop
  BY <1>6 DEF SelectStop, Finish, NoCall, CycleTypeOK, PausedInv
<1>7. CASE SelectTick
  BY <1>7 DEF SelectTick, BeginFn, Waiters, Calling, CycleTypeOK, PausedInv
<1>8. CASE Tick
  BY <1>8 DEF Tick, loopVars, CycleTypeOK, PausedInv
<1>9. CASE Cancel
  BY <1>9 DEF Cancel, loopVars, CycleTypeOK, PausedInv
<1>10. ASSUME NEW c \in Callers, NEW op \in Ops, Call(c, op) PROVE PausedInv'
  BY <1>10 DEF Call, CycleTypeOK, PausedInv
<1>11. ASSUME NEW c \in Callers, Block(c) PROVE PausedInv'
  BY <1>11 DEF Block, Goto, loopVars, CycleTypeOK, PausedInv
<1>12. ASSUME NEW c \in Callers, SendStopped(c) PROVE PausedInv'
  BY <1>12 DEF SendStopped, Return, NoCall, loopVars, CycleTypeOK, PausedInv
<1>13. ASSUME NEW c \in Callers, SendPanics(c) PROVE PausedInv'
  BY <1>13 DEF SendPanics, Goto, loopVars, CycleTypeOK, PausedInv
<1>14. ASSUME NEW c \in Callers, Receive(c) PROVE PausedInv'
  BY <1>14
     DEF Receive, BeginFn, Waiters, Calling, Goto, Return, NoCall, TickerMessage,
         TickerOps, CycleTypeOK, PausedInv
<1>15. ASSUME NEW s \in Stoppers, Signal(s) PROVE PausedInv'
  BY <1>15 DEF Signal, loopVars, CycleTypeOK, PausedInv
<1>16. ASSUME NEW s \in Stoppers, Load(s) PROVE PausedInv'
  BY <1>16 DEF Load, AfterStop, loopVars, CycleTypeOK, PausedInv
<1>17. ASSUME NEW s \in Stoppers, CloseControl(s) PROVE PausedInv'
  BY <1>17 DEF CloseControl, loopVars, CycleTypeOK, PausedInv
<1>18. CASE UNCHANGED cycleVars
  BY <1>18 DEF cycleVars, loopVars, CycleTypeOK, PausedInv
<1>19. QED
  BY <1>1, <1>2, <1>3, <1>4, <1>5, <1>6, <1>7, <1>8,
     <1>9, <1>10, <1>11, <1>12, <1>13, <1>14, <1>15, <1>16, <1>17, <1>18
     DEF CycleNext, Loop

\* Every step keeps StopInv.
LEMMA StopStep == CycleTypeOK /\ StopInv /\ [CycleNext]_cycleVars => StopInv'
<1> SUFFICES ASSUME CycleTypeOK /\ StopInv, [CycleNext]_cycleVars PROVE StopInv'
  OBVIOUS
<1> USE CycleAssumption
<1>1. CASE Start
  BY <1>1 DEF Start, CycleTypeOK, StopInv
<1>2. CASE Run
  BY <1>2 DEF Run, BeginFn, Waiters, Calling, CycleTypeOK, StopInv
<1>3. CASE FnReturns
  BY <1>3 DEF FnReturns, NoCall, CycleTypeOK, StopInv
<1>4. CASE FnFails
  BY <1>4 DEF FnFails, Finish, NoCall, CycleTypeOK, StopInv
<1>5. CASE Check
  BY <1>5 DEF Check, Finish, NoCall, CycleTypeOK, StopInv
<1>6. CASE SelectStop
  BY <1>6 DEF SelectStop, Finish, NoCall, CycleTypeOK, StopInv
<1>7. CASE SelectTick
  BY <1>7 DEF SelectTick, BeginFn, Waiters, Calling, CycleTypeOK, StopInv
<1>8. CASE Tick
  BY <1>8 DEF Tick, loopVars, CycleTypeOK, StopInv
<1>9. CASE Cancel
  BY <1>9 DEF Cancel, loopVars, CycleTypeOK, StopInv
<1>10. ASSUME NEW c \in Callers, NEW op \in Ops, Call(c, op) PROVE StopInv'
  BY <1>10 DEF Call, CycleTypeOK, StopInv
<1>11. ASSUME NEW c \in Callers, Block(c) PROVE StopInv'
  BY <1>11 DEF Block, Goto, loopVars, CycleTypeOK, StopInv
<1>12. ASSUME NEW c \in Callers, SendStopped(c) PROVE StopInv'
  BY <1>12 DEF SendStopped, Return, NoCall, loopVars, CycleTypeOK, StopInv
<1>13. ASSUME NEW c \in Callers, SendPanics(c) PROVE StopInv'
  BY <1>13 DEF SendPanics, Goto, loopVars, CycleTypeOK, StopInv
<1>14. ASSUME NEW c \in Callers, Receive(c) PROVE StopInv'
  BY <1>14
     DEF Receive, BeginFn, Waiters, Calling, Goto, Return, NoCall, TickerMessage,
         TickerOps, CycleTypeOK, StopInv
<1>15. ASSUME NEW s \in Stoppers, Signal(s) PROVE StopInv'
  BY <1>15 DEF Signal, loopVars, CycleTypeOK, StopInv
<1>16. ASSUME NEW s \in Stoppers, Load(s) PROVE StopInv'
  BY <1>16 DEF Load, AfterStop, loopVars, CycleTypeOK, StopInv
<1>17. ASSUME NEW s \in Stoppers, CloseControl(s) PROVE StopInv'
  BY <1>17 DEF CloseControl, loopVars, CycleTypeOK, StopInv
<1>18. CASE UNCHANGED cycleVars
  BY <1>18 DEF cycleVars, loopVars, CycleTypeOK, StopInv
<1>19. QED
  BY <1>1, <1>2, <1>3, <1>4, <1>5, <1>6, <1>7, <1>8,
     <1>9, <1>10, <1>11, <1>12, <1>13, <1>14, <1>15, <1>16, <1>17, <1>18
     DEF CycleNext, Loop

\* Every step keeps WaitInv: a waiting caller is only released by the fn it
\* waits for or by the end of the loop.
LEMMA WaitStep == CycleTypeOK /\ WaitInv /\ [CycleNext]_cycleVars => WaitInv'
<1> SUFFICES ASSUME CycleTypeOK /\ WaitInv, [CycleNext]_cycleVars PROVE WaitInv'
  OBVIOUS
<1> USE CycleAssumption
<1>1. CASE Start
  BY <1>1 DEF Start, CycleTypeOK, WaitInv, CallPcs
<1>2. CASE Run
  BY <1>2 DEF Run, BeginFn, Waiters, Calling, CycleTypeOK, WaitInv, CallPcs
<1>3. CASE FnReturns
  BY <1>3 DEF FnReturns, NoCall, CycleTypeOK, WaitInv, CallPcs
<1>4. CASE FnFails
  BY <1>4 DEF FnFails, Finish, NoCall, CycleTypeOK, WaitInv, CallPcs
<1>5. CASE Check
  BY <1>5 DEF Check, Finish, NoCall, CycleTypeOK, WaitInv, CallPcs
<1>6. CASE SelectStop
  BY <1>6 DEF SelectStop, Finish, NoCall, CycleTypeOK, WaitInv, CallPcs
<1>7. CASE SelectTick
  BY <1>7 DEF SelectTick, BeginFn, Waiters, Calling, CycleTypeOK, WaitInv, CallPcs
<1>8. CASE Tick
  BY <1>8 DEF Tick, loopVars, CycleTypeOK, WaitInv, CallPcs
<1>9. CASE Cancel
  BY <1>9 DEF Cancel, loopVars, CycleTypeOK, WaitInv, CallPcs
<1>10. ASSUME NEW c \in Callers, NEW op \in Ops, Call(c, op) PROVE WaitInv'
  BY <1>10 DEF Call, CycleTypeOK, WaitInv, CallPcs
<1>11. ASSUME NEW c \in Callers, Block(c) PROVE WaitInv'
  BY <1>11 DEF Block, Goto, loopVars, CycleTypeOK, WaitInv, CallPcs
<1>12. ASSUME NEW c \in Callers, SendStopped(c) PROVE WaitInv'
  BY <1>12 DEF SendStopped, Return, NoCall, loopVars, CycleTypeOK, WaitInv, CallPcs
<1>13. ASSUME NEW c \in Callers, SendPanics(c) PROVE WaitInv'
  BY <1>13 DEF SendPanics, Goto, loopVars, CycleTypeOK, WaitInv, CallPcs
<1>14. ASSUME NEW c \in Callers, Receive(c) PROVE WaitInv'
  BY <1>14
     DEF Receive, BeginFn, Waiters, Calling, Goto, Return, NoCall, TickerMessage,
         TickerOps, CycleTypeOK, WaitInv, CallPcs
<1>15. ASSUME NEW s \in Stoppers, Signal(s) PROVE WaitInv'
  BY <1>15 DEF Signal, loopVars, CycleTypeOK, WaitInv, CallPcs
<1>16. ASSUME NEW s \in Stoppers, Load(s) PROVE WaitInv'
  BY <1>16 DEF Load, AfterStop, loopVars, CycleTypeOK, WaitInv, CallPcs
<1>17. ASSUME NEW s \in Stoppers, CloseControl(s) PROVE WaitInv'
  BY <1>17 DEF CloseControl, loopVars, CycleTypeOK, WaitInv, CallPcs
<1>18. CASE UNCHANGED cycleVars
  BY <1>18 DEF cycleVars, loopVars, CycleTypeOK, WaitInv, CallPcs
<1>19. QED
  BY <1>1, <1>2, <1>3, <1>4, <1>5, <1>6, <1>7, <1>8,
     <1>9, <1>10, <1>11, <1>12, <1>13, <1>14, <1>15, <1>16, <1>17, <1>18
     DEF CycleNext, Loop

------------------------------------------------------------------------------

\* The inductive invariant holds in every reachable state of a cycle.
THEOREM CycleInvariant == CycleSpec => []CycleInv
<1>1. CycleInit => CycleInv
  <2> SUFFICES ASSUME CycleInit PROVE CycleInv
    OBVIOUS
  <2>1. CycleTypeOK
    BY CycleAssumption DEF CycleInit, CycleTypeOK, NoCall, CallPcs, StopPcs
  <2>2. LateInv /\ PausedInv /\ StopInv /\ WaitInv
    BY DEF CycleInit, LateInv, PausedInv, StopInv, WaitInv, NoCall
  <2>3. QED
    BY <2>1, <2>2 DEF CycleInv
<1>2. CycleInv /\ [CycleNext]_cycleVars => CycleInv'
  BY TypeStep, LateStep, PausedStep, StopStep, WaitStep DEF CycleInv
<1>3. QED
  BY <1>1, <1>2, PTL DEF CycleSpec

\* The types of the cycle, and that a trigger is served only inside fn, for any
\* number of callers and stoppers (cycle.go:22-45, 109-141).
THEOREM CycleTypeCorrect == CycleSpec => []CycleTypeOK
<1>1. CycleInv => CycleTypeOK
  BY DEF CycleInv
<1>2. QED
  BY <1>1, CycleInvariant, PTL

\* After Stop or cancellation fn begins at most once more (cycle.go:96-106).
THEOREM LateFnBound == CycleSpec => []AtMostOneLateFn
<1>1. CycleInv => AtMostOneLateFn
  BY DEF CycleInv, CycleTypeOK, LateInv, AtMostOneLateFn
<1>2. QED
  BY <1>1, CycleInvariant, PTL

\* Between Pause and Restart no tick is pending or can come (cycle.go:121-127).
THEOREM PauseHolds == CycleSpec => []PausedMeansNoTick
<1>1. CycleInv => PausedMeansNoTick
  BY DEF CycleInv, PausedInv, PausedMeansNoTick
<1>2. QED
  BY <1>1, CycleInvariant, PTL

\* Stop and Close called after Start or Run return only when the loop has ended
\* (cycle.go:68-73, 162-191).
THEOREM StopFinality == CycleSpec => []StopIsFinal
<1>1. CycleInv => StopIsFinal
  BY DEF CycleInv, StopInv, StopIsFinal
<1>2. QED
  BY <1>1, CycleInvariant, PTL

\* A TriggerWait that comes back while the loop lives has seen a whole execution
\* of fn that began after the call (cycle.go:133-140, 216-224).
THEOREM TriggerWaitSeen == CycleSpec => TriggerWaitRan
<1>1. ASSUME CycleInv, CycleNext, NEW c \in Callers,
             call[c].op = "TriggerWait", call[c].pc \in {"enter", "blocked", "wait"},
             call'[c].pc = "idle", ~stopped'
      PROVE  c \in fresh'
  <2> USE <1>1 DEF CycleInv
  <2>1. CASE FnReturns
    BY <2>1 DEF FnReturns, CycleTypeOK, WaitInv, NoCall
  <2>2. CASE FnFails \/ SelectStop \/ (Check /\ (stopping \/ ctxDone))
    BY <2>2 DEF FnFails, SelectStop, Check, Finish
  <2>3. CASE Start \/ Run \/ SelectTick \/ Tick \/ Cancel \/ (Check /\ ~(stopping \/ ctxDone))
    BY <2>3 DEF Start, Run, SelectTick, Tick, Cancel, Check, loopVars
  <2>4. ASSUME NEW d \in Callers, NEW op \in Ops, Call(d, op) PROVE c \in fresh'
    BY <2>4 DEF Call, CycleTypeOK
  <2>5. ASSUME NEW d \in Callers, Block(d) \/ SendStopped(d) \/ SendPanics(d) PROVE c \in fresh'
    BY <2>5
       DEF Block, SendStopped, SendPanics, Goto, Return, NoCall, CycleTypeOK, loopVars
  <2>6. ASSUME NEW d \in Callers, Receive(d) PROVE c \in fresh'
    BY <2>6 DEF Receive, Goto, Return, NoCall, CycleTypeOK, TickerOps
  <2>7. ASSUME NEW s \in Stoppers, Signal(s) \/ Load(s) \/ CloseControl(s) PROVE c \in fresh'
    BY <2>7 DEF Signal, Load, CloseControl
  <2>8. QED
    BY <2>1, <2>2, <2>3, <2>4, <2>5, <2>6, <2>7 DEF CycleNext, Loop
<1>2. CycleInv /\ [CycleNext]_cycleVars =>
        [\A c \in Callers :
           /\ call[c].op = "TriggerWait" /\ call[c].pc \in {"enter", "blocked", "wait"}
           /\ call'[c].pc = "idle" /\ ~stopped'
           => c \in fresh']_cycleVars
  BY <1>1
<1>3. QED
  BY <1>2, CycleInvariant, PTL DEF CycleSpec, TriggerWaitRan
==============================================================================
