-------------------------------- MODULE Cycle --------------------------------
(***************************************************************************)
(* sync2.Cycle: a goroutine (Run) that executes fn on a ticker and on        *)
(* request, the control calls other goroutines make (Pause, Restart,         *)
(* ChangeInterval, Trigger, TriggerWait), and Stop and Close.                 *)
(*                                                                         *)
(* The channels stopping and stopped are closed or not; control is           *)
(* unbuffered, so a control message is a joint step of sender and loop.       *)
(* Intervals carry no information here: a running ticker may tick any time.   *)
(***************************************************************************)
EXTENDS Naturals

CONSTANTS
  Callers,   \* goroutines that use the control methods
  NoCaller,  \* nobody waits for the end of the current fn
  Stoppers,  \* goroutines that call Stop
  Closer     \* the one that calls Close: it must not be called concurrently

ASSUME CycleAssumption ==
  /\ NoCaller \notin Callers
  /\ Closer \in Stoppers

VARIABLES
  run,       \* Run: "none", "started" (Start only), "fn", "check", "select", "done"
  runexec,   \* the flag runexec
  stopping,  \* stopsent and the closed channel stopping
  stopped,   \* the channel stopped is closed
  ctrlClosed,\* the channel control is closed
  ctxDone,   \* the context of Run is cancelled
  ticker,    \* the ticker is running
  tick,      \* a tick is in the ticker's channel
  serving,   \* who waits on the done channel of the trigger fn runs for
  call,      \* control calls: op and pc of each caller
  stop,      \* Stop and Close: pc of each stopper
  paused,    \* history: Pause was the last ticker message handled
  lateFn,    \* history: fn executions begun after stopping or ctxDone
  began,     \* history: Start or Run had been called when the stopper signalled
  covers,    \* history: TriggerWaits called before the current fn execution began
  fresh      \* history: TriggerWaits during which a whole fn execution took place

loopVars == <<run, stopped, ticker, tick, serving, paused, lateFn, covers, fresh>>
cycleVars == <<loopVars, runexec, stopping, ctrlClosed, ctxDone, call, stop, began>>

\* ChangeInterval and Restart differ in the interval of the new ticker only.
TickerOps == {"Pause", "Restart"}
Ops == TickerOps \cup {"Trigger", "TriggerWait"}

CallPcs == {"idle", "enter", "blocked", "wait", "panicked"}
StopPcs == {"idle", "signalled", "waiting", "again", "closing", "returned"}

NoCall == [op |-> "none", pc |-> "idle"]
Goto(c, pc) == call' = [call EXCEPT ![c].pc = pc]
Return(c) == call' = [call EXCEPT ![c] = NoCall]
Calling == {c \in Callers : call[c].pc \in {"enter", "blocked", "wait"}}
Waiters == {c \in Calling : call[c].op = "TriggerWait"}

------------------------------------------------------------------------------
(* The loop. *)

\* fn is called: `who' waits for its end.
BeginFn(who) ==
  /\ run' = "fn"
  /\ serving' = who
  /\ lateFn' = IF stopping \/ ctxDone THEN lateFn + 1 ELSE lateFn
  /\ covers' = Waiters

\* Bug form: stopped is never closed.
FinishSilently ==
  /\ run' = "done"
  /\ ticker' = FALSE /\ tick' = FALSE /\ serving' = NoCaller
  /\ covers' = {} /\ fresh' = {}
  /\ UNCHANGED <<stopped, paused, lateFn, call>>

\* Run returns and closes stopped: every goroutine blocked in a select on it
\* is released, whatever happens to the other channels afterwards.
Finish ==
  /\ run' = "done" /\ stopped' = TRUE
  /\ ticker' = FALSE /\ tick' = FALSE /\ serving' = NoCaller
  /\ covers' = {} /\ fresh' = {}
  /\ call' = [c \in Callers |-> IF call[c].pc \in {"blocked", "wait"}
                                THEN NoCall ELSE call[c]]
  /\ UNCHANGED <<paused, lateFn>>

\* Bug form: the flag is left to Run.
StartUnmarked ==
  /\ run = "none"
  /\ run' = "started"
  /\ UNCHANGED <<stopped, ticker, tick, serving, paused, lateFn, covers, fresh,
                 runexec, stopping, ctrlClosed, ctxDone, call, stop, began>>

\* Start marks the loop as running before its goroutine exists.
Start ==
  /\ run = "none"
  /\ run' = "started"
  /\ runexec' = TRUE
  /\ UNCHANGED <<stopped, ticker, tick, serving, paused, lateFn, covers, fresh,
                 stopping, ctrlClosed, ctxDone, call, stop, began>>

\* Run, called directly or by Start's goroutine: fn runs once before the loop.
Run ==
  /\ run \in {"none", "started"}
  /\ runexec' = TRUE
  /\ ticker' = TRUE
  /\ BeginFn(NoCaller)
  /\ UNCHANGED <<stopped, tick, paused, fresh, stopping, ctrlClosed, ctxDone, call, stop, began>>

\* Bug form: the done channel is never closed.
FnReturnsNoDone ==
  /\ run = "fn"
  /\ run' = "check"
  /\ serving' = NoCaller
  /\ fresh' = fresh \cup covers
  /\ covers' = {}
  /\ UNCHANGED <<stopped, ticker, tick, paused, lateFn, call,
                 runexec, stopping, ctrlClosed, ctxDone, stop, began>>

\* fn returned nil: the done channel of the trigger is closed.
FnReturns ==
  /\ run = "fn"
  /\ run' = "check"
  /\ call' = IF serving = NoCaller THEN call ELSE [call EXCEPT ![serving] = NoCall]
  /\ serving' = NoCaller
  /\ fresh' = fresh \cup covers
  /\ covers' = {}
  /\ UNCHANGED <<stopped, ticker, tick, paused, lateFn,
                 runexec, stopping, ctrlClosed, ctxDone, stop, began>>

FnFails ==
  /\ run = "fn"
  /\ Finish
  /\ UNCHANGED <<runexec, stopping, ctrlClosed, ctxDone, stop, began>>

\* Bug form: without that select, the loop waits for any of its channels.
CheckNothing ==
  /\ run = "check"
  /\ run' = "select"
  /\ UNCHANGED <<stopped, ticker, tick, serving, paused, lateFn, covers, fresh, call,
                 runexec, stopping, ctrlClosed, ctxDone, stop, began>>

\* The select that gives stopping and the context priority.
Check ==
  /\ run = "check"
  /\ IF stopping \/ ctxDone THEN Finish
     ELSE /\ run' = "select"
          /\ UNCHANGED <<stopped, ticker, tick, serving, paused, lateFn, covers, fresh, call>>
  /\ UNCHANGED <<runexec, stopping, ctrlClosed, ctxDone, stop, began>>

SelectStop ==
  /\ run = "select"
  /\ stopping \/ ctxDone
  /\ Finish
  /\ UNCHANGED <<runexec, stopping, ctrlClosed, ctxDone, stop, began>>

SelectTick ==
  /\ run = "select"
  /\ tick
  /\ tick' = FALSE
  /\ BeginFn(NoCaller)
  /\ UNCHANGED <<stopped, ticker, paused, fresh,
                 runexec, stopping, ctrlClosed, ctxDone, call, stop, began>>

\* Bug form: a tick already in the channel survives Pause.
TickerMessageNoDrain(op) ==
  /\ ticker' = (op # "Pause")
  /\ tick' = (tick /\ op = "Pause")
  /\ paused' = (op = "Pause")

\* Pause stops the ticker and drains it; the others start a new one.
TickerMessage(op) ==
  /\ ticker' = (op # "Pause")
  /\ tick' = FALSE
  /\ paused' = (op = "Pause")

\* Bug form: the done channel is closed before fn has run.
ReceiveEarlyDone(c) ==
  /\ run = "select"
  /\ call[c].pc \in {"enter", "blocked"}
  /\ call[c].op \in {"Trigger", "TriggerWait"}
  /\ BeginFn(NoCaller)
  /\ Return(c)
  /\ UNCHANGED <<ticker, tick, paused>>
  /\ UNCHANGED <<stopped, fresh, runexec, stopping, ctrlClosed, ctxDone, stop, began>>

\* The loop receives c's control message.
Receive(c) ==
  /\ run = "select"
  /\ call[c].pc \in {"enter", "blocked"}
  /\ \/ /\ call[c].op \in TickerOps
        /\ TickerMessage(call[c].op)
        /\ run' = "check"
        /\ Return(c)
        /\ UNCHANGED <<serving, lateFn, covers>>
     \/ /\ call[c].op = "Trigger"
        /\ BeginFn(NoCaller)
        /\ Return(c)
        /\ UNCHANGED <<ticker, tick, paused>>
     \/ /\ call[c].op = "TriggerWait"
        /\ BeginFn(c)
        /\ Goto(c, "wait")
        /\ UNCHANGED <<ticker, tick, paused>>
  /\ UNCHANGED <<stopped, fresh, runexec, stopping, ctrlClosed, ctxDone, stop, began>>

\* time.Ticker: a tick is dropped when one is already pending.
Tick ==
  /\ ticker /\ ~tick
  /\ tick' = TRUE
  /\ UNCHANGED <<run, stopped, ticker, serving, paused, lateFn, covers, fresh,
                 runexec, stopping, ctrlClosed, ctxDone, call, stop, began>>

Cancel ==
  /\ ~ctxDone
  /\ ctxDone' = TRUE
  /\ UNCHANGED <<loopVars, runexec, stopping, ctrlClosed, call, stop, began>>

------------------------------------------------------------------------------
(* Control calls: sendControl and the second select of TriggerWait. *)

Call(c, op) ==
  /\ call[c].pc = "idle"
  /\ call' = [call EXCEPT ![c] = [op |-> op, pc |-> "enter"]]
  /\ fresh' = fresh \ {c} /\ covers' = covers \ {c}
  /\ UNCHANGED <<run, stopped, ticker, tick, serving, paused, lateFn,
                 runexec, stopping, ctrlClosed, ctxDone, stop, began>>

\* Nobody receives and stopped is open: the select blocks.
Block(c) ==
  /\ call[c].pc = "enter" /\ ~stopped /\ ~ctrlClosed
  /\ Goto(c, "blocked")
  /\ UNCHANGED <<loopVars, runexec, stopping, ctrlClosed, ctxDone, stop, began>>

SendStopped(c) ==
  /\ call[c].pc = "enter" /\ stopped
  /\ Return(c)
  /\ UNCHANGED <<loopVars, runexec, stopping, ctrlClosed, ctxDone, stop, began>>

\* A send on the closed control channel; blocked senders panic too.
SendPanics(c) ==
  /\ call[c].pc \in {"enter", "blocked"} /\ ctrlClosed
  /\ Goto(c, "panicked")
  /\ UNCHANGED <<loopVars, runexec, stopping, ctrlClosed, ctxDone, stop, began>>

------------------------------------------------------------------------------
(* Stop and Close. *)

Signal(s) ==
  /\ stop[s] = "idle"
  /\ stopping' = TRUE
  /\ stop' = [stop EXCEPT ![s] = "signalled"]
  /\ began' = IF run # "none" THEN began \cup {s} ELSE began
  /\ UNCHANGED <<loopVars, runexec, ctrlClosed, ctxDone, call>>

\* What follows Stop: Close looks at runexec once more, then closes control.
AfterStop(s) == IF s = Closer THEN "again" ELSE "returned"

\* Stop waits for the loop only if it has seen runexec set.
Load(s) ==
  /\ \/ /\ stop[s] = "signalled"
        /\ stop' = [stop EXCEPT ![s] = IF runexec THEN "waiting" ELSE AfterStop(s)]
     \/ /\ stop[s] = "waiting" /\ stopped
        /\ stop' = [stop EXCEPT ![s] = AfterStop(s)]
     \/ /\ stop[s] = "again" /\ (runexec => stopped)
        /\ stop' = [stop EXCEPT ![s] = "closing"]
  /\ UNCHANGED <<loopVars, runexec, stopping, ctrlClosed, ctxDone, call, began>>

CloseControl(s) ==
  /\ stop[s] = "closing"
  /\ ctrlClosed' = TRUE
  /\ stop' = [stop EXCEPT ![s] = "returned"]
  /\ UNCHANGED <<loopVars, runexec, stopping, ctxDone, call, began>>

------------------------------------------------------------------------------

CycleInit ==
  /\ run = "none" /\ serving = NoCaller
  /\ runexec = FALSE /\ stopping = FALSE /\ stopped = FALSE
  /\ ctrlClosed = FALSE /\ ctxDone = FALSE
  /\ ticker = FALSE /\ tick = FALSE /\ paused = FALSE
  /\ call = [c \in Callers |-> NoCall]
  /\ stop = [s \in Stoppers |-> "idle"]
  /\ lateFn = 0 /\ began = {} /\ covers = {} /\ fresh = {}

Loop == Run \/ FnReturns \/ FnFails \/ Check \/ SelectStop \/ SelectTick

CycleNext ==
  \/ Start \/ Loop \/ Tick \/ Cancel
  \/ \E c \in Callers :
       \/ \E op \in Ops : Call(c, op)
       \/ Block(c) \/ SendStopped(c) \/ SendPanics(c) \/ Receive(c)
  \/ \E s \in Stoppers : Signal(s) \/ Load(s) \/ CloseControl(s)

(***************************************************************************)
(* The scheduler runs every goroutine that can run; fn is assumed to return  *)
(* once called. A select with several ready cases picks one at random, so a  *)
(* message that is offered again and again is received: strong fairness.     *)
(* Nobody is obliged to call anything.                                       *)
(***************************************************************************)
CycleFairness ==
  /\ WF_cycleVars(Loop /\ run # "none")
  /\ \A c \in Callers :
       /\ WF_cycleVars(Block(c) \/ SendStopped(c) \/ SendPanics(c))
       /\ SF_cycleVars(Receive(c))
  /\ \A s \in Stoppers : WF_cycleVars(Load(s) \/ CloseControl(s))

CycleSpec == CycleInit /\ [][CycleNext]_cycleVars /\ CycleFairness

------------------------------------------------------------------------------

\* Type invariant of the cycle; a trigger is served while its caller waits.
CycleTypeOK ==
  /\ run \in {"none", "started", "fn", "check", "select", "done"}
  /\ serving \in Callers \cup {NoCaller}
  /\ serving # NoCaller => run = "fn" /\ call[serving].pc = "wait"
  /\ runexec \in BOOLEAN /\ stopping \in BOOLEAN /\ stopped \in BOOLEAN
  /\ ctrlClosed \in BOOLEAN /\ ctxDone \in BOOLEAN
  /\ ticker \in BOOLEAN /\ tick \in BOOLEAN /\ paused \in BOOLEAN
  /\ call \in [Callers -> [op : Ops \cup {"none"}, pc : CallPcs]]
  /\ stop \in [Stoppers -> StopPcs]
  /\ lateFn \in Nat
  /\ began \subseteq Stoppers /\ covers \subseteq Callers /\ fresh \subseteq Callers

\* Once stopping is closed or the context is cancelled, fn begins at most once
\* more: the prioritised select of the loop (cycle.go:96-106).
AtMostOneLateFn == lateFn <= 1

\* From Pause until Restart or ChangeInterval no tick can start fn, not even one
\* that was already pending when Pause was handled (cycle.go:121-127).
PausedMeansNoTick == paused => ~tick /\ ~ticker

\* Stop or Close called after Start or Run returns only when fn is not running
\* and never will again (runexec is set by Start itself, cycle.go:69, 188).
StopIsFinal == \A s \in began : stop[s] = "returned" => run = "done"

\* A TriggerWait that returns while the loop lives has seen a whole execution
\* of fn that began after the call (cycle.go:133-140, 216-224).
TriggerWaitRan ==
  [][\A c \in Callers :
       /\ call[c].op = "TriggerWait" /\ call[c].pc \in {"enter", "blocked", "wait"}
       /\ call'[c].pc = "idle" /\ ~stopped'
       => c \in fresh']_cycleVars

\* Stop and Close return, whatever the ticker and the callers do meanwhile.
StopReturns == \A s \in Stoppers : stop[s] # "idle" ~> stop[s] = "returned"

\* A control call on a cycle that runs or has run does not block for ever: the
\* message is received, or the end of the loop releases the caller.
CallReturns ==
  \A c \in Callers :
    (c \in Calling /\ run # "none") ~> (call[c].pc \in {"idle", "panicked"})
==============================================================================
