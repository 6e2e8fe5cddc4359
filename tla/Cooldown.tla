------------------------------- MODULE Cooldown -------------------------------
(***************************************************************************)
(* sync2.Cooldown: a function that runs on a trigger and then not again before   *)
(* an interval has passed. The trigger channel holds one message; a message that *)
(* is in it when the interval ends is dropped.                                   *)
(***************************************************************************)
EXTENDS Integers, FiniteSets

CONSTANTS
  Stoppers,      \* goroutines that call Stop; one of them may call Close
  MaxCoolRuns    \* bound on the number of executions of fn

VARIABLES
  cloop,         \* pc of Run: "none", "started", "check", "select", "fn", "sleep", "drain", "stopped"
  runexec, stopsent, cstopping,
  trigger,       \* the channel: "empty", "cold" (sent outside the interval), "hot", "closed"
  ctxDone,       \* the context of Run is done
  cstop,         \* pc of each Stop: "idle", "close", "load", "wait", "returned"; Close: "closing", "closed"
  early,         \* history: the Stops that returned before the channel stopping was closed
  firedHot,      \* history: fn was run by a trigger of the interval before
  runs

cooldownVars == <<cloop, runexec, stopsent, cstopping, trigger, ctxDone, cstop, early, firedHot, runs>>
cstopVars == <<runexec, stopsent, cstopping, cstop, early>>

Loop(from, to) == cloop = from /\ cloop' = to

\* The channel after a receive; one that is closed can be received from for ever.
Received == IF trigger = "closed" THEN "closed" ELSE "empty"

\* Start marks the cooldown as running before its goroutine exists.
CooldownStart ==
  /\ Loop("none", "started") /\ runexec' = TRUE
  /\ UNCHANGED <<stopsent, cstopping, trigger, ctxDone, cstop, early, firedHot, runs>>

\* Run, called directly or by the goroutine of Start.
CooldownRun ==
  /\ cloop \in {"none", "started"} /\ cloop' = "check" /\ runexec' = TRUE
  /\ UNCHANGED <<stopsent, cstopping, trigger, ctxDone, cstop, early, firedHot, runs>>

\* "prioritize stopping messages"
CooldownCheck ==
  /\ Loop("check", IF cstopping \/ ctxDone THEN "stopped" ELSE "select")
  /\ UNCHANGED <<cstopVars, trigger, ctxDone, firedHot, runs>>

CooldownSelect ==
  /\ \/ /\ trigger # "empty" /\ runs < MaxCoolRuns
        /\ Loop("select", "fn") /\ trigger' = Received /\ runs' = runs + 1
        /\ firedHot' = (firedHot \/ trigger = "hot")
     \/ /\ cstopping \/ ctxDone
        /\ Loop("select", "stopped") /\ UNCHANGED <<trigger, firedHot, runs>>
  /\ UNCHANGED <<cstopVars, ctxDone>>

FnReturns ==
  /\ \/ Loop("fn", "sleep")
     \/ Loop("fn", "stopped")           \* fn failed
  /\ UNCHANGED <<cstopVars, trigger, ctxDone, firedHot, runs>>

\* Sleep ends with the interval or with the context, not with Stop.
CooldownSleep ==
  /\ \/ Loop("sleep", "drain")
     \/ ctxDone /\ Loop("sleep", "stopped")
  /\ UNCHANGED <<cstopVars, trigger, ctxDone, firedHot, runs>>

NoDrain == Loop("drain", "check") /\ UNCHANGED <<cstopVars, trigger, ctxDone, firedHot, runs>>

Drain ==
  /\ Loop("drain", "check") /\ trigger' = Received
  /\ UNCHANGED <<cstopVars, ctxDone, firedHot, runs>>

Trigger ==
  /\ trigger = "empty"
  /\ trigger' = IF cloop \in {"fn", "sleep", "drain"} THEN "hot" ELSE "cold"
  /\ UNCHANGED <<cloop, cstopVars, ctxDone, firedHot, runs>>

CooldownCancel == ctxDone' = TRUE /\ UNCHANGED <<cloop, cstopVars, trigger, firedHot, runs>>

\* Stop: the first one goes on to close the channel, the others go past it, and each then
\* looks whether Run was called.
StopSend(s) ==
  /\ cstop[s] = "idle" /\ cstop' = [cstop EXCEPT ![s] = IF stopsent THEN "load" ELSE "close"]
  /\ stopsent' = TRUE
  /\ UNCHANGED <<cloop, runexec, cstopping, trigger, ctxDone, early, firedHot, runs>>

StopClose(s) ==
  /\ cstop[s] = "close" /\ cstop' = [cstop EXCEPT ![s] = "load"]
  /\ cstopping' = TRUE
  /\ UNCHANGED <<cloop, runexec, stopsent, trigger, ctxDone, early, firedHot, runs>>

StopLoad(s) ==
  /\ cstop[s] = "load" /\ cstop' = [cstop EXCEPT ![s] = IF runexec THEN "wait" ELSE "returned"]
  /\ early' = IF runexec \/ cstopping THEN early ELSE early \cup {s}
  /\ UNCHANGED <<cloop, runexec, stopsent, cstopping, trigger, ctxDone, firedHot, runs>>

StopWait(s) ==
  /\ cstop[s] = "wait" /\ cloop = "stopped"
  /\ cstop' = [cstop EXCEPT ![s] = "returned"]
  /\ UNCHANGED <<cloop, runexec, stopsent, cstopping, trigger, ctxDone, early, firedHot, runs>>

\* Close stops, waits for Run if it was called, and closes the channel.
CloseLoad(s) ==
  /\ cstop[s] = "returned" /\ \A o \in Stoppers : cstop[o] \notin {"closing", "closed"}
  /\ runexec => cloop = "stopped"
  /\ cstop' = [cstop EXCEPT ![s] = "closing"]
  /\ UNCHANGED <<cloop, runexec, stopsent, cstopping, trigger, ctxDone, early, firedHot, runs>>

CloseTrigger(s) ==
  /\ cstop[s] = "closing" /\ cstop' = [cstop EXCEPT ![s] = "closed"]
  /\ trigger' = "closed"
  /\ UNCHANGED <<cloop, runexec, stopsent, cstopping, ctxDone, early, firedHot, runs>>

------------------------------------------------------------------------------

CooldownInit ==
  /\ cloop = "none" /\ runexec = FALSE /\ stopsent = FALSE /\ cstopping = FALSE
  /\ trigger = "empty" /\ ctxDone = FALSE
  /\ cstop = [s \in Stoppers |-> "idle"]
  /\ early = {} /\ firedHot = FALSE /\ runs = 0

CooldownLoop == CooldownCheck \/ CooldownSelect \/ FnReturns \/ CooldownSleep \/ Drain

CooldownNext ==
  \/ CooldownStart \/ CooldownRun \/ CooldownLoop
  \/ Trigger \/ CooldownCancel
  \/ \E s \in Stoppers : StopSend(s) \/ StopClose(s) \/ StopLoad(s) \/ StopWait(s) \/ CloseLoad(s) \/ CloseTrigger(s)

\* A goroutine that was started runs, fn returns and the interval passes.
CooldownFairness ==
  /\ WF_cooldownVars(CooldownLoop)
  /\ WF_cooldownVars(cloop = "started" /\ CooldownRun)
  /\ \A s \in Stoppers :
       WF_cooldownVars(StopClose(s)) /\ WF_cooldownVars(StopLoad(s)) /\ WF_cooldownVars(StopWait(s))

StopReturned(s) == cstop[s] \in {"returned", "closing", "closed"}

\* "If the timer has not expired, the function will not run" (cooldown.go:132): no
\* execution is caused by a trigger of the interval before it; and once a Stop has
\* returned the function does not run, also when Run begins after it, unless that Stop
\* lost the race for stopsent and returned before the winner closed the channel
\* (cooldown.go:119-129).
CooldownHolds ==
  /\ ~firedHot
  /\ \A s \in Stoppers \ early : StopReturned(s) => cloop # "fn"

\* Every Stop returns, after a last execution and its interval at worst, also when another
\* goroutine is to close the channel (cooldown.go:119-129).
CooldownStopReturns == \A s \in Stoppers : cstop[s] \in {"close", "load"} ~> cstop[s] = "returned"
==============================================================================
