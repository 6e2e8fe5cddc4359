------------------------------- MODULE Runtime -------------------------------
(***************************************************************************)
(* Goroutines at work: the primitives of sync2, errs2 and context2, the dial of several *)
(* candidates (HybridDial), the connection over a QUIC session that a dial or a    *)
(* listener returns (QuicConn), and the context that a test runs its goroutines    *)
(* in (TaskGroup). A behaviour is about the part chosen in its initial state,    *)
(* the others stay as they were made.                                              *)
(***************************************************************************)
EXTENDS Throttle, Limiter, Cooldown, TaskGroup, HybridDial, QuicConn

VARIABLES
  primitive,   \* which of the primitives, which do not use one another
  part

sync2Vars == <<throttleVars, groupVars, thresholdVars, limiterVars, semaVars,
               cooldownVars, taskVars, cancelVars, primitive>>

Primitives == {"Throttle", "WorkGroup", "SuccessThreshold", "Limiter", "Semaphore", "Cooldown",
               "Group", "WithTimeout", "Collect", "Fence", "CustomCancel"}

Sync2Init ==
  /\ primitive \in Primitives
  /\ ThrottleInit /\ GroupInit /\ ThresholdInit /\ LimiterInit /\ CooldownInit /\ TaskInit /\ CancelInit
  \* one initial state for the primitives a behaviour is not about
  /\ primitive # "SuccessThreshold" => threshold = 0

Only(p, vars) == primitive = p /\ UNCHANGED <<vars, primitive>>

Sync2Next ==
  \/ ThrottleNext /\ Only("Throttle", <<groupVars, thresholdVars, limiterVars, semaVars, cooldownVars, taskVars, cancelVars>>)
  \/ GroupNext /\ Only("WorkGroup", <<throttleVars, thresholdVars, limiterVars, semaVars, cooldownVars, taskVars, cancelVars>>)
  \/ ThresholdNext /\ Only("SuccessThreshold", <<throttleVars, groupVars, limiterVars, semaVars, cooldownVars, taskVars, cancelVars>>)
  \/ LimiterNext /\ Only("Limiter", <<throttleVars, groupVars, thresholdVars, cooldownVars, taskVars, cancelVars>>)
  \/ SemaphoreNext /\ Only("Semaphore", <<throttleVars, groupVars, thresholdVars, cooldownVars, taskVars, cancelVars>>)
  \/ CooldownNext /\ Only("Cooldown", <<throttleVars, groupVars, thresholdVars, limiterVars, semaVars, taskVars, cancelVars>>)
  \/ RunGroupNext /\ Only("Group", <<throttleVars, groupVars, thresholdVars, limiterVars, semaVars, cooldownVars, cancelVars>>)
  \/ TimeoutNext /\ Only("WithTimeout", <<throttleVars, groupVars, thresholdVars, limiterVars, semaVars, cooldownVars, cancelVars>>)
  \/ CollectNext /\ Only("Collect", <<throttleVars, groupVars, thresholdVars, limiterVars, semaVars, cooldownVars, cancelVars>>)
  \/ FenceNext /\ Only("Fence", <<throttleVars, groupVars, thresholdVars, limiterVars, semaVars, cooldownVars, cancelVars>>)
  \/ CancelNext /\ Only("CustomCancel", <<throttleVars, groupVars, thresholdVars, limiterVars, semaVars, cooldownVars, taskVars>>)

------------------------------------------------------------------------------

runtimeVars == <<sync2Vars, hybridVars, quicVars, testVars, part>>

RuntimeInit ==
  /\ part \in {"sync2", "dial", "quic", "test"}
  /\ Sync2Init /\ HybridInit /\ QuicInit /\ TestInit
  \* one initial state for the parts a behaviour is not about
  /\ part # "sync2" => primitive = "Throttle" /\ threshold = 0
  /\ part # "quic" => incoming

RuntimeNext ==
  /\ UNCHANGED part
  /\ \/ part = "sync2" /\ Sync2Next /\ UNCHANGED <<hybridVars, quicVars, testVars>>
     \/ part = "dial" /\ HybridNext /\ UNCHANGED <<sync2Vars, quicVars, testVars>>
     \/ part = "quic" /\ QuicNext /\ UNCHANGED <<sync2Vars, hybridVars, testVars>>
     \/ part = "test" /\ TestNext /\ UNCHANGED <<sync2Vars, hybridVars, quicVars>>

RuntimeSpec ==
  RuntimeInit /\ [][RuntimeNext]_runtimeVars /\ CooldownFairness /\ HybridFairness /\ QuicFairness

------------------------------------------------------------------------------

\* Nobody sleeps through what it waits for: neither side of a throttle, and no
\* waiter of a work group whose last worker is gone (throttle.go:40-111,
\* workgroup.go:64-78).
NoLostWakeUp == NoMissedSignal /\ WaiterWoken

\* A wait that has returned leaves nothing behind of what it waited for: no function
\* of a closed work group, of a limiter or of an errs2.Group still runs or is about to,
\* the goroutine of WithTimeout is gone, what Collect returns is the first errors sent,
\* in order and without a gap, and nobody has passed an unreleased fence
\* (workgroup.go:31-78, limiter.go:29-51, group.go:17-36, timeout.go:15-34,
\* collect.go:13-40, fence.go:35-48).
WaitCovers == ClosedThenQuiet /\ LimiterWaitCovers /\ NothingLeftBehind

\* A wait that has returned leaves nothing behind of what it waited for, be it of a
\* primitive of sync2 or errs2, or of the goroutines of a test, which fails if they did
\* not end (workgroup.go:31-78, limiter.go:29-51, group.go:17-36, timeout.go:15-34,
\* collect.go:13-40, fence.go:35-48, testcontext/context.go:124-164, 230-305); and before
\* it returns no more run than there are slots (LimitKept).
WaitsCover == WaitCovers /\ CleanTest /\ LimitKept

\* Whoever waits is let go: every Stop of a cooldown returns, a dial that has a
\* connection or whose context is done returns whatever the other peers do, and a
\* session that ends frees the users of its stream (cooldown.go:119-129,
\* hybrid.go:211-226, quic/conn.go:79-87).
EveryWaitEnds == CooldownStopReturns /\ DialEnds /\ SessionEndFrees
==============================================================================
