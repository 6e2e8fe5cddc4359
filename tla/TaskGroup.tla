------------------------------ MODULE TaskGroup ------------------------------
(***************************************************************************)
(* The helpers that wait for goroutines of their own: errs2.Group, with         *)
(* sync2.Concurrently on top of it, sync2.WithTimeout, errs2.Collect and          *)
(* sync2.Fence; then context2.CustomCancel, and the context of a test, which runs  *)
(* goroutines in a group of its own.                                             *)
(***************************************************************************)
EXTENDS Integers, FiniteSets, Sequences

CONSTANTS
  GroupFns,      \* functions given to Concurrently, or to Go before Wait
  FenceWaiters,  \* goroutines that call Fence.Wait
  MaxErrs        \* bound on the errors sent to the channel of Collect, and on its length

VARIABLES
  gfn,        \* of each function: "new", "running", "failed", "locked", "over"
  gcount,     \* wg
  gerrors,    \* group.errors
  gresult,    \* what Wait returned, or "none"
  work,       \* WithTimeout: pc of the caller: "idle", "do", "doneWork", "returned"
  timer,      \* pc of its goroutine: "none", "select", "onTimeout", "exited"
  errch,      \* what is in the channel given to Collect
  errsent,    \* how many errors were sent to it, nil not counted
  errclosed,  \* it is closed
  collected,  \* errlist of Collect, without nil
  collecting, \* "first", "more", "returned"
  discard,    \* discardNil: the error it is sending, or "none"
  released,   \* Fence: done is closed
  fwait       \* of each waiter: "idle", "select", "true", "false"

runGroupVars == <<gfn, gcount, gerrors, gresult>>
timeoutVars == <<work, timer>>
collectVars == <<errch, errsent, errclosed, collected, collecting, discard>>
fenceVars == <<released, fwait>>
taskVars == <<runGroupVars, timeoutVars, collectVars, fenceVars>>

------------------------------------------------------------------------------
(* errs2.Group *)

Fn(f, from, to) == gfn[f] = from /\ gfn' = [gfn EXCEPT ![f] = to]

GroupGo(f) ==
  /\ gresult = "none" /\ Fn(f, "new", "running") /\ gcount' = gcount + 1
  /\ UNCHANGED <<gerrors, gresult>>

FnFails(f) == Fn(f, "running", "failed") /\ UNCHANGED <<gcount, gerrors, gresult>>

FnOk(f) == Fn(f, "running", "over") /\ gcount' = gcount - 1 /\ UNCHANGED <<gerrors, gresult>>

\* append under the mutex; the deferred calls unlock it and then call wg.Done.
FnAppends(f) == Fn(f, "failed", "locked") /\ gerrors' = gerrors \cup {f} /\ UNCHANGED <<gcount, gresult>>

FnDone(f) == Fn(f, "locked", "over") /\ gcount' = gcount - 1 /\ UNCHANGED <<gerrors, gresult>>

\* Wait, called when all functions have been given to Go.
GroupWait ==
  /\ gresult = "none" /\ \A f \in GroupFns : gfn[f] # "new"
  /\ gcount = 0 /\ gresult' = "errors"
  /\ UNCHANGED <<gfn, gcount, gerrors>>

------------------------------------------------------------------------------
(* sync2.WithTimeout *)

WithTimeout == work = "idle" /\ work' = "do" /\ timer' = "select"

WorkReturns == work = "do" /\ work' = "doneWork" /\ UNCHANGED timer

TimerSelect ==
  /\ timer = "select"
  /\ timer' \in {"onTimeout"} \cup (IF work = "doneWork" THEN {"exited"} ELSE {})
  /\ UNCHANGED work

OnTimeoutReturns == timer = "onTimeout" /\ timer' = "exited" /\ UNCHANGED work

TimeoutReturns == work = "doneWork" /\ timer = "exited" /\ work' = "returned" /\ UNCHANGED timer

------------------------------------------------------------------------------
(* errs2.Collect and discardNil: nil is 0, the n-th error sent is n. *)

\* nil, or the next error.
SendErr(e) ==
  /\ ~errclosed /\ Len(errch) < MaxErrs
  /\ e \in {0, errsent + 1}
  /\ errch' = Append(errch, e) /\ errsent' = errsent + (IF e = 0 THEN 0 ELSE 1)
  /\ UNCHANGED <<errclosed, collected, collecting, discard>>

CloseErrs == errclosed' = TRUE /\ UNCHANGED <<errch, errsent, collected, collecting, discard>>

\* The goroutine takes the next error, skips nil, and goes on when it was received.
DiscardNil ==
  /\ discard = 0 /\ errch # <<>>
  /\ discard' = Head(errch) /\ errch' = Tail(errch)
  /\ UNCHANGED <<errsent, errclosed, collected, collecting>>

\* A receive of Collect, the first without a timeout. The goroutine closes its
\* channel at the end of the errors, and receives then give nil at once, which
\* errs.Combine leaves out of the result.
CollectErr ==
  /\ collecting # "returned"
  /\ discard # 0 \/ (errclosed /\ errch = <<>>)
  /\ collected' = IF discard = 0 THEN collected ELSE Append(collected, discard)
  /\ discard' = 0 /\ collecting' = "more"
  /\ UNCHANGED <<errch, errsent, errclosed>>

CollectTimeout ==
  /\ collecting = "more" /\ collecting' = "returned"
  /\ UNCHANGED <<errch, errsent, errclosed, collected, discard>>

------------------------------------------------------------------------------
(* sync2.Fence *)

FenceRelease == released' = TRUE /\ UNCHANGED fwait

FenceWait(g) ==
  /\ fwait[g] = "idle" /\ fwait' = [fwait EXCEPT ![g] = IF released THEN "true" ELSE "select"]
  /\ UNCHANGED released

\* The inner select: the fence or the context of the caller.
FenceSelect(g) ==
  /\ fwait[g] = "select"
  /\ \E how \in {"false"} \cup (IF released THEN {"true"} ELSE {}) : fwait' = [fwait EXCEPT ![g] = how]
  /\ UNCHANGED released

------------------------------------------------------------------------------

TaskInit ==
  /\ gfn = [f \in GroupFns |-> "new"] /\ gcount = 0 /\ gerrors = {} /\ gresult = "none"
  /\ work = "idle" /\ timer = "none"
  /\ errch = <<>> /\ errsent = 0 /\ errclosed = FALSE /\ collected = <<>> /\ collecting = "first" /\ discard = 0
  /\ released = FALSE /\ fwait = [g \in FenceWaiters |-> "idle"]

RunGroupNext ==
  /\ \/ \E f \in GroupFns : GroupGo(f) \/ FnFails(f) \/ FnOk(f) \/ FnAppends(f) \/ FnDone(f)
     \/ GroupWait
  /\ UNCHANGED <<timeoutVars, collectVars, fenceVars>>

TimeoutNext ==
  /\ WithTimeout \/ WorkReturns \/ TimerSelect \/ OnTimeoutReturns \/ TimeoutReturns
  /\ UNCHANGED <<runGroupVars, collectVars, fenceVars>>

CollectNext ==
  /\ \/ \E e \in 0..MaxErrs : SendErr(e)
     \/ CloseErrs \/ DiscardNil \/ CollectErr \/ CollectTimeout
  /\ UNCHANGED <<runGroupVars, timeoutVars, fenceVars>>

FenceNext ==
  /\ FenceRelease \/ \E g \in FenceWaiters : FenceWait(g) \/ FenceSelect(g)
  /\ UNCHANGED <<runGroupVars, timeoutVars, collectVars>>

\* What returns has left nothing behind: Group.Wait returns with every error of the
\* functions it waited for recorded and nobody about to write the list,
\* WithTimeout returns only after its goroutine and onTimeout, Collect combines the
\* errors that were sent, in order and without a gap, and a fence lets nobody
\* through before its release (group.go:17-36, timeout.go:15-34,
\* collect.go:13-40, fence.go:35-48).
NothingLeftBehind ==
  /\ gresult = "errors" => \A f \in GroupFns : gfn[f] = "over"
  /\ work = "returned" => timer = "exited"
  /\ Len(collected) <= errsent /\ \A i \in DOMAIN collected : collected[i] = i
  /\ \A g \in FenceWaiters : fwait[g] = "true" => released

------------------------------------------------------------------------------
(* context2.WithCustomCancel: a context that is cancelled with an error of the    *)
(* caller's choice, while its parent may be cancelled at any time, and sync2.Copy  *)
(* reading under such a context. The inner context is external (context.WithCancel).*)

CONSTANTS
  Cancellers,   \* goroutines that call cancel
  Observers,    \* goroutines that call Err
  CopyReads     \* bound on the reads of Copy

VARIABLES
  inner,       \* Context.Err(): "nil" or "Canceled"
  custom,      \* ctx.err
  canceller,   \* "idle" or the error it was given, once it has returned
  observe,     \* of each Err call: "idle", "done" (the inner context is), "stored"
  seen,        \* history: the non-nil results of Err
  copy         \* Copy: reads done so far, and whether it has ended and how

cancelVars == <<inner, custom, canceller, observe, seen, copy>>

\* cancel(err) under the mutex: the first error stays. Without one the inner
\* context is cancelled and the error is left open.
CancelLast(c, err) ==
  /\ canceller[c] = "idle" /\ canceller' = [canceller EXCEPT ![c] = err]
  /\ custom' = err /\ inner' = "Canceled"
  /\ UNCHANGED <<observe, seen, copy>>

Cancel(c, err) ==
  /\ canceller[c] = "idle" /\ canceller' = [canceller EXCEPT ![c] = err]
  /\ IF custom # "nil" THEN UNCHANGED <<custom, inner>>
     ELSE custom' = err /\ inner' = "Canceled"
  /\ UNCHANGED <<observe, seen, copy>>

ParentCancel == inner = "nil" /\ inner' = "Canceled" /\ UNCHANGED <<custom, canceller, observe, seen, copy>>

\* Err: a look at the inner context, the section under the mutex, and the read of
\* the field after it.
ErrInner(o) ==
  /\ observe[o] = "idle" /\ inner # "nil"
  /\ observe' = [observe EXCEPT ![o] = "done"]
  /\ UNCHANGED <<inner, custom, canceller, seen, copy>>

ErrStore(o) ==
  /\ observe[o] = "done" /\ observe' = [observe EXCEPT ![o] = "stored"]
  /\ custom' = IF custom = "nil" THEN inner ELSE custom
  /\ UNCHANGED <<inner, canceller, seen, copy>>

ErrReturn(o) ==
  /\ observe[o] = "stored" /\ observe' = [observe EXCEPT ![o] = "idle"]
  /\ seen' = seen \cup {custom}
  /\ UNCHANGED <<inner, custom, canceller, copy>>

\* A read of Copy looks at the context first.
CopyRead ==
  /\ copy.end = "no" /\ copy.reads < CopyReads
  /\ copy' = IF inner # "nil" THEN [copy EXCEPT !.end = "ctx"] ELSE [copy EXCEPT !.reads = @ + 1]
  /\ UNCHANGED <<inner, custom, canceller, observe, seen>>

CopyEof == copy.end = "no" /\ copy' = [copy EXCEPT !.end = "eof"] /\ UNCHANGED <<inner, custom, canceller, observe, seen>>

CancelInit ==
  /\ inner = "nil" /\ custom = "nil" /\ seen = {}
  /\ canceller = [c \in Cancellers |-> "idle"]
  /\ observe = [o \in Observers |-> "idle"]
  /\ copy = [reads |-> 0, end |-> "no"]

CancelNext ==
  \/ \E c \in Cancellers, err \in {"nil", "first", "second"} : Cancel(c, err)
  \/ \E o \in Observers : ErrInner(o) \/ ErrStore(o) \/ ErrReturn(o)
  \/ ParentCancel \/ CopyRead \/ CopyEof

\* The context has one error for ever: no two calls of Err disagree, whichever of
\* the parent, the cancellers and the observers comes first, and no call that saw
\* the context done returns nil (cancel.go:37-67).
OneError == Cardinality(seen) <= 1 /\ "nil" \notin seen

------------------------------------------------------------------------------
(* testcontext.Context: the goroutines a test starts with Go, Wait and Cleanup,    *)
(* the goroutine that watches for a slow shutdown, and the report of what is still  *)
(* running. timedctx ends with its timeout or with the cancel of Cleanup.            *)

CONSTANTS TestFns    \* functions passed to Go

VARIABLES
  running,    \* ctx.running: each function "new", "registered", "running", "returned", "done"
  groupErr,   \* an error kept by the errgroup
  timed,      \* timedctx is done
  cleaning,   \* the channel is closed
  monitor,    \* monitorSlowShutdown: "wait", "grace", "report", "done"
  cleanup,    \* the Cleanup call: "idle", "select", "report", "cancel", "delete", "done"
  waiting,    \* the Wait call: "idle", "waiting", "done"
  reported,   \* ctx.reported
  reports,    \* history: what each report has listed
  testFailed, \* the test has failed, by Error or Fatal
  ended,      \* Fatal has ended the test function
  directory   \* the temporary directory: "none", "made", "deleted"

testVars == <<running, groupErr, timed, cleaning, monitor, cleanup, waiting, reported, reports, testFailed, ended, directory>>

NotDone == {f \in TestFns : running[f] \in {"registered", "running", "returned"}}
\* group.Wait: what the errgroup has started has returned.
GroupDone == \A f \in TestFns : running[f] \notin {"running", "returned"}

\* The test function goes on until it calls Wait, and again after it.
TestRuns == cleanup = "idle" /\ waiting # "waiting" /\ ~ended

------------------------------------------------------------------------------
(* The test and its goroutines. *)

\* Go appends to running under the lock and then starts the goroutine.
GoRegister(f) ==
  /\ TestRuns /\ running[f] = "new" /\ \A g \in TestFns : running[g] # "registered"
  /\ running' = [running EXCEPT ![f] = "registered"]
  /\ UNCHANGED <<groupErr, timed, cleaning, monitor, cleanup, waiting, reported, reports, testFailed, ended, directory>>

GoStart(f) ==
  /\ running[f] = "registered"
  /\ running' = [running EXCEPT ![f] = "running"]
  /\ UNCHANGED <<groupErr, timed, cleaning, monitor, cleanup, waiting, reported, reports, testFailed, ended, directory>>

\* The function returns; the deferred function marks it ...
TestFnReturns(f) ==
  /\ running[f] = "running"
  /\ running' = [running EXCEPT ![f] = "returned"]
  /\ \E err \in BOOLEAN : groupErr' = (groupErr \/ err)
  /\ UNCHANGED <<timed, cleaning, monitor, cleanup, waiting, reported, reports, testFailed, ended, directory>>

\* ... under the lock, before the errgroup counts it.
MarkDone(f) ==
  /\ running[f] = "returned"
  /\ running' = [running EXCEPT ![f] = "done"]
  /\ UNCHANGED <<groupErr, timed, cleaning, monitor, cleanup, waiting, reported, reports, testFailed, ended, directory>>

\* Dir makes the directory the first time, and something in it every time; either may fail,
\* which ends the test.
TestDir ==
  /\ TestRuns
  /\ \/ directory' = "made" /\ ended' \in BOOLEAN
     \/ directory = "none" /\ directory' = "none" /\ ended' = TRUE
  /\ testFailed' = (testFailed \/ ended')
  /\ UNCHANGED <<running, groupErr, timed, cleaning, monitor, cleanup, waiting, reported, reports>>

TestWait ==
  /\ TestRuns /\ waiting = "idle" /\ \A g \in TestFns : running[g] # "registered"
  /\ waiting' = "waiting"
  /\ UNCHANGED <<running, groupErr, timed, cleaning, monitor, cleanup, reported, reports, testFailed, ended, directory>>

\* Wait ends the test if a function failed.
TestWaitReturns ==
  /\ waiting = "waiting" /\ GroupDone
  /\ waiting' = "done" /\ testFailed' = (testFailed \/ groupErr) /\ ended' = groupErr
  /\ UNCHANGED <<running, groupErr, timed, cleaning, monitor, cleanup, reported, reports, directory>>

TestTimeout ==
  /\ ~timed
  /\ timed' = TRUE
  /\ UNCHANGED <<running, groupErr, cleaning, monitor, cleanup, waiting, reported, reports, testFailed, ended, directory>>

------------------------------------------------------------------------------
(* Reports. *)

\* reportRunning, all of it under the lock: once, with what has not been marked.
reportRunning ==
  /\ reported' = TRUE
  /\ IF reported THEN UNCHANGED <<reports, testFailed>>
     ELSE reports' = Append(reports, NotDone) /\ testFailed' = TRUE

\* monitorSlowShutdown: the timeout and then 30 seconds, unless Cleanup comes first.
MonitorTimeout ==
  /\ monitor = "wait" /\ timed
  /\ monitor' = "grace"
  /\ UNCHANGED <<running, groupErr, timed, cleaning, cleanup, waiting, reported, reports, testFailed, ended, directory>>

MonitorCleaning ==
  /\ monitor \in {"wait", "grace"} /\ cleaning
  /\ monitor' = "done"
  /\ UNCHANGED <<running, groupErr, timed, cleaning, cleanup, waiting, reported, reports, testFailed, ended, directory>>

MonitorReport ==
  /\ monitor = "grace"
  /\ monitor' = "done"
  /\ reportRunning
  /\ UNCHANGED <<running, groupErr, timed, cleaning, cleanup, waiting, ended, directory>>

------------------------------------------------------------------------------
(* Cleanup, which the testing package calls when the test function has returned. *)

CleanupBegin ==
  /\ cleanup = "idle" /\ waiting # "waiting" /\ \A g \in TestFns : running[g] # "registered"
  /\ cleaning' = TRUE /\ cleanup' = "select"
  /\ UNCHANGED <<running, groupErr, timed, monitor, waiting, reported, reports, testFailed, ended, directory>>

CleanupTimeout ==
  /\ cleanup = "select" /\ timed
  /\ reportRunning
  /\ cleanup' = "cancel"
  /\ UNCHANGED <<running, groupErr, timed, cleaning, monitor, waiting, ended, directory>>

CleanupAllDone ==
  /\ cleanup = "select" /\ GroupDone
  /\ testFailed' = (testFailed \/ groupErr)
  /\ cleanup' = "cancel"
  /\ UNCHANGED <<running, groupErr, timed, cleaning, monitor, waiting, reported, reports, ended, directory>>

\* The deferred calls, which run also when the test is ended by Fatal.
CleanupCancel ==
  /\ cleanup = "cancel"
  /\ timed' = TRUE /\ cleanup' = "delete"
  /\ UNCHANGED <<running, groupErr, cleaning, monitor, waiting, reported, reports, testFailed, ended, directory>>

\* deleteTemporary fails the test if the directory cannot be removed.
CleanupDelete ==
  /\ cleanup = "delete" /\ cleanup' = "done"
  /\ \/ directory' = (IF directory = "made" THEN "deleted" ELSE directory) /\ UNCHANGED testFailed
     \/ directory = "made" /\ UNCHANGED directory /\ testFailed' = TRUE
  /\ UNCHANGED <<running, groupErr, timed, cleaning, monitor, waiting, reported, reports, ended>>

------------------------------------------------------------------------------

TestInit ==
  /\ running = [f \in TestFns |-> "new"]
  /\ groupErr = FALSE /\ timed = FALSE /\ cleaning = FALSE /\ monitor = "wait" /\ cleanup = "idle"
  /\ waiting = "idle" /\ reported = FALSE /\ reports = <<>> /\ testFailed = FALSE
  /\ ended = FALSE /\ directory = "none"

TestNext ==
  \/ \E f \in TestFns : GoRegister(f) \/ GoStart(f) \/ TestFnReturns(f) \/ MarkDone(f)
  \/ TestDir \/ TestWait \/ TestWaitReturns \/ TestTimeout
  \/ MonitorTimeout \/ MonitorCleaning \/ MonitorReport
  \/ CleanupBegin \/ CleanupTimeout \/ CleanupAllDone \/ CleanupCancel \/ CleanupDelete

\* A test does not pass over what it has started: after Cleanup every function has
\* returned and been marked, or the test has failed with its one report; an error of a
\* function fails the test too, and nothing is left of the directory unless the test fails
\* (context.go:124-164, 230-305).
CleanTest ==
  /\ Len(reports) <= 1
  /\ cleanup = "done" =>
       /\ (\A f \in TestFns : running[f] \in {"new", "done"}) \/ reports # <<>>
       /\ groupErr \/ reports # <<>> => testFailed
       /\ directory # "made" \/ testFailed
==============================================================================
