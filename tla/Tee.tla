--------------------------------- MODULE Tee ---------------------------------
(***************************************************************************)
(* sync2.NewTeeFile and sync2.NewTeeInmemory: one writer and several readers *)
(* over a shared buffer. The writer waits until some reader wants more than   *)
(* is written; a reader waits until there is data it has not read.            *)
(*                                                                         *)
(* A section under tee.mu is one step, but for the writer's load of the       *)
(* handle count and the Wait that follows it: the readers' Close touches      *)
(* neither the count nor the condition variable under the mutex, so the two   *)
(* are steps of their own, with the mutex held in between.                    *)
(***************************************************************************)
EXTENDS Integers, FiniteSets

CONSTANTS
  Readers,    \* readers of the tee
  Chunks,     \* lengths of the slices passed to Read and Write
  Kinds,      \* "file" and "memory": the constructors used
  MaxTotal    \* bound: bytes the writer writes altogether

ASSUME TeeAssumption ==
  /\ IsFiniteSet(Readers)
  /\ Chunks \subseteq Nat \ {0}
  /\ Kinds \subseteq {"file", "memory"}
  /\ MaxTotal \in Nat

VARIABLES
  kind,        \* which constructor made the tee
  open,        \* handles: the readers and the writer
  maxRead,     \* furthest position a reader has asked for
  write,       \* writing head
  writerDone, writerErr,
  stored,      \* bytes in the buffer: its own write offset
  w,           \* the Write call: pc and remaining amount
  wclose,      \* the writer's Close: "no", "closing", "done"
  r,           \* the Read call of each reader: pc, amount and pos
  rclose,      \* the reader's Close: "no", "broadcast", "done"
  eof          \* history: readers whose Read has returned io.EOF

headVars == <<maxRead, write, writerDone, writerErr, stored>>
teeVars == <<kind, open, headVars, w, wclose, r, rclose, eof>>

\* tee.mu is free. Only the writer is ever caught between two steps with it.
Unlocked == w.pc # "checked"

\* noreader.Broadcast and nodata.Broadcast: who is waiting now will look again.
WakeWriter == [w EXCEPT !.pc = IF @ = "waiting" THEN "woken" ELSE @]
WakeReaders == [i \in Readers |-> [r[i] EXCEPT !.pc = IF @ = "waiting" THEN "woken" ELSE @]]

\* Bytes a buffer operation of length n transfers: memory never fails, a file
\* may at any time, and does once it is closed.
Amounts(n) == IF kind = "memory" THEN {n} ELSE IF open > 0 THEN 0..n ELSE {0}

\* buffer.Close drops a handle of the shared file, and does nothing in memory.
CloseHandle == open' = IF kind = "file" THEN open - 1 ELSE open

------------------------------------------------------------------------------
(* Write. *)

\* The loop of Write: go on, give up when all readers are closed, or wait.
WriteLoop(n) ==
  w' = [n |-> n, pc |-> IF write > maxRead
                        THEN IF open <= 1 THEN "idle" ELSE "checked"
                        ELSE "writing"]

\* Write on a closed tee returns at once; that changes nothing.
WriteBegin(n) ==
  /\ w.pc = "idle" /\ ~writerDone /\ stored + n <= MaxTotal
  /\ WriteLoop(n)
  /\ UNCHANGED <<kind, open, headVars, wclose, r, rclose, eof>>

\* noreader.Wait joins the waiters and releases the mutex.
WriteWait ==
  /\ w.pc = "checked"
  /\ w' = [w EXCEPT !.pc = "waiting"]
  /\ UNCHANGED <<kind, open, headVars, wclose, r, rclose, eof>>

WriteAgain ==
  /\ w.pc = "woken"
  /\ WriteLoop(w.n)
  /\ UNCHANGED <<kind, open, headVars, wclose, r, rclose, eof>>

\* The data goes to the buffer without the mutex.
WriteBuffer ==
  /\ w.pc = "writing"
  /\ \E amount \in Amounts(w.n) :
       /\ stored' = stored + amount
       /\ w' = [pc |-> "commit", n |-> amount]
  /\ UNCHANGED <<kind, open, maxRead, write, writerDone, writerErr, wclose, r, rclose, eof>>

WriteCommit ==
  /\ w.pc = "commit"
  /\ write' = write + w.n
  /\ w' = [w EXCEPT !.pc = "idle"]
  /\ r' = WakeReaders
  /\ UNCHANGED <<kind, open, maxRead, writerDone, writerErr, stored, wclose, rclose, eof>>

------------------------------------------------------------------------------
(* Read. *)

\* Bug form: a finished writer is noticed before the data that is left.
ReadLoopDoneFirst(i, n) ==
  IF writerDone
  THEN /\ r' = [r EXCEPT ![i].pc = "idle"]
       /\ eof' = IF writerErr = "EOF" THEN eof \cup {i} ELSE eof
  ELSE /\ r' = [r EXCEPT ![i].n = n,
                         ![i].pc = IF r[i].pos < write THEN "reading" ELSE "waiting"]
       /\ eof' = eof

\* The loop of Read and what follows it under the mutex.
ReadLoop(i, n) ==
  LET canRead == write - r[i].pos
  IN  \/ /\ canRead > 0
         /\ r' = [r EXCEPT ![i].pc = "reading", ![i].n = IF n > canRead THEN canRead ELSE n]
         /\ eof' = eof
      \/ /\ canRead <= 0 /\ writerDone
         /\ r' = [r EXCEPT ![i].pc = "idle"]
         /\ eof' = IF writerErr = "EOF" THEN eof \cup {i} ELSE eof
      \/ /\ canRead <= 0 /\ ~writerDone
         /\ r' = [r EXCEPT ![i].pc = "waiting", ![i].n = n]
         /\ eof' = eof

\* Read fails fast on a writer error; otherwise it says what it wants first.
ReadBegin(i, n) ==
  /\ r[i].pc = "idle" /\ Unlocked /\ writerErr # "failure"
  /\ maxRead' = IF r[i].pos + n > maxRead THEN r[i].pos + n ELSE maxRead
  /\ w' = IF r[i].pos + n > maxRead THEN WakeWriter ELSE w
  /\ ReadLoop(i, n)
  /\ UNCHANGED <<kind, open, write, writerDone, writerErr, stored, wclose, rclose>>

ReadAgain(i) ==
  /\ r[i].pc = "woken" /\ Unlocked
  /\ ReadLoop(i, r[i].n)
  /\ UNCHANGED <<kind, open, headVars, w, wclose, rclose>>

\* The data comes from the buffer without the mutex.
ReadBuffer(i) ==
  /\ r[i].pc = "reading"
  /\ \E amount \in Amounts(r[i].n) :
       r' = [r EXCEPT ![i].pos = @ + amount, ![i].pc = "idle"]
  /\ UNCHANGED <<kind, open, headVars, w, wclose, rclose, eof>>

------------------------------------------------------------------------------
(* CloseWithError of both ends. *)

\* Bug form: every Close drops a handle.
ReaderCloseTwice(i) ==
  /\ rclose[i] \in {"no", "done"}
  /\ open > 0 /\ CloseHandle
  /\ rclose' = [rclose EXCEPT ![i] = "broadcast"]
  /\ UNCHANGED <<kind, headVars, w, wclose, r, eof>>

\* Only the first Close drops the handle; each broadcasts.
ReaderClose(i) ==
  /\ rclose[i] \in {"no", "done"}
  /\ IF rclose[i] = "no" THEN CloseHandle ELSE open' = open
  /\ rclose' = [rclose EXCEPT ![i] = "broadcast"]
  /\ UNCHANGED <<kind, headVars, w, wclose, r, eof>>

\* noreader.Broadcast, without the mutex.
ReaderBroadcast(i) ==
  /\ rclose[i] = "broadcast"
  /\ rclose' = [rclose EXCEPT ![i] = "done"]
  /\ w' = WakeWriter
  /\ UNCHANGED <<kind, open, headVars, wclose, r, eof>>

\* Bug form: the readers are not told.
WriterCloseQuiet(reason) ==
  /\ Unlocked /\ ~writerDone
  /\ reason = "EOF" => w.pc = "idle"
  /\ writerDone' = TRUE /\ writerErr' = reason
  /\ wclose' = "closing"
  /\ UNCHANGED <<kind, open, maxRead, write, stored, w, r, rclose, eof>>

(***************************************************************************)
(* The writing goroutine closes the tee after its last Write; any goroutine   *)
(* may abort it with an error, whatever Write is doing.                       *)
(***************************************************************************)
WriterClose(reason) ==
  /\ Unlocked /\ ~writerDone
  /\ reason = "EOF" => w.pc = "idle"
  /\ writerDone' = TRUE /\ writerErr' = reason
  /\ r' = WakeReaders
  /\ wclose' = "closing"
  /\ UNCHANGED <<kind, open, maxRead, write, stored, w, rclose, eof>>

WriterCloseBuffer ==
  /\ wclose = "closing"
  /\ CloseHandle
  /\ wclose' = "done"
  /\ UNCHANGED <<kind, headVars, w, r, rclose, eof>>

------------------------------------------------------------------------------

TeeInit ==
  /\ kind \in Kinds
  /\ open = Cardinality(Readers) + 1
  /\ maxRead = 0 /\ write = 0 /\ stored = 0
  /\ writerDone = FALSE /\ writerErr = "nil"
  /\ w = [pc |-> "idle", n |-> 0]
  /\ wclose = "no"
  /\ r = [i \in Readers |-> [pc |-> "idle", n |-> 0, pos |-> 0]]
  /\ rclose = [i \in Readers |-> "no"]
  /\ eof = {}

WriteStep == WriteWait \/ WriteAgain \/ WriteBuffer \/ WriteCommit

TeeNext ==
  \/ \E n \in Chunks : WriteBegin(n)
  \/ WriteStep
  \/ \E i \in Readers :
       \/ \E n \in Chunks : ReadBegin(i, n)
       \/ ReadAgain(i) \/ ReadBuffer(i) \/ ReaderClose(i) \/ ReaderBroadcast(i)
  \/ \E reason \in {"EOF", "failure"} : WriterClose(reason)
  \/ WriterCloseBuffer

(***************************************************************************)
(* Calls that have begun go on. sync.Mutex hands itself to a waiter that has  *)
(* waited long enough, hence strong fairness where the mutex is needed.        *)
(***************************************************************************)
TeeFairness ==
  /\ WF_teeVars(WriteStep)
  /\ WF_teeVars(WriterCloseBuffer)
  /\ \A i \in Readers :
       /\ SF_teeVars(ReadAgain(i))
       /\ WF_teeVars(ReadBuffer(i))
       /\ WF_teeVars(ReaderBroadcast(i))

TeeSpec == TeeInit /\ [][TeeNext]_teeVars /\ TeeFairness

------------------------------------------------------------------------------

\* A read outside the mutex touches only bytes that are in the buffer: the head
\* moves after the data is written and no reader passes it (tee.go:155-163,
\* 193-197).
NoReadPastData == \A i \in Readers : r[i].pc = "reading" => r[i].pos + r[i].n <= stored

\* The writer runs ahead of what the readers asked for by at most one Write, also
\* when it is woken for other reasons (tee.go:181-189).
Backpressure == \E c \in Chunks \cup {0} : write <= maxRead + c

\* A reader that got io.EOF has read everything that was ever written
\* (tee.go:143-148).
EofMeansAll == \A i \in eof : r[i].pos = write /\ w.pc = "idle"

\* The shared file stays open until every handle is closed, however often a
\* reader is closed (tee.go:214, tee_buffer.go:35-40).
FileOpenWhileUsed ==
  kind = "file" =>
    open = Cardinality({i \in Readers : rclose[i] = "no"}) + (IF wclose = "done" THEN 0 ELSE 1)

\* What readers get is what was written, all of it and in time: reads stay behind the
\* data, the writer stays close to the readers, io.EOF comes last, and the file is open for
\* as long as somebody has a handle of it, whatever order Read, Write and the closes are
\* called in, and however often (tee.go:110-163, 165-240, tee_buffer.go:35-40).
ReadsWhatWasWritten == NoReadPastData /\ Backpressure /\ EofMeansAll /\ FileOpenWhileUsed

\* A Read returns once there is data for it or the writer is closed: neither
\* broadcast on nodata can be missed (tee.go:199, 237).
ReadReturns ==
  \A i \in Readers :
    (r[i].pc # "idle" /\ (writerDone \/ write > r[i].pos)) ~> r[i].pc = "idle"

\* A Write that waits for readers returns once all readers are closed: "are all
\* readers already closed?" (tee.go:182).
WriteReleased ==
  (w.pc # "idle" /\ \A i \in Readers : rclose[i] = "done") ~> w.pc = "idle"
==============================================================================
