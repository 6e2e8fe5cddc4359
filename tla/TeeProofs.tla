------------------------------ MODULE TeeProofs ------------------------------
(***************************************************************************)
(* Machine-checked proofs about Tee: for any number of readers, any lengths of the   *)
(* reads and writes and both kinds of buffer, readers get what was written, the       *)
(* writer stays close to them, io.EOF comes last, and the shared file is open while    *)
(* someone uses it.                                                                  *)
(***************************************************************************)
EXTENDS Tee, FiniteSetTheorems, TLAPS

WritePcs == {"idle", "checked", "waiting", "woken", "writing", "commit"}
ReadPcs == {"idle", "waiting", "woken", "reading"}

TeeTypeOK ==
  /\ kind \in Kinds /\ open \in Int
  /\ maxRead \in Nat /\ write \in Nat /\ stored \in Nat
  /\ writerDone \in BOOLEAN /\ writerErr \in {"nil", "EOF", "failure"}
  /\ w \in [pc : WritePcs, n : Nat]
  /\ wclose \in {"no", "closing", "done"}
  /\ r \in [Readers -> [pc : ReadPcs, n : Nat, pos : Nat]]
  /\ rclose \in [Readers -> {"no", "broadcast", "done"}]
  /\ eof \subseteq Readers

\* The head is behind the buffer by the write that is not committed, which was begun when
\* the readers had asked for all that was written before; a call that waits still has the
\* length it was made with.
WriterInv ==
  /\ stored = write + IF w.pc = "commit" THEN w.n ELSE 0
  /\ w.pc \in {"checked", "waiting", "woken", "writing"} => w.n \in Chunks
  /\ w.pc = "commit" => \E c \in Chunks : w.n <= c
  /\ w.pc \in {"writing", "commit"} => write <= maxRead
  /\ Backpressure

\* No reader is past the head, nor will be after the read it is in.
ReadersInv ==
  /\ \A i \in Readers : r[i].pos <= write
  /\ \A i \in Readers : r[i].pc = "reading" => r[i].pos + r[i].n <= write

\* The writer has closed the tee with io.EOF after its last write, and only then do readers
\* see it.
ClosedInv ==
  /\ writerDone <=> writerErr # "nil"
  /\ writerDone <=> wclose # "no"
  /\ writerErr = "EOF" => w.pc = "idle"
  /\ eof # {} => writerErr = "EOF"
  /\ \A i \in eof : r[i].pos = write

TeeInv == TeeTypeOK /\ WriterInv /\ ReadersInv /\ ClosedInv /\ FileOpenWhileUsed

Unclosed == {i \in Readers : rclose[i] = "no"}

\* A new tee has it.
LEMMA TeeStart == TeeInit => TeeInv
<1> SUFFICES ASSUME TeeInit PROVE TeeInv
  OBVIOUS
<1>1. Cardinality(Readers) \in Nat
  BY TeeAssumption, FS_CardinalityType
<1>2. TeeTypeOK
  <2>1. kind \in Kinds /\ open \in Int /\ maxRead \in Nat /\ write \in Nat /\ stored \in Nat
    BY <1>1 DEF TeeInit
  <2>2. writerDone \in BOOLEAN
    BY DEF TeeInit
  <2>3. w \in [pc : WritePcs, n : Nat] /\ r \in [Readers -> [pc : ReadPcs, n : Nat, pos : Nat]]
    BY DEF TeeInit, WritePcs, ReadPcs
  <2>4. QED
    BY <2>1, <2>2, <2>3 DEF TeeInit, TeeTypeOK
<1>3. WriterInv
  BY DEF TeeInit, WriterInv, Backpressure
<1>4. ReadersInv /\ ClosedInv
  BY DEF TeeInit, ReadersInv, ClosedInv
<1>5. {i \in Readers : rclose[i] = "no"} = Readers /\ wclose = "no" /\ open = Cardinality(Readers) + 1
  BY DEF TeeInit
<1>6. FileOpenWhileUsed
  BY <1>5 DEF FileOpenWhileUsed
<1>7. QED
  BY <1>2, <1>3, <1>4, <1>6 DEF TeeInv

\* What a buffer transfers is a part of what was asked.
LEMMA AmountsBounded == ASSUME NEW n \in Nat, NEW a \in Amounts(n) PROVE a \in Nat /\ a <= n
BY DEF Amounts

\* A write that gets past the loop is at most as far as the readers have asked.
LEMMA LoopStep ==
  ASSUME TeeInv, NEW n \in Chunks, WriteLoop(n), writerErr # "EOF", w.pc # "commit",
         UNCHANGED <<kind, open, headVars, wclose, r, rclose, eof>>
  PROVE  TeeInv'
<1> USE TeeAssumption
<1>1. /\ w' \in [pc : WritePcs, n : Nat] /\ w'.n = n /\ w'.pc \in {"idle", "checked", "writing"}
      /\ w'.pc = "writing" => ~(write > maxRead)
  BY DEF WriteLoop, WritePcs
<1>2. TeeTypeOK'
  BY <1>1 DEF TeeInv, TeeTypeOK, headVars
<1>3. WriterInv'
  BY <1>1 DEF TeeInv, TeeTypeOK, WriterInv, Backpressure, headVars
<1>4. ClosedInv'
  BY DEF TeeInv, ClosedInv, headVars
<1>5. QED
  BY <1>2, <1>3, <1>4 DEF TeeInv, ReadersInv, FileOpenWhileUsed, headVars

\* The loop of a reader, entered with more asked for than before or as much.
LEMMA ReadStep ==
  ASSUME TeeInv, NEW i \in Readers, NEW n \in Nat, ReadLoop(i, n), Unlocked,
         maxRead' \in Nat, maxRead' >= maxRead, w' \in {w, WakeWriter},
         UNCHANGED <<kind, open, write, writerDone, writerErr, stored, wclose, rclose>>
  PROVE  TeeInv'
<1>0. /\ r \in [Readers -> [pc : ReadPcs, n : Nat, pos : Nat]] /\ write \in Nat /\ maxRead \in Nat
      /\ w \in [pc : WritePcs, n : Nat] /\ r[i].pos <= write
  BY DEF TeeInv, TeeTypeOK, ReadersInv
<1>1. /\ w' \in [pc : WritePcs, n : Nat] /\ w'.n = w.n
      /\ w'.pc = w.pc \/ (w.pc = "waiting" /\ w'.pc = "woken")
  BY <1>0 DEF WakeWriter, WritePcs
<1>2. WriterInv'
  <2>1. PICK c \in Chunks \cup {0} : write <= maxRead + c
    BY DEF TeeInv, WriterInv, Backpressure
  <2>2. c \in Nat
    BY TeeAssumption
  <2>3. write <= maxRead' + c
    <3>1. write \in Nat /\ maxRead \in Nat /\ maxRead' \in Nat /\ maxRead' >= maxRead
      BY <1>0
    <3>2. \A x, m, k \in Nat : k >= m /\ x <= m + c => x <= k + c
      BY <2>2
    <3>3. QED
      BY <2>1, <3>1, <3>2
  <2>4. Backpressure'
    BY <2>3 DEF Backpressure
  <2>5. w'.pc \in {"writing", "commit"} => write <= maxRead'
    BY <1>0, <1>1 DEF TeeInv, WriterInv
  <2>6. QED
    BY <1>1, <2>4, <2>5 DEF TeeInv, WriterInv
<1>3. /\ r' \in [Readers -> [pc : ReadPcs, n : Nat, pos : Nat]]
      /\ \A j \in Readers : r'[j].pos = r[j].pos /\ (j # i => r'[j] = r[j])
      /\ r'[i].pc = "reading" => r[i].pos + r'[i].n <= write
  BY <1>0 DEF ReadLoop, ReadPcs
<1>4. ReadersInv'
  BY <1>0, <1>3 DEF TeeInv, ReadersInv
<1>5. eof' = eof \/ (eof' = eof \cup {i} /\ writerErr = "EOF" /\ r[i].pos = write)
  BY <1>0 DEF ReadLoop
<1>6. ClosedInv'
  BY <1>1, <1>3, <1>5 DEF TeeInv, TeeTypeOK, ClosedInv
<1>7. TeeTypeOK'
  BY <1>1, <1>3, <1>5 DEF TeeInv, TeeTypeOK
<1>8. QED
  BY <1>2, <1>4, <1>6, <1>7 DEF TeeInv, FileOpenWhileUsed

\* Every step of the tee keeps its invariant.
LEMMA TeeStep == TeeInv /\ [TeeNext]_teeVars => TeeInv'
<1> SUFFICES ASSUME TeeInv, [TeeNext]_teeVars PROVE TeeInv'
  OBVIOUS
<1> USE TeeAssumption
<1>0. TeeTypeOK /\ WriterInv /\ ReadersInv /\ ClosedInv /\ FileOpenWhileUsed
  BY DEF TeeInv
<1>1. ASSUME NEW n \in Chunks, WriteBegin(n) PROVE TeeInv'
  <2>1. writerErr # "EOF" /\ w.pc = "idle"
    BY <1>0, <1>1 DEF WriteBegin, ClosedInv, TeeTypeOK
  <2>2. QED
    BY <1>1, <2>1, LoopStep DEF WriteBegin
<1>2. CASE WriteWait
  <2>1. w' \in [pc : WritePcs, n : Nat] /\ w'.n = w.n /\ w'.pc = "waiting" /\ w.pc = "checked"
    BY <1>0, <1>2 DEF WriteWait, TeeTypeOK, WritePcs
  <2>2. UNCHANGED <<kind, open, headVars, wclose, r, rclose, eof>>
    BY <1>2 DEF WriteWait
  <2>3. WriterInv'
    BY <1>0, <2>1, <2>2 DEF WriterInv, Backpressure, headVars
  <2>4. QED
    BY <1>0, <2>1, <2>2, <2>3 DEF TeeInv, TeeTypeOK, ReadersInv, ClosedInv, FileOpenWhileUsed, headVars
<1>3. CASE WriteAgain
  <2>1. w.n \in Chunks /\ writerErr # "EOF"
    BY <1>0, <1>3 DEF WriteAgain, WriterInv, ClosedInv
  <2>2. w.pc = "woken" /\ WriteLoop(w.n) /\ UNCHANGED <<kind, open, headVars, wclose, r, rclose, eof>>
    BY <1>3 DEF WriteAgain
  <2>3. QED
    BY <2>1, <2>2, LoopStep
<1>4. CASE WriteBuffer
  <2>1. PICK a \in Amounts(w.n) : stored' = stored + a /\ w' = [pc |-> "commit", n |-> a]
    BY <1>4 DEF WriteBuffer
  <2>2. w.pc = "writing" /\ UNCHANGED <<kind, open, maxRead, write, writerDone, writerErr, wclose, r, rclose, eof>>
    BY <1>4 DEF WriteBuffer
  <2>3. a \in Nat /\ a <= w.n /\ w.n \in Chunks
    BY <1>0, <2>1, <2>2, AmountsBounded DEF TeeTypeOK, WriterInv
  <2>4. WriterInv'
    BY <1>0, <2>1, <2>2, <2>3 DEF TeeTypeOK, WriterInv, Backpressure
  <2>5. TeeTypeOK'
    BY <1>0, <2>1, <2>2, <2>3 DEF TeeTypeOK, WritePcs
  <2>6. ClosedInv'
    BY <1>0, <2>1, <2>2 DEF ClosedInv
  <2>7. QED
    BY <1>0, <2>2, <2>4, <2>5, <2>6 DEF TeeInv, ReadersInv, FileOpenWhileUsed
\* A broadcast to the readers moves none of them.
<1>5. /\ WakeReaders \in [Readers -> [pc : ReadPcs, n : Nat, pos : Nat]]
      /\ \A i \in Readers : /\ WakeReaders[i].pos = r[i].pos /\ WakeReaders[i].n = r[i].n
                            /\ WakeReaders[i].pc = "reading" => r[i].pc = "reading"
  BY <1>0 DEF WakeReaders, TeeTypeOK, ReadPcs
<1>6. CASE WriteCommit
  <2>1. /\ w.pc = "commit" /\ write' = write + w.n /\ w' = [w EXCEPT !.pc = "idle"] /\ r' = WakeReaders
        /\ UNCHANGED <<kind, open, maxRead, writerDone, writerErr, stored, wclose, rclose, eof>>
    BY <1>6 DEF WriteCommit
  <2>2. w' \in [pc : WritePcs, n : Nat] /\ w'.pc = "idle" /\ w.n \in Nat
    BY <1>0, <2>1 DEF TeeTypeOK, WritePcs
  <2>3. Backpressure'
    <3>1. PICK c \in Chunks : w.n <= c
      BY <1>0, <2>1 DEF WriterInv
    <3>2. write + w.n <= maxRead + c
      BY <1>0, <2>1, <2>2, <3>1 DEF TeeTypeOK, WriterInv
    <3>3. QED
      BY <2>1, <3>2 DEF Backpressure
  <2>4. WriterInv'
    BY <1>0, <2>1, <2>2, <2>3 DEF WriterInv, TeeTypeOK
  <2>5. ReadersInv'
    BY <1>0, <1>5, <2>1, <2>2 DEF ReadersInv, TeeTypeOK
  <2>6. eof = {}
    BY <1>0, <2>1 DEF ClosedInv
  <2>7. ClosedInv' /\ TeeTypeOK'
    BY <1>0, <1>5, <2>1, <2>2, <2>6 DEF ClosedInv, TeeTypeOK
  <2>8. QED
    BY <1>0, <2>1, <2>4, <2>5, <2>7 DEF TeeInv, FileOpenWhileUsed
<1>7. ASSUME NEW i \in Readers, NEW n \in Chunks, ReadBegin(i, n) PROVE TeeInv'
  <2>1. maxRead' \in Nat /\ maxRead' >= maxRead
    BY <1>0, <1>7 DEF ReadBegin, TeeTypeOK
  <2>2. /\ ReadLoop(i, n) /\ Unlocked /\ w' \in {w, WakeWriter}
        /\ UNCHANGED <<kind, open, write, writerDone, writerErr, stored, wclose, rclose>>
    BY <1>7 DEF ReadBegin
  <2>3. QED
    BY <2>1, <2>2, ReadStep
<1>8. ASSUME NEW i \in Readers, ReadAgain(i) PROVE TeeInv'
  <2>1. r[i].n \in Nat /\ maxRead \in Nat /\ maxRead >= maxRead
    BY <1>0 DEF TeeTypeOK
  <2>2. /\ ReadLoop(i, r[i].n) /\ Unlocked /\ w' = w /\ maxRead' = maxRead
        /\ UNCHANGED <<kind, open, write, writerDone, writerErr, stored, wclose, rclose>>
    BY <1>8 DEF ReadAgain, headVars
  <2>3. QED
    BY <2>1, <2>2, ReadStep
<1>9. ASSUME NEW i \in Readers, ReadBuffer(i) PROVE TeeInv'
  <2>1. PICK a \in Amounts(r[i].n) : r' = [r EXCEPT ![i].pos = @ + a, ![i].pc = "idle"]
    BY <1>9 DEF ReadBuffer
  <2>2. r[i].pc = "reading" /\ UNCHANGED <<kind, open, headVars, w, wclose, rclose, eof>>
    BY <1>9 DEF ReadBuffer
  <2>3. a \in Nat /\ a <= r[i].n /\ r[i] \in [pc : ReadPcs, n : Nat, pos : Nat]
    BY <1>0, <2>1, AmountsBounded DEF TeeTypeOK
  <2>4. /\ r' \in [Readers -> [pc : ReadPcs, n : Nat, pos : Nat]]
        /\ r'[i].pc = "idle" /\ r'[i].pos = r[i].pos + a
        /\ \A j \in Readers : j # i => r'[j] = r[j]
    <3>1. r[i].pos + a \in Nat
      BY <2>3
    <3> DEFINE read == [pc |-> "idle", n |-> r[i].n, pos |-> r[i].pos + a]
    <3>2. r' = [r EXCEPT ![i] = read]
      <4> DEFINE further == [r[i] EXCEPT !.pos = r[i].pos + a]
      <4>1. r' = [r EXCEPT ![i] = [further EXCEPT !.pc = "idle"]]
        BY <1>0, <2>1 DEF TeeTypeOK
      <4>2. further = [pc |-> r[i].pc, n |-> r[i].n, pos |-> r[i].pos + a]
        BY <2>3
      <4>3. further \in [pc : ReadPcs, n : Nat, pos : Nat] /\ further.n = r[i].n /\ further.pos = r[i].pos + a
        BY <2>3, <3>1, <4>2
      <4>4. [further EXCEPT !.pc = "idle"] = read
        <5> HIDE DEF further
        <5>1. [further EXCEPT !.pc = "idle"] = [pc |-> "idle", n |-> further.n, pos |-> further.pos]
          BY <4>3
        <5>2. QED
          BY <4>3, <5>1
      <4>5. QED
        BY <4>1, <4>4
    <3>3. read \in [pc : ReadPcs, n : Nat, pos : Nat]
      BY <2>3, <3>1 DEF ReadPcs
    <3>4. read.pc = "idle" /\ read.pos = r[i].pos + a
      OBVIOUS
    <3> HIDE DEF read
    <3>5. QED
      BY <1>0, <3>2, <3>3, <3>4 DEF TeeTypeOK
  <2>5. r'[i].pos <= write /\ (r[i].pos = write => r'[i].pos = write)
    BY <1>0, <2>2, <2>3, <2>4 DEF ReadersInv, TeeTypeOK
  <2>6. ReadersInv' /\ ClosedInv' /\ TeeTypeOK'
    BY <1>0, <2>2, <2>4, <2>5 DEF ReadersInv, ClosedInv, TeeTypeOK, headVars
  <2>7. QED
    BY <1>0, <2>2, <2>6 DEF TeeInv, WriterInv, Backpressure, FileOpenWhileUsed, headVars
<1>10. IsFiniteSet(Unclosed) /\ Cardinality(Unclosed) \in Nat
  BY FS_Subset, FS_CardinalityType DEF Unclosed
<1>11. /\ FileOpenWhileUsed <=> (kind = "file" => open = Cardinality(Unclosed) + IF wclose = "done" THEN 0 ELSE 1)
      /\ FileOpenWhileUsed' <=> (kind' = "file" => open' = Cardinality(Unclosed') + IF wclose' = "done" THEN 0 ELSE 1)
  BY DEF FileOpenWhileUsed, Unclosed
<1>12. ASSUME NEW i \in Readers, ReaderClose(i) PROVE TeeInv'
  <2>1. /\ rclose[i] \in {"no", "done"} /\ rclose' = [rclose EXCEPT ![i] = "broadcast"]
        /\ UNCHANGED <<kind, headVars, w, wclose, r, eof>>
    BY <1>12 DEF ReaderClose
  <2>2. open' \in Int /\ rclose' \in [Readers -> {"no", "broadcast", "done"}]
    BY <1>0, <1>12, <2>1 DEF ReaderClose, CloseHandle, TeeTypeOK
  <2>3. CASE rclose[i] = "no"
    <3>1. Unclosed' = Unclosed \ {i} /\ i \in Unclosed
      BY <1>0, <2>1, <2>3 DEF Unclosed, TeeTypeOK
    <3>2. Cardinality(Unclosed') = Cardinality(Unclosed) - 1
      BY <1>10, <3>1, FS_RemoveElement
    <3>3. kind = "file" => open' = open - 1
      BY <1>12, <2>3 DEF ReaderClose, CloseHandle
    <3>4. FileOpenWhileUsed'
      <4> SUFFICES ASSUME kind' = "file"
                   PROVE  open' = Cardinality(Unclosed') + IF wclose' = "done" THEN 0 ELSE 1
        BY <1>11
      <4>1. kind = "file" /\ open' = open - 1 /\ wclose' = wclose /\ open \in Int
        BY <1>0, <2>1, <3>3 DEF TeeTypeOK
      <4>2. open = Cardinality(Unclosed) + IF wclose = "done" THEN 0 ELSE 1
        BY <1>0, <4>1 DEF FileOpenWhileUsed, Unclosed
      <4>3. QED
        BY <1>10, <3>2, <4>1, <4>2
    <3>5. QED
      BY <1>0, <2>1, <2>2, <3>4 DEF TeeInv, TeeTypeOK, WriterInv, Backpressure, ReadersInv, ClosedInv, headVars
  <2>4. CASE rclose[i] = "done"
    <3>1. Unclosed' = Unclosed /\ open' = open
      BY <1>0, <1>12, <2>1, <2>4 DEF Unclosed, TeeTypeOK, ReaderClose
    <3>2. FileOpenWhileUsed'
      BY <1>0, <2>1, <3>1 DEF FileOpenWhileUsed, Unclosed
    <3>3. QED
      BY <1>0, <2>1, <2>2, <3>2 DEF TeeInv, TeeTypeOK, WriterInv, Backpressure, ReadersInv, ClosedInv, headVars
  <2>5. QED
    BY <2>1, <2>3, <2>4
<1>13. ASSUME NEW i \in Readers, ReaderBroadcast(i) PROVE TeeInv'
  <2>1. /\ rclose[i] = "broadcast" /\ rclose' = [rclose EXCEPT ![i] = "done"] /\ w' = WakeWriter
        /\ UNCHANGED <<kind, open, headVars, wclose, r, eof>>
    BY <1>13 DEF ReaderBroadcast
  <2>2. /\ w' \in [pc : WritePcs, n : Nat] /\ w'.n = w.n
        /\ w'.pc = w.pc \/ (w.pc = "waiting" /\ w'.pc = "woken")
    BY <1>0, <2>1 DEF WakeWriter, WritePcs, TeeTypeOK
  <2>3. Unclosed' = Unclosed /\ rclose' \in [Readers -> {"no", "broadcast", "done"}]
    BY <1>0, <2>1 DEF Unclosed, TeeTypeOK
  <2>4. WriterInv' /\ ClosedInv'
    BY <1>0, <2>1, <2>2 DEF WriterInv, Backpressure, ClosedInv, headVars
  <2>5. FileOpenWhileUsed'
    BY <1>0, <2>1, <2>3 DEF FileOpenWhileUsed, Unclosed
  <2>6. QED
    BY <1>0, <2>1, <2>2, <2>3, <2>4, <2>5 DEF TeeInv, TeeTypeOK, ReadersInv, headVars
<1>14. ASSUME NEW reason \in {"EOF", "failure"}, WriterClose(reason) PROVE TeeInv'
  <2>1. /\ ~writerDone /\ (reason = "EOF" => w.pc = "idle")
        /\ writerDone' = TRUE /\ writerErr' = reason /\ r' = WakeReaders /\ wclose' = "closing"
        /\ UNCHANGED <<kind, open, maxRead, write, stored, w, rclose, eof>>
    BY <1>14 DEF WriterClose
  <2>2. wclose = "no" /\ eof = {}
    BY <1>0, <2>1 DEF ClosedInv, TeeTypeOK
  <2>3. TeeTypeOK' /\ ReadersInv' /\ ClosedInv'
    BY <1>0, <1>5, <2>1, <2>2 DEF TeeTypeOK, ReadersInv, ClosedInv
  <2>4. WriterInv' /\ FileOpenWhileUsed'
    BY <1>0, <2>1, <2>2 DEF WriterInv, Backpressure, FileOpenWhileUsed
  <2>5. QED
    BY <2>3, <2>4 DEF TeeInv
<1>15. CASE WriterCloseBuffer
  <2>1. /\ wclose = "closing" /\ wclose' = "done" /\ UNCHANGED <<kind, headVars, w, r, rclose, eof>>
        /\ open' = IF kind = "file" THEN open - 1 ELSE open
    BY <1>15 DEF WriterCloseBuffer, CloseHandle
  <2>2. FileOpenWhileUsed' /\ open' \in Int
    BY <1>0, <1>10, <2>1 DEF FileOpenWhileUsed, Unclosed, TeeTypeOK
  <2>3. QED
    BY <1>0, <2>1, <2>2 DEF TeeInv, TeeTypeOK, WriterInv, Backpressure, ReadersInv, ClosedInv, headVars
<1>16. CASE UNCHANGED teeVars
  BY <1>0, <1>16 DEF TeeInv, TeeTypeOK, WriterInv, Backpressure, ReadersInv, ClosedInv, FileOpenWhileUsed, teeVars, headVars
<1>17. QED
  BY <1>1, <1>2, <1>3, <1>4, <1>6, <1>7, <1>8, <1>9, <1>12, <1>13, <1>14, <1>15, <1>16 DEF TeeNext, WriteStep

\* The invariant holds in every behaviour.
THEOREM TeeInvariant == TeeSpec => []TeeInv
<1>1. TeeInit => TeeInv
  BY TeeStart
<1>2. TeeInv /\ [TeeNext]_teeVars => TeeInv'
  BY TeeStep
<1>3. QED
  BY <1>1, <1>2, PTL DEF TeeSpec

\* Readers get what was written: no read outside the mutex is past the data, the writer is
\* ahead of the readers by one Write at most, io.EOF is returned only to a reader that has
\* everything, and the shared file is closed with the last handle and not before, however
\* often a reader is closed (tee.go:110-240, tee_buffer.go:35-40).
THEOREM TeeReadsWritten == TeeSpec => []ReadsWhatWasWritten
<1>1. TeeInv => ReadsWhatWasWritten
  <2> SUFFICES ASSUME TeeInv PROVE ReadsWhatWasWritten
    OBVIOUS
  <2>1. NoReadPastData
    BY DEF TeeInv, TeeTypeOK, WriterInv, ReadersInv, NoReadPastData
  <2>2. Backpressure /\ EofMeansAll /\ FileOpenWhileUsed
    BY DEF TeeInv, WriterInv, ClosedInv, EofMeansAll
  <2>3. QED
    BY <2>1, <2>2 DEF ReadsWhatWasWritten
<1>2. QED
  BY <1>1, TeeInvariant, PTL
==============================================================================
