------------------------------ MODULE AtomicFile ------------------------------
(***************************************************************************)
(* fpath.AtomicWriteFile: a file is replaced by way of a temporary file in the same    *)
(* directory. Several writers may write the same file; every step may fail, and the     *)
(* process may end between two steps. Rename is atomic (external).                       *)
(***************************************************************************)
EXTENDS Naturals, FiniteSets

CONSTANTS
  FileWriters,   \* concurrent AtomicWriteFile calls for one file; each writes its own data
  NoData         \* no file

ASSUME FileAssumption == NoData \notin FileWriters

VARIABLES
  out,        \* whose data the file has, or NoData
  temp,       \* each writer's temporary file: "none", "empty", "cut", "whole", "renamed"
  wrPc,       \* each writer: "idle", "write", "close", "rename", "return", "cleanup", "ok", "failed", "gone"
  acked       \* history: the writers that returned without an error, in no order

fileVars == <<out, temp, wrPc, acked>>

WriteTo(w, pc) == wrPc' = [wrPc EXCEPT ![w] = pc]

TempFile(w) ==
  /\ wrPc[w] = "idle"
  /\ \/ temp' = [temp EXCEPT ![w] = "empty"] /\ WriteTo(w, "write")
     \/ WriteTo(w, "failed") /\ UNCHANGED temp
  /\ UNCHANGED <<out, acked>>

\* A write may be cut short; then the deferred function closes and removes the file.
WriteTemp(w) ==
  /\ wrPc[w] = "write"
  /\ \/ temp' = [temp EXCEPT ![w] = "whole"] /\ WriteTo(w, "close")
     \/ \E t \in {"empty", "cut"} : temp' = [temp EXCEPT ![w] = t] /\ WriteTo(w, "cleanup")
  /\ UNCHANGED <<out, acked>>

\* Bug form: an error of Close does not matter, though the data may not have been written.
CloseTempAnyway(w) ==
  /\ wrPc[w] = "close"
  /\ \/ UNCHANGED temp
     \/ temp' = [temp EXCEPT ![w] = "cut"]
  /\ WriteTo(w, "rename")
  /\ UNCHANGED <<out, acked>>

\* An error of Close may mean that the data was not written.
CloseTemp(w) ==
  /\ wrPc[w] = "close"
  /\ \/ UNCHANGED temp /\ WriteTo(w, "rename")
     \/ temp' = [temp EXCEPT ![w] = "cut"] /\ WriteTo(w, "cleanup")
  /\ UNCHANGED <<out, acked>>

Rename(w) ==
  /\ wrPc[w] = "rename"
  /\ \/ /\ out' = [by |-> w, state |-> temp[w]]
        /\ temp' = [temp EXCEPT ![w] = "renamed"]
        /\ WriteTo(w, "return")
     \/ WriteTo(w, "cleanup") /\ UNCHANGED <<out, temp>>
  /\ UNCHANGED acked

ReturnDone(w) ==
  /\ wrPc[w] = "return"
  /\ WriteTo(w, "ok") /\ acked' = acked \cup {w}
  /\ UNCHANGED <<out, temp>>

\* The deferred function; removing the file may fail too.
RemoveTemp(w) ==
  /\ wrPc[w] = "cleanup"
  /\ \/ temp' = [temp EXCEPT ![w] = "none"]
     \/ UNCHANGED temp
  /\ WriteTo(w, "failed")
  /\ UNCHANGED <<out, acked>>

\* The process ends.
WriterCrash ==
  /\ \E w \in FileWriters : wrPc[w] \notin {"idle", "ok", "failed", "gone"}
  /\ wrPc' = [w \in FileWriters |-> IF wrPc[w] \in {"ok", "failed"} THEN wrPc[w] ELSE "gone"]
  /\ UNCHANGED <<out, temp, acked>>

FileInit ==
  /\ out = [by |-> NoData, state |-> "whole"]
  /\ temp = [w \in FileWriters |-> "none"]
  /\ wrPc = [w \in FileWriters |-> "idle"]
  /\ acked = {}

FileNext ==
  \/ \E w \in FileWriters : TempFile(w) \/ WriteTemp(w) \/ CloseTemp(w) \/ Rename(w)
                               \/ ReturnDone(w) \/ RemoveTemp(w)
  \/ WriterCrash

\* The file is never half written, whichever step failed or where the process ended: it
\* holds what it held before, or all of what one writer wrote, and that writer was not told
\* of a failure: it succeeded, is about to, or ended before it could. After the first success
\* the file is not the old one, and who succeeded leaves no temporary file
\* (atomic.go:15-49).
FileWhole ==
  /\ out.state = "whole"
  /\ out.by # NoData => out.by \in acked \/ wrPc[out.by] \in {"return", "gone"}
  /\ acked # {} => out.by # NoData
  /\ \A w \in FileWriters : wrPc[w] = "ok" => temp[w] = "renamed"
==============================================================================
