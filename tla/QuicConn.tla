------------------------------- MODULE QuicConn -------------------------------
(***************************************************************************)
(* rpc/quic: a Conn that Listener.Accept or Connector.DialContext made, used by    *)
(* several goroutines, with its close tracking wrapper. An incoming connection      *)
(* has no stream yet: the first method that needs one waits for it inside a          *)
(* sync.Once, the others wait for the first.                                         *)
(*                                                                                 *)
(* The session and its streams are those of quic-go (external): AcceptStream and    *)
(* the methods of a stream return an error once the session is closed.               *)
(***************************************************************************)
EXTENDS Naturals, FiniteSets

CONSTANT ConnUsers   \* goroutines that call Read, Write or a Set...Deadline

VARIABLES
  incoming,   \* made by the listener, without a stream
  session,    \* "open", "closed" by us or the peer with NoError, "broken" in any other way
  peerStream, \* the peer has opened a stream
  peerFin,    \* the peer has finished its side of the stream
  stream,     \* c.stream: "nil", "half" while its two words are being written, "set"
  acceptErr,  \* c.acceptErr: "nil", or the state of the session it came from
  once,       \* c.once: "new", "running", "done"
  user,       \* [pc, op, result] of each goroutine
  tracked,    \* the wrapper: "held", "forgotten" by everyone, "closed", "leaked"
  accepts     \* history: calls of AcceptStream

quicVars == <<incoming, session, peerStream, peerFin, stream, acceptErr, once, user, tracked, accepts>>

ConnOps == {"Read", "Write", "SetDeadline"}
Returned(u, res) == user' = [user EXCEPT ![u] = [pc |-> "idle", op |-> "none", result |-> res]]

\* Bug form: every error of Read is the end of the data.
captureErrAny(op, err) == IF op = "Read" THEN "EOF" ELSE IF err = "broken" \/ op = "SetDeadline" THEN err ELSE "reset"

\* What a method makes of the error of a session: a normal exit is the end of the data for
\* Read, and a reset connection for Write.
captureErr(op, err) ==
  IF err = "broken" \/ op = "SetDeadline" THEN err
  ELSE IF op = "Read" THEN "EOF" ELSE "reset"

------------------------------------------------------------------------------
(* getStream. *)

\* The check of c.stream outside of the once. It races with the write: a reader that sees
\* half of the interface value crashes.
CheckStream(u, op) ==
  /\ user[u].pc = "idle" /\ tracked \in {"held", "closed"}
  /\ user' = [user EXCEPT ![u] =
       [pc |-> IF stream = "nil" THEN "once" ELSE IF stream = "half" THEN "crashed" ELSE "stream",
        op |-> op, result |-> "none"]]
  /\ UNCHANGED <<incoming, session, peerStream, peerFin, stream, acceptErr, once, tracked, accepts>>

EnterAccept(u) ==
  /\ user[u].pc = "once" /\ once = "new"
  /\ once' = "running" /\ accepts' = accepts + 1
  /\ user' = [user EXCEPT ![u].pc = "accept"]
  /\ UNCHANGED <<incoming, session, peerStream, peerFin, stream, acceptErr, tracked>>

\* Bug form: the end of the session is not looked at.
AcceptStreamOnly(u) ==
  /\ user[u].pc = "accept" /\ stream = "nil" /\ acceptErr = "nil"
  /\ peerStream
  /\ stream' = "half"
  /\ UNCHANGED <<incoming, session, peerStream, peerFin, acceptErr, once, user, tracked, accepts>>

\* AcceptStream has its own context: only a stream or the end of the session ends it.
AcceptStream(u) ==
  /\ user[u].pc = "accept" /\ stream = "nil" /\ acceptErr = "nil"
  /\ \/ /\ peerStream /\ session = "open"
        /\ stream' = "half" /\ UNCHANGED acceptErr
     \/ /\ session # "open"
        /\ acceptErr' = session /\ UNCHANGED stream
  /\ UNCHANGED <<incoming, session, peerStream, peerFin, once, user, tracked, accepts>>

LeaveAccept(u) ==
  /\ user[u].pc = "accept" /\ (stream = "half" \/ acceptErr # "nil")
  /\ stream' = IF stream = "half" THEN "set" ELSE stream
  /\ once' = "done"
  /\ user' = [user EXCEPT ![u].pc = "after"]
  /\ UNCHANGED <<incoming, session, peerStream, peerFin, acceptErr, tracked, accepts>>

\* The others get past the once when it is done.
PassOnce(u) ==
  /\ user[u].pc = "once" /\ once = "done"
  /\ user' = [user EXCEPT ![u].pc = "after"]
  /\ UNCHANGED <<incoming, session, peerStream, peerFin, stream, acceptErr, once, tracked, accepts>>

AfterOnce(u) ==
  /\ user[u].pc = "after"
  /\ IF acceptErr # "nil" THEN Returned(u, captureErr(user[u].op, acceptErr))
     ELSE user' = [user EXCEPT ![u].pc = "stream"]
  /\ UNCHANGED <<incoming, session, peerStream, peerFin, stream, acceptErr, once, tracked, accepts>>

\* The method of the stream: data, the end of what the peer sends, which Read passes on, an
\* error of the stream alone (reset by the peer, a deadline), or the end of the session.
\* Setting a deadline does not look at the session.
UseStream(u) ==
  /\ user[u].pc = "stream"
  /\ \/ (session = "open" \/ user[u].op = "SetDeadline") /\ Returned(u, "ok")
     \/ user[u].op = "Read" /\ peerFin /\ Returned(u, "EOF")
     \/ user[u].op # "SetDeadline" /\ session = "open" /\ Returned(u, "failed")
     \/ user[u].op # "SetDeadline" /\ session # "open" /\ Returned(u, captureErr(user[u].op, session))
  /\ UNCHANGED <<incoming, session, peerStream, peerFin, stream, acceptErr, once, tracked, accepts>>

------------------------------------------------------------------------------
(* The session and the wrapper. *)

PeerOpensStream ==
  /\ incoming /\ session = "open" /\ ~peerStream
  /\ peerStream' = TRUE
  /\ UNCHANGED <<incoming, session, peerFin, stream, acceptErr, once, user, tracked, accepts>>

PeerFinishes ==
  /\ session = "open" /\ (peerStream \/ ~incoming) /\ ~peerFin
  /\ peerFin' = TRUE
  /\ UNCHANGED <<incoming, session, peerStream, stream, acceptErr, once, user, tracked, accepts>>

\* The peer closes it, or it times out or breaks.
SessionEnds ==
  /\ session = "open"
  /\ session' \in {"closed", "broken"}
  /\ UNCHANGED <<incoming, peerStream, peerFin, stream, acceptErr, once, user, tracked, accepts>>

\* closeTrackingConn.Close takes the finalizer off.
CloseConn ==
  /\ tracked = "held"
  /\ tracked' = "closed"
  /\ session' = IF session = "open" THEN "closed" ELSE session
  /\ UNCHANGED <<incoming, peerStream, peerFin, stream, acceptErr, once, user, accepts>>

\* Nobody uses the connection any more, and it was never closed. What DialContext
\* returned has a finalizer, which closes the session.
ForgetConn ==
  /\ ~incoming /\ tracked = "held" /\ \A u \in ConnUsers : user[u].pc \in {"idle", "crashed"}
  /\ tracked' = "forgotten"
  /\ UNCHANGED <<incoming, session, peerStream, peerFin, stream, acceptErr, once, user, accepts>>

FinalizeConn ==
  /\ tracked = "forgotten"
  /\ tracked' = "leaked"
  /\ session' = IF session = "open" THEN "closed" ELSE session
  /\ UNCHANGED <<incoming, peerStream, peerFin, stream, acceptErr, once, user, accepts>>

------------------------------------------------------------------------------

QuicInit ==
  /\ incoming \in BOOLEAN
  /\ stream = (IF incoming THEN "nil" ELSE "set")
  /\ session = "open" /\ peerStream = FALSE /\ peerFin = FALSE /\ acceptErr = "nil" /\ once = "new"
  /\ user = [u \in ConnUsers |-> [pc |-> "idle", op |-> "none", result |-> "none"]]
  /\ tracked = "held" /\ accepts = 0

GetStream(u) == EnterAccept(u) \/ AcceptStream(u) \/ LeaveAccept(u) \/ PassOnce(u) \/ AfterOnce(u)

QuicNext ==
  \/ \E u \in ConnUsers :
       \/ \E op \in ConnOps : CheckStream(u, op)
       \/ GetStream(u) \/ UseStream(u)
  \/ PeerOpensStream \/ PeerFinishes \/ SessionEnds \/ CloseConn \/ ForgetConn \/ FinalizeConn

\* Goroutines in getStream go on; a method of the stream may wait until the session ends.
QuicFairness ==
  \A u \in ConnUsers : WF_quicVars(GetStream(u)) /\ WF_quicVars(session # "open" /\ UseStream(u))

------------------------------------------------------------------------------

\* "When this function completes, it guarantees either c.acceptErr is not nil or c.stream
\* is not nil" (conn.go:78): one stream is accepted at most, whoever gets past the once
\* has it or the error, only a peer that has finished or a session that was closed reads as
\* the end of the data, a reset connection is one whose session was closed, and once the
\* wrapper is closed, or collected, so is the session (conn.go:38-95, 150-177, 233-250).
OneStream ==
  /\ accepts <= 1
  /\ \A u \in ConnUsers :
       /\ user[u].pc = "after" => stream = "set" \/ acceptErr # "nil"
       /\ user[u].pc = "stream" => stream = "set"
       /\ user[u].result = "EOF" => session = "closed" \/ peerFin
       /\ user[u].result = "reset" => session = "closed"
  /\ tracked \in {"closed", "leaked"} => session # "open"

\* A session that ends frees everyone who waits for its stream (conn.go:79-87).
SessionEndFrees ==
  \A u \in ConnUsers :
    (session # "open" /\ user[u].pc \notin {"idle", "crashed"}) ~> user[u].pc = "idle"
==============================================================================
