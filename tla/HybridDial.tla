------------------------------ MODULE HybridDial ------------------------------
(***************************************************************************)
(* A dial of rpc.Dialer through rpc.HybridConnector: the candidates that are  *)
(* registered or added, the goroutine per candidate that opens a socket and   *)
(* shakes hands (TCPConnector and the QUIC Connector have the same two        *)
(* stages), and the loop that keeps one connection and closes the others.     *)
(*                                                                         *)
(* errChan and readyChan are unbuffered: a candidate's send and the loop's     *)
(* receive are one step. A connection is named after its candidate.           *)
(***************************************************************************)
EXTENDS Integers, FiniteSets

CONSTANTS
  Names,        \* names of candidate connectors
  Tcp,          \* the one registered by default, and the only one forced
  TcpPriority,  \* TCPConnectorPriority
  Priorities,   \* priorities candidates are registered or added with
  None          \* no connector, no connection

ASSUME HybridAssumption ==
  /\ IsFiniteSet(Names) /\ Tcp \in Names /\ None \notin Names
  /\ Priorities \subseteq Nat \ {0} /\ TcpPriority \in Priorities

VARIABLES
  connectors,  \* name -> priority: connectorRegistry up to NewHybridConnector, then the
               \* copy of it that the connector has
  pc,          \* "setup", "ready", "latency", "select", "plain", "returned"
  forced,      \* the forced kind in the context, or None
  unencrypted, \* the dial is one without TLS
  dialDone,     \* the context of the dial is cancelled or has timed out
  spawned,     \* dials not yet heard of
  chosen,      \* the connection to keep so far
  cand,        \* each candidate's goroutine: "off", "dial", "shake", "ready", "failed", "done"
  sock,        \* each candidate's socket: "none", "open", "closed"
  shake,       \* each handshake: "none", "running", "ok", "failed"
  delivered,   \* history: candidates whose connection reached the loop
  result       \* the connection returned, or None with an error

setupVars == <<connectors, forced, unencrypted>>
loopVars == <<pc, dialDone, spawned, chosen, delivered, result>>
hybridVars == <<setupVars, loopVars, cand, sock, shake>>

------------------------------------------------------------------------------
(* Setting up the candidates. *)

\* Replace the entry of that name or append a new one.
SetCandidate(list, n, p) == [m \in DOMAIN list \cup {n} |-> IF m = n THEN p ELSE list[m]]

RegisterCandidateConnectorType(n, p) ==
  /\ pc = "setup"
  /\ connectors' = SetCandidate(connectors, n, p)
  /\ UNCHANGED <<forced, unencrypted, loopVars, cand, sock, shake>>

\* The registry is copied: registering changes nothing of this connector any more.
NewHybridConnector ==
  /\ pc = "setup"
  /\ pc' = "ready"
  /\ UNCHANGED <<setupVars, dialDone, spawned, chosen, delivered, result,
                 cand, sock, shake>>

AddCandidateConnector(n, p) ==
  /\ pc = "ready"
  /\ connectors' = SetCandidate(connectors, n, p)
  /\ UNCHANGED <<forced, unencrypted, loopVars, cand, sock, shake>>

RemoveCandidateConnector(n) ==
  /\ pc = "ready" /\ n \in DOMAIN connectors
  /\ connectors' = [m \in DOMAIN connectors \ {n} |-> connectors[m]]
  /\ UNCHANGED <<forced, unencrypted, loopVars, cand, sock, shake>>

------------------------------------------------------------------------------
(* The dial. *)

\* checkQUICRolloutState draws a random number: tcp is forced, or nothing is.
Dial ==
  /\ pc = "ready"
  /\ forced' \in {None, Tcp}
  /\ unencrypted' \in BOOLEAN
  /\ pc' = "latency"
  /\ UNCHANGED <<connectors, dialDone, spawned, chosen, delivered, result,
                 cand, sock, shake>>

\* DialTimeout, or the caller's context.
Timeout ==
  /\ pc \in {"latency", "select", "plain"} /\ ~dialDone
  /\ dialDone' = TRUE
  /\ UNCHANGED <<setupVars, pc, spawned, chosen, delivered, result, cand, sock, shake>>

\* The context ends before DialLatency has passed.
LatencyCancelled ==
  /\ pc = "latency" /\ dialDone
  /\ pc' = "returned"
  /\ UNCHANGED <<setupVars, dialDone, spawned, chosen, delivered, result, cand, sock, shake>>

Attempted == {n \in DOMAIN connectors : forced \in {None, n}}

\* One goroutine per candidate of the forced kind; none at all is an error.
Spawn ==
  /\ pc = "latency" /\ ~unencrypted
  /\ pc' = IF Attempted = {} THEN "returned" ELSE "select"
  /\ spawned' = Cardinality(Attempted)
  /\ cand' = [n \in Names |-> IF n \in Attempted THEN "dial" ELSE "off"]
  /\ UNCHANGED <<setupVars, dialDone, chosen, delivered, result, sock, shake>>

\* Without TLS: the first candidate that can dial so, which is the one for TCP.
DialContextUnencrypted ==
  /\ pc = "latency" /\ unencrypted
  /\ pc' = IF Tcp \in Attempted THEN "plain" ELSE "returned"
  /\ UNCHANGED <<setupVars, dialDone, spawned, chosen, delivered, result, cand, sock, shake>>

\* There is a socket, or none, or one that is closed because its timeout can not be set.
PlainDial ==
  /\ pc = "plain"
  /\ pc' = "returned"
  /\ \/ /\ sock' = [sock EXCEPT ![Tcp] = "open"]
        /\ delivered' = delivered \cup {Tcp} /\ result' = Tcp
     \/ /\ \E left \in {"none", "closed"} : sock' = [sock EXCEPT ![Tcp] = left]
        /\ UNCHANGED <<delivered, result>>
  /\ UNCHANGED <<setupVars, dialDone, spawned, chosen, cand, shake>>

\* Bug form: the socket of a failed handshake is left open.
FailKeepsSocket(n) ==
  /\ cand' = [cand EXCEPT ![n] = "failed"]
  /\ sock' = sock

\* A candidate fails: the raw connection, if there is one, is closed.
CandidateFails(n) ==
  /\ cand' = [cand EXCEPT ![n] = "failed"]
  /\ sock' = [sock EXCEPT ![n] = IF @ = "open" THEN "closed" ELSE @]

\* The raw connection or the QUIC session.
RawOK(n) ==
  /\ cand[n] = "dial"
  /\ sock' = [sock EXCEPT ![n] = "open"]
  /\ shake' = [shake EXCEPT ![n] = "running"]
  /\ cand' = [cand EXCEPT ![n] = "shake"]
  /\ UNCHANGED <<setupVars, loopVars>>

RawFail(n) ==
  /\ cand[n] = "dial"
  /\ CandidateFails(n)
  /\ UNCHANGED <<setupVars, loopVars, shake>>

\* The handshake ends on its own; closing its socket makes it fail. Its result
\* fits the channel even if nobody reads it any more.
HandshakeReturns(n) ==
  /\ shake[n] = "running"
  /\ \E res \in IF sock[n] = "open" THEN {"ok", "failed"} ELSE {"failed"} :
       shake' = [shake EXCEPT ![n] = res]
  /\ UNCHANGED <<setupVars, loopVars, cand, sock>>

\* The candidate's select: the result of the handshake or the context.
SelectHandshake(n) ==
  /\ cand[n] = "shake" /\ shake[n] \in {"ok", "failed"}
  /\ IF shake[n] = "ok"
     THEN cand' = [cand EXCEPT ![n] = "ready"] /\ sock' = sock
     ELSE CandidateFails(n)
  /\ UNCHANGED <<setupVars, loopVars, shake>>

SelectContext(n) ==
  /\ cand[n] = "shake" /\ dialDone
  /\ CandidateFails(n)
  /\ UNCHANGED <<setupVars, loopVars, shake>>

\* Bug form: the first connection is kept whatever comes after.
ReceiveReadyFirst(n) ==
  /\ pc = "select" /\ spawned > 0 /\ cand[n] = "ready"
  /\ spawned' = spawned - 1
  /\ dialDone' = TRUE
  /\ cand' = [cand EXCEPT ![n] = "done"]
  /\ delivered' = delivered \cup {n}
  /\ IF chosen = None THEN chosen' = n /\ sock' = sock
     ELSE chosen' = chosen /\ sock' = [sock EXCEPT ![n] = "closed"]
  /\ UNCHANGED <<setupVars, pc, result, shake>>

PriorityOf(n) == IF n = None THEN 0 ELSE connectors[n]

\* A connection arrives: cancel the other dials, keep the better of it and the
\* choice so far, close the other one.
ReceiveReady(n) ==
  /\ pc = "select" /\ spawned > 0 /\ cand[n] = "ready"
  /\ spawned' = spawned - 1
  /\ dialDone' = TRUE
  /\ cand' = [cand EXCEPT ![n] = "done"]
  /\ delivered' = delivered \cup {n}
  /\ IF PriorityOf(n) > PriorityOf(chosen)
     THEN /\ chosen' = n
          /\ sock' = IF chosen = None THEN sock ELSE [sock EXCEPT ![chosen] = "closed"]
     ELSE /\ chosen' = chosen
          /\ sock' = [sock EXCEPT ![n] = "closed"]
  /\ UNCHANGED <<setupVars, pc, result, shake>>

ReceiveErr(n) ==
  /\ pc = "select" /\ spawned > 0 /\ cand[n] = "failed"
  /\ spawned' = spawned - 1
  /\ cand' = [cand EXCEPT ![n] = "done"]
  /\ UNCHANGED <<setupVars, pc, dialDone, chosen, delivered, result, sock, shake>>

\* All dials are accounted for.
Return ==
  /\ pc = "select" /\ spawned = 0
  /\ result' = chosen
  /\ dialDone' = TRUE
  /\ pc' = "returned"
  /\ UNCHANGED <<setupVars, spawned, chosen, delivered, cand, sock, shake>>

------------------------------------------------------------------------------

HybridInit ==
  /\ connectors = [n \in {Tcp} |-> TcpPriority]
  /\ pc = "setup" /\ forced = None /\ unencrypted = FALSE /\ dialDone = FALSE /\ spawned = 0
  /\ chosen = None /\ result = None /\ delivered = {}
  /\ cand = [n \in Names |-> "off"]
  /\ sock = [n \in Names |-> "none"]
  /\ shake = [n \in Names |-> "none"]

Setup ==
  \/ \E n \in Names, p \in Priorities :
       RegisterCandidateConnectorType(n, p) \/ AddCandidateConnector(n, p)
  \/ \E n \in Names : RemoveCandidateConnector(n)
  \/ NewHybridConnector

Candidate(n) ==
  RawOK(n) \/ RawFail(n) \/ HandshakeReturns(n) \/ SelectHandshake(n) \/ SelectContext(n)

Receive(n) == ReceiveReady(n) \/ ReceiveErr(n)

HybridNext ==
  \/ Setup \/ Dial \/ Timeout \/ LatencyCancelled \/ Spawn \/ DialContextUnencrypted \/ PlainDial \/ Return
  \/ \E n \in Names : Candidate(n) \/ Receive(n)

(***************************************************************************)
(* The dialing goroutine and the candidates run. A network dial that nobody   *)
(* answers need not end by itself: it must only once its context is done.     *)
(* DialTimeout is not assumed to be set.                                      *)
(***************************************************************************)
HybridFairness ==
  /\ WF_hybridVars(LatencyCancelled \/ Spawn \/ DialContextUnencrypted)
  /\ WF_hybridVars(dialDone /\ PlainDial)
  /\ WF_hybridVars(Return)
  /\ \A n \in Names :
       /\ WF_hybridVars(dialDone /\ (RawOK(n) \/ RawFail(n)))
       /\ WF_hybridVars(SelectHandshake(n) \/ SelectContext(n))
       /\ WF_hybridVars(sock[n] = "closed" /\ HandshakeReturns(n))
       /\ WF_hybridVars(Receive(n))

HybridSpec == HybridInit /\ [][HybridNext]_hybridVars /\ HybridFairness

------------------------------------------------------------------------------

\* When the dial returns, every socket that any candidate opened is closed but
\* the returned one, which is open, and every candidate's goroutine has ended:
\* "allows us to appropriately close extra connection" (hybrid.go:206-208).
NoSocketLeft ==
  pc = "returned" => \A n \in Names : /\ sock[n] = "open" <=> n = result
                                      /\ cand[n] \in {"off", "done"}

\* "If multiple connectors finish before they are canceled, the connection with
\* the highest priority value is kept" (hybrid.go:159-160), and an error means
\* that none finished.
KeepsBest ==
  pc = "returned" =>
    IF delivered = {} THEN result = None
    ELSE result \in delivered /\ \A n \in delivered : connectors[n] <= connectors[result]

\* Once one connection is there, or the context is done, the dial ends, even if
\* the other candidates' peers never answer (cancel, hybrid.go:217).
DialEnds == (delivered # {} \/ (dialDone /\ pc # "setup")) ~> pc = "returned"
==============================================================================
