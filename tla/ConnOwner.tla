------------------------------ MODULE ConnOwner ------------------------------
(***************************************************************************)
(* What rpcpool promises its users, without a cache, timers or locks: a            *)
(* connection is dialed for one key, is used by one task at a time, waits idle in  *)
(* between, and once the pool has let go of it nobody gets it again. A task that   *)
(* has to dial has found no idle connection for its key.                           *)
(***************************************************************************)
EXTENDS FiniteSets

CONSTANTS Keys, Conns, Tasks, None

VARIABLES
  status,      \* each connection: "fresh", "busy", "idle", "gone"
  dialedFor,   \* the key of each connection, None while it is fresh
  user         \* [key, conn] of each task, None for what it does not have

ownerVars == <<status, dialedFor, user>>

Nobody == [key |-> None, conn |-> None]

\* Any idle connections may be let go of in a step; c changes its status to new.
Only(c, new) ==
  \A d \in Conns :
    IF d = c THEN status'[d] = new
    ELSE status'[d] = status[d] \/ (status[d] = "idle" /\ status'[d] = "gone")

Idle(k) == {c \in Conns : status[c] = "idle" /\ dialedFor[c] = k}

\* A task asks for a connection for k and gets an idle one.
Give(t, k) ==
  /\ user[t] = Nobody
  /\ \E c \in Idle(k) : /\ user' = [user EXCEPT ![t] = [key |-> k, conn |-> c]]
                        /\ Only(c, "busy")
  /\ UNCHANGED dialedFor

\* It has to dial: no idle connection for its key is left.
HasToDial(t, k) ==
  /\ user[t] = Nobody
  /\ user' = [user EXCEPT ![t] = [key |-> k, conn |-> None]]
  /\ Only(None, "gone") /\ \A c \in Idle(k) : status'[c] = "gone"
  /\ UNCHANGED dialedFor

Dialed(t) ==
  /\ user[t].key # None /\ user[t].conn = None
  /\ \E c \in Conns : /\ status[c] = "fresh" /\ status' = [status EXCEPT ![c] = "busy"]
                       /\ user' = [user EXCEPT ![t].conn = c]
                       /\ dialedFor' = [dialedFor EXCEPT ![c] = user[t].key]

NotDialed(t) ==
  /\ user[t].key # None /\ user[t].conn = None
  /\ user' = [user EXCEPT ![t] = Nobody]
  /\ UNCHANGED <<status, dialedFor>>

\* The task is done with its connection, which is kept or not.
Release(t) ==
  /\ user[t].conn # None
  /\ user' = [user EXCEPT ![t] = Nobody]
  /\ \E new \in {"idle", "gone"} : Only(user[t].conn, new)
  /\ UNCHANGED dialedFor

Discard == Only(None, "gone") /\ UNCHANGED <<dialedFor, user>>

OwnerInit ==
  /\ status = [c \in Conns |-> "fresh"]
  /\ dialedFor = [c \in Conns |-> None]
  /\ user = [t \in Tasks |-> Nobody]

OwnerNext ==
  \/ Discard
  \/ \E t \in Tasks :
       \/ \E k \in Keys : Give(t, k) \/ HasToDial(t, k)
       \/ Dialed(t) \/ NotDialed(t) \/ Release(t)

OwnerSpec == OwnerInit /\ [][OwnerNext]_ownerVars
==============================================================================
