------------------------------- MODULE ConnPool -------------------------------
(***************************************************************************)
(* rpc/rpcpool: Pool.Get and the pooled connection (poolConn) it returns,    *)
(* on top of the connection cache. A task is a goroutine inside Pool.Get,    *)
(* poolConn.Invoke or poolConn.NewStream; the goroutine NewStream leaves     *)
(* behind to put the connection back is the same task in stage "stream".     *)
(***************************************************************************)
EXTENDS ConnCache

CONSTANT Tasks   \* goroutines

VARIABLES
  task,     \* [op, pc, key, conn] of each goroutine
  handle,   \* whether the user has an open poolConn for the key
  dropped   \* connections NewStream failed on and let go of

poolVars == <<task, handle, dropped>>
vars == <<cacheVars, poolVars>>

Ops == {"Get", "Invoke", "NewStream"}

Idle == [op |-> "none", pc |-> "idle", key |-> None, conn |-> None]

\* Where the code goes once pool.get has a connection: Get puts it straight back.
Got(op) == IF op = "Get" THEN "put" ELSE "call"

\* Pool.Get creates the handle; Invoke and NewStream leave it alone.
Return(t) ==
  /\ task' = [task EXCEPT ![t] = Idle]
  /\ handle' = IF task[t].op = "Get" /\ task[t].pc # "dial"
               THEN [handle EXCEPT ![task[t].key] = TRUE] ELSE handle

Goto(t, pc) == task' = [task EXCEPT ![t].pc = pc]

------------------------------------------------------------------------------

\* Pool.get up to the Take. Invoke and NewStream fail on a closed poolConn.
Begin(t, op, k) ==
  /\ task[t].pc = "idle"
  /\ op # "Get" => handle[k]
  /\ Take(k)
  /\ LET i == TakeIndex(k)
     IN  task' = [task EXCEPT ![t] =
                    IF i = 0
                    THEN [op |-> op, pc |-> "dial", key |-> k, conn |-> None]
                    ELSE [op |-> op, pc |-> Got(op), key |-> k, conn |-> cache.entries[k][i]]]
  /\ UNCHANGED <<handle, dropped>>

\* Nothing usable in the cache: dial outside of any lock.
DialOK(t, c) ==
  /\ task[t].pc = "dial" /\ conn[c] = "undialed"
  /\ conn' = [conn EXCEPT ![c] = "open"]
  /\ keyOf' = [keyOf EXCEPT ![c] = task[t].key]
  /\ task' = [task EXCEPT ![t].pc = Got(task[t].op), ![t].conn = c]
  /\ UNCHANGED <<opts, cache, timers, firing, handle, dropped>>

DialFail(t) ==
  /\ task[t].pc = "dial"
  /\ Return(t)
  /\ UNCHANGED <<cacheVars, dropped>>

StreamOpen(t) ==
  /\ task[t].pc = "call" /\ task[t].op = "NewStream"
  /\ Goto(t, "stream")
  /\ UNCHANGED <<cacheVars, handle, dropped>>

\* NewStream failed: the connection is neither put back nor closed.
StreamFail(t) ==
  /\ task[t].pc = "call" /\ task[t].op = "NewStream"
  /\ dropped' = dropped \cup {task[t].conn}
  /\ Return(t)
  /\ UNCHANGED cacheVars

\* The call returned, with or without an error, or the stream's context is done:
\* the connection goes back to the cache.
Finishing(t) ==
  \/ task[t].pc \in {"put", "stream"}
  \/ task[t].pc = "call" /\ task[t].op = "Invoke"

\* The head of Cache.Put, outside the lock.
PutRefused(t) ==
  /\ Finishing(t) /\ PutRefuses(task[t].conn)
  /\ conn' = [conn EXCEPT ![task[t].conn] = "closed"]
  /\ Return(t)
  /\ UNCHANGED <<opts, cache, timers, firing, keyOf, dropped>>

PutAccepted(t) ==
  /\ Finishing(t) /\ ~PutRefuses(task[t].conn)
  /\ Goto(t, "insert")
  /\ UNCHANGED <<cacheVars, handle, dropped>>

\* The locked part of Cache.Put.
PutInsert(t) ==
  /\ task[t].pc = "insert"
  /\ Put(task[t].conn)
  /\ Return(t)
  /\ UNCHANGED dropped

\* poolConn.Close: later calls fail, calls in progress go on.
HandleClose(k) ==
  /\ handle[k]
  /\ handle' = [handle EXCEPT ![k] = FALSE]
  /\ UNCHANGED <<cacheVars, task, dropped>>

\* Pool.Close: nothing marks the pool as closed.
PoolClose ==
  /\ CacheClose
  /\ UNCHANGED poolVars

\* The peer or the network ends a connection.
Lose(c) ==
  /\ conn[c] = "open"
  /\ conn' = [conn EXCEPT ![c] = "lost"]
  /\ UNCHANGED <<opts, cache, timers, firing, keyOf, poolVars>>

Callback ==
  /\ \/ ExpireFire
     \/ \E c \in Conns : ExpireClose(c) \/ ExpireFilter(c)
  /\ UNCHANGED poolVars

Init ==
  /\ CacheInit
  /\ task = [t \in Tasks |-> Idle]
  /\ handle = [k \in Keys |-> FALSE]
  /\ dropped = {}

Next ==
  \/ \E t \in Tasks :
       \/ \E op \in Ops, k \in Keys : Begin(t, op, k)
       \/ \E c \in Conns : DialOK(t, c)
       \/ DialFail(t)
       \/ StreamOpen(t)
       \/ StreamFail(t)
       \/ PutRefused(t)
       \/ PutAccepted(t)
       \/ PutInsert(t)
  \/ \E k \in Keys : HandleClose(k)
  \/ PoolClose
  \/ \E c \in Conns : Lose(c)
  \/ Callback

Spec == Init /\ [][Next]_vars

------------------------------------------------------------------------------

Held == {task[t].conn : t \in Tasks} \ {None}
Indexed == UNION {ToSet(cache.entries[k]) : k \in Keys}

\* What the pool promises: a connection a task has is busy, one it can take is idle, and
\* one that was dialed and is neither is gone.
ConnStatus ==
  LET held == Held
      indexed == Indexed
      Of(c) == IF conn[c] = "undialed" THEN "fresh"
               ELSE IF c \in held THEN "busy" ELSE IF c \in indexed THEN "idle" ELSE "gone"
  IN  [c \in Conns |-> Of(c)]

Promise == INSTANCE ConnOwner WITH
  status <- ConnStatus,
  dialedFor <- keyOf,
  user <- [t \in Tasks |-> [key |-> task[t].key, conn |-> task[t].conn]]

\* The pool over its cache does what ConnOwner says: whatever the timers, evictions and
\* concurrent calls do, a connection has one user, is used for the key it was dialed
\* for only, never comes back once it was let go of, and a task dials only when
\* the cache has nothing usable for its key (pool.go:62-115, cache.go:204-275).
KeepsPromise == Promise!OwnerSpec

\* The cache never closes a connection that a call or a stream is using, whatever
\* its expiration callback was doing when it was taken (cache.go:216).
InUseNeverClosed ==
  \A t \in Tasks : task[t].pc \in {"call", "stream"} => conn[task[t].conn] # "closed"

\* No open connection is forgotten: someone holds it, NewStream failed on it, or
\* the cache will come back to it. With expiration that is the timer of Put or
\* its callback (cache.go:267-275), which no path may stop without closing or
\* handing out the connection; without, the connection can be taken.
NoOpenConnForgotten ==
  \A c \in Conns :
    conn[c] = "open" =>
      \/ c \in Held \cup dropped
      \/ firing[c] = "close"
      \/ IF opts.Expires THEN c \in timers ELSE c \in Indexed

\* The map and the LRU list stay in step: what can be taken is in the list, once
\* and under its own key, so the limits count it. Without expiration the list
\* holds nothing else (filterEntryLocked, cache.go:130-138).
OrderMatchesEntries ==
  /\ IsInjective(cache.order)
  /\ Indexed \subseteq ToSet(cache.order)
  /\ \A k \in Keys : /\ IsInjective(cache.entries[k])
                     /\ \A c \in ToSet(cache.entries[k]) : keyOf[c] = k
  /\ ~opts.Expires => ToSet(cache.order) = Indexed

\* At most Capacity idle connections are kept open, and KeyCapacity per key,
\* except those whose expiration callback is about to close them (pool.go:19
\* "Capacity is how many connections to keep open"). With expiration, idle are
\* the connections that can be taken: CachedIsTakeable is about the others.
IdleBound ==
  LET idle == {c \in Conns : /\ conn[c] = "open" /\ c \notin Held \cup dropped
                             /\ firing[c] = "no" /\ (opts.Expires => c \in Indexed)}
      Bound(n) == IF n < 0 THEN 0 ELSE n
  IN  /\ opts.Capacity # 0 => Cardinality(idle) <= Bound(opts.Capacity)
      /\ opts.KeyCapacity # 0 =>
           \A k \in Keys : Cardinality({c \in idle : keyOf[c] = k}) <= Bound(opts.KeyCapacity)

\* The cache is consistent between any two steps: the map and the LRU list agree and
\* the limits hold (cache.go:130-138, 204-275).
CacheConsistent == OrderMatchesEntries /\ IdleBound

\* Take's promise "acquires a value from the cache if one exists" (cache.go:202):
\* every value still counted by the LRU list is reachable under its key.
CachedIsTakeable == \A c \in ToSet(cache.order) : c \in ToSet(cache.entries[keyOf[c]])
==============================================================================
