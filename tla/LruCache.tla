------------------------------- MODULE LruCache -------------------------------
(***************************************************************************)
(* lrucache.ExpiringLRU: a map from keys to states, and a list of keys, most  *)
(* recently used first. Get calls a function for a missing key inside the     *)
(* state's sync.Once and without the lock; Delete, Add and GetCached do all   *)
(* their work under the lock.                                                 *)
(*                                                                         *)
(* A state and the list element made with it share a name. An element that  *)
(* Add leaves in the list outlives its state's place in the map.              *)
(***************************************************************************)
EXTENDS Naturals, FiniteSets, Sequences, SequencesExt

CONSTANTS
  Keys,
  Goroutines,   \* callers of Get
  Options,      \* [Capacity, Expires]: what the cache may be created with
  Ids,          \* bound: states and list elements alive at a time
  NoState       \* the map has no state for a key

ASSUME LruAssumption ==
  /\ Options \subseteq [Capacity : Nat \ {0}, Expires : BOOLEAN]
  /\ NoState \notin Ids
  /\ IsFiniteSet(Keys) /\ Keys # {}

VARIABLES
  opts,
  data,    \* key -> state, or NoState
  order,   \* the list: elements, front first
  young,   \* states in the map that have not expired, oldest first
  state,   \* [key, once, value] of each state
  get,     \* [pc, key, id] of the Get call of each goroutine
  added    \* history: Add has been called

lruVars == <<opts, data, order, young, state, get, added>>

Unused == [key |-> CHOOSE k \in Keys : TRUE, once |-> "new", value |-> "nil"]
Idle == [pc |-> "idle", key |-> CHOOSE k \in Keys : TRUE, id |-> NoState]

Live == {data[k] : k \in Keys} \ {NoState}
\* What can be allocated.
Garbage == Ids \ (Live \cup ToSet(order) \cup {get[g].id : g \in Goroutines})

\* time.Since(state.when) > Expiration
Expired(id) == opts.Expires /\ id \notin ToSet(young)

MoveToFront(o, id) == <<id>> \o RemoveFirst(o, id)

\* States out of reach lose their contents, so that they can be used again.
Collect(st, d, o, gs) ==
  [i \in Ids |-> IF i \in {d[k] : k \in Keys} \cup ToSet(o) \cup {gs[g].id : g \in Goroutines}
                 THEN st[i] ELSE Unused]

\* The outcome of a step: the new map, list, ages and calls.
Commit(d, o, y, st, gs) ==
  /\ data' = d /\ order' = o /\ get' = gs
  /\ young' = SelectSeq(y, LAMBDA i : i \in {d[k] : k \in Keys})
  /\ state' = Collect(st, d, o, gs)
  /\ opts' = opts

------------------------------------------------------------------------------
(* Get. *)

\* The map and the list after `for len(e.data) >= Capacity': elements are popped from
\* the back of the list, and the keys they name deleted, until there is room.
Evict(d, o) ==
  LET Without(n) == [k \in Keys |-> IF \E i \in Len(o) - n + 1 .. Len(o) : state[o[i]].key = k
                                    THEN NoState ELSE d[k]]
      Room(n) == Cardinality({k \in Keys : Without(n)[k] # NoState}) < opts.Capacity
      popped  == Min({n \in 0 .. Len(o) : Room(n)} \cup {Len(o)})
  IN  [data |-> Without(popped), order |-> SubSeq(o, 1, Len(o) - popped)]

\* The locked part of Get: a missing key gets a new state, an expired one is
\* removed and the loop goes round, any other is moved to the front.
Lookup(g, k) ==
  /\ \/ get[g].pc = "idle"
     \/ get[g].pc = "again" /\ get[g].key = k
  /\ \/ /\ data[k] = NoState
        /\ LET left == Evict(data, order)
           IN  \E s \in Garbage :
               Commit([left.data EXCEPT ![k] = s], <<s>> \o left.order, Append(young, s),
                      [state EXCEPT ![s] = [key |-> k, once |-> "new", value |-> "nil"]],
                      [get EXCEPT ![g] = [pc |-> "once", key |-> k, id |-> s]])
     \/ /\ data[k] # NoState /\ Expired(data[k])
        /\ Commit([data EXCEPT ![k] = NoState], RemoveFirst(order, data[k]), young, state,
                  [get EXCEPT ![g] = [pc |-> "again", key |-> k, id |-> NoState]])
     \/ /\ data[k] # NoState /\ ~Expired(data[k])
        /\ Commit(data, MoveToFront(order, data[k]), young, state,
                  [get EXCEPT ![g] = [pc |-> "once", key |-> k, id |-> data[k]]])
  /\ added' = added

\* state.once.Do: the first caller runs fn, the others wait until it is done.
EnterOnce(g) ==
  /\ get[g].pc = "once" /\ state[get[g].id].once = "new"
  /\ Commit(data, order, young, [state EXCEPT ![get[g].id].once = "running"],
            [get EXCEPT ![g].pc = "fn"])
  /\ added' = added

\* Past the once without having called fn: a value is returned, none is retried.
LeaveOnce(g) ==
  /\ get[g].pc = "once" /\ state[get[g].id].once \in {"done", "failed"}
  /\ Commit(data, order, young, state,
            [get EXCEPT ![g] = IF state[get[g].id].value # "nil" THEN Idle
                               ELSE [pc |-> "again", key |-> @.key, id |-> NoState]])
  /\ added' = added

\* fn succeeded, with a value or with nil.
FnOK(g, value) ==
  /\ get[g].pc = "fn"
  /\ Commit(data, order, young,
            [state EXCEPT ![get[g].id].once = "done", ![get[g].id].value = value],
            [get EXCEPT ![g] = Idle])
  /\ added' = added

FnFails(g) ==
  /\ get[g].pc = "fn"
  /\ Commit(data, order, young, state, [get EXCEPT ![g].pc = "failed"])
  /\ added' = added

\* Bug form: whatever is under the key by now is deleted.
DropFailedAny(g) ==
  /\ get[g].pc = "failed"
  /\ LET s == get[g].id
     IN  Commit([data EXCEPT ![get[g].key] = NoState], RemoveFirst(order, s), young,
                [state EXCEPT ![s].once = "failed"], [get EXCEPT ![g] = Idle])
  /\ added' = added

\* fn failed: the state is deleted, if it still is the one in the map.
DropFailed(g) ==
  /\ get[g].pc = "failed"
  /\ LET s == get[g].id
         k == get[g].key
         mine == data[k] = s
     IN  Commit(IF mine THEN [data EXCEPT ![k] = NoState] ELSE data,
                IF mine THEN RemoveFirst(order, s) ELSE order, young,
                [state EXCEPT ![s].once = "failed"], [get EXCEPT ![g] = Idle])
  /\ added' = added

------------------------------------------------------------------------------
(* Delete, Add and GetCached. *)

Delete(k) ==
  /\ data[k] # NoState
  /\ Commit([data EXCEPT ![k] = NoState], RemoveFirst(order, data[k]), young, state, get)
  /\ added' = added

\* Add puts a state with a value and an unused once. To make room it deletes the
\* key at the back of the list from the map, and leaves the element; a key that
\* is there, expired or not, makes its own room.
Add(k) ==
  LET had  == data[k] # NoState
      room == IF ~had /\ Len(order) >= opts.Capacity
              THEN [data EXCEPT ![state[Last(order)].key] = NoState] ELSE data
  IN  /\ \E s \in Garbage :
         Commit([room EXCEPT ![k] = s],
                <<s>> \o (IF had THEN RemoveFirst(order, data[k]) ELSE order),
                Append(young, s),
                [state EXCEPT ![s] = [key |-> k, once |-> "new", value |-> "added"]], get)
      /\ added' = TRUE

\* GetCached moves a valid key to the front and removes an expired one.
GetCached(k) ==
  /\ data[k] # NoState
  /\ IF Expired(data[k])
     THEN Commit([data EXCEPT ![k] = NoState], RemoveFirst(order, data[k]), young, state, get)
     ELSE Commit(data, MoveToFront(order, data[k]), young, state, get)
  /\ added' = added

\* Time passes: the oldest state expires first.
Age ==
  /\ opts.Expires /\ young # <<>>
  /\ young' = Tail(young)
  /\ UNCHANGED <<opts, data, order, state, get, added>>

------------------------------------------------------------------------------

LruInit ==
  /\ opts \in Options
  /\ data = [k \in Keys |-> NoState]
  /\ order = <<>> /\ young = <<>>
  /\ state = [i \in Ids |-> Unused]
  /\ get = [g \in Goroutines |-> Idle]
  /\ added = FALSE

LruNext ==
  \/ \E g \in Goroutines :
       \/ \E k \in Keys : Lookup(g, k)
       \/ EnterOnce(g) \/ LeaveOnce(g) \/ FnFails(g) \/ DropFailed(g)
       \/ \E value \in {"fn", "nil"} : FnOK(g, value)
  \/ \E k \in Keys : Delete(k) \/ Add(k) \/ GetCached(k)
  \/ Age

LruSpec == LruInit /\ [][LruNext]_lruVars

------------------------------------------------------------------------------

\* Every key in the map has its own element in the list, so that eviction always
\* finds something to pop, and while only Get fills the cache the list holds
\* nothing else (cache.go:65-74, 101-104, 124-125).
ListHoldsLive ==
  /\ IsInjective(order)
  /\ \A k \in Keys : data[k] # NoState => data[k] \in ToSet(order) /\ state[data[k]].key = k
  /\ ~added => ToSet(order) = Live

\* While only Get fills the cache it holds at most Capacity keys (cache.go:65).
CapacityWithoutAdd == ~added => Cardinality(Live) <= opts.Capacity

\* "If the function returns an error, it is not cached and further calls will try
\* again": a state whose once was used up by a function that failed is out of the map,
\* so that no Get finds it again (cache.go:98-105).
FailureNotCached == \A i \in Live : state[i].once # "failed"

\* The map and the list agree whatever Get, Delete, Add, GetCached and time do at the
\* same time, the map stays within its capacity while only Get fills it, and a failure
\* is not found again (cache.go:50-176).
CacheKeepsLive == ListHoldsLive /\ CapacityWithoutAdd /\ FailureNotCached

\* "Capacity is how many objects to keep in memory" (cache.go:19).
CapacityBound == Cardinality(Live) <= opts.Capacity
==============================================================================
