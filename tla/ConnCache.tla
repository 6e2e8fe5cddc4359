------------------------------ MODULE ConnCache ------------------------------
(***************************************************************************)
(* rpc/rpccache.Cache: an expiring, stale-checking LRU from a key to several *)
(* values, as rpcpool.New sets it up (the values are connections, Stale asks *)
(* whether the connection is closed, Close closes it).                       *)
(*                                                                         *)
(* An entry is identified with the connection it holds: a connection has at *)
(* most one live entry, because rpcpool puts back only what it took out.     *)
(* Everything between mu.Lock and mu.Unlock is one step; the stale check at  *)
(* the head of Put and the Close at the head of the expiration callback run  *)
(* outside the lock and are steps of their own.                              *)
(***************************************************************************)
EXTENDS Integers, Sequences, FiniteSets, SequencesExt

CONSTANTS
  Keys,         \* cache keys (address and TLS options)
  Conns,        \* connections that can be dialed
  None,         \* no connection, no key
  OptionSet     \* the Options the cache may be created with: a limit of 0 is no
                \* limit, a negative one holds nothing; Expires is Expiration > 0

ASSUME CacheAssumption ==
  /\ None \notin Keys \cup Conns
  /\ OptionSet \subseteq [Capacity : Int, KeyCapacity : Int, Expires : BOOLEAN]

VARIABLES
  opts,     \* the Options, fixed at creation
  cache,    \* [entries |-> key -> slice of entries, order |-> slice of entries]
  timers,   \* entries whose expiration timer is pending; timers that are due fire in any order
  firing,   \* stage of the expiration callback of an entry whose timer fired
  conn,     \* each connection: "undialed", "open", "closed", or "lost", which the code
            \* sees when it asks
  keyOf     \* the key a connection was dialed for: the key of its entries

cacheVars == <<opts, cache, timers, firing, conn, keyOf>>

Stale(c) == conn[c] \in {"lost", "closed"}

EmptyCache == [entries |-> [k \in Keys |-> <<>>], order |-> <<>>]

\* ent.exp == nil || ent.exp.Stop(): no timer, or stopped before it fired.
CanStop(c) == ~opts.Expires \/ c \in timers

\* Bug form: the result of Stop is taken the wrong way round.
CloseEntryNever(S) == [c \in Conns |-> IF c \in S /\ ~CanStop(c) THEN "closed" ELSE conn[c]]

\* closeEntry on every connection of S: one whose timer has already fired is
\* left to the callback.
CloseEntry(S) == [c \in Conns |-> IF c \in S /\ CanStop(c) THEN "closed" ELSE conn[c]]

FilterEntry(entries, c) == RemoveFirst(entries, c)

\* Bug form: the LRU list is left alone.
FilterEntryLockedKeepOrder(ch, c) ==
  [ch EXCEPT !.entries[keyOf[c]] = IF Len(@) <= 1 THEN <<>> ELSE FilterEntry(@, c)]

(***************************************************************************)
(* filterEntryLocked removes one entry. A key with at most one entry is     *)
(* deleted without looking whether that entry is the one to remove.          *)
(***************************************************************************)
FilterEntryLocked(ch, c) ==
  [entries |-> [ch.entries EXCEPT ![keyOf[c]] =
                  IF Len(@) <= 1 THEN <<>> ELSE FilterEntry(@, c)],
   order   |-> FilterEntry(ch.order, c)]

\* filterEntryLocked on one entry after the other.
FilterEntries(ch, gone) ==
  LET left[n \in 0 .. Len(gone)] == IF n = 0 THEN ch ELSE FilterEntryLocked(left[n - 1], gone[n])
  IN  left[Len(gone)]

(***************************************************************************)
(* filterCacheKey ranges over the slice of the key while filterEntry shifts  *)
(* that slice's array in place: after a removal the next index holds the     *)
(* element after the next one, and the tail keeps a copy of the last one.    *)
(* `seen' is that array.                                                     *)
(***************************************************************************)
VisitEntry(k, st, c) ==
  IF ~Stale(c) THEN st
  ELSE LET next == FilterEntryLocked(st.ch, c)
           left == next.entries[k]
       IN  [ch |-> next, seen |-> [j \in DOMAIN st.seen |-> IF j <= Len(left) THEN left[j] ELSE st.seen[j]]]

FilterCacheKey(ch, k) ==
  LET all == ch.entries[k]
      st[n \in 0 .. Len(all)] == IF n = 0 THEN [ch |-> ch, seen |-> all] ELSE VisitEntry(k, st[n - 1], st[n - 1].seen[n])
  IN  st[Len(all)].ch

------------------------------------------------------------------------------
(* The exported operations. *)

\* Bug form: the result of Stop is ignored.
UsableIgnoringTimer(c) == ~Stale(c)

(***************************************************************************)
(* Take pops entries of the key, newest first, until one is usable: its      *)
(* timer could be stopped and its connection is not stale. Popped stale      *)
(* connections are closed; one whose timer fired is left to the callback.    *)
(***************************************************************************)
Usable(c) == CanStop(c) /\ ~Stale(c)

\* Position of the entry that Take returns, 0 when it returns nil.
TakeIndex(k) == SelectLastInSeq(cache.entries[k], Usable)

\* What Take pops: the entries from the last one down to that one, or all.
Popped(k) ==
  LET s == cache.entries[k]
      i == TakeIndex(k)
  IN  [n \in 1 .. (IF i = 0 THEN Len(s) ELSE Len(s) - i + 1) |-> s[Len(s) + 1 - n]]

\* Bug form: the shortened slice is not stored in the map.
TakeKeepsEntry(k) ==
  LET popped == ToSet(Popped(k))
  IN  /\ cache' = [cache EXCEPT !.order = FilterEntries(cache, Popped(k)).order]
      /\ timers' = timers \ popped
      /\ conn' = CloseEntry({c \in popped : Stale(c)})
      /\ UNCHANGED <<opts, firing, keyOf>>

Take(k) ==
  LET popped == ToSet(Popped(k))
  IN  /\ cache' = FilterEntries(cache, Popped(k))
      /\ timers' = timers \ popped
      /\ conn' = CloseEntry({c \in popped : Stale(c)})
      /\ UNCHANGED <<opts, firing, keyOf>>

\* Put refuses (and closes) the value before it takes the lock.
PutRefuses(c) == opts.Capacity < 0 \/ opts.KeyCapacity < 0 \/ Stale(c)

Over(s, limit) == IF limit = 0 THEN <<>> ELSE SubSeq(s, 1, Len(s) - limit + 1)

(***************************************************************************)
(* The locked part of Put: make room for the key, then overall, evicting     *)
(* oldest first; append the entry; arm its timer.                            *)
(***************************************************************************)
Put(c) ==
  LET k       == keyOf[c]
      byKey   == Over(cache.entries[k], opts.KeyCapacity)
      ch1     == FilterEntries(cache, byKey)
      byAge   == Over(ch1.order, opts.Capacity)
      ch2     == FilterEntries(ch1, byAge)
      evicted == ToSet(byKey) \cup ToSet(byAge)
  IN  /\ cache' = [entries |-> [ch2.entries EXCEPT ![k] = Append(@, c)],
                   order   |-> Append(ch2.order, c)]
      /\ timers' = (timers \ evicted) \cup (IF opts.Expires THEN {c} ELSE {})
      /\ conn' = CloseEntry(evicted)
      /\ UNCHANGED <<opts, firing, keyOf>>

\* Close closes what the map holds and forgets the rest.
CacheClose ==
  LET all == UNION {ToSet(cache.entries[k]) : k \in Keys}
  IN  /\ cache' = EmptyCache
      /\ timers' = timers \ all
      /\ conn' = CloseEntry(all)
      /\ UNCHANGED <<opts, firing, keyOf>>

------------------------------------------------------------------------------
(* The expiration callback: fire, close the value, filter the key. *)

ExpireFire ==
  /\ \E c \in timers : timers' = timers \ {c} /\ firing' = [firing EXCEPT ![c] = "close"]
  /\ UNCHANGED <<opts, cache, conn, keyOf>>

ExpireClose(c) ==
  /\ firing[c] = "close"
  /\ conn' = [conn EXCEPT ![c] = "closed"]
  /\ firing' = [firing EXCEPT ![c] = "filter"]
  /\ UNCHANGED <<opts, cache, timers, keyOf>>

ExpireFilter(c) ==
  /\ firing[c] = "filter"
  /\ cache' = FilterCacheKey(cache, keyOf[c])
  /\ firing' = [firing EXCEPT ![c] = "no"]
  /\ UNCHANGED <<opts, timers, conn, keyOf>>

CacheInit ==
  /\ opts \in OptionSet
  /\ cache = EmptyCache
  /\ timers = {}
  /\ firing = [c \in Conns |-> "no"]
  /\ conn = [c \in Conns |-> "undialed"]
  /\ keyOf = [c \in Conns |-> None]
==============================================================================
