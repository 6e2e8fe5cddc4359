---------------------------- MODULE ContentProofs ----------------------------
(***************************************************************************)
(* Machine-checked proofs about two places that hold content on its way.             *)
(*                                                                                   *)
(* lrucache.ExpiringLRU: for any number of goroutines, keys, states and any          *)
(* capacity, the map and the list agree, Get keeps to the capacity and a failure is  *)
(* not found again.                                                                  *)
(*                                                                                   *)
(* eventstat and telemetry: for any number of publishers, maps and events, every     *)
(* counted event is in one place between a counter's map and the server.             *)
(***************************************************************************)
EXTENDS LruCache, Telemetry, SeqLemmas


------------------------------------------------------------------------------
(* The cache. The invariant, of a map d, a list o, states st and calls gs. *)

States == [key : Keys, once : {"new", "running", "done", "failed"}, value : {"nil", "fn", "added"}]
Calls == [pc : {"idle", "again", "once", "fn", "failed"}, key : Keys, id : Ids \cup {NoState}]

TypesOK(d, o, st, gs) ==
  /\ d \in [Keys -> Ids \cup {NoState}]
  /\ o \in Seq(Ids)
  /\ st \in [Ids -> States]
  /\ gs \in [Goroutines -> Calls]

\* Every key in the map has its own element in a list without duplicates.
Listed(d, o, st) ==
  /\ IsInjective(o)
  /\ \A k \in Keys : d[k] # NoState => d[k] \in ToSet(o) /\ st[d[k]].key = k

\* Nothing else is in the list.
NoStray(d, o) == \A i \in ToSet(o) : \E k \in Keys : d[k] = i

HeldKeys(d) == {k \in Keys : d[k] # NoState}

NoFailure(d, st) == \A k \in Keys : d[k] # NoState => st[d[k]].once # "failed"

\* A call that has found its state has found one of its key, and keeps it from
\* being used again.
OwnState(st, gs) ==
  \A g \in Goroutines : gs[g].pc \in {"once", "fn", "failed"} => gs[g].id \in Ids /\ st[gs[g].id].key = gs[g].key

Good(d, o, st, gs, add) ==
  /\ opts \in Options
  /\ TypesOK(d, o, st, gs)
  /\ Listed(d, o, st)
  /\ ~add => NoStray(d, o) /\ Cardinality(HeldKeys(d)) <= opts.Capacity
  /\ NoFailure(d, st)
  /\ OwnState(st, gs)

LruInv == added \in BOOLEAN /\ Good(data, order, state, get, added)

------------------------------------------------------------------------------
(* The list and the map. *)

LEMMA UnusedTypes == Unused \in States /\ Idle \in Calls
BY LruAssumption DEF Unused, Idle, States, Calls

LEMMA FrontAdds ==
  ASSUME NEW T, NEW s \in Seq(T), IsInjective(s), NEW e \in T, e \notin ToSet(s)
  PROVE  /\ <<e>> \o s \in Seq(T)
         /\ IsInjective(<<e>> \o s)
         /\ ToSet(<<e>> \o s) = ToSet(s) \cup {e}
<1> DEFINE r == <<e>> \o s
<1>1. /\ r \in Seq(T) /\ Len(s) \in Nat /\ Len(r) = Len(s) + 1 /\ r[1] = e
      /\ \A i \in 1 .. Len(s) : r[i + 1] = s[i]
  OBVIOUS
<1>2. \A i \in 1 .. Len(r) : i = 1 \/ (i - 1 \in 1 .. Len(s) /\ r[i] = s[i - 1])
  <2> SUFFICES ASSUME NEW i \in 1 .. Len(r), i # 1 PROVE i - 1 \in 1 .. Len(s) /\ r[i] = s[i - 1]
    OBVIOUS
  <2>1. i - 1 \in 1 .. Len(s) /\ (i - 1) + 1 = i
    BY <1>1
  <2> QED
    BY <1>1, <2>1
<1>3. DOMAIN r = 1 .. Len(r) /\ DOMAIN s = 1 .. Len(s) /\ 1 \in 1 .. Len(r)
  BY <1>1
<1> HIDE DEF r
<1>4. ToSet(r) = ToSet(s) \cup {e}
  <2>1. \A i \in 1 .. Len(r) : r[i] \in ToSet(s) \cup {e}
    BY <1>1, <1>2, <1>3 DEF ToSet
  <2>2. e \in ToSet(r)
    BY <1>1, <1>3 DEF ToSet
  <2>3. \A i \in 1 .. Len(s) : i + 1 \in 1 .. Len(r)
    BY <1>1
  <2>4. \A i \in 1 .. Len(s) : s[i] \in ToSet(r)
    BY <1>1, <1>3, <2>3 DEF ToSet
  <2> QED
    BY <1>3, <2>1, <2>2, <2>4 DEF ToSet
<1>5. IsInjective(r)
  <2> SUFFICES ASSUME NEW i \in 1 .. Len(r), NEW j \in 1 .. Len(r), r[i] = r[j] PROVE i = j
    BY <1>3 DEF IsInjective
  <2>1. \A n \in 1 .. Len(s) : s[n] # e
    BY <1>3 DEF ToSet
  <2>2. \A m, n \in 1 .. Len(s) : s[m] = s[n] => m = n
    BY <1>3 DEF IsInjective
  <2>3. i = 1 <=> j = 1
    BY <1>1, <1>2, <2>1
  <2>4. i # 1 => i - 1 = j - 1
    BY <1>2, <2>2, <2>3
  <2> QED
    BY <2>3, <2>4
<1> QED
  BY <1>1, <1>4, <1>5 DEF r

\* Moving to the front keeps what is in the list.
LEMMA MoveKeeps ==
  ASSUME NEW T, NEW s \in Seq(T), IsInjective(s), NEW e \in ToSet(s)
  PROVE  /\ MoveToFront(s, e) \in Seq(T)
         /\ IsInjective(MoveToFront(s, e))
         /\ ToSet(MoveToFront(s, e)) = ToSet(s)
<1>1. e \in T
  BY DEF ToSet
<1>2. /\ RemoveFirst(s, e) \in Seq(T) /\ IsInjective(RemoveFirst(s, e))
      /\ ToSet(RemoveFirst(s, e)) = ToSet(s) \ {e}
  BY RemoveFirstRemoves
<1>3. /\ MoveToFront(s, e) \in Seq(T) /\ IsInjective(MoveToFront(s, e))
      /\ ToSet(MoveToFront(s, e)) = ToSet(RemoveFirst(s, e)) \cup {e}
  BY <1>1, <1>2, FrontAdds DEF MoveToFront
<1> QED
  BY <1>2, <1>3

\* Taking a state out of the map and out of the list.
LEMMA Removes ==
  ASSUME NEW d, NEW o, NEW st, NEW gs, NEW add, Good(d, o, st, gs, add), NEW k \in Keys, d[k] # NoState
  PROVE  Good([d EXCEPT ![k] = NoState], RemoveFirst(o, d[k]), st, gs, add)
<1> DEFINE e == [d EXCEPT ![k] = NoState]
           r == RemoveFirst(o, d[k])
<1>1. TypesOK(d, o, st, gs) /\ Listed(d, o, st)
  BY DEF Good
<1>2. r \in Seq(Ids) /\ IsInjective(r) /\ ToSet(r) = ToSet(o) \ {d[k]}
  BY <1>1, RemoveFirstRemoves DEF TypesOK, Listed
<1>3. e \in [Keys -> Ids \cup {NoState}] /\ e[k] = NoState /\ \A j \in Keys : j # k => e[j] = d[j]
  BY <1>1 DEF TypesOK
<1> HIDE DEF e, r
<1>4. Listed(e, r, st)
  BY <1>1, <1>2, <1>3 DEF Listed
<1>5. ~add => NoStray(e, r)
  BY <1>2, <1>3 DEF Good, NoStray
<1>6. ~add => Cardinality(HeldKeys(e)) <= opts.Capacity
  <2>1. HeldKeys(e) = HeldKeys(d) \ {k} /\ k \in HeldKeys(d) /\ IsFiniteSet(HeldKeys(d))
    BY <1>3, LruAssumption, FS_Subset DEF HeldKeys
  <2>2. Cardinality(HeldKeys(e)) = Cardinality(HeldKeys(d)) - 1 /\ Cardinality(HeldKeys(d)) \in Nat
    BY <2>1, FS_RemoveElement, FS_CardinalityType
  <2> QED
    BY <2>2, LruAssumption DEF Good
<1>7. NoFailure(e, st)
  BY <1>3 DEF Good, NoFailure
<1>8. TypesOK(e, r, st, gs)
  BY <1>1, <1>2, <1>3 DEF TypesOK
<1> QED
  BY <1>4, <1>5, <1>6, <1>7, <1>8 DEF Good, e, r

\* A map with fewer keys in it.
LEMMA FewerHeld ==
  ASSUME NEW d, NEW e, \A k \in Keys : e[k] = d[k] \/ e[k] = NoState
  PROVE  /\ IsFiniteSet(HeldKeys(d)) /\ Cardinality(HeldKeys(d)) \in Nat
         /\ Cardinality(HeldKeys(e)) \in Nat /\ Cardinality(HeldKeys(e)) <= Cardinality(HeldKeys(d))
<1>1. HeldKeys(e) \subseteq HeldKeys(d) /\ HeldKeys(d) \subseteq Keys
  BY DEF HeldKeys
<1> QED
  BY <1>1, LruAssumption, FS_Subset, FS_CardinalityType

\* Eviction makes room, in a map and a list that still agree: the key of each
\* element left behind was deleted, and only those.
LEMMA EvictMakesRoom ==
  ASSUME NEW d, NEW o, NEW gs, NEW add, Good(d, o, state, gs, add)
  PROVE  LET left == Evict(d, o)
         IN  /\ Good(left.data, left.order, state, gs, add)
             /\ Cardinality(HeldKeys(left.data)) < opts.Capacity
             /\ ToSet(left.order) \subseteq ToSet(o)
             /\ \A k \in Keys : left.data[k] = d[k] \/ left.data[k] = NoState
<1> DEFINE L == Len(o)
           Without(n) == [k \in Keys |-> IF \E i \in L - n + 1 .. L : state[o[i]].key = k
                                         THEN NoState ELSE d[k]]
           Room(n) == Cardinality({k \in Keys : Without(n)[k] # NoState}) < opts.Capacity
           S == {n \in 0 .. L : Room(n)} \cup {L}
           p == Min(S)
           e == Without(p)
           r == SubSeq(o, 1, L - p)
<1>0. /\ TypesOK(d, o, state, gs) /\ Listed(d, o, state) /\ o \in Seq(Ids) /\ L \in Nat
      /\ DOMAIN o = 1 .. L /\ opts.Capacity \in Nat /\ opts.Capacity > 0
  BY LruAssumption DEF Good, TypesOK
<1>1. Evict(d, o) = [data |-> e, order |-> r]
  BY DEF Evict
<1>2. Room(L)
  <2>1. \A k \in Keys : Without(L)[k] = NoState
    <3> SUFFICES ASSUME NEW k \in Keys, d[k] # NoState PROVE \E i \in L - L + 1 .. L : state[o[i]].key = k
      OBVIOUS
    <3>1. PICK i \in 1 .. L : o[i] = d[k]
      BY <1>0 DEF Listed, ToSet
    <3>2. state[o[i]].key = k /\ L - L + 1 = 1
      BY <1>0, <3>1 DEF Listed
    <3> QED
      BY <3>1, <3>2
  <2>2. {k \in Keys : Without(L)[k] # NoState} = {}
    BY <2>1
  <2> HIDE DEF Without
  <2> QED
    BY <1>0, <2>2, FS_EmptySet
<1>3. p \in 0 .. L /\ Room(p)
  <2> HIDE DEF Room
  <2>1. S \subseteq 0 .. L /\ S # {} /\ \A n \in S : Room(n)
    <3>1. L \in 0 .. L
      BY <1>0
    <3> HIDE DEF L
    <3> QED
      BY <1>2, <3>1, Zenon
  <2>2. \E m \in S : \A n \in S : m <= n
    <3> HIDE DEF S
    <3>1. S \subseteq Nat
      BY <1>0, <2>1
    <3> QED
      BY <2>1, <3>1, LeastNat
  <2>3. p \in S
    BY <2>2 DEF Min
  <2> QED
    BY <2>1, <2>3
<1> HIDE DEF p, S
<1>4. /\ r \in Seq(Ids) /\ Len(r) = L - p /\ \A i \in 1 .. L - p : r[i] = o[i]
      /\ DOMAIN r = 1 .. L - p
  <2>1. o \in Seq(Ids) /\ L \in Nat /\ p \in 0 .. L /\ L - p \in 0 .. L
    BY <1>0, <1>3
  <2> HIDE DEF Without, Room
  <2> QED
    BY <2>1
<1>5. e \in [Keys -> Ids \cup {NoState}] /\ \A k \in Keys : e[k] = d[k] \/ e[k] = NoState
  BY <1>0 DEF TypesOK
<1>6. Cardinality(HeldKeys(e)) < opts.Capacity
  BY <1>3 DEF HeldKeys
<1>7. \A k \in Keys : e[k] # NoState => \A i \in L - p + 1 .. L : state[o[i]].key # k
  OBVIOUS
<1>8. \A k \in Keys : (\A i \in L - p + 1 .. L : state[o[i]].key # k) => e[k] = d[k]
  OBVIOUS
<1>9. 1 .. L - p \subseteq 1 .. L
  BY <1>0, <1>3
<1> HIDE DEF e, r, Without, Room
<1>10. Listed(e, r, state)
  <2>1. IsInjective(r)
    BY <1>0, <1>4, <1>9 DEF Listed, IsInjective
  <2> SUFFICES ASSUME NEW k \in Keys, e[k] # NoState PROVE e[k] \in ToSet(r) /\ state[e[k]].key = k
    BY <2>1 DEF Listed
  <2>2. e[k] = d[k] /\ d[k] # NoState
    BY <1>5
  <2>3. state[d[k]].key = k
    BY <1>0, <2>2 DEF Listed
  <2>4. PICK i \in 1 .. L : o[i] = d[k]
    BY <1>0, <2>2 DEF Listed, ToSet
  <2>5. i \notin L - p + 1 .. L
    BY <1>7, <2>3, <2>4
  <2>6. i \in 1 .. L - p
    BY <1>0, <1>3, <2>5
  <2> QED
    BY <1>4, <2>2, <2>3, <2>4, <2>6 DEF ToSet
<1>11. ~add => NoStray(e, r)
  <2> SUFFICES ASSUME ~add, NEW i \in 1 .. L - p PROVE \E k \in Keys : e[k] = r[i]
    BY <1>4 DEF NoStray, ToSet
  <2>1. \A j \in 1 .. L : \E k \in Keys : d[k] = o[j]
    BY <1>0 DEF Good, NoStray, ToSet
  <2>2. \A j \in 1 .. L : o[j] \in Ids /\ o[j] # NoState
    BY <1>0, LruAssumption
  <2>3. \A j \in 1 .. L : state[o[j]].key \in Keys /\ d[state[o[j]].key] = o[j]
    BY <1>0, <2>1, <2>2 DEF Listed
  <2> DEFINE k == state[o[i]].key
  <2>4. i \in 1 .. L /\ k \in Keys /\ d[k] = o[i]
    BY <1>9, <2>3
  <2>5. \A j \in L - p + 1 .. L : state[o[j]].key # k
    <3> SUFFICES ASSUME NEW j \in L - p + 1 .. L, state[o[j]].key = k PROVE FALSE
      OBVIOUS
    <3>1. j \in 1 .. L /\ i # j
      BY <1>0, <1>3
    <3>2. o[j] = o[i]
      BY <2>3, <2>4, <3>1
    <3> QED
      BY <1>0, <2>4, <3>1, <3>2 DEF Listed, IsInjective
  <2> QED
    BY <1>4, <1>8, <2>4, <2>5
<1>12. NoFailure(e, state)
  BY <1>5 DEF Good, NoFailure
<1>13. ToSet(r) \subseteq ToSet(o)
  BY <1>0, <1>4, <1>9 DEF ToSet
<1>14. Cardinality(HeldKeys(e)) <= opts.Capacity
  BY <1>0, <1>5, <1>6, FewerHeld
<1>15. Good(e, r, state, gs, add)
  BY <1>0, <1>4, <1>5, <1>10, <1>11, <1>12, <1>14 DEF Good, TypesOK
<1> QED
  BY <1>1, <1>5, <1>6, <1>13, <1>15

------------------------------------------------------------------------------
(* Steps. *)

\* A step that leaves a good map, list, states and calls leaves a good cache: only
\* states nothing refers to are used again.
LEMMA CommitGood ==
  ASSUME NEW d, NEW o, NEW y, NEW st, NEW gs, NEW add \in BOOLEAN,
         Good(d, o, st, gs, add), Commit(d, o, y, st, gs), added' = add
  PROVE  LruInv'
<1> DEFINE Reached == {d[k] : k \in Keys} \cup ToSet(o) \cup {gs[g].id : g \in Goroutines}
<1>1. TypesOK(d, o, st, gs)
  BY DEF Good
<1>2. /\ data' = d /\ order' = o /\ get' = gs /\ opts' = opts
      /\ state' = [i \in Ids |-> IF i \in Reached THEN st[i] ELSE Unused]
  BY DEF Commit, Collect
<1>3. /\ \A k \in Keys : d[k] # NoState => d[k] \in Ids /\ state'[d[k]] = st[d[k]]
      /\ \A g \in Goroutines : gs[g].id \in Ids => state'[gs[g].id] = st[gs[g].id]
  BY <1>1, <1>2 DEF TypesOK
<1>4. state' \in [Ids -> States]
  BY <1>1, <1>2, UnusedTypes DEF TypesOK
<1> HIDE DEF Reached
<1>5. TypesOK(d, o, state', gs)
  BY <1>1, <1>4 DEF TypesOK
<1>6. Listed(d, o, state')
  BY <1>3 DEF Good, Listed
<1>7. NoFailure(d, state')
  BY <1>3 DEF Good, NoFailure
<1>8. OwnState(state', gs)
  BY <1>3 DEF Good, OwnState
<1>9. opts' \in Options /\ (~add => NoStray(d, o) /\ Cardinality(HeldKeys(d)) <= opts'.Capacity)
  BY <1>2 DEF Good
<1>10. TypesOK(data, order, state, get)'
  BY <1>2, <1>5 DEF TypesOK
<1>11. Listed(data, order, state)'
  BY <1>2, <1>6 DEF Listed
<1>12. (~added => NoStray(data, order) /\ Cardinality(HeldKeys(data)) <= opts.Capacity)'
  BY <1>2, <1>9 DEF NoStray, HeldKeys
<1>13. NoFailure(data, state)'
  BY <1>2, <1>7 DEF NoFailure
<1>14. OwnState(state, get)'
  BY <1>2, <1>8 DEF OwnState
<1> QED
  BY <1>9, <1>10, <1>11, <1>12, <1>13, <1>14 DEF LruInv, Good

\* What a new state is not.
LEMMA GarbageFresh ==
  ASSUME LruInv, NEW s \in Garbage
  PROVE  /\ s \in Ids /\ s # NoState /\ s \notin ToSet(order)
         /\ \A k \in Keys : data[k] # s
         /\ \A g \in Goroutines : get[g].id # s
<1>1. s \in Ids /\ s # NoState /\ s \notin Live /\ s \notin ToSet(order) /\ \A g \in Goroutines : get[g].id # s
  BY LruAssumption DEF Garbage
<1> QED
  BY <1>1 DEF Live

\* Putting a new state of a missing key in front.
LEMMA Puts ==
  ASSUME NEW d, NEW o, NEW gs, NEW add, Good(d, o, state, gs, add), NEW k \in Keys, d[k] = NoState,
         NEW s \in Ids, s # NoState, s \notin ToSet(o), \A j \in Keys : d[j] # s, \A g \in Goroutines : gs[g].id # s,
         NEW value \in {"nil", "fn", "added"}, ~add => Cardinality(HeldKeys(d)) < opts.Capacity
  PROVE  Good([d EXCEPT ![k] = s], <<s>> \o o,
              [state EXCEPT ![s] = [key |-> k, once |-> "new", value |-> value]], gs, add)
<1> DEFINE e == [d EXCEPT ![k] = s]
           r == <<s>> \o o
           st == [state EXCEPT ![s] = [key |-> k, once |-> "new", value |-> value]]
<1>1. TypesOK(d, o, state, gs) /\ Listed(d, o, state)
  BY DEF Good
<1>2. r \in Seq(Ids) /\ IsInjective(r) /\ ToSet(r) = ToSet(o) \cup {s}
  BY <1>1, FrontAdds DEF TypesOK, Listed
<1>3. e \in [Keys -> Ids \cup {NoState}] /\ e[k] = s /\ \A j \in Keys : j # k => e[j] = d[j]
  BY <1>1 DEF TypesOK
<1>4. /\ st \in [Ids -> States] /\ st[s] = [key |-> k, once |-> "new", value |-> value]
      /\ \A i \in Ids : i # s => st[i] = state[i]
  BY <1>1 DEF TypesOK, States
<1> HIDE DEF e, r, st
<1>5. TypesOK(e, r, st, gs)
  BY <1>1, <1>2, <1>3, <1>4 DEF TypesOK
<1>6. \A j \in Keys : j # k /\ e[j] # NoState => e[j] \in Ids /\ e[j] # s /\ st[e[j]] = state[d[j]]
  BY <1>1, <1>3, <1>4 DEF TypesOK
<1>7. Listed(e, r, st)
  BY <1>1, <1>2, <1>3, <1>4, <1>6 DEF Listed
<1>8. ~add => NoStray(e, r)
  <2> SUFFICES ASSUME ~add, NEW i \in ToSet(o) PROVE \E j \in Keys : e[j] = i
    BY <1>2, <1>3 DEF NoStray
  <2>1. PICK j \in Keys : d[j] = i
    BY DEF Good, NoStray
  <2>2. i \in Ids
    BY <1>1 DEF TypesOK, ToSet
  <2>3. j # k
    BY <2>1, <2>2, LruAssumption
  <2> QED
    BY <1>3, <2>1, <2>3
<1>9. ~add => Cardinality(HeldKeys(e)) <= opts.Capacity
  <2>1. HeldKeys(e) = HeldKeys(d) \cup {k} /\ k \notin HeldKeys(d)
    BY <1>3 DEF HeldKeys
  <2>2. IsFiniteSet(HeldKeys(d)) /\ Cardinality(HeldKeys(d)) \in Nat
    BY FewerHeld
  <2>3. Cardinality(HeldKeys(e)) = Cardinality(HeldKeys(d)) + 1
    BY <2>1, <2>2, FS_AddElement
  <2>4. opts.Capacity \in Nat
    BY LruAssumption DEF Good
  <2> QED
    BY <2>2, <2>3, <2>4
<1>10. NoFailure(e, st)
  BY <1>3, <1>4, <1>6 DEF Good, NoFailure
<1>11. OwnState(st, gs)
  BY <1>1, <1>4 DEF Good, OwnState
<1> QED
  BY <1>5, <1>7, <1>8, <1>9, <1>10, <1>11 DEF Good, e, r, st

\* One call goes on.
LEMMA CallGoesOn ==
  ASSUME NEW d, NEW o, NEW st, NEW gs, NEW add, Good(d, o, st, gs, add), NEW g \in Goroutines, NEW c \in Calls,
         c.pc \in {"once", "fn", "failed"} => c.id \in Ids /\ st[c.id].key = c.key
  PROVE  Good(d, o, st, [gs EXCEPT ![g] = c], add)
<1> DEFINE gs2 == [gs EXCEPT ![g] = c]
<1>1. gs2 \in [Goroutines -> Calls] /\ gs2[g] = c /\ \A h \in Goroutines : h # g => gs2[h] = gs[h]
  BY DEF Good, TypesOK
<1> HIDE DEF gs2
<1>2. OwnState(st, gs2)
  BY <1>1 DEF Good, OwnState
<1>3. TypesOK(d, o, st, gs2)
  BY <1>1 DEF Good, TypesOK
<1> QED
  BY <1>2, <1>3 DEF Good, gs2

\* States keep their keys.
LEMMA StatesGoOn ==
  ASSUME NEW d, NEW o, NEW st, NEW gs, NEW add, Good(d, o, st, gs, add), NEW st2 \in [Ids -> States],
         \A i \in Ids : st2[i].key = st[i].key, NoFailure(d, st2)
  PROVE  Good(d, o, st2, gs, add)
<1>1. TypesOK(d, o, st, gs) /\ \A k \in Keys : d[k] # NoState => d[k] \in Ids
  BY DEF Good, TypesOK
<1>2. Listed(d, o, st2)
  BY <1>1 DEF Good, Listed
<1>3. OwnState(st2, gs)
  BY <1>1 DEF Good, OwnState
<1>4. TypesOK(d, o, st2, gs)
  BY <1>1 DEF TypesOK
<1> QED
  BY <1>2, <1>3, <1>4 DEF Good

\* A list with the same elements.
LEMMA ListReordered ==
  ASSUME NEW d, NEW o, NEW st, NEW gs, NEW add, Good(d, o, st, gs, add), NEW k \in Keys, d[k] # NoState
  PROVE  Good(d, MoveToFront(o, d[k]), st, gs, add)
<1>1. o \in Seq(Ids) /\ IsInjective(o) /\ d[k] \in ToSet(o)
  BY DEF Good, TypesOK, Listed
<1>2. /\ MoveToFront(o, d[k]) \in Seq(Ids) /\ IsInjective(MoveToFront(o, d[k]))
      /\ ToSet(MoveToFront(o, d[k])) = ToSet(o)
  BY <1>1, MoveKeeps
<1>3. Listed(d, MoveToFront(o, d[k]), st)
  BY <1>2 DEF Good, Listed
<1>4. NoStray(d, o) => NoStray(d, MoveToFront(o, d[k]))
  BY <1>2 DEF NoStray
<1>5. TypesOK(d, MoveToFront(o, d[k]), st, gs)
  BY <1>2 DEF Good, TypesOK
<1> QED
  BY <1>3, <1>4, <1>5 DEF Good

LEMMA LookupKeeps ==
  ASSUME LruInv, NEW g \in Goroutines, NEW k \in Keys, Lookup(g, k)
  PROVE  LruInv'
<1>0. added \in BOOLEAN /\ added' = added /\ Good(data, order, state, get, added)
  BY DEF LruInv, Lookup
<1>1. CASE data[k] = NoState
  <2> DEFINE left == Evict(data, order)
             st(s) == [state EXCEPT ![s] = [key |-> k, once |-> "new", value |-> "nil"]]
             call(s) == [pc |-> "once", key |-> k, id |-> s]
  <2>1. PICK s \in Garbage :
          Commit([left.data EXCEPT ![k] = s], <<s>> \o left.order, Append(young, s), st(s),
                 [get EXCEPT ![g] = call(s)])
    BY <1>1 DEF Lookup
  <2>2. /\ Good(left.data, left.order, state, get, added)
        /\ Cardinality(HeldKeys(left.data)) < opts.Capacity
        /\ ToSet(left.order) \subseteq ToSet(order)
        /\ \A j \in Keys : left.data[j] = data[j] \/ left.data[j] = NoState
    BY <1>0, EvictMakesRoom
  <2> HIDE DEF left
  <2>3. /\ s \in Ids /\ s # NoState /\ s \notin ToSet(left.order)
        /\ \A j \in Keys : left.data[j] # s
        /\ \A h \in Goroutines : get[h].id # s
    BY <2>2, GarbageFresh
  <2>4. Good([left.data EXCEPT ![k] = s], <<s>> \o left.order, st(s), get, added)
    BY <1>1, <2>2, <2>3, Puts
  <2>5. call(s) \in Calls /\ st(s)[s].key = k
    BY <1>0, <2>3 DEF Calls, Good, TypesOK
  <2> HIDE DEF st
  <2>6. Good([left.data EXCEPT ![k] = s], <<s>> \o left.order, st(s), [get EXCEPT ![g] = call(s)], added)
    BY <2>3, <2>4, <2>5, CallGoesOn
  <2> QED
    BY <1>0, <2>1, <2>6, CommitGood
<1>2. CASE data[k] # NoState /\ Expired(data[k])
  <2> DEFINE c == [pc |-> "again", key |-> k, id |-> NoState]
  <2>1. Commit([data EXCEPT ![k] = NoState], RemoveFirst(order, data[k]), young, state, [get EXCEPT ![g] = c])
    BY <1>2 DEF Lookup
  <2>2. c \in Calls /\ c.pc \notin {"once", "fn", "failed"}
    BY DEF Calls
  <2>3. Good([data EXCEPT ![k] = NoState], RemoveFirst(order, data[k]), state, get, added)
    BY <1>0, <1>2, Removes
  <2> HIDE DEF c
  <2>4. Good([data EXCEPT ![k] = NoState], RemoveFirst(order, data[k]), state, [get EXCEPT ![g] = c], added)
    BY <2>2, <2>3, CallGoesOn
  <2> QED
    BY <1>0, <2>1, <2>4, CommitGood
<1>3. CASE data[k] # NoState /\ ~Expired(data[k])
  <2> DEFINE c == [pc |-> "once", key |-> k, id |-> data[k]]
  <2>1. Commit(data, MoveToFront(order, data[k]), young, state, [get EXCEPT ![g] = c])
    BY <1>3 DEF Lookup
  <2>2. c \in Calls /\ c.id = data[k] /\ c.key = k /\ data[k] \in Ids /\ state[data[k]].key = k
    BY <1>0, <1>3 DEF Calls, Good, TypesOK, Listed
  <2>3. Good(data, MoveToFront(order, data[k]), state, get, added)
    BY <1>0, <1>3, ListReordered
  <2> HIDE DEF c
  <2>4. Good(data, MoveToFront(order, data[k]), state, [get EXCEPT ![g] = c], added)
    BY <2>2, <2>3, CallGoesOn
  <2> QED
    BY <1>0, <2>1, <2>4, CommitGood
<1> QED
  BY <1>1, <1>2, <1>3

LEMMA OnceKeeps ==
  ASSUME LruInv, NEW g \in Goroutines,
         EnterOnce(g) \/ LeaveOnce(g) \/ FnFails(g) \/ \E value \in {"fn", "nil"} : FnOK(g, value)
  PROVE  LruInv'
<1> DEFINE id == get[g].id
<1>0. /\ added \in BOOLEAN /\ added' = added /\ Good(data, order, state, get, added)
      /\ state \in [Ids -> States] /\ get \in [Goroutines -> Calls]
  BY DEF LruInv, EnterOnce, LeaveOnce, FnOK, FnFails, Good, TypesOK
<1>1. /\ get[g].pc \in {"once", "fn"} /\ get[g] \in Calls
      /\ id \in Ids /\ state[id] \in States /\ state[id].key = get[g].key
  <2>1. get[g].pc \in {"once", "fn"}
    BY DEF EnterOnce, LeaveOnce, FnOK, FnFails
  <2> QED
    BY <1>0, <2>1 DEF Good, OwnState
<1>2. CASE EnterOnce(g)
  <2> DEFINE st == [state EXCEPT ![id].once = "running"]
             c == [get[g] EXCEPT !.pc = "fn"]
  <2>1. Commit(data, order, young, st, [get EXCEPT ![g] = c])
    BY <1>2 DEF EnterOnce
  <2>2. /\ st \in [Ids -> States] /\ \A i \in Ids : i # id => st[i] = state[i]
        /\ st[id].key = state[id].key /\ st[id].once = "running"
    BY <1>0, <1>1 DEF States
  <2>3. c \in Calls /\ c.id = id /\ c.key = get[g].key
    BY <1>1 DEF Calls
  <2> HIDE DEF st, c, id
  <2>4. NoFailure(data, st)
    BY <1>0, <2>2 DEF Good, TypesOK, NoFailure
  <2>5. Good(data, order, st, get, added)
    BY <1>0, <2>2, <2>4, StatesGoOn
  <2>6. Good(data, order, st, [get EXCEPT ![g] = c], added)
    BY <1>1, <2>2, <2>3, <2>5, CallGoesOn
  <2> QED
    BY <1>0, <2>1, <2>6, CommitGood
<1>3. CASE LeaveOnce(g)
  <2> DEFINE c == IF state[id].value # "nil" THEN Idle ELSE [pc |-> "again", key |-> get[g].key, id |-> NoState]
  <2>1. Commit(data, order, young, state, [get EXCEPT ![g] = c])
    BY <1>3 DEF LeaveOnce
  <2>2. c \in Calls /\ c.pc \notin {"once", "fn", "failed"}
    BY <1>1, UnusedTypes DEF Calls, Idle
  <2> HIDE DEF c
  <2>3. Good(data, order, state, [get EXCEPT ![g] = c], added)
    BY <1>0, <2>2, CallGoesOn
  <2> QED
    BY <1>0, <2>1, <2>3, CommitGood
<1>4. ASSUME NEW value \in {"fn", "nil"}, FnOK(g, value) PROVE LruInv'
  <2> DEFINE st == [state EXCEPT ![id].once = "done", ![id].value = value]
  <2>1. Commit(data, order, young, st, [get EXCEPT ![g] = Idle])
    BY <1>4 DEF FnOK
  <2>2. /\ st \in [Ids -> States] /\ \A i \in Ids : i # id => st[i] = state[i]
        /\ st[id].key = state[id].key /\ st[id].once = "done"
    BY <1>0, <1>1 DEF States
  <2>3. Idle \in Calls /\ Idle.pc \notin {"once", "fn", "failed"}
    BY UnusedTypes DEF Idle
  <2> HIDE DEF st, id
  <2>4. NoFailure(data, st)
    BY <1>0, <2>2 DEF Good, TypesOK, NoFailure
  <2>5. Good(data, order, st, get, added)
    BY <1>0, <2>2, <2>4, StatesGoOn
  <2>6. Good(data, order, st, [get EXCEPT ![g] = Idle], added)
    BY <2>3, <2>5, CallGoesOn
  <2> QED
    BY <1>0, <2>1, <2>6, CommitGood
<1>5. CASE FnFails(g)
  <2> DEFINE c == [get[g] EXCEPT !.pc = "failed"]
  <2>1. Commit(data, order, young, state, [get EXCEPT ![g] = c])
    BY <1>5 DEF FnFails
  <2>2. c \in Calls /\ c.id = id /\ c.key = get[g].key
    BY <1>1 DEF Calls
  <2> HIDE DEF c, id
  <2>3. Good(data, order, state, [get EXCEPT ![g] = c], added)
    BY <1>0, <1>1, <2>2, CallGoesOn
  <2> QED
    BY <1>0, <2>1, <2>3, CommitGood
<1> QED
  BY <1>2, <1>3, <1>4, <1>5

\* The state whose function failed is out of the map: it was under its own key or not
\* at all.
LEMMA DropFailedKeeps ==
  ASSUME LruInv, NEW g \in Goroutines, DropFailed(g)
  PROVE  LruInv'
<1> DEFINE s == get[g].id
           k == get[g].key
           d == IF data[k] = s THEN [data EXCEPT ![k] = NoState] ELSE data
           o == IF data[k] = s THEN RemoveFirst(order, s) ELSE order
           st == [state EXCEPT ![s].once = "failed"]
<1>0. /\ added \in BOOLEAN /\ added' = added /\ Good(data, order, state, get, added)
      /\ state \in [Ids -> States] /\ get \in [Goroutines -> Calls] /\ data \in [Keys -> Ids \cup {NoState}]
  BY DEF LruInv, DropFailed, Good, TypesOK
<1>1. get[g].pc = "failed" /\ k \in Keys /\ s \in Ids /\ s # NoState /\ state[s] \in States /\ state[s].key = k
  BY <1>0, LruAssumption DEF DropFailed, Good, OwnState, Calls
<1>2. Commit(d, o, young, st, [get EXCEPT ![g] = Idle])
  BY DEF DropFailed
<1>3. Good(d, o, state, get, added)
  <2>1. data[k] = s => Good([data EXCEPT ![k] = NoState], RemoveFirst(order, data[k]), state, get, added)
    BY <1>0, <1>1, Removes
  <2> HIDE DEF s, k
  <2> QED
    BY <1>0, <2>1
<1>4. \A j \in Keys : d[j] # s
  BY <1>0, <1>1 DEF Good, Listed
<1>5. /\ st \in [Ids -> States] /\ \A i \in Ids : i # s => st[i] = state[i]
      /\ st[s].key = state[s].key
  BY <1>0, <1>1 DEF States
<1>6. Idle \in Calls /\ Idle.pc \notin {"once", "fn", "failed"}
  BY UnusedTypes DEF Idle
<1> HIDE DEF d, o, st, s, k
<1>7. NoFailure(d, st)
  <2>1. \A j \in Keys : d[j] # NoState => d[j] \in Ids
    BY <1>3 DEF Good, TypesOK
  <2> QED
    BY <1>3, <1>4, <1>5, <2>1 DEF Good, NoFailure
<1>8. Good(d, o, st, get, added)
  BY <1>3, <1>5, <1>7, StatesGoOn
<1>9. Good(d, o, st, [get EXCEPT ![g] = Idle], added)
  BY <1>6, <1>8, CallGoesOn
<1> QED
  BY <1>0, <1>2, <1>9, CommitGood

LEMMA DeleteKeeps ==
  ASSUME LruInv, NEW k \in Keys, Delete(k) \/ GetCached(k)
  PROVE  LruInv'
<1>0. added \in BOOLEAN /\ added' = added /\ Good(data, order, state, get, added) /\ data[k] # NoState
  BY DEF LruInv, Delete, GetCached
<1>1. \/ Commit([data EXCEPT ![k] = NoState], RemoveFirst(order, data[k]), young, state, get)
      \/ Commit(data, MoveToFront(order, data[k]), young, state, get)
  BY DEF Delete, GetCached
<1>2. /\ Good([data EXCEPT ![k] = NoState], RemoveFirst(order, data[k]), state, get, added)
      /\ Good(data, MoveToFront(order, data[k]), state, get, added)
  BY <1>0, Removes, ListReordered
<1> QED
  BY <1>0, <1>1, <1>2, CommitGood

\* A key deleted from the map alone leaves its element behind.
LEMMA Clears ==
  ASSUME NEW d, NEW o, NEW st, NEW gs, NEW add, Good(d, o, st, gs, add), NEW k \in Keys
  PROVE  Good([d EXCEPT ![k] = NoState], o, st, gs, TRUE)
<1> DEFINE e == [d EXCEPT ![k] = NoState]
<1>1. e \in [Keys -> Ids \cup {NoState}] /\ \A j \in Keys : e[j] = d[j] \/ e[j] = NoState
  BY DEF Good, TypesOK
<1> HIDE DEF e
<1>2. Listed(e, o, st) /\ NoFailure(e, st)
  BY <1>1 DEF Good, Listed, NoFailure
<1>3. TypesOK(e, o, st, gs)
  BY <1>1 DEF Good, TypesOK
<1> QED
  BY <1>2, <1>3 DEF Good, e

LEMMA AddKeeps ==
  ASSUME LruInv, NEW k \in Keys, Add(k)
  PROVE  LruInv'
<1> DEFINE had  == data[k] # NoState
           room == IF ~had /\ Len(order) >= opts.Capacity
                   THEN [data EXCEPT ![state[Last(order)].key] = NoState] ELSE data
           list == IF had THEN RemoveFirst(order, data[k]) ELSE order
           st(s) == [state EXCEPT ![s] = [key |-> k, once |-> "new", value |-> "added"]]
<1>0. added' = TRUE /\ Good(data, order, state, get, added) /\ TypesOK(data, order, state, get)
  BY DEF LruInv, Add, Good
<1>1. PICK s \in Garbage : Commit([room EXCEPT ![k] = s], <<s>> \o list, Append(young, s), st(s), get)
  BY DEF Add
<1>2. s \in Ids /\ s # NoState /\ s \notin ToSet(order) /\ \A j \in Keys : data[j] # s /\ \A g \in Goroutines : get[g].id # s
  BY GarbageFresh
<1>3. Good(data, order, state, get, TRUE)
  BY <1>0 DEF Good
<1>4. CASE had
  <2> DEFINE e == [data EXCEPT ![k] = NoState]
  <2>1. Good(e, list, state, get, TRUE)
    BY <1>3, <1>4, Removes
  <2>2. e[k] = NoState /\ (\A j \in Keys : e[j] # s) /\ [e EXCEPT ![k] = s] = [room EXCEPT ![k] = s]
    BY <1>0, <1>2, <1>4 DEF TypesOK
  <2>3. ToSet(list) \subseteq ToSet(order)
    BY <1>0, <1>4, RemoveFirstRemoves DEF TypesOK, Good, Listed
  <2> HIDE DEF e, list, room
  <2>4. Good([e EXCEPT ![k] = s], <<s>> \o list, st(s), get, TRUE)
    BY <1>2, <2>1, <2>2, <2>3, Puts
  <2> QED
    BY <1>0, <1>1, <2>2, <2>4, CommitGood
<1>5. CASE ~had
  <2>1. /\ Good(room, order, state, get, TRUE) /\ list = order
        /\ room[k] = NoState /\ \A j \in Keys : room[j] # s
    <3>1. CASE Len(order) >= opts.Capacity
      <4> DEFINE j == state[Last(order)].key
      <4>1. opts.Capacity \in Nat /\ opts.Capacity > 0
        BY <1>0, LruAssumption DEF Good
      <4>2. Last(order) \in Ids
        BY <1>0, <3>1, <4>1 DEF TypesOK, Last
      <4>3. j \in Keys
        BY <1>0, <4>2 DEF TypesOK, States
      <4>4. room = [data EXCEPT ![j] = NoState]
        BY <1>5, <3>1
      <4> HIDE DEF j, room
      <4> QED
        BY <1>0, <1>2, <1>3, <1>5, <4>3, <4>4, Clears DEF TypesOK
    <3>2. CASE ~(Len(order) >= opts.Capacity)
      BY <1>2, <1>3, <1>5, <3>2
    <3> QED
      BY <3>1, <3>2
  <2> HIDE DEF room, list
  <2>2. Good([room EXCEPT ![k] = s], <<s>> \o list, st(s), get, TRUE)
    BY <1>2, <2>1, Puts
  <2> QED
    BY <1>0, <1>1, <2>2, CommitGood
<1> QED
  BY <1>4, <1>5

LEMMA LruStep ==
  ASSUME LruInv, [LruNext]_lruVars
  PROVE  LruInv'
<1>1. CASE LruNext /\ ~Age
  BY <1>1, LookupKeeps, OnceKeeps, DropFailedKeeps, DeleteKeeps, AddKeeps DEF LruNext
<1>2. CASE Age \/ UNCHANGED lruVars
  <2>1. UNCHANGED <<opts, data, order, state, get, added>>
    BY <1>2 DEF Age, lruVars
  <2> QED
    BY <2>1 DEF LruInv, Good, TypesOK, Listed, NoStray, HeldKeys, NoFailure, OwnState
<1> QED
  BY <1>1, <1>2

LEMMA LruStart ==
  ASSUME LruInit
  PROVE  LruInv
<1>1. /\ opts \in Options /\ added = FALSE /\ order = <<>>
      /\ data = [k \in Keys |-> NoState]
      /\ state = [i \in Ids |-> Unused] /\ get = [g \in Goroutines |-> Idle]
  BY DEF LruInit
<1>2. TypesOK(data, order, state, get) /\ opts.Capacity \in Nat
  BY <1>1, UnusedTypes, LruAssumption DEF TypesOK
<1>3. ToSet(order) = {} /\ IsInjective(order)
  BY <1>1 DEF ToSet, IsInjective
<1>4. HeldKeys(data) = {} /\ Cardinality(HeldKeys(data)) = 0
  BY <1>1, FS_EmptySet DEF HeldKeys
<1>5. Listed(data, order, state) /\ NoStray(data, order) /\ NoFailure(data, state)
  BY <1>1, <1>3 DEF Listed, NoStray, NoFailure
<1>6. OwnState(state, get)
  BY <1>1 DEF OwnState, Idle
<1> QED
  <2>1. Cardinality(HeldKeys(data)) <= opts.Capacity
    BY <1>2, <1>4
  <2> QED
    BY <1>1, <1>2, <2>1, <1>5, <1>6 DEF LruInv, Good

LEMMA LruPromise ==
  ASSUME LruInv
  PROVE  CacheKeepsLive
<1>0. /\ Good(data, order, state, get, added) /\ opts.Capacity \in Nat
      /\ data \in [Keys -> Ids \cup {NoState}] /\ order \in Seq(Ids)
  BY LruAssumption DEF LruInv, Good, TypesOK
<1>1. ToSet(order) \subseteq Ids
  BY <1>0 DEF ToSet
<1>2. ListHoldsLive
  BY <1>0, <1>1, LruAssumption DEF ListHoldsLive, Good, Listed, NoStray, Live
<1>3. CapacityWithoutAdd
  <2> DEFINE H == HeldKeys(data)
             f == [k \in H |-> data[k]]
  <2>1. IsFiniteSet(H) /\ Cardinality(H) \in Nat
    BY FewerHeld
  <2>2. f \in Surjection(H, Live)
    BY DEF Live, HeldKeys, Surjection
  <2> HIDE DEF f, H
  <2>3. IsFiniteSet(Live) /\ Cardinality(Live) <= Cardinality(H)
    BY <2>1, <2>2, FS_Surjection
  <2>4. Cardinality(Live) \in Nat
    BY <2>3, FS_CardinalityType
  <2> QED
    BY <1>0, <2>1, <2>3, <2>4 DEF CapacityWithoutAdd, Good, H
<1>4. FailureNotCached
  BY <1>0 DEF FailureNotCached, Live, Good, NoFailure
<1> QED
  BY <1>2, <1>3, <1>4 DEF CacheKeepsLive

\* Whatever Get, Delete, Add, GetCached and time do at the same time, the map and the
\* list of the cache agree, the map is within its capacity while only Get fills it, and
\* a state whose function failed is not found again (cache.go:50-176).
THEOREM CacheIsKept == LruSpec => []CacheKeepsLive
<1>1. LruInit => LruInv
  BY LruStart
<1>2. LruInv /\ [LruNext]_lruVars => LruInv'
  BY LruStep
<1>3. LruInv => CacheKeepsLive
  BY LruPromise
<1> QED
  BY <1>1, <1>2, <1>3, PTL DEF LruSpec

------------------------------------------------------------------------------
(* The counted events. Sums. *)

UnitsOf(w) == UNION {{x} \X (1 .. w[x]) : x \in DOMAIN w}

\* The units of a function: every pair of an argument and a number up to the value.
LEMMA UnitsAre ==
  ASSUME NEW S, IsFiniteSet(S), NEW w \in [S -> Nat]
  PROVE  /\ \A x, k : <<x, k>> \in UnitsOf(w) <=> x \in S /\ k \in 1 .. w[x]
         /\ \A u \in UnitsOf(w) : \E x \in S : \E k \in 1 .. w[x] : u = <<x, k>>
         /\ IsFiniteSet(UnitsOf(w))
         /\ Total(w) = Cardinality(UnitsOf(w)) /\ Total(w) \in Nat
<1> DEFINE Of == [x \in S |-> {x} \X (1 .. w[x])]
           Fibres == {{x} \X (1 .. w[x]) : x \in DOMAIN w}
<1>1. DOMAIN w = S
  OBVIOUS
<1>2. Of \in Surjection(S, Fibres)
  BY <1>1 DEF Surjection
<1>3. IsFiniteSet(Fibres)
  BY <1>2, FS_Surjection
<1>4. ASSUME NEW x \in S PROVE IsFiniteSet({x} \X (1 .. w[x]))
  <2>1. IsFiniteSet({x}) /\ IsFiniteSet(1 .. w[x])
    <3>1. w[x] \in Int /\ 1 \in Int
      OBVIOUS
    <3> QED
      BY <3>1, FS_Singleton, FS_Interval
  <2> QED
    BY <2>1, FS_Product
<1>5. \A T \in Fibres : IsFiniteSet(T)
  BY <1>1, <1>4
<1>6. IsFiniteSet(UnitsOf(w))
  BY <1>3, <1>5, FS_UNION DEF UnitsOf
<1>7. Total(w) = Cardinality(UnitsOf(w))
  BY DEF Total, UnitsOf
<1>8. \A x, k : <<x, k>> \in UnitsOf(w) <=> x \in S /\ k \in 1 .. w[x]
  BY <1>1 DEF UnitsOf
<1>9. \A u \in UnitsOf(w) : \E x \in S : \E k \in 1 .. w[x] : u = <<x, k>>
  BY <1>1 DEF UnitsOf
<1> QED
  BY <1>6, <1>7, <1>8, <1>9, FS_CardinalityType

\* Nothing sums to nothing.
LEMMA TotalEmpty ==
  ASSUME NEW w, DOMAIN w = {}
  PROVE  Total(w) = 0
BY FS_EmptySet DEF Total

\* Equal values at corresponding arguments have equal sums.
LEMMA TotalSame ==
  ASSUME NEW S, IsFiniteSet(S), NEW T, NEW w \in [S -> Nat], NEW v \in [T -> Nat],
         NEW f \in Bijection(S, T), \A x \in S : v[f[x]] = w[x]
  PROVE  IsFiniteSet(T) /\ Total(w) = Total(v)
<1> DEFINE A == UnitsOf(w)
           B == UnitsOf(v)
           g == [u \in A |-> <<f[u[1]], u[2]>>]
<1>1. f \in [S -> T] /\ (\A x, y \in S : f[x] = f[y] => x = y) /\ (\A y \in T : \E x \in S : f[x] = y)
  BY DEF Bijection, Injection, Surjection, IsInjective
<1>2. IsFiniteSet(T)
  <2>1. ExistsBijection(S, T)
    BY DEF ExistsBijection
  <2> QED
    BY <2>1, FS_Bijection
<1>3. /\ \A x, k : <<x, k>> \in A <=> x \in S /\ k \in 1 .. w[x]
      /\ \A u \in A : \E x \in S : \E k \in 1 .. w[x] : u = <<x, k>>
      /\ IsFiniteSet(A) /\ Total(w) = Cardinality(A)
  BY UnitsAre
<1>4. /\ \A x, k : <<x, k>> \in B <=> x \in T /\ k \in 1 .. v[x]
      /\ \A u \in B : \E x \in T : \E k \in 1 .. v[x] : u = <<x, k>>
      /\ Total(v) = Cardinality(B)
  BY <1>2, UnitsAre
<1> HIDE DEF A, B
<1>5. ASSUME NEW u \in A PROVE g[u] \in B
  <2>1. PICK x \in S, k \in Nat : k \in 1 .. w[x] /\ u = <<x, k>>
    BY <1>3
  <2>2. g[u] = <<f[x], k>>
    BY <2>1
  <2> QED
    BY <1>1, <1>4, <2>1, <2>2
<1>6. ASSUME NEW u1 \in A, NEW u2 \in A, g[u1] = g[u2] PROVE u1 = u2
  <2>1. PICK x1 \in S, k1 \in Nat : k1 \in 1 .. w[x1] /\ u1 = <<x1, k1>>
    BY <1>3
  <2>2. PICK x2 \in S, k2 \in Nat : k2 \in 1 .. w[x2] /\ u2 = <<x2, k2>>
    BY <1>3
  <2>3. g[u1] = <<f[x1], k1>> /\ g[u2] = <<f[x2], k2>>
    BY <2>1, <2>2
  <2> QED
    BY <1>1, <1>6, <2>1, <2>2, <2>3
<1>7. ASSUME NEW b \in B PROVE \E u \in A : g[u] = b
  <2>1. PICK y \in T, k \in Nat : k \in 1 .. v[y] /\ b = <<y, k>>
    BY <1>4
  <2>2. PICK x \in S : f[x] = y
    BY <1>1
  <2>3. <<x, k>> \in A
    BY <1>3, <2>1, <2>2
  <2>4. g[<<x, k>>] = b
    BY <2>1, <2>2, <2>3
  <2> QED
    BY <2>3, <2>4
<1>8. g \in Bijection(A, B)
  <2>1. g \in [A -> B]
    BY <1>5
  <2> HIDE DEF g
  <2> QED
    BY <2>1, <1>6, <1>7 DEF Bijection, Injection, Surjection, IsInjective
<1>9. Cardinality(B) = Cardinality(A)
  BY <1>3, <1>8, FS_Bijection DEF ExistsBijection
<1> QED
  BY <1>2, <1>3, <1>4, <1>9

\* The sum over two sets that have nothing in common.
LEMMA TotalSplit ==
  ASSUME NEW S, IsFiniteSet(S), NEW A, NEW B, S = A \cup B, A \cap B = {}, NEW w \in [S -> Nat],
         NEW wa, wa = [x \in A |-> w[x]], NEW wb, wb = [x \in B |-> w[x]]
  PROVE  Total(w) = Total(wa) + Total(wb)
<1>1. IsFiniteSet(A) /\ IsFiniteSet(B)
  BY FS_Subset
<1>2. wa \in [A -> Nat] /\ wb \in [B -> Nat]
  OBVIOUS
<1>3. /\ \A x, k : <<x, k>> \in UnitsOf(w) <=> x \in S /\ k \in 1 .. w[x]
      /\ \A u \in UnitsOf(w) : \E x \in S : \E k \in 1 .. w[x] : u = <<x, k>>
      /\ Total(w) = Cardinality(UnitsOf(w))
  BY UnitsAre
<1>4. /\ \A x, k : <<x, k>> \in UnitsOf(wa) <=> x \in A /\ k \in 1 .. w[x]
      /\ \A u \in UnitsOf(wa) : \E x \in A : \E k \in 1 .. w[x] : u = <<x, k>>
      /\ IsFiniteSet(UnitsOf(wa))
      /\ Total(wa) = Cardinality(UnitsOf(wa)) /\ Total(wa) \in Nat
  BY <1>1, <1>2, UnitsAre
<1>5. /\ \A x, k : <<x, k>> \in UnitsOf(wb) <=> x \in B /\ k \in 1 .. w[x]
      /\ \A u \in UnitsOf(wb) : \E x \in B : \E k \in 1 .. w[x] : u = <<x, k>>
      /\ IsFiniteSet(UnitsOf(wb))
      /\ Total(wb) = Cardinality(UnitsOf(wb)) /\ Total(wb) \in Nat
  BY <1>1, <1>2, UnitsAre
<1>6. UnitsOf(w) \subseteq UnitsOf(wa) \cup UnitsOf(wb)
  BY <1>3, <1>4, <1>5
<1>7. UnitsOf(wa) \subseteq UnitsOf(w)
  BY <1>3, <1>4
<1>8. UnitsOf(wb) \subseteq UnitsOf(w)
  BY <1>3, <1>5
<1>9. UnitsOf(wa) \cap UnitsOf(wb) = {}
  BY <1>4, <1>5
<1>10. UnitsOf(w) = UnitsOf(wa) \cup UnitsOf(wb)
  BY <1>6, <1>7, <1>8
<1>11. Cardinality(UnitsOf(wa) \cup UnitsOf(wb)) = Cardinality(UnitsOf(wa)) + Cardinality(UnitsOf(wb)) - 0
  <2>1. Cardinality(UnitsOf(wa) \cup UnitsOf(wb)) =
          Cardinality(UnitsOf(wa)) + Cardinality(UnitsOf(wb)) - Cardinality(UnitsOf(wa) \cap UnitsOf(wb))
    BY <1>4, <1>5, FS_Union
  <2>2. Cardinality(UnitsOf(wa) \cap UnitsOf(wb)) = 0
    BY <1>9, FS_EmptySet
  <2> QED
    BY <2>1, <2>2
<1> QED
  BY <1>3, <1>4, <1>5, <1>10, <1>11

\* The sum of one value.
LEMMA TotalOne ==
  ASSUME NEW x, NEW w \in [{x} -> Nat]
  PROVE  Total(w) = w[x]
<1>1. UNION {{y} \X (1 .. w[y]) : y \in DOMAIN w} = {x} \X (1 .. w[x])
  <2>1. {{y} \X (1 .. w[y]) : y \in DOMAIN w} = {{x} \X (1 .. w[x])}
    BY Zenon
  <2> QED
    BY <2>1
<1>2. IsFiniteSet({x}) /\ Cardinality({x}) = 1
  BY FS_Singleton
<1>3. w[x] \in Nat
  OBVIOUS
<1>4. IsFiniteSet(1 .. w[x]) /\ Cardinality(1 .. w[x]) = w[x]
  <2>1. w[x] \in Int /\ 1 \in Int /\ (IF 1 > w[x] THEN 0 ELSE w[x] - 1 + 1) = w[x]
    BY <1>3
  <2> QED
    BY <2>1, FS_Interval
<1>5. Cardinality({x} \X (1 .. w[x])) = Cardinality({x}) * Cardinality(1 .. w[x])
  BY <1>2, <1>4, FS_Product
<1>6. Cardinality({x} \X (1 .. w[x])) = w[x]
  BY <1>2, <1>3, <1>4, <1>5
<1>7. Total(w) = Cardinality(UNION {{y} \X (1 .. w[y]) : y \in DOMAIN w})
  BY Zenon DEF Total
<1> QED
  BY <1>1, <1>6, <1>7

\* Taking one argument out of a sum.
LEMMA TotalRemove ==
  ASSUME NEW S, IsFiniteSet(S), NEW w \in [S -> Nat], NEW x \in S,
         NEW rest, rest = [y \in S \ {x} |-> w[y]]
  PROVE  Total(w) = w[x] + Total(rest) /\ Total(rest) \in Nat
<1> DEFINE one == [y \in {x} |-> w[y]]
<1>1. Total(w) = Total(rest) + Total(one)
  <2>1. S = (S \ {x}) \cup {x} /\ (S \ {x}) \cap {x} = {}
    OBVIOUS
  <2> HIDE DEF one
  <2>2. one = [y \in {x} |-> w[y]]
    BY DEF one
  <2> QED
    BY <2>1, <2>2, TotalSplit
<1>2. Total(one) = w[x]
  <2>1. one \in [{x} -> Nat] /\ one[x] = w[x]
    OBVIOUS
  <2> QED
    BY <2>1, TotalOne
<1>3. Total(rest) \in Nat
  <2>1. IsFiniteSet(S \ {x}) /\ rest \in [S \ {x} -> Nat]
    BY FS_RemoveElement
  <2> QED
    BY <2>1, UnitsAre
<1>4. w[x] \in Nat
  OBVIOUS
<1> QED
  BY <1>1, <1>2, <1>3, <1>4

------------------------------------------------------------------------------
(* Sums along sequences. *)

\* The last value of a sum.
LEMMA TotalLast ==
  ASSUME NEW n \in Nat, NEW w, NEW v
  PROVE  w \in [1 .. n + 1 -> Nat] /\ v \in [1 .. n -> Nat] /\ (\A i \in 1 .. n : v[i] = w[i]) =>
           Total(w) = Total(v) + w[n + 1] /\ Total(v) \in Nat
<1> DEFINE S == 1 .. n + 1
           x == n + 1
<1>0. SUFFICES ASSUME w \in [1 .. n + 1 -> Nat], v \in [1 .. n -> Nat], \A i \in 1 .. n : v[i] = w[i]
               PROVE  Total(w) = Total(v) + w[n + 1] /\ Total(v) \in Nat
  OBVIOUS
<1>1. x \in S /\ S \ {x} = 1 .. n
  OBVIOUS
<1>2. v = [i \in S \ {x} |-> w[i]]
  BY <1>0, <1>1
<1>3. IsFiniteSet(S)
  <2>1. n + 1 \in Int /\ 1 \in Int
    OBVIOUS
  <2> QED
    BY <2>1, FS_Interval
<1>4. w \in [S -> Nat] /\ w[n + 1] = w[x] /\ w[x] \in Nat
  BY <1>0, <1>1
<1> HIDE DEF S, x
<1>5. Total(w) = w[x] + Total(v) /\ Total(v) \in Nat
  BY <1>1, <1>2, <1>3, <1>4, TotalRemove
<1> QED
  BY <1>4, <1>5

------------------------------------------------------------------------------
(* What entries and packets carry. *)

CountedTags == EventTags \cup {Discarded}

Entries == [name : {"count", "buckets", "discarded"}, tag : CountedTags \cup {NoMap},
            value : Nat, size : EntrySizes]

Worth(e) == IF e.name = "count" THEN e.value ELSE 0
WorthOf(s) == [i \in DOMAIN s |-> Worth(s[i])]

Carried(packets) == Total([i \in DOMAIN packets |-> CountOf(packets[i])])

LEMMA CountIs ==
  ASSUME NEW s \in Seq(Entries)
  PROVE  /\ WorthOf(s) \in [1 .. Len(s) -> Nat]
         /\ CountOf(s) = Total(WorthOf(s)) /\ CountOf(s) \in Nat
<1>1. DOMAIN s = 1 .. Len(s) /\ \A i \in 1 .. Len(s) : s[i] \in Entries
  OBVIOUS
<1>2. \A e \in Entries : Worth(e) \in Nat
  BY DEF Entries, Worth
<1>3. WorthOf(s) \in [1 .. Len(s) -> Nat]
  BY <1>1, <1>2 DEF WorthOf
<1>4. WorthOf(s) = [i \in DOMAIN s |-> IF s[i].name = "count" THEN s[i].value ELSE 0]
  BY DEF WorthOf, Worth
<1>5. CountOf(s) = Total(WorthOf(s))
  BY <1>4 DEF CountOf
<1>6. IsFiniteSet(1 .. Len(s))
  BY FS_Interval
<1> QED
  BY <1>3, <1>5, <1>6, UnitsAre

LEMMA CountAppend ==
  ASSUME NEW s \in Seq(Entries), NEW e \in Entries
  PROVE  CountOf(Append(s, e)) = CountOf(s) + Worth(e) /\ Worth(e) \in Nat
<1> DEFINE t == Append(s, e)
<1>1. t \in Seq(Entries) /\ Len(t) = Len(s) + 1 /\ t[Len(s) + 1] = e /\ \A i \in 1 .. Len(s) : t[i] = s[i]
  OBVIOUS
<1> HIDE DEF t
<1>2. Len(s) \in Nat /\ DOMAIN s = 1 .. Len(s) /\ DOMAIN t = 1 .. Len(s) + 1
  BY <1>1
<1>3. WorthOf(t) \in [1 .. Len(s) + 1 -> Nat] /\ CountOf(t) = Total(WorthOf(t))
  BY <1>1, CountIs
<1>4. WorthOf(s) \in [1 .. Len(s) -> Nat] /\ CountOf(s) = Total(WorthOf(s)) /\ CountOf(s) \in Nat
  BY CountIs
<1>5. \A i \in 1 .. Len(s) : WorthOf(s)[i] = WorthOf(t)[i]
  BY <1>1, <1>2 DEF WorthOf
<1>6. WorthOf(t)[Len(s) + 1] = Worth(e)
  BY <1>1, <1>2 DEF WorthOf
<1>7. Total(WorthOf(t)) = Total(WorthOf(s)) + WorthOf(t)[Len(s) + 1]
  BY <1>2, <1>3, <1>4, <1>5, TotalLast
<1>8. Worth(e) \in Nat
  BY DEF Entries, Worth
<1> QED
  BY <1>3, <1>4, <1>6, <1>7, <1>8 DEF t

LEMMA CountEmpty == CountOf(<<>>) = 0
BY TotalEmpty DEF CountOf

LEMMA CarriedIs ==
  ASSUME NEW ps \in Seq(Seq(Entries))
  PROVE  /\ [i \in DOMAIN ps |-> CountOf(ps[i])] \in [1 .. Len(ps) -> Nat]
         /\ Carried(ps) \in Nat
<1>1. DOMAIN ps = 1 .. Len(ps) /\ \A i \in 1 .. Len(ps) : ps[i] \in Seq(Entries)
  OBVIOUS
<1>2. [i \in DOMAIN ps |-> CountOf(ps[i])] \in [1 .. Len(ps) -> Nat]
  BY <1>1, CountIs
<1>3. IsFiniteSet(1 .. Len(ps))
  BY FS_Interval
<1> QED
  BY <1>2, <1>3, UnitsAre DEF Carried

LEMMA CarriedJoined ==
  ASSUME NEW ps, NEW qs
  PROVE  ps \in Seq(Seq(Entries)) /\ qs \in Seq(Seq(Entries)) => Carried(ps \o qs) = Carried(ps) + Carried(qs)
<1> DEFINE rs == ps \o qs
           W(s) == [i \in DOMAIN s |-> CountOf(s[i])]
<1>0. SUFFICES ASSUME ps \in Seq(Seq(Entries)), qs \in Seq(Seq(Entries)) PROVE Carried(rs) = Carried(ps) + Carried(qs)
  OBVIOUS
<1>1. /\ rs \in Seq(Seq(Entries)) /\ Len(rs) = Len(ps) + Len(qs)
      /\ \A i \in 1 .. Len(ps) + Len(qs) : rs[i] = IF i <= Len(ps) THEN ps[i] ELSE qs[i - Len(ps)]
  BY <1>0, ConcatProperties
<1> HIDE DEF rs
<1>2. /\ Len(ps) \in Nat /\ Len(qs) \in Nat /\ DOMAIN ps = 1 .. Len(ps) /\ DOMAIN qs = 1 .. Len(qs)
      /\ DOMAIN rs = 1 .. Len(rs) /\ Len(rs) \in Nat
  BY <1>0, <1>1
<1>3. \A i \in 1 .. Len(ps) : rs[i] = ps[i]
  BY <1>1, <1>2
<1>4. ASSUME NEW i \in 1 .. Len(qs) PROVE rs[Len(ps) + i] = qs[i] /\ Len(ps) + i \in 1 .. Len(ps) + Len(qs)
  <2>1. Len(ps) + i \in 1 .. Len(ps) + Len(qs) /\ ~(Len(ps) + i <= Len(ps)) /\ (Len(ps) + i) - Len(ps) = i
    BY <1>2
  <2> QED
    BY <1>1, <2>1
<1> DEFINE wr == W(rs)
           wp == W(ps)
           wq == W(qs)
<1>5. wr \in [1 .. Len(rs) -> Nat] /\ wp \in [1 .. Len(ps) -> Nat] /\ wq \in [1 .. Len(qs) -> Nat]
  BY <1>0, <1>1, CarriedIs
<1>6. ASSUME NEW i \in 1 .. Len(ps) PROVE wp[i] = wr[i]
  <2>1. i \in DOMAIN ps /\ i \in DOMAIN rs
    BY <1>1, <1>2
  <2> QED
    BY <1>3, <2>1
<1>7. ASSUME NEW i \in 1 .. Len(qs) PROVE wq[i] = wr[Len(ps) + i]
  <2>1. i \in DOMAIN qs /\ Len(ps) + i \in DOMAIN rs
    BY <1>1, <1>2, <1>4
  <2> QED
    BY <1>4, <2>1
<1>8. Carried(rs) = Total(wr) /\ Carried(ps) = Total(wp) /\ Carried(qs) = Total(wq)
  BY DEF Carried
<1> DEFINE k == Len(rs)
           n == Len(ps)
           m == Len(qs)
<1>9. /\ k \in Nat /\ n \in Nat /\ m \in Nat /\ k = n + m
      /\ wr \in [1 .. k -> Nat] /\ wp \in [1 .. n -> Nat] /\ wq \in [1 .. m -> Nat]
      /\ (\A i \in 1 .. n : wp[i] = wr[i]) /\ (\A i \in 1 .. m : wq[i] = wr[n + i])
  BY <1>1, <1>2, <1>5, <1>6, <1>7
<1> DEFINE S == 1 .. k
           A == 1 .. n
           B == n + 1 .. k
           M == 1 .. m
           back == [i \in B |-> wr[i]]
           f == [i \in M |-> n + i]
<1> HIDE DEF wr, wp, wq, k, n, m
<1>10. S = A \cup B /\ A \cap B = {} /\ wr \in [S -> Nat]
  BY <1>9
<1>11. wp = [i \in A |-> wr[i]] /\ back = [i \in B |-> wr[i]]
  BY <1>9
<1>12. IsFiniteSet(S) /\ IsFiniteSet(M)
  <2>1. m \in Int /\ k \in Int /\ 1 \in Int
    BY <1>9
  <2> QED
    BY <2>1, FS_Interval
<1>13. back \in [B -> Nat] /\ wq \in [M -> Nat] /\ \A i \in M : back[f[i]] = wq[i]
  BY <1>9
<1>14. f \in [M -> B] /\ \A i, j \in M : f[i] = f[j] => i = j
  BY <1>9
<1>15. ASSUME NEW y \in B PROVE \E i \in M : f[i] = y
  <2>1. y - n \in 1 .. m /\ n + (y - n) = y
    BY <1>9
  <2> QED
    BY <2>1
<1> HIDE DEF S, A, B, M, back, f
<1>16. f \in Bijection(M, B)
  BY <1>14, <1>15 DEF Bijection, Injection, Surjection, IsInjective
<1>17. Total(wq) = Total(back)
  BY <1>12, <1>13, <1>16, TotalSame
<1>18. Total(wr) = Total(wp) + Total(back)
  BY <1>10, <1>11, <1>12, TotalSplit
<1> QED
  BY <1>8, <1>17, <1>18

LEMMA CarriedOne ==
  ASSUME NEW s \in Seq(Entries)
  PROVE  Carried(<<s>>) = CountOf(s)
<1> DEFINE w == [i \in DOMAIN <<s>> |-> CountOf(<<s>>[i])]
<1>1. CountOf(s) \in Nat
  BY CountIs
<1>2. w \in [{1} -> Nat] /\ w[1] = CountOf(s)
  BY <1>1
<1>3. Carried(<<s>>) = Total(w)
  BY DEF Carried
<1> QED
  BY <1>2, <1>3, TotalOne

LEMMA CarriedAppend ==
  ASSUME NEW ps \in Seq(Seq(Entries)), NEW s \in Seq(Entries)
  PROVE  Carried(Append(ps, s)) = Carried(ps) + CountOf(s)
<1>1. Append(ps, s) = ps \o <<s>> /\ <<s>> \in Seq(Seq(Entries))
  OBVIOUS
<1> QED
  BY <1>1, CarriedJoined, CarriedOne

LEMMA CarriedTail ==
  ASSUME NEW ps \in Seq(Seq(Entries)), ps # <<>>
  PROVE  /\ Carried(ps) = CountOf(Head(ps)) + Carried(Tail(ps))
         /\ Tail(ps) \in Seq(Seq(Entries)) /\ Head(ps) \in Seq(Entries)
<1>1. ps = <<Head(ps)>> \o Tail(ps) /\ Tail(ps) \in Seq(Seq(Entries)) /\ Head(ps) \in Seq(Entries)
  OBVIOUS
<1>2. <<Head(ps)>> \in Seq(Seq(Entries))
  BY <1>1
<1>3. Carried(<<Head(ps)>> \o Tail(ps)) = Carried(<<Head(ps)>>) + Carried(Tail(ps))
  BY <1>1, <1>2, CarriedJoined
<1> QED
  BY <1>1, <1>3, CarriedOne

------------------------------------------------------------------------------
(* Send. *)

NoneSent == [buf |-> <<>>, packets |-> <<>>, skipped |-> <<>>]

Sent(end) ==
  [packets |-> IF end.buf = <<>> THEN end.packets ELSE Append(end.packets, end.buf),
   skipped |-> end.skipped]

\* The loop of Send is a function on the number of entries.
LEMMA SendSteps ==
  ASSUME NEW entries \in Seq(Entries)
  PROVE  \E acc : /\ acc = [n \in 0 .. Len(entries) |->
                              IF n = 0 THEN NoneSent ELSE AppendEntry(acc[n - 1], entries[n])]
                  /\ Send(entries) = Sent(acc[Len(entries)])
<1> DEFINE L == Len(entries)
           Step(g, n) == IF n = 0 THEN NoneSent ELSE AppendEntry(g[n - 1], entries[n])
           Has(m) == \E g : g = [n \in 0 .. m |-> Step(g, n)]
           Not == {m \in 0 .. L : ~Has(m)}
<1>1. L \in Nat
  OBVIOUS
<1> HIDE DEF L, Step
<1>2. Not = {}
  <2> SUFFICES ASSUME Not # {} PROVE FALSE
    OBVIOUS
  <2>1. Not \subseteq Nat
    BY <1>1
  <2> HIDE DEF Not
  <2>2. PICK m \in Not : \A n \in Not : m <= n
    BY <2>1, LeastNat
  <2>3. m \in 0 .. L /\ ~Has(m)
    BY <2>2 DEF Not
  <2>4. CASE m = 0
    <3> DEFINE g == [n \in 0 .. 0 |-> NoneSent]
    <3>1. g = [n \in 0 .. 0 |-> Step(g, n)]
      BY DEF Step
    <3> HIDE DEF g
    <3> QED
      BY <2>3, <2>4, <3>1
  <2>5. CASE m # 0
    <3>1. m - 1 \in 0 .. L /\ m - 1 \notin Not
      BY <1>1, <2>2, <2>3, <2>5
    <3>2. PICK g : g = [n \in 0 .. m - 1 |-> Step(g, n)]
      BY <3>1 DEF Not
    <3> DEFINE h == [n \in 0 .. m |-> IF n = m THEN Step(g, m) ELSE g[n]]
    <3>3. m \in Nat /\ m >= 1
      BY <1>1, <2>3, <2>5
    <3>4. \A n \in 0 .. m : n # m => n \in 0 .. m - 1 /\ (n # 0 => n - 1 \in 0 .. m /\ n - 1 # m)
      BY <3>3
    <3>5. ASSUME NEW n \in 0 .. m PROVE h[n] = Step(h, n)
      <4>1. CASE n = m
        <5>1. m - 1 \in 0 .. m /\ m - 1 # m /\ m \in 0 .. m
          BY <3>3
        <5>2. h[m - 1] = g[m - 1] /\ h[m] = Step(g, m)
          BY <5>1
        <5> HIDE DEF h
        <5>3. Step(h, m) = Step(g, m)
          BY <5>2 DEF Step
        <5> QED
          BY <4>1, <5>2, <5>3
      <4>2. CASE n # m
        <5>1. h[n] = g[n] /\ g[n] = Step(g, n)
          BY <3>2, <3>4, <4>2
        <5>2. n # 0 => h[n - 1] = g[n - 1]
          BY <3>4, <4>2
        <5> HIDE DEF h
        <5>3. Step(h, n) = Step(g, n)
          BY <5>2 DEF Step
        <5> QED
          BY <5>1, <5>3
      <4> QED
        BY <4>1, <4>2
    <3>6. h = [n \in 0 .. m |-> h[n]]
      OBVIOUS
    <3> HIDE DEF h
    <3>7. h = [n \in 0 .. m |-> Step(h, n)]
      BY <3>5, <3>6
    <3> QED
      BY <2>3, <3>7
  <2> QED
    BY <2>4, <2>5
<1>3. Has(L)
  BY <1>1, <1>2
<1> QED
  BY <1>3 DEF Send, Sent, NoneSent, Step, L

PacketsFit(packets) == \A i \in DOMAIN packets : Fits(packets[i]) \/ Len(packets[i]) = 1

LEMMA PacketAdded ==
  ASSUME NEW ps \in Seq(Seq(Entries)), PacketsFit(ps), NEW s \in Seq(Entries), Fits(s) \/ Len(s) = 1
  PROVE  PacketsFit(Append(ps, s)) /\ Append(ps, s) \in Seq(Seq(Entries))
<1> DEFINE t == Append(ps, s)
<1>1. t \in Seq(Seq(Entries)) /\ DOMAIN t = 1 .. Len(ps) + 1 /\ t[Len(ps) + 1] = s
  OBVIOUS
<1>2. \A i \in 1 .. Len(ps) : t[i] = ps[i] /\ i \in DOMAIN ps
  OBVIOUS
<1> HIDE DEF t
<1>3. ASSUME NEW i \in DOMAIN t PROVE Fits(t[i]) \/ Len(t[i]) = 1
  <2>1. CASE i = Len(ps) + 1
    BY <1>1, <2>1
  <2>2. CASE i # Len(ps) + 1
    <3>1. i \in 1 .. Len(ps)
      BY <1>1, <2>2
    <3>2. Fits(ps[i]) \/ Len(ps[i]) = 1
      BY <1>2, <3>1 DEF PacketsFit
    <3> QED
      BY <1>2, <3>1, <3>2
  <2> QED
    BY <2>1, <2>2
<1> QED
  BY <1>1, <1>3 DEF PacketsFit, t

Accs == [buf : Seq(Entries), packets : Seq(Seq(Entries)), skipped : Seq(Entries)]

\* What was appended so far is in the packets, in the buffer or skipped.
AccOK(a, sum) ==
  /\ a \in Accs
  /\ a.buf = <<>> \/ Fits(a.buf)
  /\ PacketsFit(a.packets)
  /\ sum = Carried(a.packets) + CountOf(a.buf) + CountOf(a.skipped)

\* One value is put into exactly one place.
LEMMA AppendKeeps ==
  ASSUME NEW a, NEW sum, AccOK(a, sum), NEW e \in Entries
  PROVE  AccOK(AppendEntry(a, e), sum + Worth(e))
<1> DEFINE new == AppendEntry(a, e)
           ps == a.packets
           b == a.buf
           k == a.skipped
<1>1. a \in Accs /\ ps \in Seq(Seq(Entries)) /\ b \in Seq(Entries) /\ k \in Seq(Entries)
  BY DEF AccOK, Accs
<1>2. /\ b = <<>> \/ Fits(b)
      /\ PacketsFit(ps)
      /\ sum = Carried(ps) + CountOf(b) + CountOf(k)
  BY DEF AccOK
<1>3. Carried(ps) \in Nat /\ CountOf(b) \in Nat /\ CountOf(k) \in Nat
  BY <1>1, CarriedIs, CountIs
<1>4. /\ Append(b, e) \in Seq(Entries) /\ Append(k, e) \in Seq(Entries)
      /\ <<e>> \in Seq(Entries) /\ <<>> \in Seq(Entries) /\ Len(<<e>>) = 1
      /\ <<e>> = Append(<<>>, e)
  BY <1>1
<1>5. /\ CountOf(Append(b, e)) = CountOf(b) + Worth(e)
      /\ CountOf(Append(k, e)) = CountOf(k) + Worth(e)
      /\ Worth(e) \in Nat
  BY <1>1, CountAppend
<1>6. CountOf(<<e>>) = Worth(e) /\ CountOf(<<>>) = 0
  <2>1. CountOf(Append(<<>>, e)) = CountOf(<<>>) + Worth(e)
    BY <1>4, CountAppend
  <2> QED
    BY <1>4, <1>5, <2>1, CountEmpty
<1>7. CASE e.size > TooLong
  <2>1. new = [a EXCEPT !.skipped = Append(k, e)]
    BY <1>7 DEF AppendEntry
  <2>2. new \in Accs /\ new.buf = b /\ new.packets = ps /\ new.skipped = Append(k, e)
    BY <1>1, <1>4, <2>1 DEF Accs
  <2>3. sum + Worth(e) = Carried(ps) + CountOf(b) + CountOf(Append(k, e))
    BY <1>2, <1>3, <1>5
  <2> HIDE DEF new
  <2> QED
    BY <1>2, <2>2, <2>3 DEF AccOK, new
<1>8. CASE ~(e.size > TooLong) /\ Fits(Append(b, e))
  <2>1. new = [a EXCEPT !.buf = Append(b, e)]
    BY <1>8 DEF AppendEntry
  <2>2. new \in Accs /\ new.buf = Append(b, e) /\ new.packets = ps /\ new.skipped = k
    BY <1>1, <1>4, <2>1 DEF Accs
  <2>3. sum + Worth(e) = Carried(ps) + CountOf(Append(b, e)) + CountOf(k)
    BY <1>2, <1>3, <1>5
  <2> HIDE DEF new
  <2> QED
    BY <1>2, <1>8, <2>2, <2>3 DEF AccOK, new
<1>9. CASE ~(e.size > TooLong) /\ ~Fits(Append(b, e)) /\ b = <<>>
  <2>1. new = [a EXCEPT !.packets = Append(ps, <<e>>)]
    BY <1>9 DEF AppendEntry
  <2>2. PacketsFit(Append(ps, <<e>>)) /\ Append(ps, <<e>>) \in Seq(Seq(Entries))
    BY <1>1, <1>2, <1>4, PacketAdded
  <2>3. new \in Accs /\ new.buf = b /\ new.packets = Append(ps, <<e>>) /\ new.skipped = k
    BY <1>1, <2>1, <2>2 DEF Accs
  <2>4. Carried(Append(ps, <<e>>)) = Carried(ps) + Worth(e)
    BY <1>1, <1>4, <1>6, CarriedAppend
  <2>5. sum + Worth(e) = Carried(Append(ps, <<e>>)) + CountOf(b) + CountOf(k)
    BY <1>2, <1>3, <1>5, <2>4
  <2> HIDE DEF new
  <2> QED
    BY <1>9, <2>2, <2>3, <2>5 DEF AccOK, new
<1>10. CASE ~(e.size > TooLong) /\ ~Fits(Append(b, e)) /\ b # <<>> /\ Fits(<<e>>)
  <2>1. new = [a EXCEPT !.packets = Append(ps, b), !.buf = <<e>>]
    BY <1>10 DEF AppendEntry
  <2>2. PacketsFit(Append(ps, b)) /\ Append(ps, b) \in Seq(Seq(Entries))
    BY <1>1, <1>2, <1>10, PacketAdded
  <2>3. new \in Accs /\ new.buf = <<e>> /\ new.packets = Append(ps, b) /\ new.skipped = k
    BY <1>1, <1>4, <2>1, <2>2 DEF Accs
  <2>4. Carried(Append(ps, b)) = Carried(ps) + CountOf(b)
    BY <1>1, CarriedAppend
  <2>5. sum + Worth(e) = Carried(Append(ps, b)) + CountOf(<<e>>) + CountOf(k)
    BY <1>2, <1>3, <1>5, <1>6, <2>4
  <2> HIDE DEF new
  <2> QED
    BY <1>10, <2>2, <2>3, <2>5 DEF AccOK, new
<1>11. CASE ~(e.size > TooLong) /\ ~Fits(Append(b, e)) /\ b # <<>> /\ ~Fits(<<e>>)
  <2>1. new = [a EXCEPT !.packets = ps \o <<b, <<e>>>>, !.buf = <<>>]
    BY <1>11 DEF AppendEntry
  <2>2. PacketsFit(Append(ps, b)) /\ Append(ps, b) \in Seq(Seq(Entries))
    BY <1>1, <1>2, <1>11, PacketAdded
  <2>3. ps \o <<b, <<e>>>> = Append(Append(ps, b), <<e>>)
    BY <1>1, <1>4
  <2> DEFINE qs == Append(Append(ps, b), <<e>>)
  <2>4. PacketsFit(qs) /\ qs \in Seq(Seq(Entries))
    BY <1>4, <2>2, PacketAdded
  <2>5. new = [a EXCEPT !.packets = qs, !.buf = <<>>]
    BY <2>1, <2>3
  <2>6. Carried(Append(ps, b)) = Carried(ps) + CountOf(b)
    BY <1>1, CarriedAppend
  <2>7. Carried(qs) = Carried(Append(ps, b)) + CountOf(<<e>>)
    BY <1>4, <2>2, CarriedAppend
  <2> HIDE DEF qs
  <2>8. new \in Accs /\ new.buf = <<>> /\ new.packets = qs /\ new.skipped = k
    BY <1>1, <1>4, <2>4, <2>5 DEF Accs
  <2>9. sum + Worth(e) = Carried(qs) + CountOf(<<>>) + CountOf(k)
    BY <1>2, <1>3, <1>5, <1>6, <2>6, <2>7
  <2> HIDE DEF new
  <2> QED
    BY <2>4, <2>8, <2>9 DEF AccOK, new
<1> QED
  BY <1>7, <1>8, <1>9, <1>10, <1>11

\* Every value that Send is given is in one of its packets or was skipped, and the packets
\* are within their size.
LEMMA SendConserves ==
  ASSUME NEW entries \in Seq(Entries)
  PROVE  /\ Send(entries).packets \in Seq(Seq(Entries)) /\ Send(entries).skipped \in Seq(Entries)
         /\ PacketsFit(Send(entries).packets)
         /\ CountOf(entries) = Carried(Send(entries).packets) + CountOf(Send(entries).skipped)
<1> DEFINE L == Len(entries)
           Pre(n) == SubSeq(entries, 1, n)
<1>1. PICK acc : /\ acc = [n \in 0 .. L |-> IF n = 0 THEN NoneSent ELSE AppendEntry(acc[n - 1], entries[n])]
                 /\ Send(entries) = Sent(acc[L])
  BY SendSteps
<1>2. L \in Nat /\ \A n \in 1 .. L : entries[n] \in Entries
  OBVIOUS
<1>3. acc[0] = NoneSent /\ \A n \in 1 .. L : acc[n] = AppendEntry(acc[n - 1], entries[n])
  BY <1>1, <1>2
<1>4. Pre(0) = <<>> /\ Pre(L) = entries
  OBVIOUS
<1>5. ASSUME NEW n \in 1 .. L
      PROVE  Pre(n) = Append(Pre(n - 1), entries[n]) /\ Pre(n - 1) \in Seq(Entries)
  <2>1. n - 1 \in Nat /\ Pre(n) \in Seq(Entries) /\ Pre(n - 1) \in Seq(Entries) /\ Len(Pre(n)) = n /\ Len(Pre(n - 1)) = n - 1
    BY <1>2
  <2>2. (\A i \in 1 .. n : Pre(n)[i] = entries[i]) /\ (\A i \in 1 .. n - 1 : Pre(n - 1)[i] = entries[i])
    BY <1>2
  <2> DEFINE s == Append(Pre(n - 1), entries[n])
  <2>3. s \in Seq(Entries) /\ Len(s) = n
    BY <1>2, <2>1
  <2>4. \A i \in 1 .. n : s[i] = entries[i]
    BY <1>2, <2>1, <2>2
  <2> HIDE DEF s, Pre
  <2>5. Pre(n) = s
    BY <2>1, <2>2, <2>3, <2>4, SeqEqual
  <2> QED
    BY <2>1, <2>5 DEF s
<1> HIDE DEF L, Pre
<1> DEFINE Bad == {n \in 0 .. L : ~AccOK(acc[n], CountOf(Pre(n)))}
<1>6. AccOK(acc[0], CountOf(Pre(0)))
  <2>1. NoneSent \in Accs /\ NoneSent.buf = <<>> /\ NoneSent.packets = <<>> /\ NoneSent.skipped = <<>>
    BY DEF NoneSent, Accs
  <2>2. PacketsFit(<<>>) /\ Carried(<<>>) = 0
    BY TotalEmpty DEF PacketsFit, Carried
  <2> QED
    BY <1>3, <1>4, <2>1, <2>2, CountEmpty DEF AccOK
<1>7. Bad = {}
  <2> SUFFICES ASSUME Bad # {} PROVE FALSE
    OBVIOUS
  <2>1. Bad \subseteq Nat
    BY <1>2
  <2> HIDE DEF Bad
  <2>2. PICK n \in Bad : \A k \in Bad : n <= k
    BY <2>1, LeastNat
  <2>3. n \in 0 .. L /\ ~AccOK(acc[n], CountOf(Pre(n)))
    BY <2>2 DEF Bad
  <2>4. n # 0
    BY <1>6, <2>3
  <2>5. n \in 1 .. L /\ n - 1 \in 0 .. L /\ n - 1 \notin Bad
    BY <1>2, <2>2, <2>3, <2>4
  <2>6. AccOK(acc[n - 1], CountOf(Pre(n - 1)))
    BY <2>5 DEF Bad
  <2>7. AccOK(acc[n], CountOf(Pre(n - 1)) + Worth(entries[n]))
    BY <1>2, <1>3, <2>5, <2>6, AppendKeeps
  <2>8. CountOf(Pre(n)) = CountOf(Pre(n - 1)) + Worth(entries[n])
    BY <1>2, <1>5, <2>5, CountAppend
  <2> QED
    BY <2>3, <2>7, <2>8
<1>8. AccOK(acc[L], CountOf(entries))
  BY <1>2, <1>4, <1>7
<1> DEFINE a == acc[L]
<1> HIDE DEF a
<1>9. /\ a.packets \in Seq(Seq(Entries)) /\ a.buf \in Seq(Entries) /\ a.skipped \in Seq(Entries)
      /\ a.buf = <<>> \/ Fits(a.buf)
      /\ PacketsFit(a.packets)
      /\ CountOf(entries) = Carried(a.packets) + CountOf(a.buf) + CountOf(a.skipped)
  BY <1>8 DEF AccOK, Accs, a
<1>10. /\ Send(entries).packets = IF a.buf = <<>> THEN a.packets ELSE Append(a.packets, a.buf)
       /\ Send(entries).skipped = a.skipped
  BY <1>1 DEF Sent, a
<1>11. Carried(a.packets) \in Nat /\ CountOf(a.buf) \in Nat /\ CountOf(a.skipped) \in Nat
  BY <1>9, CarriedIs, CountIs
<1>12. CASE a.buf = <<>>
  BY <1>9, <1>10, <1>11, <1>12, CountEmpty
<1>13. CASE a.buf # <<>>
  <2>1. PacketsFit(Append(a.packets, a.buf)) /\ Append(a.packets, a.buf) \in Seq(Seq(Entries))
    BY <1>9, <1>13, PacketAdded
  <2>2. Carried(Append(a.packets, a.buf)) = Carried(a.packets) + CountOf(a.buf)
    BY <1>9, CarriedAppend
  <2> QED
    BY <1>9, <1>10, <1>11, <1>13, <2>1, <2>2
<1> QED
  BY <1>12, <1>13

------------------------------------------------------------------------------
(* Maps of counters. *)

IsCounts(m) == DOMAIN m \subseteq CountedTags /\ IsFiniteSet(DOMAIN m) /\ m \in [DOMAIN m -> Nat]

LEMMA CountsTotal ==
  ASSUME NEW m, IsCounts(m)
  PROVE  Total(m) \in Nat /\ Cardinality(DOMAIN m) \in Nat
BY UnitsAre, FS_CardinalityType DEF IsCounts

LEMMA EmptyIs == IsCounts(EmptyMap) /\ Total(EmptyMap) = 0 /\ DOMAIN EmptyMap = {} /\ Cardinality(DOMAIN EmptyMap) = 0
<1>1. DOMAIN EmptyMap = {} /\ EmptyMap \in [DOMAIN EmptyMap -> Nat]
  BY DEF EmptyMap
<1> QED
  BY <1>1, FS_EmptySet, TotalEmpty DEF IsCounts

\* One event adds one.
LEMMA BumpAdds ==
  ASSUME NEW m, IsCounts(m), NEW t \in CountedTags
  PROVE  /\ IsCounts(Bump(m, t)) /\ DOMAIN Bump(m, t) = DOMAIN m \cup {t}
         /\ Total(Bump(m, t)) = Total(m) + 1
<1> DEFINE D == DOMAIN m
           S == D \cup {t}
           b == Bump(m, t)
           rest == [u \in S \ {t} |-> b[u]]
<1>1. D \subseteq CountedTags /\ IsFiniteSet(D) /\ m \in [D -> Nat]
  BY DEF IsCounts
<1>2. /\ b \in [S -> Nat]
      /\ b[t] = (IF t \in D THEN m[t] ELSE 0) + 1
      /\ \A u \in S : u # t => b[u] = m[u]
  BY <1>1 DEF Bump
<1>3. IsFiniteSet(S)
  BY <1>1, FS_AddElement
<1> HIDE DEF b, S
<1>4. Total(b) = b[t] + Total(rest) /\ Total(rest) \in Nat
  <2>1. t \in S
    BY DEF S
  <2> HIDE DEF rest
  <2>2. rest = [u \in S \ {t} |-> b[u]]
    BY DEF rest
  <2>3. b \in [S -> Nat]
    BY <1>2
  <2> QED
    BY <1>3, <2>1, <2>2, <2>3, TotalRemove
<1>5. CASE t \in D
  <2>1. S = D
    BY <1>5 DEF S
  <2>2. rest = [u \in D \ {t} |-> m[u]]
    BY <1>2, <2>1
  <2>3. Total(m) = m[t] + Total(rest)
    <3> HIDE DEF D, rest
    <3> QED
      BY <1>1, <1>5, <2>2, TotalRemove
  <2>4. m[t] \in Nat
    BY <1>1, <1>5
  <2> QED
    BY <1>1, <1>2, <1>3, <1>4, <1>5, <2>1, <2>3, <2>4 DEF IsCounts, b, S
<1>6. CASE t \notin D
  <2>1. S \ {t} = D
    BY <1>6 DEF S
  <2>2. rest = m
    BY <1>1, <1>2, <2>1 DEF S
  <2>3. DOMAIN b = S /\ S \subseteq CountedTags
    BY <1>1, <1>2 DEF S
  <2>4. IsCounts(b)
    BY <1>2, <1>3, <2>3 DEF IsCounts
  <2>5. Total(b) = Total(m) + 1
    BY <1>2, <1>4, <1>6, <2>2
  <2> QED
    BY <2>3, <2>4, <2>5 DEF b, S
<1> QED
  BY <1>5, <1>6

\* The tags of a map as a sequence.
LEMMA TagsOf ==
  ASSUME NEW D, IsFiniteSet(D)
  PROVE  /\ SetToSeq(D) \in Seq(D) /\ Len(SetToSeq(D)) = Cardinality(D)
         /\ SetToSeq(D) \in Bijection(1 .. Len(SetToSeq(D)), D)
<1> DEFINE n == Cardinality(D)
           tags == SetToSeq(D)
<1>1. n \in Nat /\ ExistsBijection(1 .. n, D)
  BY FS_CardinalityType
<1>2. \E f \in [1 .. n -> D] : IsInjective(f)
  BY <1>1 DEF ExistsBijection, Bijection, Injection
<1>3. tags \in [1 .. n -> D] /\ IsInjective(tags)
  BY <1>2 DEF SetToSeq
<1> HIDE DEF tags
<1>4. tags \in Injection(1 .. n, D)
  BY <1>3 DEF Injection
<1>5. IsFiniteSet(1 .. n) /\ Cardinality(1 .. n) = n
  <2>1. n \in Int /\ 1 \in Int /\ (IF 1 > n THEN 0 ELSE n - 1 + 1) = n
    BY <1>1
  <2> QED
    BY <2>1, FS_Interval
<1>6. tags \in Surjection(1 .. n, D)
  <2> DEFINE I == 1 .. n
  <2>1. tags \in Injection(I, D) /\ IsFiniteSet(D) /\ Cardinality(I) = Cardinality(D)
    BY <1>4, <1>5
  <2> HIDE DEF I
  <2>2. tags \in Surjection(I, D)
    BY <2>1, FS_Injection
  <2> QED
    BY <2>2 DEF I
<1>7. tags \in Seq(D) /\ Len(tags) = n
  BY <1>1, <1>3
<1> QED
  BY <1>4, <1>6, <1>7 DEF Bijection, tags

\* What is handed to Send counts as much as the map does.
LEMMA EntriesCount ==
  ASSUME NEW m, IsCounts(m), NEW marker, NEW sizes \in EntrySizes \X EntrySizes
  PROVE  EntriesOf(m, marker, sizes) \in Seq(Entries) /\ CountOf(EntriesOf(m, marker, sizes)) = Total(m)
<1> DEFINE D == DOMAIN m
           tags == SetToSeq(D)
           counts == [i \in 1 .. Len(tags) |-> [name |-> "count", tag |-> tags[i], value |-> m[tags[i]], size |-> sizes[1]]]
           b == [name |-> "buckets", tag |-> NoMap, value |-> Cardinality(D), size |-> sizes[2]]
           d == [name |-> "discarded", tag |-> NoMap, value |-> IF marker THEN 1 ELSE 0, size |-> sizes[2]]
<1>1. D \subseteq CountedTags /\ IsFiniteSet(D) /\ m \in [D -> Nat] /\ Cardinality(D) \in Nat
  BY CountsTotal DEF IsCounts
<1>2. tags \in Seq(D) /\ Len(tags) \in Nat /\ tags \in Bijection(1 .. Len(tags), D)
  BY <1>1, TagsOf
<1>3. sizes[1] \in EntrySizes /\ sizes[2] \in EntrySizes
  OBVIOUS
<1>4. b \in Entries /\ d \in Entries /\ Worth(b) = 0 /\ Worth(d) = 0
  <2>1. Cardinality(D) \in Nat /\ (IF marker THEN 1 ELSE 0) \in Nat
    BY <1>1
  <2> HIDE DEF D
  <2> QED
    BY <1>3, <2>1 DEF Entries, Worth
<1> HIDE DEF tags
<1>5. ASSUME NEW i \in 1 .. Len(tags) PROVE tags[i] \in D /\ counts[i] \in Entries /\ Worth(counts[i]) = m[tags[i]]
  <2>1. tags[i] \in D
    BY <1>2
  <2>2. m[tags[i]] \in Nat /\ tags[i] \in CountedTags
    BY <1>1, <2>1
  <2> QED
    BY <1>3, <2>1, <2>2 DEF Entries, Worth
<1>6. counts \in Seq(Entries) /\ Len(counts) = Len(tags) /\ DOMAIN counts = 1 .. Len(tags)
  BY <1>2, <1>5
<1>7. EntriesOf(m, marker, sizes) = counts \o <<b, d>>
  BY DEF EntriesOf, tags
<1> HIDE DEF counts, b, d
<1>8. counts \o <<b, d>> = Append(Append(counts, b), d) /\ Append(counts, b) \in Seq(Entries)
  BY <1>4, <1>6
<1>9. CountOf(Append(Append(counts, b), d)) = CountOf(counts)
  <2>1. CountOf(Append(Append(counts, b), d)) = CountOf(Append(counts, b)) + Worth(d)
    BY <1>4, <1>8, CountAppend
  <2>2. CountOf(Append(counts, b)) = CountOf(counts) + Worth(b)
    BY <1>4, <1>6, CountAppend
  <2>3. CountOf(counts) \in Nat
    BY <1>6, CountIs
  <2> QED
    BY <1>4, <2>1, <2>2, <2>3
<1>10. CountOf(counts) = Total(m)
  <2> DEFINE w == WorthOf(counts)
             I == 1 .. Len(tags)
  <2>1. w \in [I -> Nat] /\ CountOf(counts) = Total(w)
    BY <1>6, CountIs
  <2>2. \A i \in I : w[i] = m[tags[i]]
    BY <1>5, <1>6 DEF WorthOf
  <2>3. IsFiniteSet(I)
    BY <1>2, FS_Interval
  <2>4. tags \in Bijection(I, D)
    BY <1>2
  <2> HIDE DEF w, I, D
  <2>5. Total(w) = Total(m)
    BY <1>1, <2>1, <2>2, <2>3, <2>4, TotalSame
  <2> QED
    BY <2>1, <2>5
<1>11. EntriesOf(m, marker, sizes) \in Seq(Entries)
  BY <1>4, <1>7, <1>8
<1> QED
  BY <1>7, <1>8, <1>9, <1>10, <1>11

------------------------------------------------------------------------------
(* The invariant of the counted events. *)

PublisherStates == [pc : {"idle", "publish", "clear", "free"}, map : MapIds \cup {NoMap}, marker : BOOLEAN]

EventsTypeOK ==
  /\ maps = [m \in MapIds |-> maps[m]] /\ \A m \in MapIds : IsCounts(maps[m])
  /\ counters \in MapIds /\ free \in MapIds \cup {NoMap} /\ discarded \in BOOLEAN
  /\ publisher \in [Publishers -> PublisherStates]
  /\ network \in Seq(Seq(Entries))
  /\ handled \in Nat /\ events \in Nat /\ published \in Nat /\ lost \in Nat

\* The map in use, the free one and those of the publishers are different maps.
MapsApart ==
  /\ free # counters
  /\ \A p \in Publishers :
       /\ publisher[p].pc = "idle" <=> publisher[p].map = NoMap
       /\ publisher[p].map # counters
       /\ publisher[p].map # NoMap => publisher[p].map # free
  /\ \A p, q \in Publishers : publisher[p].map = publisher[q].map /\ publisher[p].map # NoMap => p = q

\* A map is empty unless it is in use, about to be published or about to be emptied.
RestEmpty ==
  \A m \in MapIds :
    m \notin Unpublished /\ (\A p \in Publishers : publisher[p].pc = "clear" => publisher[p].map # m) =>
      maps[m] = EmptyMap

LimitOf(m) == IF Discarded \in DOMAIN m THEN CounterLimit + 1 ELSE CounterLimit

WithinLimit == \A m \in MapIds : Cardinality(DOMAIN maps[m]) <= LimitOf(maps[m])

\* A map has the tag for discarded events exactly when the mark that goes with it is set.
Marked ==
  /\ discarded <=> Discarded \in DOMAIN maps[counters]
  /\ \A p \in Publishers : publisher[p].pc = "publish" =>
       (publisher[p].marker <=> Discarded \in DOMAIN maps[publisher[p].map])

Pending == [m \in Unpublished |-> Total(maps[m])]

Accounted ==
  /\ events = published + Total(Pending)
  /\ published = lost + Carried(network) + handled
  /\ PacketsFit(network)

EventsInv == EventsTypeOK /\ MapsApart /\ RestEmpty /\ WithinLimit /\ Marked /\ Accounted

LEMMA UnpublishedIs ==
  ASSUME EventsTypeOK, MapsApart
  PROVE  /\ Unpublished \subseteq MapIds /\ IsFiniteSet(Unpublished)
         /\ Pending \in [Unpublished -> Nat] /\ Total(Pending) \in Nat
<1>1. Unpublished \subseteq MapIds
  BY DEF Unpublished, EventsTypeOK, MapsApart, PublisherStates
<1>2. IsFiniteSet(Unpublished)
  BY <1>1, TelemetryAssumption, FS_Subset
<1>3. Pending \in [Unpublished -> Nat]
  BY <1>1, CountsTotal DEF EventsTypeOK, Pending
<1> QED
  BY <1>1, <1>2, <1>3, UnitsAre

LEMMA EventsPromise == EventsInv => EventsAccounted
<1> SUFFICES ASSUME EventsInv PROVE EventsAccounted
  OBVIOUS
<1>1. \A m \in MapIds : LimitOf(maps[m]) <= CounterLimit + 1 /\ LimitOf(maps[m]) \in Nat
  BY TelemetryAssumption DEF LimitOf
<1>2. \A m \in MapIds : Cardinality(DOMAIN maps[m]) \in Nat
  BY CountsTotal DEF EventsInv, EventsTypeOK
<1>3. \A m \in MapIds : Cardinality(DOMAIN maps[m]) <= LimitOf(maps[m])
  BY DEF EventsInv, WithinLimit
<1>4. CounterLimit + 1 \in Nat
  BY TelemetryAssumption
<1>5. \A m \in MapIds : Cardinality(DOMAIN maps[m]) <= CounterLimit + 1
  BY <1>1, <1>2, <1>3, <1>4
<1>6. events = published + Total([m \in Unpublished |-> Total(maps[m])])
  BY DEF EventsInv, Accounted, Pending
<1>7. published = lost + InFlight + handled
  BY DEF EventsInv, Accounted, InFlight, Carried
<1> QED
  BY <1>5, <1>6, <1>7 DEF EventsInv, Accounted, Marked, PacketsFit, EventsAccounted

LEMMA EventsStart == TelemetryInit => EventsInv
<1> SUFFICES ASSUME TelemetryInit PROVE EventsInv
  OBVIOUS
<1> USE DEF TelemetryInit
<1>1. counters \in MapIds
  BY TelemetryAssumption
<1>2. \A m \in MapIds : maps[m] = EmptyMap
  OBVIOUS
<1>3. EventsTypeOK
  <2>1. publisher \in [Publishers -> PublisherStates]
    BY DEF PublisherStates
  <2>2. maps = [m \in MapIds |-> maps[m]] /\ \A m \in MapIds : IsCounts(maps[m])
    BY <1>2, EmptyIs
  <2>3. network \in Seq(Seq(Entries))
    OBVIOUS
  <2> QED
    BY <1>1, <2>1, <2>2, <2>3 DEF EventsTypeOK
<1>4. MapsApart
  BY <1>1, TelemetryAssumption DEF MapsApart
<1>5. RestEmpty
  BY <1>2 DEF RestEmpty
<1>6. WithinLimit
  BY <1>2, EmptyIs, TelemetryAssumption DEF WithinLimit, LimitOf
<1>7. Marked
  BY <1>1, <1>2, EmptyIs DEF Marked
<1>8. Unpublished = {counters}
  BY DEF Unpublished
<1>9. Total(Pending) = 0
  <2>1. Pending = [m \in {counters} |-> 0]
    BY <1>1, <1>2, <1>8, EmptyIs DEF Pending
  <2>2. Pending \in [{counters} -> Nat] /\ Pending[counters] = 0
    BY <2>1
  <2> QED
    BY <2>2, TotalOne
<1>10. Carried(network) = 0 /\ PacketsFit(network)
  BY TotalEmpty DEF Carried, PacketsFit
<1>11. Accounted
  BY <1>9, <1>10 DEF Accounted
<1> QED
  BY <1>3, <1>4, <1>5, <1>6, <1>7, <1>11 DEF EventsInv

\* A sum of which one value changes.
LEMMA TotalChanged ==
  ASSUME NEW S, IsFiniteSet(S), NEW w \in [S -> Nat], NEW v \in [S -> Nat], NEW x \in S,
         \A y \in S \ {x} : v[y] = w[y]
  PROVE  Total(v) + w[x] = Total(w) + v[x]
<1> DEFINE rest == [y \in S \ {x} |-> w[y]]
<1>1. rest = [y \in S \ {x} |-> v[y]] /\ w[x] \in Nat /\ v[x] \in Nat
  OBVIOUS
<1> HIDE DEF rest
<1>2. Total(v) = v[x] + Total(rest)
  BY <1>1, TotalRemove
<1>3. Total(w) = w[x] + Total(rest) /\ Total(rest) \in Nat
  BY TotalRemove DEF rest
<1> QED
  BY <1>1, <1>2, <1>3

LEMMA IncrementKeeps ==
  ASSUME EventsInv, NEW t \in EventTags, Increment(t)
  PROVE  EventsInv'
<1> DEFINE m == maps[counters]
           full == Cardinality(DOMAIN m) >= CounterLimit /\ t \notin DOMAIN m
           u == IF full THEN Discarded ELSE t
           b == Bump(m, u)
<1>1. EventsTypeOK /\ MapsApart /\ RestEmpty /\ WithinLimit /\ Marked /\ Accounted
  BY DEF EventsInv
<1>2. /\ maps' = [maps EXCEPT ![counters] = b] /\ discarded' = (discarded \/ full) /\ events' = events + 1
      /\ counters' = counters /\ free' = free /\ publisher' = publisher /\ network' = network
      /\ handled' = handled /\ published' = published /\ lost' = lost
  BY DEF Increment
<1>3. counters \in MapIds /\ IsCounts(m) /\ u \in CountedTags /\ full \in BOOLEAN
  BY <1>1 DEF EventsTypeOK, CountedTags
<1>4. IsCounts(b) /\ DOMAIN b = DOMAIN m \cup {u} /\ Total(b) = Total(m) + 1
  BY <1>3, BumpAdds
<1>5. Unpublished' = Unpublished
  BY <1>2 DEF Unpublished
<1>6. u = Discarded <=> full
  BY TelemetryAssumption
<1>7. maps'[counters] = b /\ (\A k \in MapIds \ {counters} : maps'[k] = maps[k]) /\ maps' = [k \in MapIds |-> maps'[k]]
  BY <1>1, <1>2 DEF EventsTypeOK
<1> HIDE DEF m, full, u, b
<1>8. EventsTypeOK'
  <2>1. \A k \in MapIds : IsCounts(maps'[k])
    BY <1>1, <1>4, <1>7 DEF EventsTypeOK
  <2>2. events' \in Nat /\ discarded' \in BOOLEAN
    BY <1>1, <1>2, <1>3 DEF EventsTypeOK
  <2> QED
    BY <1>1, <1>2, <1>7, <2>1, <2>2 DEF EventsTypeOK
<1>9. MapsApart'
  BY <1>1, <1>2 DEF MapsApart
<1>10. RestEmpty'
  <2>1. counters \in Unpublished
    BY DEF Unpublished
  <2> QED
    BY <1>1, <1>2, <1>5, <1>7, <2>1 DEF RestEmpty
<1>11. WithinLimit'
  <2>1. Cardinality(DOMAIN b) <= LimitOf(b)
    <3>1. Cardinality(DOMAIN m) <= LimitOf(m) /\ IsFiniteSet(DOMAIN m) /\ Cardinality(DOMAIN m) \in Nat /\ CounterLimit \in Nat
      BY <1>1, <1>3, CountsTotal, TelemetryAssumption DEF WithinLimit, IsCounts, m
    <3>2. Cardinality(DOMAIN m \cup {u}) = IF u \in DOMAIN m THEN Cardinality(DOMAIN m) ELSE Cardinality(DOMAIN m) + 1
      BY <3>1, FS_AddElement
    <3>3. ~ full => u = t /\ (t \in DOMAIN m \/ ~ (Cardinality(DOMAIN m) >= CounterLimit))
      BY Zenon DEF full, u
    <3>4. CASE u \in DOMAIN m
      <4>1. DOMAIN b = DOMAIN m
        BY <1>4, <3>4
      <4> QED
        BY <3>1, <4>1 DEF LimitOf
    <3>5. CASE u \notin DOMAIN m /\ full
      <4>1. Discarded \in DOMAIN b /\ Discarded \notin DOMAIN m
        BY <1>4, <1>6, <3>5
      <4> QED
        BY <1>4, <3>1, <3>2, <3>5, <4>1 DEF LimitOf
    <3>6. CASE u \notin DOMAIN m /\ ~ full
      <4>1. Cardinality(DOMAIN m) + 1 <= CounterLimit
        BY <3>1, <3>3, <3>6
      <4>2. Cardinality(DOMAIN b) <= CounterLimit /\ Cardinality(DOMAIN b) \in Nat
        BY <1>4, <3>1, <3>2, <3>6, <4>1
      <4> QED
        BY <3>1, <4>2 DEF LimitOf
    <3> QED
      BY <3>4, <3>5, <3>6
  <2> QED
    BY <1>1, <1>7, <2>1 DEF WithinLimit
<1>12. Marked'
  <2>1. discarded' <=> Discarded \in DOMAIN maps'[counters']
    <3>1. discarded <=> Discarded \in DOMAIN m
      BY <1>1 DEF Marked, m
    <3>2. maps'[counters'] = b
      BY <1>2, <1>7
    <3> QED
      BY <1>2, <1>4, <1>6, <3>1, <3>2, ZenonT(30)
  <2>2. ASSUME NEW p \in Publishers, publisher[p].pc = "publish" PROVE maps'[publisher[p].map] = maps[publisher[p].map]
    <3>1. publisher[p].map \in MapIds /\ publisher[p].map # counters
      BY <1>1, <2>2 DEF MapsApart, EventsTypeOK, PublisherStates
    <3> QED
      BY <1>7, <3>1
  <2> QED
    BY <1>1, <1>2, <2>1, <2>2 DEF Marked
<1>13. Accounted'
  <2> DEFINE w == Pending
             v == Pending'
             S == Unpublished
  <2>1. S \subseteq MapIds /\ IsFiniteSet(S) /\ w \in [S -> Nat] /\ Total(w) \in Nat /\ counters \in S
    BY <1>1, UnpublishedIs DEF Unpublished
  <2>2. v = [k \in S |-> Total(maps'[k])] /\ w = [k \in S |-> Total(maps[k])]
    BY <1>5 DEF Pending
  <2>3. Total(m) \in Nat /\ v[counters] = w[counters] + 1 /\ w[counters] \in Nat
    BY <1>3, <1>4, <1>7, <2>1, <2>2, CountsTotal DEF m
  <2>4. \A y \in S \ {counters} : v[y] = w[y]
    BY <1>7, <2>1, <2>2
  <2>5. v \in [S -> Nat]
    BY <2>1, <2>2, <2>3, <2>4
  <2> HIDE DEF w, v, S
  <2>6. Total(v) + w[counters] = Total(w) + v[counters]
    BY <2>1, <2>4, <2>5, TotalChanged
  <2>7. Total(v) \in Nat
    BY <2>1, <2>5, UnitsAre
  <2>8. Total(v) = Total(w) + 1
    BY <2>1, <2>3, <2>6, <2>7
  <2>9. events' = published' + Total(Pending')
    BY <1>1, <1>2, <2>1, <2>8 DEF w, v, Accounted, EventsTypeOK
  <2> QED
    BY <1>1, <1>2, <2>9 DEF Accounted
<1> QED
  BY <1>8, <1>9, <1>10, <1>11, <1>12, <1>13 DEF EventsInv

\* A map that is not in use, free or with a publisher is empty.
LEMMA OthersEmpty ==
  ASSUME EventsInv, NEW k \in MapIds, k # counters, \A p \in Publishers : publisher[p].map # k
  PROVE  k \notin Unpublished /\ maps[k] = EmptyMap
<1>1. k \notin Unpublished
  BY DEF Unpublished
<1> QED
  BY <1>1 DEF EventsInv, RestEmpty

LEMMA TakeMapKeeps ==
  ASSUME EventsInv, NEW p \in Publishers, TakeMap(p)
  PROVE  EventsInv'
<1>1. EventsTypeOK /\ MapsApart /\ RestEmpty /\ WithinLimit /\ Marked /\ Accounted
  BY DEF EventsInv
<1> DEFINE new == [pc |-> "publish", map |-> counters, marker |-> discarded]
           m == counters'
<1>2. /\ publisher[p].pc = "idle"
      /\ m \in IF free = NoMap THEN MapIds \ InUse ELSE {free}
      /\ free' = NoMap /\ publisher' = [publisher EXCEPT ![p] = new]
      /\ discarded' = FALSE /\ maps' = maps /\ network' = network /\ handled' = handled
      /\ events' = events /\ published' = published /\ lost' = lost
  BY DEF TakeMap
<1>3. publisher \in [Publishers -> PublisherStates] /\ counters \in MapIds /\ discarded \in BOOLEAN
  BY <1>1 DEF EventsTypeOK
<1>4. m \in MapIds /\ m # counters /\ m # NoMap /\ \A q \in Publishers : publisher[q].map # m
  <2>1. CASE free = NoMap
    BY <1>2, <2>1, TelemetryAssumption DEF InUse
  <2>2. CASE free # NoMap
    <3>1. m = free /\ free \in MapIds /\ free # counters
      BY <1>1, <1>2, <2>2 DEF EventsTypeOK, MapsApart
    <3> QED
      BY <1>1, <2>2, <3>1 DEF MapsApart
  <2> QED
    BY <2>1, <2>2
<1>5. m \notin Unpublished /\ maps[m] = EmptyMap
  BY <1>4, OthersEmpty
<1>6. publisher'[p] = new /\ (\A q \in Publishers : q # p => publisher'[q] = publisher[q])
      /\ new.pc = "publish" /\ new.map = counters /\ new.marker = discarded
  BY <1>2, <1>3
<1>7. new \in PublisherStates /\ publisher' \in [Publishers -> PublisherStates]
  BY <1>2, <1>3 DEF PublisherStates
<1> HIDE DEF new, m
<1>8. EventsTypeOK'
  <2>1. counters' \in MapIds /\ discarded' \in BOOLEAN /\ free' \in MapIds \cup {NoMap}
    BY <1>2, <1>4 DEF m
  <2> QED
    BY <1>1, <1>2, <1>7, <2>1 DEF EventsTypeOK
<1>9. counters # NoMap
  BY <1>3, TelemetryAssumption
<1>10. MapsApart'
  <2>1. free' # counters'
    BY <1>2, <1>4 DEF m
  <2>2. ASSUME NEW q \in Publishers
        PROVE  /\ publisher'[q].pc = "idle" <=> publisher'[q].map = NoMap
               /\ publisher'[q].map # m
    BY <1>1, <1>4, <1>6, <1>9 DEF MapsApart
  <2>3. ASSUME NEW q \in Publishers, NEW r \in Publishers, publisher'[q].map = publisher'[r].map, publisher'[q].map # NoMap
        PROVE  q = r
    BY <1>1, <1>6, <2>3 DEF MapsApart
  <2> QED
    BY <1>2, <2>1, <2>2, <2>3 DEF MapsApart, m
<1>11. Unpublished' = Unpublished \cup {m}
  <2>1. \A k : k \in Unpublished' <=> k = m \/ \E q \in Publishers : publisher'[q].pc = "publish" /\ k = publisher'[q].map
    BY DEF Unpublished, m
  <2>2. \A k : k \in Unpublished <=> k = counters \/ \E q \in Publishers : publisher[q].pc = "publish" /\ k = publisher[q].map
    BY DEF Unpublished
  <2>3. ASSUME NEW k \in Unpublished' PROVE k \in Unpublished \cup {m}
    BY <1>6, <2>1, <2>2
  <2>4. ASSUME NEW k \in Unpublished PROVE k \in Unpublished'
    BY <1>2, <1>6, <2>1, <2>2
  <2>5. m \in Unpublished'
    BY <2>1
  <2> QED
    BY <2>3, <2>4, <2>5
<1>12. RestEmpty'
  <2> SUFFICES ASSUME NEW k \in MapIds, k \notin Unpublished', \A q \in Publishers : publisher'[q].pc = "clear" => publisher'[q].map # k
               PROVE  maps[k] = EmptyMap
    BY <1>2 DEF RestEmpty
  <2>1. k \notin Unpublished
    BY <1>11
  <2>2. \A q \in Publishers : publisher[q].pc = "clear" => publisher[q].map # k
    BY <1>2, <1>6
  <2> QED
    BY <1>1, <2>1, <2>2 DEF RestEmpty
<1>13. WithinLimit'
  BY <1>1, <1>2 DEF WithinLimit
<1>14. Marked'
  <2>1. ~ (Discarded \in DOMAIN maps[m])
    BY <1>5, EmptyIs
  <2>2. ASSUME NEW q \in Publishers, publisher'[q].pc = "publish"
        PROVE  publisher'[q].marker <=> Discarded \in DOMAIN maps[publisher'[q].map]
    <3>1. CASE q = p
      BY <1>1, <1>6, <3>1 DEF Marked
    <3>2. CASE q # p
      BY <1>1, <1>6, <2>2, <3>2 DEF Marked
    <3> QED
      BY <3>1, <3>2
  <2> QED
    BY <1>2, <2>1, <2>2 DEF Marked, m
<1>15. Accounted'
  <2> DEFINE w == Pending
             v == Pending'
             S == Unpublished
             T == Unpublished'
  <2>1. S \subseteq MapIds /\ IsFiniteSet(S) /\ w \in [S -> Nat] /\ Total(w) \in Nat
    BY <1>1, UnpublishedIs
  <2>2. v = [k \in T |-> Total(maps[k])] /\ w = [k \in S |-> Total(maps[k])]
    BY <1>2 DEF Pending
  <2>3. m \in T /\ T \ {m} = S /\ v[m] = 0
    BY <1>5, <1>11, <2>2, EmptyIs
  <2>4. IsFiniteSet(T) /\ v \in [T -> Nat]
    <3>1. \A k \in T : Total(maps[k]) \in Nat
      BY <1>1, <1>4, <1>11, <2>1, CountsTotal DEF EventsTypeOK
    <3> QED
      BY <1>11, <2>1, <2>2, <3>1, FS_AddElement
  <2>5. w = [k \in T \ {m} |-> v[k]]
    BY <2>2, <2>3
  <2> HIDE DEF w, v, S, T
  <2>6. Total(v) = v[m] + Total(w)
    BY <2>3, <2>4, <2>5, TotalRemove
  <2>7. Total(Pending') = Total(Pending)
    BY <2>1, <2>3, <2>6 DEF w, v
  <2> QED
    BY <1>1, <1>2, <2>7 DEF Accounted
<1> QED
  BY <1>8, <1>10, <1>12, <1>13, <1>14, <1>15 DEF EventsInv

\* Packets that fit, one sequence after the other.
LEMMA PacketsJoined ==
  ASSUME NEW ps \in Seq(Seq(Entries)), PacketsFit(ps), NEW qs \in Seq(Seq(Entries)), PacketsFit(qs)
  PROVE  PacketsFit(ps \o qs) /\ ps \o qs \in Seq(Seq(Entries))
<1> DEFINE t == ps \o qs
<1>1. t \in Seq(Seq(Entries)) /\ DOMAIN t = 1 .. Len(ps) + Len(qs)
  OBVIOUS
<1>2. \A i \in 1 .. Len(ps) : t[i] = ps[i] /\ i \in DOMAIN ps
  OBVIOUS
<1>3. \A i \in DOMAIN t : i \notin 1 .. Len(ps) => t[i] = qs[i - Len(ps)] /\ i - Len(ps) \in DOMAIN qs
  OBVIOUS
<1> HIDE DEF t
<1>4. ASSUME NEW i \in DOMAIN t PROVE Fits(t[i]) \/ Len(t[i]) = 1
  <2>1. CASE i \in 1 .. Len(ps)
    <3>1. Fits(ps[i]) \/ Len(ps[i]) = 1
      BY <1>2, <2>1 DEF PacketsFit
    <3> QED
      BY <1>2, <2>1, <3>1
  <2>2. CASE i \notin 1 .. Len(ps)
    <3> DEFINE j == i - Len(ps)
    <3>1. t[i] = qs[j] /\ j \in DOMAIN qs
      BY <1>3, <2>2
    <3> HIDE DEF j
    <3>2. Fits(qs[j]) \/ Len(qs[j]) = 1
      BY <3>1 DEF PacketsFit
    <3> QED
      BY <3>1, <3>2
  <2> QED
    BY <2>1, <2>2
<1> QED
  BY <1>1, <1>4 DEF PacketsFit, t

LEMMA PacketsRest ==
  ASSUME NEW ps \in Seq(Seq(Entries)), PacketsFit(ps), ps # <<>>
  PROVE  PacketsFit(Tail(ps))
<1> DEFINE t == Tail(ps)
<1>1. \A i \in DOMAIN t : t[i] = ps[i + 1] /\ i + 1 \in DOMAIN ps
  OBVIOUS
<1> HIDE DEF t
<1>2. ASSUME NEW i \in DOMAIN t PROVE Fits(t[i]) \/ Len(t[i]) = 1
  <2> DEFINE j == i + 1
  <2>1. t[i] = ps[j] /\ j \in DOMAIN ps
    BY <1>1
  <2> HIDE DEF j
  <2>2. Fits(ps[j]) \/ Len(ps[j]) = 1
    BY <2>1 DEF PacketsFit
  <2> QED
    BY <2>1, <2>2
<1> QED
  BY <1>2 DEF PacketsFit, t

LEMMA PublishMapKeeps ==
  ASSUME EventsInv, NEW p \in Publishers, PublishMap(p)
  PROVE  EventsInv'
<1>1. EventsTypeOK /\ MapsApart /\ RestEmpty /\ WithinLimit /\ Marked /\ Accounted
  BY DEF EventsInv
<1> DEFINE k == publisher[p].map
<1>2. /\ publisher[p].pc = "publish" /\ publisher' = [publisher EXCEPT ![p].pc = "clear"]
      /\ maps' = maps /\ counters' = counters /\ free' = free /\ discarded' = discarded
      /\ handled' = handled /\ events' = events
  BY DEF PublishMap
<1>3. PICK entries :
        /\ entries \in Seq(Entries) /\ CountOf(entries) = Total(maps[k])
        /\ network' = network \o Send(entries).packets
        /\ published' = published + CountOf(entries)
        /\ lost' = lost + CountOf(Send(entries).skipped)
  <2>1. PICK sizes \in EntrySizes \X EntrySizes :
          LET entries == EntriesOf(maps[k], publisher[p].marker, sizes)
          IN  /\ network' = network \o Send(entries).packets
              /\ published' = published + CountOf(entries)
              /\ lost' = lost + CountOf(Send(entries).skipped)
    BY DEF PublishMap
  <2>2. IsCounts(maps[k])
    BY <1>1, <1>2 DEF EventsTypeOK, MapsApart, PublisherStates
  <2> DEFINE entries == EntriesOf(maps[k], publisher[p].marker, sizes)
  <2>3. entries \in Seq(Entries) /\ CountOf(entries) = Total(maps[k])
    BY <2>2, EntriesCount
  <2> HIDE DEF k
  <2> QED
    BY <2>1, <2>3
<1>4. publisher \in [Publishers -> PublisherStates]
  BY <1>1 DEF EventsTypeOK
<1>5. /\ publisher'[p].pc = "clear" /\ publisher'[p].map = k
      /\ \A q \in Publishers : q # p => publisher'[q] = publisher[q]
      /\ publisher' \in [Publishers -> PublisherStates]
  BY <1>2, <1>4 DEF PublisherStates
<1>6. k \in MapIds /\ k # counters /\ k # NoMap /\ k # free /\ IsCounts(maps[k])
  BY <1>1, <1>2 DEF EventsTypeOK, MapsApart, PublisherStates
<1>7. \A q \in Publishers : q # p => publisher[q].map # k
  BY <1>1, <1>6 DEF MapsApart
<1> HIDE DEF k
<1> DEFINE ps == Send(entries).packets
           sk == Send(entries).skipped
<1>8. /\ ps \in Seq(Seq(Entries)) /\ PacketsFit(ps) /\ CountOf(sk) \in Nat /\ Carried(ps) \in Nat
      /\ CountOf(entries) = Carried(ps) + CountOf(sk)
  BY <1>3, SendConserves, CountIs, CarriedIs
<1>9. network' = network \o ps /\ lost' = lost + CountOf(sk) /\ published' = published + Total(maps[k]) /\ CountOf(entries) = Total(maps[k])
  BY <1>3
<1> HIDE DEF ps, sk
<1>10. network \in Seq(Seq(Entries)) /\ PacketsFit(network) /\ Carried(network) \in Nat
  BY <1>1, CarriedIs DEF EventsTypeOK, Accounted
<1>11. PacketsFit(network') /\ network' \in Seq(Seq(Entries)) /\ Carried(network') = Carried(network) + Carried(ps)
  BY <1>8, <1>9, <1>10, PacketsJoined, CarriedJoined
<1>12. Total(maps[k]) \in Nat
  BY <1>6, CountsTotal
<1>13. EventsTypeOK'
  <2>1. published' \in Nat /\ lost' \in Nat
    BY <1>1, <1>8, <1>9, <1>12 DEF EventsTypeOK
  <2> QED
    BY <1>1, <1>2, <1>5, <1>11, <2>1 DEF EventsTypeOK
<1>14. MapsApart'
  <2>1. \A q \in Publishers : publisher'[q].map = publisher[q].map
    BY <1>5 DEF k
  <2>2. \A q \in Publishers : publisher'[q].pc = "idle" <=> publisher[q].pc = "idle"
    BY <1>2, <1>5
  <2> QED
    BY <1>1, <1>2, <2>1, <2>2 DEF MapsApart
<1>15. Unpublished' = Unpublished \ {k} /\ k \in Unpublished
  <2>1. \A j : j \in Unpublished' <=> j = counters \/ \E q \in Publishers : publisher'[q].pc = "publish" /\ j = publisher'[q].map
    BY <1>2 DEF Unpublished
  <2>2. \A j : j \in Unpublished <=> j = counters \/ \E q \in Publishers : publisher[q].pc = "publish" /\ j = publisher[q].map
    BY DEF Unpublished
  <2>3. ASSUME NEW j \in Unpublished' PROVE j \in Unpublished \ {k}
    BY <1>5, <1>6, <1>7, <2>1, <2>2
  <2>4. ASSUME NEW j \in Unpublished, j # k PROVE j \in Unpublished'
    BY <1>5, <2>1, <2>2, <2>4 DEF k
  <2>5. k \in Unpublished
    BY <1>2, <2>2 DEF k
  <2> QED
    BY <2>3, <2>4, <2>5
<1>16. RestEmpty'
  <2> SUFFICES ASSUME NEW j \in MapIds, j \notin Unpublished', \A q \in Publishers : publisher'[q].pc = "clear" => publisher'[q].map # j
               PROVE  maps[j] = EmptyMap
    BY <1>2 DEF RestEmpty
  <2>1. j \notin Unpublished
    BY <1>5, <1>15
  <2>2. \A q \in Publishers : publisher[q].pc = "clear" => publisher[q].map # j
    BY <1>2, <1>5
  <2> QED
    BY <1>1, <2>1, <2>2 DEF RestEmpty
<1>17. WithinLimit'
  BY <1>1, <1>2 DEF WithinLimit
<1>18. Marked'
  <2>1. \A q \in Publishers : publisher'[q].pc = "publish" => q # p /\ publisher'[q] = publisher[q]
    BY <1>5
  <2> QED
    BY <1>1, <1>2, <2>1 DEF Marked
<1>19. Accounted'
  <2> DEFINE w == Pending
             v == Pending'
             S == Unpublished
             T == Unpublished'
  <2>1. S \subseteq MapIds /\ IsFiniteSet(S) /\ w \in [S -> Nat] /\ Total(w) \in Nat
    BY <1>1, UnpublishedIs
  <2>2. v = [j \in T |-> Total(maps[j])] /\ w = [j \in S |-> Total(maps[j])]
    BY <1>2 DEF Pending
  <2>3. k \in S /\ T = S \ {k} /\ w[k] = Total(maps[k])
    BY <1>15, <2>2
  <2>4. v = [j \in S \ {k} |-> w[j]]
    BY <2>2, <2>3
  <2> HIDE DEF w, v, S, T
  <2>5. Total(w) = w[k] + Total(v) /\ Total(v) \in Nat
    <3>1. IsFiniteSet(S) /\ w \in [S -> Nat] /\ k \in S
      BY <2>1, <2>3
    <3> QED
      BY <2>4, <3>1, TotalRemove
  <2>6. events = published + Total(w) /\ published = lost + Carried(network) + handled
    BY <1>1 DEF Accounted, w
  <2>7. events \in Nat /\ published \in Nat /\ lost \in Nat /\ handled \in Nat
    BY <1>1 DEF EventsTypeOK
  <2>8. events' = published' + Total(v)
    BY <1>2, <1>9, <1>12, <2>3, <2>5, <2>6, <2>7
  <2>9. published' = lost' + Carried(network') + handled'
    BY <1>2, <1>8, <1>9, <1>10, <1>11, <1>12, <2>6, <2>7
  <2> QED
    BY <1>11, <2>8, <2>9 DEF Accounted, v
<1> QED
  BY <1>13, <1>14, <1>16, <1>17, <1>18, <1>19 DEF EventsInv

LEMMA ClearMapKeeps ==
  ASSUME EventsInv, NEW p \in Publishers, ClearMap(p)
  PROVE  EventsInv'
<1>1. EventsTypeOK /\ MapsApart /\ RestEmpty /\ WithinLimit /\ Marked /\ Accounted
  BY DEF EventsInv
<1> DEFINE k == publisher[p].map
<1>2. /\ publisher[p].pc = "clear" /\ publisher' = [publisher EXCEPT ![p].pc = "free"]
      /\ maps' = [maps EXCEPT ![k] = EmptyMap] /\ counters' = counters /\ free' = free /\ discarded' = discarded
      /\ network' = network /\ handled' = handled /\ events' = events /\ published' = published /\ lost' = lost
  BY DEF ClearMap
<1>3. publisher \in [Publishers -> PublisherStates]
  BY <1>1 DEF EventsTypeOK
<1>4. /\ publisher'[p].pc = "free" /\ publisher'[p].map = k
      /\ \A q \in Publishers : q # p => publisher'[q] = publisher[q]
      /\ publisher' \in [Publishers -> PublisherStates]
  BY <1>2, <1>3 DEF PublisherStates
<1>5. k \in MapIds /\ k # counters /\ k # NoMap
  BY <1>1, <1>2 DEF EventsTypeOK, MapsApart, PublisherStates
<1>6. \A q \in Publishers : q # p => publisher[q].map # k
  BY <1>1, <1>5 DEF MapsApart
<1>7. maps'[k] = EmptyMap /\ (\A j \in MapIds \ {k} : maps'[j] = maps[j]) /\ maps' = [j \in MapIds |-> maps'[j]]
  BY <1>1, <1>2, <1>5 DEF EventsTypeOK
<1> HIDE DEF k
<1>8. EventsTypeOK'
  <2>1. \A j \in MapIds : IsCounts(maps'[j])
    BY <1>1, <1>7, EmptyIs DEF EventsTypeOK
  <2> QED
    BY <1>1, <1>2, <1>4, <1>7, <2>1 DEF EventsTypeOK
<1>9. MapsApart'
  <2>1. \A q \in Publishers : publisher'[q].map = publisher[q].map
    BY <1>4 DEF k
  <2>2. \A q \in Publishers : publisher'[q].pc = "idle" <=> publisher[q].pc = "idle"
    BY <1>2, <1>4
  <2> QED
    BY <1>1, <1>2, <2>1, <2>2 DEF MapsApart
<1>10. Unpublished' = Unpublished /\ k \notin Unpublished
  <2>1. \A j : j \in Unpublished' <=> j = counters \/ \E q \in Publishers : publisher'[q].pc = "publish" /\ j = publisher'[q].map
    BY <1>2 DEF Unpublished
  <2>2. \A j : j \in Unpublished <=> j = counters \/ \E q \in Publishers : publisher[q].pc = "publish" /\ j = publisher[q].map
    BY DEF Unpublished
  <2>3. ASSUME NEW j \in Unpublished' PROVE j \in Unpublished
    BY <1>4, <2>1, <2>2
  <2>4. ASSUME NEW j \in Unpublished PROVE j \in Unpublished'
    BY <1>2, <1>4, <2>1, <2>2
  <2>5. k \notin Unpublished
    BY <1>2, <1>5, <1>6, <2>2
  <2> QED
    BY <2>3, <2>4, <2>5
<1>11. RestEmpty'
  <2> SUFFICES ASSUME NEW j \in MapIds, j \notin Unpublished', \A q \in Publishers : publisher'[q].pc = "clear" => publisher'[q].map # j
               PROVE  maps'[j] = EmptyMap
    BY DEF RestEmpty
  <2>1. CASE j = k
    BY <1>7, <2>1
  <2>2. CASE j # k
    <3>1. j \notin Unpublished
      BY <1>10
    <3>2. \A q \in Publishers : publisher[q].pc = "clear" => publisher[q].map # j
      BY <1>4, <2>2 DEF k
    <3> QED
      BY <1>1, <1>7, <2>2, <3>1, <3>2 DEF RestEmpty
  <2> QED
    BY <2>1, <2>2
<1>12. WithinLimit'
  <2>1. Cardinality(DOMAIN EmptyMap) <= LimitOf(EmptyMap)
    BY EmptyIs, TelemetryAssumption DEF LimitOf
  <2> QED
    BY <1>1, <1>7, <2>1 DEF WithinLimit
<1>13. \A j \in Unpublished : maps'[j] = maps[j]
  BY <1>1, <1>7, <1>10, UnpublishedIs
<1>14. Marked'
  <2>1. maps'[counters'] = maps[counters]
    <3>1. counters \in Unpublished
      BY DEF Unpublished
    <3> QED
      BY <1>2, <1>13, <3>1
  <2>2. ASSUME NEW q \in Publishers, publisher'[q].pc = "publish"
        PROVE  publisher'[q] = publisher[q] /\ maps'[publisher[q].map] = maps[publisher[q].map]
    <3>1. q # p /\ publisher'[q] = publisher[q]
      BY <1>4, <2>2
    <3>2. publisher[q].map \in Unpublished
      BY <2>2, <3>1 DEF Unpublished
    <3> QED
      BY <1>13, <3>1, <3>2
  <2> QED
    BY <1>1, <1>2, <2>1, <2>2 DEF Marked
<1>15. Pending' = Pending
  BY <1>10, <1>13 DEF Pending
<1>16. Accounted'
  BY <1>1, <1>2, <1>15 DEF Accounted
<1> QED
  BY <1>8, <1>9, <1>11, <1>12, <1>14, <1>16 DEF EventsInv

LEMMA FreeMapKeeps ==
  ASSUME EventsInv, NEW p \in Publishers, FreeMap(p)
  PROVE  EventsInv'
<1>1. EventsTypeOK /\ MapsApart /\ RestEmpty /\ WithinLimit /\ Marked /\ Accounted
  BY DEF EventsInv
<1> DEFINE k == publisher[p].map
           idle == [pc |-> "idle", map |-> NoMap, marker |-> FALSE]
<1>2. /\ publisher[p].pc = "free" /\ publisher' = [publisher EXCEPT ![p] = idle]
      /\ free' = k /\ maps' = maps /\ counters' = counters /\ discarded' = discarded
      /\ network' = network /\ handled' = handled /\ events' = events /\ published' = published /\ lost' = lost
  BY DEF FreeMap
<1>3. publisher \in [Publishers -> PublisherStates] /\ idle \in PublisherStates
  BY <1>1 DEF EventsTypeOK, PublisherStates
<1>4. /\ publisher'[p].pc = "idle" /\ publisher'[p].map = NoMap
      /\ \A q \in Publishers : q # p => publisher'[q] = publisher[q]
      /\ publisher' \in [Publishers -> PublisherStates]
  BY <1>2, <1>3
<1>5. k \in MapIds /\ k # counters /\ k # NoMap
  BY <1>1, <1>2 DEF EventsTypeOK, MapsApart, PublisherStates
<1>6. \A q \in Publishers : q # p => publisher[q].map # k
  BY <1>1, <1>5 DEF MapsApart
<1> HIDE DEF k, idle
<1>7. EventsTypeOK'
  BY <1>1, <1>2, <1>4, <1>5 DEF EventsTypeOK
<1>8. MapsApart'
  <2>1. ASSUME NEW q \in Publishers
        PROVE  /\ publisher'[q].pc = "idle" <=> publisher'[q].map = NoMap
               /\ publisher'[q].map # counters
               /\ publisher'[q].map # NoMap => publisher'[q].map # k
    <3>1. CASE q = p
      BY <1>1, <1>4, <3>1, TelemetryAssumption DEF EventsTypeOK
    <3>2. CASE q # p
      BY <1>1, <1>4, <1>6, <3>2 DEF MapsApart
    <3> QED
      BY <3>1, <3>2
  <2>2. ASSUME NEW q \in Publishers, NEW r \in Publishers, publisher'[q].map = publisher'[r].map, publisher'[q].map # NoMap
        PROVE  q = r
    <3>1. q # p /\ r # p
      BY <1>4, <2>2
    <3> QED
      BY <1>1, <1>4, <2>2, <3>1 DEF MapsApart
  <2> QED
    BY <1>2, <1>5, <2>1, <2>2 DEF MapsApart
<1>9. Unpublished' = Unpublished
  <2>1. \A j : j \in Unpublished' <=> j = counters \/ \E q \in Publishers : publisher'[q].pc = "publish" /\ j = publisher'[q].map
    BY <1>2 DEF Unpublished
  <2>2. \A j : j \in Unpublished <=> j = counters \/ \E q \in Publishers : publisher[q].pc = "publish" /\ j = publisher[q].map
    BY DEF Unpublished
  <2>3. ASSUME NEW j \in Unpublished' PROVE j \in Unpublished
    BY <1>4, <2>1, <2>2
  <2>4. ASSUME NEW j \in Unpublished PROVE j \in Unpublished'
    BY <1>2, <1>4, <2>1, <2>2
  <2> QED
    BY <2>3, <2>4
<1>10. RestEmpty'
  <2> SUFFICES ASSUME NEW j \in MapIds, j \notin Unpublished', \A q \in Publishers : publisher'[q].pc = "clear" => publisher'[q].map # j
               PROVE  maps[j] = EmptyMap
    BY <1>2 DEF RestEmpty
  <2>1. j \notin Unpublished
    BY <1>9
  <2>2. \A q \in Publishers : publisher[q].pc = "clear" => publisher[q].map # j
    BY <1>2, <1>4
  <2> QED
    BY <1>1, <2>1, <2>2 DEF RestEmpty
<1>11. WithinLimit'
  BY <1>1, <1>2 DEF WithinLimit
<1>12. Marked'
  <2>1. \A q \in Publishers : publisher'[q].pc = "publish" => publisher'[q] = publisher[q]
    BY <1>4
  <2> QED
    BY <1>1, <1>2, <2>1 DEF Marked
<1>13. Pending' = Pending
  BY <1>2, <1>9 DEF Pending
<1>14. Accounted'
  BY <1>1, <1>2, <1>13 DEF Accounted
<1> QED
  BY <1>7, <1>8, <1>10, <1>11, <1>12, <1>14 DEF EventsInv

\* A packet leaves the network, and what it carried goes one way or the other.
LEMMA PacketLeaves ==
  ASSUME EventsInv, LosePacket \/ Handle
  PROVE  EventsInv'
<1>1. EventsTypeOK /\ MapsApart /\ RestEmpty /\ WithinLimit /\ Marked /\ Accounted
  BY DEF EventsInv
<1>2. /\ network # <<>> /\ network' = Tail(network)
      /\ \/ lost' = lost + CountOf(Head(network)) /\ handled' = handled
         \/ lost' = lost /\ handled' = handled + CountOf(Head(network))
      /\ maps' = maps /\ counters' = counters /\ free' = free /\ discarded' = discarded /\ publisher' = publisher
      /\ events' = events /\ published' = published
  BY DEF LosePacket, Handle
<1>3. network \in Seq(Seq(Entries)) /\ PacketsFit(network)
  BY <1>1 DEF EventsTypeOK, Accounted
<1>4. /\ Carried(network) = CountOf(Head(network)) + Carried(network')
      /\ network' \in Seq(Seq(Entries)) /\ Head(network) \in Seq(Entries)
  BY <1>2, <1>3, CarriedTail
<1>5. CountOf(Head(network)) \in Nat /\ Carried(network') \in Nat
  BY <1>4, CountIs, CarriedIs
<1>6. PacketsFit(network')
  BY <1>2, <1>3, PacketsRest
<1>7. lost \in Nat /\ handled \in Nat
  BY <1>1 DEF EventsTypeOK
<1>8. EventsTypeOK'
  <2>1. lost' \in Nat /\ handled' \in Nat
    BY <1>2, <1>5, <1>7
  <2> QED
    BY <1>1, <1>2, <1>4, <2>1 DEF EventsTypeOK
<1>9. Unpublished' = Unpublished
  BY <1>2 DEF Unpublished
<1>10. MapsApart' /\ WithinLimit' /\ Marked'
  BY <1>1, <1>2 DEF MapsApart, WithinLimit, Marked
<1>11. RestEmpty'
  BY <1>1, <1>2, <1>9 DEF RestEmpty
<1>12. Accounted'
  <2>1. Pending' = Pending
    BY <1>2, <1>9 DEF Pending
  <2>2. published = lost + Carried(network) + handled
    BY <1>1 DEF Accounted
  <2>3. published' = lost' + Carried(network') + handled'
    BY <1>2, <1>4, <1>5, <1>7, <2>2
  <2> QED
    BY <1>1, <1>2, <1>6, <2>1, <2>3 DEF Accounted
<1> QED
  BY <1>8, <1>10, <1>11, <1>12 DEF EventsInv

LEMMA EventsStep == EventsInv /\ [TelemetryNext]_telemetryVars => EventsInv'
<1> SUFFICES ASSUME EventsInv, [TelemetryNext]_telemetryVars PROVE EventsInv'
  OBVIOUS
<1>1. CASE UNCHANGED telemetryVars
  <2>1. /\ maps' = maps /\ counters' = counters /\ free' = free /\ discarded' = discarded /\ publisher' = publisher
        /\ network' = network /\ handled' = handled /\ events' = events /\ published' = published /\ lost' = lost
    BY <1>1 DEF telemetryVars
  <2>2. Unpublished' = Unpublished
    BY <2>1 DEF Unpublished
  <2>3. Pending' = Pending
    BY <2>1, <2>2 DEF Pending
  <2>4. EventsTypeOK' /\ MapsApart'
    BY <2>1 DEF EventsInv, EventsTypeOK, MapsApart
  <2>5. RestEmpty' /\ WithinLimit' /\ Marked' /\ Accounted'
    BY <2>1, <2>2, <2>3 DEF EventsInv, RestEmpty, WithinLimit, Marked, Accounted
  <2> QED
    BY <2>4, <2>5 DEF EventsInv
<1>2. ASSUME NEW t \in EventTags, Increment(t) PROVE EventsInv'
  BY <1>2, IncrementKeeps
<1>3. ASSUME NEW p \in Publishers, TakeMap(p) PROVE EventsInv'
  BY <1>3, TakeMapKeeps
<1>4. ASSUME NEW p \in Publishers, PublishMap(p) PROVE EventsInv'
  BY <1>4, PublishMapKeeps
<1>5. ASSUME NEW p \in Publishers, ClearMap(p) PROVE EventsInv'
  BY <1>5, ClearMapKeeps
<1>6. ASSUME NEW p \in Publishers, FreeMap(p) PROVE EventsInv'
  BY <1>6, FreeMapKeeps
<1>7. CASE LosePacket \/ Handle
  BY <1>7, PacketLeaves
<1> QED
  BY <1>1, <1>2, <1>3, <1>4, <1>5, <1>6, <1>7 DEF TelemetryNext

\* No counted event is lost or counted twice between a counter's map and the server,
\* however many publishers exchange and empty maps meanwhile (counter.go:24-79,
\* udp.go:62-131).
THEOREM EventsAreAccounted == TelemetrySpec => []EventsAccounted
<1>1. TelemetryInit => EventsInv
  BY EventsStart
<1>2. EventsInv /\ [TelemetryNext]_telemetryVars => EventsInv'
  BY EventsStep
<1>3. EventsInv => EventsAccounted
  BY EventsPromise
<1> QED
  BY <1>1, <1>2, <1>3, PTL DEF TelemetrySpec
==============================================================================
