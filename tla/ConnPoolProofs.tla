---------------------------- MODULE ConnPoolProofs ----------------------------
(***************************************************************************)
(* Machine-checked proofs about the connection pool over its cache: for any        *)
(* number of goroutines, keys and connections and any limits, the pool never       *)
(* closes a connection in use, forgets none, keeps its two indexes in step within  *)
(* the limits, and implements ConnOwner.                                           *)
(***************************************************************************)
EXTENDS ConnPool, SeqLemmas

------------------------------------------------------------------------------
(* Slices. *)

\* filterEntry on a slice without duplicates takes out the entry and nothing else.
LEMMA FilterEntryRemoves ==
  ASSUME NEW s \in Seq(Conns), IsInjective(s), NEW c
  PROVE  /\ FilterEntry(s, c) \in Seq(Conns)
         /\ IsInjective(FilterEntry(s, c))
         /\ ToSet(FilterEntry(s, c)) = ToSet(s) \ {c}
         /\ Len(FilterEntry(s, c)) = IF c \in ToSet(s) THEN Len(s) - 1 ELSE Len(s)
BY RemoveFirstRemoves DEF FilterEntry

------------------------------------------------------------------------------
(* The two indexes of the cache. *)

Caches == [entries : [Keys -> Seq(Conns)], order : Seq(Conns)]

\* No index names a connection twice, a key's slice holds connections dialed for that
\* key, and the LRU list holds what the slices hold.
CacheOK(ch) ==
  /\ ch \in Caches
  /\ IsInjective(ch.order)
  /\ \A c \in ToSet(ch.order) : keyOf[c] \in Keys
  /\ \A k \in Keys : /\ IsInjective(ch.entries[k])
                     /\ ToSet(ch.entries[k]) \subseteq ToSet(ch.order)
                     /\ \A c \in ToSet(ch.entries[k]) : keyOf[c] = k

\* The LRU list holds nothing else.
Matched(ch) == \A c \in ToSet(ch.order) : c \in ToSet(ch.entries[keyOf[c]])

\* Nothing was added.
Smaller(new, old) ==
  /\ ToSet(new.order) \subseteq ToSet(old.order) /\ Len(new.order) <= Len(old.order)
  /\ \A k \in Keys : /\ ToSet(new.entries[k]) \subseteq ToSet(old.entries[k])
                     /\ Len(new.entries[k]) <= Len(old.entries[k])

\* Of two removals in a row nothing was added either.
LEMMA SmallerTransitive ==
  ASSUME NEW a, NEW b, NEW d, CacheOK(a), CacheOK(b), CacheOK(d), Smaller(a, b), Smaller(b, d)
  PROVE  Smaller(a, d)
<1>1. /\ Len(a.order) \in Nat /\ Len(b.order) \in Nat /\ Len(d.order) \in Nat
      /\ \A k \in Keys : Len(a.entries[k]) \in Nat /\ Len(b.entries[k]) \in Nat /\ Len(d.entries[k]) \in Nat
  BY DEF CacheOK, Caches
<1>2. ToSet(a.order) \subseteq ToSet(d.order) /\ Len(a.order) <= Len(d.order)
  BY <1>1 DEF Smaller
<1>3. ASSUME NEW k \in Keys
      PROVE  ToSet(a.entries[k]) \subseteq ToSet(d.entries[k]) /\ Len(a.entries[k]) <= Len(d.entries[k])
  <2>1. /\ Len(a.entries[k]) <= Len(b.entries[k]) /\ Len(b.entries[k]) <= Len(d.entries[k])
        /\ ToSet(a.entries[k]) \subseteq ToSet(b.entries[k])
        /\ ToSet(b.entries[k]) \subseteq ToSet(d.entries[k])
    BY DEF Smaller
  <2>2. Len(a.entries[k]) \in Nat /\ Len(b.entries[k]) \in Nat /\ Len(d.entries[k]) \in Nat
    BY <1>1
  <2> QED
    BY <2>1, <2>2
<1> QED
  BY <1>2, <1>3 DEF Smaller

\* One entry left the cache, and only it if it was there.
Without(new, ch, c) ==
  /\ CacheOK(new) /\ Smaller(new, ch)
  /\ ToSet(new.order) = ToSet(ch.order) \ {c}
  /\ c \in ToSet(ch.order) => Len(new.order) = Len(ch.order) - 1
  /\ \A k \in Keys : c \in ToSet(ch.entries[k]) =>
       /\ ToSet(new.entries[k]) = ToSet(ch.entries[k]) \ {c}
       /\ Len(new.entries[k]) = Len(ch.entries[k]) - 1
  /\ Matched(ch) /\ c \in ToSet(ch.order) => Matched(new)

\* filterEntryLocked: the entry leaves both indexes, and the shortcut for a key with at
\* most one entry can only remove more. When the entry is there, it removes just that.
LEMMA FilterEntryLockedRemoves ==
  ASSUME NEW ch, CacheOK(ch), NEW c \in Conns, keyOf[c] \in Keys
  PROVE  Without(FilterEntryLocked(ch, c), ch, c)
<1> DEFINE new == FilterEntryLocked(ch, c)
           k == keyOf[c]
           s == ch.entries[k]
           u == new.entries[k]
<1>1. /\ ch.order \in Seq(Conns) /\ ch.entries \in [Keys -> Seq(Conns)] /\ s \in Seq(Conns)
      /\ IsInjective(s) /\ IsInjective(ch.order)
  BY DEF CacheOK, Caches
<1>2. /\ new.order = FilterEntry(ch.order, c)
      /\ u = IF Len(s) <= 1 THEN <<>> ELSE FilterEntry(s, c)
      /\ \A j \in Keys \ {k} : new.entries[j] = ch.entries[j]
      /\ new.entries = [ch.entries EXCEPT ![k] = u]
      /\ new = [entries |-> new.entries, order |-> new.order]
  BY <1>1 DEF FilterEntryLocked
<1>3. /\ new.order \in Seq(Conns)
      /\ IsInjective(new.order)
      /\ ToSet(new.order) = ToSet(ch.order) \ {c}
      /\ Len(new.order) = IF c \in ToSet(ch.order) THEN Len(ch.order) - 1 ELSE Len(ch.order)
  <2> DEFINE o == ch.order
             r == new.order
  <2>1. o \in Seq(Conns) /\ IsInjective(o) /\ r = FilterEntry(o, c)
    BY <1>1, <1>2
  <2> HIDE DEF o, r
  <2>2. /\ r \in Seq(Conns)
        /\ IsInjective(r)
        /\ ToSet(r) = ToSet(o) \ {c}
        /\ Len(r) = IF c \in ToSet(o) THEN Len(o) - 1 ELSE Len(o)
    BY <2>1, FilterEntryRemoves, Zenon
  <2> QED
    BY <2>2 DEF o, r
<1>4. /\ u \in Seq(Conns) /\ IsInjective(u)
      /\ ToSet(u) \subseteq ToSet(s) \ {c} /\ Len(u) <= Len(s)
      /\ c \in ToSet(s) => ToSet(u) = ToSet(s) \ {c} /\ Len(u) = Len(s) - 1
  <2>1. CASE Len(s) <= 1
    <3>1. u = <<>>
      BY <2>1, <1>2
    <3>2. u \in Seq(Conns) /\ IsInjective(u) /\ ToSet(u) = {} /\ Len(u) = 0
      BY <3>1 DEF IsInjective, ToSet
    <3> HIDE DEF u, s
    <3>3. Len(s) \in Nat /\ DOMAIN s = 1 .. Len(s)
      BY <1>1
    <3>4. ASSUME c \in ToSet(s) PROVE ToSet(s) = {c} /\ Len(s) = 1
      <4>1. PICK i \in 1 .. Len(s) : s[i] = c
        BY <3>4, <3>3 DEF ToSet
      <4>2. Len(s) = 1 /\ i = 1
        BY <2>1, <3>3
      <4> QED
        BY <4>1, <4>2, <3>3 DEF ToSet
    <3> QED
      BY <3>2, <3>4, <3>3
  <2>2. CASE ~(Len(s) <= 1)
    <3>1. u = FilterEntry(s, c)
      BY <2>2, <1>2
    <3> HIDE DEF u, s
    <3>2. s \in Seq(Conns) /\ IsInjective(s) /\ Len(s) \in Nat
      BY <1>1
    <3>3. /\ u \in Seq(Conns)
          /\ IsInjective(u)
          /\ ToSet(u) = ToSet(s) \ {c}
          /\ Len(u) = IF c \in ToSet(s) THEN Len(s) - 1 ELSE Len(s)
      BY <3>1, <3>2, FilterEntryRemoves, Zenon
    <3> QED
      BY <3>2, <3>3
  <2> QED
    BY <2>1, <2>2
<1>5. ch.order \in Seq(Conns) /\ Len(ch.order) \in Nat /\ Len(s) \in Nat /\ \A j \in Keys : Len(ch.entries[j]) \in Nat
  BY <1>1
<1> HIDE DEF new
<1>6. new \in Caches
  BY <1>1, <1>2, <1>3, <1>4 DEF Caches
<1>7. CacheOK(new)
  BY <1>2, <1>3, <1>4, <1>6 DEF CacheOK
<1>8. Smaller(new, ch)
  BY <1>2, <1>3, <1>4, <1>5 DEF Smaller
<1>9. ASSUME NEW j \in Keys, c \in ToSet(ch.entries[j])
      PROVE  /\ ToSet(new.entries[j]) = ToSet(ch.entries[j]) \ {c}
             /\ Len(new.entries[j]) = Len(ch.entries[j]) - 1
  <2>1. j = k
    BY <1>9 DEF CacheOK
  <2> QED
    BY <2>1, <1>4, <1>9
<1>10. ASSUME Matched(ch), c \in ToSet(ch.order)
       PROVE  Matched(new)
  <2>1. c \in ToSet(s)
    BY <1>10 DEF Matched
  <2> QED
    BY <2>1, <1>10, <1>2, <1>3, <1>4 DEF Matched, CacheOK
<1> QED
  BY <1>3, <1>7, <1>8, <1>9, <1>10 DEF new, Without

\* The loop that removes the entries of `gone' in turn has a result after each of them.
LEMMA FilterEntriesSteps ==
  ASSUME NEW ch, NEW gone \in Seq(Conns)
  PROVE  \E left : /\ left = [n \in 0 .. Len(gone) |->
                                IF n = 0 THEN ch ELSE FilterEntryLocked(left[n - 1], gone[n])]
                   /\ FilterEntries(ch, gone) = left[Len(gone)]
<1> DEFINE L == Len(gone)
           Step(g, n) == IF n = 0 THEN ch ELSE FilterEntryLocked(g[n - 1], gone[n])
           Has(m) == \E g : g = [n \in 0 .. m |-> Step(g, n)]
           Not == {m \in 0 .. L : ~Has(m)}
<1>1. L \in Nat
  OBVIOUS
<1> HIDE DEF L, Step
<1>2. Not = {}
  <2> SUFFICES ASSUME Not # {} PROVE FALSE
    OBVIOUS
  <2>1. Not \subseteq Nat
    BY <1>1
  <2> HIDE DEF Not
  <2>2. PICK m \in Not : \A n \in Not : m <= n
    BY <2>1, LeastNat
  <2>3. m \in 0 .. L /\ ~Has(m)
    BY <2>2 DEF Not
  <2>4. CASE m = 0
    <3> DEFINE g == [n \in 0 .. 0 |-> ch]
    <3>1. g = [n \in 0 .. 0 |-> Step(g, n)]
      BY DEF Step
    <3> HIDE DEF g
    <3> QED
      BY <2>3, <2>4, <3>1
  <2>5. CASE m # 0
    <3>1. m - 1 \in 0 .. L /\ m - 1 \notin Not
      BY <1>1, <2>2, <2>3, <2>5
    <3>2. PICK g : g = [n \in 0 .. m - 1 |-> Step(g, n)]
      BY <3>1 DEF Not
    <3> DEFINE h == [n \in 0 .. m |-> IF n = m THEN Step(g, m) ELSE g[n]]
    <3>3. m \in Nat /\ m >= 1
      BY <1>1, <2>3, <2>5
    <3>4. \A n \in 0 .. m : n # m => n \in 0 .. m - 1 /\ (n # 0 => n - 1 \in 0 .. m /\ n - 1 # m)
      BY <3>3
    <3>5. ASSUME NEW n \in 0 .. m PROVE h[n] = Step(h, n)
      <4>1. CASE n = m
        <5>1. m - 1 \in 0 .. m /\ m - 1 # m /\ m \in 0 .. m
          BY <3>3
        <5>2. h[m - 1] = g[m - 1] /\ h[m] = Step(g, m)
          BY <5>1
        <5> HIDE DEF h
        <5>3. Step(h, m) = Step(g, m)
          BY <5>2 DEF Step
        <5> QED
          BY <4>1, <5>2, <5>3
      <4>2. CASE n # m
        <5>1. h[n] = g[n] /\ g[n] = Step(g, n)
          BY <3>2, <3>4, <4>2
        <5>2. n # 0 => h[n - 1] = g[n - 1]
          BY <3>4, <4>2
        <5> HIDE DEF h
        <5>3. Step(h, n) = Step(g, n)
          BY <5>2 DEF Step
        <5> QED
          BY <5>1, <5>3
      <4> QED
        BY <4>1, <4>2
    <3>6. h = [n \in 0 .. m |-> h[n]]
      OBVIOUS
    <3> HIDE DEF h
    <3>7. h = [n \in 0 .. m |-> Step(h, n)]
      BY <3>5, <3>6
    <3> QED
      BY <2>3, <3>7
  <2> QED
    BY <2>4, <2>5
<1>3. Has(L)
  BY <1>1, <1>2
<1> QED
  BY <1>3 DEF FilterEntries, Step, L

\* The same for the loop of filterCacheKey.
LEMMA FilterCacheKeySteps ==
  ASSUME NEW ch, NEW k, ch.entries[k] \in Seq(Conns)
  PROVE  \E st : /\ st = [n \in 0 .. Len(ch.entries[k]) |->
                            IF n = 0 THEN [ch |-> ch, seen |-> ch.entries[k]]
                            ELSE VisitEntry(k, st[n - 1], st[n - 1].seen[n])]
                 /\ FilterCacheKey(ch, k) = st[Len(ch.entries[k])].ch
<1> DEFINE L == Len(ch.entries[k])
           Step(g, n) == IF n = 0 THEN [ch |-> ch, seen |-> ch.entries[k]]
                         ELSE VisitEntry(k, g[n - 1], g[n - 1].seen[n])
           Has(m) == \E g : g = [n \in 0 .. m |-> Step(g, n)]
           Not == {m \in 0 .. L : ~Has(m)}
<1>1. L \in Nat
  OBVIOUS
<1> HIDE DEF L, Step
<1>2. Not = {}
  <2> SUFFICES ASSUME Not # {} PROVE FALSE
    OBVIOUS
  <2>1. Not \subseteq Nat
    BY <1>1
  <2> HIDE DEF Not
  <2>2. PICK m \in Not : \A n \in Not : m <= n
    BY <2>1, LeastNat
  <2>3. m \in 0 .. L /\ ~Has(m)
    BY <2>2 DEF Not
  <2>4. CASE m = 0
    <3> DEFINE g == [n \in 0 .. 0 |-> [ch |-> ch, seen |-> ch.entries[k]]]
    <3>1. g = [n \in 0 .. 0 |-> Step(g, n)]
      BY DEF Step
    <3> HIDE DEF g
    <3> QED
      BY <2>3, <2>4, <3>1
  <2>5. CASE m # 0
    <3>1. m - 1 \in 0 .. L /\ m - 1 \notin Not
      BY <1>1, <2>2, <2>3, <2>5
    <3>2. PICK g : g = [n \in 0 .. m - 1 |-> Step(g, n)]
      BY <3>1 DEF Not
    <3> DEFINE h == [n \in 0 .. m |-> IF n = m THEN Step(g, m) ELSE g[n]]
    <3>3. m \in Nat /\ m >= 1
      BY <1>1, <2>3, <2>5
    <3>4. \A n \in 0 .. m : n # m => n \in 0 .. m - 1 /\ (n # 0 => n - 1 \in 0 .. m /\ n - 1 # m)
      BY <3>3
    <3>5. ASSUME NEW n \in 0 .. m PROVE h[n] = Step(h, n)
      <4>1. CASE n = m
        <5>1. m - 1 \in 0 .. m /\ m - 1 # m /\ m \in 0 .. m
          BY <3>3
        <5>2. h[m - 1] = g[m - 1] /\ h[m] = Step(g, m)
          BY <5>1
        <5> HIDE DEF h
        <5>3. Step(h, m) = Step(g, m)
          BY <5>2 DEF Step
        <5> QED
          BY <4>1, <5>2, <5>3
      <4>2. CASE n # m
        <5>1. h[n] = g[n] /\ g[n] = Step(g, n)
          BY <3>2, <3>4, <4>2
        <5>2. n # 0 => h[n - 1] = g[n - 1]
          BY <3>4, <4>2
        <5> HIDE DEF h
        <5>3. Step(h, n) = Step(g, n)
          BY <5>2 DEF Step
        <5> QED
          BY <5>1, <5>3
      <4> QED
        BY <4>1, <4>2
    <3>6. h = [n \in 0 .. m |-> h[n]]
      OBVIOUS
    <3> HIDE DEF h
    <3>7. h = [n \in 0 .. m |-> Step(h, n)]
      BY <3>5, <3>6
    <3> QED
      BY <2>3, <3>7
  <2> QED
    BY <2>4, <2>5
<1>3. Has(L)
  BY <1>1, <1>2
<1> QED
  BY <1>3 DEF FilterCacheKey, Step, L

\* Removing entries that are all there, each once: the LRU list and the key's slice get
\* shorter by as many, and no other connection drops out of step.
LEMMA FilterEntriesRemoves ==
  ASSUME NEW ch, CacheOK(ch), NEW gone \in Seq(Conns), IsInjective(gone),
         ToSet(gone) \subseteq ToSet(ch.order)
  PROVE  LET new == FilterEntries(ch, gone)
         IN  /\ CacheOK(new) /\ Smaller(new, ch)
             /\ ToSet(new.order) = ToSet(ch.order) \ ToSet(gone)
             /\ Len(new.order) = Len(ch.order) - Len(gone)
             /\ \A k \in Keys : ToSet(gone) \subseteq ToSet(ch.entries[k]) =>
                  Len(new.entries[k]) = Len(ch.entries[k]) - Len(gone)
             /\ Matched(ch) => Matched(new)
<1> DEFINE L == Len(gone)
           Upto(n) == {gone[i] : i \in 1 .. n}
           After(n, new) ==
             /\ CacheOK(new) /\ Smaller(new, ch)
             /\ ToSet(new.order) = ToSet(ch.order) \ Upto(n)
             /\ Len(new.order) = Len(ch.order) - n
             /\ \A k \in Keys : ToSet(gone) \subseteq ToSet(ch.entries[k]) =>
                  /\ Len(new.entries[k]) = Len(ch.entries[k]) - n
                  /\ ToSet(new.entries[k]) = ToSet(ch.entries[k]) \ Upto(n)
             /\ Matched(ch) => Matched(new)
<1>1. PICK left : /\ left = [n \in 0 .. L |->
                               IF n = 0 THEN ch ELSE FilterEntryLocked(left[n - 1], gone[n])]
                  /\ FilterEntries(ch, gone) = left[L]
  BY FilterEntriesSteps
<1>2. L \in Nat /\ DOMAIN gone = 1 .. L /\ ToSet(gone) = Upto(L) /\ \A n \in 1 .. L : gone[n] \in Conns
  BY DEF ToSet
<1>3. /\ Len(ch.order) \in Nat /\ \A k \in Keys : Len(ch.entries[k]) \in Nat
  BY DEF CacheOK, Caches
<1> HIDE DEF L
<1>4. After(0, left[0])
  <2>1. left[0] = ch
    BY <1>1, <1>2
  <2>2. Upto(0) = {}
    OBVIOUS
  <2>3. Smaller(ch, ch)
    BY <1>3 DEF Smaller
  <2> HIDE DEF Upto
  <2> QED
    BY <1>3, <2>1, <2>2, <2>3
<1>5. ASSUME NEW n \in 1 .. L, After(n - 1, left[n - 1])
      PROVE  After(n, left[n])
  <2> DEFINE c == gone[n]
             mid == left[n - 1]
             new == left[n]
  <2>1. new = FilterEntryLocked(mid, c)
    <3>1. n \in 0 .. L /\ n # 0
      BY <1>2
    <3> QED
      BY <1>1, <3>1
  <2>2. Upto(n) = Upto(n - 1) \cup {c} /\ c \notin Upto(n - 1)
    <3>1. \A i \in 1 .. n - 1 : i \in 1 .. L /\ i # n
      BY <1>2
    <3>2. \A i \in 1 .. n - 1 : gone[i] # gone[n]
      BY <1>2, <3>1 DEF IsInjective
    <3>3. 1 .. n = (1 .. n - 1) \cup {n}
      BY <1>2
    <3> QED
      BY <3>2, <3>3
  <2>3. c \in ToSet(gone) /\ c \in Conns
    BY <1>2
  <2> HIDE DEF Upto, c, mid, new
  <2>4. /\ CacheOK(mid) /\ Smaller(mid, ch)
        /\ ToSet(mid.order) = ToSet(ch.order) \ Upto(n - 1)
        /\ Len(mid.order) = Len(ch.order) - (n - 1)
        /\ \A k \in Keys : ToSet(gone) \subseteq ToSet(ch.entries[k]) =>
             /\ Len(mid.entries[k]) = Len(ch.entries[k]) - (n - 1)
             /\ ToSet(mid.entries[k]) = ToSet(ch.entries[k]) \ Upto(n - 1)
        /\ Matched(ch) => Matched(mid)
    BY <1>5 DEF mid
  <2>5. c \in ToSet(mid.order)
    BY <2>2, <2>3, <2>4
  <2>6. keyOf[c] \in Keys
    BY <2>3 DEF CacheOK
  <2>7. /\ CacheOK(new) /\ Smaller(new, mid)
        /\ ToSet(new.order) = ToSet(mid.order) \ {c}
        /\ c \in ToSet(mid.order) => Len(new.order) = Len(mid.order) - 1
        /\ \A k \in Keys : c \in ToSet(mid.entries[k]) =>
             /\ ToSet(new.entries[k]) = ToSet(mid.entries[k]) \ {c}
             /\ Len(new.entries[k]) = Len(mid.entries[k]) - 1
        /\ Matched(mid) /\ c \in ToSet(mid.order) => Matched(new)
    <3>1. Without(new, mid, c)
      BY <2>1, <2>3, <2>4, <2>6, FilterEntryLockedRemoves
    <3> QED
      BY <3>1 DEF Without
  <2>8. Len(new.order) \in Nat /\ Len(mid.order) \in Nat
    BY <2>4, <2>7 DEF CacheOK, Caches
  <2>9. Smaller(new, ch)
    BY <2>4, <2>7, SmallerTransitive
  <2>10. Len(new.order) = Len(ch.order) - n /\ ToSet(new.order) = ToSet(ch.order) \ Upto(n)
    BY <1>2, <1>3, <2>2, <2>4, <2>5, <2>7
  <2>11. ASSUME NEW k \in Keys, ToSet(gone) \subseteq ToSet(ch.entries[k])
         PROVE  /\ Len(new.entries[k]) = Len(ch.entries[k]) - n
                /\ ToSet(new.entries[k]) = ToSet(ch.entries[k]) \ Upto(n)
    <3>1. c \in ToSet(mid.entries[k])
      BY <2>2, <2>3, <2>4, <2>11
    <3>2. /\ ToSet(new.entries[k]) = ToSet(mid.entries[k]) \ {c}
          /\ Len(new.entries[k]) = Len(mid.entries[k]) - 1
      BY <2>7, <3>1
    <3>3. /\ Len(mid.entries[k]) = Len(ch.entries[k]) - (n - 1)
          /\ ToSet(mid.entries[k]) = ToSet(ch.entries[k]) \ Upto(n - 1)
      BY <2>4, <2>11
    <3> QED
      BY <1>2, <1>3, <2>2, <3>2, <3>3
  <2> QED
    BY <2>4, <2>5, <2>7, <2>9, <2>10, <2>11 DEF new
<1>6. After(L, left[L])
  <2> DEFINE Not == {n \in 0 .. L : ~After(n, left[n])}
  <2> HIDE DEF After
  <2>1. Not = {}
    <3> SUFFICES ASSUME Not # {} PROVE FALSE
      OBVIOUS
    <3>1. Not \subseteq Nat
      BY <1>2
    <3> HIDE DEF Not
    <3>2. PICK m \in Not : \A n \in Not : m <= n
      BY <3>1, LeastNat
    <3>3. m \in 0 .. L /\ ~After(m, left[m])
      BY <3>2 DEF Not
    <3>4. m # 0 /\ m \in 1 .. L /\ m - 1 \in 0 .. L
      BY <1>2, <1>4, <3>3
    <3>5. After(m - 1, left[m - 1])
      <4>1. m - 1 \notin Not
        BY <3>2, <3>4
      <4> QED
        BY <3>4, <4>1 DEF Not
    <3> QED
      BY <1>5, <3>3, <3>4, <3>5
  <2> QED
    BY <1>2, <2>1
<1> QED
  BY <1>1, <1>2, <1>6 DEF L

\* Whatever the shifting array makes filterCacheKey visit, the indexes stay in order and
\* nothing is added.
LEMMA FilterCacheKeyShrinks ==
  ASSUME NEW ch, CacheOK(ch), NEW k \in Keys
  PROVE  CacheOK(FilterCacheKey(ch, k)) /\ Smaller(FilterCacheKey(ch, k), ch)
<1> DEFINE L == Len(ch.entries[k])
           Own == {c \in Conns : keyOf[c] = k}
           After(st) == CacheOK(st.ch) /\ Smaller(st.ch, ch) /\ st.seen \in [1 .. L -> Own]
<1>1. ch.entries[k] \in Seq(Conns) /\ \A c \in ToSet(ch.entries[k]) : keyOf[c] = k
  BY DEF CacheOK, Caches
<1>2. PICK st : /\ st = [n \in 0 .. L |->
                            IF n = 0 THEN [ch |-> ch, seen |-> ch.entries[k]]
                            ELSE VisitEntry(k, st[n - 1], st[n - 1].seen[n])]
                /\ FilterCacheKey(ch, k) = st[L].ch
  BY <1>1, FilterCacheKeySteps
<1>3. L \in Nat /\ Len(ch.order) \in Nat /\ \A j \in Keys : Len(ch.entries[j]) \in Nat
  BY DEF CacheOK, Caches
<1>4. ch.entries[k] \in [1 .. L -> Own]
  BY <1>1 DEF ToSet
<1> HIDE DEF L
<1>5. After(st[0])
  <2>1. st[0] = [ch |-> ch, seen |-> ch.entries[k]]
    BY <1>2, <1>3
  <2>2. Smaller(ch, ch)
    BY <1>3 DEF Smaller
  <2> QED
    BY <1>4, <2>1, <2>2
<1>6. ASSUME NEW n \in 1 .. L, After(st[n - 1])
      PROVE  After(st[n])
  <2> DEFINE old == st[n - 1]
             c == old.seen[n]
             new == FilterEntryLocked(old.ch, c)
             left == new.entries[k]
  <2>1. st[n] = VisitEntry(k, old, c)
    <3>1. n \in 0 .. L /\ n # 0
      BY <1>3
    <3> QED
      BY <1>2, <3>1
  <2> HIDE DEF old
  <2>2. CacheOK(old.ch) /\ Smaller(old.ch, ch) /\ old.seen \in [1 .. L -> Own]
    BY <1>6 DEF old
  <2>3. c \in Own
    BY <2>2
  <2>4. CASE ~Stale(c)
    BY <2>1, <2>2, <2>4 DEF VisitEntry
  <2>5. CASE Stale(c)
    <3>1. CacheOK(new) /\ Smaller(new, old.ch)
      BY <2>2, <2>3, FilterEntryLockedRemoves DEF Without
    <3>2. st[n] = [ch |-> new, seen |-> [j \in DOMAIN old.seen |-> IF j <= Len(left) THEN left[j] ELSE old.seen[j]]]
      BY <2>1, <2>5 DEF VisitEntry
    <3> HIDE DEF new, c
    <3>3. left \in Seq(Conns) /\ \A d \in ToSet(left) : keyOf[d] = k
      BY <3>1 DEF CacheOK, Caches
    <3>4. Smaller(new, ch)
      BY <2>2, <3>1, SmallerTransitive
    <3> HIDE DEF left
    <3>5. ASSUME NEW j \in 1 .. L, j <= Len(left) PROVE left[j] \in Own
      <4>1. j \in 1 .. Len(left) /\ DOMAIN left = 1 .. Len(left)
        BY <1>3, <3>3, <3>5
      <4> QED
        BY <3>3, <4>1 DEF ToSet
    <3>6. [j \in DOMAIN old.seen |-> IF j <= Len(left) THEN left[j] ELSE old.seen[j]] \in [1 .. L -> Own]
      BY <2>2, <3>5
    <3> QED
      BY <3>1, <3>2, <3>4, <3>6
  <2> QED
    BY <2>4, <2>5
<1>7. After(st[L])
  <2> DEFINE Not == {n \in 0 .. L : ~After(st[n])}
  <2> HIDE DEF After
  <2>1. Not = {}
    <3> SUFFICES ASSUME Not # {} PROVE FALSE
      OBVIOUS
    <3>1. Not \subseteq Nat
      BY <1>3
    <3> HIDE DEF Not
    <3>2. PICK m \in Not : \A n \in Not : m <= n
      BY <3>1, LeastNat
    <3>3. m \in 0 .. L /\ ~After(st[m])
      BY <3>2 DEF Not
    <3>4. m # 0 /\ m \in 1 .. L /\ m - 1 \in 0 .. L
      BY <1>3, <1>5, <3>3
    <3>5. After(st[m - 1])
      <4>1. m - 1 \notin Not
        BY <3>2, <3>4
      <4> QED
        BY <3>4, <4>1 DEF Not
    <3> QED
      BY <1>6, <3>3, <3>4, <3>5
  <2> QED
    BY <1>3, <2>1
<1> QED
  BY <1>2, <1>7

------------------------------------------------------------------------------
(* The inductive invariant of the pool. *)

TaskRecords == [op : Ops \cup {"none"}, pc : {"idle", "dial", "put", "call", "stream", "insert"},
                key : Keys \cup {None}, conn : Conns \cup {None}]

PoolTypeOK ==
  /\ opts \in OptionSet
  /\ timers \subseteq Conns
  /\ firing \in [Conns -> {"no", "close", "filter"}]
  /\ conn \in [Conns -> {"undialed", "open", "lost", "closed"}]
  /\ keyOf \in [Conns -> Keys \cup {None}]
  /\ task \in [Tasks -> TaskRecords]
  /\ handle \in [Keys -> BOOLEAN]
  /\ dropped \subseteq Conns

\* A task that is neither idle nor dialing has a connection, dialed for its key.
TaskOK(t) ==
  IF task[t].pc \in {"put", "call", "stream", "insert"}
  THEN /\ task[t].conn \in Conns /\ task[t].key \in Keys
       /\ task[t].key = keyOf[task[t].conn]
  ELSE /\ task[t].conn = None
       /\ IF task[t].pc = "dial" THEN task[t].key \in Keys ELSE task[t] = Idle

\* A connection in use has left the cache, its timer and its callback, and has one user.
InUseOK ==
  /\ \A t \in Tasks, c \in Conns : task[t].conn = c =>
       /\ conn[c] \in {"open", "lost"} /\ c \notin ToSet(cache.order)
       /\ c \notin timers /\ firing[c] = "no"
  /\ \A t, u \in Tasks : task[t].conn # None /\ task[t].conn = task[u].conn => t = u

\* A connection has a key from when it is dialed; only then can it be cached or expire,
\* and a callback that runs was started by the timer, which is gone.
ConnOK(c) ==
  /\ conn[c] = "undialed" <=> keyOf[c] = None
  /\ conn[c] = "undialed" => c \notin ToSet(cache.order) /\ c \notin timers /\ firing[c] = "no"
  /\ c \in timers => firing[c] = "no"
  /\ ~opts.Expires => c \notin timers /\ firing[c] = "no"

\* The limits count everything in the LRU list; with a negative one nothing is inserted.
LimitsOK ==
  /\ opts.Capacity > 0 => Len(cache.order) <= opts.Capacity
  /\ opts.KeyCapacity > 0 => \A k \in Keys : Len(cache.entries[k]) <= opts.KeyCapacity
  /\ opts.Capacity < 0 \/ opts.KeyCapacity < 0 =>
       ToSet(cache.order) = {} /\ \A t \in Tasks : task[t].pc # "insert"

PoolInv ==
  /\ PoolTypeOK
  /\ CacheOK(cache)
  /\ \A t \in Tasks : TaskOK(t)
  /\ InUseOK
  /\ \A c \in Conns : ConnOK(c)
  /\ ~opts.Expires => Matched(cache)
  /\ LimitsOK
  /\ NoOpenConnForgotten

------------------------------------------------------------------------------
(* What Take pops. *)

\* Take looks at entries of the key only, each once, and stops at the newest usable one:
\* what it pops besides is not usable, and if it finds none it pops all of them.
LEMMA TakePops ==
  ASSUME CacheOK(cache), NEW k \in Keys
  PROVE  /\ Popped(k) \in Seq(Conns)
         /\ IsInjective(Popped(k))
         /\ ToSet(Popped(k)) \subseteq ToSet(cache.entries[k])
         /\ IF TakeIndex(k) = 0
            THEN /\ ToSet(Popped(k)) = ToSet(cache.entries[k])
                 /\ \A c \in ToSet(Popped(k)) : ~Usable(c)
            ELSE LET c == cache.entries[k][TakeIndex(k)]
                 IN  /\ c \in ToSet(Popped(k)) /\ Usable(c)
                     /\ \A d \in ToSet(Popped(k)) \ {c} : ~Usable(d)
<1> DEFINE s == cache.entries[k]
           L == Len(s)
           i == TakeIndex(k)
           I == {j \in 1 .. L : Usable(s[j])}
           m == IF i = 0 THEN L ELSE L - i + 1
           p == Popped(k)
<1>1. s \in Seq(Conns) /\ IsInjective(s) /\ L \in Nat /\ DOMAIN s = 1 .. L
  BY DEF CacheOK, Caches
<1>2. i = IF I # {} THEN Max(I) ELSE 0
  BY DEF TakeIndex, SelectLastInSeq
<1>3. p = [n \in 1 .. m |-> s[L + 1 - n]]
  BY DEF Popped
<1> HIDE DEF s, L, i, p
<1>4. CASE I = {}
  <2>1. i = 0 /\ m = L
    BY <1>2, <1>4
  <2>2. \A j \in 1 .. L : ~Usable(s[j])
    BY <1>4
  <2>3. \A n \in 1 .. L : L + 1 - n \in 1 .. L
    BY <1>1
  <2>4. p \in Seq(Conns) /\ DOMAIN p = 1 .. L
    <3>1. \A n \in 1 .. L : s[L + 1 - n] \in Conns
      BY <1>1, <2>3
    <3> QED
      BY <1>1, <1>3, <2>1, <3>1
  <2>5. \A n \in 1 .. L : p[n] = s[L + 1 - n]
    BY <1>3, <2>1
  <2>6. \A n, o \in 1 .. L : L + 1 - n = L + 1 - o => n = o
    BY <1>1
  <2>7. IsInjective(p)
    BY <1>1, <2>3, <2>4, <2>5, <2>6 DEF IsInjective
  <2>8. \A j \in 1 .. L : L + 1 - j \in 1 .. L /\ p[L + 1 - j] = s[j]
    <3> TAKE j \in 1 .. L
    <3>1. L + 1 - (L + 1 - j) = j
      BY <1>1
    <3> QED
      BY <2>3, <2>5, <3>1
  <2>9. ToSet(p) = ToSet(s)
    BY <1>1, <2>3, <2>4, <2>5, <2>8, SMTT(30) DEF ToSet
  <2>10. \A c \in ToSet(p) : ~Usable(c)
    BY <1>1, <2>2, <2>9 DEF ToSet
  <2> QED
    BY <2>1, <2>4, <2>7, <2>9, <2>10 DEF s, i, p
<1>5. CASE I # {}
  <2>1. \E j \in I : \A n \in I : j >= n
    <3> DEFINE J == {L - j : j \in I}
    <3>1. J \subseteq Nat /\ J # {}
      BY <1>1, <1>5
    <3> HIDE DEF J
    <3>2. PICK a \in J : \A b \in J : a <= b
      BY <3>1, LeastNat
    <3>3. PICK j \in I : a = L - j
      BY DEF J
    <3>4. ASSUME NEW n \in I PROVE j >= n
      <4>1. L - n \in J
        BY DEF J
      <4>2. L - j <= L - n
        BY <3>2, <3>3, <4>1
      <4> QED
        BY <1>1, <4>2
    <3> QED
      BY <3>4
  <2>2. i \in I /\ \A n \in I : i >= n
    <3> HIDE DEF I
    <3> QED
      BY <1>2, <1>5, <2>1 DEF Max
  <2>3. i \in 1 .. L /\ i # 0 /\ Usable(s[i]) /\ \A j \in 1 .. L : j > i => ~Usable(s[j])
    <3>1. ASSUME NEW j \in 1 .. L, j > i, Usable(s[j]) PROVE FALSE
      BY <1>1, <2>2, <3>1
    <3> QED
      BY <1>1, <2>2, <3>1
  <2>4. m = L - i + 1 /\ m \in 1 .. L
    BY <1>1, <2>3
  <2> HIDE DEF m
  <2>5. \A n \in 1 .. m : L + 1 - n \in 1 .. L /\ L + 1 - n >= i /\ (n # m => L + 1 - n > i)
    BY <1>1, <2>3, <2>4
  <2>6. p \in Seq(Conns) /\ DOMAIN p = 1 .. m
    <3>1. \A n \in 1 .. m : s[L + 1 - n] \in Conns
      BY <1>1, <2>5
    <3> QED
      BY <1>1, <1>3, <2>4, <3>1
  <2>7. \A n \in 1 .. m : p[n] = s[L + 1 - n]
    BY <1>3
  <2>8. \A n, o \in 1 .. m : L + 1 - n = L + 1 - o => n = o
    BY <1>1, <2>4
  <2>9. IsInjective(p)
    BY <1>1, <2>5, <2>6, <2>7, <2>8 DEF IsInjective
  <2>10. p[m] = s[i] /\ s[i] \in ToSet(p)
    <3>1. L + 1 - m = i /\ m \in 1 .. m
      BY <1>1, <2>3, <2>4
    <3>2. p[m] = s[i]
      BY <2>7, <3>1
    <3> QED
      BY <2>6, <3>1, <3>2 DEF ToSet
  <2>11. ToSet(p) \subseteq ToSet(s)
    BY <1>1, <2>5, <2>6, <2>7 DEF ToSet
  <2>12. ASSUME NEW d \in ToSet(p) \ {s[i]} PROVE ~Usable(d)
    <3>1. PICK n \in 1 .. m : d = p[n]
      BY <2>6 DEF ToSet
    <3>2. n # m
      BY <2>10, <3>1
    <3> QED
      BY <2>3, <2>5, <2>7, <3>1, <3>2
  <2> QED
    BY <2>3, <2>6, <2>9, <2>10, <2>11, <2>12 DEF s, i, p
<1> QED
  BY <1>4, <1>5

------------------------------------------------------------------------------
(* Each step keeps the invariant. *)

\* The same cache, or one shown to be in order, is in order after a step that dials nothing.
LEMMA SameKeys ==
  ASSUME CacheOK(cache'), UNCHANGED keyOf
  PROVE  CacheOK(cache)'
BY DEF CacheOK

\* Once a cache lost entries, its limits hold if they held before.
LEMMA LimitsShrink ==
  ASSUME PoolInv, CacheOK(cache'), Smaller(cache', cache), UNCHANGED opts,
         opts.Capacity < 0 \/ opts.KeyCapacity < 0 => \A t \in Tasks : task'[t].pc # "insert"
  PROVE  LimitsOK'
<1>1. /\ Len(cache.order) \in Nat /\ Len(cache'.order) \in Nat
      /\ \A k \in Keys : Len(cache.entries[k]) \in Nat /\ Len(cache'.entries[k]) \in Nat
  BY DEF PoolInv, CacheOK, Caches
<1>2. opts.Capacity \in Int /\ opts.KeyCapacity \in Int
  BY CacheAssumption DEF PoolInv, PoolTypeOK
<1>3. opts.Capacity > 0 => Len(cache'.order) <= opts.Capacity
  BY <1>1, <1>2 DEF PoolInv, LimitsOK, Smaller
<1>4. ASSUME opts.KeyCapacity > 0, NEW k \in Keys PROVE Len(cache'.entries[k]) <= opts.KeyCapacity
  <2>1. Len(cache.entries[k]) <= opts.KeyCapacity /\ Len(cache'.entries[k]) <= Len(cache.entries[k])
    BY <1>4 DEF PoolInv, LimitsOK, Smaller
  <2>2. Len(cache.entries[k]) \in Nat /\ Len(cache'.entries[k]) \in Nat
    BY <1>1
  <2> QED
    BY <1>2, <2>1, <2>2
<1>5. opts.Capacity < 0 \/ opts.KeyCapacity < 0 => ToSet(cache'.order) = {}
  BY DEF PoolInv, LimitsOK, Smaller
<1> QED
  BY <1>3, <1>4, <1>5 DEF LimitsOK

\* A step that leaves the cache alone and accepts nothing keeps the limits.
LEMMA LimitsStay ==
  ASSUME LimitsOK, UNCHANGED <<opts, cache>>,
         opts.Capacity < 0 \/ opts.KeyCapacity < 0 => \A t \in Tasks : task'[t].pc # "insert"
  PROVE  LimitsOK'
BY DEF LimitsOK

\* Taking a connection out of the cache, or finding that one has to be dialed.
LEMMA BeginKeeps ==
  ASSUME PoolInv, NEW t \in Tasks, NEW op \in Ops, NEW k \in Keys, Begin(t, op, k)
  PROVE  PoolInv'
<1> DEFINE p == ToSet(Popped(k))
           i == TakeIndex(k)
           got == cache.entries[k][i]
           new == FilterEntries(cache, Popped(k))
<1>1. /\ PoolTypeOK /\ CacheOK(cache) /\ \A u \in Tasks : TaskOK(u)
      /\ \A c \in Conns : ConnOK(c)
  BY DEF PoolInv
<1>2. /\ p \subseteq ToSet(cache.entries[k])
      /\ IF i = 0 THEN p = ToSet(cache.entries[k]) /\ \A c \in p : ~Usable(c)
         ELSE got \in p /\ Usable(got) /\ \A d \in p \ {got} : ~Usable(d)
  BY <1>1, TakePops
<1>3. p \subseteq ToSet(cache.order) /\ \A c \in p : keyOf[c] = k
  BY <1>1, <1>2 DEF CacheOK
<1>4. ToSet(cache.order) \subseteq Conns
  BY <1>1 DEF CacheOK, Caches, ToSet
<1>5. /\ CacheOK(new) /\ Smaller(new, cache)
      /\ ToSet(new.order) = ToSet(cache.order) \ p
      /\ Matched(cache) => Matched(new)
  BY <1>1, <1>3, TakePops, FilterEntriesRemoves
<1>6. /\ cache' = new /\ timers' = timers \ p
      /\ UNCHANGED <<opts, firing, keyOf, handle, dropped>>
      /\ conn' = CloseEntry({c \in p : Stale(c)})
      /\ task[t].pc = "idle"
      /\ task' = [task EXCEPT ![t] = IF i = 0 THEN [op |-> op, pc |-> "dial", key |-> k, conn |-> None]
                                     ELSE [op |-> op, pc |-> Got(op), key |-> k, conn |-> got]]
  BY DEF Begin, Take
<1> HIDE DEF p, i, got, new
<1>7. /\ conn' \in [Conns -> {"undialed", "open", "lost", "closed"}]
      /\ \A c \in Conns : conn'[c] = IF c \in p /\ Stale(c) /\ CanStop(c) THEN "closed" ELSE conn[c]
  BY <1>1, <1>6 DEF CloseEntry, PoolTypeOK
<1>8. i # 0 => got \in Conns /\ got \in ToSet(cache.order) /\ keyOf[got] = k
  BY <1>2, <1>3, <1>4
<1>9. task' \in [Tasks -> TaskRecords]
  BY <1>1, <1>6, <1>8 DEF PoolTypeOK, TaskRecords, Got, Ops
<1>10. PoolTypeOK'
  BY <1>1, <1>6, <1>7, <1>9 DEF PoolTypeOK
<1>11. CacheOK(cache)'
  BY <1>5, <1>6, SameKeys
<1>12. ASSUME NEW u \in Tasks PROVE TaskOK(u)'
  BY <1>1, <1>6, <1>8 DEF TaskOK, PoolTypeOK, Idle, Got, Ops
<1>13. \A u \in Tasks : task'[u].conn = IF u = t THEN (IF i = 0 THEN None ELSE got) ELSE task[u].conn
  BY <1>1, <1>6 DEF PoolTypeOK
<1>14. task[t].conn = None
  BY <1>1, <1>6 DEF TaskOK
<1>15. ASSUME NEW c \in Conns PROVE ConnOK(c)'
  <2>1. ConnOK(c) /\ (conn'[c] = "undialed" <=> conn[c] = "undialed")
    BY <1>1, <1>7 DEF Stale
  <2>2. ToSet(cache'.order) \subseteq ToSet(cache.order)
    BY <1>5, <1>6
  <2> QED
    BY <1>6, <2>1, <2>2 DEF ConnOK
<1>16. ASSUME i # 0
       PROVE  conn[got] = "open" /\ conn'[got] = "open" /\ firing[got] = "no"
  <2>1. ConnOK(got) /\ Usable(got) /\ conn[got] \in {"undialed", "open", "lost", "closed"}
    BY <1>1, <1>2, <1>8, <1>16 DEF PoolTypeOK
  <2>2. conn[got] = "open"
    BY <1>8, <1>16, <2>1 DEF Usable, Stale, ConnOK
  <2> QED
    BY <1>7, <1>8, <1>16, <2>1, <2>2 DEF Usable, Stale, ConnOK, CanStop
<1>17. InUseOK'
  <2>1. ASSUME NEW u \in Tasks, NEW c \in Conns, task'[u].conn = c
        PROVE  /\ conn'[c] \in {"open", "lost"} /\ c \notin ToSet(cache'.order)
               /\ c \notin timers' /\ firing'[c] = "no"
    <3>1. CASE u = t
      <4>1. i # 0 /\ c = got
        BY <1>13, <2>1, <3>1, CacheAssumption
      <4> QED
        BY <1>2, <1>5, <1>6, <1>16, <4>1
    <3>2. CASE u # t
      <4>1. /\ conn[c] \in {"open", "lost"} /\ c \notin ToSet(cache.order)
            /\ c \notin timers /\ firing[c] = "no"
        BY <1>13, <2>1, <3>2 DEF PoolInv, InUseOK
      <4> QED
        BY <1>3, <1>5, <1>6, <1>7, <4>1
    <3> QED
      BY <3>1, <3>2
  <2>2. ASSUME NEW u \in Tasks, NEW v \in Tasks, task'[u].conn # None, task'[u].conn = task'[v].conn
        PROVE  u = v
    <3>1. \A w \in Tasks : task[w].conn # None => task[w].conn \in Conns /\ task[w].conn \notin ToSet(cache.order)
      BY <1>1 DEF PoolInv, InUseOK, PoolTypeOK, TaskRecords
    <3>2. task[u].conn # None /\ task[u].conn = task[v].conn => u = v
      BY DEF PoolInv, InUseOK
    <3> QED
      BY <1>8, <1>13, <2>2, <3>1, <3>2
  <2> QED
    BY <2>1, <2>2 DEF InUseOK
<1>18. (~opts.Expires => Matched(cache))'
  BY <1>5, <1>6 DEF PoolInv, Matched
<1>19. LimitsOK'
  <2>1. \A u \in Tasks : task'[u].pc = "insert" => task[u].pc = "insert"
    BY <1>1, <1>6 DEF PoolTypeOK, Got
  <2>2. CacheOK(cache') /\ Smaller(cache', cache)
    BY <1>5, <1>6
  <2>3. opts.Capacity < 0 \/ opts.KeyCapacity < 0 => \A u \in Tasks : task'[u].pc # "insert"
    BY <2>1 DEF PoolInv, LimitsOK
  <2> QED
    BY <1>6, <2>2, <2>3, LimitsShrink
<1>20. NoOpenConnForgotten'
  <2> SUFFICES ASSUME NEW c \in Conns, conn'[c] = "open"
               PROVE  \/ c \in Held' \cup dropped'
                      \/ firing'[c] = "close"
                      \/ IF opts'.Expires THEN c \in timers' ELSE c \in Indexed'
    BY DEF NoOpenConnForgotten
  <2>1. conn[c] = "open" /\ ~(c \in p /\ Stale(c) /\ CanStop(c))
    BY <1>7
  <2>2. Held \subseteq Held'
    BY <1>13, <1>14 DEF Held
  <2>3. CASE c \in p /\ CanStop(c)
    <3>1. Usable(c)
      BY <2>1, <2>3 DEF Usable, Stale
    <3>2. i # 0 /\ c = got
      BY <1>2, <2>3, <3>1
    <3>3. c \in Held'
      BY <1>13, <3>2, CacheAssumption DEF Held
    <3> QED
      BY <3>3
  <2>4. CASE ~(c \in p /\ CanStop(c))
    <3>1. CASE opts.Expires
      BY <1>6, <2>1, <2>2, <2>4, <3>1 DEF PoolInv, NoOpenConnForgotten, CanStop
    <3>2. CASE ~opts.Expires
      <4>1. c \notin p
        BY <2>4, <3>2 DEF CanStop
      <4>2. c \in Held \cup dropped \/ firing[c] = "close" \/ c \in Indexed
        BY <2>1, <3>2 DEF PoolInv, NoOpenConnForgotten
      <4>3. ASSUME c \in Indexed PROVE c \in Indexed'
        <5>1. c \in ToSet(cache.order)
          BY <1>1, <4>3 DEF Indexed, CacheOK
        <5>2. Matched(new) /\ c \in ToSet(new.order)
          BY <1>5, <3>2, <4>1, <5>1 DEF PoolInv
        <5>3. keyOf[c] \in Keys
          BY <1>1, <5>1 DEF CacheOK
        <5> QED
          BY <1>6, <5>2, <5>3 DEF Matched, Indexed
      <4> QED
        BY <1>6, <2>2, <3>2, <4>2, <4>3
    <3> QED
      BY <3>1, <3>2
  <2> QED
    BY <2>3, <2>4
<1> QED
  BY <1>10, <1>11, <1>12, <1>15, <1>17, <1>18, <1>19, <1>20 DEF PoolInv

\* What Put evicts to make room: the oldest entries of the slice, as many as leave room
\* for one more.
LEMMA OverMakesRoom ==
  ASSUME NEW s \in Seq(Conns), IsInjective(s), NEW limit \in Nat
  PROVE  /\ Over(s, limit) \in Seq(Conns)
         /\ IsInjective(Over(s, limit))
         /\ ToSet(Over(s, limit)) \subseteq ToSet(s)
         /\ limit > 0 => Len(s) - Len(Over(s, limit)) < limit
<1>1. CASE limit = 0
  <2>1. Over(s, limit) = <<>>
    BY <1>1 DEF Over
  <2>2. <<>> \in Seq(Conns) /\ IsInjective(<<>>) /\ ToSet(<<>>) = {}
    BY DEF IsInjective, ToSet
  <2>3. ~(limit > 0)
    BY <1>1
  <2> QED
    BY <2>1, <2>2, <2>3
<1>2. CASE limit # 0
  <2> DEFINE o == Over(s, limit)
             n == Len(s) - limit + 1
  <2>1. o = SubSeq(s, 1, n) /\ n \in Int /\ n <= Len(s) /\ Len(s) \in Nat /\ DOMAIN s = 1 .. Len(s)
    BY <1>2 DEF Over
  <2> HIDE DEF o
  <2>2. \A j \in 1 .. n : j \in 1 .. Len(s) /\ s[j] \in Conns
    BY <2>1
  <2>3. /\ o \in Seq(Conns) /\ Len(o) = (IF 1 <= n THEN n ELSE 0)
        /\ \A j \in 1 .. Len(o) : o[j] = s[j]
    <3> HIDE DEF n
    <3>1. /\ SubSeq(s, 1, n) \in Seq(Conns)
          /\ Len(SubSeq(s, 1, n)) = IF 1 <= n THEN n - 1 + 1 ELSE 0
          /\ \A j \in 1 .. n - 1 + 1 : SubSeq(s, 1, n)[j] = s[1 + j - 1]
      BY <2>1, <2>2, SubSeqProperties
    <3>2. \A j \in 1 .. n : 1 + j - 1 = j /\ j \in 1 .. n - 1 + 1
      BY <2>1
    <3>3. Len(o) = IF 1 <= n THEN n ELSE 0
      BY <2>1, <3>1
    <3>4. \A j \in 1 .. Len(o) : j \in 1 .. n
      BY <2>1, <3>3
    <3> QED
      BY <2>1, <3>1, <3>2, <3>3, <3>4
  <2>4. DOMAIN o = 1 .. Len(o) /\ \A j \in 1 .. Len(o) : j \in 1 .. Len(s)
    BY <2>1, <2>3
  <2>5. IsInjective(o)
    BY <2>1, <2>3, <2>4 DEF IsInjective
  <2>6. ToSet(o) \subseteq ToSet(s)
    BY <2>1, <2>3, <2>4 DEF ToSet
  <2>7. Len(s) - Len(o) < limit
    BY <1>2, <2>1, <2>3
  <2> QED
    BY <2>3, <2>5, <2>6, <2>7 DEF o
<1> QED
  BY <1>1, <1>2

\* A connection was added to both indexes.
With(new, ch, c) ==
  /\ CacheOK(new)
  /\ ToSet(new.order) = ToSet(ch.order) \cup {c} /\ Len(new.order) = Len(ch.order) + 1
  /\ \A k \in Keys :
       IF k = keyOf[c] THEN /\ Len(new.entries[k]) = Len(ch.entries[k]) + 1
                            /\ ToSet(new.entries[k]) = ToSet(ch.entries[k]) \cup {c}
       ELSE new.entries[k] = ch.entries[k]
  /\ Matched(ch) => Matched(new)

\* Appending a connection that is in neither index keeps them in step.
LEMMA AppendKeeps ==
  ASSUME NEW ch, CacheOK(ch), NEW c \in Conns, c \notin ToSet(ch.order), keyOf[c] \in Keys,
         NEW new, new = [entries |-> [ch.entries EXCEPT ![keyOf[c]] = Append(@, c)],
                         order   |-> Append(ch.order, c)]
  PROVE  With(new, ch, c)
<1>1. ASSUME NEW s \in Seq(Conns), IsInjective(s), c \notin ToSet(s)
      PROVE  /\ Append(s, c) \in Seq(Conns) /\ IsInjective(Append(s, c))
             /\ ToSet(Append(s, c)) = ToSet(s) \cup {c} /\ Len(Append(s, c)) = Len(s) + 1
  <2> DEFINE r == Append(s, c)
  <2>1. /\ r \in Seq(Conns) /\ Len(r) = Len(s) + 1 /\ Len(s) \in Nat
        /\ DOMAIN r = 1 .. Len(s) + 1 /\ DOMAIN s = 1 .. Len(s)
        /\ \A j \in 1 .. Len(s) : r[j] = s[j]
        /\ r[Len(s) + 1] = c
    OBVIOUS
  <2> HIDE DEF r
  <2>2. 1 .. Len(s) + 1 = (1 .. Len(s)) \cup {Len(s) + 1}
    BY <2>1
  <2>3. \A j \in 1 .. Len(s) : s[j] # c
    BY <1>1, <2>1 DEF ToSet
  <2>4. IsInjective(r)
    BY <1>1, <2>1, <2>2, <2>3 DEF IsInjective
  <2>5. ToSet(r) = ToSet(s) \cup {c}
    BY <2>1, <2>2 DEF ToSet
  <2> QED
    BY <2>1, <2>4, <2>5 DEF r
<1> DEFINE k == keyOf[c]
<1>2. /\ ch.order \in Seq(Conns) /\ ch.entries \in [Keys -> Seq(Conns)] /\ ch.entries[k] \in Seq(Conns)
      /\ IsInjective(ch.order) /\ IsInjective(ch.entries[k]) /\ c \notin ToSet(ch.entries[k])
  BY DEF CacheOK, Caches
<1>3. /\ new.order = Append(ch.order, c) /\ new.entries[k] = Append(ch.entries[k], c)
      /\ \A j \in Keys \ {k} : new.entries[j] = ch.entries[j]
      /\ new.entries = [ch.entries EXCEPT ![k] = new.entries[k]]
      /\ new = [entries |-> new.entries, order |-> new.order]
  BY <1>2
<1>4. /\ new.order \in Seq(Conns) /\ IsInjective(new.order)
      /\ ToSet(new.order) = ToSet(ch.order) \cup {c} /\ Len(new.order) = Len(ch.order) + 1
  BY <1>1, <1>2, <1>3
<1>5. /\ new.entries[k] \in Seq(Conns) /\ IsInjective(new.entries[k])
      /\ ToSet(new.entries[k]) = ToSet(ch.entries[k]) \cup {c}
      /\ Len(new.entries[k]) = Len(ch.entries[k]) + 1
  BY <1>1, <1>2, <1>3
<1>6. new \in Caches
  BY <1>2, <1>3, <1>4, <1>5 DEF Caches
<1>7. CacheOK(new)
  BY <1>3, <1>4, <1>5, <1>6 DEF CacheOK
<1>8. Matched(ch) => Matched(new)
  BY <1>3, <1>4, <1>5 DEF Matched, CacheOK
<1> QED
  BY <1>3, <1>4, <1>5, <1>7, <1>8 DEF With

\* Put on a connection that is not in the cache: room is made, within both limits,
\* and what goes is what was evicted.
LEMMA PutMakesRoom ==
  ASSUME CacheOK(cache), NEW c \in Conns, c \notin ToSet(cache.order), keyOf[c] \in Keys,
         opts.Capacity \in Nat, opts.KeyCapacity \in Nat, Put(c)
  PROVE  \E evicted \in SUBSET ToSet(cache.order) :
           /\ CacheOK(cache')
           /\ ToSet(cache'.order) = (ToSet(cache.order) \ evicted) \cup {c}
           /\ timers' = (timers \ evicted) \cup (IF opts.Expires THEN {c} ELSE {})
           /\ conn' = CloseEntry(evicted)
           /\ UNCHANGED <<opts, firing, keyOf>>
           /\ opts.Capacity > 0 => Len(cache'.order) <= opts.Capacity
           /\ opts.KeyCapacity > 0 => Len(cache'.entries[keyOf[c]]) <= opts.KeyCapacity
           /\ c \in ToSet(cache'.entries[keyOf[c]])
           /\ \A k \in Keys \ {keyOf[c]} : Len(cache'.entries[k]) <= Len(cache.entries[k])
           /\ \A k \in Keys : ToSet(cache'.entries[k]) \subseteq ToSet(cache.entries[k]) \cup {c}
           /\ Matched(cache) => Matched(cache')
<1> DEFINE k == keyOf[c]
           byKey == Over(cache.entries[k], opts.KeyCapacity)
           ch1 == FilterEntries(cache, byKey)
           byAge == Over(ch1.order, opts.Capacity)
           ch2 == FilterEntries(ch1, byAge)
           evicted == ToSet(byKey) \cup ToSet(byAge)
<1>1. /\ cache' = [entries |-> [ch2.entries EXCEPT ![k] = Append(@, c)], order |-> Append(ch2.order, c)]
      /\ timers' = (timers \ evicted) \cup (IF opts.Expires THEN {c} ELSE {})
      /\ conn' = CloseEntry(evicted)
      /\ UNCHANGED <<opts, firing, keyOf>>
  BY DEF Put
<1>2. /\ cache.entries[k] \in Seq(Conns) /\ IsInjective(cache.entries[k])
      /\ ToSet(cache.entries[k]) \subseteq ToSet(cache.order)
      /\ Len(cache.entries[k]) \in Nat /\ Len(cache.order) \in Nat
      /\ \A j \in Keys : Len(cache.entries[j]) \in Nat
  BY DEF CacheOK, Caches
<1>3. /\ byKey \in Seq(Conns) /\ IsInjective(byKey)
      /\ ToSet(byKey) \subseteq ToSet(cache.entries[k])
      /\ opts.KeyCapacity > 0 => Len(cache.entries[k]) - Len(byKey) < opts.KeyCapacity
  BY <1>2, OverMakesRoom
<1> HIDE DEF byKey
<1>4. /\ CacheOK(ch1) /\ Smaller(ch1, cache)
      /\ ToSet(ch1.order) = ToSet(cache.order) \ ToSet(byKey)
      /\ Len(ch1.entries[k]) = Len(cache.entries[k]) - Len(byKey)
      /\ Matched(cache) => Matched(ch1)
  BY <1>2, <1>3, FilterEntriesRemoves, ZenonT(30)
<1> HIDE DEF ch1
<1>5. /\ ch1.order \in Seq(Conns) /\ IsInjective(ch1.order) /\ Len(ch1.order) \in Nat
      /\ Len(ch1.entries[k]) \in Nat
  BY <1>4 DEF CacheOK, Caches
<1>6. /\ byAge \in Seq(Conns) /\ IsInjective(byAge)
      /\ ToSet(byAge) \subseteq ToSet(ch1.order)
      /\ opts.Capacity > 0 => Len(ch1.order) - Len(byAge) < opts.Capacity
  BY <1>5, OverMakesRoom
<1> HIDE DEF byAge
<1>7. /\ CacheOK(ch2) /\ Smaller(ch2, ch1)
      /\ ToSet(ch2.order) = ToSet(ch1.order) \ ToSet(byAge)
      /\ Len(ch2.order) = Len(ch1.order) - Len(byAge)
      /\ Matched(ch1) => Matched(ch2)
  BY <1>4, <1>6, FilterEntriesRemoves
<1> HIDE DEF ch2
<1>8. Smaller(ch2, cache)
  BY <1>4, <1>7, SmallerTransitive
<1>9. ToSet(ch2.order) = ToSet(cache.order) \ evicted /\ evicted \subseteq ToSet(cache.order)
  BY <1>2, <1>3, <1>4, <1>6, <1>7
<1>10. /\ Len(ch2.order) \in Nat /\ \A j \in Keys : Len(ch2.entries[j]) \in Nat
  BY <1>7 DEF CacheOK, Caches
<1>11. /\ CacheOK(cache')
       /\ ToSet(cache'.order) = ToSet(ch2.order) \cup {c} /\ Len(cache'.order) = Len(ch2.order) + 1
       /\ \A j \in Keys :
            IF j = k THEN /\ Len(cache'.entries[j]) = Len(ch2.entries[j]) + 1
                          /\ ToSet(cache'.entries[j]) = ToSet(ch2.entries[j]) \cup {c}
            ELSE cache'.entries[j] = ch2.entries[j]
       /\ Matched(ch2) => Matched(cache')
  <2>1. c \notin ToSet(ch2.order)
    BY <1>9
  <2>2. With(cache', ch2, c)
    BY <1>1, <1>7, <2>1, AppendKeeps
  <2> QED
    BY <2>2 DEF With
<1>12. opts.Capacity > 0 => Len(cache'.order) <= opts.Capacity
  BY <1>6, <1>7, <1>10, <1>11
<1>13. opts.KeyCapacity > 0 => Len(cache'.entries[k]) <= opts.KeyCapacity
  <2>1. Len(ch2.entries[k]) <= Len(ch1.entries[k])
    BY <1>7 DEF Smaller
  <2>2. Len(cache'.entries[k]) = Len(ch2.entries[k]) + 1 /\ Len(ch2.entries[k]) \in Nat
    BY <1>10, <1>11
  <2> QED
    BY <1>3, <1>4, <1>5, <2>1, <2>2, SMTT(30)
<1>14. \A j \in Keys \ {k} : Len(cache'.entries[j]) <= Len(cache.entries[j])
  BY <1>8, <1>11 DEF Smaller
<1>15. \A j \in Keys : ToSet(cache'.entries[j]) \subseteq ToSet(cache.entries[j]) \cup {c}
  BY <1>8, <1>11 DEF Smaller
<1>16. Matched(cache) => Matched(cache')
  BY <1>4, <1>7, <1>11
<1>17. c \in ToSet(cache'.entries[k])
  BY <1>11
<1>18. ToSet(cache'.order) = (ToSet(cache.order) \ evicted) \cup {c}
  BY <1>9, <1>11
<1> HIDE DEF evicted
<1> QED
  BY <1>1, <1>9, <1>11, <1>12, <1>13, <1>14, <1>15, <1>16, <1>17, <1>18

\* A connection goes back to the cache: it leaves its task as it enters the indexes and,
\* with expiration, its timer starts.
LEMMA PutInsertKeeps ==
  ASSUME PoolInv, NEW t \in Tasks, PutInsert(t)
  PROVE  PoolInv'
<1> DEFINE c == task[t].conn
<1>1. /\ PoolTypeOK /\ CacheOK(cache) /\ \A u \in Tasks : TaskOK(u)
      /\ \A d \in Conns : ConnOK(d)
  BY DEF PoolInv
<1>2. task[t].pc = "insert" /\ Put(c) /\ UNCHANGED dropped /\ task' = [task EXCEPT ![t] = Idle]
  BY DEF PutInsert, Return
<1>3. c \in Conns /\ keyOf[c] \in Keys
  BY <1>1, <1>2 DEF TaskOK
<1>4. conn[c] \in {"open", "lost"} /\ c \notin ToSet(cache.order) /\ c \notin timers /\ firing[c] = "no"
  BY <1>3 DEF PoolInv, InUseOK
<1>5. opts.Capacity \in Nat /\ opts.KeyCapacity \in Nat
  <2>1. opts.Capacity \in Int /\ opts.KeyCapacity \in Int
    BY <1>1, CacheAssumption DEF PoolTypeOK
  <2>2. ~(opts.Capacity < 0 \/ opts.KeyCapacity < 0)
    BY <1>2 DEF PoolInv, LimitsOK
  <2> QED
    BY <2>1, <2>2
<1>6. PICK evicted \in SUBSET ToSet(cache.order) :
           /\ CacheOK(cache')
           /\ ToSet(cache'.order) = (ToSet(cache.order) \ evicted) \cup {c}
           /\ timers' = (timers \ evicted) \cup (IF opts.Expires THEN {c} ELSE {})
           /\ conn' = CloseEntry(evicted)
           /\ UNCHANGED <<opts, firing, keyOf>>
           /\ opts.Capacity > 0 => Len(cache'.order) <= opts.Capacity
           /\ opts.KeyCapacity > 0 => Len(cache'.entries[keyOf[c]]) <= opts.KeyCapacity
           /\ c \in ToSet(cache'.entries[keyOf[c]])
           /\ \A k \in Keys \ {keyOf[c]} : Len(cache'.entries[k]) <= Len(cache.entries[k])
           /\ \A k \in Keys : ToSet(cache'.entries[k]) \subseteq ToSet(cache.entries[k]) \cup {c}
           /\ Matched(cache) => Matched(cache')
  BY <1>1, <1>2, <1>3, <1>4, <1>5, PutMakesRoom
<1>7. /\ conn' \in [Conns -> {"undialed", "open", "lost", "closed"}]
      /\ \A d \in Conns : conn'[d] = IF d \in evicted /\ CanStop(d) THEN "closed" ELSE conn[d]
  BY <1>1, <1>6 DEF CloseEntry, PoolTypeOK
<1>8. task' \in [Tasks -> TaskRecords] /\ \A u \in Tasks : task'[u] = IF u = t THEN Idle ELSE task[u]
  BY <1>1, <1>2 DEF PoolTypeOK, TaskRecords, Idle
<1> HIDE DEF c
<1>9. PoolTypeOK'
  <2>1. handle' \in [Keys -> BOOLEAN]
    BY <1>1 DEF PutInsert, Return, PoolTypeOK
  <2>2. timers' \subseteq Conns
    BY <1>1, <1>3, <1>6 DEF PoolTypeOK
  <2> QED
    BY <1>1, <1>2, <1>6, <1>7, <1>8, <2>1, <2>2 DEF PoolTypeOK
<1>10. CacheOK(cache)'
  BY <1>6, SameKeys
<1>11. ASSUME NEW u \in Tasks PROVE TaskOK(u)'
  BY <1>1, <1>6, <1>8 DEF TaskOK, Idle
<1>12. \A u \in Tasks : task'[u].conn = IF u = t THEN None ELSE task[u].conn
  BY <1>8 DEF Idle
<1>13. ASSUME NEW d \in Conns PROVE ConnOK(d)'
  <2>1. ConnOK(d)
    BY <1>1
  <2>2. d \in evicted => conn[d] # "undialed"
    BY <2>1 DEF ConnOK
  <2>3. conn'[d] = "undialed" <=> conn[d] = "undialed"
    BY <1>7, <2>2
  <2>4. CASE d = c
    BY <1>4, <1>6, <2>1, <2>3, <2>4 DEF ConnOK
  <2>5. CASE d # c
    BY <1>6, <2>1, <2>3, <2>5 DEF ConnOK
  <2> QED
    BY <2>4, <2>5
<1>14. InUseOK'
  <2>1. ASSUME NEW u \in Tasks, NEW d \in Conns, task'[u].conn = d
        PROVE  /\ conn'[d] \in {"open", "lost"} /\ d \notin ToSet(cache'.order)
               /\ d \notin timers' /\ firing'[d] = "no"
    <3>1. u # t /\ task[u].conn = d /\ d # None
      BY <1>12, <2>1, CacheAssumption
    <3>2. /\ conn[d] \in {"open", "lost"} /\ d \notin ToSet(cache.order)
          /\ d \notin timers /\ firing[d] = "no"
      BY <3>1 DEF PoolInv, InUseOK
    <3>3. d # c
      BY <3>1 DEF PoolInv, InUseOK, c
    <3> QED
      BY <1>6, <1>7, <3>2, <3>3
  <2>2. ASSUME NEW u \in Tasks, NEW v \in Tasks, task'[u].conn # None, task'[u].conn = task'[v].conn
        PROVE  u = v
    BY <1>12, <2>2 DEF PoolInv, InUseOK
  <2> QED
    BY <2>1, <2>2 DEF InUseOK
<1>15. (~opts.Expires => Matched(cache))'
  BY <1>6 DEF PoolInv, Matched
<1>16. LimitsOK'
  <2>1. ASSUME opts.KeyCapacity > 0, NEW k \in Keys PROVE Len(cache'.entries[k]) <= opts.KeyCapacity
    <3>1. CASE k = keyOf[c]
      BY <1>6, <2>1, <3>1
    <3>2. CASE k # keyOf[c]
      <4>1. Len(cache'.entries[k]) <= Len(cache.entries[k]) /\ Len(cache.entries[k]) <= opts.KeyCapacity
        BY <1>6, <2>1, <3>2 DEF PoolInv, LimitsOK
      <4>2. Len(cache'.entries[k]) \in Nat /\ Len(cache.entries[k]) \in Nat
        BY <1>1, <1>6 DEF CacheOK, Caches
      <4> QED
        BY <1>5, <4>1, <4>2
    <3> QED
      BY <3>1, <3>2
  <2>2. ~(opts.Capacity < 0 \/ opts.KeyCapacity < 0)
    BY <1>5
  <2> QED
    BY <1>6, <2>1, <2>2 DEF LimitsOK
<1>17. NoOpenConnForgotten'
  <2> SUFFICES ASSUME NEW d \in Conns, conn'[d] = "open"
               PROVE  \/ d \in Held' \cup dropped'
                      \/ firing'[d] = "close"
                      \/ IF opts'.Expires THEN d \in timers' ELSE d \in Indexed'
    BY DEF NoOpenConnForgotten
  <2>1. CASE d = c
    BY <1>3, <1>6, <2>1 DEF Indexed
  <2>2. CASE d # c
    <3>1. conn[d] = "open" /\ ~(d \in evicted /\ CanStop(d))
      BY <1>7
    <3>2. d \in Held => d \in Held'
      BY <1>12, <2>2 DEF Held, c
    <3>3. CASE opts.Expires
      BY <1>2, <1>6, <3>1, <3>2, <3>3 DEF PoolInv, NoOpenConnForgotten, CanStop
    <3>4. CASE ~opts.Expires
      <4>1. d \notin evicted
        BY <3>1, <3>4 DEF CanStop
      <4>2. d \in Held \cup dropped \/ firing[d] = "close" \/ d \in Indexed
        BY <3>1, <3>4 DEF PoolInv, NoOpenConnForgotten
      <4>3. ASSUME d \in Indexed PROVE d \in Indexed'
        <5>1. d \in ToSet(cache.order)
          BY <1>1, <4>3 DEF Indexed, CacheOK
        <5>2. Matched(cache') /\ d \in ToSet(cache'.order)
          BY <1>6, <3>4, <4>1, <5>1 DEF PoolInv
        <5>3. keyOf[d] \in Keys
          BY <1>1, <5>1 DEF CacheOK
        <5> QED
          BY <5>2, <5>3 DEF Matched, Indexed
      <4> QED
        BY <1>2, <1>6, <3>2, <3>4, <4>2, <4>3
    <3> QED
      BY <3>3, <3>4
  <2> QED
    BY <2>1, <2>2
<1> QED
  BY <1>9, <1>10, <1>11, <1>13, <1>14, <1>15, <1>16, <1>17 DEF PoolInv

\* The steps of a task that leave the cache alone.
LEMMA TaskStepKeeps ==
  ASSUME PoolInv, NEW t \in Tasks,
         \/ \E c \in Conns : DialOK(t, c)
         \/ DialFail(t) \/ StreamOpen(t) \/ StreamFail(t) \/ PutRefused(t) \/ PutAccepted(t)
  PROVE  PoolInv'
<1>1. /\ PoolTypeOK /\ CacheOK(cache) /\ \A u \in Tasks : TaskOK(u)
      /\ InUseOK /\ LimitsOK /\ NoOpenConnForgotten /\ \A d \in Conns : ConnOK(d)
      /\ (~opts.Expires => Matched(cache))
  BY DEF PoolInv
<1>2. UNCHANGED <<opts, cache, timers, firing>>
  BY DEF DialOK, DialFail, StreamOpen, StreamFail, PutRefused, PutAccepted, cacheVars
<1>3. ASSUME NEW c \in Conns, DialOK(t, c) PROVE PoolInv'
  <2>1. /\ task[t].pc = "dial" /\ conn[c] = "undialed" /\ UNCHANGED <<handle, dropped>>
        /\ conn' = [conn EXCEPT ![c] = "open"] /\ keyOf' = [keyOf EXCEPT ![c] = task[t].key]
        /\ task' = [task EXCEPT ![t].pc = Got(task[t].op), ![t].conn = c]
    BY <1>3 DEF DialOK
  <2>2. task[t].conn = None /\ task[t].key \in Keys
    BY <1>1, <2>1 DEF TaskOK
  <2>3. keyOf[c] = None /\ c \notin ToSet(cache.order) /\ c \notin timers /\ firing[c] = "no"
    BY <1>1, <2>1 DEF ConnOK
  <2>4. \A u \in Tasks : task[u].conn # c
    BY <1>1, <2>1 DEF InUseOK
  <2>5. /\ conn' \in [Conns -> {"undialed", "open", "lost", "closed"}]
        /\ keyOf' \in [Conns -> Keys \cup {None}]
        /\ conn'[c] = "open" /\ keyOf'[c] = task[t].key
        /\ \A d \in Conns \ {c} : conn'[d] = conn[d] /\ keyOf'[d] = keyOf[d]
    BY <1>1, <2>1, <2>2 DEF PoolTypeOK
  <2>6. /\ task' \in [Tasks -> TaskRecords]
        /\ \A u \in Tasks \ {t} : task'[u] = task[u]
        /\ task'[t].conn = c /\ task'[t].key = task[t].key /\ task'[t].pc \in {"put", "call"}
    <3>1. task[t] \in TaskRecords /\ task' = [task EXCEPT ![t] = [task[t] EXCEPT !.pc = Got(task[t].op), !.conn = c]]
      BY <1>1, <2>1 DEF PoolTypeOK
    <3>2. ASSUME NEW r \in TaskRecords
          PROVE  /\ [r EXCEPT !.pc = Got(r.op), !.conn = c] \in TaskRecords
                 /\ [r EXCEPT !.pc = Got(r.op), !.conn = c].conn = c
                 /\ [r EXCEPT !.pc = Got(r.op), !.conn = c].key = r.key
                 /\ [r EXCEPT !.pc = Got(r.op), !.conn = c].pc \in {"put", "call"}
      BY DEF TaskRecords, Got
    <3> HIDE DEF TaskRecords
    <3> QED
      BY <1>1, <3>1, <3>2 DEF PoolTypeOK
  <2>7. PoolTypeOK'
    BY <1>1, <1>2, <2>1, <2>5, <2>6 DEF PoolTypeOK
  <2>8. ToSet(cache.order) \subseteq Conns /\ \A k \in Keys : ToSet(cache.entries[k]) \subseteq ToSet(cache.order)
    <3>1. ToSet(cache.order) \subseteq Conns
      BY <1>1 DEF CacheOK, Caches, ToSet
    <3>2. \A k \in Keys : ToSet(cache.entries[k]) \subseteq ToSet(cache.order)
      BY <1>1 DEF CacheOK
    <3> QED
      BY <3>1, <3>2
  <2>9. \A d \in ToSet(cache.order) : keyOf'[d] = keyOf[d]
    BY <2>3, <2>5, <2>8
  <2>10. CacheOK(cache)'
    BY <1>1, <1>2, <2>8, <2>9 DEF CacheOK
  <2>11. ASSUME NEW u \in Tasks PROVE TaskOK(u)'
    <3>1. CASE u = t
      BY <2>2, <2>5, <2>6, <3>1 DEF TaskOK
    <3>2. CASE u # t
      BY <1>1, <2>4, <2>5, <2>6, <3>2 DEF TaskOK
    <3> QED
      BY <3>1, <3>2
  <2>12. InUseOK'
    BY <1>1, <1>2, <2>3, <2>4, <2>5, <2>6 DEF InUseOK
  <2>13. ASSUME NEW d \in Conns PROVE ConnOK(d)'
    BY <1>1, <1>2, <2>2, <2>3, <2>5, CacheAssumption DEF ConnOK
  <2>14. (~opts.Expires => Matched(cache))'
    BY <1>1, <1>2, <2>9 DEF Matched
  <2>15. LimitsOK'
    <3>1. \A u \in Tasks : task'[u].pc = "insert" => task[u].pc = "insert"
      BY <2>6
    <3> QED
      BY <1>1, <1>2, <3>1 DEF LimitsOK
  <2>16. NoOpenConnForgotten'
    <3>1. Held' = Held \cup {c} /\ Indexed' = Indexed
      BY <1>2, <2>2, <2>6, CacheAssumption DEF Held, Indexed
    <3> QED
      BY <1>1, <1>2, <2>1, <2>5, <3>1 DEF NoOpenConnForgotten
  <2> QED
    BY <2>7, <2>10, <2>11, <2>12, <2>13, <2>14, <2>15, <2>16 DEF PoolInv
<1>4. CASE StreamOpen(t) \/ PutAccepted(t)
  <2>1. /\ UNCHANGED <<conn, keyOf, handle, dropped>>
        /\ \E pc \in {"stream", "insert"} : task' = [task EXCEPT ![t].pc = pc]
        /\ task[t].pc \in {"put", "call", "stream"}
    BY <1>4 DEF StreamOpen, PutAccepted, Finishing, Goto, cacheVars
  <2>2. /\ task' \in [Tasks -> TaskRecords]
        /\ \A u \in Tasks : task'[u].conn = task[u].conn /\ task'[u].key = task[u].key
        /\ \A u \in Tasks \ {t} : task'[u] = task[u]
        /\ task'[t].pc \in {"stream", "insert"}
    BY <1>1, <2>1 DEF PoolTypeOK, TaskRecords
  <2>3. PoolTypeOK'
    BY <1>1, <1>2, <2>1, <2>2 DEF PoolTypeOK
  <2>4. ASSUME NEW u \in Tasks PROVE TaskOK(u)'
    BY <1>1, <2>1, <2>2 DEF TaskOK
  <2>5. InUseOK'
    BY <1>1, <1>2, <2>1, <2>2 DEF InUseOK
  <2>6. ASSUME NEW d \in Conns PROVE ConnOK(d)'
    BY <1>1, <1>2, <2>1 DEF ConnOK
  <2>7. LimitsOK'
    <3>1. opts.Capacity < 0 \/ opts.KeyCapacity < 0 => task'[t].pc # "insert"
      BY <1>1, <1>4 DEF StreamOpen, PutAccepted, PutRefuses, Goto, PoolTypeOK, TaskRecords
    <3>2. opts.Capacity < 0 \/ opts.KeyCapacity < 0 => \A u \in Tasks : task'[u].pc # "insert"
      BY <1>1, <2>2, <3>1 DEF LimitsOK
    <3> QED
      BY <1>1, <1>2, <3>2, LimitsStay
  <2>8. NoOpenConnForgotten'
    <3>1. Held' = Held /\ Indexed' = Indexed
      BY <1>2, <2>2 DEF Held, Indexed
    <3> QED
      BY <1>1, <1>2, <2>1, <3>1 DEF NoOpenConnForgotten
  <2>9. CacheOK(cache)' /\ (~opts.Expires => Matched(cache))'
    BY <1>1, <1>2, <2>1 DEF CacheOK, Matched
  <2> QED
    BY <2>3, <2>4, <2>5, <2>6, <2>7, <2>8, <2>9 DEF PoolInv
<1>5. CASE DialFail(t) \/ StreamFail(t) \/ PutRefused(t)
  <2> DEFINE c == task[t].conn
  <2>1. UNCHANGED keyOf /\ task' = [task EXCEPT ![t] = Idle] /\ dropped \subseteq dropped'
    BY <1>5 DEF DialFail, StreamFail, PutRefused, Return, cacheVars
  <2>2. \/ c = None /\ UNCHANGED <<conn, dropped>>
        \/ c \in Conns /\ UNCHANGED conn /\ dropped' = dropped \cup {c}
        \/ c \in Conns /\ conn' = [conn EXCEPT ![c] = "closed"] /\ UNCHANGED dropped
    BY <1>1, <1>5 DEF DialFail, StreamFail, PutRefused, Finishing, TaskOK, cacheVars
  <2>3. task' \in [Tasks -> TaskRecords] /\ \A u \in Tasks : task'[u] = IF u = t THEN Idle ELSE task[u]
    BY <1>1, <2>1 DEF PoolTypeOK, TaskRecords, Idle
  <2> HIDE DEF c
  <2>4. /\ conn' \in [Conns -> {"undialed", "open", "lost", "closed"}]
        /\ \A d \in Conns \ {c} : conn'[d] = conn[d]
        /\ c \in Conns => conn'[c] # "undialed" /\ (conn'[c] = "open" => c \in dropped')
    <3>1. c \in Conns => conn[c] \in {"open", "lost"}
      BY <1>1 DEF InUseOK, c
    <3> QED
      BY <1>1, <2>2, <3>1, CacheAssumption DEF PoolTypeOK
  <2>5. PoolTypeOK'
    <3>1. handle' \in [Keys -> BOOLEAN]
      BY <1>1, <1>5 DEF DialFail, StreamFail, PutRefused, Return, PoolTypeOK
    <3> QED
      BY <1>1, <1>2, <2>1, <2>2, <2>3, <2>4, <3>1 DEF PoolTypeOK
  <2>6. CacheOK(cache)' /\ (~opts.Expires => Matched(cache))'
    BY <1>1, <1>2, <2>1 DEF CacheOK, Matched
  <2>7. ASSUME NEW u \in Tasks PROVE TaskOK(u)'
    BY <1>1, <2>1, <2>3 DEF TaskOK, Idle
  <2>8. \A u \in Tasks : task'[u].conn = IF u = t THEN None ELSE task[u].conn
    BY <2>3 DEF Idle
  <2>9. InUseOK'
    <3>1. ASSUME NEW u \in Tasks, NEW d \in Conns, task'[u].conn = d
          PROVE  /\ conn'[d] \in {"open", "lost"} /\ d \notin ToSet(cache'.order)
                 /\ d \notin timers' /\ firing'[d] = "no"
      <4>1. u # t /\ task[u].conn = d /\ d # None
        BY <2>8, <3>1, CacheAssumption
      <4>2. d # c
        BY <1>1, <4>1 DEF InUseOK, c
      <4> QED
        BY <1>1, <1>2, <2>4, <4>1, <4>2 DEF InUseOK
    <3>2. ASSUME NEW u \in Tasks, NEW v \in Tasks, task'[u].conn # None, task'[u].conn = task'[v].conn
          PROVE  u = v
      BY <1>1, <2>8, <3>2 DEF InUseOK
    <3> QED
      BY <3>1, <3>2 DEF InUseOK
  <2>10. ASSUME NEW d \in Conns PROVE ConnOK(d)'
    <3>1. c \in Conns => conn[c] # "undialed"
      BY <1>1 DEF InUseOK, c
    <3> QED
      BY <1>1, <1>2, <2>1, <2>4, <3>1 DEF ConnOK
  <2>11. LimitsOK'
    <3>1. opts.Capacity < 0 \/ opts.KeyCapacity < 0 => \A u \in Tasks : task'[u].pc # "insert"
      BY <1>1, <2>3 DEF LimitsOK, Idle
    <3> QED
      BY <1>1, <1>2, <3>1, LimitsStay
  <2>12. NoOpenConnForgotten'
    <3> SUFFICES ASSUME NEW d \in Conns, conn'[d] = "open"
                 PROVE  \/ d \in Held' \cup dropped'
                        \/ firing'[d] = "close"
                        \/ IF opts'.Expires THEN d \in timers' ELSE d \in Indexed'
      BY DEF NoOpenConnForgotten
    <3>1. CASE d = c
      BY <2>4, <3>1
    <3>2. CASE d # c
      <4>1. d \in Held => d \in Held'
        BY <2>8, <3>2 DEF Held, c
      <4>2. Indexed' = Indexed /\ conn[d] = "open"
        BY <1>2, <2>4, <3>2 DEF Indexed
      <4> QED
        BY <1>1, <1>2, <2>1, <4>1, <4>2 DEF NoOpenConnForgotten
    <3> QED
      BY <3>1, <3>2
  <2> QED
    BY <2>5, <2>6, <2>7, <2>9, <2>10, <2>11, <2>12 DEF PoolInv
<1> QED
  BY <1>3, <1>4, <1>5

\* Closing a handle, losing a connection, a timer that fires and the first half of its
\* callback leave the indexes alone.
LEMMA ConnStepKeeps ==
  ASSUME PoolInv,
         \/ \E k \in Keys : HandleClose(k)
         \/ \E c \in Conns : Lose(c)
         \/ (ExpireFire \/ \E c \in Conns : ExpireClose(c)) /\ UNCHANGED poolVars
  PROVE  PoolInv'
<1>1. /\ PoolTypeOK /\ CacheOK(cache) /\ \A u \in Tasks : TaskOK(u)
      /\ InUseOK /\ LimitsOK /\ NoOpenConnForgotten /\ (~opts.Expires => Matched(cache))
      /\ \A d \in Conns : ConnOK(d)
  BY DEF PoolInv
<1>2. UNCHANGED <<opts, cache, keyOf, task, dropped>> /\ handle' \in [Keys -> BOOLEAN]
  BY <1>1 DEF HandleClose, Lose, ExpireFire, ExpireClose, cacheVars, poolVars, PoolTypeOK
<1>3. CacheOK(cache)' /\ (~opts.Expires => Matched(cache))' /\ (\A u \in Tasks : TaskOK(u))' /\ LimitsOK'
  BY <1>1, <1>2 DEF CacheOK, Matched, TaskOK, LimitsOK
<1>4. Held' = Held /\ Indexed' = Indexed
  BY <1>2 DEF Held, Indexed
<1>5. CASE \E k \in Keys : HandleClose(k)
  <2>1. UNCHANGED <<conn, timers, firing>>
    BY <1>5 DEF HandleClose, cacheVars
  <2>2. PoolTypeOK' /\ InUseOK' /\ NoOpenConnForgotten'
    BY <1>1, <1>2, <1>4, <2>1 DEF PoolTypeOK, InUseOK, NoOpenConnForgotten
  <2>3. ASSUME NEW d \in Conns PROVE ConnOK(d)'
    BY <1>1, <1>2, <2>1 DEF ConnOK
  <2> QED
    BY <1>3, <2>2, <2>3 DEF PoolInv
<1>6. ASSUME NEW c \in Conns, Lose(c) PROVE PoolInv'
  <2>1. conn[c] = "open" /\ conn' = [conn EXCEPT ![c] = "lost"] /\ UNCHANGED <<timers, firing>>
    BY <1>6 DEF Lose
  <2>2. PoolTypeOK'
    BY <1>1, <1>2, <2>1 DEF PoolTypeOK
  <2>3. \A d \in Conns : conn'[d] = IF d = c THEN "lost" ELSE conn[d]
    BY <1>1, <2>1 DEF PoolTypeOK
  <2>4. InUseOK' /\ NoOpenConnForgotten'
    BY <1>1, <1>2, <1>4, <2>1, <2>3 DEF InUseOK, NoOpenConnForgotten
  <2>5. ASSUME NEW d \in Conns PROVE ConnOK(d)'
    BY <1>1, <1>2, <2>1, <2>3 DEF ConnOK
  <2> QED
    BY <1>3, <2>2, <2>4, <2>5 DEF PoolInv
<1>7. CASE ExpireFire
  <2>1. PICK c \in timers : timers' = timers \ {c} /\ firing' = [firing EXCEPT ![c] = "close"]
    BY <1>7 DEF ExpireFire
  <2>2. UNCHANGED conn /\ c \in Conns
    BY <1>1, <1>7 DEF ExpireFire, PoolTypeOK
  <2>3. PoolTypeOK'
    BY <1>1, <1>2, <2>1, <2>2 DEF PoolTypeOK
  <2>4. \A d \in Conns : firing'[d] = IF d = c THEN "close" ELSE firing[d]
    BY <1>1, <2>1, <2>2 DEF PoolTypeOK
  <2>5. InUseOK' /\ NoOpenConnForgotten'
    BY <1>1, <1>2, <1>4, <2>1, <2>2, <2>4 DEF InUseOK, NoOpenConnForgotten
  <2>6. ASSUME NEW d \in Conns PROVE ConnOK(d)'
    BY <1>1, <1>2, <2>1, <2>2, <2>4 DEF ConnOK
  <2> QED
    BY <1>3, <2>3, <2>5, <2>6 DEF PoolInv
<1>8. ASSUME NEW c \in Conns, ExpireClose(c) PROVE PoolInv'
  <2>1. /\ firing[c] = "close" /\ UNCHANGED timers
        /\ conn' = [conn EXCEPT ![c] = "closed"] /\ firing' = [firing EXCEPT ![c] = "filter"]
    BY <1>8 DEF ExpireClose
  <2>2. PoolTypeOK'
    BY <1>1, <1>2, <2>1 DEF PoolTypeOK
  <2>3. \A d \in Conns : /\ firing'[d] = IF d = c THEN "filter" ELSE firing[d]
                         /\ conn'[d] = IF d = c THEN "closed" ELSE conn[d]
    BY <1>1, <2>1 DEF PoolTypeOK
  <2>4. InUseOK' /\ NoOpenConnForgotten'
    BY <1>1, <1>2, <1>4, <2>1, <2>3 DEF InUseOK, NoOpenConnForgotten
  <2>5. ASSUME NEW d \in Conns PROVE ConnOK(d)'
    BY <1>1, <1>2, <2>1, <2>3 DEF ConnOK
  <2> QED
    BY <1>3, <2>2, <2>4, <2>5 DEF PoolInv
<1> QED
  BY <1>5, <1>6, <1>7, <1>8

\* The second half of the callback: filterCacheKey may take out entries whose timer still
\* runs, and that timer keeps them from being forgotten.
LEMMA ExpireFilterKeeps ==
  ASSUME PoolInv, NEW c \in Conns, ExpireFilter(c), UNCHANGED poolVars
  PROVE  PoolInv'
<1>1. /\ PoolTypeOK /\ CacheOK(cache) /\ \A u \in Tasks : TaskOK(u)
      /\ InUseOK /\ LimitsOK /\ NoOpenConnForgotten
      /\ \A d \in Conns : ConnOK(d)
  BY DEF PoolInv
<1>2. /\ firing[c] = "filter" /\ cache' = FilterCacheKey(cache, keyOf[c])
      /\ firing' = [firing EXCEPT ![c] = "no"]
      /\ UNCHANGED <<opts, timers, conn, keyOf, task, handle, dropped>>
  BY DEF ExpireFilter, poolVars
<1>3. keyOf[c] \in Keys /\ opts.Expires
  BY <1>1, <1>2 DEF ConnOK, PoolTypeOK
<1>4. CacheOK(cache') /\ Smaller(cache', cache)
  BY <1>1, <1>2, <1>3, FilterCacheKeyShrinks
<1>5. CacheOK(cache)'
  BY <1>2, <1>4, SameKeys
<1>6. ToSet(cache'.order) \subseteq ToSet(cache.order)
  BY <1>4 DEF Smaller
<1>7. PoolTypeOK'
  BY <1>1, <1>2 DEF PoolTypeOK
<1>8. \A d \in Conns : firing'[d] = IF d = c THEN "no" ELSE firing[d]
  BY <1>1, <1>2 DEF PoolTypeOK
<1>9. (\A u \in Tasks : TaskOK(u))' /\ InUseOK'
  BY <1>1, <1>2, <1>6, <1>8 DEF TaskOK, InUseOK
<1>10. ASSUME NEW d \in Conns PROVE ConnOK(d)'
  BY <1>1, <1>2, <1>6, <1>8 DEF ConnOK
<1>11. LimitsOK'
  <2>1. opts.Capacity < 0 \/ opts.KeyCapacity < 0 => \A u \in Tasks : task'[u].pc # "insert"
    BY <1>1, <1>2 DEF LimitsOK
  <2> QED
    BY <1>2, <1>4, <2>1, LimitsShrink
<1>12. NoOpenConnForgotten'
  <2>1. Held' = Held
    BY <1>2 DEF Held
  <2> QED
    BY <1>1, <1>2, <1>3, <1>8, <2>1 DEF NoOpenConnForgotten
<1> QED
  BY <1>2, <1>3, <1>5, <1>7, <1>9, <1>10, <1>11, <1>12 DEF PoolInv

\* Nothing is left in either index.
LEMMA EmptyCacheOK ==
  /\ CacheOK(EmptyCache) /\ Matched(EmptyCache)
  /\ ToSet(EmptyCache.order) = {} /\ Len(EmptyCache.order) = 0
  /\ \A k \in Keys : ToSet(EmptyCache.entries[k]) = {} /\ Len(EmptyCache.entries[k]) = 0
<1>1. <<>> \in Seq(Conns) /\ IsInjective(<<>>) /\ ToSet(<<>>) = {} /\ Len(<<>>) = 0
  BY DEF IsInjective, ToSet
<1>2. EmptyCache.order = <<>> /\ \A k \in Keys : EmptyCache.entries[k] = <<>>
  BY DEF EmptyCache
<1>3. EmptyCache \in Caches
  BY <1>1 DEF EmptyCache, Caches
<1> QED
  BY <1>1, <1>2, <1>3 DEF CacheOK, Matched

\* Pool.Close: what can be taken is closed or left to its callback; an entry that only the
\* LRU list still had keeps its timer.
LEMMA PoolCloseKeeps ==
  ASSUME PoolInv, PoolClose
  PROVE  PoolInv'
<1>1. /\ PoolTypeOK /\ CacheOK(cache) /\ \A u \in Tasks : TaskOK(u)
      /\ InUseOK /\ LimitsOK /\ NoOpenConnForgotten
      /\ \A d \in Conns : ConnOK(d)
  BY DEF PoolInv
<1>2. /\ cache' = EmptyCache /\ timers' = timers \ Indexed /\ conn' = CloseEntry(Indexed)
      /\ UNCHANGED <<opts, firing, keyOf, task, handle, dropped>>
  BY DEF PoolClose, CacheClose, Indexed, poolVars
<1>3. Indexed \subseteq ToSet(cache.order)
  BY <1>1 DEF CacheOK, Indexed
<1> HIDE DEF Indexed
<1>4. /\ conn' \in [Conns -> {"undialed", "open", "lost", "closed"}]
      /\ \A d \in Conns : conn'[d] = IF d \in Indexed /\ CanStop(d) THEN "closed" ELSE conn[d]
  BY <1>1, <1>2 DEF CloseEntry, PoolTypeOK
<1>5. PoolTypeOK'
  BY <1>1, <1>2, <1>4 DEF PoolTypeOK
<1>6. CacheOK(cache)' /\ Matched(cache)'
  <2>1. CacheOK(cache') /\ Matched(cache')
    BY <1>2, EmptyCacheOK
  <2> QED
    BY <1>2, <2>1, SameKeys DEF Matched
<1>7. ToSet(cache'.order) = {}
  BY <1>2, EmptyCacheOK
<1>8. (\A u \in Tasks : TaskOK(u))' /\ InUseOK'
  BY <1>1, <1>2, <1>3, <1>4, <1>7 DEF TaskOK, InUseOK
<1>9. ASSUME NEW d \in Conns PROVE ConnOK(d)'
  BY <1>1, <1>2, <1>3, <1>4, <1>7 DEF ConnOK
<1>10. LimitsOK'
  <2>1. opts.Capacity \in Int /\ opts.KeyCapacity \in Int
    BY <1>1, CacheAssumption DEF PoolTypeOK
  <2>2. Len(cache'.order) = 0 /\ \A k \in Keys : Len(cache'.entries[k]) = 0
    BY <1>2, EmptyCacheOK
  <2> QED
    BY <1>1, <1>2, <1>7, <2>1, <2>2 DEF LimitsOK
<1>11. NoOpenConnForgotten'
  <2>1. Held' = Held
    BY <1>2 DEF Held
  <2> QED
    BY <1>1, <1>2, <1>4, <2>1 DEF NoOpenConnForgotten, CanStop
<1> QED
  BY <1>5, <1>6, <1>8, <1>9, <1>10, <1>11 DEF PoolInv

\* The inductive invariant of the pool: every step of a task, of the user, of a timer or of
\* the network keeps what the pool relies on.
THEOREM PoolInvariant == Spec => []PoolInv
<1>1. Init => PoolInv
  <2> SUFFICES ASSUME Init PROVE PoolInv
    OBVIOUS
  <2> USE DEF Init, CacheInit
  <2>1. CacheOK(cache) /\ Matched(cache) /\ ToSet(cache.order) = {}
    BY EmptyCacheOK
  <2>2. PoolTypeOK
    BY DEF PoolTypeOK, TaskRecords, Idle
  <2>3. \A t \in Tasks : TaskOK(t)
    BY DEF TaskOK, Idle
  <2>4. InUseOK
    BY CacheAssumption DEF InUseOK, Idle
  <2>5. \A c \in Conns : ConnOK(c)
    BY <2>1 DEF ConnOK
  <2>6. LimitsOK
    <3>1. opts.Capacity \in Int /\ opts.KeyCapacity \in Int
      BY CacheAssumption
    <3>2. Len(cache.order) = 0 /\ \A k \in Keys : Len(cache.entries[k]) = 0
      BY EmptyCacheOK
    <3>3. \A t \in Tasks : task[t].pc # "insert"
      BY DEF Idle
    <3> QED
      BY <2>1, <3>1, <3>2, <3>3 DEF LimitsOK
  <2>7. NoOpenConnForgotten
    BY DEF NoOpenConnForgotten
  <2> QED
    BY <2>1, <2>2, <2>3, <2>4, <2>5, <2>6, <2>7 DEF PoolInv
<1>2. PoolInv /\ [Next]_vars => PoolInv'
  <2> SUFFICES ASSUME PoolInv, [Next]_vars PROVE PoolInv'
    OBVIOUS
  <2>1. ASSUME NEW t \in Tasks, NEW op \in Ops, NEW k \in Keys, Begin(t, op, k) PROVE PoolInv'
    BY <2>1, BeginKeeps
  <2>2. ASSUME NEW t \in Tasks, PutInsert(t) PROVE PoolInv'
    BY <2>2, PutInsertKeeps
  <2>3. ASSUME NEW t \in Tasks,
               \/ \E c \in Conns : DialOK(t, c)
               \/ DialFail(t) \/ StreamOpen(t) \/ StreamFail(t) \/ PutRefused(t) \/ PutAccepted(t)
        PROVE  PoolInv'
    BY <2>3, TaskStepKeeps
  <2>4. CASE \/ \E k \in Keys : HandleClose(k)
             \/ \E c \in Conns : Lose(c)
             \/ (ExpireFire \/ \E c \in Conns : ExpireClose(c)) /\ UNCHANGED poolVars
    BY <2>4, ConnStepKeeps
  <2>5. ASSUME NEW c \in Conns, ExpireFilter(c), UNCHANGED poolVars PROVE PoolInv'
    BY <2>5, ExpireFilterKeeps
  <2>6. CASE PoolClose
    BY <2>6, PoolCloseKeeps
  <2>7. CASE UNCHANGED vars
    BY <2>7 DEF vars, cacheVars, poolVars, PoolInv, PoolTypeOK, CacheOK, TaskOK, InUseOK, ConnOK,
                Matched, LimitsOK, NoOpenConnForgotten, Held, Indexed
  <2> QED
    BY <2>1, <2>2, <2>3, <2>4, <2>5, <2>6, <2>7 DEF Next, Callback
<1> QED
  BY <1>1, <1>2, PTL DEF Spec

------------------------------------------------------------------------------
(* What follows from the invariant. *)

\* The cache never closes a connection that a call or a stream is using, whatever its
\* expiration callback was doing when it was taken (cache.go:216).
THEOREM InUseStaysOpen == Spec => []InUseNeverClosed
<1>1. PoolInv => InUseNeverClosed
  BY DEF PoolInv, InUseOK, TaskOK, InUseNeverClosed
<1> QED
  BY <1>1, PoolInvariant, PTL

\* Every open connection has a user, was dropped by a failed NewStream, or is one the cache
\* will come back to (cache.go:101-108, 267-275).
THEOREM NoneForgotten == Spec => []NoOpenConnForgotten
<1>1. PoolInv => NoOpenConnForgotten
  BY DEF PoolInv
<1> QED
  BY <1>1, PoolInvariant, PTL

\* A slice names at most as many connections as it is long.
LEMMA SliceCounts ==
  ASSUME NEW s \in Seq(Conns), NEW T \in SUBSET ToSet(s)
  PROVE  IsFiniteSet(T) /\ Cardinality(T) \in Nat /\ Cardinality(T) <= Len(s)
<1>1. Len(s) \in Nat /\ DOMAIN s = 1 .. Len(s)
  OBVIOUS
<1>2. s \in Surjection(1 .. Len(s), ToSet(s))
  BY <1>1 DEF Surjection, ToSet
<1>3. IsFiniteSet(1 .. Len(s)) /\ Cardinality(1 .. Len(s)) = Len(s)
  <2>1. Cardinality(1 .. Len(s)) = IF 1 > Len(s) THEN 0 ELSE Len(s) - 1 + 1
    BY <1>1, FS_Interval
  <2> QED
    BY <1>1, <2>1, FS_Interval, SMTT(30)
<1>4. IsFiniteSet(ToSet(s)) /\ Cardinality(ToSet(s)) <= Len(s)
  BY <1>2, <1>3, FS_Surjection
<1>5. IsFiniteSet(T) /\ Cardinality(T) <= Cardinality(ToSet(s))
  BY <1>4, FS_Subset
<1>6. Cardinality(T) \in Nat /\ Cardinality(ToSet(s)) \in Nat
  BY <1>4, <1>5, FS_CardinalityType
<1> QED
  BY <1>1, <1>4, <1>5, <1>6

\* The map and the LRU list agree and the idle connections stay within the limits, whatever
\* evictions, expirations and concurrent puts do (cache.go:130-138, 204-275).
THEOREM CacheStaysConsistent == Spec => []CacheConsistent
<1>1. ASSUME PoolInv PROVE OrderMatchesEntries
  <2>1. /\ IsInjective(cache.order)
        /\ \A k \in Keys : IsInjective(cache.entries[k]) /\ \A c \in ToSet(cache.entries[k]) : keyOf[c] = k
    BY <1>1 DEF PoolInv, CacheOK
  <2>2. Indexed \subseteq ToSet(cache.order)
    BY <1>1 DEF PoolInv, CacheOK, Indexed
  <2>3. ~opts.Expires => ToSet(cache.order) \subseteq Indexed
    BY <1>1 DEF PoolInv, CacheOK, Matched, Indexed
  <2> QED
    BY <2>1, <2>2, <2>3 DEF OrderMatchesEntries
<1>2. ASSUME PoolInv PROVE IdleBound
  <2> DEFINE idle == {c \in Conns : /\ conn[c] = "open" /\ c \notin Held \cup dropped
                                    /\ firing[c] = "no" /\ (opts.Expires => c \in Indexed)}
             Bound(n) == IF n < 0 THEN 0 ELSE n
  <2>1. opts.Capacity \in Int /\ opts.KeyCapacity \in Int
    BY <1>2, CacheAssumption DEF PoolInv, PoolTypeOK
  <2>2. idle \subseteq Indexed
    BY <1>2 DEF PoolInv, NoOpenConnForgotten
  <2> HIDE DEF idle
  <2>3. Indexed \subseteq ToSet(cache.order) /\ cache.order \in Seq(Conns)
    BY <1>2 DEF PoolInv, CacheOK, Caches, Indexed
  <2>4. \A k \in Keys : cache.entries[k] \in Seq(Conns)
    BY <1>2 DEF PoolInv, CacheOK, Caches
  <2>5. ASSUME opts.Capacity # 0 PROVE Cardinality(idle) <= Bound(opts.Capacity)
    <3>1. /\ Cardinality(idle) \in Nat /\ Cardinality(idle) <= Len(cache.order) /\ IsFiniteSet(idle)
          /\ Len(cache.order) \in Nat
      BY <2>2, <2>3, SliceCounts
    <3>2. CASE opts.Capacity > 0
      <4>1. Len(cache.order) <= opts.Capacity
        BY <1>2, <3>2 DEF PoolInv, LimitsOK
      <4> QED
        BY <2>1, <3>1, <3>2, <4>1
    <3>3. CASE opts.Capacity < 0
      <4>1. idle = {}
        BY <1>2, <2>2, <2>3, <3>3 DEF PoolInv, LimitsOK
      <4> QED
        BY <2>1, <3>3, <4>1, FS_EmptySet
    <3> QED
      BY <2>1, <2>5, <3>2, <3>3
  <2>6. ASSUME opts.KeyCapacity # 0, NEW k \in Keys
        PROVE  Cardinality({c \in idle : keyOf[c] = k}) <= Bound(opts.KeyCapacity)
    <3> DEFINE own == {c \in idle : keyOf[c] = k}
    <3>1. own \subseteq ToSet(cache.entries[k])
      BY <1>2, <2>2 DEF PoolInv, CacheOK, Indexed
    <3>2. own \subseteq ToSet(cache.order)
      BY <2>2, <2>3
    <3> HIDE DEF own
    <3>3. /\ Cardinality(own) \in Nat /\ Cardinality(own) <= Len(cache.entries[k])
          /\ Len(cache.entries[k]) \in Nat
      BY <2>4, <3>1, SliceCounts
    <3>4. CASE opts.KeyCapacity > 0
      <4>1. Len(cache.entries[k]) <= opts.KeyCapacity
        BY <1>2, <3>4 DEF PoolInv, LimitsOK
      <4> QED
        BY <2>1, <3>3, <3>4, <4>1 DEF own
    <3>5. CASE opts.KeyCapacity < 0
      <4>1. own = {}
        BY <1>2, <3>2, <3>5 DEF PoolInv, LimitsOK
      <4> QED
        BY <2>1, <3>5, <4>1, FS_EmptySet DEF own
    <3> QED
      BY <2>1, <2>6, <3>4, <3>5 DEF own
  <2> QED
    BY <2>5, <2>6 DEF IdleBound, idle
<1>3. PoolInv => CacheConsistent
  BY <1>1, <1>2 DEF CacheConsistent
<1> QED
  BY <1>3, PoolInvariant, PTL

------------------------------------------------------------------------------
(* The pool implements ConnOwner. *)

\* The status of a connection, as ConnOwner sees it.
LEMMA StatusOf ==
  \A c \in Conns : ConnStatus[c] = IF conn[c] = "undialed" THEN "fresh"
                                   ELSE IF c \in Held THEN "busy" ELSE IF c \in Indexed THEN "idle" ELSE "gone"
BY DEF ConnStatus

\* A step that gives and takes nobody else's connection, dials nothing else and adds nothing
\* else to the map can only let go of idle connections besides.
LEMMA OthersKeep ==
  ASSUME NEW c,
         \A d \in Conns \ {c} : /\ d \in Held' <=> d \in Held
                                /\ conn'[d] = "undialed" <=> conn[d] = "undialed"
                                /\ d \in Indexed' => d \in Indexed
  PROVE  \A d \in Conns \ {c} : \/ ConnStatus'[d] = ConnStatus[d]
                                \/ ConnStatus[d] = "idle" /\ ConnStatus'[d] = "gone"
<1>1. \A d \in Conns : ConnStatus'[d] = IF conn'[d] = "undialed" THEN "fresh"
                                        ELSE IF d \in Held' THEN "busy" ELSE IF d \in Indexed' THEN "idle" ELSE "gone"
  BY DEF ConnStatus
<1> HIDE DEF Held, Indexed
<1> QED
  BY <1>1, StatusOf

\* What Begin does: the task gets an idle connection of its key, or there is none left.
LEMMA BeginImplements ==
  ASSUME PoolInv, NEW t \in Tasks, NEW op \in Ops, NEW k \in Keys, Begin(t, op, k)
  PROVE  Promise!Give(t, k) \/ Promise!HasToDial(t, k)
<1> DEFINE p == ToSet(Popped(k))
           i == TakeIndex(k)
           got == cache.entries[k][i]
           new == FilterEntries(cache, Popped(k))
           me == IF i = 0 THEN None ELSE got
           user == [u \in Tasks |-> [key |-> task[u].key, conn |-> task[u].conn]]
<1>1. /\ PoolTypeOK /\ CacheOK(cache) /\ InUseOK /\ \A u \in Tasks : TaskOK(u)
  BY DEF PoolInv
<1>2. /\ p \subseteq ToSet(cache.entries[k])
      /\ IF i = 0 THEN p = ToSet(cache.entries[k]) ELSE got \in p /\ Usable(got)
  BY <1>1, TakePops
<1>3. p \subseteq ToSet(cache.order) /\ \A c \in p : keyOf[c] = k /\ c \in Indexed
  BY <1>1, <1>2 DEF CacheOK, Indexed
<1>4. ToSet(cache.order) \subseteq Conns
  BY <1>1 DEF CacheOK, Caches, ToSet
<1>5. /\ CacheOK(new) /\ Smaller(new, cache)
      /\ ToSet(new.order) = ToSet(cache.order) \ p
  BY <1>1, <1>3, TakePops, FilterEntriesRemoves
<1>6. /\ cache' = new /\ UNCHANGED keyOf
      /\ conn' = CloseEntry({c \in p : Stale(c)})
      /\ task[t].pc = "idle"
      /\ task' = [task EXCEPT ![t] = IF i = 0 THEN [op |-> op, pc |-> "dial", key |-> k, conn |-> None]
                                     ELSE [op |-> op, pc |-> Got(op), key |-> k, conn |-> got]]
  BY DEF Begin, Take
<1> HIDE DEF p, i, got, new
<1>7. \A c \in Conns : conn'[c] = "undialed" <=> conn[c] = "undialed"
  <2>1. \A c \in Conns : conn'[c] = IF c \in p /\ Stale(c) /\ CanStop(c) THEN "closed" ELSE conn[c]
    BY <1>6 DEF CloseEntry
  <2> QED
    BY <2>1 DEF Stale
<1>8. Indexed' \subseteq Indexed \ p
  <2>1. Indexed' \subseteq Indexed
    BY <1>5, <1>6 DEF Indexed, Smaller
  <2>2. Indexed' \subseteq ToSet(new.order)
    BY <1>5, <1>6 DEF Indexed, CacheOK
  <2> QED
    BY <1>5, <2>1, <2>2
<1>9. task[t].conn = None /\ user[t] = Promise!Nobody
  BY <1>1, <1>6 DEF TaskOK, Idle, Promise!Nobody
<1>10. /\ \A u \in Tasks : task'[u].conn = IF u = t THEN me ELSE task[u].conn
       /\ user' = [user EXCEPT ![t] = [key |-> k, conn |-> me]]
  BY <1>1, <1>6 DEF PoolTypeOK
<1> HIDE DEF user
<1>11. Held' = IF i = 0 THEN Held ELSE Held \cup {got}
  <2>1. i # 0 => got # None
    BY <1>2, <1>3, <1>4, CacheAssumption
  <2> QED
    BY <1>9, <1>10, <2>1 DEF Held
<1>12. \A d \in Conns \ {me} : /\ d \in Held' <=> d \in Held
                               /\ conn'[d] = "undialed" <=> conn[d] = "undialed"
                               /\ d \in Indexed' => d \in Indexed
  BY <1>7, <1>8, <1>11
<1>13. \A d \in Conns \ {me} : \/ ConnStatus'[d] = ConnStatus[d]
                               \/ ConnStatus[d] = "idle" /\ ConnStatus'[d] = "gone"
  BY <1>12, OthersKeep
<1>14. \A c \in p : c \in Conns /\ conn[c] # "undialed" /\ c \notin Held /\ ConnStatus[c] = "idle"
  <2> TAKE c \in p
  <2>1. c \in Conns /\ ConnOK(c)
    BY <1>3, <1>4 DEF PoolInv
  <2>2. conn[c] # "undialed"
    BY <1>3, <2>1 DEF ConnOK
  <2>3. c \notin Held
    BY <1>1, <1>3, <2>1 DEF InUseOK, Held
  <2> QED
    BY <1>3, <2>1, <2>2, <2>3, StatusOf
<1>15. \A d \in Conns : ConnStatus'[d] = IF conn'[d] = "undialed" THEN "fresh"
                                         ELSE IF d \in Held' THEN "busy" ELSE IF d \in Indexed' THEN "idle" ELSE "gone"
  BY DEF ConnStatus
<1>16. CASE i # 0
  <2>1. got \in Conns /\ ConnStatus[got] = "idle" /\ keyOf[got] = k
    BY <1>2, <1>3, <1>14, <1>16
  <2>2. ConnStatus'[got] = "busy"
    BY <1>2, <1>7, <1>11, <1>14, <1>15, <1>16
  <2>3. got \in Promise!Idle(k) /\ Promise!Only(got, "busy")
    BY <1>13, <1>16, <2>1, <2>2 DEF Promise!Idle, Promise!Only
  <2>4. user' = [user EXCEPT ![t] = [key |-> k, conn |-> got]]
    BY <1>10, <1>16
  <2> QED
    BY <1>6, <1>9, <2>3, <2>4 DEF Promise!Give, user
<1>17. CASE i = 0
  <2>1. \A d \in Conns : d # None
    BY CacheAssumption
  <2>2. Promise!Only(None, "gone")
    BY <1>13, <1>17, <2>1 DEF Promise!Only
  <2>3. ASSUME NEW c \in Promise!Idle(k) PROVE ConnStatus'[c] = "gone"
    <3>1. c \in Conns /\ ConnStatus[c] = "idle" /\ keyOf[c] = k
      BY DEF Promise!Idle
    <3>2. conn[c] # "undialed" /\ c \notin Held /\ c \in Indexed
      BY <3>1, StatusOf
    <3>3. c \in p
      BY <1>1, <1>2, <1>17, <3>1, <3>2 DEF Indexed, CacheOK
    <3> QED
      BY <1>7, <1>8, <1>11, <1>15, <1>17, <3>1, <3>2, <3>3
  <2>4. user' = [user EXCEPT ![t] = [key |-> k, conn |-> None]]
    BY <1>10, <1>17
  <2> QED
    BY <1>6, <1>9, <2>2, <2>3, <2>4 DEF Promise!HasToDial, user
<1> QED
  BY <1>16, <1>17

\* A task is done with its connection.
LEMMA ReleaseImplements ==
  ASSUME PoolInv, PoolInv', NEW t \in Tasks, StreamFail(t) \/ PutRefused(t) \/ PutInsert(t)
  PROVE  Promise!Release(t)
<1> DEFINE c == task[t].conn
           user == [u \in Tasks |-> [key |-> task[u].key, conn |-> task[u].conn]]
<1>1. /\ PoolTypeOK /\ CacheOK(cache) /\ InUseOK /\ TaskOK(t) /\ \A d \in Conns : ConnOK(d)
      /\ \A d \in Conns : ConnOK(d)'
  BY DEF PoolInv
<1>2. task[t].pc \in {"put", "call", "stream", "insert"} /\ task' = [task EXCEPT ![t] = Idle] /\ UNCHANGED keyOf
  BY DEF StreamFail, PutRefused, PutInsert, Put, Finishing, Return, cacheVars
<1>3. c \in Conns /\ c # None /\ keyOf[c] \in Keys
  BY <1>1, <1>2, CacheAssumption DEF TaskOK
<1>4. /\ \A u \in Tasks : task'[u].conn = IF u = t THEN None ELSE task[u].conn
      /\ user' = [user EXCEPT ![t] = Promise!Nobody]
      /\ user[t].conn = c
  BY <1>1, <1>2 DEF PoolTypeOK, Idle, Promise!Nobody
<1> HIDE DEF c, user
<1>5. c \notin Held' /\ \A d \in Conns \ {c} : d \in Held' <=> d \in Held
  BY <1>1, <1>3, <1>4 DEF Held, InUseOK, c
<1>6. \A d \in Conns : conn'[d] = "undialed" <=> conn[d] = "undialed"
  BY <1>1, <1>2 DEF ConnOK
<1>7. Indexed' \subseteq Indexed \cup {c}
  <2>1. CASE StreamFail(t) \/ PutRefused(t)
    BY <2>1 DEF StreamFail, PutRefused, cacheVars, Indexed
  <2>2. CASE PutInsert(t)
    <3>1. Put(c) /\ task[t].pc = "insert"
      BY <2>2 DEF PutInsert, c
    <3>2. opts.Capacity \in Nat /\ opts.KeyCapacity \in Nat
      <4>1. opts.Capacity \in Int /\ opts.KeyCapacity \in Int
        BY <1>1, CacheAssumption DEF PoolTypeOK
      <4>2. ~(opts.Capacity < 0 \/ opts.KeyCapacity < 0)
        BY <3>1 DEF PoolInv, LimitsOK
      <4> QED
        BY <4>1, <4>2
    <3>3. c \notin ToSet(cache.order)
      BY <1>1, <1>3 DEF InUseOK, c
    <3>4. \A k \in Keys : ToSet(cache'.entries[k]) \subseteq ToSet(cache.entries[k]) \cup {c}
      BY <1>1, <1>3, <3>1, <3>2, <3>3, PutMakesRoom
    <3> QED
      BY <3>4 DEF Indexed
  <2> QED
    BY <2>1, <2>2
<1>8. \A d \in Conns \ {c} : \/ ConnStatus'[d] = ConnStatus[d]
                             \/ ConnStatus[d] = "idle" /\ ConnStatus'[d] = "gone"
  BY <1>5, <1>6, <1>7, OthersKeep
<1>9. ConnStatus'[c] \in {"idle", "gone"}
  <2>1. conn'[c] # "undialed"
    BY <1>1, <1>3, <1>6 DEF InUseOK, c
  <2>2. ConnStatus'[c] = IF conn'[c] = "undialed" THEN "fresh"
                         ELSE IF c \in Held' THEN "busy" ELSE IF c \in Indexed' THEN "idle" ELSE "gone"
    BY <1>3 DEF ConnStatus
  <2> QED
    BY <1>5, <2>1, <2>2
<1>10. \E new \in {"idle", "gone"} : Promise!Only(c, new)
  BY <1>8, <1>9 DEF Promise!Only
<1> QED
  BY <1>2, <1>3, <1>4, <1>10 DEF Promise!Release, user

\* A task that has to dial gets a fresh connection, or gives up.
LEMMA DialImplements ==
  ASSUME PoolInv, NEW t \in Tasks
  PROVE  /\ \A c \in Conns : DialOK(t, c) => Promise!Dialed(t)
         /\ DialFail(t) => Promise!NotDialed(t)
<1> DEFINE user == [u \in Tasks |-> [key |-> task[u].key, conn |-> task[u].conn]]
<1>1. /\ PoolTypeOK /\ InUseOK /\ TaskOK(t)
  BY DEF PoolInv
<1>2. ASSUME task[t].pc = "dial"
      PROVE  /\ task[t].conn = None /\ task[t].key \in Keys /\ task[t].key # None
             /\ user[t].conn = None /\ user[t].key = task[t].key
  BY <1>1, <1>2, CacheAssumption DEF TaskOK
<1>3. ASSUME NEW c \in Conns, DialOK(t, c) PROVE Promise!Dialed(t)
  <2>1. /\ task[t].pc = "dial" /\ conn[c] = "undialed" /\ UNCHANGED cache
        /\ conn' = [conn EXCEPT ![c] = "open"] /\ keyOf' = [keyOf EXCEPT ![c] = task[t].key]
        /\ task' = [task EXCEPT ![t].pc = Got(task[t].op), ![t].conn = c]
    BY <1>3 DEF DialOK
  <2>2. /\ \A u \in Tasks : task'[u].conn = (IF u = t THEN c ELSE task[u].conn) /\ task'[u].key = task[u].key
        /\ \A d \in Conns : conn'[d] = IF d = c THEN "open" ELSE conn[d]
    BY <1>1, <2>1 DEF PoolTypeOK, TaskRecords
  <2>3. user' = [user EXCEPT ![t].conn = c]
    BY <1>1, <2>2, ZenonT(30) DEF PoolTypeOK, TaskRecords
  <2>4. Held' = Held \cup {c} /\ Indexed' = Indexed
    <3>1. task[t].conn = None /\ c # None
      BY <1>2, <2>1, CacheAssumption
    <3>2. \A d : d \in Held' <=> d # None /\ \E u \in Tasks : task'[u].conn = d
      BY DEF Held
    <3>3. \A d : d \in Held <=> d # None /\ \E u \in Tasks : task[u].conn = d
      BY DEF Held
    <3>4. \A u \in Tasks : task'[u].conn = IF u = t THEN c ELSE task[u].conn
      BY <2>2
    <3>5. Held' = Held \cup {c}
      BY <3>1, <3>2, <3>3, <3>4
    <3>6. Indexed' = Indexed
      BY <2>1 DEF Indexed
    <3> QED
      BY <3>5, <3>6
  <2>5. c \notin Held
    BY <1>1, <2>1 DEF InUseOK, Held
  <2>6. ConnStatus[c] = "fresh"
    BY <2>1, StatusOf
  <2>7. \A d \in Conns : ConnStatus'[d] = IF conn'[d] = "undialed" THEN "fresh"
                                          ELSE IF d \in Held' THEN "busy" ELSE IF d \in Indexed' THEN "idle" ELSE "gone"
    BY DEF ConnStatus
  <2>8. \A d \in Conns : ConnStatus'[d] = IF d = c THEN "busy" ELSE ConnStatus[d]
    BY <2>2, <2>4, <2>7, StatusOf
  <2>9. ConnStatus = [d \in Conns |-> ConnStatus[d]] /\ ConnStatus' = [d \in Conns |-> ConnStatus'[d]]
    BY DEF ConnStatus
  <2> HIDE DEF user
  <2>10. ConnStatus' = [ConnStatus EXCEPT ![c] = "busy"]
    BY <2>8, <2>9
  <2> QED
    BY <1>2, <2>1, <2>3, <2>6, <2>10 DEF Promise!Dialed, user
<1>4. ASSUME DialFail(t) PROVE Promise!NotDialed(t)
  <2>1. task[t].pc = "dial" /\ task' = [task EXCEPT ![t] = Idle] /\ UNCHANGED <<cache, conn, keyOf>>
    BY <1>4 DEF DialFail, Return, cacheVars
  <2>2. /\ \A u \in Tasks : task'[u].conn = task[u].conn
        /\ user' = [user EXCEPT ![t] = Promise!Nobody]
    BY <1>1, <1>2, <2>1 DEF PoolTypeOK, Idle, Promise!Nobody
  <2>3. Held' = Held /\ Indexed' = Indexed
    BY <2>1, <2>2 DEF Held, Indexed
  <2>4. ConnStatus' = ConnStatus
    BY <2>1, <2>3 DEF ConnStatus
  <2> QED
    BY <1>2, <2>1, <2>2, <2>4 DEF Promise!NotDialed
<1> QED
  BY <1>3, <1>4

\* The other steps change nobody's connection: they let go of idle ones at most.
LEMMA OthersImplement ==
  ASSUME PoolInv, PoolInv',
         \/ \E t \in Tasks : StreamOpen(t) \/ PutAccepted(t)
         \/ \E k \in Keys : HandleClose(k)
         \/ PoolClose
         \/ \E c \in Conns : Lose(c)
         \/ Callback
         \/ UNCHANGED vars
  PROVE  Promise!Discard
<1> DEFINE user == [u \in Tasks |-> [key |-> task[u].key, conn |-> task[u].conn]]
<1>1. /\ PoolTypeOK /\ CacheOK(cache) /\ CacheOK(cache)' /\ \A d \in Conns : ConnOK(d) /\ ConnOK(d)'
  BY DEF PoolInv
<1>2. UNCHANGED keyOf
  BY DEF StreamOpen, PutAccepted, HandleClose, PoolClose, CacheClose, Lose, Callback, ExpireFire,
         ExpireClose, ExpireFilter, vars, cacheVars
<1>3. \A u \in Tasks : task'[u].conn = task[u].conn /\ task'[u].key = task[u].key
  <2>1. CASE \E t \in Tasks : StreamOpen(t) \/ PutAccepted(t)
    BY <1>1, <2>1 DEF StreamOpen, PutAccepted, Goto, PoolTypeOK, TaskRecords
  <2>2. CASE ~ \E t \in Tasks : StreamOpen(t) \/ PutAccepted(t)
    BY <2>2 DEF HandleClose, PoolClose, Lose, Callback, vars, poolVars
  <2> QED
    BY <2>1, <2>2
<1>4. user' = user
  BY <1>3
<1>5. Held' = Held
  BY <1>3 DEF Held
<1>6. Indexed' \subseteq Indexed
  <2>1. CASE PoolClose
    <3>1. cache' = EmptyCache
      BY <2>1 DEF PoolClose, CacheClose
    <3>2. Indexed' = {}
      BY <3>1, EmptyCacheOK DEF Indexed
    <3> QED
      BY <3>2
  <2>2. ASSUME NEW c \in Conns, ExpireFilter(c) PROVE Indexed' \subseteq Indexed
    <3>1. cache' = FilterCacheKey(cache, keyOf[c]) /\ keyOf[c] \in Keys
      BY <1>1, <2>2 DEF ExpireFilter, ConnOK, PoolInv, PoolTypeOK
    <3>2. Smaller(cache', cache)
      BY <1>1, <3>1, FilterCacheKeyShrinks
    <3> QED
      BY <3>2 DEF Smaller, Indexed
  <2>3. CASE UNCHANGED cache
    BY <2>3 DEF Indexed
  <2> QED
    BY <2>1, <2>2, <2>3 DEF StreamOpen, PutAccepted, HandleClose, Lose, Callback, ExpireFire,
                            ExpireClose, vars, cacheVars
<1>7. \A d \in Conns : conn'[d] = "undialed" <=> conn[d] = "undialed"
  BY <1>1, <1>2 DEF ConnOK
<1>8. \A d \in Conns \ {None} : \/ ConnStatus'[d] = ConnStatus[d]
                                \/ ConnStatus[d] = "idle" /\ ConnStatus'[d] = "gone"
  BY <1>5, <1>6, <1>7, OthersKeep
<1>9. Promise!Only(None, "gone")
  BY <1>8, CacheAssumption DEF Promise!Only
<1> HIDE DEF user
<1> QED
  BY <1>2, <1>4, <1>9 DEF Promise!Discard, user

\* The pool over its cache implements ConnOwner: a connection has one user at a time, is used
\* for the key it was dialed for only, does not come back once it was let go of, and a
\* task dials only when nothing usable is left for its key (pool.go:62-115, cache.go:204-275).
THEOREM PoolKeepsPromise == Spec => KeepsPromise
<1>1. Init => Promise!OwnerInit
  <2> SUFFICES ASSUME Init PROVE Promise!OwnerInit
    OBVIOUS
  <2>1. conn = [c \in Conns |-> "undialed"] /\ keyOf = [c \in Conns |-> None] /\ task = [t \in Tasks |-> Idle]
    BY DEF Init, CacheInit
  <2>2. ConnStatus = [c \in Conns |-> "fresh"]
    BY <2>1 DEF ConnStatus
  <2>3. [t \in Tasks |-> [key |-> task[t].key, conn |-> task[t].conn]] = [t \in Tasks |-> Promise!Nobody]
    BY <2>1 DEF Idle, Promise!Nobody
  <2> QED
    BY <2>1, <2>2, <2>3 DEF Promise!OwnerInit
<1>2. PoolInv /\ PoolInv' /\ [Next]_vars => [Promise!OwnerNext]_(Promise!ownerVars)
  <2> SUFFICES ASSUME PoolInv, PoolInv', [Next]_vars PROVE Promise!OwnerNext
    OBVIOUS
  <2>1. ASSUME NEW t \in Tasks, NEW op \in Ops, NEW k \in Keys, Begin(t, op, k) PROVE Promise!OwnerNext
    BY <2>1, BeginImplements DEF Promise!OwnerNext
  <2>2. ASSUME NEW t \in Tasks, (\E c \in Conns : DialOK(t, c)) \/ DialFail(t) PROVE Promise!OwnerNext
    BY <2>2, DialImplements DEF Promise!OwnerNext
  <2>3. ASSUME NEW t \in Tasks, StreamFail(t) \/ PutRefused(t) \/ PutInsert(t) PROVE Promise!OwnerNext
    BY <2>3, ReleaseImplements DEF Promise!OwnerNext
  <2>4. CASE \/ \E t \in Tasks : StreamOpen(t) \/ PutAccepted(t)
             \/ \E k \in Keys : HandleClose(k)
             \/ PoolClose
             \/ \E c \in Conns : Lose(c)
             \/ Callback
             \/ UNCHANGED vars
    BY <2>4, OthersImplement DEF Promise!OwnerNext
  <2> QED
    BY <2>1, <2>2, <2>3, <2>4 DEF Next
<1> QED
  BY <1>1, <1>2, PoolInvariant, PTL DEF Spec, KeepsPromise, Promise!OwnerSpec
==============================================================================
