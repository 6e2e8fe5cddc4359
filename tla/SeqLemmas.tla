------------------------------ MODULE SeqLemmas ------------------------------
(***************************************************************************)
(* Facts about sequences and naturals that the proofs of several components use.   *)
(***************************************************************************)
EXTENDS Integers, Sequences, SequencesExt, SequenceTheorems, FiniteSetTheorems,
        NaturalsInduction, WellFoundedInduction, TLAPS

\* A set of naturals has a least element: an induction looks at the first number for
\* which its claim fails.
LEMMA LeastNat ==
  ASSUME NEW S, S \subseteq Nat, S # {}
  PROVE  \E m \in S : \A n \in S : m <= n
<1>1. \E m \in S : \A n \in S : ~(<<n, m>> \in OpToRel(<, Nat))
  BY NatLessThanWellFounded, WFMin
<1>2. \A m, n \in Nat : n < m => <<n, m>> \in OpToRel(<, Nat)
  BY DEF OpToRel
<1>3. \A m, n \in Nat : ~(n < m) => m <= n
  OBVIOUS
<1> QED
  BY <1>1, <1>2, <1>3

\* Taking an element out of a sequence without duplicates takes out nothing else.
LEMMA RemoveFirstRemoves ==
  ASSUME NEW T, NEW s \in Seq(T), IsInjective(s), NEW e
  PROVE  /\ RemoveFirst(s, e) \in Seq(T)
         /\ IsInjective(RemoveFirst(s, e))
         /\ ToSet(RemoveFirst(s, e)) = ToSet(s) \ {e}
         /\ Len(RemoveFirst(s, e)) = IF e \in ToSet(s) THEN Len(s) - 1 ELSE Len(s)
<1> DEFINE r == RemoveFirst(s, e)
<1>1. Len(s) \in Nat /\ DOMAIN s = 1 .. Len(s)
  OBVIOUS
<1>2. CASE ~ \E i \in 1 .. Len(s) : s[i] = e
  <2>1. r = s /\ e \notin ToSet(s)
    BY <1>1, <1>2 DEF RemoveFirst, ToSet
  <2> QED
    BY <2>1
<1>3. CASE \E i \in 1 .. Len(s) : s[i] = e
  <2> DEFINE I == {j \in 1 .. Len(s) : s[j] = e}
             p == SelectInSeq(s, LAMBDA v : v = e)
  <2>1. I \subseteq Nat /\ I # {}
    BY <1>3
  <2>2. p \in I
    <3> HIDE DEF I
    <3>1. \E m \in I : \A n \in I : m <= n
      BY <2>1, LeastNat
    <3>2. p = IF I # {} THEN Min(I) ELSE 0
      BY DEF SelectInSeq, I
    <3> QED
      BY <2>1, <3>1, <3>2 DEF Min
  <2>3. r = SubSeq(s, 1, p - 1) \o SubSeq(s, p + 1, Len(s))
    BY <1>3 DEF RemoveFirst, RemoveAt
  <2> HIDE DEF p, r
  <2>4. p \in 1 .. Len(s) /\ s[p] = e
    BY <2>2
  <2> DEFINE front == SubSeq(s, 1, p - 1)
             back == SubSeq(s, p + 1, Len(s))
             From(i) == IF i < p THEN i ELSE i + 1
  <2>5. front \in Seq(T) /\ Len(front) = p - 1 /\ \A i \in 1 .. p - 1 : front[i] = s[i]
    BY <2>4
  <2>6. back \in Seq(T) /\ Len(back) = Len(s) - p /\ \A i \in 1 .. Len(s) - p : back[i] = s[p + i]
    BY <2>4
  <2>7. r \in Seq(T) /\ Len(r) = Len(s) - 1 /\ \A i \in 1 .. Len(s) - 1 : r[i] = s[From(i)]
    <3> HIDE DEF front, back
    <3>1. /\ front \o back \in Seq(T) /\ Len(front \o back) = Len(front) + Len(back)
          /\ \A i \in 1 .. Len(front) + Len(back) :
               (front \o back)[i] = IF i <= Len(front) THEN front[i] ELSE back[i - Len(front)]
      BY <2>5, <2>6, ConcatProperties
    <3>2. r = front \o back
      BY <2>3 DEF front, back
    <3>3. Len(r) = Len(s) - 1
      <4> DEFINE n == Len(s)
      <4>1. n \in Nat /\ p \in 1 .. n /\ Len(front) = p - 1 /\ Len(back) = n - p
        BY <1>1, <2>4, <2>5, <2>6
      <4> HIDE DEF n
      <4>2. (p - 1) + (n - p) = n - 1
        BY <4>1
      <4> QED
        BY <4>1, <4>2, <3>1, <3>2 DEF n
    <3>4. ASSUME NEW i \in 1 .. Len(s) - 1 PROVE r[i] = s[From(i)]
      <4>1. CASE i < p
        BY <4>1, <1>1, <2>4, <2>5, <2>6, <3>1, <3>2
      <4>2. CASE ~(i < p)
        <5>1. r[i] = back[i - (p - 1)] /\ i - (p - 1) \in 1 .. Len(s) - p
          BY <4>2, <1>1, <2>4, <2>5, <2>6, <3>1, <3>2
        <5>2. back[i - (p - 1)] = s[p + (i - (p - 1))] /\ p + (i - (p - 1)) = i + 1
          BY <5>1, <2>4, <2>6, SMTT(30)
        <5> QED
          BY <4>2, <5>1, <5>2
      <4> QED
        BY <4>1, <4>2
    <3> QED
      BY <3>1, <3>2, <3>3, <3>4
  <2>8. DOMAIN r = 1 .. Len(s) - 1
    BY <2>7
  <2>9. /\ \A i \in 1 .. Len(s) - 1 : From(i) \in 1 .. Len(s) /\ From(i) # p
        /\ \A i, j \in 1 .. Len(s) - 1 : From(i) = From(j) => i = j
        /\ \A j \in 1 .. Len(s) : j # p => \E i \in 1 .. Len(s) - 1 : From(i) = j
    <3> DEFINE n == Len(s)
    <3> HIDE DEF n
    <3>1. n \in Nat /\ p \in 1 .. n
      BY <1>1, <2>4 DEF n
    <3>2. ASSUME NEW j \in 1 .. n, j # p PROVE \E i \in 1 .. n - 1 : From(i) = j
      <4>1. CASE j < p
        <5>1. j \in 1 .. n - 1
          BY <4>1, <3>1
        <5> QED
          BY <4>1, <5>1
      <4>2. CASE j > p
        <5>1. j - 1 \in 1 .. n - 1
          BY <4>2, <3>1
        <5>2. ~(j - 1 < p) /\ (j - 1) + 1 = j
          BY <4>2, <3>1
        <5> QED
          BY <5>1, <5>2
      <4> QED
        BY <4>1, <4>2, <3>1, <3>2
    <3>3. /\ \A i \in 1 .. n - 1 : From(i) \in 1 .. n /\ From(i) # p
          /\ \A i, j \in 1 .. n - 1 : From(i) = From(j) => i = j
      BY <3>1
    <3> QED
      BY <3>2, <3>3 DEF n
  <2> HIDE DEF From
  <2>10. \A i, j \in 1 .. Len(s) : s[i] = s[j] => i = j
    BY <1>1 DEF IsInjective
  <2>11. IsInjective(r)
    <3>1. ASSUME NEW i \in DOMAIN r, NEW j \in DOMAIN r, r[i] = r[j] PROVE i = j
      <4>1. s[From(i)] = s[From(j)]
        BY <2>7, <2>8, <3>1
      <4>2. From(i) = From(j)
        BY <2>8, <2>9, <2>10, <4>1
      <4> QED
        BY <2>8, <2>9, <4>2
    <3> QED
      BY <3>1 DEF IsInjective
  <2>12. ToSet(r) = ToSet(s) \ {e}
    <3>1. ToSet(r) = {s[From(i)] : i \in 1 .. Len(s) - 1}
      BY <2>7, <2>8 DEF ToSet
    <3>2. ToSet(s) = {s[j] : j \in 1 .. Len(s)}
      BY <1>1 DEF ToSet
    <3>3. e \notin ToSet(r)
      BY <2>4, <2>9, <2>10, <3>1
    <3>4. ToSet(r) \subseteq ToSet(s)
      BY <2>9, <3>1, <3>2
    <3>5. ASSUME NEW j \in 1 .. Len(s), s[j] # e PROVE s[j] \in ToSet(r)
      <4>1. PICK i \in 1 .. Len(s) - 1 : From(i) = j
        BY <2>4, <2>9, <3>5
      <4> QED
        BY <4>1, <3>1
    <3> QED
      BY <3>2, <3>3, <3>4, <3>5
  <2>13. e \in ToSet(s)
    BY <1>1, <2>4 DEF ToSet
  <2> QED
    BY <2>7, <2>11, <2>12, <2>13 DEF r
<1> QED
  BY <1>2, <1>3
==============================================================================
