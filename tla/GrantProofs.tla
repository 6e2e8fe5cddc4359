----------------------------- MODULE GrantProofs -----------------------------
(***************************************************************************)
(* Machine-checked proofs about access grants: for any owner's store with keys for   *)
(* buckets, any prefixes, permissions and number of grants, restricting, attenuating  *)
(* and parsing keep the names and the keys that the owner gives to paths, and never   *)
(* allow more than before.                                                           *)
(***************************************************************************)
EXTENDS Grant, SeqLemmas

------------------------------------------------------------------------------
(* Sequences. *)

PlainPaths == {p \in Seq(Names) : Len(p) >= 1}

LEMMA TakeIs ==
  ASSUME NEW T, NEW s \in Seq(T), NEW n \in 0 .. Len(s)
  PROVE  /\ Take(s, n) \in Seq(T) /\ Len(Take(s, n)) = n
         /\ DOMAIN Take(s, n) = 1 .. n
         /\ \A i \in 1 .. n : Take(s, n)[i] = s[i]
BY DEF Take

LEMMA DropIs ==
  ASSUME NEW T, NEW s \in Seq(T), NEW n \in 0 .. Len(s)
  PROVE  /\ Drop(s, n) \in Seq(T) /\ Len(Drop(s, n)) = Len(s) - n
         /\ DOMAIN Drop(s, n) = 1 .. Len(s) - n
         /\ \A i \in 1 .. Len(s) - n : Drop(s, n)[i] = s[n + i]
BY DEF Drop

\* Sequences with the same elements are the same.
LEMMA SameSeq ==
  ASSUME NEW T, NEW s \in Seq(T), NEW r \in Seq(T), Len(s) = Len(r), \A i \in 1 .. Len(s) : s[i] = r[i]
  PROVE  s = r
OBVIOUS

LEMMA TakeTake ==
  ASSUME NEW T, NEW s \in Seq(T), NEW n \in 0 .. Len(s), NEW m \in 0 .. n
  PROVE  Take(Take(s, n), m) = Take(s, m)
<1>1. m \in 0 .. Len(s) /\ 1 .. m \subseteq 1 .. n
  OBVIOUS
<1>2. Take(s, n) \in Seq(T) /\ Len(Take(s, n)) = n /\ \A i \in 1 .. n : Take(s, n)[i] = s[i]
  BY TakeIs
<1>3. /\ Take(Take(s, n), m) \in Seq(T) /\ Len(Take(Take(s, n), m)) = m
      /\ \A i \in 1 .. m : Take(Take(s, n), m)[i] = Take(s, n)[i]
  BY <1>2, TakeIs
<1>4. Take(s, m) \in Seq(T) /\ Len(Take(s, m)) = m /\ \A i \in 1 .. m : Take(s, m)[i] = s[i]
  BY <1>1, TakeIs
<1>5. \A i \in 1 .. m : Take(Take(s, n), m)[i] = Take(s, m)[i]
  BY <1>1, <1>2, <1>3, <1>4
<1> QED
  BY <1>3, <1>4, <1>5, SameSeq

LEMMA TakeAll ==
  ASSUME NEW T, NEW s \in Seq(T)
  PROVE  Take(s, Len(s)) = s
<1>1. Len(s) \in 0 .. Len(s)
  OBVIOUS
<1> QED
  BY <1>1, TakeIs, SameSeq

\* A sequence is what is taken and what is left.
LEMMA TakeDrop ==
  ASSUME NEW T, NEW s \in Seq(T), NEW n \in 0 .. Len(s)
  PROVE  Take(s, n) \o Drop(s, n) = s
<1> DEFINE t == Take(s, n)
           d == Drop(s, n)
<1>1. t \in Seq(T) /\ Len(t) = n /\ \A i \in 1 .. n : t[i] = s[i]
  BY TakeIs
<1>2. d \in Seq(T) /\ Len(d) = Len(s) - n /\ \A i \in 1 .. Len(s) - n : d[i] = s[n + i]
  BY DropIs
<1> HIDE DEF t, d
<1>3. t \o d \in Seq(T) /\ Len(t \o d) = Len(s)
  BY <1>1, <1>2
<1>4. ASSUME NEW i \in 1 .. Len(s) PROVE (t \o d)[i] = s[i]
  <2>1. CASE i <= n
    BY <1>1, <1>2, <2>1
  <2>2. CASE i > n
    <3>1. i - n \in 1 .. Len(s) - n /\ n + (i - n) = i
      BY <2>2
    <3>2. (t \o d)[i] = d[i - n]
      BY <1>1, <1>2, <2>2
    <3> QED
      BY <1>2, <3>1, <3>2
  <2>3. i <= n \/ i > n
    OBVIOUS
  <2> QED
    BY <2>1, <2>2, <2>3
<1> QED
  BY <1>3, <1>4, SameSeq DEF t, d

\* Elements taken from what is left.
LEMMA DropTake ==
  ASSUME NEW T, NEW s \in Seq(T), NEW n \in 0 .. Len(s), NEW m \in n .. Len(s)
  PROVE  Drop(Take(s, m), n) = Take(Drop(s, n), m - n)
<1> DEFINE t == Take(s, m)
           d == Drop(s, n)
<1>1. m \in 0 .. Len(s) /\ n \in 0 .. m /\ m - n \in 0 .. Len(s) - n
  OBVIOUS
<1>2. t \in Seq(T) /\ Len(t) = m /\ \A i \in 1 .. m : t[i] = s[i]
  BY <1>1, TakeIs
<1>3. d \in Seq(T) /\ Len(d) = Len(s) - n /\ \A i \in 1 .. Len(s) - n : d[i] = s[n + i]
  BY DropIs
<1> HIDE DEF t, d
<1>4. Drop(t, n) \in Seq(T) /\ Len(Drop(t, n)) = m - n /\ \A i \in 1 .. m - n : Drop(t, n)[i] = t[n + i]
  BY <1>1, <1>2, DropIs
<1>5. Take(d, m - n) \in Seq(T) /\ Len(Take(d, m - n)) = m - n /\ \A i \in 1 .. m - n : Take(d, m - n)[i] = d[i]
  BY <1>1, <1>3, TakeIs
<1>6. \A i \in 1 .. m - n : i \in 1 .. Len(s) - n /\ n + i \in 1 .. m
  OBVIOUS
<1>7. \A i \in 1 .. m - n : Drop(t, n)[i] = Take(d, m - n)[i]
  BY <1>2, <1>3, <1>4, <1>5, <1>6
<1> QED
  BY <1>4, <1>5, <1>7, SameSeq DEF t, d

\* A set of positions has a last one.
LEMMA MaxIs ==
  ASSUME NEW n \in Nat, NEW S, S \subseteq 0 .. n, S # {}
  PROVE  Max(S) \in S /\ \A m \in S : m <= Max(S)
<1> DEFINE R == {n - m : m \in S}
<1>0. \A m \in S : m \in Nat /\ n - m \in Nat
  OBVIOUS
<1>1. R \subseteq Nat /\ R # {}
  BY <1>0
<1>2. PICK k \in R : \A j \in R : k <= j
  BY <1>1, LeastNat
<1>3. PICK m \in S : k = n - m
  OBVIOUS
<1>4. \A j \in S : n - m <= n - j
  BY <1>2, <1>3
<1> HIDE DEF R
<1>5. ASSUME NEW j \in S PROVE m >= j
  <2>1. j \in Nat /\ m \in Nat /\ n - m <= n - j
    BY <1>0, <1>4
  <2> QED
    BY <2>1
<1>6. Max(S) \in S /\ \A j \in S : Max(S) >= j
  BY <1>5, Zenon DEF Max
<1>7. Max(S) \in Nat /\ \A j \in S : j \in Nat
  BY <1>0, <1>6
<1> QED
  BY <1>6, <1>7

------------------------------------------------------------------------------
(* The names and keys that an owner's store gives to paths. *)

OwnerStore(R) ==
  /\ R = [defaultKey |-> R.defaultKey, cipher |-> R.cipher,
          bases |-> [q \in DOMAIN R.bases |-> R.bases[q]], bypass |-> "off"]
  /\ R.defaultKey \in PathKeys \cup {None} /\ R.cipher \in Ciphers
  /\ IsFiniteSet(DOMAIN R.bases)
  /\ \A q \in DOMAIN R.bases :
       /\ q \in {<<b>> : b \in Buckets}
       /\ R.bases[q].key \in PathKeys
       /\ R.bases[q] = [enc |-> q, key |-> R.bases[q].key, cipher |-> R.cipher]

BucketKey(R, b) ==
  IF <<b>> \in DOMAIN R.bases THEN R.bases[<<b>>].key ELSE DerivePathKeyComponents(R.defaultKey, <<b>>)

KeyOf(R, p) == DerivePathKeyComponents(BucketKey(R, p[1]), Drop(p, 1))

EncOf(R, p) ==
  [i \in 1 .. Len(p) |-> IF i = 1 THEN p[1]
                         ELSE EncryptPathComponent(p[i], R.cipher, KeyOf(R, Take(p, i - 1)))]

\* Encrypted components and paths.
EncParts(c) == IF c = "null" THEN Names ELSE [key : PathKeys, comp : Names]
EncPaths(c) ==
  {e \in Seq(Names \cup EncParts(c)) :
     Len(e) >= 1 /\ e[1] \in Names /\ \A i \in 2 .. Len(e) : e[i] \in EncParts(c)}

\* Components have no slash, and only what base64 decodes to can have one.
LEMMA NoSlash ==
  /\ Comps \cap WithSlash = {} /\ \A c : EncParts(c) \subseteq Comps
  /\ \A encs \in Seq(Comps) : Joined(encs) = encs
<1>1. \A y \in Encrypted : y \notin WithSlash
  <2>1. \A y \in Encrypted : DOMAIN y = {"key", "comp"}
    BY DEF Encrypted
  <2>2. \A y \in WithSlash : DOMAIN y = {"slashed"}
    BY DEF WithSlash
  <2>3. {"key", "comp"} # {"slashed"}
    OBVIOUS
  <2> QED
    BY <2>1, <2>2, <2>3, Zenon
<1>2. Comps \cap WithSlash = {}
  BY <1>1, PathAssumption, Zenon DEF Comps
<1>3. \A c : EncParts(c) \subseteq Comps
  BY Zenon DEF EncParts, Comps, Encrypted
<1>4. ASSUME NEW encs \in Seq(Comps) PROVE Joined(encs) = encs
  <2>1. \A i \in DOMAIN encs : encs[i] \in Comps
    BY <1>4
  <2>2. ~ \E i \in DOMAIN encs : encs[i] \in WithSlash
    BY <1>2, <2>1, Zenon
  <2> QED
    BY <2>2, Zenon DEF Joined
<1> QED
  BY <1>2, <1>3, <1>4

\* Bypass is not a cipher of keys.
LEMMA NotBase64 ==
  \A c \in Ciphers : c # "base64"
BY DEF Ciphers

LEMMA DeriveIs ==
  ASSUME NEW key \in PathKeys, NEW s \in Seq(Names)
  PROVE  /\ DerivePathKeyComponents(key, s) \in PathKeys
         /\ DerivePathKeyComponents(key, s) = [root |-> key.root, along |-> key.along \o s]
<1>1. key = [root |-> key.root, along |-> key.along] /\ key.root \in Roots /\ key.along \in Seq(Names)
  BY DEF PathKeys
<1>2. DerivePathKeyComponents(key, s) = [root |-> key.root, along |-> key.along \o s]
  <2>1. \A x : [key EXCEPT !.along = x] = [root |-> key.root, along |-> x]
    BY DEF PathKeys
  <2>2. DerivePathKeyComponents(key, s) = [key EXCEPT !.along = key.along \o s]
    BY Zenon DEF DerivePathKeyComponents
  <2> QED
    BY <2>1, <2>2, Zenon
<1>3. key.along \o s \in Seq(Names)
  BY <1>1
<1> QED
  BY <1>1, <1>2, <1>3 DEF PathKeys

LEMMA DeriveTwice ==
  ASSUME NEW key \in PathKeys, NEW s \in Seq(Names), NEW r \in Seq(Names)
  PROVE  DerivePathKeyComponents(DerivePathKeyComponents(key, s), r) = DerivePathKeyComponents(key, s \o r)
<1> DEFINE k == DerivePathKeyComponents(key, s)
<1>1. k \in PathKeys /\ k = [root |-> key.root, along |-> key.along \o s]
  BY DeriveIs
<1>2. DerivePathKeyComponents(k, r) = [root |-> k.root, along |-> k.along \o r]
  BY <1>1, DeriveIs
<1>3. s \o r \in Seq(Names) /\ key.along \in Seq(Names)
  BY DEF PathKeys
<1>4. DerivePathKeyComponents(key, s \o r) = [root |-> key.root, along |-> key.along \o (s \o r)]
  BY <1>3, DeriveIs
<1>5. (key.along \o s) \o r = key.along \o (s \o r)
  <2>1. \A a \in Seq(Names) : (a \o s) \o r = a \o (s \o r)
    BY ConcatAssociative
  <2> QED
    BY <1>3, <2>1, Zenon
<1> HIDE DEF k
<1>6. k.root = key.root /\ k.along = key.along \o s
  <2>1. \A x, y : [root |-> x, along |-> y].root = x /\ [root |-> x, along |-> y].along = y
    OBVIOUS
  <2> QED
    BY <1>1, <2>1, Zenon
<1> QED
  BY <1>2, <1>4, <1>5, <1>6, Zenon DEF k

\* A store that has a base for a prefix of a path has one for the path.
LEMMA HasBaseBelow ==
  ASSUME NEW store, NEW p \in PlainPaths, NEW n \in 1 .. Len(p), HasBase(store, Take(p, n))
  PROVE  HasBase(store, p)
<1>1. p \in Seq(Names) /\ n \in 0 .. Len(p) /\ Len(Take(p, n)) = n
  BY TakeIs DEF PlainPaths
<1>2. CASE store.defaultKey # None
  BY <1>2 DEF HasBase
<1>3. CASE store.defaultKey = None
  <2>1. PICK m \in 1 .. n : Take(Take(p, n), m) \in DOMAIN store.bases
    BY <1>1, <1>3 DEF HasBase
  <2>2. Take(Take(p, n), m) = Take(p, m) /\ m \in 1 .. Len(p)
    BY <1>1, TakeTake
  <2> QED
    BY <2>1, <2>2 DEF HasBase
<1> QED
  BY <1>2, <1>3

LEMMA BucketPrefix ==
  ASSUME NEW p \in PlainPaths
  PROVE  /\ Take(p, 1) = <<p[1]>> /\ p[1] \in Names /\ p \in Seq(Names) /\ Len(p) \in Nat /\ Len(p) >= 1
         /\ 1 \in 1 .. Len(p) /\ 1 \in 0 .. Len(p) /\ Take(p, 1) \in PlainPaths
<1>1. p \in Seq(Names) /\ Len(p) \in Nat /\ Len(p) >= 1 /\ 1 \in 1 .. Len(p) /\ 1 \in 0 .. Len(p) /\ p[1] \in Names
  BY DEF PlainPaths
<1>2. Take(p, 1) \in Seq(Names) /\ Len(Take(p, 1)) = 1 /\ \A i \in 1 .. 1 : Take(p, 1)[i] = p[i]
  BY <1>1, TakeIs
<1>3. Take(p, 1)[1] = p[1]
  BY <1>2
<1>4. <<p[1]>> \in Seq(Names) /\ Len(<<p[1]>>) = 1 /\ <<p[1]>>[1] = p[1]
  BY <1>1
<1>5. Take(p, 1) = <<p[1]>>
  BY <1>2, <1>3, <1>4, SameSeq
<1>6. Take(p, 1) \in PlainPaths
  BY <1>2 DEF PlainPaths
<1> QED
  BY <1>1, <1>5, <1>6

\* An owner's bases are at buckets.
LEMMA OwnerHasBase ==
  ASSUME NEW R, OwnerStore(R), NEW p \in PlainPaths
  PROVE  /\ HasBase(R, p) <=> R.defaultKey # None \/ <<p[1]>> \in DOMAIN R.bases
         /\ HasBase(R, p) => BucketKey(R, p[1]) \in PathKeys
<1>1. Take(p, 1) = <<p[1]>> /\ 1 \in 1 .. Len(p) /\ p[1] \in Names /\ p \in Seq(Names) /\ Len(p) \in Nat
  BY BucketPrefix
<1>2. ASSUME NEW n \in 1 .. Len(p), Take(p, n) \in DOMAIN R.bases PROVE <<p[1]>> \in DOMAIN R.bases
  <2>1. n \in 0 .. Len(p) /\ Len(Take(p, n)) = n
    BY <1>1, TakeIs
  <2>2. PICK b \in Buckets : Take(p, n) = <<b>>
    BY <1>2 DEF OwnerStore
  <2>3. n = 1
    BY <2>1, <2>2
  <2> QED
    BY <1>1, <1>2, <2>3
<1>3. HasBase(R, p) <=> R.defaultKey # None \/ <<p[1]>> \in DOMAIN R.bases
  BY <1>1, <1>2 DEF HasBase
<1>4. <<p[1]>> \in Seq(Names)
  BY <1>1
<1>5. R.defaultKey # None => DerivePathKeyComponents(R.defaultKey, <<p[1]>>) \in PathKeys
  BY <1>4, DeriveIs DEF OwnerStore
<1>6. <<p[1]>> \in DOMAIN R.bases => R.bases[<<p[1]>>].key \in PathKeys
  BY DEF OwnerStore
<1> QED
  BY <1>3, <1>5, <1>6 DEF BucketKey

\* Prefixes of a path have its bucket.
LEMMA SameBucket ==
  ASSUME NEW R, OwnerStore(R), NEW p \in PlainPaths, NEW n \in 1 .. Len(p)
  PROVE  /\ Take(p, n) \in PlainPaths /\ Take(p, n)[1] = p[1] /\ Len(Take(p, n)) = n
         /\ HasBase(R, Take(p, n)) <=> HasBase(R, p)
<1>1. p \in Seq(Names) /\ n \in 0 .. Len(p) /\ 1 \in 1 .. n /\ n >= 1
  BY DEF PlainPaths
<1>2. Take(p, n) \in Seq(Names) /\ Len(Take(p, n)) = n /\ Take(p, n)[1] = p[1]
  BY <1>1, TakeIs
<1>3. Take(p, n) \in PlainPaths
  BY <1>1, <1>2 DEF PlainPaths
<1> QED
  BY <1>2, <1>3, OwnerHasBase

\* The key of a path is derived from that of any prefix along the rest.
LEMMA KeyExtends ==
  ASSUME NEW R, OwnerStore(R), NEW p \in PlainPaths, HasBase(R, p), NEW n \in 1 .. Len(p)
  PROVE  /\ KeyOf(R, p) \in PathKeys
         /\ DerivePathKeyComponents(KeyOf(R, Take(p, n)), Drop(p, n)) = KeyOf(R, p)
<1> DEFINE k == BucketKey(R, p[1])
           t == Take(p, n)
<1>1. k \in PathKeys
  BY OwnerHasBase
<1>2. p \in Seq(Names) /\ 1 \in 0 .. Len(p) /\ n \in 0 .. Len(p) /\ n \in 1 .. Len(p) /\ n - 1 \in 0 .. Len(p) - 1
  BY DEF PlainPaths
<1>3. Drop(p, 1) \in Seq(Names) /\ Len(Drop(p, 1)) = Len(p) - 1 /\ Drop(p, n) \in Seq(Names)
  BY <1>2, DropIs
<1>4. t \in Seq(Names) /\ Len(t) = n /\ t[1] = p[1]
  BY <1>2, SameBucket, TakeIs
<1>5. Drop(t, 1) = Take(Drop(p, 1), n - 1)
  BY <1>2, DropTake
<1>6. Drop(t, 1) \in Seq(Names)
  BY <1>2, <1>4, DropIs
<1>7. Drop(t, 1) \o Drop(p, n) = Drop(p, 1)
  <2> DEFINE d == Drop(p, 1)
  <2>1. Take(d, n - 1) \o Drop(d, n - 1) = d
    BY <1>2, <1>3, TakeDrop
  <2>2. Drop(d, n - 1) = Drop(p, n)
    <3>1. /\ Drop(d, n - 1) \in Seq(Names) /\ Len(Drop(d, n - 1)) = Len(p) - n
          /\ \A i \in 1 .. Len(p) - n : Drop(d, n - 1)[i] = d[(n - 1) + i]
      <4> DEFINE j == n - 1
      <4>1. d \in Seq(Names) /\ j \in 0 .. Len(d) /\ Len(d) - j = Len(p) - n
        BY <1>2, <1>3
      <4> HIDE DEF d, j
      <4>2. /\ Drop(d, j) \in Seq(Names) /\ Len(Drop(d, j)) = Len(d) - j
            /\ \A i \in 1 .. Len(d) - j : Drop(d, j)[i] = d[j + i]
        BY <4>1, DropIs
      <4>3. /\ Drop(d, j) \in Seq(Names) /\ Len(Drop(d, j)) = Len(p) - n
            /\ \A i \in 1 .. Len(p) - n : Drop(d, j)[i] = d[j + i]
        BY <4>1, <4>2
      <4> QED
        BY <4>3 DEF j
    <3>2. Len(Drop(p, n)) = Len(p) - n /\ \A i \in 1 .. Len(p) - n : Drop(p, n)[i] = p[n + i]
      BY <1>2, DropIs
    <3>3. \A i \in 1 .. Len(p) - 1 : d[i] = p[1 + i]
      BY <1>2, DropIs
    <3>4. \A i \in 1 .. Len(p) - n : (n - 1) + i \in 1 .. Len(p) - 1 /\ 1 + ((n - 1) + i) = n + i
      BY <1>2
    <3>5. \A i \in 1 .. Len(p) - n : Drop(d, n - 1)[i] = Drop(p, n)[i]
      BY <3>1, <3>2, <3>3, <3>4
    <3> QED
      BY <1>3, <3>1, <3>2, <3>5, SameSeq
  <2> QED
    BY <1>5, <2>1, <2>2
<1>8. KeyOf(R, t) = DerivePathKeyComponents(k, Drop(t, 1))
  BY <1>4 DEF KeyOf
<1> HIDE DEF k, t
<1>9. DerivePathKeyComponents(DerivePathKeyComponents(k, Drop(t, 1)), Drop(p, n))
        = DerivePathKeyComponents(k, Drop(t, 1) \o Drop(p, n))
  BY <1>1, <1>3, <1>6, DeriveTwice
<1>10. DerivePathKeyComponents(k, Drop(p, 1)) \in PathKeys
  BY <1>1, <1>3, DeriveIs
<1> QED
  BY <1>7, <1>8, <1>9, <1>10 DEF KeyOf, k, t

\* The key of a prefix that is longer than another is derived from the other's.
LEMMA KeyBetween ==
  ASSUME NEW R, OwnerStore(R), NEW p \in PlainPaths, HasBase(R, p), NEW n \in 1 .. Len(p), NEW m \in n .. Len(p)
  PROVE  DerivePathKeyComponents(KeyOf(R, Take(p, n)), Take(Drop(p, n), m - n)) = KeyOf(R, Take(p, m))
<1>1. m \in 1 .. Len(p) /\ n \in 0 .. Len(p) /\ m \in 0 .. Len(p) /\ n \in 0 .. m /\ n \in 1 .. m /\ p \in Seq(Names)
  BY DEF PlainPaths
<1>2. Take(p, m) \in PlainPaths /\ Len(Take(p, m)) = m /\ HasBase(R, Take(p, m))
  BY <1>1, SameBucket
<1>3. DerivePathKeyComponents(KeyOf(R, Take(Take(p, m), n)), Drop(Take(p, m), n)) = KeyOf(R, Take(p, m))
  BY <1>1, <1>2, KeyExtends
<1>4. Take(Take(p, m), n) = Take(p, n) /\ Drop(Take(p, m), n) = Take(Drop(p, n), m - n)
  BY <1>1, TakeTake, DropTake
<1> QED
  BY <1>3, <1>4

\* The name of a path has its length, and names of prefixes are prefixes of the name.
LEMMA EncIs ==
  ASSUME NEW R, OwnerStore(R), NEW p \in PlainPaths, HasBase(R, p)
  PROVE  /\ EncOf(R, p) \in EncPaths(R.cipher) /\ EncOf(R, p) \in Seq(Names \cup EncParts(R.cipher))
         /\ Len(EncOf(R, p)) = Len(p) /\ EncOf(R, p)[1] = p[1]
         /\ \A i \in 2 .. Len(p) :
              EncOf(R, p)[i] = EncryptPathComponent(p[i], R.cipher, KeyOf(R, Take(p, i - 1)))
<1> DEFINE e == EncOf(R, p)
           c == R.cipher
<1>1. p \in Seq(Names) /\ Len(p) \in Nat /\ Len(p) >= 1 /\ p[1] \in Names
  BY BucketPrefix
<1>2. ASSUME NEW i \in 2 .. Len(p)
      PROVE  /\ e[i] = EncryptPathComponent(p[i], c, KeyOf(R, Take(p, i - 1)))
             /\ e[i] \in EncParts(c)
  <2>1. i - 1 \in 1 .. Len(p) /\ i \in 1 .. Len(p) /\ i # 1
    BY <1>1
  <2>2. Take(p, i - 1) \in PlainPaths /\ HasBase(R, Take(p, i - 1)) /\ Len(Take(p, i - 1)) = i - 1
    BY <2>1, SameBucket
  <2>3. 1 \in 1 .. Len(Take(p, i - 1))
    BY <2>1, <2>2
  <2>4. KeyOf(R, Take(p, i - 1)) \in PathKeys
    BY <2>2, <2>3, KeyExtends
  <2>5. p[i] \in Names
    BY <1>1, <2>1
  <2>6. e[i] = EncryptPathComponent(p[i], c, KeyOf(R, Take(p, i - 1)))
    BY <2>1 DEF EncOf
  <2> DEFINE k == KeyOf(R, Take(p, i - 1))
  <2> HIDE DEF k, e, c
  <2>7. EncryptPathComponent(p[i], c, k) \in EncParts(c)
    <3>1. c # "base64"
      BY NotBase64 DEF OwnerStore, c
    <3> QED
      BY <2>4, <2>5, <3>1 DEF EncryptPathComponent, EncParts, k
  <2> QED
    BY <2>6, <2>7 DEF k
<1>3. e[1] = p[1] /\ DOMAIN e = 1 .. Len(p)
  BY <1>1 DEF EncOf
<1>4. \A i \in 1 .. Len(p) : e[i] \in Names \cup EncParts(c)
  <2>1. \A i \in 1 .. Len(p) : i = 1 \/ i \in 2 .. Len(p)
    BY <1>1
  <2> QED
    BY <1>1, <1>2, <1>3, <2>1
<1>5. e \in [1 .. Len(p) -> Names \cup EncParts(c)]
  BY <1>3, <1>4 DEF EncOf
<1> HIDE DEF e, c
<1>6. e \in Seq(Names \cup EncParts(c)) /\ Len(e) = Len(p)
  BY <1>1, <1>5
<1>7. e \in EncPaths(c)
  BY <1>1, <1>2, <1>3, <1>6 DEF EncPaths
<1> QED
  BY <1>2, <1>3, <1>6, <1>7 DEF e, c

LEMMA EncPrefix ==
  ASSUME NEW R, OwnerStore(R), NEW p \in PlainPaths, HasBase(R, p), NEW n \in 1 .. Len(p)
  PROVE  Take(EncOf(R, p), n) = EncOf(R, Take(p, n))
<1> DEFINE T == Names \cup EncParts(R.cipher)
           e == EncOf(R, p)
           q == Take(p, n)
           f == EncOf(R, q)
<1>1. q \in PlainPaths /\ HasBase(R, q) /\ Len(q) = n /\ q[1] = p[1] /\ p \in Seq(Names) /\ n \in 0 .. Len(p)
  BY SameBucket DEF PlainPaths
<1>2. /\ e \in Seq(T) /\ Len(e) = Len(p) /\ e[1] = p[1]
      /\ \A i \in 2 .. Len(p) : e[i] = EncryptPathComponent(p[i], R.cipher, KeyOf(R, Take(p, i - 1)))
  BY EncIs
<1>3. /\ f \in Seq(T) /\ Len(f) = n /\ f[1] = p[1]
      /\ \A i \in 2 .. n : f[i] = EncryptPathComponent(q[i], R.cipher, KeyOf(R, Take(q, i - 1)))
  <2> HIDE DEF q, f
  <2>1. /\ EncOf(R, q) \in Seq(Names \cup EncParts(R.cipher)) /\ Len(EncOf(R, q)) = Len(q) /\ EncOf(R, q)[1] = q[1]
        /\ \A i \in 2 .. Len(q) : EncOf(R, q)[i] = EncryptPathComponent(q[i], R.cipher, KeyOf(R, Take(q, i - 1)))
    BY <1>1, EncIs
  <2> QED
    BY <1>1, <2>1 DEF f
<1>4. \A i \in 1 .. n : q[i] = p[i]
  BY <1>1, TakeIs
<1>5. \A i \in 2 .. n : Take(q, i - 1) = Take(p, i - 1)
  <2> SUFFICES ASSUME NEW i \in 2 .. n PROVE Take(q, i - 1) = Take(p, i - 1)
    OBVIOUS
  <2>1. i - 1 \in 0 .. n
    OBVIOUS
  <2> QED
    BY <1>1, <2>1, TakeTake
<1>6. Take(e, n) \in Seq(T) /\ Len(Take(e, n)) = n /\ \A i \in 1 .. n : Take(e, n)[i] = e[i]
  BY <1>1, <1>2, TakeIs
<1> HIDE DEF e, f, q, T
<1>7. \A i \in 1 .. n : e[i] = f[i]
  <2> SUFFICES ASSUME NEW i \in 1 .. n PROVE e[i] = f[i]
    OBVIOUS
  <2>1. CASE i = 1
    BY <1>2, <1>3, <2>1
  <2>2. CASE i # 1
    <3>1. i \in 2 .. n /\ i \in 2 .. Len(p)
      BY <1>1, <2>2
    <3> QED
      BY <1>2, <1>3, <1>4, <1>5, <3>1
  <2> QED
    BY <2>1, <2>2
<1>8. \A i \in 1 .. n : Take(e, n)[i] = f[i]
  BY <1>6, <1>7
<1> QED
  BY <1>3, <1>6, <1>8, SameSeq DEF e, f, q

\* The name of a path is that of any prefix and the encryption of the rest, with the key
\* of the prefix.
LEMMA EncExtends ==
  ASSUME NEW R, OwnerStore(R), NEW p \in PlainPaths, HasBase(R, p), NEW n \in 1 .. Len(p)
  PROVE  LET it == EncryptIterator(Drop(p, n), R.cipher, KeyOf(R, Take(p, n)))
         IN  EncOf(R, Take(p, n)) \o it = EncOf(R, p) /\ Joined(it) = it
<1> DEFINE T == Names \cup EncParts(R.cipher)
           e == EncOf(R, p)
           d == Drop(p, n)
           it == EncryptIterator(d, R.cipher, KeyOf(R, Take(p, n)))
<1>1. p \in Seq(Names) /\ n \in 0 .. Len(p)
  BY DEF PlainPaths
<1>2. /\ e \in Seq(T) /\ Len(e) = Len(p)
      /\ \A i \in 2 .. Len(p) : e[i] = EncryptPathComponent(p[i], R.cipher, KeyOf(R, Take(p, i - 1)))
  BY EncIs
<1>3. d \in Seq(Names) /\ Len(d) = Len(p) - n /\ DOMAIN d = 1 .. Len(p) - n /\ \A i \in 1 .. Len(p) - n : d[i] = p[n + i]
  BY <1>1, DropIs
<1>4. Drop(e, n) \in Seq(T) /\ Len(Drop(e, n)) = Len(p) - n /\ DOMAIN Drop(e, n) = 1 .. Len(p) - n /\ \A i \in 1 .. Len(p) - n : Drop(e, n)[i] = e[n + i]
  BY <1>1, <1>2, DropIs
<1>5. ASSUME NEW i \in 1 .. Len(p) - n PROVE it[i] = Drop(e, n)[i]
  <2>1. n + i \in 2 .. Len(p) /\ n + i - 1 \in n .. Len(p) /\ (n + i - 1) - n = i - 1
    BY <1>1
  <2>2. DerivePathKeyComponents(KeyOf(R, Take(p, n)), Take(d, (n + i - 1) - n)) = KeyOf(R, Take(p, n + i - 1))
    BY <2>1, KeyBetween
  <2>3. it[i] = EncryptPathComponent(d[i], R.cipher, DerivePathKeyComponents(KeyOf(R, Take(p, n)), Take(d, i - 1)))
    BY <1>3 DEF EncryptIterator
  <2> HIDE DEF d, it, e
  <2>4. it[i] = EncryptPathComponent(p[n + i], R.cipher, KeyOf(R, Take(p, n + i - 1)))
    BY <1>3, <2>1, <2>2, <2>3
  <2>5. e[n + i] = EncryptPathComponent(p[n + i], R.cipher, KeyOf(R, Take(p, n + i - 1)))
    BY <1>2, <2>1
  <2>6. Drop(e, n)[i] = e[n + i]
    BY <1>4
  <2> QED
    BY <2>4, <2>5, <2>6, Zenon
<1>6. it = Drop(e, n)
  <2>1. DOMAIN it = 1 .. Len(p) - n /\ it = [i \in 1 .. Len(p) - n |-> it[i]]
    BY <1>3 DEF EncryptIterator
  <2>2. Drop(e, n) = [i \in 1 .. Len(p) - n |-> Drop(e, n)[i]]
    BY <1>4
  <2> HIDE DEF it, e
  <2> QED
    BY <1>5, <2>1, <2>2
<1>7. Take(e, n) = EncOf(R, Take(p, n))
  BY EncPrefix
<1>8. Take(e, n) \o Drop(e, n) = e
  BY <1>1, <1>2, TakeDrop
<1>9. Joined(it) = it
  <2>1. T \subseteq Comps
    BY NoSlash DEF Comps
  <2> HIDE DEF T, e
  <2>2. Drop(e, n) \in Seq(Comps)
    BY <1>4, <2>1
  <2> QED
    BY <1>6, <2>2, NoSlash
<1> QED
  BY <1>6, <1>7, <1>8, <1>9

\* A component comes back from its encryption.
LEMMA ComponentBack ==
  ASSUME NEW c \in Ciphers, NEW x \in Names, NEW key \in PathKeys
  PROVE  LET y == EncryptPathComponent(x, c, key)
         IN  DecryptPathComponent(y, c) = x /\ Decryptable(y, c, key)
<1>0. c # "base64"
  BY NotBase64
<1>1. CASE c = "null"
  BY <1>0, <1>1 DEF EncryptPathComponent, DecryptPathComponent, Decryptable
<1>2. CASE c # "null"
  <2> DEFINE y == [key |-> key, comp |-> x]
  <2>1. y \in Encrypted /\ y.comp = x /\ y.key = key
    BY DEF Encrypted
  <2>2. y \notin Parts
    BY <2>1, PathAssumption, Zenon
  <2> HIDE DEF y
  <2>3. EncryptPathComponent(x, c, key) = y
    BY <1>0, <1>2 DEF EncryptPathComponent, y
  <2> QED
    BY <1>0, <1>2, <2>1, <2>2, <2>3 DEF DecryptPathComponent, Decryptable
<1> QED
  BY <1>1, <1>2

LEMMA EncPartBack ==
  ASSUME NEW R, OwnerStore(R), NEW p \in PlainPaths, HasBase(R, p), NEW i \in 2 .. Len(p)
  PROVE  /\ DecryptPathComponent(EncOf(R, p)[i], R.cipher) = p[i]
         /\ Decryptable(EncOf(R, p)[i], R.cipher, KeyOf(R, Take(p, i - 1)))
<1>1. p \in Seq(Names) /\ Len(p) \in Nat /\ i - 1 \in 1 .. Len(p) /\ i \in 1 .. Len(p)
  BY DEF PlainPaths
<1>2. EncOf(R, p)[i] = EncryptPathComponent(p[i], R.cipher, KeyOf(R, Take(p, i - 1)))
  BY EncIs
<1>3. Take(p, i - 1) \in PlainPaths /\ HasBase(R, Take(p, i - 1)) /\ Len(Take(p, i - 1)) = i - 1
  BY <1>1, SameBucket
<1>4. 1 \in 1 .. Len(Take(p, i - 1))
  BY <1>1, <1>3
<1>5. KeyOf(R, Take(p, i - 1)) \in PathKeys
  BY <1>3, <1>4, KeyExtends
<1>6. p[i] \in Names /\ R.cipher \in Ciphers
  BY <1>1 DEF OwnerStore
<1> QED
  BY <1>2, <1>5, <1>6, ComponentBack

\* No two paths have the same name.
LEMMA EncInjective ==
  ASSUME NEW R, OwnerStore(R), NEW p \in PlainPaths, HasBase(R, p), NEW q \in PlainPaths, HasBase(R, q),
         EncOf(R, p) = EncOf(R, q)
  PROVE  p = q
<1>1. p \in Seq(Names) /\ q \in Seq(Names) /\ Len(p) \in Nat
  BY DEF PlainPaths
<1>2. Len(p) = Len(q) /\ p[1] = q[1]
  <2>1. Len(EncOf(R, p)) = Len(p) /\ EncOf(R, p)[1] = p[1]
    BY EncIs
  <2>2. Len(EncOf(R, q)) = Len(q) /\ EncOf(R, q)[1] = q[1]
    BY EncIs
  <2> QED
    BY <2>1, <2>2, Zenon
<1>3. \A i \in 2 .. Len(p) : p[i] = q[i]
  <2> SUFFICES ASSUME NEW i \in 2 .. Len(p) PROVE p[i] = q[i]
    OBVIOUS
  <2>1. DecryptPathComponent(EncOf(R, p)[i], R.cipher) = p[i]
    BY EncPartBack
  <2>2. DecryptPathComponent(EncOf(R, q)[i], R.cipher) = q[i]
    BY <1>2, EncPartBack
  <2> QED
    BY <2>1, <2>2
<1>4. \A i \in 1 .. Len(p) : i = 1 \/ i \in 2 .. Len(p)
  BY <1>1
<1>5. \A i \in 1 .. Len(p) : p[i] = q[i]
  BY <1>2, <1>3, <1>4
<1> QED
  BY <1>1, <1>2, <1>5, SameSeq

LEMMA BucketIs ==
  ASSUME NEW R, OwnerStore(R), NEW b \in Names
  PROVE  /\ <<b>> \in PlainPaths /\ Len(<<b>>) = 1 /\ <<b>>[1] = b /\ EncOf(R, <<b>>) = <<b>>
         /\ HasBase(R, <<b>>) => KeyOf(R, <<b>>) = BucketKey(R, b) /\ BucketKey(R, b) \in PathKeys
<1> DEFINE q == <<b>>
<1>1. q \in Seq(Names) /\ Len(q) = 1 /\ q[1] = b
  OBVIOUS
<1>2. q \in PlainPaths
  BY <1>1 DEF PlainPaths
<1> HIDE DEF q
<1>3. EncOf(R, q) = [i \in 1 .. 1 |-> q[i]]
  <2>1. \A i \in 1 .. 1 : i = 1
    OBVIOUS
  <2> QED
    BY <1>1, <2>1 DEF EncOf
<1>4. EncOf(R, q) = q
  BY <1>1, <1>3
<1>5. HasBase(R, q) => BucketKey(R, b) \in PathKeys
  BY <1>1, <1>2, OwnerHasBase
<1>6. Drop(q, 1) = <<>>
  BY <1>1 DEF Drop
<1>7. \A k \in PathKeys : DerivePathKeyComponents(k, <<>>) = k
  <2> SUFFICES ASSUME NEW k \in PathKeys PROVE DerivePathKeyComponents(k, <<>>) = k
    OBVIOUS
  <2>1. k = [root |-> k.root, along |-> k.along] /\ k.along \in Seq(Names) /\ <<>> \in Seq(Names)
    BY DEF PathKeys
  <2>2. DerivePathKeyComponents(k, <<>>) = [root |-> k.root, along |-> k.along \o <<>>]
    BY <2>1, DeriveIs
  <2>3. \A a \in Seq(Names) : a \o <<>> = a
    BY ConcatEmptySeq
  <2> QED
    BY <2>1, <2>2, <2>3, Zenon
<1>8. HasBase(R, q) => KeyOf(R, q) = BucketKey(R, b)
  BY <1>1, <1>5, <1>6, <1>7 DEF KeyOf
<1> QED
  BY <1>1, <1>2, <1>4, <1>5, <1>8 DEF q

------------------------------------------------------------------------------
(* Stores that agree with an owner's. *)

BaseOf(R, q) == [enc |-> EncOf(R, q), key |-> KeyOf(R, q), cipher |-> R.cipher]

\* Every base of the store is as the owner's store R would have it, and the default key
\* is only used for paths that R uses it for.
Faithful(store, R) ==
  /\ store = [defaultKey |-> store.defaultKey, cipher |-> R.cipher,
              bases |-> [q \in DOMAIN store.bases |-> BaseOf(R, q)], bypass |-> "off"]
  /\ IsFiniteSet(DOMAIN store.bases)
  /\ \A q \in DOMAIN store.bases : q \in PlainPaths /\ HasBase(R, q)
  /\ store.defaultKey # None =>
       store.defaultKey = R.defaultKey /\ \A q \in DOMAIN R.bases : q \in DOMAIN store.bases

FoundAt(R, q) == [unenc |-> q, enc |-> EncOf(R, q), cipher |-> R.cipher, key |-> KeyOf(R, q)]

LEMMA FaithfulFields ==
  ASSUME NEW store, NEW R, Faithful(store, R)
  PROVE  /\ store.cipher = R.cipher /\ store.bypass = "off" /\ \A c : CipherOf(store, c) = c
         /\ \A q \in DOMAIN store.bases :
              /\ store.bases[q].enc = EncOf(R, q) /\ store.bases[q].key = KeyOf(R, q)
              /\ store.bases[q].cipher = R.cipher
<1> DEFINE D == DOMAIN store.bases
           B == [q \in D |-> BaseOf(R, q)]
<1>1. store = [defaultKey |-> store.defaultKey, cipher |-> R.cipher, bases |-> B, bypass |-> "off"]
  BY DEF Faithful
<1> HIDE DEF B
<1>2. store.cipher = R.cipher /\ store.bases = B /\ store.bypass = "off"
  BY <1>1
<1>4. \A c : CipherOf(store, c) = c
  BY <1>2 DEF CipherOf
<1>3. \A q \in D : B[q].enc = EncOf(R, q) /\ B[q].key = KeyOf(R, q) /\ B[q].cipher = R.cipher
  BY DEF B, BaseOf
<1> QED
  BY <1>2, <1>3, <1>4

\* The default key stands for the bucket's key wherever it is used.
LEMMA DefaultStands ==
  ASSUME NEW store, NEW R, OwnerStore(R), Faithful(store, R), store.defaultKey # None,
         NEW b \in Names, <<b>> \notin DOMAIN store.bases
  PROVE  /\ HasBase(R, <<b>>)
         /\ DerivePathKeyComponents(store.defaultKey, <<b>>) = KeyOf(R, <<b>>)
<1>1. store.defaultKey = R.defaultKey /\ <<b>> \notin DOMAIN R.bases
  BY DEF Faithful
<1>2. BucketKey(R, b) = DerivePathKeyComponents(store.defaultKey, <<b>>)
  BY <1>1 DEF BucketKey
<1>3. HasBase(R, <<b>>)
  BY <1>1 DEF HasBase
<1> QED
  BY <1>2, <1>3, BucketIs

\* LookupUnencrypted finds a prefix with the owner's name and key.
LEMMA LookupFinds ==
  ASSUME NEW store, NEW R, OwnerStore(R), Faithful(store, R), NEW p \in PlainPaths, HasBase(store, p)
  PROVE  /\ HasBase(R, p)
         /\ \E n \in 1 .. Len(p) :
              /\ LookupUnencrypted(store, p) = FoundAt(R, Take(p, n)) /\ HasBase(store, Take(p, n))
              /\ n = 1 \/ Take(p, n) \in DOMAIN store.bases
              /\ p \in DOMAIN store.bases => n = Len(p)
<1> DEFINE depths == {n \in 1 .. Len(p) : Take(p, n) \in DOMAIN store.bases}
<1>0. p \in Seq(Names) /\ Len(p) \in Nat /\ 1 \in 1 .. Len(p) /\ Take(p, 1) = <<p[1]>> /\ p[1] \in Names
  BY BucketPrefix
<1>1. CASE depths # {}
  <2> DEFINE m == Max(depths)
             q == Take(p, m)
  <2>1. depths \subseteq 0 .. Len(p)
    BY <1>0
  <2>2. m \in depths /\ \A n \in depths : n <= m
    BY <1>0, <1>1, <2>1, MaxIs
  <2>3. m \in 1 .. Len(p) /\ q \in DOMAIN store.bases
    BY <2>2
  <2>9. p \in DOMAIN store.bases => m = Len(p)
    <3>1. Take(p, Len(p)) = p /\ Len(p) \in 1 .. Len(p)
      BY <1>0, TakeAll
    <3>2. p \in DOMAIN store.bases => Len(p) \in depths
      BY <3>1
    <3> HIDE DEF m, depths
    <3> QED
      BY <1>0, <2>2, <2>3, <3>2
  <2>4. LookupUnencrypted(store, p) =
          [unenc |-> q, enc |-> store.bases[q].enc, cipher |-> CipherOf(store, store.bases[q].cipher), key |-> store.bases[q].key]
    BY <1>1 DEF LookupUnencrypted
  <2> HIDE DEF m
  <2>5. LookupUnencrypted(store, p) = FoundAt(R, q)
    BY <2>3, <2>4, FaithfulFields DEF FoundAt
  <2>6. HasBase(R, q)
    BY <2>3 DEF Faithful
  <2>7. HasBase(R, p)
    BY <2>3, <2>6, SameBucket
  <2>8. HasBase(store, q)
    <3>1. q \in Seq(Names) /\ Len(q) = m /\ m \in 1 .. m
      BY <1>0, <2>3, TakeIs
    <3>2. Take(q, m) = q
      BY <3>1, TakeAll
    <3> HIDE DEF q
    <3> QED
      BY <2>3, <3>1, <3>2 DEF HasBase
  <2> QED
    BY <2>3, <2>5, <2>7, <2>8, <2>9
<1>2. CASE depths = {}
  <2>1. store.defaultKey # None
    BY <1>2 DEF HasBase
  <2>2. <<p[1]>> \notin DOMAIN store.bases
    BY <1>0, <1>2
  <2>3. HasBase(R, <<p[1]>>) /\ DerivePathKeyComponents(store.defaultKey, <<p[1]>>) = KeyOf(R, <<p[1]>>)
    BY <1>0, <2>1, <2>2, DefaultStands
  <2>4. EncOf(R, <<p[1]>>) = <<p[1]>>
    BY <1>0, BucketIs
  <2>5. LookupUnencrypted(store, p) = DefaultBase(store, p)
    BY <1>2 DEF LookupUnencrypted
  <2>6. CipherOf(store, store.cipher) = R.cipher
    BY FaithfulFields
  <2>7. DefaultBase(store, p) = FoundAt(R, <<p[1]>>)
    BY <1>0, <2>3, <2>4, <2>6 DEF DefaultBase, FoundAt
  <2>8. HasBase(R, p)
    BY <1>0, <2>3, SameBucket
  <2>9. HasBase(store, Take(p, 1))
    BY <2>1 DEF HasBase
  <2>10. p \notin DOMAIN store.bases
    <3>1. Take(p, Len(p)) = p /\ Len(p) \in 1 .. Len(p)
      BY <1>0, TakeAll
    <3> QED
      BY <1>2, <3>1
  <2> QED
    BY <1>0, <2>5, <2>7, <2>8, <2>9, <2>10
<1> QED
  BY <1>1, <1>2

\* A store encrypts and derives as the owner's.
LEMMA Agrees ==
  ASSUME NEW store, NEW R, OwnerStore(R), Faithful(store, R), NEW p \in PlainPaths, HasBase(store, p)
  PROVE  /\ HasBase(R, p)
         /\ EncryptPath(store, p) = EncOf(R, p)
         /\ DerivePathKey(store, p) = KeyOf(R, p)
<1>1. HasBase(R, p)
  BY LookupFinds
<1>2. PICK n \in 1 .. Len(p) : LookupUnencrypted(store, p) = FoundAt(R, Take(p, n))
  BY LookupFinds
<1> DEFINE base == LookupUnencrypted(store, p)
<1>3. /\ base.unenc = Take(p, n) /\ base.enc = EncOf(R, Take(p, n)) /\ base.cipher = R.cipher
      /\ base.key = KeyOf(R, Take(p, n)) /\ Len(base.unenc) = n
  <2>1. Len(Take(p, n)) = n
    BY SameBucket
  <2> QED
    BY <1>2, <2>1 DEF FoundAt
<1> HIDE DEF base
<1>4. DerivePathKey(store, p) = KeyOf(R, p)
  <2>1. DerivePathKey(store, p) = DerivePathKeyComponents(base.key, Drop(p, Len(base.unenc)))
    BY DEF DerivePathKey, base
  <2> QED
    BY <1>1, <1>3, <2>1, KeyExtends
<1>5. CASE Len(p) # 1
  <2>1. EncryptPath(store, p) = base.enc \o Joined(EncryptIterator(Drop(p, Len(base.unenc)), base.cipher, base.key))
    BY <1>5 DEF EncryptPath, base
  <2>2. EncryptPath(store, p) =
          EncOf(R, Take(p, n)) \o Joined(EncryptIterator(Drop(p, n), R.cipher, KeyOf(R, Take(p, n))))
    BY <1>3, <2>1, Zenon
  <2> QED
    BY <1>1, <1>4, <2>2, EncExtends
<1>6. CASE Len(p) = 1
  <2>1. p = <<p[1]>> /\ p[1] \in Names
    <3>1. Take(p, 1) = <<p[1]>> /\ p[1] \in Names /\ p \in Seq(Names)
      BY BucketPrefix
    <3> QED
      BY <1>6, <3>1, TakeAll
  <2>2. EncryptPath(store, p) = p
    BY <1>6 DEF EncryptPath
  <2>3. EncOf(R, p) = p
    BY <2>1, BucketIs
  <2> QED
    BY <1>1, <1>4, <2>2, <2>3
<1> QED
  BY <1>5, <1>6

\* LookupEncrypted finds a prefix that is the owner's name of a path.
LEMMA LookupByName ==
  ASSUME NEW store, NEW R, OwnerStore(R), Faithful(store, R), NEW e \in EncPaths(R.cipher),
         HasEncryptedBase(store, e)
  PROVE  \E q \in PlainPaths :
           /\ HasBase(R, q) /\ Len(q) \in 1 .. Len(e) /\ Take(e, Len(q)) = EncOf(R, q)
           /\ LookupEncrypted(store, e) = FoundAt(R, q)
           /\ q \in DOMAIN store.bases \/ (Len(q) = 1 /\ store.defaultKey # None)
<1> DEFINE found == EncryptedBases(store, e)
           T == Names \cup EncParts(R.cipher)
<1>0. e \in Seq(T) /\ Len(e) \in Nat /\ Len(e) >= 1 /\ e[1] \in Names
  BY DEF EncPaths
<1>1. CASE found # {}
  <2> DEFINE lens == {Len(x) : x \in found}
             q == CHOOSE q \in found : Len(q) = Max(lens)
  <2>1. \A x \in found : x \in DOMAIN store.bases /\ x \in PlainPaths /\ Len(x) \in 1 .. Len(e)
    <3>1. \A x \in found : x \in DOMAIN store.bases /\ Len(x) <= Len(e)
      BY DEF EncryptedBases
    <3>2. \A x \in found : x \in PlainPaths
      BY <3>1 DEF Faithful
    <3>3. \A x \in PlainPaths : Len(x) \in Nat /\ Len(x) >= 1
      BY DEF PlainPaths
    <3> HIDE DEF found
    <3> QED
      BY <1>0, <3>1, <3>2, <3>3
  <2> HIDE DEF found
  <2>2. lens \subseteq 0 .. Len(e) /\ lens # {}
    <3>1. \A x \in found : Len(x) \in 0 .. Len(e)
      BY <1>0, <2>1
    <3> QED
      BY <1>1, <3>1
  <2>3. Max(lens) \in lens
    BY <1>0, <2>2, MaxIs
  <2>4. q \in found
    BY <2>3
  <2>5. LookupEncrypted(store, e) =
          [unenc |-> q, enc |-> store.bases[q].enc, cipher |-> CipherOf(store, store.bases[q].cipher), key |-> store.bases[q].key]
    BY <1>1 DEF LookupEncrypted, found
  <2> HIDE DEF q
  <2>6. q \in DOMAIN store.bases /\ q \in PlainPaths /\ Len(q) \in 1 .. Len(e)
    BY <2>1, <2>4
  <2>7. Take(e, Len(q)) = store.bases[q].enc
    BY <2>4 DEF found, EncryptedBases
  <2>8. LookupEncrypted(store, e) = FoundAt(R, q) /\ Take(e, Len(q)) = EncOf(R, q)
    BY <2>5, <2>6, <2>7, FaithfulFields DEF FoundAt
  <2>9. HasBase(R, q)
    BY <2>6 DEF Faithful
  <2> QED
    BY <2>6, <2>8, <2>9
<1>2. CASE found = {}
  <2> DEFINE q == <<e[1]>>
  <2>1. store.defaultKey # None
    BY <1>2 DEF HasEncryptedBase
  <2>2. Take(e, 1) = q
    <3>0. 1 \in 0 .. Len(e) /\ 1 \in 1 .. 1
      BY <1>0
    <3>1. Take(e, 1) \in Seq(T) /\ Len(Take(e, 1)) = 1 /\ Take(e, 1)[1] = e[1]
      <4> HIDE DEF T
      <4> QED
        BY <1>0, <3>0, TakeIs
    <3>2. q \in Seq(T) /\ Len(q) = 1 /\ q[1] = e[1]
      BY <1>0
    <3>3. \A i \in 1 .. Len(q) : Take(e, 1)[i] = q[i]
      BY <3>1, <3>2
    <3> QED
      BY <3>1, <3>2, <3>3, SameSeq
  <2>3. q \in PlainPaths /\ Len(q) = 1 /\ EncOf(R, q) = q
    BY <1>0, BucketIs
  <2>4. q \notin DOMAIN store.bases
    <3> SUFFICES ASSUME q \in DOMAIN store.bases PROVE FALSE
      OBVIOUS
    <3>1. store.bases[q].enc = q
      BY <2>3, FaithfulFields
    <3>2. Len(q) <= Len(e) /\ Take(e, Len(q)) = store.bases[q].enc
      BY <1>0, <2>2, <2>3, <3>1
    <3> QED
      BY <1>2, <3>2 DEF EncryptedBases
  <2>5. HasBase(R, q) /\ DerivePathKeyComponents(store.defaultKey, q) = KeyOf(R, q)
    BY <1>0, <2>1, <2>4, DefaultStands
  <2>6. LookupEncrypted(store, e) = DefaultBase(store, e)
    BY <1>2 DEF LookupEncrypted
  <2>7. CipherOf(store, store.cipher) = R.cipher
    BY FaithfulFields
  <2> HIDE DEF q
  <2>8. DefaultBase(store, e) = FoundAt(R, q)
    BY <2>2, <2>3, <2>5, <2>7 DEF DefaultBase, FoundAt
  <2>9. Len(q) \in 1 .. Len(e) /\ Take(e, Len(q)) = EncOf(R, q)
    BY <1>0, <2>2, <2>3
  <2> QED
    BY <2>1, <2>3, <2>5, <2>6, <2>8, <2>9
<1> QED
  BY <1>1, <1>2

\* The rest of a name, decrypted from any prefix with the prefix's key.
LEMMA RestBack ==
  ASSUME NEW R, OwnerStore(R), NEW p \in PlainPaths, HasBase(R, p), NEW n \in 1 .. Len(p)
  PROVE  /\ DecryptIterator(Drop(EncOf(R, p), n), R.cipher) = Drop(p, n)
         /\ DecryptIteratorOK(Drop(EncOf(R, p), n), R.cipher, KeyOf(R, Take(p, n)))
<1> DEFINE e == EncOf(R, p)
           f == Drop(e, n)
           d == Drop(p, n)
           c == R.cipher
<1>1. p \in Seq(Names) /\ n \in 0 .. Len(p) /\ Len(p) \in Nat
  BY DEF PlainPaths
<1>2. e \in Seq(Names \cup EncParts(c)) /\ Len(e) = Len(p)
  BY EncIs
<1>3. DOMAIN f = 1 .. Len(p) - n /\ \A i \in 1 .. Len(p) - n : f[i] = e[n + i]
  <2> DEFINE T == Names \cup EncParts(c)
  <2>1. e \in Seq(T) /\ n \in 0 .. Len(e)
    BY <1>1, <1>2
  <2> HIDE DEF T, e
  <2>2. DOMAIN Drop(e, n) = 1 .. Len(e) - n /\ \A i \in 1 .. Len(e) - n : Drop(e, n)[i] = e[n + i]
    BY <2>1, DropIs
  <2> QED
    BY <1>2, <2>2
<1>4. d \in Seq(Names) /\ Len(d) = Len(p) - n /\ DOMAIN d = 1 .. Len(p) - n /\ \A i \in 1 .. Len(p) - n : d[i] = p[n + i]
  BY <1>1, DropIs
<1> HIDE DEF e, f, d, c
<1>5. ASSUME NEW i \in 1 .. Len(p) - n
      PROVE  /\ DecryptPathComponent(f[i], c) = d[i]
             /\ Decryptable(f[i], c, DerivePathKeyComponents(KeyOf(R, Take(p, n)), Take(d, i - 1)))
  <2>1. n + i \in 2 .. Len(p) /\ (n + i) - 1 \in n .. Len(p) /\ ((n + i) - 1) - n = i - 1
    BY <1>1
  <2>2. /\ DecryptPathComponent(e[n + i], c) = p[n + i]
        /\ Decryptable(e[n + i], c, KeyOf(R, Take(p, (n + i) - 1)))
    BY <2>1, EncPartBack DEF e, c
  <2>3. DerivePathKeyComponents(KeyOf(R, Take(p, n)), Take(d, ((n + i) - 1) - n)) = KeyOf(R, Take(p, (n + i) - 1))
    BY <2>1, KeyBetween DEF d
  <2>4. f[i] = e[n + i] /\ d[i] = p[n + i]
    BY <1>3, <1>4
  <2> QED
    BY <2>1, <2>2, <2>3, <2>4
<1>6. DecryptIterator(f, c) = d
  <2>1. DecryptIterator(f, c) = [i \in 1 .. Len(p) - n |-> DecryptPathComponent(f[i], c)]
    BY <1>3 DEF DecryptIterator
  <2>2. d = [i \in 1 .. Len(p) - n |-> d[i]]
    BY <1>4
  <2> QED
    BY <1>5, <2>1, <2>2
<1>7. DecryptIteratorOK(f, c, KeyOf(R, Take(p, n)))
  BY <1>3, <1>5, <1>6 DEF DecryptIteratorOK
<1> QED
  BY <1>6, <1>7 DEF e, f, d, c

\* LookupEncrypted finds a prefix of the path that has the name.
LEMMA LookupByOwnName ==
  ASSUME NEW store, NEW R, OwnerStore(R), Faithful(store, R), NEW p \in PlainPaths, HasBase(store, p)
  PROVE  LET e == EncOf(R, p)
         IN  /\ HasEncryptedBase(store, e)
             /\ \E n \in 1 .. Len(p) :
                  /\ LookupEncrypted(store, e) = FoundAt(R, Take(p, n)) /\ Len(EncOf(R, Take(p, n))) = n
                  /\ Take(p, n) \in DOMAIN store.bases \/ (n = 1 /\ store.defaultKey # None)
<1> DEFINE e == EncOf(R, p)
<1>0. HasBase(R, p) /\ p \in Seq(Names) /\ Len(p) \in Nat
  BY Agrees DEF PlainPaths
<1>1. e \in EncPaths(R.cipher) /\ Len(e) = Len(p) /\ e \in Seq(Names \cup EncParts(R.cipher))
  BY <1>0, EncIs
<1>2. HasEncryptedBase(store, e)
  <2>1. CASE store.defaultKey # None
    BY <2>1 DEF HasEncryptedBase
  <2>2. CASE store.defaultKey = None
    <3>1. PICK n \in 1 .. Len(p) : Take(p, n) \in DOMAIN store.bases
      BY <2>2 DEF HasBase
    <3>2. Len(Take(p, n)) = n
      BY SameBucket
    <3>3. Take(e, n) = store.bases[Take(p, n)].enc
      <4>1. Take(e, n) = EncOf(R, Take(p, n))
        BY <1>0, EncPrefix
      <4>2. store.bases[Take(p, n)].enc = EncOf(R, Take(p, n))
        BY <3>1, FaithfulFields
      <4> QED
        BY <4>1, <4>2
    <3>4. n <= Len(e)
      BY <1>0, <1>1
    <3>5. Take(p, n) \in EncryptedBases(store, e)
      BY <3>1, <3>2, <3>3, <3>4 DEF EncryptedBases
    <3> QED
      BY <3>5 DEF HasEncryptedBase
  <2> QED
    BY <2>1, <2>2
<1>3. PICK q \in PlainPaths :
        /\ HasBase(R, q) /\ Len(q) \in 1 .. Len(e) /\ Take(e, Len(q)) = EncOf(R, q)
        /\ LookupEncrypted(store, e) = FoundAt(R, q)
        /\ q \in DOMAIN store.bases \/ (Len(q) = 1 /\ store.defaultKey # None)
  BY <1>1, <1>2, LookupByName
<1> DEFINE n == Len(q)
<1>4. n \in 1 .. Len(p) /\ n \in 0 .. Len(p)
  BY <1>0, <1>1, <1>3
<1>5. q = Take(p, n)
  <2>1. EncOf(R, q) = EncOf(R, Take(p, n))
    BY <1>0, <1>3, <1>4, EncPrefix
  <2>2. Take(p, n) \in PlainPaths /\ HasBase(R, Take(p, n))
    BY <1>0, <1>4, SameBucket
  <2> HIDE DEF n
  <2> QED
    BY <1>3, <2>1, <2>2, EncInjective
<1>6. Len(EncOf(R, q)) = n
  BY <1>3, EncIs
<1> QED
  BY <1>2, <1>3, <1>4, <1>5, <1>6

\* Decryption undoes encryption.
LEMMA DecryptsBack ==
  ASSUME NEW store, NEW R, OwnerStore(R), Faithful(store, R), NEW p \in PlainPaths, HasBase(store, p)
  PROVE  LET e == EncOf(R, p)
         IN  /\ HasEncryptedBase(store, e) /\ CanDecrypt(store, e) /\ DecryptPath(store, e) = p
             /\ LookupEncrypted(store, e).cipher = R.cipher
<1> DEFINE e == EncOf(R, p)
<1>0. HasBase(R, p) /\ p \in Seq(Names) /\ Len(p) \in Nat
  BY Agrees DEF PlainPaths
<1>1. Len(e) = Len(p)
  BY <1>0, EncIs
<1>2. HasEncryptedBase(store, e)
  BY LookupByOwnName
<1>3. PICK n \in 1 .. Len(p) :
        LookupEncrypted(store, e) = FoundAt(R, Take(p, n)) /\ Len(EncOf(R, Take(p, n))) = n
  BY LookupByOwnName
<1> DEFINE q == Take(p, n)
<1>4. n \in 0 .. Len(p)
  OBVIOUS
<1>5. q = Take(p, n)
  OBVIOUS
<1>6. Len(EncOf(R, q)) = n
  BY <1>3
<1> DEFINE base == LookupEncrypted(store, e)
<1>7. /\ base.unenc = q /\ Len(base.enc) = n /\ base.cipher = R.cipher
      /\ base.key = KeyOf(R, Take(p, n))
  BY <1>3, <1>5, <1>6 DEF FoundAt
<1>8. /\ DecryptIterator(Drop(e, n), R.cipher) = Drop(p, n)
      /\ DecryptIteratorOK(Drop(e, n), R.cipher, KeyOf(R, Take(p, n)))
  BY <1>0, <1>4, RestBack
<1>9. Take(p, n) \o Drop(p, n) = p
  BY <1>0, <1>4, TakeDrop
<1> HIDE DEF base, e, q
<1>10. CanDecrypt(store, e)
  BY <1>2, <1>7, <1>8 DEF CanDecrypt, base
<1>11. DecryptPath(store, e) = p
  <2>1. CASE Len(e) # 1
    <3>1. DecryptPath(store, e) = base.unenc \o DecryptIterator(Drop(e, Len(base.enc)), base.cipher)
      BY <2>1 DEF DecryptPath, base
    <3>2. DecryptPath(store, e) = Take(p, n) \o Drop(p, n)
      BY <1>5, <1>7, <1>8, <3>1, Zenon
    <3> QED
      BY <1>9, <3>2
  <2>2. CASE Len(e) = 1
    <3>1. Take(p, 1) = <<p[1]>> /\ p[1] \in Names
      BY BucketPrefix
    <3>2. p = <<p[1]>>
      BY <1>0, <1>1, <2>2, <3>1, TakeAll
    <3>3. e = p
      BY <3>1, <3>2, BucketIs DEF e
    <3> QED
      BY <2>2, <3>3 DEF DecryptPath
  <2> QED
    BY <2>1, <2>2
<1> QED
  BY <1>2, <1>7, <1>10, <1>11 DEF e, base

------------------------------------------------------------------------------
(* Bypass: the same bases, and base64 for a cipher. *)

LEMMA BypassIs ==
  ASSUME NEW store, NEW R, Faithful(store, R)
  PROVE  LET b == Bypassed(store)
         IN  /\ b.defaultKey = store.defaultKey /\ b.bases = store.bases /\ \A c : CipherOf(b, c) = "base64"
             /\ \A p : HasBase(b, p) <=> HasBase(store, p)
             /\ \A e : HasEncryptedBase(b, e) <=> HasEncryptedBase(store, e)
<1> DEFINE b == Bypassed(store)
           B == [q \in DOMAIN store.bases |-> BaseOf(R, q)]
<1>1. store = [defaultKey |-> store.defaultKey, cipher |-> R.cipher, bases |-> B, bypass |-> "off"]
  BY DEF Faithful
<1> HIDE DEF B
<1>2. \A s, x, y, z, w :
        s = [defaultKey |-> x, cipher |-> y, bases |-> z, bypass |-> w]
          => [s EXCEPT !.bypass = "on"] = [defaultKey |-> x, cipher |-> y, bases |-> z, bypass |-> "on"]
  OBVIOUS
<1>3. b = [defaultKey |-> store.defaultKey, cipher |-> R.cipher, bases |-> B, bypass |-> "on"]
  BY <1>1, <1>2 DEF Bypassed
<1> HIDE DEF b
<1>4. b.defaultKey = store.defaultKey /\ b.bases = B /\ b.bypass = "on"
  BY <1>3
<1>5. store.bases = B
  BY <1>1
<1>6. \A c : CipherOf(b, c) = "base64"
  BY <1>4 DEF CipherOf
<1>7. \A p : HasBase(b, p) <=> HasBase(store, p)
  BY <1>4, <1>5, Zenon DEF HasBase
<1>8. \A e : HasEncryptedBase(b, e) <=> HasEncryptedBase(store, e)
  BY <1>4, <1>5, Zenon DEF HasEncryptedBase, EncryptedBases
<1> QED
  BY <1>4, <1>5, <1>6, <1>7, <1>8 DEF b

BypassAt(R, q) == [unenc |-> q, enc |-> EncOf(R, q), cipher |-> "base64", key |-> KeyOf(R, q)]

\* The lookups find the same bases.
LEMMA BypassLookup ==
  ASSUME NEW store, NEW R, Faithful(store, R)
  PROVE  /\ \A p, q : LookupUnencrypted(store, p) = FoundAt(R, q)
                        => LookupUnencrypted(Bypassed(store), p) = BypassAt(R, q)
         /\ \A e, q : LookupEncrypted(store, e) = FoundAt(R, q)
                        => LookupEncrypted(Bypassed(store), e) = BypassAt(R, q)
<1> DEFINE b == Bypassed(store)
<1>1. b.defaultKey = store.defaultKey /\ b.bases = store.bases /\ \A c : CipherOf(b, c) = "base64"
  BY BypassIs
<1> HIDE DEF b
<1> DEFINE U(p) == LookupUnencrypted(store, p)
           V(e) == LookupEncrypted(store, e)
           Same(r, s) == r.unenc = s.unenc /\ r.enc = s.enc /\ r.key = s.key
           As(s) == [unenc |-> s.unenc, enc |-> s.enc, cipher |-> "base64", key |-> s.key]
<1>2. \A p : DefaultBase(b, p) = As(DefaultBase(store, p))
  BY <1>1 DEF DefaultBase
<1>3. \A x, y, z, w : As([unenc |-> x, enc |-> y, cipher |-> z, key |-> w])
                       = [unenc |-> x, enc |-> y, cipher |-> "base64", key |-> w]
  OBVIOUS
<1> HIDE DEF As
<1>4. \A p : LookupUnencrypted(b, p) = As(U(p))
  <2> SUFFICES ASSUME NEW p PROVE LookupUnencrypted(b, p) = As(U(p))
    OBVIOUS
  <2> DEFINE depths == {n \in 1 .. Len(p) : Take(p, n) \in DOMAIN store.bases}
             q == Take(p, Max(depths))
             base == store.bases[q]
  <2>1. CASE depths = {}
    <3>1. U(p) = DefaultBase(store, p)
      BY <2>1, Zenon DEF LookupUnencrypted
    <3>2. LookupUnencrypted(b, p) = DefaultBase(b, p)
      BY <1>1, <2>1, Zenon DEF LookupUnencrypted
    <3> QED
      BY <1>2, <3>1, <3>2, Zenon
  <2>2. CASE depths # {}
    <3>1. U(p) = [unenc |-> q, enc |-> base.enc, cipher |-> CipherOf(store, base.cipher), key |-> base.key]
      BY <2>2, Zenon DEF LookupUnencrypted
    <3>2. LookupUnencrypted(b, p) = [unenc |-> q, enc |-> base.enc, cipher |-> CipherOf(b, base.cipher), key |-> base.key]
      BY <1>1, <2>2, Zenon DEF LookupUnencrypted
    <3>3. CipherOf(b, base.cipher) = "base64"
      BY <1>1, Zenon
    <3> HIDE DEF q, base
    <3>4. As([unenc |-> q, enc |-> base.enc, cipher |-> CipherOf(store, base.cipher), key |-> base.key])
            = [unenc |-> q, enc |-> base.enc, cipher |-> "base64", key |-> base.key]
      BY <1>3
    <3>5. LookupUnencrypted(b, p) = [unenc |-> q, enc |-> base.enc, cipher |-> "base64", key |-> base.key]
      BY <3>2, <3>3
    <3> QED
      BY <3>1, <3>4, <3>5
  <2> QED
    BY <2>1, <2>2, Zenon
<1>5. \A e : LookupEncrypted(b, e) = As(V(e))
  <2> SUFFICES ASSUME NEW e PROVE LookupEncrypted(b, e) = As(V(e))
    OBVIOUS
  <2> DEFINE found == EncryptedBases(store, e)
             q == CHOOSE q \in found : Len(q) = Max({Len(x) : x \in found})
             base == store.bases[q]
  <2>0. EncryptedBases(b, e) = found
    BY <1>1, Zenon DEF EncryptedBases
  <2>1. CASE found = {}
    <3>1. V(e) = DefaultBase(store, e)
      BY <2>1, Zenon DEF LookupEncrypted
    <3>2. LookupEncrypted(b, e) = DefaultBase(b, e)
      BY <2>0, <2>1, Zenon DEF LookupEncrypted
    <3> QED
      BY <1>2, <3>1, <3>2, Zenon
  <2>2. CASE found # {}
    <3>1. V(e) = [unenc |-> q, enc |-> base.enc, cipher |-> CipherOf(store, base.cipher), key |-> base.key]
      BY <2>2, Zenon DEF LookupEncrypted
    <3>2. LookupEncrypted(b, e) = [unenc |-> q, enc |-> base.enc, cipher |-> CipherOf(b, base.cipher), key |-> base.key]
      BY <1>1, <2>0, <2>2, Zenon DEF LookupEncrypted
    <3>3. CipherOf(b, base.cipher) = "base64"
      BY <1>1, Zenon
    <3> HIDE DEF q, base
    <3>4. As([unenc |-> q, enc |-> base.enc, cipher |-> CipherOf(store, base.cipher), key |-> base.key])
            = [unenc |-> q, enc |-> base.enc, cipher |-> "base64", key |-> base.key]
      BY <1>3
    <3>5. LookupEncrypted(b, e) = [unenc |-> q, enc |-> base.enc, cipher |-> "base64", key |-> base.key]
      BY <3>2, <3>3
    <3> QED
      BY <3>1, <3>4, <3>5
  <2> QED
    BY <2>1, <2>2, Zenon
<1>6. \A q : As(FoundAt(R, q)) = BypassAt(R, q)
  BY <1>3, Zenon DEF FoundAt, BypassAt
<1> QED
  BY <1>4, <1>5, <1>6, Zenon DEF b

\* Names encrypt, and are refused below the base in bypass mode.
LEMMA NamesAllowed ==
  ASSUME NEW store, NEW R, OwnerStore(R), Faithful(store, R), NEW p \in PlainPaths, HasBase(store, p)
  PROVE  /\ CanEncrypt(store, p)
         /\ CanEncrypt(Bypassed(store), p) <=> Len(p) = 1 \/ p \in DOMAIN store.bases
<1> DEFINE b == Bypassed(store)
<1>0. p \in Seq(Names) /\ Len(p) \in Nat /\ Len(p) >= 1
  BY DEF PlainPaths
<1>1. PICK n \in 1 .. Len(p) :
        /\ LookupUnencrypted(store, p) = FoundAt(R, Take(p, n))
        /\ n = 1 \/ Take(p, n) \in DOMAIN store.bases
        /\ p \in DOMAIN store.bases => n = Len(p)
  BY LookupFinds
<1>2. LookupUnencrypted(b, p) = BypassAt(R, Take(p, n))
  BY <1>1, BypassLookup
<1>3. Len(Take(p, n)) = n
  BY SameBucket
<1>4. CanEncrypt(store, p)
  <2>1. LookupUnencrypted(store, p).cipher = R.cipher /\ R.cipher # "base64"
    BY <1>1, NotBase64 DEF FoundAt, OwnerStore
  <2> QED
    BY <2>1 DEF CanEncrypt, Encryptable
<1>5. Len(LookupUnencrypted(b, p).unenc) = n /\ LookupUnencrypted(b, p).cipher = "base64"
  BY <1>2, <1>3 DEF BypassAt
<1>6. HasBase(b, p)
  BY BypassIs
<1> HIDE DEF b
<1>7. CanEncrypt(b, p) <=> Len(p) = 1 \/ \A m \in n + 1 .. Len(p) : p[m] \notin Names
  BY <1>5, <1>6 DEF CanEncrypt, Encryptable
<1>8. (\A m \in n + 1 .. Len(p) : p[m] \notin Names) <=> n = Len(p)
  <2>1. ASSUME n # Len(p) PROVE n + 1 \in n + 1 .. Len(p) /\ p[n + 1] \in Names
    BY <1>0, <2>1
  <2>2. n = Len(p) => n + 1 .. Len(p) = {}
    BY <1>0
  <2> QED
    BY <2>1, <2>2
<1>9. Len(p) # 1 => (n = Len(p) <=> p \in DOMAIN store.bases)
  <2>1. Take(p, Len(p)) = p
    BY <1>0, TakeAll
  <2> QED
    BY <1>0, <1>1, <2>1
<1> QED
  BY <1>4, <1>7, <1>8, <1>9 DEF b

\* An encrypted path comes back from the text that bypass shows it as.
LEMMA BypassBack ==
  ASSUME NEW store, NEW R, OwnerStore(R), Faithful(store, R), NEW p \in PlainPaths, HasBase(store, p)
  PROVE  LET b == Bypassed(store)
             e == EncOf(R, p)
             shown == DecryptPath(b, e)
         IN  CanDecrypt(b, e) /\ CanEncrypt(b, shown) /\ EncryptPath(b, shown) = e
<1> DEFINE b == Bypassed(store)
           e == EncOf(R, p)
           shown == DecryptPath(b, e)
           T == Names \cup EncParts(R.cipher)
<1>0. HasBase(R, p) /\ p \in Seq(Names) /\ Len(p) \in Nat /\ Len(p) >= 1
  BY Agrees DEF PlainPaths
<1>1. e \in Seq(T) /\ Len(e) = Len(p)
  BY <1>0, EncIs
<1>2. CASE Len(e) = 1
  BY <1>2 DEF CanDecrypt, CanEncrypt, DecryptPath, EncryptPath
<1>3. CASE Len(e) # 1
  <2>1. PICK n \in 1 .. Len(p) :
          /\ LookupEncrypted(store, e) = FoundAt(R, Take(p, n)) /\ Len(EncOf(R, Take(p, n))) = n
          /\ Take(p, n) \in DOMAIN store.bases \/ (n = 1 /\ store.defaultKey # None)
    BY LookupByOwnName
  <2> DEFINE q == Take(p, n)
             f == Drop(e, n)
             texts == [i \in 1 .. Len(e) - n |-> EncodeToString(f[i])]
             V == Comps \cup Base64Texts
  <2>2. LookupEncrypted(b, e) = BypassAt(R, q)
    BY <2>1, BypassLookup
  <2>3. HasEncryptedBase(b, e)
    BY LookupByOwnName, BypassIs
  <2>4. q \in PlainPaths /\ q \in Seq(Names) /\ Len(q) = n /\ HasBase(R, q)
    BY <1>0, SameBucket DEF PlainPaths
  <2>5. n \in 0 .. Len(e) /\ n \in Nat /\ n >= 1 /\ Len(e) - n \in Nat
    BY <1>0, <1>1
  <2>6. f \in Seq(T) /\ Len(f) = Len(e) - n /\ DOMAIN f = 1 .. Len(e) - n
    <3> HIDE DEF T
    <3> QED
      BY <1>1, <2>5, DropIs
  <2>7. T \subseteq Comps
    BY NoSlash DEF Comps
  <2>8. f \in Seq(Comps) /\ \A i \in 1 .. Len(e) - n : f[i] \in Comps
    <3> HIDE DEF T, f
    <3> QED
      BY <2>6, <2>7
  <2> HIDE DEF T, e, f, b
  <2>9. /\ DOMAIN texts = 1 .. Len(e) - n
        /\ \A i \in 1 .. Len(e) - n :
             texts[i] \in Base64Texts /\ texts[i] \notin Names /\ DecodeString(texts[i]) = f[i]
    <3>1. ASSUME NEW y \in Comps
          PROVE  EncodeToString(y) \in Base64Texts /\ DecodeString(EncodeToString(y)) = y
      <4> DEFINE s == <<y>>
      <4>1. s \in Seq(Comps) /\ Len(s) = 1 /\ s[1] = y
        OBVIOUS
      <4>2. EncodeToString(y) = [text |-> s, exact |-> TRUE]
        BY Zenon DEF EncodeToString
      <4> HIDE DEF s
      <4>3. EncodeToString(y) \in Base64Texts
        <5>1. \A S, z : z \in S => [text |-> z, exact |-> TRUE] \in [text : S, exact : BOOLEAN]
          OBVIOUS
        <5> QED
          BY <4>1, <4>2, <5>1, Zenon DEF Base64Texts
      <4>4. EncodeToString(y).text = s
        BY <4>2
      <4> QED
        BY <4>1, <4>3, <4>4 DEF DecodeString
    <3>2. \A y \in Base64Texts : y \notin Names
      BY PathAssumption, Zenon
    <3> QED
      BY <2>8, <3>1, <3>2
  <2>10. texts \in Seq(V) /\ Len(texts) = Len(e) - n
    <3>1. texts \in [1 .. Len(e) - n -> V]
      BY <2>9
    <3> HIDE DEF texts, V
    <3> QED
      BY <2>5, <3>1
  <2>11. shown = q \o texts
    <3> DEFINE base == LookupEncrypted(b, e)
    <3>1. base.unenc = q /\ Len(base.enc) = n /\ base.cipher = "base64"
      BY <2>1, <2>2 DEF BypassAt
    <3>2. shown = base.unenc \o DecryptIterator(Drop(e, Len(base.enc)), base.cipher)
      BY <1>3, Zenon DEF DecryptPath
    <3>3. DecryptIterator(f, "base64") = texts
      BY <2>6 DEF DecryptIterator, DecryptPathComponent
    <3> HIDE DEF base, shown
    <3>4. shown = q \o DecryptIterator(Drop(e, n), "base64")
      BY <3>1, <3>2, Zenon
    <3> QED
      BY <3>3, <3>4, Zenon DEF f
  <2>12. CanDecrypt(b, e)
    <3> DEFINE base == LookupEncrypted(b, e)
    <3>1. base.cipher = "base64"
      BY <2>2 DEF BypassAt
    <3>2. \A encs, key : DecryptIteratorOK(encs, "base64", key)
      BY DEF DecryptIteratorOK, Decryptable
    <3> HIDE DEF base
    <3>3. DecryptIteratorOK(Drop(e, Len(base.enc)), base.cipher, base.key)
      BY <3>1, <3>2, Zenon
    <3> QED
      BY <2>3, <3>3, Zenon DEF CanDecrypt, base
  <2> HIDE DEF shown, texts
  <2>13. /\ shown \in Seq(V) /\ Len(shown) = Len(e)
         /\ \A i \in 1 .. n : shown[i] = q[i]
         /\ \A i \in 1 .. Len(e) - n : shown[n + i] = texts[i]
    <3>1. q \in Seq(V)
      BY <2>4 DEF V, Comps
    <3> HIDE DEF V, q
    <3> QED
      BY <2>4, <2>5, <2>10, <2>11, <3>1
  <2> HIDE DEF V, q
  <2>14. \A m \in n + 1 .. Len(e) : shown[m] \in Base64Texts /\ shown[m] \notin Names
    <3> SUFFICES ASSUME NEW m \in n + 1 .. Len(e) PROVE shown[m] \in Base64Texts /\ shown[m] \notin Names
      OBVIOUS
    <3>1. m - n \in 1 .. Len(e) - n /\ n + (m - n) = m
      BY <2>5
    <3> QED
      BY <2>9, <2>13, <3>1
  <2>15. Take(shown, n) = q /\ Drop(shown, n) = texts
    <3>1. Take(shown, n) \in Seq(V) /\ Len(Take(shown, n)) = n /\ \A i \in 1 .. n : Take(shown, n)[i] = shown[i]
      BY <2>5, <2>13, TakeIs
    <3>2. /\ Drop(shown, n) \in Seq(V) /\ Len(Drop(shown, n)) = Len(e) - n
          /\ \A i \in 1 .. Len(e) - n : Drop(shown, n)[i] = shown[n + i]
      <4>1. n \in 0 .. Len(shown) /\ shown \in Seq(V) /\ Len(shown) = Len(e)
        BY <2>5, <2>13
      <4>2. /\ Drop(shown, n) \in Seq(V) /\ Len(Drop(shown, n)) = Len(shown) - n
            /\ \A i \in 1 .. Len(shown) - n : Drop(shown, n)[i] = shown[n + i]
        BY <4>1, DropIs
      <4> QED
        BY <4>1, <4>2
    <3>3. q \in Seq(V)
      BY <2>4 DEF V, Comps
    <3>4. Take(shown, n) = q
      BY <2>4, <2>13, <3>1, <3>3, SameSeq
    <3>5. Drop(shown, n) = texts
      BY <2>10, <2>13, <3>2, SameSeq
    <3> QED
      BY <3>4, <3>5
  \* The same base is found for the text: no name of a base goes on with a text.
  <2>16. \A m \in n + 1 .. Len(e) : Take(shown, m) \notin DOMAIN store.bases
    <3> SUFFICES ASSUME NEW m \in n + 1 .. Len(e), Take(shown, m) \in DOMAIN store.bases PROVE FALSE
      OBVIOUS
    <3>1. m \in 0 .. Len(shown) /\ m \in 1 .. m /\ m \in Nat
      BY <2>5, <2>13
    <3>2. Len(Take(shown, m)) = m /\ Take(shown, m)[m] = shown[m]
      BY <2>13, <3>1, TakeIs
    <3>3. Take(shown, m) \in Seq(Names)
      BY DEF Faithful, PlainPaths
    <3>4. Take(shown, m)[m] \in Names
      BY <3>1, <3>2, <3>3
    <3> QED
      BY <2>14, <3>2, <3>4
  <2>17. b.defaultKey = store.defaultKey /\ b.bases = store.bases /\ \A c : CipherOf(b, c) = "base64"
    BY BypassIs DEF b
  <2> DEFINE depths == {m \in 1 .. Len(shown) : Take(shown, m) \in DOMAIN b.bases}
             base == LookupUnencrypted(b, shown)
  <2>18. base.unenc = q /\ base.enc = EncOf(R, q) /\ base.cipher = "base64" /\ HasBase(b, shown)
    <3>1. CASE q \in DOMAIN store.bases
      <4>1. n \in depths
        BY <2>5, <2>13, <2>15, <2>17, <3>1
      <4>2. depths \subseteq 0 .. Len(e) /\ \A m \in depths : m <= n
        <5>1. \A m \in 1 .. Len(e) : m <= n \/ m \in n + 1 .. Len(e)
          BY <2>5
        <5> QED
          BY <2>5, <2>13, <2>16, <2>17, <5>1
      <4>3. Max(depths) \in depths /\ \A m \in depths : m <= Max(depths)
        <5> HIDE DEF depths
        <5>1. Len(e) \in Nat
          BY <2>5
        <5> QED
          BY <4>1, <4>2, <5>1, MaxIs
      <4>4. Max(depths) = n
        <5>1. Max(depths) <= n /\ n <= Max(depths)
          BY <4>1, <4>2, <4>3
        <5>2. Max(depths) \in Nat
          BY <4>2, <4>3
        <5> HIDE DEF depths
        <5> QED
          BY <2>5, <5>1, <5>2
      <4>5. depths # {}
        BY <4>1
      <4>6. base = [unenc |-> Take(shown, Max(depths)), enc |-> b.bases[Take(shown, Max(depths))].enc,
                    cipher |-> CipherOf(b, b.bases[Take(shown, Max(depths))].cipher),
                    key |-> b.bases[Take(shown, Max(depths))].key]
        BY <4>5, Zenon DEF LookupUnencrypted
      <4>7. Take(shown, Max(depths)) = q
        BY <2>15, <4>4
      <4>8. store.bases[q].enc = EncOf(R, q)
        BY <3>1, FaithfulFields
      <4>9. HasBase(b, shown)
        BY <2>17, <4>1 DEF HasBase
      <4> HIDE DEF depths, base
      <4>10. base = [unenc |-> q, enc |-> b.bases[q].enc, cipher |-> CipherOf(b, b.bases[q].cipher), key |-> b.bases[q].key]
        BY <4>6, <4>7
      <4>11. base.unenc = q /\ base.enc = b.bases[q].enc /\ base.cipher = CipherOf(b, b.bases[q].cipher)
        BY <4>10
      <4> QED
        BY <2>17, <4>8, <4>9, <4>11
    <3>2. CASE q \notin DOMAIN store.bases
      <4>1. n = 1 /\ store.defaultKey # None
        BY <2>1, <3>2 DEF q
      <4>2. depths = {}
        <5>1. \A m \in 1 .. Len(e) : m = n \/ m \in n + 1 .. Len(e)
          BY <2>5, <4>1
        <5> QED
          BY <2>13, <2>15, <2>16, <2>17, <3>2, <5>1
      <4>3. base = DefaultBase(b, shown)
        BY <4>2, Zenon DEF LookupUnencrypted
      <4>4. EncOf(R, q) = q
        <5>1. q = <<q[1]>> /\ q[1] \in Names
          BY <2>4, <4>1
        <5> QED
          BY <5>1, BucketIs
      <4>5. HasBase(b, shown)
        BY <2>17, <4>1 DEF HasBase
      <4> HIDE DEF depths, base
      <4>6. base.unenc = Take(shown, 1) /\ base.enc = Take(shown, 1) /\ base.cipher = "base64"
        BY <2>17, <4>3 DEF DefaultBase
      <4> QED
        BY <2>15, <4>1, <4>4, <4>5, <4>6
    <3> QED
      BY <3>1, <3>2
  <2> HIDE DEF base
  <2>19. CanEncrypt(b, shown)
    <3>1. \A m \in Len(base.unenc) + 1 .. Len(shown) : Encryptable(shown[m], base.cipher)
      BY <2>4, <2>13, <2>14, <2>18 DEF Encryptable
    <3> QED
      BY <2>18, <3>1, Zenon DEF CanEncrypt, base
  <2>20. EncryptPath(b, shown) = e
    <3>1. EncryptPath(b, shown) = base.enc \o Joined(EncryptIterator(Drop(shown, Len(base.unenc)), base.cipher, base.key))
      BY <1>3, <2>13, Zenon DEF EncryptPath, base
    <3>2. EncryptPath(b, shown) = EncOf(R, q) \o Joined(EncryptIterator(texts, "base64", base.key))
      BY <2>4, <2>15, <2>18, <3>1
    <3>3. EncryptIterator(texts, "base64", base.key) = [i \in 1 .. Len(e) - n |-> f[i]]
      BY <2>9 DEF EncryptIterator, EncryptPathComponent
    <3>4. f = [i \in 1 .. Len(e) - n |-> f[i]]
      BY <2>6
    <3>5. Joined(f) = f
      BY <2>8, NoSlash
    <3>6. EncOf(R, q) = Take(e, n)
      BY <1>0, EncPrefix DEF e, q
    <3>7. Take(e, n) \o Drop(e, n) = e
      BY <1>1, <2>5, TakeDrop
    <3> QED
      BY <3>2, <3>3, <3>4, <3>5, <3>6, <3>7, Zenon DEF f
  <2> QED
    BY <2>12, <2>19, <2>20 DEF b, e, shown
<1> QED
  BY <1>2, <1>3

\* What can be decrypted was encrypted.
LEMMA ComponentForth ==
  ASSUME NEW c \in Ciphers, NEW y \in EncParts(c), NEW key, Decryptable(y, c, key)
  PROVE  /\ DecryptPathComponent(y, c) \in Names
         /\ EncryptPathComponent(DecryptPathComponent(y, c), c, key) = y
<1>0. c # "base64"
  BY NotBase64
<1>1. CASE c = "null"
  BY <1>0, <1>1 DEF EncryptPathComponent, DecryptPathComponent, EncParts
<1>2. CASE c # "null"
  <2>1. y \in [key : PathKeys, comp : Names] /\ y \notin Parts /\ y.key = key
    BY <1>0, <1>2 DEF EncParts, Decryptable
  <2>2. y = [key |-> y.key, comp |-> y.comp] /\ y.comp \in Names
    BY <2>1
  <2>3. DecryptPathComponent(y, c) = y.comp
    BY <1>0, <1>2, <2>1 DEF DecryptPathComponent
  <2> QED
    BY <1>0, <1>2, <2>1, <2>2, <2>3 DEF EncryptPathComponent
<1> QED
  BY <1>1, <1>2

\* Encryption undoes decryption: a name that a store can decrypt is the owner's name of
\* what it decrypts to.
LEMMA EncryptsBack ==
  ASSUME NEW store, NEW R, OwnerStore(R), Faithful(store, R), NEW e \in EncPaths(R.cipher),
         HasEncryptedBase(store, e), CanDecrypt(store, e)
  PROVE  LET p == DecryptPath(store, e)
         IN  p \in PlainPaths /\ HasBase(R, p) /\ EncOf(R, p) = e /\ LookupEncrypted(store, e).cipher = R.cipher
<1> DEFINE T == Names \cup EncParts(R.cipher)
           c == R.cipher
           p == DecryptPath(store, e)
           base == LookupEncrypted(store, e)
<1>0. e \in Seq(T) /\ Len(e) \in Nat /\ Len(e) >= 1 /\ e[1] \in Names /\ \A i \in 2 .. Len(e) : e[i] \in EncParts(c)
  BY DEF EncPaths
<1>1. PICK q \in PlainPaths :
        /\ HasBase(R, q) /\ Len(q) \in 1 .. Len(e) /\ Take(e, Len(q)) = EncOf(R, q)
        /\ LookupEncrypted(store, e) = FoundAt(R, q)
  BY LookupByName
<1> DEFINE n == Len(q)
           k == KeyOf(R, q)
           f == Drop(e, n)
           D == DecryptIterator(f, c)
<1>2. n \in 1 .. Len(e) /\ n \in 0 .. Len(e) /\ n \in Nat /\ n >= 1 /\ q \in Seq(Names) /\ Len(EncOf(R, q)) = n
  BY <1>0, <1>1, EncIs DEF PlainPaths
<1>3. base.unenc = q /\ Len(base.enc) = n /\ base.cipher = c /\ base.key = k
  BY <1>1, <1>2 DEF FoundAt
<1>4. CASE Len(e) = 1
  <2>1. p = e
    BY <1>4 DEF DecryptPath
  <2>2. Len(q) = 1
    BY <1>1, <1>4
  <2>3. Take(e, 1) = e
    BY <1>0, <1>4, TakeAll
  <2>4. e = EncOf(R, q)
    BY <1>1, <2>2, <2>3
  <2>5. q = <<q[1]>> /\ q[1] \in Names
    <3>1. Take(q, 1) = <<q[1]>> /\ q[1] \in Names
      BY BucketPrefix
    <3> QED
      BY <1>2, <2>2, <3>1, TakeAll
  <2>6. EncOf(R, q) = q
    BY <2>5, BucketIs
  <2> QED
    BY <1>1, <1>3, <2>1, <2>4, <2>6
<1>5. CASE Len(e) # 1
  <2>1. f \in Seq(T) /\ Len(f) = Len(e) - n /\ DOMAIN f = 1 .. Len(e) - n /\ \A i \in 1 .. Len(e) - n : f[i] = e[n + i]
    <3> HIDE DEF T
    <3> QED
      BY <1>0, <1>2, DropIs
  <2>2. DecryptIteratorOK(f, c, k) /\ p = q \o D
    <3> HIDE DEF n, f, D
    <3>1. DecryptIteratorOK(Drop(e, Len(base.enc)), base.cipher, base.key)
      BY <1>5 DEF CanDecrypt
    <3>2. p = base.unenc \o DecryptIterator(Drop(e, Len(base.enc)), base.cipher)
      BY <1>5 DEF DecryptPath
    <3> HIDE DEF base
    <3> QED
      BY <1>3, <3>1, <3>2, Zenon DEF f, D
  <2> DEFINE At(i) == DerivePathKeyComponents(k, Take(D, i - 1))
  <2>3. D = [i \in 1 .. Len(e) - n |-> DecryptPathComponent(f[i], c)]
    BY <2>1 DEF DecryptIterator
  <2>4. \A i \in 1 .. Len(e) - n : Decryptable(f[i], c, At(i))
    BY <2>1, <2>2 DEF DecryptIteratorOK
  <2>5. \A i \in 1 .. Len(e) - n : f[i] \in EncParts(c)
    <3>1. \A i \in 1 .. Len(e) - n : n + i \in 2 .. Len(e)
      BY <1>0, <1>2
    <3> QED
      BY <1>0, <2>1, <3>1
  <2>6. c \in Ciphers
    BY DEF OwnerStore
  <2> HIDE DEF At, f
  <2>7. \A i \in 1 .. Len(e) - n :
          DecryptPathComponent(f[i], c) \in Names /\ EncryptPathComponent(DecryptPathComponent(f[i], c), c, At(i)) = f[i]
    BY <2>4, <2>5, <2>6, ComponentForth
  <2>8. D \in Seq(Names) /\ Len(D) = Len(e) - n /\ DOMAIN D = 1 .. Len(e) - n
    <3>1. D \in [1 .. Len(e) - n -> Names] /\ Len(e) - n \in Nat
      BY <1>0, <1>2, <2>3, <2>7
    <3> HIDE DEF D
    <3> QED
      BY <3>1
  <2>9. \A i \in 1 .. Len(e) - n : D[i] = DecryptPathComponent(f[i], c)
    BY <2>3
  <2> HIDE DEF D, p, n
  <2>10. p \in Seq(Names) /\ Len(p) = Len(e) /\ n \in 1 .. Len(p) /\ n \in 0 .. Len(p)
    BY <1>0, <1>2, <2>2, <2>8 DEF n
  <2>11. p \in PlainPaths
    BY <1>0, <2>10 DEF PlainPaths
  <2>12. Take(p, n) = q
    <3>1. \A i \in 1 .. n : p[i] = q[i]
      BY <1>2, <2>2, <2>8 DEF n
    <3>2. Take(p, n) \in Seq(Names) /\ Len(Take(p, n)) = n /\ \A i \in 1 .. n : Take(p, n)[i] = p[i]
      BY <2>10, TakeIs
    <3> QED
      BY <1>2, <3>1, <3>2, SameSeq DEF n
  <2>13. Drop(p, n) = D
    <3>1. \A i \in 1 .. Len(e) - n : p[n + i] = D[i]
      BY <1>0, <1>2, <2>2, <2>8 DEF n
    <3>2. Drop(p, n) \in Seq(Names) /\ Len(Drop(p, n)) = Len(e) - n /\ \A i \in 1 .. Len(e) - n : Drop(p, n)[i] = p[n + i]
      BY <2>10, DropIs
    <3> QED
      BY <2>8, <3>1, <3>2, SameSeq
  <2>14. HasBase(R, p)
    BY <1>1, <2>10, <2>11, <2>12, SameBucket
  <2>15. EncryptIterator(D, c, k) = f
    <3>1. EncryptIterator(D, c, k) = [i \in 1 .. Len(e) - n |-> EncryptPathComponent(D[i], c, At(i))]
      BY <2>8 DEF EncryptIterator, At
    <3>2. f = [i \in 1 .. Len(e) - n |-> f[i]]
      BY <2>1
    <3> QED
      BY <2>7, <2>9, <3>1, <3>2
  <2>16. EncOf(R, p) = EncOf(R, q) \o f
    BY <2>10, <2>11, <2>12, <2>13, <2>14, <2>15, EncExtends
  <2>17. Take(e, n) \o f = e
    <3> HIDE DEF T
    <3> QED
      BY <1>0, <1>2, TakeDrop DEF f, n
  <2>18. EncOf(R, p) = e
    BY <1>1, <2>16, <2>17 DEF n
  <2> HIDE DEF base
  <2> QED
    BY <1>3, <2>11, <2>14, <2>18 DEF p, base
<1> QED
  BY <1>4, <1>5

------------------------------------------------------------------------------
(* Building stores. *)

Entry(R, p) == [unenc |-> p, enc |-> EncOf(R, p), key |-> KeyOf(R, p), cipher |-> R.cipher]

StoreOf(R, key, Q) == [defaultKey |-> key, cipher |-> R.cipher, bases |-> [q \in Q |-> BaseOf(R, q)], bypass |-> "off"]

\* The owner's names never get in each other's way.
LEMMA NamesFit ==
  ASSUME NEW R, OwnerStore(R), NEW p \in PlainPaths, HasBase(R, p), NEW q \in PlainPaths, HasBase(R, q),
         NEW i \in 1 .. Len(p), i <= Len(q), Take(q, i - 1) = Take(p, i - 1)
  PROVE  q[i] = p[i] <=> EncOf(R, q)[i] = EncOf(R, p)[i]
<1>1. CASE i = 1
  <2>1. EncOf(R, q)[1] = q[1]
    BY EncIs
  <2>2. EncOf(R, p)[1] = p[1]
    BY EncIs
  <2> QED
    BY <1>1, <2>1, <2>2
<1>2. CASE i # 1
  <2> DEFINE k == KeyOf(R, Take(p, i - 1))
  <2>0. Len(p) \in Nat /\ Len(q) \in Nat
    BY DEF PlainPaths
  <2>1. i \in 2 .. Len(p) /\ i \in 2 .. Len(q)
    BY <1>2, <2>0
  <2>2. EncOf(R, p)[i] = EncryptPathComponent(p[i], R.cipher, k)
    BY <2>1, EncIs
  <2>3. EncOf(R, q)[i] = EncryptPathComponent(q[i], R.cipher, k)
    BY <2>1, EncIs
  <2> HIDE DEF k
  <2>4. \A x, y : EncryptPathComponent(x, R.cipher, k) = EncryptPathComponent(y, R.cipher, k) <=> x = y
    <3> SUFFICES ASSUME NEW x, NEW y,
                        EncryptPathComponent(x, R.cipher, k) = EncryptPathComponent(y, R.cipher, k)
                 PROVE  x = y
      OBVIOUS
    <3>1. [key |-> k, comp |-> x].comp = x /\ [key |-> k, comp |-> y].comp = y
      OBVIOUS
    <3>2. R.cipher # "base64"
      BY NotBase64 DEF OwnerStore
    <3> QED
      BY <3>1, <3>2 DEF EncryptPathComponent
  <2> QED
    BY <2>2, <2>3, <2>4
<1> QED
  BY <1>1, <1>2

LEMMA AddOne ==
  ASSUME NEW R, OwnerStore(R), NEW key, NEW Q, \A q \in Q : q \in PlainPaths /\ HasBase(R, q),
         NEW p \in PlainPaths, HasBase(R, p)
  PROVE  AddWithCipher(StoreOf(R, key, Q), p, EncOf(R, p), KeyOf(R, p), R.cipher) = StoreOf(R, key, Q \cup {p})
<1> DEFINE st == StoreOf(R, key, Q)
           B == [q \in Q |-> BaseOf(R, q)]
<1>1. st.bases = B /\ \A C : [st EXCEPT !.bases = C] = [defaultKey |-> key, cipher |-> R.cipher, bases |-> C, bypass |-> "off"]
  <2> HIDE DEF B
  <2>1. st = [defaultKey |-> key, cipher |-> R.cipher, bases |-> B, bypass |-> "off"]
    BY DEF StoreOf, B
  <2>2. st.bases = B
    BY <2>1
  <2>3. \A s, a, b, c, d, C :
          s = [defaultKey |-> a, cipher |-> b, bases |-> c, bypass |-> d]
            => [s EXCEPT !.bases = C] = [defaultKey |-> a, cipher |-> b, bases |-> C, bypass |-> d]
    OBVIOUS
  <2>4. ASSUME NEW C
        PROVE  [st EXCEPT !.bases = C] = [defaultKey |-> key, cipher |-> R.cipher, bases |-> C, bypass |-> "off"]
    BY <2>1
  <2> QED
    BY <2>2, <2>4
<1>2. DOMAIN B = Q /\ \A q \in Q : B[q] = BaseOf(R, q) /\ B[q].enc = EncOf(R, q)
  BY DEF BaseOf
<1> HIDE DEF st, B
<1>3. CanAdd(st, p, EncOf(R, p))
  <2>1. Len(p) = Len(EncOf(R, p))
    BY EncIs
  <2>2. \A q \in Q : \A i \in 1 .. Len(p) :
          i <= Len(q) /\ Take(q, i - 1) = Take(p, i - 1) => (q[i] = p[i] <=> EncOf(R, q)[i] = EncOf(R, p)[i])
    BY NamesFit
  <2> QED
    BY <1>1, <1>2, <2>1, <2>2 DEF CanAdd
<1> DEFINE C == [q \in Q \cup {p} |-> IF q = p THEN BaseOf(R, p) ELSE B[q]]
<1>4. AddWithCipher(st, p, EncOf(R, p), KeyOf(R, p), R.cipher) = [st EXCEPT !.bases = C]
  BY <1>1, <1>2, <1>3 DEF AddWithCipher, BaseOf
<1>5. C = [q \in Q \cup {p} |-> BaseOf(R, q)]
  BY <1>2
<1> HIDE DEF C
<1> QED
  BY <1>1, <1>4, <1>5 DEF StoreOf, st

\* Entries with the owner's names and keys can all be added.
LEMMA AddAllIs ==
  ASSUME NEW R, OwnerStore(R), NEW key, NEW P, IsFiniteSet(P), \A p \in P : p \in PlainPaths /\ HasBase(R, p)
  PROVE  AddAll(NewStore(R.cipher, key), {Entry(R, p) : p \in P}) = StoreOf(R, key, P)
<1> DEFINE E == {Entry(R, p) : p \in P}
           Of(s) == {p \in P : Entry(R, p) \in s}
           st0 == NewStore(R.cipher, key)
           Pick(s) == CHOOSE x \in s : TRUE
           Step(f, s) == IF s = {} THEN st0
                         ELSE LET x == Pick(s)
                              IN  AddWithCipher(f[s \ {x}], x.unenc, x.enc, x.key, x.cipher)
           g == [s \in SUBSET E |-> StoreOf(R, key, Of(s))]
           iter == CHOOSE f : f = [s \in SUBSET E |-> Step(f, s)]
<1>1. AddAll(st0, E) = iter[E]
  BY DEF AddAll, FoldSet, MapThenFoldSet
<1>2. \A p \in P : /\ Entry(R, p).unenc = p /\ Entry(R, p).enc = EncOf(R, p)
                   /\ Entry(R, p).key = KeyOf(R, p) /\ Entry(R, p).cipher = R.cipher
  BY DEF Entry
<1>3. ASSUME NEW s \in SUBSET E PROVE Step(g, s) = StoreOf(R, key, Of(s))
  <2>1. CASE s = {}
    <3>1. Of(s) = {}
      BY <2>1
    <3>2. [p \in {} |-> {}] = [q \in {} |-> BaseOf(R, q)]
      OBVIOUS
    <3>3. st0 = StoreOf(R, key, {})
      BY <3>2, Zenon DEF NewStore, StoreOf
    <3> HIDE DEF Of
    <3> QED
      BY <2>1, <3>1, <3>3
  <2>2. CASE s # {}
    <3> DEFINE x == Pick(s)
    <3>1. x \in s
      BY <2>2
    <3> HIDE DEF Pick
    <3>2. PICK p \in P : x = Entry(R, p)
      BY <3>1
    <3> HIDE DEF x
    <3>3. x.unenc = p /\ x.enc = EncOf(R, p) /\ x.key = KeyOf(R, p) /\ x.cipher = R.cipher
      BY <1>2, <3>2
    <3>4. Of(s \ {x}) \cup {p} = Of(s)
      BY <1>2, <3>1, <3>2
    <3>5. g[s \ {x}] = StoreOf(R, key, Of(s \ {x}))
      OBVIOUS
    <3>6. Of(s \ {x}) \subseteq P
      OBVIOUS
    <3>7. Step(g, s) = AddWithCipher(g[s \ {x}], x.unenc, x.enc, x.key, x.cipher)
      BY <2>2, Zenon DEF x
    <3> HIDE DEF Of, g, Step
    <3>8. Step(g, s) = AddWithCipher(StoreOf(R, key, Of(s \ {x})), p, EncOf(R, p), KeyOf(R, p), R.cipher)
      BY <3>3, <3>5, <3>7
    <3>9. \A q \in Of(s \ {x}) : q \in PlainPaths /\ HasBase(R, q)
      BY <3>6
    <3>10. AddWithCipher(StoreOf(R, key, Of(s \ {x})), p, EncOf(R, p), KeyOf(R, p), R.cipher)
             = StoreOf(R, key, Of(s \ {x}) \cup {p})
      <4> DEFINE Q == Of(s \ {x})
      <4>0. p \in PlainPaths /\ HasBase(R, p) /\ \A q \in Q : q \in PlainPaths /\ HasBase(R, q)
        BY <3>9
      <4> HIDE DEF Q
      <4>1. AddWithCipher(StoreOf(R, key, Q), p, EncOf(R, p), KeyOf(R, p), R.cipher) = StoreOf(R, key, Q \cup {p})
        BY <4>0, AddOne
      <4> QED
        BY <4>1 DEF Q
    <3> QED
      BY <3>4, <3>8, <3>10, Zenon
  <2> QED
    BY <2>1, <2>2
<1> HIDE DEF Step, Of, E
<1>4. g = [s \in SUBSET E |-> Step(g, s)]
  BY <1>3
<1>5. iter = [s \in SUBSET E |-> Step(iter, s)]
  <2> HIDE DEF g
  <2> QED
    BY <1>4, Zenon
<1> HIDE DEF iter, g
<1>6. \A s \in SUBSET E : iter[s] = g[s]
  <2> DEFINE Bad == {n \in Nat : \E s \in SUBSET E : Cardinality(s) = n /\ iter[s] # g[s]}
  <2> SUFFICES ASSUME NEW s \in SUBSET E, iter[s] # g[s] PROVE FALSE
    OBVIOUS
  <2>1. IsFiniteSet(E)
    <3> DEFINE f == [p \in P |-> Entry(R, p)]
    <3>1. f \in Surjection(P, E)
      BY DEF Surjection, E
    <3> QED
      BY <3>1, FS_Surjection
  <2>2. \A r \in SUBSET E : IsFiniteSet(r) /\ Cardinality(r) \in Nat
    BY <2>1, FS_Subset, FS_CardinalityType
  <2>3. Bad # {} /\ Bad \subseteq Nat
    BY <2>2
  <2>4. PICK n \in Bad : \A m \in Bad : n <= m
    BY <2>3, LeastNat
  <2>5. PICK r \in SUBSET E : Cardinality(r) = n /\ iter[r] # g[r]
    BY <2>4
  <2>6. CASE r = {}
    <3>1. iter[r] = Step(iter, r) /\ g[r] = Step(g, r)
      BY <1>4, <1>5
    <3> QED
      BY <2>5, <2>6, <3>1 DEF Step
  <2>7. CASE r # {}
    <3> DEFINE x == Pick(r)
               u == r \ {x}
    <3>1. x \in r
      BY <2>7
    <3>2. Cardinality(u) = n - 1 /\ u \in SUBSET E /\ n \in Nat
      BY <2>2, <2>4, <2>5, <3>1, FS_RemoveElement, ZenonT(30)
    <3>3. iter[u] = g[u]
      <4> SUFFICES ASSUME iter[u] # g[u] PROVE FALSE
        OBVIOUS
      <4>1. n - 1 \in Nat
        BY <2>2, <3>2
      <4>2. n - 1 \in Bad
        BY <3>2, <4>1
      <4> QED
        BY <2>4, <3>2, <4>2
    <3>4. iter[r] = Step(iter, r) /\ g[r] = Step(g, r)
      BY <1>4, <1>5
    <3>5. Step(iter, r) = Step(g, r)
      BY <2>7, <3>3 DEF Step
    <3> QED
      BY <2>5, <3>4, <3>5
  <2> QED
    BY <2>6, <2>7
<1>7. Of(E) = P
  BY DEF Of, E
<1>8. g[E] = StoreOf(R, key, Of(E))
  BY DEF g
<1>9. iter[E] = g[E]
  BY <1>6
<1> HIDE DEF st0
<1> QED
  BY <1>1, <1>7, <1>8, <1>9 DEF E, st0

LEMMA TakeNext ==
  ASSUME NEW T, NEW s \in Seq(T), NEW n \in Nat, n + 1 <= Len(s)
  PROVE  Take(s, n + 1) = Append(Take(s, n), s[n + 1])
<1>0. n \in 0 .. Len(s) /\ n + 1 \in 0 .. Len(s) /\ s[n + 1] \in T
  OBVIOUS
<1>1. Take(s, n) \in Seq(T) /\ Len(Take(s, n)) = n /\ \A i \in 1 .. n : Take(s, n)[i] = s[i]
  BY <1>0, TakeIs
<1>2. Take(s, n + 1) \in Seq(T) /\ Len(Take(s, n + 1)) = n + 1 /\ \A i \in 1 .. n + 1 : Take(s, n + 1)[i] = s[i]
  BY <1>0, TakeIs
<1> DEFINE t == Take(s, n)
           r == Append(t, s[n + 1])
<1> HIDE DEF t
<1>3. r \in Seq(T) /\ Len(r) = n + 1 /\ r[n + 1] = s[n + 1] /\ \A i \in 1 .. n : r[i] = t[i]
  BY <1>0, <1>1 DEF t
<1> HIDE DEF r
<1>4. \A i \in 1 .. n + 1 : i \in 1 .. n \/ i = n + 1
  OBVIOUS
<1>5. \A i \in 1 .. n + 1 : r[i] = Take(s, n + 1)[i]
  BY <1>1, <1>2, <1>3, <1>4 DEF t
<1>6. r = Take(s, n + 1)
  BY <1>2, <1>3, <1>5, SameSeq
<1> QED
  BY <1>6 DEF r, t

\* What a listing knows of a path.
InfoOf(R, q) == [unenc |-> q, enc |-> EncOf(R, q), key |-> KeyOf(R, q)]

\* One step of GetPrefixInfo's walk leads from a prefix to the next.
LEMMA WalkOn ==
  ASSUME NEW R, OwnerStore(R), NEW p \in PlainPaths, HasBase(R, p), NEW m \in 1 .. Len(p), m + 1 <= Len(p)
  PROVE  LET q == Take(p, m)
         IN  InfoOf(R, Take(p, m + 1)) =
               [unenc |-> Append(q, p[m + 1]),
                enc   |-> Append(EncOf(R, q), EncryptPathComponent(p[m + 1], R.cipher, KeyOf(R, q))),
                key   |-> DerivePathKeyComponents(KeyOf(R, q), <<p[m + 1]>>)]
<1>0. p \in Seq(Names) /\ Len(p) \in Nat /\ m + 1 \in 1 .. Len(p) /\ m \in Nat /\ m \in 0 .. Len(p) /\ m + 1 \in m .. Len(p)
      /\ m + 1 \in 2 .. Len(p)
  BY DEF PlainPaths
<1>1. Take(p, m + 1) = Append(Take(p, m), p[m + 1])
  BY <1>0, TakeNext
<1>2. EncOf(R, Take(p, m + 1)) =
        Append(EncOf(R, Take(p, m)), EncryptPathComponent(p[m + 1], R.cipher, KeyOf(R, Take(p, m))))
  <2> DEFINE e == EncOf(R, p)
  <2>1. e \in Seq(Names \cup EncParts(R.cipher)) /\ Len(e) = Len(p)
    BY EncIs
  <2>2. e[m + 1] = EncryptPathComponent(p[m + 1], R.cipher, KeyOf(R, Take(p, m + 1 - 1))) /\ m + 1 - 1 = m
    <3>1. \A i \in 2 .. Len(p) : e[i] = EncryptPathComponent(p[i], R.cipher, KeyOf(R, Take(p, i - 1)))
      BY EncIs
    <3> HIDE DEF e
    <3> QED
      BY <1>0, <3>1
  <2>3. EncOf(R, Take(p, m + 1)) = Take(e, m + 1) /\ EncOf(R, Take(p, m)) = Take(e, m)
    BY <1>0, EncPrefix
  <2> HIDE DEF e
  <2>4. Take(e, m + 1) = Append(Take(e, m), e[m + 1])
    BY <1>0, <2>1, TakeNext
  <2> QED
    BY <2>2, <2>3, <2>4
<1>3. KeyOf(R, Take(p, m + 1)) = DerivePathKeyComponents(KeyOf(R, Take(p, m)), <<p[m + 1]>>)
  <2>1. DerivePathKeyComponents(KeyOf(R, Take(p, m)), Take(Drop(p, m), m + 1 - m)) = KeyOf(R, Take(p, m + 1))
    BY <1>0, KeyBetween
  <2> DEFINE d == Drop(p, m)
  <2>2. d \in Seq(Names) /\ Len(d) = Len(p) - m /\ \A i \in 1 .. Len(p) - m : d[i] = p[m + i]
    BY <1>0, DropIs
  <2> HIDE DEF d
  <2>3. 1 \in 1 .. Len(p) - m /\ Len(d) >= 1 /\ m + 1 - m = 1
    BY <1>0, <2>2
  <2>4. d \in PlainPaths /\ d[1] = p[m + 1]
    BY <2>2, <2>3 DEF PlainPaths
  <2>5. Take(d, 1) = <<p[m + 1]>>
    BY <2>4, BucketPrefix
  <2> QED
    BY <2>1, <2>3, <2>5 DEF d
<1> QED
  BY <1>1, <1>2, <1>3, Zenon DEF InfoOf

\* GetPrefixInfo finds a path and its parent as each is by itself.
LEMMA PrefixInfoIs ==
  ASSUME NEW store, NEW R, OwnerStore(R), Faithful(store, R), NEW p \in PlainPaths, HasPrefixInfo(store, p)
  PROVE  LET q == IF Len(p) = 1 THEN p ELSE Take(p, Len(p) - 1)
         IN  /\ GetPrefixInfo(store, p) = [path |-> InfoOf(R, p), parent |-> InfoOf(R, q)]
             /\ q \in PlainPaths /\ HasBase(store, q)
<1> DEFINE base == LookupUnencrypted(store, p)
           rest == Drop(p, Len(base.unenc))
           last == Len(rest)
           Step(f, k) == IF k = 0 THEN [unenc |-> base.unenc, enc |-> base.enc, key |-> base.key]
                         ELSE [unenc |-> Append(f[k - 1].unenc, rest[k]),
                               enc   |-> Append(f[k - 1].enc, EncryptPathComponent(rest[k], base.cipher, f[k - 1].key)),
                               key   |-> DerivePathKeyComponents(f[k - 1].key, <<rest[k]>>)]
           walk == CHOOSE f : f = [k \in 0 .. last |-> Step(f, k)]
           q == IF Len(p) = 1 THEN p ELSE Take(p, Len(p) - 1)
<1>1. GetPrefixInfo(store, p) = [path |-> walk[last], parent |-> walk[IF rest = <<>> THEN 0 ELSE last - 1]]
  BY Zenon DEF GetPrefixInfo
<1>2. HasBase(store, p) /\ (Len(p) = 1 \/ Len(base.unenc) < Len(p))
  BY DEF HasPrefixInfo
<1>3. HasBase(R, p)
  BY <1>2, LookupFinds
<1>4. PICK n \in 1 .. Len(p) : base = FoundAt(R, Take(p, n)) /\ HasBase(store, Take(p, n))
  BY <1>2, LookupFinds
<1>5. p \in Seq(Names) /\ Len(p) \in Nat /\ n \in 0 .. Len(p) /\ Len(Take(p, n)) = n
  BY TakeIs DEF PlainPaths
<1> HIDE DEF base
<1>6. base.unenc = Take(p, n) /\ base.enc = EncOf(R, Take(p, n)) /\ base.key = KeyOf(R, Take(p, n)) /\ base.cipher = R.cipher
  BY <1>4 DEF FoundAt
<1>7. rest = Drop(p, n)
  BY <1>5, <1>6
<1> HIDE DEF rest
<1>8. rest \in Seq(Names) /\ last = Len(p) - n /\ last \in Nat /\ \A k \in 1 .. last : rest[k] = p[n + k]
  <2>1. rest \in Seq(Names) /\ Len(rest) = Len(p) - n /\ \A k \in 1 .. Len(p) - n : rest[k] = p[n + k]
    BY <1>5, <1>7, DropIs
  <2> QED
    BY <1>5, <2>1
<1> HIDE DEF last
<1> DEFINE W(k) == InfoOf(R, Take(p, n + k))
           w == [k \in 0 .. last |-> W(k)]
<1>9. ASSUME NEW k \in 0 .. last PROVE Step(w, k) = W(k)
  <2>1. CASE k = 0
    <3>1. n + k = n
      BY <1>5, <2>1
    <3> QED
      BY <1>6, <2>1, <3>1, Zenon DEF InfoOf
  <2>2. CASE k # 0
    <3> DEFINE m == n + (k - 1)
               x == rest[k]
    <3>1. m \in 1 .. Len(p) /\ m + 1 <= Len(p) /\ m + 1 = n + k /\ k - 1 \in 0 .. last /\ k \in 1 .. last
      BY <1>5, <1>8, <2>2
    <3>2. x = p[m + 1]
      BY <1>8, <3>1
    <3>3. w[k - 1] = InfoOf(R, Take(p, m))
      BY <3>1
    <3> HIDE DEF m, x, w
    <3>4. w[k - 1].unenc = Take(p, m) /\ w[k - 1].enc = EncOf(R, Take(p, m)) /\ w[k - 1].key = KeyOf(R, Take(p, m))
      BY <3>3 DEF InfoOf
    <3>5. Step(w, k) = [unenc |-> Append(w[k - 1].unenc, x),
                        enc   |-> Append(w[k - 1].enc, EncryptPathComponent(x, base.cipher, w[k - 1].key)),
                        key   |-> DerivePathKeyComponents(w[k - 1].key, <<x>>)]
      BY <2>2, Zenon DEF x
    <3> DEFINE y == Take(p, m)
    <3>6. InfoOf(R, Take(p, m + 1)) =
            [unenc |-> Append(y, x),
             enc   |-> Append(EncOf(R, y), EncryptPathComponent(x, R.cipher, KeyOf(R, y))),
             key   |-> DerivePathKeyComponents(KeyOf(R, y), <<x>>)]
      BY <1>3, <3>1, <3>2, WalkOn
    <3>7. Step(w, k) = InfoOf(R, Take(p, m + 1))
      <4> HIDE DEF y, Step
      <4>1. w[k - 1].unenc = y /\ w[k - 1].enc = EncOf(R, y) /\ w[k - 1].key = KeyOf(R, y)
        BY <3>4 DEF y
      <4> QED
        BY <1>6, <3>5, <3>6, <4>1, Zenon
    <3> QED
      BY <3>1, <3>7
  <2> QED
    BY <2>1, <2>2
<1>10. w = [k \in 0 .. last |-> Step(w, k)]
  <2> HIDE DEF Step, W
  <2> QED
    BY <1>9, Zenon
<1>11. walk = [k \in 0 .. last |-> Step(walk, k)]
  <2> HIDE DEF w, Step
  <2> QED
    BY <1>10, Zenon
<1> HIDE DEF walk
<1>12. \A k \in 0 .. last : walk[k] = w[k]
  <2> DEFINE Bad == {k \in 0 .. last : walk[k] # w[k]}
  <2> SUFFICES ASSUME Bad # {} PROVE FALSE
    OBVIOUS
  <2>1. Bad \subseteq Nat
    OBVIOUS
  <2>2. PICK k \in Bad : \A j \in Bad : k <= j
    BY <2>1, LeastNat
  <2>3. k \in 0 .. last /\ walk[k] # w[k]
    BY <2>2
  <2>4. walk[k] = Step(walk, k) /\ w[k] = Step(w, k)
    <3> HIDE DEF w, Step
    <3> QED
      BY <1>10, <1>11, <2>3, Zenon
  <2>5. CASE k = 0
    BY <2>3, <2>4, <2>5, Zenon
  <2>6. CASE k # 0
    <3>1. k - 1 \in 0 .. last /\ ~(k <= k - 1)
      BY <1>8, <2>3, <2>6
    <3>2. walk[k - 1] = w[k - 1]
      BY <2>2, <3>1
    <3>3. Step(walk, k) = Step(w, k)
      <4> HIDE DEF w
      <4> QED
        BY <2>6, <3>2, Zenon
    <3> QED
      BY <2>3, <2>4, <3>3
  <2> QED
    BY <2>5, <2>6
<1>13. walk[last] = InfoOf(R, p)
  <2>1. last \in 0 .. last /\ n + last = Len(p)
    BY <1>5, <1>8
  <2>2. Take(p, n + last) = p
    BY <1>5, <2>1, TakeAll
  <2> QED
    BY <1>12, <2>1, <2>2
<1>14. CASE Len(p) = 1
  <2>1. n = 1 /\ last = 0 /\ 0 \in 0 .. last
    BY <1>8, <1>14
  <2>2. rest = <<>>
    BY <1>8, <2>1 DEF last
  <2>3. Take(p, n) = p
    BY <1>5, <1>14, <2>1, TakeAll
  <2>4. HasBase(store, q) /\ q = p
    BY <1>2, <1>14
  <2> QED
    BY <1>1, <1>13, <1>14, <2>1, <2>2, <2>4, Zenon
<1>15. CASE Len(p) # 1
  <2>1. n < Len(p)
    BY <1>2, <1>5, <1>6, <1>15
  <2>2. last - 1 \in 0 .. last /\ n + (last - 1) = Len(p) - 1 /\ Len(p) - 1 \in n .. Len(p) /\ Len(p) - 1 \in 1 .. Len(p)
    BY <1>5, <1>8, <2>1
  <2>3. rest # <<>>
    BY <1>8, <2>2 DEF last
  <2>4. walk[last - 1] = InfoOf(R, q)
    BY <1>12, <1>15, <2>2
  <2>5. q \in PlainPaths /\ Len(q) = Len(p) - 1 /\ q = Take(p, Len(p) - 1)
    BY <1>15, <2>2, SameBucket
  <2>6. HasBase(store, q)
    <3>1. Take(q, n) = Take(p, n)
      BY <1>5, <2>2, <2>5, TakeTake
    <3>2. n \in 1 .. Len(q)
      BY <2>2, <2>5
    <3> HIDE DEF q
    <3> QED
      BY <1>4, <2>5, <3>1, <3>2, HasBaseBelow
  <2> HIDE DEF q
  <2> QED
    BY <1>1, <1>13, <2>3, <2>4, <2>5, <2>6, Zenon DEF q
<1> QED
  BY <1>14, <1>15

------------------------------------------------------------------------------
(* The stores that restricting and parsing build. *)

\* What is left of an owner's store when its own keys for buckets are gone.
Plain(O) == NewStore(O.cipher, O.defaultKey)

LEMMA OwnerFaithful ==
  ASSUME NEW R, OwnerStore(R)
  PROVE  Faithful(R, R)
<1>1. ASSUME NEW q \in DOMAIN R.bases PROVE q \in PlainPaths /\ HasBase(R, q) /\ R.bases[q] = BaseOf(R, q)
  <2>1. PICK b \in Buckets : q = <<b>>
    BY DEF OwnerStore
  <2>2. b \in Names
    BY DEF Names
  <2>3. q \in PlainPaths /\ Len(q) = 1 /\ EncOf(R, q) = q /\ q[1] = b
    BY <2>1, <2>2, BucketIs
  <2>4. HasBase(R, q)
    BY <2>1, <2>3, OwnerHasBase
  <2>5. KeyOf(R, q) = R.bases[q].key
    BY <2>1, <2>2, <2>4, BucketIs DEF BucketKey
  <2>6. R.bases[q] = [enc |-> q, key |-> R.bases[q].key, cipher |-> R.cipher]
    BY DEF OwnerStore
  <2> QED
    BY <2>3, <2>4, <2>5, <2>6, Zenon DEF BaseOf
<1>2. [q \in DOMAIN R.bases |-> R.bases[q]] = [q \in DOMAIN R.bases |-> BaseOf(R, q)]
  BY <1>1, Zenon
<1>3. R = [defaultKey |-> R.defaultKey, cipher |-> R.cipher, bases |-> [q \in DOMAIN R.bases |-> R.bases[q]], bypass |-> "off"]
  BY DEF OwnerStore
<1>4. R = [defaultKey |-> R.defaultKey, cipher |-> R.cipher, bases |-> [q \in DOMAIN R.bases |-> BaseOf(R, q)], bypass |-> "off"]
  BY <1>2, <1>3, Zenon
<1>5. IsFiniteSet(DOMAIN R.bases)
  BY DEF OwnerStore
<1> QED
  BY <1>1, <1>4, <1>5 DEF Faithful

LEMMA PlainIs ==
  ASSUME NEW O, OwnerStore(O)
  PROVE  /\ OwnerStore(Plain(O)) /\ Plain(O).cipher = O.cipher /\ Plain(O).defaultKey = O.defaultKey
         /\ DOMAIN Plain(O).bases = {}
         /\ DOMAIN O.bases = {} => Plain(O) = O
<1> DEFINE P == Plain(O)
           none == [p \in {} |-> {}]
<1>1. DOMAIN none = {} /\ \A f : DOMAIN f = {} => [q \in DOMAIN f |-> f[q]] = none
  OBVIOUS
<1>2. P = [defaultKey |-> O.defaultKey, cipher |-> O.cipher, bases |-> none, bypass |-> "off"]
  BY Zenon DEF Plain, NewStore
<1> HIDE DEF none, P
<1>3. P.defaultKey = O.defaultKey /\ P.cipher = O.cipher /\ P.bases = none
  BY <1>2
<1>4. [q \in DOMAIN P.bases |-> P.bases[q]] = none
  BY <1>1, <1>3, Zenon
<1>5. P = [defaultKey |-> P.defaultKey, cipher |-> P.cipher, bases |-> [q \in DOMAIN P.bases |-> P.bases[q]], bypass |-> "off"]
  BY <1>2, <1>3, <1>4, Zenon
<1>6. OwnerStore(P)
  <2>1. P.defaultKey \in PathKeys \cup {None} /\ P.cipher \in Ciphers
    BY <1>3 DEF OwnerStore
  <2>2. IsFiniteSet(DOMAIN P.bases) /\ DOMAIN P.bases = {}
    BY <1>1, <1>3, FS_EmptySet
  <2> QED
    BY <1>5, <2>1, <2>2, Zenon DEF OwnerStore
<1>7. ASSUME DOMAIN O.bases = {} PROVE P = O
  <2>1. [q \in DOMAIN O.bases |-> O.bases[q]] = none
    BY <1>1, <1>7, Zenon
  <2>2. O = [defaultKey |-> O.defaultKey, cipher |-> O.cipher, bases |-> [q \in DOMAIN O.bases |-> O.bases[q]], bypass |-> "off"]
    BY DEF OwnerStore
  <2> QED
    BY <1>2, <2>1, <2>2, Zenon
<1> QED
  BY <1>1, <1>3, <1>6, <1>7 DEF P

LEMMA StoreOfIs ==
  ASSUME NEW R, OwnerStore(R), NEW key, NEW P, IsFiniteSet(P), \A p \in P : p \in PlainPaths /\ HasBase(R, p)
  PROVE  LET st == StoreOf(R, key, P)
         IN  /\ st.defaultKey = key /\ st.cipher = R.cipher /\ DOMAIN st.bases = P
             /\ (key # None => key = R.defaultKey /\ DOMAIN R.bases \subseteq P) => Faithful(st, R)
<1> DEFINE st == StoreOf(R, key, P)
           B == [q \in P |-> BaseOf(R, q)]
<1>1. st = [defaultKey |-> key, cipher |-> R.cipher, bases |-> B, bypass |-> "off"]
  BY DEF StoreOf
<1>2. DOMAIN B = P
  OBVIOUS
<1> HIDE DEF B, st
<1>3. st.defaultKey = key /\ st.cipher = R.cipher /\ st.bases = B
  BY <1>1
<1>4. st = [defaultKey |-> st.defaultKey, cipher |-> R.cipher, bases |-> [q \in DOMAIN st.bases |-> BaseOf(R, q)], bypass |-> "off"]
  BY <1>1, <1>2, <1>3, Zenon DEF B
<1> QED
  BY <1>2, <1>3, <1>4, Zenon DEF Faithful, st

\* Sharing gives every prefix the owner's name and key.
LEMMA RestrictedIs ==
  ASSUME NEW st, NEW R, OwnerStore(R), Faithful(st, R), NEW P, IsFiniteSet(P),
         \A p \in P : p \in PlainPaths /\ HasBase(st, p)
  PROVE  /\ RestrictedStore(st, P) = StoreOf(R, IF P = {} THEN st.defaultKey ELSE None, P)
         /\ \A p \in P : HasBase(R, p) /\ EncryptPath(st, p) = EncOf(R, p)
<1>1. \A p \in P : HasBase(R, p) /\ EncryptPath(st, p) = EncOf(R, p) /\ DerivePathKey(st, p) = KeyOf(R, p)
  BY Agrees
<1>2. st.cipher = R.cipher
  BY FaithfulFields
<1>3. \A p \in P : Share(st, p) = Entry(R, p)
  BY <1>1, <1>2, Zenon DEF Share, Entry
<1>4. {Share(st, p) : p \in P} = {Entry(R, p) : p \in P}
  BY <1>3, Zenon
<1> DEFINE key == IF P = {} THEN st.defaultKey ELSE None
<1>5. RestrictedStore(st, P) = AddAll(NewStore(R.cipher, key), {Entry(R, p) : p \in P})
  BY <1>2, <1>4, Zenon DEF RestrictedStore
<1> HIDE DEF key
<1>6. AddAll(NewStore(R.cipher, key), {Entry(R, p) : p \in P}) = StoreOf(R, key, P)
  BY <1>1, AddAllIs
<1> QED
  BY <1>1, <1>5, <1>6 DEF key

\* Serializing and parsing a store yields the store.
LEMMA ParsedIs ==
  ASSUME NEW st, NEW R, OwnerStore(R), Faithful(st, R)
  PROVE  ParsedStore(st) = st
<1> DEFINE P == DOMAIN st.bases
           key == st.defaultKey
<1>1. IsFiniteSet(P) /\ \A p \in P : p \in PlainPaths /\ HasBase(R, p)
  BY DEF Faithful
<1>2. \A p \in P : [unenc |-> p, enc |-> st.bases[p].enc, key |-> st.bases[p].key, cipher |-> st.bases[p].cipher]
                     = Entry(R, p)
  BY FaithfulFields, Zenon DEF Entry
<1>3. IterateWithCipher(st) = {Entry(R, p) : p \in P}
  BY <1>2, Zenon DEF IterateWithCipher
<1>4. st.cipher = R.cipher
  BY FaithfulFields
<1>5. st = [defaultKey |-> key, cipher |-> R.cipher, bases |-> [q \in P |-> BaseOf(R, q)], bypass |-> "off"]
  BY Zenon DEF Faithful
<1> HIDE DEF P, key
<1>6. AddAll(NewStore(R.cipher, key), {Entry(R, p) : p \in P}) = StoreOf(R, key, P)
  BY <1>1, AddAllIs
<1> QED
  BY <1>3, <1>4, <1>5, <1>6, Zenon DEF ParsedStore, key, StoreOf

\* Caveats with paths that can be names under a cipher.
CaveatSet(c) ==
  [allow : SUBSET Deniable, from : Int \cup {None}, until : Int \cup {None},
   paths : {S \in SUBSET EncPaths(c) : IsFiniteSet(S)}, nonce : Nat]

LEMMA CollapsedFinite ==
  ASSUME NEW c, NEW caveats \in Seq(CaveatSet(c))
  PROVE  CollapsePrefixes(caveats) \subseteq EncPaths(c) /\ IsFiniteSet(CollapsePrefixes(caveats))
<1> DEFINE D == DOMAIN caveats
           All == {caveats[i].paths : i \in D}
           f == [i \in D |-> caveats[i].paths]
<1>1. D = 1 .. Len(caveats) /\ Len(caveats) \in Nat
  OBVIOUS
<1>2. \A i \in D : caveats[i] \in CaveatSet(c)
  OBVIOUS
<1>3. \A i \in D : caveats[i].paths \in SUBSET EncPaths(c) /\ IsFiniteSet(caveats[i].paths)
  BY <1>2 DEF CaveatSet
<1>4. IsFiniteSet(D)
  BY <1>1, FS_Interval
<1>5. f \in Surjection(D, All)
  BY DEF Surjection
<1>6. IsFiniteSet(All)
  BY <1>4, <1>5, FS_Surjection
<1>7. \A S \in All : IsFiniteSet(S)
  BY <1>3
<1>8. IsFiniteSet(UNION All)
  BY <1>6, <1>7, FS_UNION
<1>9. CollapsePrefixes(caveats) \subseteq UNION All
  BY DEF CollapsePrefixes
<1> QED
  BY <1>3, <1>8, <1>9, FS_Subset

\* The prefixes that limitTo keeps.
KeptNames(st, caveats) == {e \in CollapsePrefixes(caveats) : CanKeep(st, e)}
KeptPaths(st, caveats) == {DecryptPath(st, e) : e \in KeptNames(st, caveats)}

\* Limiting a store leaves bases that the owner's store would have, each below one that
\* the store had and named by a prefix that every caveat allows.
LEMMA LimitedIs ==
  ASSUME NEW st, NEW R, OwnerStore(R), Faithful(st, R), NEW caveats \in Seq(CaveatSet(R.cipher)),
         ~AllBuckets(caveats)
  PROVE  LET P == KeptPaths(st, caveats)
         IN  /\ LimitTo(st, caveats) = StoreOf(R, None, P) /\ IsFiniteSet(P)
             /\ \A p \in P : /\ p \in PlainPaths /\ HasBase(R, p) /\ HasBase(st, p)
                             /\ EncOf(R, p) \in CollapsePrefixes(caveats)
             /\ \A p \in PlainPaths : HasBase(st, p) /\ EncOf(R, p) \in CollapsePrefixes(caveats) => p \in P
<1> DEFINE P == KeptPaths(st, caveats)
           K == KeptNames(st, caveats)
           C == CollapsePrefixes(caveats)
<1>1. C \subseteq EncPaths(R.cipher) /\ IsFiniteSet(C)
  BY CollapsedFinite
<1>2. K = {e \in C : CanKeep(st, e)} /\ P = {DecryptPath(st, e) : e \in K}
  BY DEF KeptNames, KeptPaths
<1>3. ASSUME NEW e \in K
      PROVE  LET p == DecryptPath(st, e)
             IN  /\ p \in PlainPaths /\ HasBase(R, p) /\ HasBase(st, p) /\ EncOf(R, p) = e /\ e \in C
                 /\ KeepPrefix(st, e) = Entry(R, p)
  <2> DEFINE p == DecryptPath(st, e)
  <2> HIDE DEF C, K
  <2>1. e \in EncPaths(R.cipher) /\ e \in C /\ CanDecrypt(st, e) /\ HasBase(st, p) /\ HasEncryptedBase(st, e)
    BY <1>1, <1>2 DEF CanKeep
  <2>2. p \in PlainPaths /\ HasBase(R, p) /\ EncOf(R, p) = e /\ LookupEncrypted(st, e).cipher = R.cipher
    BY <2>1, EncryptsBack
  <2>3. DerivePathKey(st, p) = KeyOf(R, p)
    BY <2>1, <2>2, Agrees
  <2>4. KeepPrefix(st, e) = [unenc |-> p, enc |-> e, key |-> DerivePathKey(st, p),
                             cipher |-> LookupEncrypted(st, e).cipher]
    BY Zenon DEF KeepPrefix
  <2>5. KeepPrefix(st, e) = Entry(R, p)
    BY <2>2, <2>3, <2>4, Zenon DEF Entry
  <2> QED
    BY <2>1, <2>2, <2>5
<1>4. IsFiniteSet(P)
  <2> DEFINE f == [e \in K |-> DecryptPath(st, e)]
  <2>1. IsFiniteSet(K)
    BY <1>1, <1>2, FS_Subset
  <2>2. f \in Surjection(K, P)
    BY <1>2 DEF Surjection
  <2> QED
    BY <2>1, <2>2, FS_Surjection
<1>5. {KeepPrefix(st, e) : e \in K} = {Entry(R, p) : p \in P}
  <2>1. \A e \in K : KeepPrefix(st, e) = Entry(R, DecryptPath(st, e))
    BY <1>3
  <2> HIDE DEF P, K
  <2> QED
    BY <1>2, <2>1, Zenon
<1>6. \A p \in P : p \in PlainPaths /\ HasBase(R, p) /\ HasBase(st, p) /\ EncOf(R, p) \in C
  <2> HIDE DEF P, K, C
  <2> QED
    BY <1>2, <1>3
<1>7. LimitTo(st, caveats) = AddAll(NewStore(R.cipher, None), {KeepPrefix(st, e) : e \in K})
  <2>1. st.cipher = R.cipher
    BY FaithfulFields
  <2> QED
    BY <2>1, Zenon DEF LimitTo, KeptNames
<1>8. ASSUME NEW p \in PlainPaths, HasBase(st, p), EncOf(R, p) \in C PROVE p \in P
  <2>1. EncOf(R, p) \in K /\ DecryptPath(st, EncOf(R, p)) = p
    <3>1. HasEncryptedBase(st, EncOf(R, p)) /\ CanDecrypt(st, EncOf(R, p)) /\ DecryptPath(st, EncOf(R, p)) = p
      BY <1>8, DecryptsBack
    <3> HIDE DEF C, K
    <3> QED
      BY <1>2, <1>8, <3>1 DEF CanKeep
  <2> HIDE DEF P, K, C
  <2> QED
    BY <1>2, <2>1
<1> HIDE DEF P, K, C
<1>9. AddAll(NewStore(R.cipher, None), {Entry(R, p) : p \in P}) = StoreOf(R, None, P)
  BY <1>4, <1>6, AddAllIs
<1>10. LimitTo(st, caveats) = StoreOf(R, None, P)
  BY <1>5, <1>7, <1>9, Zenon
<1> QED
  BY <1>4, <1>6, <1>8, <1>10 DEF P, C

------------------------------------------------------------------------------
(* Prefixes of names. *)

LEMMA PrefixOfItself ==
  ASSUME NEW e, Len(e) \in Nat
  PROVE  HasPrefix(e, e)
BY DEF HasPrefix

\* A name that has a prefix keeps it when it is extended.
LEMMA PrefixExtended ==
  ASSUME NEW T, NEW e \in Seq(T), NEW n \in 1 .. Len(e), NEW x, Len(x) \in Nat, Len(x) >= 1, HasPrefix(Take(e, n), x)
  PROVE  HasPrefix(e, x)
<1> DEFINE m == Len(x)
           t == Take(e, n)
<1>1. t \in Seq(T) /\ Len(t) = n /\ \A i \in 1 .. n : t[i] = e[i]
  BY TakeIs
<1>2. m <= n /\ m \in 1 .. n
  BY <1>1 DEF HasPrefix
<1>3. ASSUME m >= 2 PROVE Take(t, m - 1) = Take(e, m - 1)
  BY <1>2, <1>3, TakeTake
<1>4. t[m] = e[m]
  BY <1>1, <1>2
<1> QED
  BY <1>1, <1>2, <1>3, <1>4 DEF HasPrefix

------------------------------------------------------------------------------
(* The inductive invariant: what holds of every grant. *)

\* The grant's store has the names and keys of the owner's, or of the owner's default key
\* once a caveat had no prefixes; a limited one has bases for allowed prefixes alone.
Sound(g, O) ==
  /\ g = NewGrant(g.parent, g.caveats, g.store, g.limited)
  /\ g.parent \in Nat /\ g.limited \in BOOLEAN
  /\ g.caveats \in Seq(CaveatSet(O.cipher))
  /\ \E R \in {O, Plain(O)} :
       Faithful(g.store, R) /\ (R # O => \E n \in DOMAIN g.caveats : g.caveats[n].paths = {})
  /\ g.limited /\ ~AllBuckets(g.caveats) =>
       /\ g.store.defaultKey = None
       /\ \A q \in DOMAIN g.store.bases : g.store.bases[q].enc \in CollapsePrefixes(g.caveats)

\* Every grant but the owner's has one caveat more than the grant it comes from.
Descends(i) ==
  /\ grants[i].parent \in 1 .. i - 1
  /\ Len(grants[i].caveats) >= 1
  /\ Parent(i).caveats = Take(grants[i].caveats, Len(grants[i].caveats) - 1)

GrantInv ==
  /\ grants \in Seq({grants[i] : i \in DOMAIN grants}) /\ Len(grants) >= 1
  /\ OwnerStore(grants[1].store) /\ grants[1].caveats = <<>> /\ grants[1].parent = 0
  /\ \A i \in 1 .. Len(grants) : Sound(grants[i], grants[1].store)
  /\ \A i \in 2 .. Len(grants) : Descends(i)

LEMMA AppendedCaveat ==
  ASSUME NEW c, NEW caveats \in Seq(CaveatSet(c)), NEW cav \in CaveatSet(c)
  PROVE  LET s == Append(caveats, cav)
         IN  /\ s \in Seq(CaveatSet(c)) /\ Len(s) = Len(caveats) + 1 /\ Len(caveats) \in Nat
             /\ DOMAIN caveats = 1 .. Len(caveats) /\ DOMAIN s = 1 .. Len(caveats) + 1
             /\ DOMAIN s = DOMAIN caveats \cup {Len(caveats) + 1}
             /\ s[Len(caveats) + 1] = cav /\ \A i \in DOMAIN caveats : s[i] = caveats[i]
             /\ Take(s, Len(caveats)) = caveats
<1> DEFINE s == Append(caveats, cav)
<1>1. /\ s \in Seq(CaveatSet(c)) /\ Len(s) = Len(caveats) + 1 /\ Len(caveats) \in Nat
      /\ DOMAIN caveats = 1 .. Len(caveats) /\ DOMAIN s = 1 .. Len(caveats) + 1
      /\ s[Len(caveats) + 1] = cav /\ \A i \in 1 .. Len(caveats) : s[i] = caveats[i]
  OBVIOUS
<1> HIDE DEF s
<1>2. Take(s, Len(caveats)) = caveats
  <2>1. Len(caveats) \in 0 .. Len(s)
    BY <1>1
  <2>2. /\ Take(s, Len(caveats)) \in Seq(CaveatSet(c)) /\ Len(Take(s, Len(caveats))) = Len(caveats)
        /\ \A i \in 1 .. Len(caveats) : Take(s, Len(caveats))[i] = s[i]
    BY <1>1, <2>1, TakeIs
  <2> QED
    BY <1>1, <2>2, SameSeq
<1>3. 1 .. Len(caveats) + 1 = 1 .. Len(caveats) \cup {Len(caveats) + 1}
  BY <1>1
<1> QED
  BY <1>1, <1>2, <1>3 DEF s

\* The owner's store that a grant's store agrees with.
LEMMA SourceIs ==
  ASSUME NEW O, OwnerStore(O), NEW R \in {O, Plain(O)}
  PROVE  OwnerStore(R) /\ R.cipher = O.cipher /\ R.defaultKey = O.defaultKey
BY PlainIs

LEMMA NamePaths ==
  ASSUME NEW c, NEW x \in EncPaths(c)
  PROVE  Len(x) \in Nat /\ Len(x) >= 1
BY DEF EncPaths

LEMMA CaveatPaths ==
  ASSUME NEW c, NEW caveats \in Seq(CaveatSet(c)), NEW n \in DOMAIN caveats
  PROVE  caveats[n].paths \subseteq EncPaths(c)
<1>1. caveats[n] \in CaveatSet(c)
  OBVIOUS
<1> QED
  BY <1>1 DEF CaveatSet

\* All that a limited grant has keys for is below a prefix of each of its caveats.
LEMMA WithinCaveats ==
  ASSUME NEW O, OwnerStore(O), NEW g, Sound(g, O), g.limited, NEW p \in PlainPaths, HasBase(g.store, p),
         NEW n \in DOMAIN g.caveats, g.caveats[n].paths # {}
  PROVE  \E x \in g.caveats[n].paths : HasPrefix(EncryptPath(g.store, p), x)
<1> DEFINE st == g.store
<1>1. PICK R \in {O, Plain(O)} : Faithful(st, R)
  BY DEF Sound
<1>2. OwnerStore(R) /\ R.cipher = O.cipher
  BY SourceIs
<1>3. /\ g.caveats \in Seq(CaveatSet(O.cipher)) /\ st.defaultKey = None
      /\ \A q \in DOMAIN st.bases : st.bases[q].enc \in CollapsePrefixes(g.caveats)
  BY DEF Sound, AllBuckets
<1> HIDE DEF st
<1>4. HasBase(st, p)
  BY DEF st
<1>5. PICK m \in 1 .. Len(p) : Take(p, m) \in DOMAIN st.bases
  BY <1>3, <1>4 DEF HasBase
<1>6. HasBase(R, p) /\ EncryptPath(st, p) = EncOf(R, p)
  BY <1>1, <1>2, <1>4, Agrees
<1>7. st.bases[Take(p, m)].enc = EncOf(R, Take(p, m))
  BY <1>1, <1>5, FaithfulFields
<1>8. EncOf(R, Take(p, m)) = Take(EncOf(R, p), m)
  BY <1>2, <1>6, EncPrefix
<1>9. Take(EncOf(R, p), m) \in CollapsePrefixes(g.caveats)
  BY <1>3, <1>5, <1>7, <1>8
<1>10. PICK x \in g.caveats[n].paths : HasPrefix(Take(EncOf(R, p), m), x)
  BY <1>9 DEF CollapsePrefixes
<1>11. Len(x) \in Nat /\ Len(x) >= 1
  <2>1. x \in EncPaths(O.cipher)
    BY <1>3, <1>10, CaveatPaths
  <2> QED
    BY <2>1, NamePaths
<1>12. EncOf(R, p) \in Seq(Names \cup EncParts(R.cipher)) /\ Len(EncOf(R, p)) = Len(p)
  BY <1>2, <1>6, EncIs
<1>13. HasPrefix(EncOf(R, p), x)
  BY <1>10, <1>11, <1>12, PrefixExtended
<1> QED
  BY <1>6, <1>10, <1>13 DEF st

\* The caveat that a store's names make.
LEMMA CaveatIs ==
  ASSUME NEW st, NEW R, OwnerStore(R), Faithful(st, R), NEW P, IsFiniteSet(P),
         \A p \in P : p \in PlainPaths /\ HasBase(st, p), NEW perm \in Permissions, Len(grants) \in Nat
  PROVE  LET cav == Caveat(perm, {EncryptPath(st, p) : p \in P})
         IN  cav \in CaveatSet(R.cipher) /\ cav.paths = {EncryptPath(st, p) : p \in P}
<1> DEFINE N == {EncryptPath(st, p) : p \in P}
           f == [p \in P |-> EncryptPath(st, p)]
<1>1. f \in Surjection(P, N)
  BY DEF Surjection
<1>2. IsFiniteSet(N)
  BY <1>1, FS_Surjection
<1>3. ASSUME NEW p \in P PROVE EncryptPath(st, p) \in EncPaths(R.cipher)
  <2>1. HasBase(R, p) /\ EncryptPath(st, p) = EncOf(R, p)
    BY Agrees
  <2>2. EncOf(R, p) \in EncPaths(R.cipher)
    BY <2>1, EncIs
  <2> QED
    BY <2>1, <2>2
<1>4. N \in SUBSET EncPaths(R.cipher)
  BY <1>3
<1>5. perm.allow \in SUBSET Deniable /\ perm.from \in Int \cup {None} /\ perm.until \in Int \cup {None}
  BY GrantAssumption
<1> HIDE DEF N
<1>6. Caveat(perm, N) \in CaveatSet(R.cipher) /\ Caveat(perm, N).paths = N
  BY <1>2, <1>4, <1>5 DEF Caveat, CaveatSet
<1> QED
  BY <1>6 DEF N

\* Access.Restrict keeps a grant sound.
LEMMA RestrictSound ==
  ASSUME NEW O, OwnerStore(O), NEW g, Sound(g, O), NEW P, IsFiniteSet(P),
         \A p \in P : p \in PlainPaths /\ HasBase(g.store, p),
         NEW cav \in CaveatSet(O.cipher), cav.paths = {EncryptPath(g.store, p) : p \in P}, NEW parent \in Nat
  PROVE  Sound(NewGrant(parent, Append(g.caveats, cav), RestrictedStore(g.store, P), g.limited), O)
<1> DEFINE st == g.store
           old == g.caveats
           new == Append(old, cav)
           key == IF P = {} THEN st.defaultKey ELSE None
           rs == RestrictedStore(st, P)
           h == NewGrant(parent, new, rs, g.limited)
<1>1. PICK R \in {O, Plain(O)} : Faithful(st, R) /\ (R # O => \E n \in DOMAIN old : old[n].paths = {})
  BY DEF Sound
<1>2. OwnerStore(R) /\ R.cipher = O.cipher /\ R.defaultKey = O.defaultKey
  BY SourceIs
<1>3. old \in Seq(CaveatSet(O.cipher)) /\ g.limited \in BOOLEAN
  BY DEF Sound
<1>4. /\ new \in Seq(CaveatSet(O.cipher)) /\ DOMAIN new = DOMAIN old \cup {Len(old) + 1}
      /\ new[Len(old) + 1] = cav /\ \A i \in DOMAIN old : new[i] = old[i]
  BY <1>3, AppendedCaveat
<1> HIDE DEF new, rs
<1>5. h.parent = parent /\ h.caveats = new /\ h.store = rs /\ h.limited = g.limited
  BY DEF NewGrant
<1>6. rs = StoreOf(R, key, P) /\ \A p \in P : HasBase(R, p) /\ EncryptPath(st, p) = EncOf(R, p)
  BY <1>1, <1>2, RestrictedIs DEF rs
<1>7. \E S \in {O, Plain(O)} : Faithful(rs, S) /\ (S # O => \E n \in DOMAIN new : new[n].paths = {})
  <2>1. CASE P = {}
    <3> DEFINE Q == Plain(O)
    <3>1. OwnerStore(Q) /\ Q.cipher = O.cipher /\ Q.defaultKey = O.defaultKey /\ DOMAIN Q.bases = {}
      BY PlainIs
    <3> HIDE DEF Q
    <3>2. [q \in {} |-> BaseOf(R, q)] = [q \in {} |-> BaseOf(Q, q)]
      OBVIOUS
    <3>3. rs = StoreOf(Q, st.defaultKey, {})
      BY <1>2, <1>6, <2>1, <3>1, <3>2, Zenon DEF StoreOf
    <3>4. st.defaultKey # None => st.defaultKey = Q.defaultKey
      BY <1>1, <1>2, <3>1 DEF Faithful
    <3>5. IsFiniteSet({})
      BY FS_EmptySet
    <3>6. Faithful(StoreOf(Q, st.defaultKey, {}), Q)
      BY <3>1, <3>4, <3>5, StoreOfIs
    <3>7. new[Len(old) + 1].paths = {} /\ Len(old) + 1 \in DOMAIN new
      BY <1>4, <2>1
    <3> QED
      BY <3>3, <3>6, <3>7 DEF Q
  <2>2. CASE P # {}
    <3>1. rs = StoreOf(R, None, P)
      BY <1>6, <2>2
    <3>2. Faithful(StoreOf(R, None, P), R)
      BY <1>2, <1>6, StoreOfIs
    <3>3. R # O => \E n \in DOMAIN new : new[n].paths = {}
      BY <1>1, <1>4
    <3> QED
      BY <3>1, <3>2, <3>3
  <2> QED
    BY <2>1, <2>2
<1>8. ASSUME g.limited, ~AllBuckets(new)
      PROVE  /\ rs.defaultKey = None
             /\ \A q \in DOMAIN rs.bases : rs.bases[q].enc \in CollapsePrefixes(new)
  <2> HIDE DEF key
  <2>1. rs.defaultKey = key /\ DOMAIN rs.bases = P /\ \A q \in P : rs.bases[q].enc = EncOf(R, q)
    <3>1. rs.defaultKey = key /\ DOMAIN rs.bases = P
      BY <1>2, <1>6, StoreOfIs
    <3>2. rs.bases = [q \in P |-> BaseOf(R, q)]
      <4> DEFINE B == [q \in P |-> BaseOf(R, q)]
      <4>1. rs = [defaultKey |-> key, cipher |-> R.cipher, bases |-> B, bypass |-> "off"]
        BY <1>6 DEF StoreOf
      <4> HIDE DEF B
      <4> QED
        BY <4>1 DEF B
    <3> QED
      BY <3>1, <3>2 DEF BaseOf
  <2>2. CASE P = {}
    <3>1. cav.paths = {}
      BY <2>2
    <3>2. ~AllBuckets(old)
      BY <1>4, <1>8, <3>1 DEF AllBuckets
    <3>3. st.defaultKey = None
      BY <1>8, <3>2 DEF Sound
    <3> QED
      BY <2>1, <2>2, <3>3 DEF key
  <2>3. CASE P # {}
    <3>1. ASSUME NEW q \in P PROVE EncOf(R, q) \in CollapsePrefixes(new)
      <4> DEFINE e == EncOf(R, q)
      <4>1. e \in cav.paths /\ EncryptPath(st, q) = e
        BY <1>6
      <4>2. Len(e) \in Nat
        BY <4>1, CaveatPaths, NamePaths DEF CaveatSet
      <4> HIDE DEF e
      <4>3. ASSUME NEW i \in DOMAIN new, new[i].paths # {} PROVE \E x \in new[i].paths : HasPrefix(e, x)
        <5>1. CASE i = Len(old) + 1
          BY <1>4, <4>1, <4>2, <5>1, PrefixOfItself
        <5>2. CASE i \in DOMAIN old
          <6>1. old[i].paths # {} /\ new[i] = old[i]
            BY <1>4, <4>3, <5>2
          <6>2. \E x \in old[i].paths : HasPrefix(EncryptPath(st, q), x)
            BY <1>8, <5>2, <6>1, WithinCaveats
          <6> QED
            BY <4>1, <6>1, <6>2
        <5> QED
          BY <1>4, <5>1, <5>2
      <4>4. e \in UNION {new[i].paths : i \in DOMAIN new}
        BY <1>4, <4>1
      <4> QED
        BY <4>3, <4>4 DEF CollapsePrefixes, e
    <3> QED
      BY <2>1, <2>3, <3>1 DEF key
  <2> QED
    BY <2>2, <2>3
<1>9. h = NewGrant(h.parent, h.caveats, h.store, h.limited)
  BY <1>5
<1> HIDE DEF h
<1>10. Sound(h, O)
  BY <1>3, <1>4, <1>5, <1>7, <1>8, <1>9 DEF Sound
<1> QED
  BY <1>10 DEF h, new, rs

\* An attenuated API key keeps the store, which is not limited any more.
LEMMA AttenuateSound ==
  ASSUME NEW O, OwnerStore(O), NEW g, Sound(g, O), NEW cav \in CaveatSet(O.cipher), NEW parent \in Nat
  PROVE  Sound(NewGrant(parent, Append(g.caveats, cav), g.store, FALSE), O)
<1> DEFINE old == g.caveats
           new == Append(old, cav)
           h == NewGrant(parent, new, g.store, FALSE)
<1>1. PICK R \in {O, Plain(O)} : Faithful(g.store, R) /\ (R # O => \E n \in DOMAIN old : old[n].paths = {})
  BY DEF Sound
<1>2. old \in Seq(CaveatSet(O.cipher))
  BY DEF Sound
<1>3. /\ new \in Seq(CaveatSet(O.cipher)) /\ DOMAIN new = DOMAIN old \cup {Len(old) + 1}
      /\ \A i \in DOMAIN old : new[i] = old[i]
  BY <1>2, AppendedCaveat
<1> HIDE DEF new
<1>4. h.parent = parent /\ h.caveats = new /\ h.store = g.store /\ h.limited = FALSE
  BY DEF NewGrant
<1>5. h = NewGrant(h.parent, h.caveats, h.store, h.limited)
  BY <1>4
<1> HIDE DEF h
<1>6. R # O => \E n \in DOMAIN new : new[n].paths = {}
  BY <1>1, <1>3
<1>7. Sound(h, O)
  BY <1>1, <1>3, <1>4, <1>5, <1>6 DEF Sound
<1> QED
  BY <1>7 DEF h, new

\* Parsing keeps a grant sound, and limits its store to what the caveats allow.
LEMMA ReparseSound ==
  ASSUME NEW O, OwnerStore(O), NEW g, Sound(g, O)
  PROVE  Sound(NewGrant(g.parent, g.caveats, LimitTo(ParsedStore(g.store), g.caveats), TRUE), O)
<1> DEFINE st == g.store
           cavs == g.caveats
           ls == LimitTo(st, cavs)
           h == NewGrant(g.parent, cavs, ls, TRUE)
<1>1. PICK R \in {O, Plain(O)} : Faithful(st, R) /\ (R # O => \E n \in DOMAIN cavs : cavs[n].paths = {})
  BY DEF Sound
<1>2. OwnerStore(R) /\ R.cipher = O.cipher
  BY SourceIs
<1>3. cavs \in Seq(CaveatSet(R.cipher)) /\ g.parent \in Nat
  BY <1>2 DEF Sound
<1>4. ParsedStore(st) = st
  BY <1>1, <1>2, ParsedIs
<1> HIDE DEF ls
<1>5. h.parent = g.parent /\ h.caveats = cavs /\ h.store = ls /\ h.limited = TRUE
  BY DEF NewGrant
<1>6. h = NewGrant(h.parent, h.caveats, h.store, h.limited)
  BY <1>5
<1> HIDE DEF h
<1>7. CASE AllBuckets(cavs)
  <2>1. ls = st
    BY <1>7 DEF LimitTo, ls
  <2> QED
    BY <1>1, <1>2, <1>3, <1>4, <1>5, <1>6, <1>7, <2>1 DEF Sound, h, ls
<1>8. CASE ~AllBuckets(cavs)
  <2> DEFINE P == KeptPaths(st, cavs)
  <2>1. /\ ls = StoreOf(R, None, P) /\ IsFiniteSet(P)
        /\ \A p \in P : p \in PlainPaths /\ HasBase(R, p) /\ EncOf(R, p) \in CollapsePrefixes(cavs)
    BY <1>1, <1>2, <1>3, <1>8, LimitedIs DEF ls
  <2> HIDE DEF P
  <2>2. ls.defaultKey = None /\ DOMAIN ls.bases = P /\ Faithful(ls, R)
    BY <1>2, <2>1, StoreOfIs
  <2>3. \A q \in DOMAIN ls.bases : ls.bases[q].enc \in CollapsePrefixes(cavs)
    BY <2>1, <2>2, FaithfulFields
  <2>4. Sound(h, O)
    BY <1>1, <1>2, <1>3, <1>5, <1>6, <2>2, <2>3 DEF Sound
  <2> QED
    BY <1>4, <2>4 DEF h, ls
<1> QED
  BY <1>7, <1>8

LEMMA ElementsOf ==
  ASSUME NEW T, NEW s \in Seq(T)
  PROVE  s \in Seq({s[i] : i \in DOMAIN s})
<1>1. Len(s) \in Nat /\ DOMAIN s = 1 .. Len(s) /\ s = [i \in 1 .. Len(s) |-> s[i]]
  OBVIOUS
<1> QED
  BY <1>1

LEMMA PathsPlain == Paths \subseteq PlainPaths
BY PathAssumption DEF PlainPaths

LEMMA GrantInvInit ==
  ASSUME OwnersUniform, GrantInit
  PROVE  GrantInv
<1>1. PICK O \in Owners : grants = <<NewGrant(0, <<>>, O, TRUE)>>
  BY DEF GrantInit
<1> DEFINE g == NewGrant(0, <<>>, O, TRUE)
<1>2. OwnerStore(O)
  <2>1. ASSUME NEW q \in DOMAIN O.bases
        PROVE  /\ q \in {<<b>> : b \in Buckets} /\ O.bases[q].key \in PathKeys
               /\ O.bases[q] = [enc |-> q, key |-> O.bases[q].key, cipher |-> O.cipher]
    <3>1. q \in Paths /\ O.bases[q].key \in PathKeys
      BY OwnersAssumption
    <3>2. Len(q) = 1 /\ O.bases[q] = [enc |-> q, key |-> O.bases[q].key, cipher |-> O.cipher]
      BY DEF OwnersUniform, OwnBucket
    <3>3. q \in Seq(Names) /\ q[1] \in Buckets
      BY <3>1, PathAssumption
    <3>4. q = <<q[1]>>
      BY <3>2, <3>3
    <3> QED
      BY <3>1, <3>2, <3>3, <3>4
  <2>2. /\ O = [defaultKey |-> O.defaultKey, cipher |-> O.cipher,
                bases |-> [q \in DOMAIN O.bases |-> O.bases[q]], bypass |-> "off"]
        /\ O.defaultKey \in PathKeys \cup {None} /\ O.cipher \in Ciphers /\ IsFiniteSet(DOMAIN O.bases)
    BY OwnersAssumption
  <2> QED
    BY <2>1, <2>2, Zenon DEF OwnerStore
<1>3. g.parent = 0 /\ g.caveats = <<>> /\ g.store = O /\ g.limited = TRUE
  BY DEF NewGrant
<1>4. g = NewGrant(g.parent, g.caveats, g.store, g.limited)
  BY <1>3
<1> HIDE DEF g
<1>5. Sound(g, O)
  <2>1. Faithful(O, O)
    BY <1>2, OwnerFaithful
  <2>2. AllBuckets(<<>>)
    BY DEF AllBuckets
  <2>3. <<>> \in Seq(CaveatSet(O.cipher))
    OBVIOUS
  <2>4. \E R \in {O, Plain(O)} :
          Faithful(g.store, R) /\ (R # O => \E n \in DOMAIN g.caveats : g.caveats[n].paths = {})
    BY <1>3, <2>1
  <2>5. AllBuckets(g.caveats) /\ g.caveats \in Seq(CaveatSet(O.cipher))
    BY <1>3, <2>2, <2>3
  <2>6. g.parent \in Nat
    BY <1>3
  <2>7. g.limited \in BOOLEAN
    BY <1>3, Zenon
  <2> QED
    BY <1>4, <2>4, <2>5, <2>6, <2>7, Zenon DEF Sound
<1>6. grants = <<g>>
  BY <1>1 DEF g
<1>7. Len(grants) = 1 /\ grants[1] = g /\ grants \in Seq({g})
  BY <1>6
<1>8. grants \in Seq({grants[i] : i \in DOMAIN grants})
  BY <1>7, ElementsOf
<1> QED
  BY <1>2, <1>3, <1>5, <1>7, <1>8 DEF GrantInv

\* A new grant with the caveats of one before and another.
LEMMA GrantAdded ==
  ASSUME GrantInv, NEW i \in DOMAIN grants, NEW cav \in CaveatSet(grants[1].store.cipher), NEW h,
         Sound(h, grants[1].store), h.parent = i, h.caveats = Append(grants[i].caveats, cav),
         grants' = Append(grants, h)
  PROVE  GrantInv'
<1> DEFINE O == grants[1].store
           n == Len(grants)
           T == {grants[j] : j \in DOMAIN grants}
<1>1. grants \in Seq(T) /\ n \in Nat /\ n >= 1 /\ DOMAIN grants = 1 .. n
  BY DEF GrantInv
<1> HIDE DEF T
<1>2. /\ grants' \in Seq(T \cup {h}) /\ Len(grants') = n + 1 /\ grants'[n + 1] = h
      /\ \A j \in 1 .. n : grants'[j] = grants[j]
  BY <1>1
<1>3. grants' \in Seq({grants'[j] : j \in DOMAIN grants'})
  <2> DEFINE s == Append(grants, h)
  <2>1. s \in Seq(T \cup {h})
    BY <1>1
  <2> HIDE DEF s
  <2>2. s \in Seq({s[j] : j \in DOMAIN s})
    BY <2>1, ElementsOf
  <2>3. grants' = s
    BY DEF s
  <2> QED
    BY <2>2, <2>3
<1>4. grants'[1] = grants[1]
  BY <1>1, <1>2
<1>5. \A j \in 1 .. n + 1 : Sound(grants'[j], O)
  <2>1. \A j \in 1 .. n : Sound(grants[j], O)
    BY DEF GrantInv
  <2>2. \A j \in 1 .. n + 1 : j \in 1 .. n \/ j = n + 1
    BY <1>1
  <2> QED
    BY <1>2, <2>1, <2>2
<1>6. ASSUME NEW j \in 2 .. n + 1 PROVE Descends(j)'
  <2>1. CASE j = n + 1
    <3>1. grants'[j] = h /\ i \in 1 .. j - 1 /\ i \in 1 .. n /\ grants'[i] = grants[i]
      BY <1>1, <1>2, <2>1
    <3>2. grants[i].caveats \in Seq(CaveatSet(O.cipher))
      BY <1>1 DEF GrantInv, Sound
    <3>3. Len(h.caveats) = Len(grants[i].caveats) + 1 /\ Len(grants[i].caveats) \in Nat
          /\ Take(h.caveats, Len(grants[i].caveats)) = grants[i].caveats
      BY <3>2, AppendedCaveat
    <3>4. Len(h.caveats) - 1 = Len(grants[i].caveats) /\ Len(h.caveats) >= 1
      BY <3>3
    <3>5. Parent(j)' = grants[i]
      BY <3>1 DEF Parent
    <3> QED
      BY <3>1, <3>3, <3>4, <3>5 DEF Descends
  <2>2. CASE j # n + 1
    <3>1. j \in 2 .. n /\ j \in 1 .. n
      BY <1>1, <2>2
    <3>2. Descends(j)
      BY <3>1 DEF GrantInv
    <3>3. grants[j].parent \in 1 .. j - 1 /\ grants[j].parent \in 1 .. n
      BY <1>1, <3>1, <3>2 DEF Descends
    <3>4. Parent(j)' = Parent(j) /\ grants'[j] = grants[j]
      BY <1>2, <3>1, <3>3 DEF Parent
    <3> QED
      BY <3>2, <3>4 DEF Descends
  <2> QED
    BY <2>1, <2>2
<1>7. Len(grants') >= 1
  BY <1>1, <1>2
<1>8. OwnerStore(O) /\ grants[1].caveats = <<>> /\ grants[1].parent = 0
  BY DEF GrantInv
<1> QED
  BY <1>2, <1>3, <1>4, <1>5, <1>6, <1>7, <1>8 DEF GrantInv

LEMMA RestrictKeeps ==
  ASSUME GrantInv, NEW i \in DOMAIN grants, NEW perm \in Permissions, NEW S \in Shares,
         RestrictAccess(i, perm, S) \/ Attenuate(i, perm, S)
  PROVE  GrantInv'
<1> DEFINE O == grants[1].store
           g == grants[i]
           cav == Caveat(perm, {EncryptPath(g.store, p) : p \in S})
<1>1. i \in 1 .. Len(grants) /\ i \in Nat /\ Len(grants) \in Nat /\ Sound(g, O) /\ OwnerStore(O)
  BY DEF GrantInv
<1>2. IsFiniteSet(S) /\ \A p \in S : p \in PlainPaths /\ HasBase(g.store, p)
  <2>1. IsFiniteSet(S) /\ S \subseteq Paths
    BY GrantAssumption
  <2> QED
    BY <2>1, PathsPlain DEF RestrictAccess, Attenuate
<1>3. PICK R \in {O, Plain(O)} : Faithful(g.store, R)
  BY <1>1 DEF Sound
<1>4. OwnerStore(R) /\ R.cipher = O.cipher
  BY <1>1, SourceIs
<1>5. cav \in CaveatSet(O.cipher) /\ cav.paths = {EncryptPath(g.store, p) : p \in S}
  BY <1>1, <1>2, <1>3, <1>4, CaveatIs
<1>6. CASE RestrictAccess(i, perm, S)
  <2> DEFINE h == NewGrant(i, Append(g.caveats, cav), RestrictedStore(g.store, S), g.limited)
  <2>1. grants' = Append(grants, h)
    BY <1>6, Zenon DEF RestrictAccess, RestrictKey
  <2> HIDE DEF cav
  <2>2. Sound(h, O)
    BY <1>1, <1>2, <1>5, RestrictSound
  <2>3. h.parent = i /\ h.caveats = Append(g.caveats, cav)
    <3> DEFINE c == Append(g.caveats, cav)
               s == RestrictedStore(g.store, S)
    <3> HIDE DEF c, s
    <3>1. NewGrant(i, c, s, g.limited).parent = i /\ NewGrant(i, c, s, g.limited).caveats = c
      BY DEF NewGrant
    <3> QED
      BY <3>1, Zenon DEF c, s
  <2> HIDE DEF h
  <2> QED
    BY <1>5, <2>1, <2>2, <2>3, GrantAdded
<1>7. CASE Attenuate(i, perm, S)
  <2> DEFINE h == NewGrant(i, Append(g.caveats, cav), g.store, FALSE)
  <2>1. grants' = Append(grants, h)
    BY <1>7, Zenon DEF Attenuate, RestrictKey
  <2> HIDE DEF cav
  <2>2. Sound(h, O)
    BY <1>1, <1>5, AttenuateSound
  <2>3. h.parent = i /\ h.caveats = Append(g.caveats, cav)
    <3> DEFINE c == Append(g.caveats, cav)
    <3> HIDE DEF c
    <3>1. NewGrant(i, c, g.store, FALSE).parent = i /\ NewGrant(i, c, g.store, FALSE).caveats = c
      BY DEF NewGrant
    <3> QED
      BY <3>1, Zenon DEF c
  <2> HIDE DEF h
  <2> QED
    BY <1>5, <2>1, <2>2, <2>3, GrantAdded
<1> QED
  BY <1>6, <1>7

\* What parsing makes of the sequence of grants.
LEMMA ReparseIs ==
  ASSUME GrantInv, NEW i \in DOMAIN grants, Reparse(i)
  PROVE  LET g == grants[i]
             h == NewGrant(g.parent, g.caveats, LimitTo(g.store, g.caveats), TRUE)
         IN  /\ grants' = [grants EXCEPT ![i] = h] /\ Sound(h, grants[1].store)
             /\ h.parent = g.parent /\ h.caveats = g.caveats /\ h.store = LimitTo(g.store, g.caveats)
<1> DEFINE O == grants[1].store
           g == grants[i]
           ls == LimitTo(g.store, g.caveats)
           h == NewGrant(g.parent, g.caveats, ls, TRUE)
<1>1. i \in 1 .. Len(grants) /\ Sound(g, O) /\ OwnerStore(O)
  BY DEF GrantInv
<1>2. PICK R \in {O, Plain(O)} : Faithful(g.store, R)
  BY <1>1 DEF Sound
<1>3. OwnerStore(R)
  BY <1>1, SourceIs
<1>4. ParsedStore(g.store) = g.store
  BY <1>2, <1>3, ParsedIs
<1>5. Sound(h, O)
  BY <1>1, <1>4, ReparseSound
<1>6. grants' = [grants EXCEPT ![i].store = ls, ![i].limited = TRUE]
  BY <1>4 DEF Reparse
<1> HIDE DEF ls
<1>7. h.parent = g.parent /\ h.caveats = g.caveats /\ h.store = ls
  BY DEF NewGrant
<1>8. g = [parent |-> g.parent, caveats |-> g.caveats, store |-> g.store, limited |-> g.limited]
  BY <1>1 DEF Sound, NewGrant
<1>9. [[g EXCEPT !.store = ls] EXCEPT !.limited = TRUE] = h
  <2> DEFINE r == [[g EXCEPT !.store = ls] EXCEPT !.limited = TRUE]
  <2>1. DOMAIN g = {"parent", "caveats", "store", "limited"}
    BY <1>8
  <2>2. /\ DOMAIN r = DOMAIN g
        /\ r.parent = g.parent /\ r.caveats = g.caveats /\ r.store = ls /\ r.limited = TRUE
    BY <2>1
  <2>3. r = [x \in DOMAIN r |-> r[x]]
    BY <2>1
  <2> HIDE DEF r
  <2>4. r = [parent |-> g.parent, caveats |-> g.caveats, store |-> ls, limited |-> TRUE]
    BY <2>1, <2>2, <2>3
  <2> QED
    BY <2>4 DEF NewGrant, r
<1>10. grants' = [grants EXCEPT ![i] = h]
  <2> DEFINE g1 == [grants EXCEPT ![i].store = ls]
  <2>1. grants' = [g1 EXCEPT ![i].limited = TRUE] /\ g1[i] = [g EXCEPT !.store = ls]
    BY <1>6
  <2>2. grants' = [grants EXCEPT ![i] = [g1[i] EXCEPT !.limited = TRUE]]
    BY <2>1
  <2> HIDE DEF g1
  <2> QED
    BY <1>9, <2>1, <2>2
<1> QED
  BY <1>5, <1>7, <1>10 DEF ls

LEMMA ReparseKeeps ==
  ASSUME GrantInv, NEW i \in DOMAIN grants, Reparse(i)
  PROVE  GrantInv'
<1> DEFINE O == grants[1].store
           n == Len(grants)
           T == {grants[j] : j \in DOMAIN grants}
           g == grants[i]
           h == NewGrant(g.parent, g.caveats, LimitTo(g.store, g.caveats), TRUE)
<1>1. grants \in Seq(T) /\ n \in Nat /\ n >= 1 /\ DOMAIN grants = 1 .. n
  BY DEF GrantInv
<1>2. /\ grants' = [grants EXCEPT ![i] = h] /\ Sound(h, O)
      /\ h.parent = g.parent /\ h.caveats = g.caveats /\ h.store = LimitTo(g.store, g.caveats)
  BY ReparseIs
<1>3. i = 1 => h.store = O
  <2>1. AllBuckets(<<>>)
    BY DEF AllBuckets
  <2>2. grants[1].caveats = <<>>
    BY DEF GrantInv
  <2> QED
    BY <1>2, <2>1, <2>2 DEF LimitTo
<1> HIDE DEF h, T
<1>4. /\ grants' \in Seq(T \cup {h}) /\ Len(grants') = n
      /\ grants'[i] = h /\ \A j \in 1 .. n : j # i => grants'[j] = grants[j]
  BY <1>1, <1>2
<1>5. grants' \in Seq({grants'[j] : j \in DOMAIN grants'})
  <2> DEFINE s == [grants EXCEPT ![i] = h]
  <2>1. s \in Seq(T \cup {h})
    BY <1>1
  <2> HIDE DEF s
  <2>2. s \in Seq({s[j] : j \in DOMAIN s})
    BY <2>1, ElementsOf
  <2>3. grants' = s
    BY <1>2 DEF s
  <2> QED
    BY <2>2, <2>3
<1>6. \A j \in 1 .. n : grants'[j].parent = grants[j].parent /\ grants'[j].caveats = grants[j].caveats
  BY <1>2, <1>4
<1>7. grants'[1].store = O
  BY <1>1, <1>3, <1>4
<1>8. \A j \in 1 .. n : Sound(grants'[j], O)
  <2>1. \A j \in 1 .. n : Sound(grants[j], O)
    BY DEF GrantInv
  <2> QED
    BY <1>2, <1>4, <2>1
<1>9. ASSUME NEW j \in 2 .. n PROVE Descends(j)'
  <2>1. Descends(j) /\ j \in 1 .. n
    BY <1>1 DEF GrantInv
  <2>2. grants[j].parent \in 1 .. n
    BY <1>1, <2>1 DEF Descends
  <2>3. Parent(j)'.caveats = Parent(j).caveats
    BY <1>6, <2>1, <2>2 DEF Parent
  <2> QED
    BY <1>6, <2>1, <2>3 DEF Descends
<1>10. OwnerStore(O) /\ grants'[1].caveats = <<>> /\ grants'[1].parent = 0
  BY <1>1, <1>6 DEF GrantInv
<1> QED
  BY <1>1, <1>4, <1>5, <1>7, <1>8, <1>9, <1>10 DEF GrantInv

LEMMA GrantInvNext ==
  ASSUME GrantInv, [GrantNext]_grantVars
  PROVE  GrantInv'
<1>1. CASE GrantNext
  <2>1. PICK i \in DOMAIN grants :
          \/ \E perm \in Permissions, S \in Shares : RestrictAccess(i, perm, S) \/ Attenuate(i, perm, S)
          \/ Reparse(i)
          \/ Revoke(i)
    BY <1>1 DEF GrantNext
  <2>2. CASE \E perm \in Permissions, S \in Shares : RestrictAccess(i, perm, S) \/ Attenuate(i, perm, S)
    BY <2>2, RestrictKeeps
  <2>3. CASE Reparse(i)
    BY <2>3, ReparseKeeps
  <2>4. CASE Revoke(i)
    BY <2>4 DEF Revoke, GrantInv, Descends, Parent
  <2> QED
    BY <2>1, <2>2, <2>3, <2>4
<1>2. CASE UNCHANGED grantVars
  BY <1>2 DEF grantVars, GrantInv, Descends, Parent
<1> QED
  BY <1>1, <1>2

\* Every grant that restricting, attenuating and parsing lead to has a store with the
\* names and keys of the owner's, and limited ones for allowed prefixes alone.
THEOREM GrantInvariant == OwnersUniform => (GrantSpec => []GrantInv)
<1>1. OwnersUniform => (GrantInit => GrantInv)
  BY GrantInvInit
<1>2. GrantInv /\ [GrantNext]_grantVars => GrantInv'
  BY GrantInvNext
<1> QED
  BY <1>1, <1>2, PTL DEF GrantSpec

------------------------------------------------------------------------------
(* The properties of the runs, for every owner, set of prefixes and number of grants. *)

LEMMA GrantIs ==
  ASSUME GrantInv, NEW i \in DOMAIN grants
  PROVE  LET O == grants[1].store
         IN  /\ OwnerStore(O) /\ Sound(grants[i], O)
             /\ \E R \in {O, Plain(O)} :
                  /\ OwnerStore(R) /\ R.cipher = O.cipher /\ Faithful(grants[i].store, R)
                  /\ R # O => \E n \in DOMAIN grants[i].caveats : grants[i].caveats[n].paths = {}
<1> DEFINE O == grants[1].store
<1>1. OwnerStore(O) /\ Sound(grants[i], O)
  BY DEF GrantInv
<1>2. PICK R \in {O, Plain(O)} :
        /\ Faithful(grants[i].store, R)
        /\ R # O => \E n \in DOMAIN grants[i].caveats : grants[i].caveats[n].paths = {}
  BY <1>1 DEF Sound
<1>3. OwnerStore(R) /\ R.cipher = O.cipher
  BY <1>1, SourceIs
<1> QED
  BY <1>1, <1>2, <1>3

\* A derived grant encrypts paths and derives keys exactly as the owner
\* (restrict.go:103-114, access.go:223-246).
THEOREM GrantsAgree == OwnersUniform => (GrantSpec => []AgreesWithOwner)
<1>1. ASSUME GrantInv PROVE AgreesWithOwner
  <2> DEFINE O == grants[1].store
  <2> SUFFICES ASSUME NEW i \in Derived, NEW p \in Paths, HasBase(grants[i].store, p),
                      \/ DOMAIN O.bases = {}
                      \/ \A n \in DOMAIN grants[i].caveats : grants[i].caveats[n].paths # {}
               PROVE  /\ HasBase(O, p)
                      /\ EncryptPath(grants[i].store, p) = EncryptPath(O, p)
                      /\ DerivePathKey(grants[i].store, p) = DerivePathKey(O, p)
    BY DEF AgreesWithOwner
  <2>1. i \in DOMAIN grants /\ p \in PlainPaths
    BY PathsPlain DEF Derived
  <2>2. PICK R \in {O, Plain(O)} :
          /\ OwnerStore(R) /\ Faithful(grants[i].store, R)
          /\ R # O => \E n \in DOMAIN grants[i].caveats : grants[i].caveats[n].paths = {}
    BY <1>1, <2>1, GrantIs
  <2>3. OwnerStore(O)
    BY <1>1 DEF GrantInv
  <2>4. R = O
    BY <2>2, <2>3, PlainIs
  <2>5. HasBase(O, p) /\ EncryptPath(grants[i].store, p) = EncOf(O, p) /\ DerivePathKey(grants[i].store, p) = KeyOf(O, p)
    BY <2>1, <2>2, <2>3, <2>4, Agrees
  <2>6. Faithful(O, O)
    BY <2>3, OwnerFaithful
  <2>7. EncryptPath(O, p) = EncOf(O, p) /\ DerivePathKey(O, p) = KeyOf(O, p)
    BY <2>1, <2>3, <2>5, <2>6, Agrees
  <2> QED
    BY <2>5, <2>7
<1> QED
  BY <1>1, GrantInvariant, PTL

\* Every store decrypts what it encrypts, and lists paths under the names and keys that
\* they have by themselves (store.go:184-264, path.go:90-234, prefix.go:30-105).
THEOREM NamesComeBack == OwnersUniform => (GrantSpec => []RoundTrip)
<1>1. ASSUME GrantInv PROVE RoundTrip
  <2> SUFFICES ASSUME NEW i \in DOMAIN grants, NEW p \in Paths, HasBase(grants[i].store, p)
               PROVE  LET store == grants[i].store
                          As(q) == [unenc |-> q, enc |-> EncryptPath(store, q), key |-> DerivePathKey(store, q)]
                          e == EncryptPath(store, p)
                          shown == DecryptPath(Bypassed(store), e)
                      IN  /\ CanEncrypt(store, p) /\ CanDecrypt(store, e) /\ DecryptPath(store, e) = p
                          /\ CanDecrypt(Bypassed(store), e)
                          /\ CanEncrypt(Bypassed(store), shown) /\ EncryptPath(Bypassed(store), shown) = e
                          /\ CanEncrypt(Bypassed(store), p) <=> Len(p) = 1 \/ p \in DOMAIN store.bases
                          /\ HasPrefixInfo(store, p) =>
                               GetPrefixInfo(store, p) =
                                 [path |-> As(p), parent |-> As(IF Len(p) = 1 THEN p ELSE Take(p, Len(p) - 1))]
    BY ZenonT(30) DEF RoundTrip
  <2> DEFINE store == grants[i].store
             As(q) == [unenc |-> q, enc |-> EncryptPath(store, q), key |-> DerivePathKey(store, q)]
             e == EncryptPath(store, p)
             parent == IF Len(p) = 1 THEN p ELSE Take(p, Len(p) - 1)
             shown == DecryptPath(Bypassed(store), e)
  <2>1. p \in PlainPaths
    BY PathsPlain
  <2>2. PICK R : OwnerStore(R) /\ Faithful(store, R)
    BY <1>1, GrantIs
  <2> HIDE DEF store
  <2>3. HasBase(store, p)
    BY DEF store
  <2>4. \A q \in PlainPaths : HasBase(store, q) => As(q) = InfoOf(R, q)
    <3> SUFFICES ASSUME NEW q \in PlainPaths, HasBase(store, q) PROVE As(q) = InfoOf(R, q)
      OBVIOUS
    <3>1. EncryptPath(store, q) = EncOf(R, q) /\ DerivePathKey(store, q) = KeyOf(R, q)
      BY <2>2, Agrees
    <3> QED
      BY <3>1, Zenon DEF InfoOf
  <2>5. e = EncOf(R, p)
    BY <2>1, <2>2, <2>3, Agrees
  <2>6. CanDecrypt(store, e) /\ DecryptPath(store, e) = p
    BY <2>1, <2>2, <2>3, <2>5, DecryptsBack
  <2>8. CanEncrypt(store, p) /\ (CanEncrypt(Bypassed(store), p) <=> Len(p) = 1 \/ p \in DOMAIN store.bases)
    BY <2>1, <2>2, <2>3, NamesAllowed
  <2>9. CanDecrypt(Bypassed(store), e) /\ CanEncrypt(Bypassed(store), shown) /\ EncryptPath(Bypassed(store), shown) = e
    BY <2>1, <2>2, <2>3, <2>5, BypassBack
  <2>7. ASSUME HasPrefixInfo(store, p) PROVE GetPrefixInfo(store, p) = [path |-> As(p), parent |-> As(parent)]
    <3>1. /\ GetPrefixInfo(store, p) = [path |-> InfoOf(R, p), parent |-> InfoOf(R, parent)]
          /\ parent \in PlainPaths /\ HasBase(store, parent)
      BY <2>1, <2>2, <2>7, PrefixInfoIs
    <3> HIDE DEF parent
    <3>2. As(p) = InfoOf(R, p) /\ As(parent) = InfoOf(R, parent)
      BY <2>1, <2>3, <2>4, <3>1
    <3> HIDE DEF As
    <3> QED
      BY <3>1, <3>2, Zenon
  <2> QED
    BY <2>6, <2>7, <2>8, <2>9, Zenon DEF store
<1> QED
  BY <1>1, GrantInvariant, PTL

\* A grant that was restricted or parsed has keys only for what every caveat of its API
\* key allows (restrict.go:62-63, access.go:191-249).
THEOREM KeysAreWithin == OwnersUniform => (GrantSpec => []KeysWithinCaveats)
<1>1. ASSUME GrantInv PROVE KeysWithinCaveats
  <2> SUFFICES ASSUME NEW i \in DOMAIN grants, grants[i].limited, NEW p \in Paths, HasBase(grants[i].store, p),
                      NEW n \in DOMAIN grants[i].caveats, grants[i].caveats[n].paths # {}
               PROVE  \E q \in grants[i].caveats[n].paths : HasPrefix(EncryptPath(grants[i].store, p), q)
    BY Zenon DEF KeysWithinCaveats
  <2>1. p \in PlainPaths
    BY PathsPlain
  <2>2. OwnerStore(grants[1].store) /\ Sound(grants[i], grants[1].store)
    BY <1>1, GrantIs
  <2> QED
    BY <2>1, <2>2, WithinCaveats
<1> QED
  BY <1>1, GrantInvariant, PTL

\* Parsing a limited grant changes nothing that its store can do.
LEMMA ReparseChangesNothing ==
  ASSUME GrantInv, NEW i \in DOMAIN grants, grants[i].limited, NEW p \in PlainPaths
  PROVE  LET st == grants[i].store
             ls == LimitTo(st, grants[i].caveats)
         IN  /\ HasBase(ls, p) <=> HasBase(st, p)
             /\ HasBase(st, p) => EncryptPath(ls, p) = EncryptPath(st, p)
<1> DEFINE st == grants[i].store
           cavs == grants[i].caveats
           ls == LimitTo(st, cavs)
<1>1. Sound(grants[i], grants[1].store)
  BY GrantIs
<1>2. PICK R : OwnerStore(R) /\ R.cipher = grants[1].store.cipher /\ Faithful(st, R)
  BY GrantIs
<1>3. CASE AllBuckets(cavs)
  <2>1. ls = st
    BY <1>3 DEF LimitTo
  <2> QED
    BY <2>1
<1>4. CASE ~AllBuckets(cavs)
  <2> DEFINE P == KeptPaths(st, cavs)
  <2>1. cavs \in Seq(CaveatSet(R.cipher))
    BY <1>1, <1>2 DEF Sound
  <2>2. /\ ls = StoreOf(R, None, P) /\ IsFiniteSet(P)
        /\ \A q \in P : q \in PlainPaths /\ HasBase(R, q) /\ HasBase(st, q)
        /\ \A q \in PlainPaths : HasBase(st, q) /\ EncOf(R, q) \in CollapsePrefixes(cavs) => q \in P
    BY <1>2, <1>4, <2>1, LimitedIs
  <2>3. st.defaultKey = None /\ \A q \in DOMAIN st.bases : st.bases[q].enc \in CollapsePrefixes(cavs)
    BY <1>1, <1>4 DEF Sound
  <2> HIDE DEF P, ls
  <2>4. ls.defaultKey = None /\ DOMAIN ls.bases = P /\ Faithful(ls, R)
    BY <1>2, <2>2, StoreOfIs
  <2>5. \A q \in DOMAIN st.bases : q \in P
    <3> SUFFICES ASSUME NEW q \in DOMAIN st.bases PROVE q \in P
      OBVIOUS
    <3>0. q \in PlainPaths
      BY <1>2 DEF Faithful
    <3>1. q \in PlainPaths /\ st.bases[q].enc = EncOf(R, q)
      BY <1>2, <3>0, FaithfulFields
    <3>2. HasBase(st, q)
      <4>1. q \in Seq(Names) /\ Len(q) \in 1 .. Len(q)
        BY <3>1 DEF PlainPaths
      <4>2. Take(q, Len(q)) = q
        BY <4>1, TakeAll
      <4> QED
        BY <4>1, <4>2 DEF HasBase
    <3> QED
      BY <2>2, <2>3, <3>1, <3>2
  <2>6. ASSUME HasBase(st, p) PROVE HasBase(ls, p)
    BY <2>3, <2>4, <2>5, <2>6 DEF HasBase
  <2>7. ASSUME HasBase(ls, p) PROVE HasBase(st, p)
    <3>1. PICK m \in 1 .. Len(p) : Take(p, m) \in P
      BY <2>4, <2>7 DEF HasBase
    <3> QED
      BY <2>2, <3>1, HasBaseBelow
  <2>8. ASSUME HasBase(st, p) PROVE EncryptPath(ls, p) = EncryptPath(st, p)
    <3>1. EncryptPath(st, p) = EncOf(R, p)
      BY <1>2, <2>8, Agrees
    <3>2. EncryptPath(ls, p) = EncOf(R, p)
      BY <1>2, <2>4, <2>6, <2>8, Agrees
    <3> QED
      BY <3>1, <3>2
  <2> QED
    BY <2>6, <2>7, <2>8 DEF ls
<1> QED
  BY <1>3, <1>4

\* A limited grant comes out of Serialize and ParseAccess with the keys it had, and no
\* other step touches a grant that is there (access.go:128-249).
THEOREM ReparseIsStable == OwnersUniform => (GrantSpec => ReparseStable)
<1> DEFINE Same(i) ==
             \A p \in Paths :
               /\ HasBase(grants'[i].store, p) <=> HasBase(grants[i].store, p)
               /\ HasBase(grants[i].store, p) =>
                    EncryptPath(grants'[i].store, p) = EncryptPath(grants[i].store, p)
           Stable == \A i \in DOMAIN grants : grants[i].limited => Same(i)
<1>1. ASSUME GrantInv, GrantNext PROVE Stable
  <2> SUFFICES ASSUME NEW j \in DOMAIN grants, grants[j].limited PROVE Same(j)
    OBVIOUS
  <2>0. /\ grants \in Seq({grants[i] : i \in DOMAIN grants}) /\ Len(grants) \in Nat
        /\ DOMAIN grants = 1 .. Len(grants)
    BY <1>1 DEF GrantInv
  <2>1. PICK i \in DOMAIN grants :
          \/ \E perm \in Permissions, S \in Shares : RestrictAccess(i, perm, S) \/ Attenuate(i, perm, S)
          \/ Reparse(i)
          \/ Revoke(i)
    BY <1>1 DEF GrantNext
  <2>2. CASE grants'[j] = grants[j]
    BY <2>2
  <2>3. ASSUME grants'[j] # grants[j] PROVE i = j /\ Reparse(i)
    <3>1. CASE \E h : grants' = Append(grants, h)
      <4>1. PICK h : grants' = Append(grants, h)
        BY <3>1
      <4>2. Append(grants, h)[j] = grants[j]
        BY <2>0
      <4> QED
        BY <2>3, <4>1, <4>2
    <3>2. CASE Reparse(i)
      <4>1. \E h : grants' = [grants EXCEPT ![i] = h]
        BY <1>1, <3>2, ReparseIs
      <4> QED
        BY <2>3, <3>2, <4>1
    <3>3. CASE Revoke(i)
      BY <2>3, <3>3 DEF Revoke
    <3>4. ASSUME NEW perm \in Permissions, NEW S \in Shares, RestrictAccess(i, perm, S) \/ Attenuate(i, perm, S)
          PROVE  \E h : grants' = Append(grants, h)
      BY <3>4, Zenon DEF RestrictAccess, Attenuate
    <3> QED
      BY <2>1, <3>1, <3>2, <3>3, <3>4
  <2>4. CASE grants'[j] # grants[j]
    <3> DEFINE st == grants[j].store
               ls == LimitTo(st, grants[j].caveats)
    <3>1. \E h : grants' = [grants EXCEPT ![j] = h] /\ h.store = ls
      BY <1>1, <2>3, <2>4, ReparseIs
    <3> HIDE DEF ls
    <3>2. grants'[j].store = ls
      BY <3>1
    <3>3. ASSUME NEW p \in Paths
          PROVE  /\ HasBase(ls, p) <=> HasBase(st, p)
                 /\ HasBase(st, p) => EncryptPath(ls, p) = EncryptPath(st, p)
      <4>1. p \in PlainPaths
        BY PathsPlain
      <4> QED
        BY <1>1, <4>1, ReparseChangesNothing DEF ls
    <3> QED
      BY <3>2, <3>3
  <2> QED
    BY <2>2, <2>4
<1>2. GrantInv /\ [GrantNext]_grantVars => [Stable]_grantVars
  BY <1>1
<1>3. [][Stable]_grantVars => ReparseStable
  BY PTL DEF ReparseStable
<1> QED
  BY <1>2, <1>3, GrantInvariant, PTL DEF GrantSpec

\* A key's tails are among those of a key with one caveat more.
LEMMA CheckedBefore ==
  ASSUME NEW T, NEW caveats \in Seq(T), NEW n \in 0 .. Len(caveats), NEW action, NEW gone,
         Check(caveats, action, gone)
  PROVE  Check(Take(caveats, n), action, gone)
<1> DEFINE t == Take(caveats, n)
<1>1. t \in Seq(T) /\ Len(t) = n /\ DOMAIN t = 1 .. n /\ \A i \in 1 .. n : t[i] = caveats[i]
  BY TakeIs
<1>2. Len(caveats) \in Nat /\ DOMAIN caveats = 1 .. Len(caveats) /\ 1 .. n \subseteq 1 .. Len(caveats)
  OBVIOUS
<1>3. \A m \in 0 .. n : Take(t, m) = Take(caveats, m) /\ m \in 0 .. Len(caveats)
  BY TakeTake
<1> HIDE DEF t
<1>4. Tails(t) \subseteq Tails(caveats)
  BY <1>1, <1>3 DEF Tails, Take
<1>5. \A i \in DOMAIN t : Allows(t[i], action)
  BY <1>1, <1>2 DEF Check
<1>6. Tails(t) \cap gone = {}
  BY <1>4 DEF Check
<1> QED
  BY <1>5, <1>6 DEF Check, t

\* The API keys alone, whatever store the owner has.
IsGrant(g) ==
  /\ g = NewGrant(g.parent, g.caveats, g.store, g.limited)
  /\ g.caveats \in Seq({g.caveats[n] : n \in DOMAIN g.caveats})

KeysDescend ==
  /\ grants \in Seq({grants[i] : i \in DOMAIN grants}) /\ Len(grants) >= 1 /\ grants[1].parent = 0
  /\ \A i \in 1 .. Len(grants) : IsGrant(grants[i])
  /\ \A i \in 2 .. Len(grants) : Descends(i)

LEMMA OneCaveatMore ==
  ASSUME NEW T, NEW caveats \in Seq(T), NEW cav
  PROVE  LET s == Append(caveats, cav)
         IN  /\ s \in Seq(T \cup {cav}) /\ Len(s) = Len(caveats) + 1
             /\ Len(caveats) \in Nat /\ Take(s, Len(caveats)) = caveats
<1> DEFINE s == Append(caveats, cav)
           U == T \cup {cav}
<1>1. s \in Seq(U) /\ caveats \in Seq(U) /\ Len(s) = Len(caveats) + 1 /\ Len(caveats) \in Nat
      /\ \A n \in 1 .. Len(caveats) : s[n] = caveats[n]
  OBVIOUS
<1> HIDE DEF s, U
<1>3. Len(caveats) \in 0 .. Len(s)
  BY <1>1
<1>4. /\ Take(s, Len(caveats)) \in Seq(U) /\ Len(Take(s, Len(caveats))) = Len(caveats)
      /\ \A n \in 1 .. Len(caveats) : Take(s, Len(caveats))[n] = s[n]
  BY <1>1, <1>3, TakeIs
<1>5. Take(s, Len(caveats)) = caveats
  BY <1>1, <1>4, SameSeq
<1> QED
  BY <1>1, <1>5 DEF s, U

\* A grant that is made has one caveat more than the one it is made from.
LEMMA DescendAdded ==
  ASSUME KeysDescend, NEW i \in DOMAIN grants, NEW cav, NEW store, NEW limited,
         grants' = Append(grants, NewGrant(i, Append(grants[i].caveats, cav), store, limited))
  PROVE  KeysDescend'
<1> DEFINE n == Len(grants)
           T == {grants[j] : j \in DOMAIN grants}
           c == grants[i].caveats
           h == NewGrant(i, Append(c, cav), store, limited)
<1>1. grants \in Seq(T) /\ n \in Nat /\ n >= 1 /\ DOMAIN grants = 1 .. n
  BY DEF KeysDescend
<1>2. h.parent = i /\ h.caveats = Append(c, cav) /\ h = NewGrant(h.parent, h.caveats, h.store, h.limited)
  BY DEF NewGrant
<1>3. c \in Seq({c[k] : k \in DOMAIN c})
  BY <1>1 DEF KeysDescend, IsGrant
<1> HIDE DEF T, h
<1>4. /\ grants' \in Seq(T \cup {h}) /\ Len(grants') = n + 1 /\ grants'[n + 1] = h
      /\ \A j \in 1 .. n : grants'[j] = grants[j]
  BY <1>1 DEF h
<1>5. grants' \in Seq({grants'[j] : j \in DOMAIN grants'})
  <2> DEFINE s == Append(grants, h)
  <2>1. s \in Seq(T \cup {h})
    BY <1>1
  <2> HIDE DEF s
  <2>2. s \in Seq({s[j] : j \in DOMAIN s})
    BY <2>1, ElementsOf
  <2>3. grants' = s
    BY DEF s, h
  <2> QED
    BY <2>2, <2>3
<1>6. /\ h.caveats \in Seq({h.caveats[k] : k \in DOMAIN h.caveats})
      /\ Len(h.caveats) = Len(c) + 1 /\ Len(c) \in Nat /\ Take(h.caveats, Len(c)) = c
  <2> DEFINE D == {c[k] : k \in DOMAIN c}
             s == Append(c, cav)
  <2>1. c \in Seq(D)
    BY <1>3
  <2>2. h.caveats = s
    BY <1>2
  <2> HIDE DEF c, D, s
  <2>3. s \in Seq(D \cup {cav}) /\ Len(s) = Len(c) + 1 /\ Len(c) \in Nat /\ Take(s, Len(c)) = c
    BY <2>1, OneCaveatMore DEF s
  <2>4. s \in Seq({s[k] : k \in DOMAIN s})
    BY <2>3, ElementsOf
  <2> QED
    BY <2>2, <2>3, <2>4, Zenon
<1>7. \A j \in 1 .. n + 1 : j \in 1 .. n \/ j = n + 1
  BY <1>1
<1>8. \A j \in 1 .. n + 1 : IsGrant(grants'[j])
  <2>1. \A j \in 1 .. n : IsGrant(grants[j])
    BY DEF KeysDescend
  <2>2. IsGrant(h)
    BY <1>2, <1>6, Zenon DEF IsGrant
  <2> QED
    BY <1>4, <1>7, <2>1, <2>2
<1>9. ASSUME NEW j \in 2 .. n + 1 PROVE Descends(j)'
  <2>1. CASE j = n + 1
    <3>1. grants'[j] = h /\ i \in 1 .. j - 1 /\ i \in 1 .. n /\ grants'[i] = grants[i]
      BY <1>1, <1>4, <2>1
    <3>2. Len(h.caveats) - 1 = Len(c) /\ Len(h.caveats) >= 1
      BY <1>6
    <3>3. Parent(j)' = grants[i]
      BY <1>2, <3>1 DEF Parent
    <3> QED
      BY <1>2, <1>6, <3>1, <3>2, <3>3 DEF Descends
  <2>2. CASE j # n + 1
    <3>1. j \in 2 .. n /\ j \in 1 .. n
      BY <1>1, <2>2
    <3>2. Descends(j)
      BY <3>1 DEF KeysDescend
    <3>3. grants[j].parent \in 1 .. j - 1 /\ grants[j].parent \in 1 .. n
      BY <1>1, <3>1, <3>2 DEF Descends
    <3>4. Parent(j)' = Parent(j) /\ grants'[j] = grants[j]
      BY <1>4, <3>1, <3>3 DEF Parent
    <3> QED
      BY <3>2, <3>4 DEF Descends
  <2> QED
    BY <2>1, <2>2
<1>10. grants'[1].parent = 0
  BY <1>1, <1>4 DEF KeysDescend
<1> QED
  BY <1>1, <1>4, <1>5, <1>8, <1>9, <1>10 DEF KeysDescend

\* A new store for a grant leaves its API key alone.
LEMMA DescendStored ==
  ASSUME KeysDescend, NEW i \in DOMAIN grants, NEW h, IsGrant(h), h.parent = grants[i].parent,
         h.caveats = grants[i].caveats, grants' = [grants EXCEPT ![i] = h]
  PROVE  KeysDescend'
<1> DEFINE n == Len(grants)
           T == {grants[j] : j \in DOMAIN grants}
<1>1. grants \in Seq(T) /\ n \in Nat /\ n >= 1 /\ DOMAIN grants = 1 .. n
  BY DEF KeysDescend
<1> HIDE DEF T
<1>4. /\ grants' \in Seq(T \cup {h}) /\ Len(grants') = n
      /\ grants'[i] = h /\ \A j \in 1 .. n : j # i => grants'[j] = grants[j]
  BY <1>1
<1>5. grants' \in Seq({grants'[j] : j \in DOMAIN grants'})
  <2> DEFINE s == [grants EXCEPT ![i] = h]
  <2>1. s \in Seq(T \cup {h})
    BY <1>1
  <2> HIDE DEF s
  <2>2. s \in Seq({s[j] : j \in DOMAIN s})
    BY <2>1, ElementsOf
  <2>3. grants' = s
    BY DEF s
  <2> QED
    BY <2>2, <2>3
<1>6. \A j \in 1 .. n : grants'[j].parent = grants[j].parent /\ grants'[j].caveats = grants[j].caveats
  BY <1>4
<1>7. \A j \in 1 .. n : IsGrant(grants'[j])
  <2>1. \A j \in 1 .. n : IsGrant(grants[j])
    BY DEF KeysDescend
  <2> QED
    BY <1>1, <1>4, <2>1
<1>8. ASSUME NEW j \in 2 .. n PROVE Descends(j)'
  <2>1. Descends(j) /\ j \in 1 .. n
    BY <1>1 DEF KeysDescend
  <2>2. grants[j].parent \in 1 .. n
    BY <1>1, <2>1 DEF Descends
  <2>3. Parent(j)'.caveats = Parent(j).caveats
    BY <1>6, <2>1, <2>2 DEF Parent
  <2> QED
    BY <1>6, <2>1, <2>3 DEF Descends
<1>9. grants'[1].parent = 0
  BY <1>1, <1>6 DEF KeysDescend
<1> QED
  BY <1>1, <1>4, <1>5, <1>7, <1>8, <1>9 DEF KeysDescend

LEMMA DescendParsed ==
  ASSUME KeysDescend, NEW i \in DOMAIN grants, NEW store,
         grants' = [grants EXCEPT ![i].store = store, ![i].limited = TRUE]
  PROVE  KeysDescend'
<1> DEFINE g == grants[i]
           h == NewGrant(g.parent, g.caveats, store, TRUE)
<1>1. DOMAIN grants = 1 .. Len(grants) /\ IsGrant(g)
  BY DEF KeysDescend
<1>2. h.parent = g.parent /\ h.caveats = g.caveats /\ h = NewGrant(h.parent, h.caveats, h.store, h.limited)
  BY DEF NewGrant
<1>3. grants' = [grants EXCEPT ![i] = h]
  <2>1. g = [parent |-> g.parent, caveats |-> g.caveats, store |-> g.store, limited |-> g.limited]
    BY <1>1 DEF IsGrant, NewGrant
  <2>2. [[g EXCEPT !.store = store] EXCEPT !.limited = TRUE] = h
    <3> DEFINE r == [[g EXCEPT !.store = store] EXCEPT !.limited = TRUE]
    <3>1. DOMAIN g = {"parent", "caveats", "store", "limited"}
      BY <2>1
    <3>2. /\ DOMAIN r = DOMAIN g
          /\ r.parent = g.parent /\ r.caveats = g.caveats /\ r.store = store /\ r.limited = TRUE
      BY <3>1
    <3>3. r = [x \in DOMAIN r |-> r[x]]
      BY <3>1
    <3> HIDE DEF r
    <3>4. r = [parent |-> g.parent, caveats |-> g.caveats, store |-> store, limited |-> TRUE]
      BY <3>1, <3>2, <3>3
    <3> QED
      BY <3>4 DEF NewGrant, r
  <2> DEFINE g1 == [grants EXCEPT ![i].store = store]
  <2>3. grants' = [g1 EXCEPT ![i].limited = TRUE] /\ g1[i] = [g EXCEPT !.store = store]
    OBVIOUS
  <2>4. grants' = [grants EXCEPT ![i] = [g1[i] EXCEPT !.limited = TRUE]]
    BY <2>3
  <2> HIDE DEF g1, h
  <2> QED
    BY <2>2, <2>3, <2>4
<1> HIDE DEF h
<1>4. IsGrant(h)
  BY <1>1, <1>2, Zenon DEF IsGrant
<1> QED
  BY <1>2, <1>3, <1>4, DescendStored

LEMMA DescentKept == GrantSpec => []KeysDescend
<1>1. ASSUME GrantInit PROVE KeysDescend
  <2>1. PICK O \in Owners : grants = <<NewGrant(0, <<>>, O, TRUE)>>
    BY <1>1 DEF GrantInit
  <2> DEFINE g == NewGrant(0, <<>>, O, TRUE)
  <2>2. g.parent = 0 /\ g.caveats = <<>> /\ g = NewGrant(g.parent, g.caveats, g.store, g.limited)
    BY DEF NewGrant
  <2> HIDE DEF g
  <2>3. grants = <<g>>
    BY <2>1 DEF g
  <2>4. Len(grants) = 1 /\ grants[1] = g /\ grants \in Seq({g})
    BY <2>3
  <2>5. grants \in Seq({grants[i] : i \in DOMAIN grants})
    BY <2>4, ElementsOf
  <2>6. g.caveats \in Seq({g.caveats[n] : n \in DOMAIN g.caveats})
    BY <2>2
  <2>7. \A i \in 1 .. 1 : i = 1
    OBVIOUS
  <2>8. \A i \in 1 .. Len(grants) : IsGrant(grants[i])
    <3>1. IsGrant(g)
      BY <2>2, <2>6, Zenon DEF IsGrant
    <3> QED
      BY <2>4, <2>7, <3>1
  <2> QED
    BY <2>2, <2>4, <2>5, <2>8 DEF KeysDescend
<1>2. ASSUME KeysDescend, [GrantNext]_grantVars PROVE KeysDescend'
  <2>1. CASE UNCHANGED grantVars
    BY <1>2, <2>1 DEF grantVars, KeysDescend, Descends, Parent
  <2>2. CASE GrantNext
    <3>1. PICK i \in DOMAIN grants :
            \/ \E perm \in Permissions, S \in Shares : RestrictAccess(i, perm, S) \/ Attenuate(i, perm, S)
            \/ Reparse(i)
            \/ Revoke(i)
      BY <2>2 DEF GrantNext
    <3>2. ASSUME NEW perm, NEW S, RestrictAccess(i, perm, S) \/ Attenuate(i, perm, S) PROVE KeysDescend'
      <4>1. \E cav, store, limited :
              grants' = Append(grants, NewGrant(i, Append(grants[i].caveats, cav), store, limited))
        BY <3>2, Zenon DEF RestrictAccess, Attenuate, RestrictKey
      <4> QED
        BY <1>2, <4>1, DescendAdded
    <3>3. CASE Reparse(i)
      <4>1. \E store : grants' = [grants EXCEPT ![i].store = store, ![i].limited = TRUE]
        BY <3>3, Zenon DEF Reparse
      <4> QED
        BY <1>2, <4>1, DescendParsed
    <3>4. CASE Revoke(i)
      BY <1>2, <3>4 DEF Revoke, KeysDescend, Descends, Parent
    <3> QED
      BY <3>1, <3>2, <3>3, <3>4
  <2> QED
    BY <1>2, <2>1, <2>2
<1> QED
  BY <1>1, <1>2, PTL DEF GrantSpec

\* No derived grant passes where the one it comes from does not, and revoking a grant
\* revokes all that come from it (restrict.go:58-60, apikey.go:147-155); whatever keys
\* and ciphers the owner has.
THEOREM GrantsOnlyRestrict == GrantSpec => []OnlyRestricts
<1>1. ASSUME KeysDescend PROVE OnlyRestricts
  <2> SUFFICES ASSUME NEW i \in Derived, NEW a \in Actions, Check(grants[i].caveats, a, revoked)
               PROVE  Check(Parent(i).caveats, a, revoked)
    BY DEF OnlyRestricts
  <2>1. i \in DOMAIN grants /\ grants[i].parent # 0
    BY DEF Derived
  <2>2. i \in 1 .. Len(grants) /\ Len(grants) \in Nat /\ grants[1].parent = 0
    BY <1>1, <2>1 DEF KeysDescend
  <2>3. i \in 2 .. Len(grants)
    BY <2>1, <2>2
  <2>4. Descends(i)
    BY <1>1, <2>3 DEF KeysDescend
  <2> DEFINE c == grants[i].caveats
             T == {c[n] : n \in DOMAIN c}
  <2>5. c \in Seq(T)
    BY <1>1, <2>2 DEF KeysDescend, IsGrant
  <2>6. Len(c) >= 1 /\ Parent(i).caveats = Take(c, Len(c) - 1)
    BY <2>4 DEF Descends
  <2> HIDE DEF c, T
  <2>7. Len(c) - 1 \in 0 .. Len(c)
    BY <2>5, <2>6
  <2>8. Check(c, a, revoked)
    BY DEF c
  <2>9. Check(Take(c, Len(c) - 1), a, revoked)
    BY <2>5, <2>7, <2>8, CheckedBefore
  <2> QED
    BY <2>6, <2>9
<1> QED
  BY <1>1, DescentKept, PTL

\* GetAllowedBuckets lists exactly the buckets whose metadata the key may read
\* (apikey.go:169-214, 261-279).
THEOREM BucketsAreConsistent == GrantSpec => []BucketsConsistent
<1>1. BucketsConsistent
  <2> SUFFICES ASSUME NEW i \in DOMAIN grants, NEW b \in Buckets, NEW t \in Times
               PROVE  LET list == [op |-> "Read", path |-> NoBucket, time |-> t]
                          stat == [op |-> "Read", path |-> <<b>>, time |-> t]
                      IN  Check(grants[i].caveats, list, {}) =>
                            ((AllBuckets(grants[i].caveats) \/ b \in AllowedBuckets(grants[i].caveats))
                               <=> Check(grants[i].caveats, stat, {}))
    BY Zenon DEF BucketsConsistent
  <2> DEFINE c == grants[i].caveats
             list == [op |-> "Read", path |-> NoBucket, time |-> t]
             stat == [op |-> "Read", path |-> <<b>>, time |-> t]
             Named(cav) == cav.paths = {} \/ \E q \in cav.paths : q[1] = b
  <2>1. /\ list.op = "Read" /\ list.path = NoBucket /\ list.time = t
        /\ stat.op = "Read" /\ stat.path = <<b>> /\ stat.time = t
    OBVIOUS
  <2>2. Len(NoBucket) <= 1 /\ Len(<<b>>) <= 1 /\ <<b>> # NoBucket /\ <<b>>[1] = b
    BY DEF NoBucket
  <2> HIDE DEF list, stat, c
  <2>3. \A cav : Allows(cav, list) <=> InTime(cav, t)
    BY <2>1, <2>2 DEF Allows
  <2>4. \A cav : Allows(cav, stat) <=> InTime(cav, t) /\ Named(cav)
    BY <2>1, <2>2 DEF Allows
  <2>5. AllBuckets(c) \/ b \in AllowedBuckets(c) <=> \A n \in DOMAIN c : Named(c[n])
    BY DEF AllBuckets, AllowedBuckets
  <2> HIDE DEF Named
  <2>6. Check(c, list, {}) <=> \A n \in DOMAIN c : InTime(c[n], t)
    BY <2>3 DEF Check
  <2>7. Check(c, stat, {}) <=> \A n \in DOMAIN c : InTime(c[n], t) /\ Named(c[n])
    BY <2>4 DEF Check
  <2>8. Check(c, list, {}) => ((AllBuckets(c) \/ b \in AllowedBuckets(c)) <=> Check(c, stat, {}))
    BY <2>5, <2>6, <2>7
  <2> QED
    BY <2>8, Zenon DEF c, list, stat
<1> QED
  BY <1>1, PTL
==============================================================================
