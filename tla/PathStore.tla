------------------------------ MODULE PathStore ------------------------------
(***************************************************************************)
(* encryption.Store and the encryption of paths with it (encryption/store.go, *)
(* encryption/path.go, paths/path.go).                                        *)
(*                                                                         *)
(* Cryptography is symbolic. A key is a root secret and the components it was *)
(* derived along; an encrypted component names the key it was encrypted with  *)
(* and its contents. The null cipher leaves a component as it is.              *)
(*                                                                         *)
(* A path is its bucket followed by its components, so <<b>> is the empty path *)
(* of bucket b. The store's tree of nodes is given by its bases: the names on  *)
(* the edges of the tree are those along the bases' two paths.                 *)
(***************************************************************************)
EXTENDS Integers, Sequences, FiniteSets, FiniteSetsExt

CONSTANTS
  Parts,      \* unencrypted path components
  Longer,     \* pairs of components: the second starts with the bytes of the first
  Buckets,
  Paths,      \* the paths in use, closed under prefixes
  Roots,      \* root secrets
  None        \* no key, or no time

Names == Buckets \cup Parts

\* A key: a root secret and what it was derived along.
PathKeys == [root : Roots, along : Seq(Names)]

\* Components of encrypted paths; and texts that base64 decodes to components with
\* slashes between them. Decoding also takes texts that encoding does not yield
\* (line breaks, loose bits at the end): those are not exact.
Encrypted == [key : PathKeys, comp : Names]
Comps == Names \cup Encrypted
Base64Texts == [text : Seq(Comps), exact : BOOLEAN]
WithSlash == [slashed : Seq(Comps)]

\* What is encrypted or encoded differs from all that is in the clear. So no name
\* of a component happens to be base64 text.
ASSUME PathAssumption ==
  /\ Longer \subseteq Parts \X Parts
  /\ Paths \subseteq Seq(Names)
  /\ \A p \in Paths : /\ Len(p) >= 1 /\ p[1] \in Buckets
                      /\ \A i \in 2..Len(p) : p[i] \in Parts
                      /\ \A n \in 1..Len(p) : SubSeq(p, 1, n) \in Paths
  /\ None \notin Roots /\ None \notin PathKeys
  /\ Parts \cap Encrypted = {}
  /\ Names \cap (Base64Texts \cup WithSlash) = {}

\* The ciphers of keys; a store in bypass mode answers with "base64" (EncNullBase64URL)
\* in their place.
Ciphers == {"null", "aes"}

Take(p, n) == SubSeq(p, 1, n)
Drop(p, n) == SubSeq(p, n + 1, Len(p))

------------------------------------------------------------------------------
(* Keys and single components. *)

RootKey(r) == [root |-> r, along |-> <<>>]

\* derivePathKeyComponent along a sequence of components.
DerivePathKeyComponents(key, parts) == [key EXCEPT !.along = @ \o parts]

\* Bug form: encoded without padding, which decoding is as happy with.
EncodeToStringRaw(enc) == [text |-> <<enc>>, exact |-> FALSE]

\* base64.URLEncoding, which knows nothing of slashes.
EncodeToString(enc) == [text |-> <<enc>>, exact |-> TRUE]
DecodeString(comp) == IF Len(comp.text) = 1 THEN comp.text[1] ELSE [slashed |-> comp.text]

\* What encryptPathComponent yields, and whether it succeeds.
EncryptPathComponent(comp, cipher, key) ==
  IF cipher = "base64" THEN DecodeString(comp)
  ELSE IF cipher = "null" THEN comp ELSE [key |-> key, comp |-> comp]
Encryptable(comp, cipher) == cipher = "base64" => comp \notin Names

\* What decryptPathComponent yields, and whether it succeeds.
DecryptPathComponent(enc, cipher) ==
  IF cipher = "base64" THEN EncodeToString(enc)
  ELSE IF cipher = "null" \/ enc \in Parts THEN enc ELSE enc.comp
Decryptable(enc, cipher, key) ==
  cipher \in {"null", "base64"} \/ (enc \notin Parts /\ enc.key = key)

\* Bug form: every component is encrypted with the key of the first.
EncryptIteratorFixedKey(parts, cipher, key) ==
  [i \in DOMAIN parts |-> EncryptPathComponent(parts[i], cipher, key)]

\* EncryptIterator: each component with the key derived along those before it.
EncryptIterator(parts, cipher, key) ==
  [i \in DOMAIN parts |->
     EncryptPathComponent(parts[i], cipher, DerivePathKeyComponents(key, Take(parts, i - 1)))]

DecryptIterator(encs, cipher) == [i \in DOMAIN encs |-> DecryptPathComponent(encs[i], cipher)]

DecryptIteratorOK(encs, cipher, key) ==
  \A i \in DOMAIN encs :
    Decryptable(encs[i], cipher,
                DerivePathKeyComponents(key, Take(DecryptIterator(encs, cipher), i - 1)))

------------------------------------------------------------------------------
(* The store: a default key and cipher, and a base for each path added. *)

NewStore(cipher, key) ==
  [defaultKey |-> key, cipher |-> cipher, bases |-> [p \in {} |-> {}], bypass |-> "off"]

\* EncryptionBypass is set: "we can interoperate with the network without having
\* encryption keys".
Bypassed(store) == [store EXCEPT !.bypass = "on"]
CipherOf(store, cipher) == IF store.bypass = "on" THEN "base64" ELSE cipher

\* add's checks: paths of equal length, and at every node on the way the same
\* unencrypted part belongs to the same encrypted part.
CanAdd(store, unenc, enc) ==
  /\ Len(unenc) = Len(enc)
  /\ \A q \in DOMAIN store.bases : \A i \in 1..Len(unenc) :
       /\ i <= Len(q)
       /\ Take(q, i - 1) = Take(unenc, i - 1)
       => (q[i] = unenc[i] <=> store.bases[q].enc[i] = enc[i])

\* AddWithCipher; a failed one leaves the store alone.
AddWithCipher(store, unenc, enc, key, cipher) ==
  LET base == [enc |-> enc, key |-> key, cipher |-> cipher]
  IN  IF ~CanAdd(store, unenc, enc) THEN store
      ELSE [store EXCEPT !.bases = [q \in DOMAIN store.bases \cup {unenc} |->
                                      IF q = unenc THEN base ELSE store.bases[q]]]

\* Entries added to a store one by one.
AddAll(store, entries) ==
  FoldSet(LAMBDA entry, to : AddWithCipher(to, entry.unenc, entry.enc, entry.key, entry.cipher),
          store, entries)

\* What the callback of IterateWithCipher is given: each base once, in any order.
IterateWithCipher(store) ==
  {[unenc |-> p, enc |-> store.bases[p].enc, key |-> store.bases[p].key, cipher |-> store.bases[p].cipher] :
     p \in DOMAIN store.bases}

DefaultBase(store, p) ==
  [unenc |-> Take(p, 1), enc |-> Take(p, 1), cipher |-> CipherOf(store, store.cipher),
   key |-> DerivePathKeyComponents(store.defaultKey, Take(p, 1))]

\* LookupUnencrypted: the base of the longest prefix that has one, or else the
\* default key, derived along the bucket.
HasBase(store, p) ==
  store.defaultKey # None \/ \E n \in 1..Len(p) : Take(p, n) \in DOMAIN store.bases

LookupUnencrypted(store, p) ==
  LET depths == {n \in 1..Len(p) : Take(p, n) \in DOMAIN store.bases}
      q      == Take(p, Max(depths))
      base   == store.bases[q]
  IN  IF depths = {} THEN DefaultBase(store, p)
      ELSE [unenc |-> q, enc |-> base.enc, cipher |-> CipherOf(store, base.cipher), key |-> base.key]

\* LookupEncrypted: the same along the encrypted names.
EncryptedBases(store, e) ==
  {q \in DOMAIN store.bases : Len(q) <= Len(e) /\ Take(e, Len(q)) = store.bases[q].enc}

HasEncryptedBase(store, e) == store.defaultKey # None \/ EncryptedBases(store, e) # {}

LookupEncrypted(store, e) ==
  LET found == EncryptedBases(store, e)
      q     == CHOOSE q \in found : Len(q) = Max({Len(x) : x \in found})
      base  == store.bases[q]
  IN  IF found = {} THEN DefaultBase(store, e)
      ELSE [unenc |-> q, enc |-> base.enc, cipher |-> CipherOf(store, base.cipher), key |-> base.key]

------------------------------------------------------------------------------
(* Paths. *)

\* A path is one string: what was decoded to several components is several of them.
Joined(encs) ==
  LET join[n \in 0 .. Len(encs)] ==
        IF n = 0 THEN <<>>
        ELSE join[n - 1] \o (IF encs[n] \in WithSlash THEN encs[n].slashed ELSE <<encs[n]>>)
  IN  IF \E i \in DOMAIN encs : encs[i] \in WithSlash THEN join[Len(encs)] ELSE encs

CanEncrypt(store, p) ==
  \/ Len(p) = 1
  \/ /\ HasBase(store, p)
     /\ LET base == LookupUnencrypted(store, p)
        IN  \A n \in Len(base.unenc) + 1 .. Len(p) : Encryptable(p[n], base.cipher)

\* Defined when CanEncrypt is; the empty path encrypts to itself.
EncryptPath(store, p) ==
  IF Len(p) = 1 THEN p
  ELSE LET base == LookupUnencrypted(store, p)
       IN  base.enc \o Joined(EncryptIterator(Drop(p, Len(base.unenc)), base.cipher, base.key))

CanDecrypt(store, e) ==
  \/ Len(e) = 1
  \/ /\ HasEncryptedBase(store, e)
     /\ LET base == LookupEncrypted(store, e)
        IN  DecryptIteratorOK(Drop(e, Len(base.enc)), base.cipher, base.key)

DecryptPath(store, e) ==
  IF Len(e) = 1 THEN e
  ELSE LET base == LookupEncrypted(store, e)
       IN  base.unenc \o DecryptIterator(Drop(e, Len(base.enc)), base.cipher)

\* Defined when HasBase is.
DerivePathKey(store, p) ==
  LET base == LookupUnencrypted(store, p)
  IN  DerivePathKeyComponents(base.key, Drop(p, Len(base.unenc)))

\* GetPrefixInfo: a path and its parent, encrypted and with their keys, in one walk from
\* the base. Only the empty path may be its own parent.
HasPrefixInfo(store, p) ==
  /\ HasBase(store, p) /\ CanEncrypt(store, p)
  /\ Len(p) = 1 \/ Len(LookupUnencrypted(store, p).unenc) < Len(p)

GetPrefixInfo(store, p) ==
  LET base == LookupUnencrypted(store, p)
      rest == Drop(p, Len(base.unenc))
      walk[n \in 0 .. Len(rest)] ==
        IF n = 0 THEN [unenc |-> base.unenc, enc |-> base.enc, key |-> base.key]
        ELSE [unenc |-> Append(walk[n - 1].unenc, rest[n]),
              enc   |-> Append(walk[n - 1].enc, EncryptPathComponent(rest[n], base.cipher, walk[n - 1].key)),
              key   |-> DerivePathKeyComponents(walk[n - 1].key, <<rest[n]>>)]
  IN  [path |-> walk[Len(rest)], parent |-> walk[IF rest = <<>> THEN 0 ELSE Len(rest) - 1]]

\* bytes.HasPrefix on encrypted paths: the last component of the prefix may end
\* inside one of the path, which only happens to components in the clear.
HasPrefix(e, prefix) ==
  LET n == Len(prefix)
  IN  /\ n <= Len(e)
      /\ n >= 2 => Take(e, n - 1) = Take(prefix, n - 1)
      /\ e[n] = prefix[n] \/ (n >= 2 /\ \E pair \in Longer : pair[1] = prefix[n] /\ pair[2] = e[n])
==============================================================================
