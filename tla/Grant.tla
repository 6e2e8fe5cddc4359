-------------------------------- MODULE Grant --------------------------------
(***************************************************************************)
(* grant.Access: an API key with a store of encryption keys, the grants that   *)
(* are derived from an owner's grant by Restrict, by attenuating the API key   *)
(* on its own, by Serialize and ParseAccess, and the revocation of API keys.   *)
(*                                                                           *)
(* macaroon.APIKey: a chain of caveats. Every caveat carries a nonce and the   *)
(* tail is a MAC over the chain, so a tail stands for its chain of caveats and *)
(* can not be had without them.                                               *)
(***************************************************************************)
EXTENDS PathStore

CONSTANT Times   \* points in time an action can happen at

ASSUME TimeAssumption == Times \subseteq Int

\* The operations an action can ask for; only these four can be disallowed.
Deniable == {"Read", "Write", "List", "Delete"}
ActionOps == Deniable \cup {"ProjectInfo"}

\* A caveat's paths are encrypted prefixes, <<b>> for a whole bucket; NoBucket
\* is the action's path when it names no bucket.
NoBucket == <<>>

\* NotBefore and NotAfter, where they are set.
InTime(cav, t) ==
  /\ cav.until = None \/ t <= cav.until
  /\ cav.from = None \/ cav.from <= t

\* Caveat.Allows. Metadata of a bucket is readable whatever operations are
\* disallowed, if a path of the bucket is allowed.
Allows(cav, action) ==
  /\ InTime(cav, action.time)
  /\ IF action.op = "Read" /\ Len(action.path) <= 1
     THEN \/ cav.paths = {} \/ action.path = NoBucket
          \/ \E q \in cav.paths : q[1] = action.path[1]
     ELSE /\ action.op \in cav.allow \cup {"ProjectInfo"}
          /\ \/ cav.paths = {} \/ action.op = "ProjectInfo"
             \/ action.path # NoBucket /\ \E q \in cav.paths : HasPrefix(action.path, q)

\* Bug form: only the key's own tail is looked up.
TailsLast(caveats) == {caveats}

\* ValidateAndTails: the tails of the key and of all its ancestors.
Tails(caveats) == {SubSeq(caveats, 1, n) : n \in 0..Len(caveats)}

\* APIKey.Check.
Check(caveats, action, revoked) ==
  /\ \A i \in DOMAIN caveats : Allows(caveats[i], action)
  /\ Tails(caveats) \cap revoked = {}

\* Bug form: a bucket of any caveat is allowed.
AllowedBucketsUnion(caveats) ==
  {q[1] : q \in UNION {caveats[i].paths : i \in DOMAIN caveats}}

\* The Buckets of GetAllowedBuckets: those in every caveat that has paths.
AllowedBuckets(caveats) ==
  {b \in Buckets : \A i \in DOMAIN caveats :
     caveats[i].paths # {} => \E q \in caveats[i].paths : q[1] = b}

AllBuckets(caveats) == \A i \in DOMAIN caveats : caveats[i].paths = {}

\* APIKey.Restrict.
RestrictKey(caveats, cav) == Append(caveats, cav)

CONSTANTS
  Owners,        \* stores an owner may start with
  Texts,         \* base64 texts that someone without keys may use as a component
  Permissions,   \* [allow, from, until]: what Restrict is called with
  Shares,        \* sets of prefixes that Restrict is called with
  MaxGrants,     \* bound: grants made altogether
  MaxRevoked     \* bound: API keys revoked

\* Owners have a default key, and keys of their own for any paths, each with a cipher.
ASSUME OwnersAssumption ==
  \A store \in Owners :
    /\ store = [defaultKey |-> store.defaultKey, cipher |-> store.cipher,
                bases |-> [q \in DOMAIN store.bases |-> store.bases[q]], bypass |-> "off"]
    /\ store.defaultKey \in PathKeys \cup {None} /\ store.cipher \in Ciphers
    /\ IsFiniteSet(DOMAIN store.bases)
    /\ \A q \in DOMAIN store.bases :
         /\ q \in Paths
         /\ store.bases[q].key \in PathKeys /\ store.bases[q].cipher \in Ciphers
         /\ Len(store.bases[q].enc) = Len(q) /\ store.bases[q].enc[1] = q[1]

\* The owner's own key is for a whole bucket, with the default cipher.
OwnBucket(store, q) ==
  Len(q) = 1 /\ store.bases[q] = [enc |-> q, key |-> store.bases[q].key, cipher |-> store.cipher]

\* Restrict gives every prefix the default cipher and one key, so it can only hand on
\* the names and the keys below a prefix if the owner has no others there.
Uniform(store, p) == \A n \in 1 .. Len(p) : Take(p, n) \in DOMAIN store.bases => OwnBucket(store, Take(p, n))

OwnersUniform == \A store \in Owners : \A q \in DOMAIN store.bases : OwnBucket(store, q)

ASSUME GrantAssumption ==
  /\ \A perm \in Permissions : /\ perm.allow \subseteq Deniable
                               /\ {perm.from, perm.until} \subseteq Int \cup {None}
  /\ \A S \in Shares : S \subseteq Paths /\ IsFiniteSet(S)
  /\ MaxGrants \in Nat /\ MaxRevoked \in Nat

VARIABLES
  grants,    \* sequence of grants, the owner's first: [parent, caveats, store, limited]
  revoked    \* tails of revoked API keys

grantVars == <<grants, revoked>>

\* limited: the store has been cut down to what the API key allows.
NewGrant(parent, caveats, store, limited) ==
  [parent |-> parent, caveats |-> caveats, store |-> store, limited |-> limited]

\* Restrict refuses the zero Permission and a time range that ends before it begins.
ValidPermission(perm) ==
  /\ perm # [allow |-> {}, from |-> None, until |-> None]
  /\ None \notin {perm.from, perm.until} => perm.from <= perm.until

\* The nonce makes each caveat unique.

Caveat(perm, paths) ==
  [allow |-> perm.allow, from |-> perm.from, until |-> perm.until, paths |-> paths,
   nonce |-> Len(grants)]

\* Bug form: the key of the parent's base is shared, not the one of the prefix.
ShareBaseKey(store, p) ==
  [unenc |-> p, enc |-> EncryptPath(store, p), key |-> LookupUnencrypted(store, p).key, cipher |-> store.cipher]

\* What the new store is given for a prefix: its encryption and its derived key, with
\* the default cipher.
Share(store, p) ==
  [unenc |-> p, enc |-> EncryptPath(store, p), key |-> DerivePathKey(store, p), cipher |-> store.cipher]

\* The store of a restricted grant: the default key if there are no prefixes,
\* or else a base for each of them.
RestrictedStore(store, prefixes) ==
  AddAll(NewStore(store.cipher, IF prefixes = {} THEN store.defaultKey ELSE None),
         {Share(store, p) : p \in prefixes})

\* Access.Restrict fails unless it has a base for each prefix and can add each.
RestrictAccess(i, perm, prefixes) ==
  LET g == grants[i]
  IN  /\ Len(grants) < MaxGrants
      /\ ValidPermission(perm)
      /\ \A p \in prefixes : HasBase(g.store, p)
      /\ DOMAIN RestrictedStore(g.store, prefixes).bases = prefixes
      /\ grants' = Append(grants,
           NewGrant(i,
                    RestrictKey(g.caveats, Caveat(perm, {EncryptPath(g.store, p) : p \in prefixes})),
                    RestrictedStore(g.store, prefixes),
                    g.limited))
      /\ UNCHANGED revoked

\* An attenuated API key is put together with the whole store.
Attenuate(i, perm, prefixes) ==
  LET g == grants[i]
  IN  /\ Len(grants) < MaxGrants
      /\ \A p \in prefixes : HasBase(g.store, p)
      /\ grants' = Append(grants,
           NewGrant(i,
                    RestrictKey(g.caveats, Caveat(perm, {EncryptPath(g.store, p) : p \in prefixes})),
                    g.store,
                    FALSE))
      /\ UNCHANGED revoked

\* Bug form: a prefix that some caveat allows is kept.
CollapsePrefixesSome(caveats) == UNION {caveats[i].paths : i \in DOMAIN caveats}

\* Bug form: a prefix must be named by every caveat.
CollapsePrefixesEqual(caveats) ==
  {e \in UNION {caveats[i].paths : i \in DOMAIN caveats} :
     \A i \in DOMAIN caveats : caveats[i].paths # {} => e \in caveats[i].paths}

\* collapsePrefixes: the prefixes that every caveat with paths allows.
CollapsePrefixes(caveats) ==
  {e \in UNION {caveats[i].paths : i \in DOMAIN caveats} :
     \A i \in DOMAIN caveats :
       caveats[i].paths # {} => \E q \in caveats[i].paths : HasPrefix(e, q)}

\* limitTo skips prefixes that can not be decrypted or added; the cipher is that of
\* the base.
CanKeep(store, e) ==
  CanDecrypt(store, e) /\ HasBase(store, DecryptPath(store, e)) /\ HasEncryptedBase(store, e)

KeepPrefix(store, e) ==
  LET p == DecryptPath(store, e)
  IN  [unenc |-> p, enc |-> e, key |-> DerivePathKey(store, p), cipher |-> LookupEncrypted(store, e).cipher]

LimitTo(store, caveats) ==
  IF AllBuckets(caveats) THEN store
  ELSE AddAll(NewStore(store.cipher, None),
              {KeepPrefix(store, e) : e \in {x \in CollapsePrefixes(caveats) : CanKeep(store, x)}})

\* toProto and parseEncryptionAccessFromProto: the defaults, and every base added
\* again; parsing fails if one can not be.
ParsedStore(store) == AddAll(NewStore(store.cipher, store.defaultKey), IterateWithCipher(store))

\* Serialize and ParseAccess, which limits the store to what the API key allows.
Reparse(i) ==
  LET store == ParsedStore(grants[i].store)
  IN  /\ DOMAIN store.bases = DOMAIN grants[i].store.bases
      /\ grants' = [grants EXCEPT ![i].store = LimitTo(store, grants[i].caveats), ![i].limited = TRUE]
      /\ UNCHANGED revoked

\* The satellite's revocation list.
Revoke(i) ==
  /\ Cardinality(revoked) < MaxRevoked
  /\ revoked' = revoked \cup {grants[i].caveats}
  /\ UNCHANGED grants

GrantInit ==
  /\ \E store \in Owners : grants = <<NewGrant(0, <<>>, store, TRUE)>>
  /\ revoked = {}

GrantNext ==
  \E i \in DOMAIN grants :
    \/ \E perm \in Permissions, S \in Shares : RestrictAccess(i, perm, S) \/ Attenuate(i, perm, S)
    \/ Reparse(i)
    \/ Revoke(i)

GrantSpec == GrantInit /\ [][GrantNext]_grantVars

------------------------------------------------------------------------------

Derived == {i \in DOMAIN grants : grants[i].parent # 0}
Parent(i) == grants[grants[i].parent]

\* What the satellite can be asked: an operation on an object or a bucket, in the
\* terms of the owner's encryption, at some time.
Actions ==
  LET owner == grants[1].store
  IN  {[op |-> op, path |-> e, time |-> t] :
         op \in ActionOps, t \in Times, e \in {EncryptPath(owner, p) : p \in Paths} \cup {NoBucket}}

\* A grant encrypts every path it can encrypt, and derives every key it can
\* derive, exactly as the owner it comes from, across any chain of restrictions
\* and parsing: what one uploads the other can read (restrict.go:103-114,
\* access.go:223-246). Left out are paths for which the owner has a key of its own
\* below the bucket or with another cipher, and owners with keys of their own once a
\* caveat has no prefixes: Restrict then copies the default key alone.
AgreesWithOwner ==
  \A i \in Derived : \A p \in Paths :
    /\ HasBase(grants[i].store, p)
    /\ Uniform(grants[1].store, p)
    /\ \/ DOMAIN grants[1].store.bases = {}
       \/ \A n \in DOMAIN grants[i].caveats : grants[i].caveats[n].paths # {}
    =>
      /\ HasBase(grants[1].store, p)
      /\ EncryptPath(grants[i].store, p) = EncryptPath(grants[1].store, p)
      /\ DerivePathKey(grants[i].store, p) = DerivePathKey(grants[1].store, p)

\* Decryption undoes encryption in every store that restricting and parsing can
\* build: the lookup by encrypted names finds the base that the lookup by
\* unencrypted names had found (store.go:184-264, path.go:90-234). A listing, which
\* walks to a prefix and its parent at once, finds them under the names and keys that
\* each has by itself (prefix.go:30-105). And in bypass mode (store.go:187-192) the
\* same encrypted path comes back from the text it is shown as, while the path's own
\* names are refused below the base.
RoundTrip ==
  \A store \in {grants[i].store : i \in DOMAIN grants} : \A p \in {q \in Paths : HasBase(store, q)} :
    LET As(q) == [unenc |-> q, enc |-> EncryptPath(store, q), key |-> DerivePathKey(store, q)]
        e == EncryptPath(store, p)
        shown == DecryptPath(Bypassed(store), e)
    IN  /\ CanEncrypt(store, p) /\ CanDecrypt(store, e) /\ DecryptPath(store, e) = p
        /\ CanDecrypt(Bypassed(store), e)
        /\ CanEncrypt(Bypassed(store), shown) /\ EncryptPath(Bypassed(store), shown) = e
        /\ CanEncrypt(Bypassed(store), p) <=> Len(p) = 1 \/ p \in DOMAIN store.bases
        /\ HasPrefixInfo(store, p) =>
             GetPrefixInfo(store, p) = [path |-> As(p), parent |-> As(IF Len(p) = 1 THEN p ELSE Take(p, Len(p) - 1))]

\* A text that someone without keys makes up comes back from the path it stands for
\* only if it is the base64 of one component, as it is encoded, and not the name of a
\* path that the store knows (path.go:307-313, 357-359, store.go:187-192): a slash
\* among the decoded bytes makes several components of it.
BypassText ==
  \A store \in {grants[i].store : i \in DOMAIN grants} :
    \A base \in {LookupUnencrypted(store, p).unenc : p \in {q \in Paths : HasBase(store, q)}}, text \in Texts :
      LET t == Append(base, text)
          e == EncryptPath(Bypassed(store), t)
      IN  /\ CanEncrypt(Bypassed(store), t) /\ CanDecrypt(Bypassed(store), e)
          /\ DecryptPath(Bypassed(store), e) = t <=>
               /\ text.exact /\ Len(text.text) = 1
               /\ \A q \in DOMAIN store.bases : store.bases[q].enc # e

\* "Prefixes, if provided, restrict the access grant (and internal encryption
\* information) to only contain enough information to allow access to just those
\* prefixes" (restrict.go:62-63): a grant that was restricted or parsed has keys
\* only for what every caveat of its API key allows.
KeysWithinCaveats ==
  \A i \in DOMAIN grants : grants[i].limited =>
    \A p \in Paths : HasBase(grants[i].store, p) =>
      \A n \in DOMAIN grants[i].caveats :
        LET paths == grants[i].caveats[n].paths
        IN  paths # {} => \E q \in paths : HasPrefix(EncryptPath(grants[i].store, p), q)

\* "the resulting access grant will only allow for the intersection of all previous
\* Restrict calls in the access grant construction chain" (restrict.go:59-60): a
\* restricted grant keeps the keys for all that lies below a prefix of each of its
\* caveats and that the grant it comes from has keys for.
IntersectionKept ==
  LET Below(e, paths) == \E n \in 1..Len(e) : Take(e, n) \in paths
  IN  \A i \in Derived : \A p \in Paths :
        (/\ HasBase(Parent(i).store, p)
         /\ \A n \in DOMAIN grants[i].caveats :
              \/ grants[i].caveats[n].paths = {}
              \/ Below(EncryptPath(Parent(i).store, p), grants[i].caveats[n].paths))
        => HasBase(grants[i].store, p)

\* A grant that is limited already comes out of Serialize and ParseAccess with the
\* keys it had: parsing again loses nothing and changes nothing (access.go:128-249).
ReparseStable ==
  [][\A i \in DOMAIN grants : grants[i].limited =>
       \A p \in Paths :
         /\ HasBase(grants'[i].store, p) <=> HasBase(grants[i].store, p)
         /\ HasBase(grants[i].store, p) =>
              EncryptPath(grants'[i].store, p) = EncryptPath(grants[i].store, p)]_grantVars

\* "Access grants can only have their existing permissions restricted"
\* (restrict.go:58-60), and revoking a grant revokes all that come from it
\* (apikey.go:147-155): no derived grant passes where its parent does not.
OnlyRestricts ==
  \A i \in Derived : \A a \in Actions :
    Check(grants[i].caveats, a, revoked) => Check(Parent(i).caveats, a, revoked)

\* The buckets that GetAllowedBuckets lists are exactly those whose metadata the
\* key may read (apikey.go:169-214, 261-279): listing filters by what Allows lets
\* through.
BucketsConsistent ==
  \A i \in DOMAIN grants : \A b \in Buckets : \A t \in Times :
    LET list == [op |-> "Read", path |-> NoBucket, time |-> t]
        stat == [op |-> "Read", path |-> <<b>>, time |-> t]
    IN  Check(grants[i].caveats, list, {}) =>
          ((AllBuckets(grants[i].caveats) \/ b \in AllowedBuckets(grants[i].caveats))
             <=> Check(grants[i].caveats, stat, {}))
==============================================================================
