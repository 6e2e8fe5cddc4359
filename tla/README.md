# A verification project for storj.io/common

`storj.io/common` is the library shared by the parts of the Storj network: RPC
connections and their pool, synchronisation primitives, caches, the encryption of paths
and data, access grants and API keys, identities and TLS, signed messages, monitoring,
and many small formats. The modules here model what keeps state and is used from several
goroutines, what is reached through long sequences of calls or through failures, and the
conversions that other programs rely on. TLC checks them on small instances, and TLAPS
proves the safety of the connections, of the synchronisation primitives, of access grants
and the path keys in them, of the expiring cache, of identities, handshakes, dialers and
signed messages, and of replaced files for all instances.

## 1. Inventory

| Part | State | Operations | What is hard | What makes it correct |
|---|---|---|---|---|
| `rpc/rpccache`, `rpc/rpcpool` | map key → entries, LRU list, a timer per entry; the connections | Take, Put, Close, expiration callback; Get, Invoke, NewStream, Close | Put's stale check and the callback's Close run outside the mutex; a timer may have fired when Stop is called; a slice is filtered while it is ranged over | a connection has one user, is not closed under it, is not leaked, the limits hold, list and map agree |
| `rpc` dialer | a pool shared by dialers, keyed by what was asked for | DialNodeURL, DialNode, DialAddress… | a pooled connection outlives the address it was made for | the peer is who the caller asked for |
| `rpc` connecting | candidates; per candidate a socket and a handshake; the best connection so far | register, add, remove, dial | handshakes race cancellation and each other | one connection is kept, the best; other sockets are closed; the dial ends |
| `rpc/quic` | session, lazily accepted stream, error | Accept, Read, Write, Close | several methods race to accept the stream | one stream, or the error for everybody; a session that ends frees its users |
| `sync2.Cycle` | ticker, control channel, flags and channels of Stop | Start, Run, Pause, Restart, ChangeInterval, Trigger, TriggerWait, Stop, Close | select among several ready channels; Stop against a Start whose goroutine has not run; calls against the end of the loop | Stop is final, Pause holds, TriggerWait has seen fn, nobody blocks for ever |
| `sync2` tee | shared buffer, head, furthest request, handle count | Read, Write, CloseWithError on both ends | the buffer is used outside the mutex; Close uses no mutex | no read of missing data, back pressure, EOF only after all data, no lost wake-up |
| other `sync2`, `errs2`, `context2` | counters, condition variables, channels | produce/consume, start/wait/close, success/failure, trigger, go/wait, cancel | wake-ups, and counters read in separate steps | nobody sleeps through what it waits for; a wait covers all it waits for |
| `lrucache` | map, list of keys, a state with a `sync.Once` per key | Get, GetCached, Add, Delete | the function runs without the lock while others delete and re-create the key | list and map agree, capacity, failures are not cached |
| `encryption` store and paths, `paths`, `macaroon`, `grant` | default key, a tree of keys per prefix; chains of caveats; revocations | Add, lookups, encrypt/decrypt path and prefix; Restrict, Check, GetAllowedBuckets; Serialize, ParseAccess | long chains of restricting and parsing; two lookups over two maps | derived grants agree with their owner and hold no key and no permission beyond it |
| `encryption` data, `ranger`, `httpranger`, `readcloser` | positions and buffers of readers | padding, transformed ranges, HTTP conditions and ranges | block arithmetic at the edges, damage in the store | what is read is that range of the data, or an error |
| `identity`, `peertls`, `pkcrypto` | certificates, key files, revocation database | generate, save, load, revoke; verify a handshake | workers racing, one of two files failing, the random order of the handlers, revocations stored by other connections | key, certificate and id belong together; a chain is accepted only if every check passed; a revocation that is shown is taken, and an older one refused |
| `signing` | messages and their signatures | sign, pass on, verify | programs that know fewer fields | a signature verifies what was signed and nothing else |
| `eventstat`, `telemetry` | maps of counters, packets | increment, publish, send, receive | a map is read and emptied without the lock | every event is counted once, at most |
| `fpath` | a file and its temporary files | AtomicWriteFile | a crash or an error between two steps | the file is old or new, never in between |
| `testcontext` | goroutines of a test | Go, Wait, Cleanup | a goroutine that hangs or fails late | a test that leaves goroutines behind fails |
| `bloomfilter`, `base58`, `memory`, `storj`, `strictcsv`, `useragent`, `uuid`, wire forms of macaroons, keys, revocations | none | write, read, compare | leading zeros, empty fields, lengths from the wire, escapes | what is written is read again; what was damaged is refused or stable |
| `pb`, `netutil`, `processgroup`, `socket`, `version`, `testrand`, `testtrace`, RPC helpers | none | – | – | not modelled |

How they interact: the dialer asks the pool, the pool asks the cache for every RPC and
dials when the cache has nothing; the cache calls back into the connections (Stale,
Close) and is called back by timers. The connector behind a dial runs every candidate in
a goroutine; what comes out may be a QUIC connection. The handshake verifies the peer's
chain with the handlers of `peertls/tlsopts`, which share a revocation database; the chain
was made by `identity` and kept in files. A grant holds an API key (macaroon) and an
encryption store; restricting it uses the store to encrypt the prefixes that go into the
caveat, and parsing uses the caveats to cut down the store. A ranger of encrypted data is
served over HTTP. The primitives of `sync2` are used on their own by other repositories.

`PROJECT.json` lists every part with its source files, and the hazards, each at its line,
with the properties that cover it.

## 2. Modules and the code they model

Everything under a mutex is one step; what the code does between unlocking and locking
again, or without a lock, is a step of its own. `PROJECT.json` ("map") gives the lines of
every definition. A definition commented "Bug form" is a plausible mistake in the
definition after it and is used nowhere: putting it in place of the right one must make
the named property fail, which shows that the property says something about that code.

Three modules put components that do not use one another side by side (`Runtime`,
`MCContent`, `MCTrust`). A behaviour is about one of them, chosen in the initial state by
`part`, `primitive` or `about`; the others stay as they were made. That is a sum of the
state spaces and not their product, and a property of one component is about the
behaviours of that component only.

**Connections.** `ConnCache` has the map and the LRU list of `rpccache.Cache` as slices in
their real order; `timers` are the running expiration timers, of which any that is due may
fire, `firing` the stage of a callback; `FilterCacheKey` ranges over the array that
`FilterEntryLocked` shifts in place.
`ConnPool` extends it with `Pool.get`, `Invoke`, `NewStream` (with its goroutine that puts
the connection back), the handle's `Close` and `Pool.Close`; a connection may be lost at
any time. Connections on which NewStream failed are let go of by the code and kept
apart in `dropped`. `ConnOwner` is the abstract specification: a connection is fresh, busy
with one task, idle or gone, belongs to one key, never comes back, and a task dials only
when nothing idle is left for its key. `ConnPool` implements it (`KeepsPromise`, an
instance with `status` computed from the cache, the tasks and the callbacks). `Dialer` is
`rpc.Dialer` over one pool: who the caller asked for, the key this becomes, what the
server at the address can prove, addresses that change hands, and a HostnameTLSConfig that
names its server or leaves the name to the address. `HybridDial` has the
registry of candidates, `Dial` with its channels, and the two stages (raw dial,
handshake against context) that the connectors share; an unencrypted dial takes one
candidate and goes without the handshake. `QuicConn` is the connection of
`rpc/quic`, incoming or outgoing, with its `sync.Once`, its unsynchronised read of the
stream (nil, the stream, or half of it), a peer that finishes its side, errors of the stream
alone, and the wrapper that tracks closing.

**Goroutines.** `Cycle`: `run` is the place in `Cycle.Run`; a control message is a joint
step of sender and loop, since the channel is unbuffered; a running ticker may tick at any
time. `paused`, `lateFn`, `began`, `covers`, `fresh` are history variables that no guard
reads. `Tee`: bytes are counted; `stored` is the buffer's own length, which moves before the
head; the writer's look at the handle count and its Wait are two steps with the mutex held,
because a reader's Close takes no mutex. `Throttle` has the throttle and `WorkGroup`;
`Limiter` the limiter, `Semaphore` and `SuccessThreshold`; `TaskGroup` has `errs2.Group`,
`Concurrently`, `WithTimeout`, `Collect`, `Fence`, the context of `WithCustomCancel` with
`sync2.Copy`, and the test context; with `Cooldown` they are put together by `Runtime`, with
`HybridDial` and `QuicConn`. Any number of goroutines may wait on either side of a throttle;
the history variable `crowded` notes where two have. The number of tasks of a threshold is
the ceiling of a product that may be off by `RoundErr`, since the code multiplies floats: 7%
of 100 tasks are 8. The two parts of `Cooldown.Stop`, taking `stopsent` and closing the
channel, are two steps.

**Grants.** `PathStore`, and `Grant` with the macaroons. Cryptography is symbolic: a key is
a root secret and the components it was derived along, an encrypted component names key and
contents, the null cipher is the identity and so has byte prefixes that end inside a
component (`Longer`). A store in bypass mode (`Bypassed`) answers every lookup with the
base64 cipher: a name decodes to the encrypted component it is the base64 of, to several if
there is a slash among its bytes, or not at all if it is a plain name. The store's tree is
given by its bases; `CanAdd` is the bijection that `node.add` enforces. `RestrictAccess` is
`Access.Restrict` with all its refusals; `Attenuate` restricts the API key alone; `Reparse`
is `Serialize` and `ParseAccess`, with the store written, read back and limited; `Revoke` is
the satellite's list, which is outside of this repository. `GetPrefixInfo` is the encryption
of listing prefixes.

**Content.** `Ranger` (with serving over HTTP), `Transform` and `Data`: an object is padded,
encrypted block by block, stored, perhaps damaged or cut, and read through
`transformedRanger` with a reader that keeps its own buffer, or served over HTTP with
conditions and ranges. A read after a decryption error meets the end of the stream and
returns io.EOF, as the code does, and the error is remembered apart. Ranges may ask for a
negative suffix. Encrypted bytes name their key, nonce, position and contents. `LruCache`: a
state and its list element share a name, and an element that `Add` leaves behind keeps it; a
function returns a value, nothing or an error; `young` orders the states that have not
expired. `Telemetry`: maps have identities, so a counter that is read while another
publisher uses it would be seen; packets may be lost. `Formats`: a value is written in one
of 26 formats, may be changed on the way in one place or cut, and is read again. The formats
are in `Ids` (base58, base32, hexadecimal, database fields, the bloom filter), `WireFormats`
(macaroons and API keys; PEM, DER, gob), `TextFormats` (CSV with what encoding/csv makes of
blank lines and line ends, sizes of `SizeBits` bits, user agents, escaped components,
locations); single sealed messages are in `Transform`. They are written as the code computes
them, over smaller alphabets: bytes of 4 bits, base 7, words of 2 bytes.

**Trust.** `Certificate` has certificates, extensions, chains and their signatures,
ideally. `Identity`: workers that search keys, `NewCA` more than once, `NewIdentity`, `Save`,
`Load`, `AddExtension` and `Revoke` of CAs and identities, one over the files of another,
where every write may fail or be cut and the process may end. `PeerTrust`: concurrent
handshakes with chains of one certificate or more. The handlers that `WithOptions` keeps run
one by one in any order against one revocation database, which may fail and refuses a
revocation that is older or not signed by the CA. `revocationChecker` has no action: the
handlers are in a map keyed by pointers, it is registered under the same pointer as
`revocationUpdater`, and the later replaces it. A chain without a CA ends the process where
the code indexes the CA. `Signing`: messages are records of numbered fields, some of which
are written when they are zero, on the wire only or for signing too; they are signed, passed
through programs that know fewer of them, and verified. `AtomicFile`: several writers of one
file, each step may fail, the process may end between any two, the rename and the return
included.

`CONSTANTS` stand for sizes where a size matters and are named in the modules; the `.cfg`
files give them their values and replace no definition.

## 3. Runs

| Run | Instance | Result |
|---|---|---|
| `pool` | 3 goroutines, 3 connections, 2 keys, three Options | holds, 806 thousand states, with the refinement |
| `pool_orphan` | 3 connections of one key, limit 3, expiration | `CachedIsTakeable` fails |
| `cycle` | 2 callers, a Stop and a Close | holds, 114 thousand states, with liveness |
| `tee` | 2 readers, file and memory, slices of 1 and 2, 3 bytes | holds, 292 thousand states, with liveness |
| `tee_closed_readers` | the same, file | `WriteReleased` fails |
| `lru_capacity` | as `content`, with 3 keys | `CapacityBound` fails |
| `grant` | 4 owners (2 ciphers; one has a key of a bucket, one of a path and with the other cipher), 2 buckets, 7 paths, 4 base64 texts, chains of 3 grants, 1 revocation | holds, 65 thousand states |
| `grant_intersection` | the same | `IntersectionKept` fails |
| `runtime` | 2 or 3 goroutines per primitive, 3 candidates with 2 priorities, 3 users of a QUIC connection, 3 goroutines of a test | holds, 189 thousand states, with liveness |
| `content` | objects of up to 5 bytes in blocks of 1, 3 and 4; a cache of 1 or 2 for 2 goroutines; 2 publishers; 26 formats | holds, 711 thousand states |
| `trust` | 2 workers, 2 CAs, 3 keys, 2 saves, 2 revocations; 2 handshakes, 10 peers; 2 calls of 2 dialers; 3 versions of a program; 3 writers of a file | holds, 1.35 million states |
| `trust_revoked` | the same | `RevokedRefused` fails |

What the passing runs show:

- *pool.* A connection is not closed under a call or stream, even when its timer fired
  just before it was taken (`InUseNeverClosed`). Every open idle connection will be found
  again or closed (`NoOpenConnForgotten`); map and LRU list agree as far as they do, and
  the limits hold (`CacheConsistent`). The pool implements `ConnOwner` (`KeepsPromise`).
- *cycle.* After Stop or cancellation fn begins at most once more (`AtMostOneLateFn`);
  Pause swallows a pending tick (`PausedMeansNoTick`); Stop and Close return only when the
  loop has ended (`StopIsFinal`), and do return (`StopReturns`); TriggerWait has seen a
  whole execution (`TriggerWaitRan`); control calls on a loop that has run return
  (`CallReturns`).
- *tee.* Reads outside the mutex stay within the data, the writer is held back, io.EOF comes
  after all data, and the file loses each handle once (`ReadsWhatWasWritten`); no reader
  sleeps through data or the writer's end (`ReadReturns`).
- *grant.* Through any chain, ciphertexts and keys are those of the owner
  (`AgreesWithOwner`), decryption undoes encryption and prefixes are listed under the names
  of what is below them (`RoundTrip`), in bypass mode a base64 name comes back exactly if it
  is that of one component the store has no name for (`BypassText`), keys stay within all
  caveats (`KeysWithinCaveats`), parsing a limited grant again changes nothing
  (`ReparseStable`), no grant is allowed what its parent is not, after revocations too
  (`OnlyRestricts`), and the bucket filter agrees with the per-bucket check
  (`BucketsConsistent`).
- *runtime.* Nobody sleeps through the signal it waits for (`NoLostWakeUp`; in a throttle, on
  a side where no two have waited at once); what a Wait,
  Close or Cleanup covers is over when it returns, and no more run than there are slots
  (`WaitsCover`); a threshold is done exactly when it is decided (`DoneMeansDecided`); a
  cooldown holds, and no function runs after a Stop, unless it overtook another Stop
  (`CooldownHolds`); a cancelled context keeps its error (`OneError`); a
  dial leaves one socket open, the best (`NoSocketLeft`, `KeepsBest`); a QUIC connection has
  one stream or one error (`OneStream`); every wait ends (`EveryWaitEnds`).
- *content.* What a range reader delivers is that part of the data, the first read past
  damage is an error and no end comes before it (`ReadsAreExact`); rangers in layers agree
  with the plain one (`LayersAgree`); the parts ServeContent sends are exactly those each
  range asks for, suffixes, open and several ranges included, under the conditions of the
  request (`HttpAgrees`, negative suffixes apart); the cache keeps its map and list together
  (`CacheKeepsLive`); events are counted once (`EventsAccounted`); what is written is read,
  damaged values are refused or stable, orders are kept, filters forget nothing, sealed
  messages stay sealed, two readers of one text agree (`FormatsFaithful`).
- *trust.* Whatever was generated, revoked, saved over one another and loaded, the
  certificate of a CA is of its key, and its id is that key's; a leaf is signed with its CA's
  key, and the identity's key is its leaf's until a Revoke. Each holds as long as no save of
  the files in question was cut (`IdentityConsistent`): after a cut one a CA or an identity
  can be loaded with the key of another. An accepted peer holds the key of a leaf that the CA
  of the node asked for has signed, and a listed authority that CA; each extension was agreed
  to, and only a chain without a CA ends the process (`AcceptedIsTrusted`). A peer that shows
  a revocation is accepted only if its CA has signed it, it is not older than the one known
  when the handshake began, and the database has it or a later one, in whatever order the
  handlers run (`RevocationsTaken`); two revocations in one second and a leaf shown with a CA
  that carries a newer revocation are among the peers. The peer of a dialed connection is who
  was asked for, with the dialer's own options, also from the pool (`DialedAsAsked`); a
  message verifies as what was signed, and one that nobody changed does so unless the
  verifier does not know a field it cannot sign again (`VerifiedAsSigned`); a replaced file is
  old or new, and of a writer that was not told of a failure (`FileWhole`).

### Disagreements between code and documentation

1. `rpccache.filterCacheKey` can drop a live connection from the map while it stays in the
   LRU list: it ranges over a slice that is shifted in place (`pool_orphan`). Such a
   connection counts towards Capacity and can not be taken until it expires.
2. The tee's Write can sleep for ever although all readers are closed
   (`tee_closed_readers`): the last reader's broadcast falls between the count and the Wait.
3. `ExpiringLRU.Add` evicts from the map and not from the list; the cache can grow beyond
   its capacity (`lru_capacity`).
4. `Access.Restrict` without prefixes copies only the default key: a grant that had been
   restricted to a prefix comes out without any key (`grant_intersection`). An owner with
   keys of its own for some buckets loses those in the same way and falls back to the
   default key, which is why `AgreesWithOwner` leaves such chains out.
5. A revoked leaf is accepted when it shows no revocation, and the check of revocations never
   runs (`trust_revoked`): `RevocationCheckHandler` and `RevocationUpdateHandler` are
   registered under one pointer, and the map keeps the second.

### Met while modelling

Not runs of their own; the models do what the code does, and where a property would fail for
it the exception is named there.

- `ManageableFullIdentity.Revoke` takes over the leaf of the new identity and not its key,
  where `identity.go:52` says that the key is the leaf's: the identity is left with a leaf
  whose key it does not have (`~revoked` in `IdentityConsistent`).
- `Cooldown.Stop` "stops the cooldown permanently" (`cooldown.go:119`), and not for everybody: a
  Stop that comes between another's compare-and-swap and its close returns, and Run called
  after it executes the function (`early` in `CooldownHolds`). Run after Stop does not panic,
  as its comment says, but returns nil.
- `quic.Conn.getStream` looks at the stream without synchronisation while another method may
  be accepting it; an interface has two words, and a method can get one of them (the users of
  `QuicConn` that are "crashed").
- `ExpiringLRU.Get` of a function that returned nil without an error leaves a state with a
  used `sync.Once` and no value: no later Get of the key returns until the state expires or is
  deleted.
- `ParseRange` takes a negative suffix for a range, against its comment
  (`content.go:469-473`); the answer is a 206 (`NegativeSuffix` in `HttpAgrees`).
- `ExpiringLRU.Get` calls its function for a key that Add has filled, because the state
  has an unused `sync.Once`; GetCached may report a nil value while a function runs.
- `incrementBytes` counts from the first byte on, while comments in `aesgcm.go:24` and
  `secretbox.go:21` speak of big-endian numbers.
- `NewSuccessThreshold` allows 1 where its comment says it is an error, and its rounding can
  ask for one task more than the share; a Semaphore's Lock after Close may succeed. With two
  goroutines on one side of a `Throttle` a signal can wake the wrong one.
- `Subrange.Range` does not bound a range by its own length. A caller that reads on after a
  decryption error sees io.EOF.
- A chain of one self-signed certificate is accepted by servers and by clients that ask for
  nobody and have no whitelist; a client that asks for a node, or has one, panics on it.
- `Config.Save` writes the key also when the certificate could not be written, the CA's
  Save does not; neither Load checks that key and certificate fit, so that a save cut between
  the two files can pair one CA's certificate with another's key. A CA certificate file
  without a certificate panics on load.
- The pool's key has nothing of the HostnameTLSConfig: dialers that name different servers
  share a connection. `DialedAsAsked` holds each to the names of either.
- Zero values of fields that are nullable=false are on the wire and not in the signed bytes.
  A program that does not know such a field keeps it as unrecognized, signs it, and refuses a
  limit that nobody has changed.
- A second Revoke of a CA, and a second AddExtension, put two extensions of one id into a
  certificate: `uniqueExts` looks at the added ones only.
- In bypass mode a plain name can not be encrypted, and a base64 name whose bytes hold a slash
  comes back as several.
- A signed-leaf extension on the leaf itself can never verify; `UUID.UnmarshalJSON` looks
  at both quotes with `&&`; `DownloadNodes` multiplies in 16 bits.
- Node ids of an unregistered version lose it in text; a list of one empty NodeURL is read
  as an empty list; an empty piece key can be written to a database and not read; a CSV
  pointer to an empty string comes back nil and floats keep six decimals; a user agent entry
  with product and comment comes back as two, and comments are not escaped; a CSV record of
  one empty column is a blank line that the reader skips, and CRLF inside a field becomes
  LF; a size near the largest overflows when it is read. These are the exceptions `Expected`
  and `Readable` of `Formats` name.
- An error of a packet's beginning in telemetry loses the counters that were already reset.

### Bounds and why they are enough

Three connections are what it takes for the in-place filter of one key to skip one and visit
another twice, and three goroutines let two of them meet the callback of a third's
connection. Two callers and two stoppers give every pair of control calls and Stop with
Close. Three bytes in slices of one and two let one reader be behind, level with and ahead
of the other. Three candidates allow the best to arrive first, in the middle and last, and
ties. Two goroutines and two keys with capacity one let a failing Get meet an eviction, a
deletion and a re-creation; the capacity error takes a third key. Three grants are a chain
of two restrictions with parsing between and after; an owner's own key lies at a shared
prefix and below one; the texts are the base64 of a name, of an encrypted name, of two
components and one not in its canonical form; the paths nest twice, have neighbours with a
common byte prefix, and a second bucket. Three jobs and two waiters let one begin before,
during and after a Wait. Objects of none to five bytes in blocks of one, three and four end
before, at and after a block's end, with padding that takes a block of its own. Two
publishers and three maps let a map be handed out again while it is read; packets of twelve
hold one, two or no value. Alphabets are small and lengths go one beyond the fixed ones, so
that each carry, chunk and length byte has a value at and beside its limit. Sizes of twelve
bits hold the largest unit and overflow with it. Two handshakes of ten peers let each
handler of one run before, between and after those of the other; four leaves of one CA
revoke one another, two in the same second, and one peer has a CA with a newer revocation,
one no CA. Two CAs with three keys let one be saved over the other. Three fields are one
that is always written, one that is written when zero on the wire and one that is not; two
dialers' calls with an address that changes hands meet each other's pooled connections;
three writers leave a loser after a winner.

Symmetry is used only in runs without liveness, over sets that the specification treats
alike. The bounds are named: `Conns`, `Tasks`, `MaxTotal`, `Ids`, `MaxGrants`, `MaxRevoked`,
`MaxAvailable`, `MaxCoolRuns`, `RoundErr`, `MaxErrs`, `CopyReads`, `MaxEvents`,
`MaxPublishes`, `MaxKeys`, `MaxCAs`, `MaxSaves`, `MaxRevocations`, `MaxExts`, `MaxConns`.
Deadlock is not checked: all calls may have ended or a bound is reached.

### Fairness

`CycleFairness`: the loop's goroutine runs, fn returns, and a call or stopper that has
begun goes on. A control message is received under strong fairness: the loop comes back to
its select again and again, and Go's select picks at random among the ready channels, so
a blocked sender is not passed over for ever. Nothing is assumed about the ticker, new
calls or the context. `TeeFairness`: calls that have begun go on; strong fairness where a
waiter needs the mutex, because `sync.Mutex` switches to handing over to a waiter that
starves. `HybridFairness`: goroutines run; a network dial or handshake ends for sure only
when its context is done or its socket closed. `CooldownFairness`: the loop's goroutine
and a Stop that has begun run; nothing triggers the cooldown. `QuicFairness`: a user
that is past waiting runs, and quic-go returns from a stream or an accept once the
session has ended.

## 4. Proofs

Every theorem is about the specification that the runs check, for every value of its
constants: any number of goroutines, connections, keys, readers, candidates, handshakes or
writers, any limits and lengths. None of the properties is inductive as it stands. Each
proof module therefore states an invariant that is: what a property says in one place of
the code follows from what other places have done before. TLC finds each of these
invariants to hold on the instance of its run, with the proof module as the root. One
lemma says that the initial states have the invariant and one per action, or group of
alike actions, that it is kept; the theorem combines them and reads the property off.

**`ConnPoolProofs`** (`ConnCache`, `ConnPool`, `ConnOwner`): `PoolInvariant`,
`InUseStaysOpen`, `NoneForgotten`, `CacheStaysConsistent` and the refinement
`PoolKeepsPromise`. `PoolInv` says:

- both indexes list an entry once, entries are under their own key, and every slice of the
  map is within the LRU list (`CacheOK`). The converse fails once an entry can expire
  (`pool_orphan`), and is kept without expiration (`Matched`).
- a connection in use has one user and has left list, timer and callback (`InUseOK`).
  Without this, Take could hand out what a callback is about to close: it is why Take skips
  an entry whose timer it could not stop.
- the LRU list, which counts orphans too, and the slice of each key are within their
  limits; with a negative limit nothing is listed and nobody is about to insert
  (`LimitsOK`).
- an open connection without a user is listed, or its timer or callback still has it, or a
  failed NewStream dropped it (`NoOpenConnForgotten`, strong enough by itself).

Under these are facts about the operators. `FilterEntryRemoves` and
`FilterEntryLockedRemoves`: shifting removes one element and keeps the order.
`FilterEntriesSteps` and `FilterCacheKeySteps`: the loops are functions on the index, so
that an induction over it gives `FilterEntriesRemoves` and `FilterCacheKeyShrinks`:
whatever the loop over the shifted array visits twice or skips, the indexes stay in step
and nothing is added. `OverMakesRoom` and `PutMakesRoom`: Put evicts enough. The
refinement maps each action to one of `ConnOwner` (`BeginImplements`, `ReleaseImplements`,
`DialImplements`) or to steps that at most let idle connections go (`OthersImplement`).
The hard one is the beginning of a call: that it goes on to dial is allowed only when
nothing idle is left for the key, which needs that Take has popped all it passed over
(`TakePops`).

**`CycleProofs`** (`Cycle`): `CycleTypeCorrect`, `LateFnBound`, `PauseHolds`, `StopFinality` and
the action property `TriggerWaitSeen`, from `CycleInv`:

- `LateInv`: a late fn is under way, or its loop is on the way to the select that gives
  stopping priority. Without the place in the loop the bound of one is not kept.
- `PausedInv`: nothing is paused before the loop exists, so that Run's first ticker
  contradicts no Pause.
- `StopInv`: runexec is set whenever Start or Run has been called, stopped is closed
  exactly at the end of the loop, and a stopper that signalled after them passes its
  waits only after that.
- `WaitInv`: the caller waiting on a done channel is the one the current fn serves, and it
  called before that fn began.

**`TeeProofs`** (`Tee`): `TeeReadsWritten`. `WriterInv` relates the buffer's own
length to the head: they differ exactly while a write is committed, and a write goes on
only below the furthest request. `ReadersInv`: a read in progress ends at or before the head.
`ClosedInv`: the writer's io.EOF is set after its last write, and readers see it only at the
head. The number of open handles is the number of readers not closed yet, and one for the
writer.

**`RuntimeProofs`** (`Throttle`, `Limiter`, `Cooldown`, `TaskGroup`, `HybridDial`,
`QuicConn`, as `Runtime` puts them together): `NobodySleepsOn`, `WaitsCoverAll`,
`ThresholdDecides`, `CooldownSafe`, `OneErrorOnly`, `DialLeavesNothing`, `DialKeepsBest`,
`QuicOneStream`.
`RuntimeInv` has one part per primitive, each with its own lemmas; a step of `Runtime` is
a step of one and a stutter of the others (`Sync2Projects`). Most parts say of which set a
counter is the size: `workers` of the jobs between Start and Done, `limit` and `semaHeld`
of those in the slots, `pending` and `successes` of a threshold of the tasks that are past
each of its separate atomic steps. `CollectInv` says that collected, held and queued
errors together are those sent, in order. `ThrottleInv`: on a side that was never crowded
one goroutine waits at most, and has to, since whoever changed the condition has signalled.
`CooldownInv`: a Stop that returned, other than one that overtook the closing Stop, has seen
Run end, or the channel was closed before Run began. `HybridInv` accounts for every candidate's
socket: open only while its goroutine has it, on its way through the channel, or kept as
best; `QuicInv` for everybody who is past the once.

**`TrustProofs`** (`Identity`, `PeerTrust`, `Dialer`, `AtomicFile`, `Signing`, as `MCTrust`
puts them together): `IdentityKept`, `HandshakeTrusts`, `RevocationsAreTaken`,
`DialerKeepsPromise`, `FileStaysWhole`, `SignedIsVerified`. `IdentityInv` has one part for
each thing that the code takes for granted later: a key once selected stays, so that NewCA
may read it without the lock (`SelectedInv`); a file holds a chain or the beginning of one
(`ShapeInv`); as long as no Save of a CA was cut, certificate, key and id belong together in
memory, in the files and on the way there, whichever CA was saved over which (`CAInv`); and
the same of an identity's leaf and key as long as no Save of it was cut and nothing was
revoked (`KeyInv`). The step that needs all of them is a write in the middle of a Save,
where the certificate is new and the key still to come (`KeyAfter`). `TrustInv`: a handshake
past the first checks has passed them, and an extension whose handler is not left was agreed
to (`VerifiedOK`); the database moves forward in time, and a revocation that has been
handled is stored, or a later one is, was signed by its CA and is not older than what was
known at the beginning (`StoredOK`). `HandlersKept` says which handlers the map of
`WithOptions` is left with: the update of revocations and not the check. `DialInv`: whatever
is pooled under a key was verified as that key asks, and a connection is in one place.
`AtomicFileInv`: a writer past its write has a whole temporary file, and one past its rename
has only the return left. `SignInv`: the fields on the wire are `Ascending` by number and
`Complete` in those that are always written, and until somebody changes the message the ones
a signature is about (`Core`) are those that were signed; then a program that knows only
some of them reads them and writes them again unchanged (`RelayKeeps`), and the bytes that
are verified are those that were signed.

**`GrantProofs`** (`PathStore`, `Grant`): `GrantInvariant`, `GrantsAgree`, `NamesComeBack`,
`KeysAreWithin`, `GrantsOnlyRestrict`, `BucketsAreConsistent` and the action property
`ReparseIsStable`, for any buckets, paths, ciphers, shared prefixes and chains of any length.
Those about stores are proved of owners whose stores are uniform (`OwnersUniform`, a
hypothesis in each of these theorems: one cipher, and keys of the owner's own for whole
buckets only), `GrantsOnlyRestrict` and `BucketsAreConsistent` of all. `Restrict` derives one
key per shared prefix and adds it with the default cipher, so a key or a cipher the owner has
below that prefix is not handed on; `AgreesWithOwner` leaves such paths out (`Uniform`), and
the run has owners of both sorts. The argument has two layers.

- *One store.* For an owner's store R, `KeyOf(R, p)` and `EncOf(R, p)` say in closed form,
  from the base of p's bucket, which key and which encrypted name p has. A store is
  `Faithful` to R when each of its bases has R's name and key for that path, and when it has
  the default key only together with all of R's bases. Lookups then do not matter: whichever
  base is the deepest for a path, what follows it is derived to the same key and name
  (`Agrees`). `EncInjective`: different paths have different encrypted names, since an
  encrypted component names the key of what is above it. So `node.add` never meets two
  names for one path or two paths for one name, and adding a set of prefixes one after
  another comes to the same in any order (`AddAllIs`). `EncryptsBack` and `DecryptsBack`:
  the base found by encrypted names is the one found by unencrypted names.
- *The chain.* `GrantInv`: each grant is `Sound`, that is, faithful to its owner, or, once
  a caveat came without prefixes, to the owner's default key alone (`Plain`); a limited
  grant has bases only for prefixes that all its caveats allow; and the caveats of a parent
  are those of the child but for the last (`Descends`). That the second alternative is
  needed is disagreement 4 above. `CollapsePrefixes` gives what is below a prefix of every
  caveat, and limiting keeps exactly the bases there, so limiting what is limited changes
  nothing.

**`ContentProofs`** (`LruCache`, `Telemetry`): `CacheIsKept`. `LruInv`: the list has no
element twice, every key in the map has its own element in it, nothing else is in the list
until `Add` has left elements behind, no state in the map has failed, and a call that is
past its lookup holds a state of its own key, which is therefore not used for another. The
loop of evictions pops the least number of elements that makes room; `EvictMakesRoom` says
that there is such a number as long as list and map have the same elements. After `Add` they
have not, and the capacity is lost (`lru_capacity`). `CommitGood`: what the garbage
collector takes was reached from nowhere.

`EventsAreAccounted`. `EventsInv`: the map in use, the free one and those of the publishers
are different maps (`MapsApart`); a map that is not in use, about to be published or about
to be emptied is empty (`RestEmpty`), so that the one taken next adds nothing and carries
no mark; a map has the tag for discarded events exactly when its mark is set (`Marked`),
and only then one tag more than the limit (`WithinLimit`, which needs the tag to be
inductive); and the two sums of the property (`Accounted`). The sum of a function is the
number of its units, a set of pairs, so that finite sets give what an induction would:
`TotalSplit` for disjoint parts, `TotalSame` under a bijection, `TotalRemove` for one
value. `EntriesCount`: what a map holds is handed to `Send` in some order, whichever
`SetToSeq` takes. `AppendKeeps` and `SendConserves`: each entry is put into exactly one
packet or skipped, and a packet is within its size or has one entry.

**`SeqLemmas`** has the facts several of these use: the least number of a set, and what
removing an element of a sequence leaves.

### Assumptions

They are named where the constants are declared, and TLC evaluates them in the runs.
`CycleAssumption`, `CacheAssumption`, `FileAssumption`, `CertAssumption`: the values that
mean "none" are none of the others, limits are integers (of either sign), versions are
bytes. `TeeAssumption`, `ThresholdAssumption` (with a rounding error that is a number),
`HybridAssumption`, `LimiterAssumption`, `IdentityAssumption`: finite sets of goroutines,
sizes and priorities that are numbers, TCP among the connectors. `LruAssumption`: finitely
many keys, a capacity of at least one. `TelemetryAssumption`: the tag for discarded events
is no other event's, the limit is a number, and there are maps, finitely many at a time.
`SigningAssumption`: fields are numbered, zero is a value, and a field that is written also
when it is zero is either signed so, and then known to every program, or not.
`TimeAssumption`, `GrantAssumption`: times are integers and a call shares finitely many
prefixes. `PathAssumption`: a path is a bucket and components, what is encrypted differs
from all that is in the clear, and no name is also a base64 text. `OwnersAssumption`: an
owner's store is a store, with finitely many bases, and not in bypass mode.
`ThrottleAssumption`: amounts are numbers. `NodeIDAssumption`: a hash is not "none".
`PeersAssumption`: a chain has at least one certificate, as crypto/tls sees to, and a
revocation has a time.

### Only model-checked

- Liveness under fairness (`StopReturns`, `CallReturns`, `ReadReturns`, `EveryWaitEnds`).
- `BypassText`: what a store in bypass mode makes of base64 names, over the texts of the run.
- `ReadsAreExact`, `LayersAgree`, `HttpAgrees`, `FormatsFaithful`: conversions written with
  recursive operators, compared with a reference value by value.

## 5. Plan

Done: connections with the abstract `ConnOwner`, cycle, tee, the other primitives, LRU,
grants, the data path, monitoring, formats, identities and TLS, signing, atomic files, the
dialer; proofs for the connections, the cycle, the tee, the primitives, the dial, QUIC, test
contexts, identities, handshakes, the dialer, files, signatures, the LRU, counted events and
grants. Next:

1. Proofs: the data path, with the loops of `Transform` and `Ranger` as
   recursive functions on an index like those of `ConnCache`.
2. `BypassText` for all texts, and restricting a grant whose store is in bypass mode.
3. `SaveBackup`, and the result of `GetCached` while a function runs.

## 6. Not modelled

Generated protobuf code: `Signing` says what it needs of the encoding. Peer information,
status codes, timeouts, tracing, known ids and name lookup: stateless, or calls into other
libraries. The rollout percentage of QUIC, the mux header and transfer limits: one
comparison or one blocking call. Content type detection and multipart text: formatting.
DeriveRootKey (argon2), the optimal size of a bloom filter (floating point). The
monkit client of `telemetry`, editors, directories, compilation in tests, process groups,
sockets, TCP options: input and output. Random data, test identities, tables of countries
and build information.

Of what is modelled, left out: restricting a grant whose store is in bypass mode, plain names
that happen to be base64 text, empty components in bypass mode; `SaveBackup`, `statTLSFiles`
and `PeerConfig` of identities; an unspecified default cipher of a parsed store. Hashes and
HMACs are taken as ideal where they keep a secret: the small checksum of the formats shows
that a changed key is refused, not that no other secret fits.

Assumed of what is modelled: a revocation database that refuses revocations that are older or
not signed by the CA, and a time in every revocation (`PeersAssumption`); renames that are
atomic and files that survive a process (no loss of power: AtomicWriteFile does not sync).
