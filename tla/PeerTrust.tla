------------------------------ MODULE PeerTrust ------------------------------
(***************************************************************************)
(* What a TLS handshake accepts: peertls/tlsopts.Options with the verification     *)
(* functions of peertls and the extension handlers of peertls/extensions and       *)
(* storj. Handshakes run concurrently and share the revocation database.           *)
(*                                                                                 *)
(* The database is the caller's (interface RevocationDB): it keeps one revocation   *)
(* per CA, stores only those that CA has signed, refuses one that is older than    *)
(* the one it has, and may fail.                                                   *)
(*                                                                                 *)
(* revocationChecker has no action. The handlers are kept in a map whose keys are  *)
(* pointers to extension ids; RevocationCheckHandler and RevocationUpdateHandler   *)
(* have the same pointer (revocations.go:24, 27), so that WithOptions replaces the *)
(* one by the other, and the check is never called.                                *)
(***************************************************************************)
EXTENDS Certificate

CONSTANTS
  Handshakes,    \* concurrent handshakes
  Peers,         \* what peers present: [chain, key], key the private key they hold
  TlsOptions,    \* [whitelist, Revocation, WhitelistSignedLeaf, PeerIDVersions]
  CANodes,       \* node ids a client may ask for
  NoPeer         \* no peer, no id asked for, no revocation

VARIABLES
  tls,     \* the options of this node
  hs,      \* [pc, peer, asked, server, left, before] of each handshake
  revDB    \* RevocationDB: the last revocation for each CA key, or NoPeer

trustVars == <<tls, hs, revDB>>

\* Extension handlers, under the pointer to the id of the extension they are for.
HandlerID == [checkRevocation |-> "revocation", updateRevocation |-> "revocation",
              signedLeaf |-> "signed", idVersion |-> "version"]

\* configure: the factories in the order in which they are registered, and whether they are;
\* the version handler is a default handler.
Factories == <<"idVersion", "checkRevocation", "updateRevocation", "signedLeaf">>
Registered(f) ==
  /\ f \in {"checkRevocation", "updateRevocation"} => tls.Revocation
  /\ f = "signedLeaf" => tls.WhitelistSignedLeaf

\* WithOptions: of two factories with one id the map keeps the later.
Handlers ==
  {Factories[i] : i \in {j \in DOMAIN Factories : Registered(Factories[j]) /\
     \A k \in DOMAIN Factories :
       k > j /\ Registered(Factories[k]) => HandlerID[Factories[k]] # HandlerID[Factories[j]]}}

\* HandleExtensions calls, in the random order of two maps, every handler whose id is
\* that of an extension of the chain.
MatchingHandlers(chain) == {f \in Handlers : HandlerID[f] \in DOMAIN NewExtensionsMap(chain)}

HasCA(chain) == Len(chain) >= CAIndex
HasRevocation(p) == "revocation" \in DOMAIN NewExtensionsMap(p.chain)
RevocationOf(p) == NewExtensionsMap(p.chain)["revocation"].value

\* Peers present one certificate or more; a revocation has a time.
ASSUME PeersAssumption ==
  \A p \in Peers :
    /\ Len(p.chain) \in Nat /\ DOMAIN p.chain = 1 .. Len(p.chain) /\ Len(p.chain) >= LeafIndex
    /\ HasCA(p.chain) => p.chain[CAIndex].key \in CertKeys
    /\ HasRevocation(p) => RevocationOf(p) # NoPeer /\ RevocationOf(p).time \in Nat

ExtValue(h, id) == NewExtensionsMap(hs[h].peer.chain)[id].value

CAKey(h) == hs[h].peer.chain[CAIndex].key
LeafKey(h) == hs[h].peer.chain[LeafIndex].key

NoHandshake == [pc |-> "idle", peer |-> NoPeer, asked |-> NoPeer, server |-> FALSE,
                left |-> {}, before |-> NoPeer]

\* VerifyPeerFunc returns the first error: the handshake fails.
Refuse(h) == hs' = [hs EXCEPT ![h] = NoHandshake]

------------------------------------------------------------------------------

\* The ids are compared as strings.
verifyIdentity(asked, chain) ==
  LET p == PeerIdentityFromChain(chain) IN p # NoCert /\ p.id = asked

\* The order of tlsConfig up to the extensions, which nothing shared can disturb: the
\* chain; the identity, for a client that asks for one; the whitelist, for a client.
VerifyPeerFunc(chain, asked, server) ==
  /\ verifyChainSignatures(chain)
  /\ asked # NoPeer => verifyIdentity(asked, chain)
  /\ ~server /\ tls.whitelist # NoPeer => VerifyCAWhitelist(tls.whitelist, chain)

\* A single certificate that signs itself passes as a chain. PeerIdentityFromChain and
\* VerifyCAWhitelist then index a CA it does not have.
Panics(chain, asked, server) ==
  /\ verifyChainSignatures(chain) /\ ~HasCA(chain)
  /\ asked # NoPeer \/ (~server /\ tls.whitelist \notin {NoPeer, {}})

CanConnect(h, asked, server) ==
  hs[h].pc \in {"idle", "accepted", "panicked"} /\ (server => asked = NoPeer)

\* A peer connects as a client, or to a client that asks for an id or for none
\* (UnverifiedClientTLSConfig).
Connect(h, p, asked, server) ==
  /\ CanConnect(h, asked, server)
  /\ ~Panics(p.chain, asked, server) /\ VerifyPeerFunc(p.chain, asked, server)
  /\ hs' = [hs EXCEPT ![h] = [pc |-> "extensions", peer |-> p, asked |-> asked, server |-> server,
                              left |-> MatchingHandlers(p.chain),
                              before |-> IF HasCA(p.chain) THEN revDB[p.chain[CAIndex].key] ELSE NoPeer]]
  /\ UNCHANGED <<tls, revDB>>

\* The panic ends the process and with it all its handshakes; the database stays.
ConnectPanics(h, p, asked, server) ==
  /\ CanConnect(h, asked, server) /\ Panics(p.chain, asked, server)
  /\ hs' = [g \in Handshakes |-> IF g = h THEN [NoHandshake EXCEPT !.pc = "panicked", !.peer = p] ELSE NoHandshake]
  /\ UNCHANGED <<tls, revDB>>

\* A handler has returned without an error.
Handled(h, f) == hs' = [hs EXCEPT ![h].left = @ \ {f}]

Handling(h, f) == hs[h].pc = "extensions" /\ f \in hs[h].left

\* RevocationDB.Put stores a revocation: it is signed by the CA of the chain, and not older
\* than the one there is.
Storable(h) ==
  LET rev == ExtValue(h, "revocation")
      last == revDB[CAKey(h)]
  IN  /\ HasCA(hs[h].peer.chain) /\ RevocationVerifies(rev, hs[h].peer.chain[CAIndex])
      /\ last # NoPeer => last.time <= rev.time

Put(h) == Storable(h) /\ revDB' = [revDB EXCEPT ![CAKey(h)] = ExtValue(h, "revocation")]

\* Bug form: the error of the database is dropped.
UpdaterDropsError(h) ==
  /\ Handling(h, "updateRevocation")
  /\ Put(h) \/ revDB' = revDB
  /\ Handled(h, "updateRevocation")
  /\ UNCHANGED tls

\* The database refuses what it cannot store, and may fail.
revocationUpdater(h) ==
  /\ Handling(h, "updateRevocation")
  /\ \/ Put(h) /\ Handled(h, "updateRevocation")
     \/ revDB' = revDB /\ Refuse(h)
  /\ UNCHANGED tls

SignedByListed(sig, leaf) ==
  tls.whitelist # NoPeer /\ \E w \in tls.whitelist : sig.signer = w.key /\ sig.tbs = TBS(leaf)

caWhitelistSignedLeafHandler(h) ==
  /\ Handling(h, "signedLeaf")
  /\ IF SignedByListed(ExtValue(h, "signed"), hs[h].peer.chain[LeafIndex])
     THEN Handled(h, "signedLeaf") ELSE Refuse(h)
  /\ UNCHANGED <<tls, revDB>>

idVersionHandler(h) ==
  /\ Handling(h, "idVersion")
  /\ IF IDVersionInVersions(ExtValue(h, "version"), tls.PeerIDVersions)
     THEN Handled(h, "idVersion") ELSE Refuse(h)
  /\ UNCHANGED <<tls, revDB>>

\* TLS itself then wants a signature with the key of the leaf.
Accept(h) ==
  /\ hs[h].pc = "extensions" /\ hs[h].left = {}
  /\ IF hs[h].peer.key = LeafKey(h) THEN hs' = [hs EXCEPT ![h].pc = "accepted"] ELSE Refuse(h)
  /\ UNCHANGED <<tls, revDB>>

TrustInit ==
  /\ tls \in TlsOptions
  /\ hs = [h \in Handshakes |-> NoHandshake]
  /\ revDB = [k \in CertKeys |-> NoPeer]

TrustNext ==
  \E h \in Handshakes :
    \/ \E p \in Peers, id \in CANodes \cup {NoPeer}, s \in BOOLEAN : Connect(h, p, id, s) \/ ConnectPanics(h, p, id, s)
    \/ revocationUpdater(h) \/ caWhitelistSignedLeafHandler(h) \/ idVersionHandler(h)
    \/ Accept(h)

------------------------------------------------------------------------------

Accepted(h) == hs[h].pc = "accepted"

\* A client that asked for a node talks to it: the peer holds the key of a leaf that
\* the CA with that node's id has signed, and, if there is a whitelist, a listed CA has
\* signed that CA. An accepted peer of a server, or of a client that asked for nobody and has
\* no whitelist, has signed its leaf with its CA's key, or, without a CA, with the leaf's. In
\* whatever order the handlers ran, each extension they are for was agreed to. And only a
\* peer without a CA ends the process
\* (peertls.go:48-86, utils.go:62-82, tls.go:34-91, options.go:144-156, identity.go:184-196).
AcceptedIsTrusted ==
  \A h \in Handshakes :
    LET chain == hs[h].peer.chain
        Shown(id) == id \in DOMAIN NewExtensionsMap(chain)
    IN  /\ hs[h].pc = "panicked" => ~HasCA(chain)
        /\ Accepted(h) =>
             /\ hs[h].peer.key = LeafKey(h)
             /\ chain[LeafIndex].signer = chain[IF HasCA(chain) THEN CAIndex ELSE LeafIndex].key
             /\ hs[h].asked # NoPeer => HasCA(chain) /\ hs[h].asked.hash = CAKey(h)
             /\ tls.whitelist # NoPeer /\ ~hs[h].server =>
                  HasCA(chain) /\ chain[CAIndex].signer \in {w.key : w \in tls.whitelist}
             /\ Shown("version") => IDVersionInVersions(ExtValue(h, "version"), tls.PeerIDVersions)
             /\ tls.WhitelistSignedLeaf /\ Shown("signed") =>
                  SignedByListed(ExtValue(h, "signed"), chain[LeafIndex])

\* A peer that shows a revocation is accepted only if its CA has signed it, it is not
\* older than the one that was known when the handshake began, and the database has it or
\* a later one by then, whatever order the handlers run in and whatever other handshakes
\* store meanwhile (options.go:107-112, 144-156, revocations.go:120-125).
RevocationsTaken ==
  \A h \in Handshakes :
    Accepted(h) /\ tls.Revocation /\ HasRevocation(hs[h].peer) =>
      LET rev == RevocationOf(hs[h].peer)
      IN  /\ HasCA(hs[h].peer.chain) /\ rev.signer = CAKey(h)
          /\ hs[h].before # NoPeer => hs[h].before.time <= rev.time
          /\ revDB[CAKey(h)] # NoPeer /\ rev.time <= revDB[CAKey(h)].time

\* revocations.go:22-23: "RevocationCheckHandler ensures that a remote peer's certificate
\* chain doesn't contain any revoked certificates": a handshake that begins when the
\* database has the revocation of the peer's leaf or CA does not accept it
\* (options.go:107-112, 144-156, extensions.go:141-147, revocations.go:87-118).
RevokedRefused ==
  \A h \in Handshakes :
    Accepted(h) /\ tls.Revocation /\ hs[h].before # NoPeer => hs[h].before.key \notin {LeafKey(h), CAKey(h)}
==============================================================================
