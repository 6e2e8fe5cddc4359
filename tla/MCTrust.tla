------------------------------- MODULE MCTrust -------------------------------
(***************************************************************************)
(* How a node proves who it is: its identity and the files it is kept in           *)
(* (Identity), what another node accepts of it (PeerTrust), whom a dialer talks    *)
(* to (Dialer), the messages it signs (Signing), and files that are replaced in    *)
(* one step (AtomicFile). A behaviour is about the part chosen in its initial      *)
(* state, the others stay as they were made.                                       *)
(***************************************************************************)
EXTENDS Identity, PeerTrust, Dialer, Signing, AtomicFile, TLC

VARIABLE about

wholeVars == <<identityVars, trustVars, dialVars, signVars, fileVars, about>>

WholeInit ==
  /\ about \in {"identity", "handshake", "dial", "message", "file"}
  /\ IdentityInit /\ TrustInit /\ DialInit /\ SignInit /\ FileInit
  \* one initial state for the parts a behaviour is not about
  /\ about # "identity" => parent
  /\ about # "dial" => serverAt = CHOOSE s \in [Addresses -> Servers] : TRUE
  /\ about # "handshake" => tls = CHOOSE o \in TlsOptions : TRUE

WholeNext ==
  /\ UNCHANGED about
  /\ \/ about = "identity" /\ IdentityNext /\ UNCHANGED <<trustVars, dialVars, signVars, fileVars>>
     \/ about = "handshake" /\ TrustNext /\ UNCHANGED <<identityVars, dialVars, signVars, fileVars>>
     \/ about = "dial" /\ DialNext /\ UNCHANGED <<identityVars, trustVars, signVars, fileVars>>
     \/ about = "message" /\ SignNext /\ UNCHANGED <<identityVars, trustVars, dialVars, fileVars>>
     \/ about = "file" /\ FileNext /\ UNCHANGED <<identityVars, trustVars, dialVars, signVars>>

TrustSpec == WholeInit /\ [][WholeNext]_wholeVars

------------------------------------------------------------------------------
(* The instance. *)

MCCertKeys == 0 .. 5

\* A root, the CA of a node and its leaves, each of which revokes the one before, the last
\* two in the same second.
LOCAL Root == CreateSelfSignedCertificate(0, <<VersionExt(0)>>, <<>>)
LOCAL CA == CreateCertificate(1, 0, <<VersionExt(0)>>, <<>>)
LOCAL Leaf1 == CreateCertificate(2, 1, <<>>, <<>>)
LOCAL Leaf2 == CreateCertificate(3, 1, <<NewRevocationExt(1, Leaf1, 1)>>, <<>>)
LOCAL Leaf3 == CreateCertificate(4, 1, <<NewRevocationExt(1, Leaf2, 2)>>, <<>>)
LOCAL Leaf4 == CreateCertificate(5, 1, <<NewRevocationExt(1, Leaf3, 2)>>, <<>>)

\* The CA of another node, of a version nobody knows; a leaf of it; the first CA signed by
\* itself, with its own revocation; and the first CA with the root's signature of its leaf.
LOCAL OtherCA == CreateSelfSignedCertificate(2, <<VersionExt(1)>>, <<>>)
LOCAL OtherLeaf == CreateCertificate(3, 2, <<>>, <<>>)
LOCAL RevokedCA == CreateSelfSignedCertificate(1, <<NewRevocationExt(1, CA, 3)>>, <<VersionExt(0)>>)
LOCAL SignedCA == CreateCertificate(1, 0, <<VersionExt(0), SignedExt(0, Leaf1)>>, <<>>)

LOCAL Peer(chain, key) == [chain |-> chain, key |-> key]
MCPeers ==
  { Peer(<<Leaf1, CA, Root>>, 2), Peer(<<Leaf2, CA, Root>>, 3), Peer(<<Leaf3, CA, Root>>, 4),
    Peer(<<Leaf3, CA, Root>>, 3), Peer(<<Leaf4, CA, Root>>, 5), Peer(<<OtherLeaf, OtherCA>>, 3),
    Peer(<<OtherLeaf, CA, Root>>, 3), Peer(<<Leaf2, RevokedCA>>, 3), Peer(<<Root>>, 0),
    Peer(<<Leaf1, SignedCA, Root>>, 2) }

LOCAL Options(whitelist, revocation, signedLeaf, versions) ==
  [whitelist |-> whitelist, Revocation |-> revocation, WhitelistSignedLeaf |-> signedLeaf,
   PeerIDVersions |-> versions]
LOCAL AnyVersion == [kind |-> "any", ranges |-> <<>>]
LOCAL LatestVersion == [kind |-> "latest", ranges |-> <<>>]
MCOptions == { Options({Root}, TRUE, TRUE, LatestVersion), Options(NoPeer, TRUE, FALSE, AnyVersion) }

\* Two nodes, one of them also a host with a certificate for its name; another host
\* that is no node; and a server without TLS.
MCServers ==
  { [id |-> "node1", name |-> "a1", tls |-> TRUE], [id |-> "node2", name |-> Nothing, tls |-> TRUE],
    [id |-> Nothing, name |-> "a2", tls |-> TRUE], [id |-> Nothing, name |-> Nothing, tls |-> FALSE] }

MCNodes == { NodeIDFromKey(1, 0) }

\* Goroutines, handshakes and calls are interchangeable.
MCSymmetry == Permutations(Workers) \cup Permutations(Handshakes) \cup Permutations(Calls)
==============================================================================
