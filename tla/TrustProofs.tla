----------------------------- MODULE TrustProofs -----------------------------
(***************************************************************************)
(* Machine-checked proofs about how a node proves who it is: for any keys,         *)
(* certificates, peers, TLS options, servers and writers, an identity stays what     *)
(* it was made as, a handshake accepts whom it should, a dialer's connections lead    *)
(* to what was asked for, a signature verifies what was signed, and a file is never   *)
(* half written.                                                                   *)
(***************************************************************************)
EXTENDS MCTrust, SeqLemmas

------------------------------------------------------------------------------
(* AtomicFile. *)

WriterPcs == {"idle", "write", "close", "rename", "return", "cleanup", "ok", "failed", "gone"}
TempStates == {"none", "empty", "cut", "whole", "renamed"}

\* What is about to be renamed has been written and closed without an error; a rename that
\* was done is followed by the return only.
AtomicFileInv ==
  /\ out \in [by : FileWriters \cup {NoData}, state : TempStates]
  /\ temp \in [FileWriters -> TempStates] /\ wrPc \in [FileWriters -> WriterPcs]
  /\ acked \subseteq FileWriters
  /\ \A w \in FileWriters : /\ wrPc[w] \in {"close", "rename"} => temp[w] = "whole"
                            /\ wrPc[w] = "return" => temp[w] = "renamed" /\ out.by # NoData
  /\ FileWhole

\* A file nobody has written yet is as it was.
LEMMA FileStart == FileInit => AtomicFileInv
BY DEF FileInit, AtomicFileInv, FileWhole, WriterPcs, TempStates

\* Every step of a writer, failed or not, and the end of the process keep the file whole.
LEMMA FileStep == AtomicFileInv /\ [FileNext]_fileVars => AtomicFileInv'
<1> SUFFICES ASSUME AtomicFileInv, [FileNext]_fileVars PROVE AtomicFileInv'
  OBVIOUS
<1> USE DEF AtomicFileInv, FileWhole, WriterPcs, TempStates
<1>1. CASE UNCHANGED fileVars
  BY <1>1 DEF fileVars
<1>2. ASSUME NEW w \in FileWriters, TempFile(w) PROVE AtomicFileInv'
  BY <1>2 DEF TempFile, WriteTo
<1>3. ASSUME NEW w \in FileWriters, WriteTemp(w) PROVE AtomicFileInv'
  BY <1>3 DEF WriteTemp, WriteTo
<1>4. ASSUME NEW w \in FileWriters, CloseTemp(w) PROVE AtomicFileInv'
  BY <1>4 DEF CloseTemp, WriteTo
<1>5. ASSUME NEW w \in FileWriters, Rename(w) PROVE AtomicFileInv'
  BY <1>5, FileAssumption DEF Rename, WriteTo
<1>6. ASSUME NEW w \in FileWriters, RemoveTemp(w) PROVE AtomicFileInv'
  BY <1>6 DEF RemoveTemp, WriteTo
<1>7. ASSUME NEW w \in FileWriters, ReturnDone(w) PROVE AtomicFileInv'
  BY <1>7 DEF ReturnDone, WriteTo
<1>8. CASE WriterCrash
  BY <1>8 DEF WriterCrash
<1> QED
  BY <1>1, <1>2, <1>3, <1>4, <1>5, <1>6, <1>7, <1>8 DEF FileNext

------------------------------------------------------------------------------
(* Dialer. *)

PoolKeys == [kind : {"node", "insecure", "hostname", "unencrypted"}, of : DialNodes \cup Addresses]
Conns == [n : Nat, server : Servers, encrypted : BOOLEAN]
MaybeTLS == DialerTLS \cup {Nothing}

\* What calls with a key ask for.
Asked(key) ==
  CASE key.kind = "node" -> {Verification("id", key.of)}
    [] key.kind = "insecure" -> {Verification("any", Nothing)}
    [] key.kind = "hostname" -> {Verification("host", n) : n \in HostNames(key.of)}
    [] OTHER -> {Verification("none", Nothing)}

ConnOK(verify, conn) ==
  IF verify.by = "none" THEN ~conn.encrypted ELSE conn.encrypted /\ HandshakeOK(verify, conn.server)

\* A connection under a key leads to a peer that one of its calls asked for.
KeyOK(key, conn) == \E v \in Asked(key) : ConnOK(v, conn)

CallRecords ==
  [pc : {"idle", "get", "dialing", "using", "open"}, key : PoolKeys \cup {Nothing}, tls : MaybeTLS,
   address : Addresses \cup {Nothing}, verify : (UNION {Asked(k) : k \in PoolKeys}) \cup {Nothing},
   conn : Conns \cup {Nothing}]

DialTypeOK ==
  /\ made \in Nat /\ serverAt \in [Addresses -> Servers]
  /\ pool \subseteq [key : PoolKeys, tls : MaybeTLS, conn : Conns]
  /\ calls \in [Calls -> CallRecords]

\* A call asks for what its key stands for; a connection that is used or pooled under a key
\* leads to such a peer.
KeysInv ==
  /\ \A c \in Calls : calls[c].pc # "idle" =>
       /\ calls[c].key \in PoolKeys /\ calls[c].address \in Addresses /\ calls[c].verify \in Asked(calls[c].key)
       /\ calls[c].key.kind = "hostname" => calls[c].key.of = calls[c].address
  /\ \A c \in Using : calls[c].conn \in Conns /\ KeyOK(calls[c].key, calls[c].conn)
  /\ \A e \in pool : KeyOK(e.key, e.conn)

\* A connection is in one place.
OwnedInv ==
  /\ \A c \in Using : calls[c].conn.n < made
  /\ \A e \in pool : e.conn.n < made
  /\ \A c, d \in Using : calls[c].conn.n = calls[d].conn.n => c = d
  /\ \A e, f \in pool : e.conn.n = f.conn.n => e = f
  /\ \A c \in Using, e \in pool : calls[c].conn.n # e.conn.n

DialInv == DialTypeOK /\ KeysInv /\ OwnedInv

\* Without connections there is nothing to mix up.
LEMMA DialStart == DialInit => DialInv
BY DEF DialInit, DialInv, DialTypeOK, CallRecords, KeysInv, OwnedInv, Using, NoCall, MaybeTLS

\* The invariant says what the dialer promises.
LEMMA DialPromise == DialInv => DialedAsAsked
<1> SUFFICES ASSUME DialInv PROVE DialedAsAsked
  OBVIOUS
<1>1. ASSUME NEW c \in Using
      PROVE  LET conn == calls[c].conn
             IN  CASE calls[c].verify.by = "none" -> ~conn.encrypted
                   [] calls[c].verify.by = "host" -> conn.encrypted /\ conn.server.name \in HostNames(calls[c].address)
                   [] OTHER -> conn.encrypted /\ HandshakeOK(calls[c].verify, conn.server)
  <2> DEFINE key == calls[c].key
             verify == calls[c].verify
             conn == calls[c].conn
  <2>1. /\ key \in PoolKeys /\ verify \in Asked(key) /\ KeyOK(key, conn)
        /\ key.kind = "hostname" => key.of = calls[c].address
    BY DEF DialInv, KeysInv, Using
  <2> HIDE DEF key, verify, conn
  <2>2. PICK v \in Asked(key) : ConnOK(v, conn)
    BY <2>1 DEF KeyOK
  <2>3. CASE key.kind = "hostname"
    <3>1. PICK n \in HostNames(key.of) : v = Verification("host", n)
      BY <2>2, <2>3 DEF Asked
    <3>2. verify.by = "host" /\ v.by = "host" /\ v.name = n
      BY <2>1, <2>3, <3>1 DEF Asked, Verification
    <3>3. conn.encrypted /\ conn.server.name = n
      BY <2>2, <3>2 DEF ConnOK, HandshakeOK
    <3> QED
      BY <2>1, <2>3, <3>2, <3>3 DEF conn, verify
  <2>4. CASE key.kind # "hostname"
    <3>1. v = verify /\ verify.by # "host"
      BY <2>1, <2>2, <2>4 DEF Asked, Verification
    <3> QED
      BY <2>2, <3>1 DEF ConnOK, conn, verify
  <2> QED
    BY <2>3, <2>4
<1>2. \A c, d \in Using : calls[c].conn.n = calls[d].conn.n => c = d
  BY DEF DialInv, OwnedInv
<1> QED
  BY <1>1, <1>2 DEF DialedAsAsked

\* Every way to dial asks for what its key stands for.
LEMMA DialPoolStep ==
  ASSUME DialInv, NEW c \in Calls, NEW key \in PoolKeys, NEW opts \in MaybeTLS, NEW a \in Addresses,
         NEW verify \in Asked(key), DialPool(c, key, opts, a, verify), key.kind = "hostname" => key.of = a
  PROVE  DialInv'
<1> USE DEF DialInv, Using
<1>1. DialTypeOK'
  <2>1. verify \in UNION {Asked(k) : k \in PoolKeys}
    OBVIOUS
  <2> QED
    BY <2>1 DEF DialTypeOK, CallRecords, DialPool
<1>2. KeysInv'
  BY DEF DialTypeOK, CallRecords, KeysInv, DialPool
<1>3. OwnedInv'
  BY DEF DialTypeOK, CallRecords, OwnedInv, DialPool
<1> QED
  BY <1>1, <1>2, <1>3

\* A new connection has been verified as the call asked, and its number is new.
LEMMA ConnectedStep ==
  ASSUME DialInv, NEW c \in Calls, NEW encrypted \in BOOLEAN, calls[c].pc = "dialing",
         KeyOK(calls[c].key, [n |-> made, server |-> serverAt[calls[c].address], encrypted |-> encrypted]),
         Connected(c, encrypted)
  PROVE  DialInv'
<1> DEFINE new == [n |-> made, server |-> serverAt[calls[c].address], encrypted |-> encrypted]
<1>1. new \in Conns /\ new.n = made
  BY DEF DialInv, DialTypeOK, CallRecords, KeysInv, Conns
<1>2. /\ calls' = [calls EXCEPT ![c].pc = "using", ![c].conn = new]
      /\ made' = made + 1 /\ UNCHANGED <<serverAt, pool>> /\ made \in Nat
  BY DEF Connected, DialInv, DialTypeOK, CallRecords
<1>3. KeyOK(calls[c].key, new)
  OBVIOUS
<1> HIDE DEF new
<1> USE DEF DialInv, Using
<1>4. DialTypeOK'
  <2>1. made' \in Nat
    BY <1>2
  <2>2. ASSUME NEW q \in CallRecords PROVE [q EXCEPT !.pc = "using", !.conn = new] \in CallRecords
    BY <1>1 DEF CallRecords
  <2>3. (calls \in [Calls -> CallRecords])'
    BY <1>2, <2>2 DEF DialTypeOK
  <2> QED
    BY <1>2, <2>1, <2>3 DEF DialTypeOK, CallRecords
<1>5. KeysInv'
  BY <1>1, <1>2, <1>3 DEF DialTypeOK, CallRecords, KeysInv
<1>6. OwnedInv'
  <2>1. (\A d \in Using : calls[d].conn.n < made)' /\ (\A e \in pool : e.conn.n < made)'
    BY <1>1, <1>2 DEF DialTypeOK, CallRecords, KeysInv, OwnedInv, Conns
  <2>2. (\A d, e \in Using : calls[d].conn.n = calls[e].conn.n => d = e)'
    BY <1>1, <1>2 DEF DialTypeOK, CallRecords, KeysInv, OwnedInv, Conns
  <2>3. (\A e, f \in pool : e.conn.n = f.conn.n => e = f)'
    BY <1>2 DEF OwnedInv
  <2>4. (\A d \in Using, e \in pool : calls[d].conn.n # e.conn.n)'
    BY <1>1, <1>2 DEF DialTypeOK, CallRecords, KeysInv, OwnedInv, Conns
  <2> QED
    BY <2>1, <2>2, <2>3, <2>4 DEF OwnedInv
<1> QED
  BY <1>4, <1>5, <1>6

\* Every step of a dialer, of the pool and of the network keeps it.
LEMMA DialStep == DialInv /\ [DialNext]_dialVars => DialInv'
<1> SUFFICES ASSUME DialInv, [DialNext]_dialVars PROVE DialInv'
  OBVIOUS
<1> USE DEF DialInv, Using
<1>1. CASE UNCHANGED dialVars
  BY <1>1 DEF dialVars, DialTypeOK, CallRecords, KeysInv, OwnedInv
<1>2. ASSUME NEW c \in Calls, NEW a \in Addresses, NEW opts \in MaybeTLS, NEW id \in DialNodes, DialNodeURL(c, opts, id, a)
      PROVE  DialInv'
  <2>1. PoolKey("node", id) \in PoolKeys /\ Verification("id", id) \in Asked(PoolKey("node", id)) /\ PoolKey("node", id).kind # "hostname"
    BY DEF PoolKeys, PoolKey, Asked
  <2> QED
    BY <1>2, <2>1, DialPoolStep DEF DialNodeURL
<1>3. ASSUME NEW c \in Calls, NEW a \in Addresses, NEW opts \in MaybeTLS, DialAddressInsecure(c, opts, a)
      PROVE  DialInv'
  <2>1. PoolKey("insecure", a) \in PoolKeys /\ Verification("any", Nothing) \in Asked(PoolKey("insecure", a)) /\ PoolKey("insecure", a).kind # "hostname"
    BY DEF PoolKeys, PoolKey, Asked
  <2> QED
    BY <1>3, <2>1, DialPoolStep DEF DialAddressInsecure
<1>4. ASSUME NEW c \in Calls, NEW a \in Addresses, NEW name \in ServerNames \cup {Nothing},
             DialAddressHostnameVerification(c, name, a)
      PROVE  DialInv'
  <2> DEFINE host == IF name # Nothing THEN name ELSE a
             key == PoolKey("hostname", a)
  <2>1. host \in HostNames(a)
    BY <1>4 DEF DialAddressHostnameVerification, HostNames
  <2>2. key \in PoolKeys /\ key.kind = "hostname" /\ key.of = a
    BY DEF PoolKeys, PoolKey
  <2>3. Verification("host", host) \in Asked(key)
    BY <2>1, <2>2 DEF Asked
  <2> QED
    BY <1>4, <2>2, <2>3, DialPoolStep DEF DialAddressHostnameVerification, MaybeTLS
<1>5. ASSUME NEW c \in Calls, NEW a \in Addresses, DialAddressUnencrypted(c, a) PROVE DialInv'
  <2>1. PoolKey("unencrypted", a) \in PoolKeys /\ Verification("none", Nothing) \in Asked(PoolKey("unencrypted", a)) /\ PoolKey("unencrypted", a).kind # "hostname"
    BY DEF PoolKeys, PoolKey, Asked
  <2> QED
    BY <1>5, <2>1, DialPoolStep DEF DialAddressUnencrypted, MaybeTLS
<1>6. ASSUME NEW c \in Calls, GetPooled(c) PROVE DialInv'
  <2>1. PICK e \in pool : /\ e.key = calls[c].key /\ e.tls = calls[c].tls
                          /\ calls' = [calls EXCEPT ![c].pc = "using", ![c].conn = e.conn] /\ pool' = pool \ {e}
    BY <1>6 DEF GetPooled, Matching
  <2>2. calls[c].pc = "get" /\ UNCHANGED <<serverAt, made>> /\ e.conn \in Conns
    BY <1>6, <2>1 DEF GetPooled, DialTypeOK, CallRecords
  <2>3. DialTypeOK'
    BY <2>1, <2>2, ZenonT(30) DEF DialTypeOK, CallRecords
  <2>4. KeysInv'
    BY <2>1, <2>2 DEF DialTypeOK, CallRecords, KeysInv
  <2>5. OwnedInv'
    BY <2>1, <2>2 DEF DialTypeOK, CallRecords, OwnedInv
  <2> QED
    BY <2>3, <2>4, <2>5
<1>7. ASSUME NEW c \in Calls, GetNone(c) \/ Invoke(c) PROVE DialInv'
  BY <1>7 DEF GetNone, Invoke, DialTypeOK, CallRecords, KeysInv, OwnedInv
<1>8. ASSUME NEW c \in Calls, DialEncryptedConn(c) PROVE DialInv'
  <2>1. KeyOK(calls[c].key, [n |-> made, server |-> serverAt[calls[c].address], encrypted |-> TRUE])
    BY <1>8 DEF DialEncryptedConn, ConnOK, KeyOK, KeysInv
  <2> QED
    BY <1>8, <2>1, ConnectedStep DEF DialEncryptedConn
<1>9. ASSUME NEW c \in Calls, DialUnencryptedConn(c) PROVE DialInv'
  <2>1. KeyOK(calls[c].key, [n |-> made, server |-> serverAt[calls[c].address], encrypted |-> FALSE])
    BY <1>9 DEF DialUnencryptedConn, ConnOK, KeyOK, KeysInv
  <2> QED
    BY <1>9, <2>1, ConnectedStep DEF DialUnencryptedConn
<1>10. ASSUME NEW c \in Calls, DialFails(c) \/ CloseCall(c) PROVE DialInv'
  BY <1>10 DEF DialFails, CloseCall, NoCall, MaybeTLS, DialTypeOK, CallRecords, KeysInv, OwnedInv
<1>11. ASSUME NEW c \in Calls, PutBack(c) PROVE DialInv'
  <2> DEFINE entry == [key |-> calls[c].key, tls |-> calls[c].tls, conn |-> calls[c].conn]
  <2>1. calls[c].pc = "using" /\ pool' = pool \cup {entry} /\ UNCHANGED <<serverAt, made>>
    BY <1>11 DEF PutBack
  <2>2. /\ entry \in [key : PoolKeys, tls : MaybeTLS, conn : Conns]
        /\ KeyOK(entry.key, entry.conn) /\ entry.conn = calls[c].conn
    BY <2>1 DEF DialTypeOK, CallRecords, KeysInv
  <2>3. calls' = [calls EXCEPT ![c] = NoCall] \/ calls' = [calls EXCEPT ![c].pc = "open", ![c].conn = Nothing]
    BY <1>11 DEF PutBack
  <2> HIDE DEF entry
  <2>4. DialTypeOK'
    BY <2>1, <2>2, <2>3 DEF DialTypeOK, CallRecords, NoCall, MaybeTLS
  <2>5. KeysInv'
    BY <2>1, <2>2, <2>3 DEF DialTypeOK, CallRecords, KeysInv, NoCall
  <2>6. OwnedInv'
    BY <2>1, <2>2, <2>3 DEF DialTypeOK, CallRecords, OwnedInv, NoCall
  <2> QED
    BY <2>4, <2>5, <2>6
<1>12. CASE Evict
  BY <1>12 DEF Evict, DialTypeOK, CallRecords, KeysInv, OwnedInv
<1>13. CASE Move
  BY <1>13 DEF Move, DialTypeOK, CallRecords, KeysInv, OwnedInv
<1> QED
  BY <1>1, <1>2, <1>3, <1>4, <1>5, <1>6, <1>7, <1>8, <1>9, <1>10, <1>11, <1>12, <1>13 DEF DialNext, MaybeTLS

------------------------------------------------------------------------------
(* PeerTrust. *)

Revocations == {RevocationOf(p) : p \in {q \in Peers : HasRevocation(q)}}
HandshakeRecords ==
  [pc : {"idle", "extensions", "accepted", "panicked"}, peer : Peers \cup {NoPeer}, asked : CANodes \cup {NoPeer},
   server : BOOLEAN, left : SUBSET DOMAIN HandlerID, before : Revocations \cup {NoPeer}]

TrustTypeOK ==
  /\ hs \in [Handshakes -> HandshakeRecords]
  /\ revDB \in [CertKeys -> Revocations \cup {NoPeer}]

Verifying(x) == x.pc \in {"extensions", "accepted"}
Extensions(x) == NewExtensionsMap(x.peer.chain)

\* The peer of a handshake has passed the functions before the extensions, and shows its key
\* before it is accepted; an extension whose handler is not left was agreed to.
VerifiedOK(x) ==
  /\ x.pc = "panicked" => x.peer \in Peers /\ ~HasCA(x.peer.chain)
  /\ Verifying(x) =>
       /\ x.peer \in Peers
       /\ VerifyPeerFunc(x.peer.chain, x.asked, x.server) /\ ~Panics(x.peer.chain, x.asked, x.server)
       /\ "updateRevocation" \in x.left => HasRevocation(x.peer)
       /\ "version" \in DOMAIN Extensions(x) =>
            "idVersion" \in x.left \/ IDVersionInVersions(Extensions(x)["version"].value, tls.PeerIDVersions)
       /\ tls.WhitelistSignedLeaf /\ "signed" \in DOMAIN Extensions(x) =>
            "signedLeaf" \in x.left \/ SignedByListed(Extensions(x)["signed"].value, x.peer.chain[LeafIndex])
       /\ x.pc = "accepted" => x.left = {} /\ x.peer.key = x.peer.chain[LeafIndex].key

\* The database moves on in time; a peer whose own revocation has been handled has it stored,
\* and was not revoked later than that when the handshake began.
StoredOK(x, db) ==
  LET k == x.peer.chain[CAIndex].key
      rev == RevocationOf(x.peer)
  IN  Verifying(x) =>
        /\ x.before # NoPeer =>
             HasCA(x.peer.chain) /\ x.before.time \in Nat /\ db[k] # NoPeer /\ x.before.time <= db[k].time
        /\ tls.Revocation /\ HasRevocation(x.peer) =>
             \/ "updateRevocation" \in x.left
             \/ /\ HasCA(x.peer.chain) /\ rev.signer = k
                /\ x.before # NoPeer => x.before.time <= rev.time
                /\ db[k] # NoPeer /\ rev.time <= db[k].time

TrustInv ==
  /\ TrustTypeOK
  /\ \A h \in Handshakes : VerifiedOK(hs[h]) /\ StoredOK(hs[h], revDB)

\* A node that has seen no peer.
LEMMA TrustStart == TrustInit => TrustInv
BY DEF TrustInit, TrustInv, TrustTypeOK, HandshakeRecords, VerifiedOK, StoredOK, Verifying, NoHandshake

\* Revocations have a time.
LEMMA RevocationTime ==
  ASSUME NEW rev \in Revocations
  PROVE  rev # NoPeer /\ rev.time \in Nat
BY PeersAssumption DEF Revocations

\* The map of handlers: the check of revocations is not in it, the update is.
LEMMA HandlersKept ==
  /\ Handlers \subseteq DOMAIN HandlerID /\ "idVersion" \in Handlers
  /\ tls.Revocation => "updateRevocation" \in Handlers
  /\ tls.WhitelistSignedLeaf => "signedLeaf" \in Handlers
<1> DEFINE fs == Factories
<1>1. DOMAIN fs = 1 .. 4
  BY DEF Factories
<1>2. fs[1] = "idVersion" /\ fs[2] = "checkRevocation" /\ fs[3] = "updateRevocation" /\ fs[4] = "signedLeaf"
  BY DEF Factories
<1>3. ASSUME NEW i \in 1 .. 4, Registered(fs[i]), \A k \in 1 .. 4 : k > i => HandlerID[fs[k]] # HandlerID[fs[i]]
      PROVE  fs[i] \in Handlers
  BY <1>1, <1>3 DEF Handlers
<1>4. Handlers \subseteq {fs[i] : i \in 1 .. 4}
  BY <1>1 DEF Handlers
<1> HIDE DEF fs
<1>5. Handlers \subseteq DOMAIN HandlerID
  BY <1>2, <1>4 DEF HandlerID
<1>6. "idVersion" \in Handlers
  <2>1. \A k \in 1 .. 4 : k > 1 => HandlerID[fs[k]] # HandlerID[fs[1]]
    BY <1>2 DEF HandlerID
  <2> QED
    BY <1>2, <1>3, <2>1 DEF Registered
<1>7. ASSUME tls.Revocation PROVE "updateRevocation" \in Handlers
  <2>1. \A k \in 1 .. 4 : k > 3 => HandlerID[fs[k]] # HandlerID[fs[3]]
    BY <1>2 DEF HandlerID
  <2>2. Registered(fs[3])
    BY <1>2, <1>7 DEF Registered
  <2> QED
    BY <1>2, <1>3, <2>1, <2>2
<1>8. ASSUME tls.WhitelistSignedLeaf PROVE "signedLeaf" \in Handlers
  <2>1. Registered(fs[4])
    BY <1>2, <1>8 DEF Registered
  <2> QED
    BY <1>2, <1>3, <2>1
<1> QED
  BY <1>5, <1>6, <1>7, <1>8

\* The invariant says whom a handshake accepts.
LEMMA TrustPromise == TrustInv => AcceptedIsTrusted /\ RevocationsTaken
<1> SUFFICES ASSUME TrustInv PROVE AcceptedIsTrusted /\ RevocationsTaken
  OBVIOUS
<1>1. ASSUME NEW h \in Handshakes
      PROVE  VerifiedOK(hs[h]) /\ StoredOK(hs[h], revDB)
  BY DEF TrustInv
<1>2. ASSUME NEW h \in Handshakes, hs[h].pc = "panicked" PROVE ~HasCA(hs[h].peer.chain)
  BY <1>1, <1>2 DEF VerifiedOK
<1>3. ASSUME NEW h \in Handshakes, Accepted(h)
      PROVE  /\ hs[h].peer.chain[LeafIndex].signer =
                  hs[h].peer.chain[IF HasCA(hs[h].peer.chain) THEN CAIndex ELSE LeafIndex].key
             /\ hs[h].asked # NoPeer => HasCA(hs[h].peer.chain) /\ hs[h].asked.hash = CAKey(h)
             /\ tls.whitelist # NoPeer /\ ~hs[h].server =>
                  HasCA(hs[h].peer.chain) /\ hs[h].peer.chain[CAIndex].signer \in {w.key : w \in tls.whitelist}
  <2> DEFINE chain == hs[h].peer.chain
             asked == hs[h].asked
             server == hs[h].server
  <2>1. hs[h].peer \in Peers /\ VerifyPeerFunc(chain, asked, server) /\ ~Panics(chain, asked, server)
    BY <1>1, <1>3 DEF VerifiedOK, Verifying, Accepted
  <2>2. DOMAIN chain = 1 .. Len(chain) /\ Len(chain) \in Nat /\ Len(chain) >= LeafIndex
    BY <2>1, PeersAssumption
  <2> HIDE DEF chain, asked, server
  <2>3. chain[LeafIndex].signer = chain[IF HasCA(chain) THEN CAIndex ELSE LeafIndex].key
    <3>1. /\ LeafIndex \in DOMAIN chain /\ LeafIndex = 1 /\ LeafIndex + 1 = CAIndex
          /\ LeafIndex < Len(chain) <=> HasCA(chain)
      BY <2>2 DEF LeafIndex, CAIndex, HasCA
    <3>2. verifyCertSignature(chain[IF LeafIndex < Len(chain) THEN LeafIndex + 1 ELSE LeafIndex], chain[LeafIndex])
      BY <2>1, <3>1 DEF VerifyPeerFunc, verifyChainSignatures
    <3> QED
      BY <3>1, <3>2 DEF verifyCertSignature
  <2>4. ASSUME asked # NoPeer PROVE HasCA(chain) /\ asked.hash = chain[CAIndex].key
    <3>1. HasCA(chain) /\ verifyIdentity(asked, chain)
      BY <2>1, <2>4 DEF VerifyPeerFunc, Panics
    <3> QED
      BY <3>1 DEF verifyIdentity, PeerIdentityFromChain, NodeIDFromCert, NodeIDFromKey
  <2>5. ASSUME tls.whitelist # NoPeer, ~server
        PROVE  HasCA(chain) /\ chain[CAIndex].signer \in {w.key : w \in tls.whitelist}
    <3>1. VerifyCAWhitelist(tls.whitelist, chain)
      BY <2>1, <2>5 DEF VerifyPeerFunc
    <3>2. tls.whitelist # {}
      BY <3>1 DEF VerifyCAWhitelist
    <3> QED
      BY <2>1, <2>5, <3>1, <3>2 DEF VerifyPeerFunc, Panics, VerifyCAWhitelist, verifyCertSignature
  <2> QED
    BY <2>3, <2>4, <2>5 DEF chain, asked, server, CAKey
<1>4. ASSUME NEW h \in Handshakes, Accepted(h)
      PROVE  /\ hs[h].peer.key = LeafKey(h)
             /\ "version" \in DOMAIN NewExtensionsMap(hs[h].peer.chain) =>
                  IDVersionInVersions(ExtValue(h, "version"), tls.PeerIDVersions)
             /\ tls.WhitelistSignedLeaf /\ "signed" \in DOMAIN NewExtensionsMap(hs[h].peer.chain) =>
                  SignedByListed(ExtValue(h, "signed"), hs[h].peer.chain[LeafIndex])
  BY <1>1, <1>4 DEF VerifiedOK, Verifying, Accepted, LeafKey, ExtValue, Extensions
<1>5. AcceptedIsTrusted
  BY <1>2, <1>3, <1>4 DEF AcceptedIsTrusted
<1>6. ASSUME NEW h \in Handshakes, Accepted(h), tls.Revocation, HasRevocation(hs[h].peer)
      PROVE  /\ HasCA(hs[h].peer.chain) /\ RevocationOf(hs[h].peer).signer = CAKey(h)
             /\ hs[h].before # NoPeer => hs[h].before.time <= RevocationOf(hs[h].peer).time
             /\ revDB[CAKey(h)] # NoPeer /\ RevocationOf(hs[h].peer).time <= revDB[CAKey(h)].time
  BY <1>1, <1>6 DEF VerifiedOK, StoredOK, Verifying, Accepted, CAKey
<1> QED
  BY <1>5, <1>6 DEF RevocationsTaken

\* A handshake that is refused leaves nothing behind, nor does one that ends the process.
LEMMA EmptyOK == VerifiedOK(NoHandshake) /\ (\A db : StoredOK(NoHandshake, db)) /\ NoHandshake \in HandshakeRecords
BY DEF VerifiedOK, StoredOK, Verifying, NoHandshake, HandshakeRecords

\* One handshake changes, the options and the database stay.
LEMMA OneStep ==
  ASSUME NEW h \in Handshakes, NEW x \in HandshakeRecords, VerifiedOK(x), StoredOK(x, revDB),
         hs' = [hs EXCEPT ![h] = x], UNCHANGED <<tls, revDB>>
  PROVE  TrustInv => TrustInv'
<1> SUFFICES ASSUME TrustInv PROVE TrustInv'
  OBVIOUS
<1>1. TrustTypeOK'
  BY DEF TrustInv, TrustTypeOK
<1>2. ASSUME NEW g \in Handshakes PROVE (VerifiedOK(hs[g]) /\ StoredOK(hs[g], revDB))'
  <2> DEFINE y == IF g = h THEN x ELSE hs[g]
  <2>1. hs'[g] = y /\ VerifiedOK(y) /\ StoredOK(y, revDB)
    BY DEF TrustInv, TrustTypeOK
  <2> HIDE DEF y
  <2>2. VerifiedOK(hs[g])'
    BY <2>1 DEF VerifiedOK, VerifyPeerFunc, Panics, SignedByListed, Verifying, Extensions
  <2>3. StoredOK(hs[g], revDB)'
    BY <2>1 DEF StoredOK, Verifying
  <2> QED
    BY <2>2, <2>3
<1> QED
  BY <1>1, <1>2 DEF TrustInv

\* A later revocation in the database leaves what is known of the other handshakes.
LEMMA StoredStays ==
  ASSUME NEW x \in HandshakeRecords, VerifiedOK(x), NEW db, NEW db2,
         \A k \in CertKeys : db[k] # NoPeer =>
           db2[k] # NoPeer /\ db[k].time \in Nat /\ db2[k].time \in Nat /\ db[k].time <= db2[k].time
  PROVE  StoredOK(x, db) => StoredOK(x, db2)
<1> SUFFICES ASSUME StoredOK(x, db), Verifying(x) PROVE StoredOK(x, db2)
  BY DEF StoredOK
<1> DEFINE k == x.peer.chain[CAIndex].key
           rev == RevocationOf(x.peer)
<1>1. x.peer \in Peers
  BY DEF VerifiedOK
<1>2. HasCA(x.peer.chain) => k \in CertKeys
  BY <1>1, PeersAssumption
<1>3. HasRevocation(x.peer) => rev.time \in Nat
  BY <1>1, PeersAssumption
<1>4. /\ x.before # NoPeer =>
           HasCA(x.peer.chain) /\ x.before.time \in Nat /\ db[k] # NoPeer /\ x.before.time <= db[k].time
      /\ tls.Revocation /\ HasRevocation(x.peer) =>
           \/ "updateRevocation" \in x.left
           \/ /\ HasCA(x.peer.chain) /\ rev.signer = k
              /\ x.before # NoPeer => x.before.time <= rev.time
              /\ db[k] # NoPeer /\ rev.time <= db[k].time
  BY DEF StoredOK
<1> HIDE DEF k, rev
<1>5. /\ x.before # NoPeer => db2[k] # NoPeer /\ x.before.time <= db2[k].time
      /\ HasRevocation(x.peer) /\ HasCA(x.peer.chain) /\ db[k] # NoPeer /\ rev.time <= db[k].time =>
           db2[k] # NoPeer /\ rev.time <= db2[k].time
  BY <1>2, <1>3, <1>4
<1> QED
  BY <1>4, <1>5 DEF StoredOK, k, rev

\* A revocation is stored that is signed by the CA of its chain and not older than the one
\* it replaces.
LEMMA StoreStep ==
  ASSUME NEW h \in Handshakes, Handling(h, "updateRevocation"), Put(h), Handled(h, "updateRevocation"), UNCHANGED tls
  PROVE  TrustInv => TrustInv'
<1> SUFFICES ASSUME TrustInv PROVE TrustInv'
  OBVIOUS
<1> DEFINE rev == RevocationOf(hs[h].peer)
           k == CAKey(h)
           y == [hs[h] EXCEPT !.left = @ \ {"updateRevocation"}]
<1>1. hs[h] \in HandshakeRecords /\ VerifiedOK(hs[h]) /\ StoredOK(hs[h], revDB) /\ revDB \in [CertKeys -> Revocations \cup {NoPeer}]
  BY DEF TrustInv, TrustTypeOK
<1>2. hs[h].peer \in Peers /\ HasRevocation(hs[h].peer) /\ hs[h].pc = "extensions"
  BY <1>1 DEF VerifiedOK, Handling, Verifying
<1>3. /\ HasCA(hs[h].peer.chain) /\ rev.signer = k /\ (revDB[k] # NoPeer => revDB[k].time <= rev.time)
      /\ revDB' = [revDB EXCEPT ![k] = rev]
  BY DEF Put, Storable, ExtValue, RevocationOf, RevocationVerifies, CAKey
<1>4. k \in CertKeys /\ rev \in Revocations /\ rev # NoPeer /\ rev.time \in Nat
  BY <1>2, <1>3, PeersAssumption DEF Revocations, CAKey
<1>5. /\ y \in HandshakeRecords /\ y.pc = "extensions" /\ y.peer = hs[h].peer /\ y.asked = hs[h].asked
      /\ y.server = hs[h].server /\ y.before = hs[h].before /\ y.left = hs[h].left \ {"updateRevocation"}
  BY <1>1, <1>2 DEF HandshakeRecords
<1>6. hs' = [hs EXCEPT ![h] = y]
  BY DEF Handled
<1>7. k = y.peer.chain[CAIndex].key /\ rev = RevocationOf(y.peer)
  BY <1>5 DEF CAKey
<1> HIDE DEF rev, k, y
<1>8. revDB' \in [CertKeys -> Revocations \cup {NoPeer}] /\ revDB'[k] = rev
  BY <1>1, <1>3, <1>4
<1>9. ASSUME NEW j \in CertKeys, revDB[j] # NoPeer
      PROVE  revDB'[j] # NoPeer /\ revDB[j].time \in Nat /\ revDB'[j].time \in Nat /\ revDB[j].time <= revDB'[j].time
  <2>1. revDB[j].time \in Nat
    BY <1>1, <1>9, RevocationTime
  <2>2. CASE j = k
    BY <1>3, <1>4, <1>8, <1>9, <2>1, <2>2
  <2>3. CASE j # k
    BY <1>1, <1>3, <1>9, <2>1, <2>3
  <2> QED
    BY <2>2, <2>3
<1>10. TrustTypeOK'
  BY <1>5, <1>6, <1>8 DEF TrustInv, TrustTypeOK
<1>11. VerifiedOK(y)
  BY <1>1, <1>2, <1>5 DEF VerifiedOK, Verifying, Extensions
<1>12. StoredOK(y, revDB')
  <2>1. hs[h].before # NoPeer => hs[h].before.time \in Nat /\ revDB[k] # NoPeer /\ hs[h].before.time <= revDB[k].time
    BY <1>1, <1>2, <1>5, <1>7 DEF StoredOK, Verifying
  <2>2. y.before # NoPeer => y.before.time \in Nat /\ y.before.time <= rev.time
    <3>1. revDB[k] # NoPeer => revDB[k].time \in Nat
      BY <1>4, <1>9
    <3> QED
      BY <1>3, <1>4, <1>5, <2>1, <3>1
  <2>3. rev.time <= rev.time
    BY <1>4
  <2> QED
    BY <1>3, <1>4, <1>5, <1>7, <1>8, <2>2, <2>3 DEF StoredOK, Verifying
<1>13. ASSUME NEW g \in Handshakes PROVE (VerifiedOK(hs[g]) /\ StoredOK(hs[g], revDB))'
  <2> DEFINE z == IF g = h THEN y ELSE hs[g]
  <2>1. hs'[g] = z /\ VerifiedOK(z) /\ z \in HandshakeRecords
    BY <1>5, <1>6, <1>11 DEF TrustInv, TrustTypeOK
  <2>2. StoredOK(z, revDB')
    <3>1. CASE g = h
      BY <1>12, <3>1
    <3>2. CASE g # h
      <4>1. z = hs[g] /\ StoredOK(z, revDB)
        BY <3>2 DEF TrustInv
      <4> QED
        BY <1>9, <2>1, <4>1, StoredStays
    <3> QED
      BY <3>1, <3>2
  <2> HIDE DEF z
  <2>3. VerifiedOK(hs[g])'
    BY <2>1 DEF VerifiedOK, VerifyPeerFunc, Panics, SignedByListed, Verifying, Extensions
  <2>4. StoredOK(hs[g], revDB)'
    BY <2>1, <2>2 DEF StoredOK, Verifying
  <2> QED
    BY <2>3, <2>4
<1> QED
  BY <1>10, <1>13 DEF TrustInv

\* The other handlers agree, or end the handshake.
LEMMA HandledStep ==
  ASSUME NEW h \in Handshakes, NEW f, f # "updateRevocation", Handling(h, f), Handled(h, f), UNCHANGED <<tls, revDB>>,
         f = "idVersion" => IDVersionInVersions(ExtValue(h, "version"), tls.PeerIDVersions),
         f = "signedLeaf" => SignedByListed(ExtValue(h, "signed"), hs[h].peer.chain[LeafIndex])
  PROVE  TrustInv => TrustInv'
<1> SUFFICES ASSUME TrustInv PROVE TrustInv'
  OBVIOUS
<1> DEFINE y == [hs[h] EXCEPT !.left = @ \ {f}]
<1>1. hs[h] \in HandshakeRecords /\ VerifiedOK(hs[h]) /\ StoredOK(hs[h], revDB) /\ hs[h].pc = "extensions"
  BY DEF TrustInv, TrustTypeOK, Handling
<1>2. /\ y \in HandshakeRecords /\ y.pc = "extensions" /\ y.peer = hs[h].peer /\ y.asked = hs[h].asked
      /\ y.server = hs[h].server /\ y.before = hs[h].before /\ y.left = hs[h].left \ {f}
  BY <1>1 DEF HandshakeRecords
<1>3. hs' = [hs EXCEPT ![h] = y]
  BY DEF Handled
<1> HIDE DEF y
<1>4. VerifiedOK(y)
  BY <1>1, <1>2 DEF VerifiedOK, Verifying, Extensions, ExtValue
<1>5. StoredOK(y, revDB)
  BY <1>1, <1>2 DEF StoredOK, Verifying
<1> QED
  BY <1>2, <1>3, <1>4, <1>5, OneStep

\* A handshake that is refused.
LEMMA RefuseStep == ASSUME NEW h \in Handshakes, Refuse(h), UNCHANGED <<tls, revDB>> PROVE TrustInv => TrustInv'
BY EmptyOK, OneStep DEF Refuse

\* Every step of a handshake keeps it, whatever the other handshakes do.
LEMMA TrustStep == TrustInv /\ [TrustNext]_trustVars => TrustInv'
<1> SUFFICES ASSUME TrustInv, [TrustNext]_trustVars PROVE TrustInv'
  OBVIOUS
<1>1. CASE UNCHANGED trustVars
  BY <1>1 DEF trustVars, TrustInv, TrustTypeOK, VerifiedOK, StoredOK, VerifyPeerFunc, Panics, SignedByListed,
              Verifying, Extensions
<1>2. ASSUME NEW h \in Handshakes, NEW p \in Peers, NEW asked \in CANodes \cup {NoPeer}, NEW s \in BOOLEAN,
             Connect(h, p, asked, s)
      PROVE  TrustInv'
  <2> DEFINE k == p.chain[CAIndex].key
             old == IF HasCA(p.chain) THEN revDB[k] ELSE NoPeer
             new == [pc |-> "extensions", peer |-> p, asked |-> asked, server |-> s,
                     left |-> MatchingHandlers(p.chain), before |-> old]
  <2>1. /\ hs' = [hs EXCEPT ![h] = new] /\ UNCHANGED <<tls, revDB>>
        /\ VerifyPeerFunc(p.chain, asked, s) /\ ~Panics(p.chain, asked, s)
    BY <1>2 DEF Connect
  <2>2. HasCA(p.chain) => k \in CertKeys
    BY PeersAssumption
  <2>3. old \in Revocations \cup {NoPeer}
    BY <2>2 DEF TrustInv, TrustTypeOK
  <2>4. old # NoPeer => HasCA(p.chain) /\ old = revDB[k] /\ old.time \in Nat /\ old.time <= old.time
    BY <2>3, RevocationTime
  <2>5. /\ MatchingHandlers(p.chain) \subseteq DOMAIN HandlerID
        /\ tls.Revocation /\ HasRevocation(p) => "updateRevocation" \in MatchingHandlers(p.chain)
        /\ "updateRevocation" \in MatchingHandlers(p.chain) => HasRevocation(p)
        /\ "version" \in DOMAIN NewExtensionsMap(p.chain) => "idVersion" \in MatchingHandlers(p.chain)
        /\ tls.WhitelistSignedLeaf /\ "signed" \in DOMAIN NewExtensionsMap(p.chain) =>
             "signedLeaf" \in MatchingHandlers(p.chain)
    BY HandlersKept DEF MatchingHandlers, HandlerID, HasRevocation
  <2>6. /\ new.pc = "extensions" /\ new.peer = p /\ new.asked = asked /\ new.server = s
        /\ new.left = MatchingHandlers(p.chain) /\ new.before = old /\ new \in HandshakeRecords
    BY <2>3, <2>5 DEF HandshakeRecords
  <2> HIDE DEF new, old
  <2>7. VerifiedOK(new)
    BY <2>1, <2>5, <2>6 DEF VerifiedOK, Verifying, Extensions
  <2>8. StoredOK(new, revDB)
    BY <2>4, <2>5, <2>6 DEF StoredOK, Verifying
  <2> QED
    BY <2>1, <2>6, <2>7, <2>8, OneStep
<1>3. ASSUME NEW h \in Handshakes, NEW p \in Peers, NEW asked \in CANodes \cup {NoPeer}, NEW s \in BOOLEAN,
             ConnectPanics(h, p, asked, s)
      PROVE  TrustInv'
  <2> DEFINE new == [NoHandshake EXCEPT !.pc = "panicked", !.peer = p]
  <2>1. hs' = [g \in Handshakes |-> IF g = h THEN new ELSE NoHandshake] /\ UNCHANGED <<tls, revDB>> /\ ~HasCA(p.chain)
    BY <1>3 DEF ConnectPanics, Panics
  <2>2. new \in HandshakeRecords /\ new.pc = "panicked" /\ new.peer = p
    BY DEF HandshakeRecords, NoHandshake
  <2> HIDE DEF new
  <2>3. TrustTypeOK'
    BY <2>1, <2>2, EmptyOK DEF TrustInv, TrustTypeOK
  <2>4. ASSUME NEW g \in Handshakes PROVE (VerifiedOK(hs[g]) /\ StoredOK(hs[g], revDB))'
    <3>1. hs'[g].pc \in {"idle", "panicked"} /\ (hs'[g].pc = "panicked" => hs'[g].peer = p)
      BY <2>1, <2>2 DEF NoHandshake
    <3> QED
      BY <2>1, <3>1 DEF VerifiedOK, StoredOK, Verifying
  <2> QED
    BY <2>3, <2>4 DEF TrustInv
<1>4. ASSUME NEW h \in Handshakes, revocationUpdater(h) PROVE TrustInv'
  BY <1>4, RefuseStep, StoreStep DEF revocationUpdater
<1>5. ASSUME NEW h \in Handshakes, caWhitelistSignedLeafHandler(h) PROVE TrustInv'
  BY <1>5, RefuseStep, HandledStep DEF caWhitelistSignedLeafHandler
<1>6. ASSUME NEW h \in Handshakes, idVersionHandler(h) PROVE TrustInv'
  BY <1>6, RefuseStep, HandledStep DEF idVersionHandler
<1>7. ASSUME NEW h \in Handshakes, Accept(h) PROVE TrustInv'
  <2>1. CASE Refuse(h)
    BY <1>7, <2>1, RefuseStep DEF Accept
  <2>2. CASE hs' = [hs EXCEPT ![h].pc = "accepted"] /\ hs[h].peer.key = LeafKey(h)
    <3> DEFINE y == [hs[h] EXCEPT !.pc = "accepted"]
    <3>1. /\ hs[h] \in HandshakeRecords /\ VerifiedOK(hs[h]) /\ StoredOK(hs[h], revDB)
          /\ hs[h].pc = "extensions" /\ hs[h].left = {} /\ UNCHANGED <<tls, revDB>>
      BY <1>7 DEF Accept, TrustInv, TrustTypeOK
    <3>2. /\ y \in HandshakeRecords /\ y.pc = "accepted" /\ y.peer = hs[h].peer /\ y.asked = hs[h].asked
          /\ y.server = hs[h].server /\ y.before = hs[h].before /\ y.left = hs[h].left
      BY <3>1 DEF HandshakeRecords
    <3>3. hs' = [hs EXCEPT ![h] = y]
      BY <2>2
    <3> HIDE DEF y
    <3>4. VerifiedOK(y)
      BY <2>2, <3>1, <3>2 DEF VerifiedOK, Verifying, Extensions, LeafKey
    <3>5. StoredOK(y, revDB)
      BY <3>1, <3>2 DEF StoredOK, Verifying
    <3> QED
      BY <3>1, <3>2, <3>3, <3>4, <3>5, OneStep
  <2> QED
    BY <1>7, <2>1, <2>2 DEF Accept
<1> QED
  BY <1>1, <1>2, <1>3, <1>4, <1>5, <1>6, <1>7 DEF TrustNext

------------------------------------------------------------------------------
(* Identity. *)

Files == CAFiles \cup IdFiles
NodeIDs == {NodeIDFromKey(k, 0) : k \in CertKeys}
Generated == genPc \in {"cert", "assemble"}

GenTypeOK ==
  /\ genPc \in {"wait", "cert", "assemble", "done", "failed"} /\ parent \in BOOLEAN
  /\ worker \in [Workers -> [pc : {"gen", "found", "done"}, key : CertKeys \cup {NoCert}]]
  /\ errchan \in Seq({"nil", "err"}) /\ minted \in 0 .. MaxKeys

\* Certificates of a CA: whatever was added to them, the version is the one NewCA set.
CASigner(p, cert) == IF p THEN 0 ELSE cert.key
CARest(p) == IF p THEN <<ParentCert>> ELSE <<>>
CertOK(p, cert) ==
  /\ cert.key \in CertKeys /\ cert.signer = CASigner(p, cert)
  /\ \E S : cert.exts \in Seq(S)
  /\ \E i \in DOMAIN cert.exts : cert.exts[i].id = "version"
  /\ \A i \in DOMAIN cert.exts : cert.exts[i].id = "version" => cert.exts[i].value = 0

\* A goroutine that reports a good key has selected one, and once selected it stays: NewCA
\* reads it without the lock.
SelectedInv ==
  /\ \A w \in Workers : worker[w].pc = "found" => worker[w].key \in CertKeys
  /\ selected # NoCert => selected \in NodeIDs
  /\ Generated \/ (\E i \in DOMAIN errchan : errchan[i] = "nil") => selected # NoCert
  /\ genPc = "assemble" => CertOK(parent, caCert) /\ caCert.key = selected.hash

\* Chains are a CA's certificate, or a leaf and that, and the parent's or nothing; the chain
\* in a file may be the beginning of one.
Rests == {<<>>, <<ParentCert>>}
CAShape(x) == \E r \in Rests : x = <<x[1]>> \o r
IdShape(x) == x = <<x[1]>> \/ \E r \in Rests : x = <<x[1], x[2]>> \o r
FileShape(f, x) == (f = "caCert" => CAShape(x)) /\ (f = "idCert" => IdShape(x))

FilePairs == {<<"caCert", "caKey">>, <<"idCert", "idKey">>}
Item(f, x) == [file |-> f, content |-> x]

CARecord(c) == c = [cert |-> c.cert, key |-> c.key, id |-> c.id, rest |-> c.rest]
IdentRecord(d) == d = [leaf |-> d.leaf, ca |-> d.ca, rest |-> d.rest, key |-> d.key, id |-> d.id]

ShapeInv ==
  /\ ca # NoCert => ca.rest \in Rests /\ CARecord(ca)
  /\ ident # NoCert => ident.rest \in Rests /\ IdentRecord(ident)
  /\ disk = [f \in Files |-> disk[f]]
  /\ \A f \in Files : disk[f].state = "whole" => FileShape(f, disk[f].content)
  /\ \/ saving = <<>>
     \/ \E p \in FilePairs : \E x, k :
          FileShape(p[1], x) /\ saving \in {<<Item(p[1], x), Item(p[2], k)>>, <<Item(p[2], k)>>}

\* What the key file will hold when the Save in progress is done with it.
KeyAfter(kf) == IF Len(saving) = 1 /\ saving[1].file = kf THEN WholeFile(saving[1].content) ELSE disk[kf]

\* Key and certificate in two files, or on their way there, belong together.
PairOK(cf, kf) ==
  /\ disk[cf].state = "whole" /\ KeyAfter(kf).state = "whole" => KeyAfter(kf).content = disk[cf].content[1].key
  /\ Len(saving) = 2 /\ saving[1].file = cf => saving[2].content = saving[1].content[1].key

CAOK(p, c) == CertOK(p, c.cert) /\ c.key = c.cert.key /\ c.id = NodeIDFromKey(c.key, 0) /\ c.rest = CARest(p)
IdentOK(p, cuts, d) ==
  /\ CertOK(p, d.ca) /\ d.leaf.signer = d.ca.key /\ d.id = NodeIDFromKey(d.ca.key, 0)
  /\ "id" \notin cuts => d.rest = CARest(p)

ChainPart(p, f, x) == f = "idCert" => x = <<x[1]>> \/ (CertOK(p, x[2]) /\ x[1].signer = x[2].key)
ChainOK(p, cuts, f, x) ==
  /\ f = "caCert" => CertOK(p, x[1]) /\ x = <<x[1]>> \o CARest(p)
  /\ ChainPart(p, f, x)
  /\ f = "idCert" /\ "id" \notin cuts => CertOK(p, x[2]) /\ x[1].signer = x[2].key /\ x = <<x[1], x[2]>> \o CARest(p)

\* As long as no Save of a CA was cut.
CAInv ==
  "ca" \notin cut =>
    /\ ca # NoCert => CAOK(parent, ca)
    /\ ident # NoCert => IdentOK(parent, cut, ident)
    /\ \A f \in Files : disk[f].state = "whole" => ChainOK(parent, cut, f, disk[f].content)
    /\ Len(saving) = 2 => ChainOK(parent, cut, saving[1].file, saving[1].content)
    /\ PairOK("caCert", "caKey")

\* As long as no Save of an identity was cut and nothing was revoked.
KeyInv ==
  "id" \notin cut /\ ~revoked =>
    /\ ident # NoCert => ident.key = ident.leaf.key
    /\ PairOK("idCert", "idKey")

IdentityInv == GenTypeOK /\ SelectedInv /\ ShapeInv /\ CAInv /\ KeyInv

\* Before the first key is found.
LEMMA IdentityStart == IdentityInit => IdentityInv
<1> SUFFICES ASSUME IdentityInit PROVE IdentityInv
  OBVIOUS
<1> USE DEF IdentityInit
<1>1. GenTypeOK
  BY IdentityAssumption DEF GenTypeOK
<1>2. SelectedInv
  BY DEF SelectedInv, Generated
<1>3. Len(saving) = 0 /\ \A f \in Files : disk[f].state = "none"
  BY DEF NoFile, Files
<1>4. ShapeInv
  BY <1>3 DEF ShapeInv, Files
<1>5. PairOK("caCert", "caKey") /\ PairOK("idCert", "idKey")
  BY <1>3 DEF PairOK, Files, CAFiles, IdFiles
<1> QED
  BY <1>1, <1>2, <1>3, <1>4, <1>5 DEF IdentityInv, CAInv, KeyInv

\* A certificate of a CA has the id of its key.
LEMMA CertOKID ==
  ASSUME NEW cert, CertOK(parent, cert)
  PROVE  NodeIDFromCert(cert) = NodeIDFromKey(cert.key, 0) /\ NodeIDFromCert(cert) # NoCert
<1> DEFINE where == ExtOf(cert, "version")
<1>1. PICK S : cert.exts \in Seq(S)
  BY DEF CertOK
<1>2. where \subseteq Nat /\ where # {}
  BY <1>1 DEF ExtOf, CertOK
<1>3. \E i \in where : \A j \in where : i <= j
  BY <1>2, LeastNat
<1>4. \A i \in where : cert.exts[i].value = 0
  BY DEF ExtOf, CertOK
<1> HIDE DEF where
<1>5. FirstExtOf(cert, "version").value = 0
  BY <1>3, <1>4 DEF FirstExtOf, where
<1>6. IDVersionFromCert(cert) = 0 /\ 0 # NoCert
  BY <1>2, <1>5, CertAssumption, IdentityAssumption DEF IDVersionFromCert, where
<1> QED
  BY <1>6, NodeIDAssumption, CertAssumption DEF NodeIDFromCert, CertOK

\* NewCA's certificate.
LEMMA NewCertOK ==
  ASSUME NEW k \in CertKeys
  PROVE  LET cert == CreateCertificate(k, IF parent THEN 0 ELSE k, <<VersionExt(0)>>, <<>>)
         IN  CertOK(parent, cert) /\ cert.key = k
<1> DEFINE cert == CreateCertificate(k, IF parent THEN 0 ELSE k, <<VersionExt(0)>>, <<>>)
<1>1. <<VersionExt(0)>> \o <<>> = <<VersionExt(0)>>
  OBVIOUS
<1>2. cert.key = k /\ cert.signer = (IF parent THEN 0 ELSE k) /\ cert.exts = <<VersionExt(0)>>
  BY <1>1 DEF CreateCertificate
<1> HIDE DEF cert
<1>3. cert.exts \in Seq({VersionExt(0)}) /\ DOMAIN cert.exts = {1} /\ cert.exts[1] = VersionExt(0)
  BY <1>2
<1>4. VersionExt(0).id = "version" /\ VersionExt(0).value = 0
  BY DEF VersionExt
<1>5. CertOK(parent, cert)
  <2>1. \E S : cert.exts \in Seq(S)
    BY <1>3
  <2> QED
    BY <1>2, <1>3, <1>4, <2>1 DEF CertOK, CASigner
<1> QED
  BY <1>2, <1>5 DEF cert

\* A CA that is signed again with a revocation before its other extensions.
LEMMA RevokedCertOK ==
  ASSUME NEW cert, CertOK(parent, cert), ~parent, NEW e, e.id = "revocation"
  PROVE  LET new == CreateSelfSignedCertificate(cert.key, <<e>>, cert.exts)
         IN  CertOK(parent, new) /\ new.key = cert.key
<1> DEFINE new == CreateSelfSignedCertificate(cert.key, <<e>>, cert.exts)
           old == cert.exts
           exts == <<e>> \o cert.exts
<1>1. new.key = cert.key /\ new.signer = cert.key /\ new.exts = exts
  BY DEF CreateSelfSignedCertificate, CreateCertificate
<1>2. PICK S : old \in Seq(S)
  BY DEF CertOK
<1>3. <<e>> \in Seq(S \cup {e}) /\ old \in Seq(S \cup {e}) /\ Len(<<e>>) = 1
  BY <1>2
<1>4. exts \in Seq(S \cup {e}) /\ Len(exts) = 1 + Len(old) /\ exts[1] = e /\ \A i \in 1 .. Len(old) : exts[i + 1] = old[i]
  <2>1. \A i \in 1 .. 1 + Len(old) : exts[i] = IF i <= 1 THEN <<e>>[i] ELSE old[i - 1]
    BY <1>3, ConcatProperties
  <2>2. exts \in Seq(S \cup {e}) /\ Len(exts) = 1 + Len(old)
    BY <1>3, ConcatProperties
  <2>3. Len(old) \in Nat
    BY <1>2
  <2> HIDE DEF exts, old
  <2> QED
    BY <2>1, <2>2, <2>3
<1>5. Len(old) \in Nat /\ DOMAIN old = 1 .. Len(old) /\ DOMAIN exts = 1 .. Len(old) + 1
  BY <1>2, <1>4
<1>6. cert.key \in CertKeys /\ (\E i \in DOMAIN old : old[i].id = "version")
      /\ \A i \in DOMAIN old : old[i].id = "version" => old[i].value = 0
  BY DEF CertOK
<1> HIDE DEF new, old, exts
<1>7. \E i \in DOMAIN exts : exts[i].id = "version"
  <2>1. PICK i \in 1 .. Len(old) : old[i].id = "version"
    BY <1>5, <1>6
  <2>2. i + 1 \in DOMAIN exts /\ exts[i + 1].id = "version"
    BY <1>4, <1>5, <2>1
  <2> QED
    BY <2>2
<1>8. ASSUME NEW i \in DOMAIN exts, exts[i].id = "version" PROVE exts[i].value = 0
  <2>1. i # 1
    BY <1>4, <1>8
  <2>2. i - 1 \in 1 .. Len(old) /\ i = (i - 1) + 1
    BY <1>5, <2>1
  <2>3. exts[i] = old[i - 1]
    BY <1>4, <2>2
  <2> QED
    BY <1>5, <1>6, <1>8, <2>2, <2>3
<1>9. CertOK(parent, new)
  BY <1>1, <1>4, <1>6, <1>7, <1>8 DEF CertOK, CASigner
<1> QED
  BY <1>1, <1>9 DEF new

\* Chains are short, and every one has its elements in order.
LEMMA ConcatPair == ASSUME NEW a, NEW c PROVE <<a>> \o <<c>> = <<a, c>>
<1>1. <<a>> \in Seq({a, c}) /\ <<c>> \in Seq({a, c})
  OBVIOUS
<1>2. <<a>> \o <<c>> \in Seq({a, c}) /\ Len(<<a>> \o <<c>>) = 2
  BY <1>1
<1>3. \A i \in 1 .. 2 : (<<a>> \o <<c>>)[i] = <<a, c>>[i]
  OBVIOUS
<1>4. <<a, c>> \in Seq({a, c}) /\ Len(<<a, c>>) = 2
  OBVIOUS
<1> QED
  BY <1>2, <1>3, <1>4, SeqEqual

\* The same for three certificates.
LEMMA ConcatTriple == ASSUME NEW a, NEW b, NEW c PROVE <<a, b>> \o <<c>> = <<a, b, c>>
<1>1. <<a, b>> \in Seq({a, b, c}) /\ <<c>> \in Seq({a, b, c})
  OBVIOUS
<1>2. <<a, b>> \o <<c>> \in Seq({a, b, c}) /\ Len(<<a, b>> \o <<c>>) = 3
  BY <1>1
<1>3. \A i \in 1 .. 3 : (<<a, b>> \o <<c>>)[i] = <<a, b, c>>[i]
  OBVIOUS
<1>4. <<a, b, c>> \in Seq({a, b, c}) /\ Len(<<a, b, c>>) = 3
  OBVIOUS
<1> QED
  BY <1>2, <1>3, <1>4, SeqEqual

\* The beginning of a sequence.
LEMMA Beginning ==
  ASSUME NEW S, NEW s \in Seq(S), NEW n \in 1 .. Len(s), NEW q \in Seq(S), Len(q) = n, \A i \in 1 .. n : q[i] = s[i]
  PROVE  SubSeq(s, 1, n) = q
<1>1. SubSeq(s, 1, n) \in Seq(S) /\ Len(SubSeq(s, 1, n)) = n /\ \A i \in 1 .. n : SubSeq(s, 1, n)[i] = s[i]
  OBVIOUS
<1> QED
  BY <1>1, SeqEqual

\* The chain of a CA is its certificate and the rest; the beginning of it is the certificate.
LEMMA CAChainParts ==
  ASSUME NEW cert, NEW r \in Rests
  PROVE  LET chain == <<cert>> \o r
         IN  /\ chain # <<>> /\ chain[1] = cert /\ Head(chain) = cert /\ Tail(chain) = r
             /\ \A n \in 1 .. Len(chain) - 1 : SubSeq(chain, 1, n) = <<cert>>
<1> DEFINE chain == <<cert>> \o r
<1>1. CASE r = <<ParentCert>>
  <2>1. chain = <<cert, ParentCert>>
    BY <1>1, ConcatPair
  <2> HIDE DEF chain
  <2>2. Tail(chain) = <<ParentCert>> /\ chain # <<>> /\ chain[1] = cert /\ Head(chain) = cert /\ Len(chain) = 2
    BY <2>1
  <2>3. SubSeq(chain, 1, 1) = <<cert>>
    <3> DEFINE S == {cert, ParentCert}
               q == <<cert>>
    <3>1. chain \in Seq(S) /\ q \in Seq(S) /\ Len(q) = 1 /\ 1 \in 1 .. Len(chain) /\ \A i \in 1 .. 1 : q[i] = chain[i]
      BY <2>1
    <3> HIDE DEF S, q
    <3>2. SubSeq(chain, 1, 1) = q
      BY <3>1, Beginning
    <3> QED
      BY <3>2 DEF q
  <2> QED
    BY <1>1, <2>2, <2>3 DEF chain
<1>2. CASE r = <<>>
  <2>1. chain = <<cert>>
    BY <1>2
  <2> HIDE DEF chain
  <2>2. Tail(chain) = <<>> /\ chain # <<>> /\ chain[1] = cert /\ Head(chain) = cert /\ Len(chain) = 1
    BY <2>1
  <2> QED
    BY <1>2, <2>2 DEF chain
<1> QED
  BY <1>1, <1>2 DEF Rests

\* The chain of an identity is its leaf, the certificate of the CA and the rest; the beginning
\* of it is the leaf, or the leaf and that certificate.
LEMMA IdentChainParts ==
  ASSUME NEW leaf, NEW cert, NEW r \in Rests
  PROVE  LET chain == <<leaf, cert>> \o r
         IN  /\ ~(Len(chain) < 2) /\ chain[1] = leaf /\ chain[2] = cert /\ Tail(Tail(chain)) = r /\ chain # <<leaf>>
             /\ \A n \in 1 .. Len(chain) - 1 : SubSeq(chain, 1, n) \in {<<leaf>>, <<leaf, cert>>}
<1> DEFINE chain == <<leaf, cert>> \o r
<1>1. CASE r = <<ParentCert>>
  <2>1. chain = <<leaf, cert, ParentCert>>
    BY <1>1, ConcatTriple
  <2> HIDE DEF chain
  <2>2. Tail(<<leaf, cert, ParentCert>>) = <<cert, ParentCert>> /\ Tail(<<cert, ParentCert>>) = <<ParentCert>>
    OBVIOUS
  <2>3. Len(chain) = 3 /\ chain[1] = leaf /\ chain[2] = cert /\ chain # <<leaf>>
    BY <2>1
  <2>4. SubSeq(chain, 1, 1) = <<leaf>> /\ SubSeq(chain, 1, 2) = <<leaf, cert>>
    <3> DEFINE S == {leaf, cert, ParentCert}
               q == <<leaf>>
               q2 == <<leaf, cert>>
    <3>1. chain \in Seq(S) /\ q \in Seq(S) /\ q2 \in Seq(S) /\ 1 \in 1 .. Len(chain) /\ 2 \in 1 .. Len(chain)
      BY <2>1
    <3>2. Len(q) = 1 /\ (\A i \in 1 .. 1 : q[i] = chain[i]) /\ Len(q2) = 2 /\ \A i \in 1 .. 2 : q2[i] = chain[i]
      BY <2>3
    <3> HIDE DEF S, q, q2
    <3>3. SubSeq(chain, 1, 1) = q
      BY <3>1, <3>2, Beginning
    <3>4. SubSeq(chain, 1, 2) = q2
      BY <3>1, <3>2, Beginning
    <3> QED
      BY <3>3, <3>4 DEF q, q2
  <2>5. Tail(Tail(chain)) = r
    BY <1>1, <2>1, <2>2
  <2>6. \A n \in 1 .. Len(chain) - 1 : n = 1 \/ n = 2
    BY <2>3
  <2> QED
    BY <2>3, <2>4, <2>5, <2>6 DEF chain
<1>2. CASE r = <<>>
  <2>1. chain = <<leaf, cert>>
    BY <1>2
  <2> HIDE DEF chain
  <2>2. Tail(<<leaf, cert>>) = <<cert>> /\ Tail(<<cert>>) = <<>>
    OBVIOUS
  <2>3. Len(chain) = 2 /\ chain[1] = leaf /\ chain[2] = cert /\ chain # <<leaf>>
    BY <2>1
  <2>4. SubSeq(chain, 1, 1) = <<leaf>>
    <3> DEFINE S == {leaf, cert}
               q == <<leaf>>
    <3>1. chain \in Seq(S) /\ q \in Seq(S) /\ Len(q) = 1 /\ 1 \in 1 .. Len(chain) /\ \A i \in 1 .. 1 : q[i] = chain[i]
      BY <2>1
    <3> HIDE DEF S, q
    <3>2. SubSeq(chain, 1, 1) = q
      BY <3>1, Beginning
    <3> QED
      BY <3>2 DEF q
  <2>5. Tail(Tail(chain)) = r
    BY <1>2, <2>1, <2>2
  <2>6. \A n \in 1 .. Len(chain) - 1 : n = 1
    BY <2>3
  <2> QED
    BY <2>3, <2>4, <2>5, <2>6 DEF chain
<1> QED
  BY <1>1, <1>2 DEF Rests

\* The same of a chain in a file, which may be a leaf alone.
LEMMA FileParts ==
  ASSUME NEW f \in {"caCert", "idCert"}, NEW x, FileShape(f, x), NEW n \in 1 .. Len(x) - 1
  PROVE  LET y == SubSeq(x, 1, n)
         IN  /\ FileShape(f, y) /\ y[1] = x[1]
             /\ f = "idCert" => y = <<y[1]>> \/ (y[2] = x[2] /\ x # <<x[1]>>)
<1> DEFINE y == SubSeq(x, 1, n)
           a == x[1]
           b == x[2]
<1>1. CASE f = "caCert"
  <2>1. PICK r \in Rests : x = <<a>> \o r
    BY <1>1 DEF FileShape, CAShape
  <2>2. y = <<a>>
    BY <2>1, CAChainParts
  <2> HIDE DEF y, a, b
  <2>3. y[1] = a /\ y = <<y[1]>> \o <<>> /\ <<>> \in Rests
    BY <2>2 DEF Rests
  <2> QED
    BY <1>1, <2>3 DEF FileShape, CAShape, a, y
<1>2. CASE f = "idCert"
  <2>1. CASE x = <<a>>
    <3>1. Len(x) = 1
      BY <2>1
    <3> QED
      BY <3>1
  <2>2. ASSUME NEW r \in Rests, x = <<a, b>> \o r
        PROVE  y \in {<<a>>, <<a, b>>} /\ x # <<a>>
    <3> HIDE DEF a, b
    <3> DEFINE chain == <<a, b>> \o r
    <3>1. chain # <<a>> /\ \A m \in 1 .. Len(chain) - 1 : SubSeq(chain, 1, m) \in {<<a>>, <<a, b>>}
      BY IdentChainParts
    <3> HIDE DEF chain
    <3>2. x = chain
      BY <2>2 DEF chain
    <3> QED
      BY <3>1, <3>2
  <2>3. CASE y = <<a>>
    <3> HIDE DEF y, a, b
    <3>1. y[1] = a /\ y = <<y[1]>>
      BY <2>3
    <3> QED
      BY <1>2, <3>1 DEF FileShape, IdShape, a, y
  <2>4. CASE y = <<a, b>> /\ x # <<a>>
    <3> HIDE DEF y, a, b
    <3>1. y[1] = a /\ y[2] = b /\ y = <<y[1], y[2]>> \o <<>> /\ <<>> \in Rests
      BY <2>4 DEF Rests
    <3> QED
      BY <1>2, <2>4, <3>1 DEF FileShape, IdShape, a, b, y
  <2> QED
    BY <1>2, <2>1, <2>2, <2>3, <2>4 DEF FileShape, IdShape
<1> QED
  BY <1>1, <1>2

\* The invariant says what an identity stays.
LEMMA IdentityPromise == IdentityInv => IdentityConsistent
<1> SUFFICES ASSUME IdentityInv PROVE IdentityConsistent
  OBVIOUS
<1>1. ASSUME ca # NoCert, "ca" \notin cut
      PROVE  ca.id = NodeIDFromCert(ca.cert) /\ ca.key = ca.cert.key
  BY <1>1, CertOKID DEF IdentityInv, CAInv, CAOK
<1>2. ASSUME ident # NoCert, "ca" \notin cut
      PROVE  /\ ident.id = NodeIDFromCert(ident.ca) /\ ident.leaf.signer = ident.ca.key
             /\ "id" \notin cut => verifyChainSignatures(IdentChain)
  <2>1. IdentOK(parent, cut, ident)
    BY <1>2 DEF IdentityInv, CAInv
  <2>2. ident.id = NodeIDFromCert(ident.ca) /\ ident.leaf.signer = ident.ca.key
    BY <2>1, CertOKID DEF IdentOK
  <2> DEFINE leaf == ident.leaf
             cert == ident.ca
  <2>3. ASSUME "id" \notin cut PROVE verifyChainSignatures(IdentChain)
    <3>1. leaf.signer = cert.key /\ cert.signer = (IF parent THEN 0 ELSE cert.key) /\ IdentChain = <<leaf, cert>> \o CARest(parent)
      BY <2>1, <2>3 DEF IdentOK, CertOK, CASigner, IdentChain
    <3> HIDE DEF leaf, cert
    <3>2. CASE parent
      <4>1. IdentChain = <<leaf, cert, ParentCert>>
        BY <3>1, <3>2, ConcatTriple DEF CARest
      <4>2. cert.signer = ParentCert.key /\ ParentCert.signer = ParentCert.key
        BY <3>1, <3>2 DEF ParentCert, CreateSelfSignedCertificate, CreateCertificate
      <4>3. Len(IdentChain) = 3 /\ DOMAIN IdentChain = {1, 2, 3}
        BY <4>1
      <4>4. IdentChain[1] = leaf /\ IdentChain[2] = cert /\ IdentChain[3] = ParentCert
        BY <4>1
      <4> QED
        BY <3>1, <4>2, <4>3, <4>4 DEF verifyChainSignatures, verifyCertSignature
    <3>3. CASE ~parent
      <4>1. IdentChain = <<leaf, cert>>
        BY <3>1, <3>3 DEF CARest
      <4>2. cert.signer = cert.key
        BY <3>1, <3>3
      <4>3. Len(IdentChain) = 2 /\ DOMAIN IdentChain = {1, 2} /\ IdentChain[1] = leaf /\ IdentChain[2] = cert
        BY <4>1
      <4> QED
        BY <3>1, <4>2, <4>3 DEF verifyChainSignatures, verifyCertSignature
    <3> QED
      BY <3>2, <3>3
  <2> QED
    BY <2>2, <2>3
<1>3. ASSUME ident # NoCert, "id" \notin cut, ~revoked PROVE ident.key = ident.leaf.key
  BY <1>3 DEF IdentityInv, KeyInv
<1> QED
  BY <1>1, <1>2, <1>3 DEF IdentityConsistent

\* The generation of keys leaves CAs, identities and files alone.
LEMMA KeepNode ==
  ASSUME UNCHANGED <<parent, ca, ident, disk, saving, cut, revoked>>
  PROVE  ShapeInv /\ CAInv /\ KeyInv => ShapeInv' /\ CAInv' /\ KeyInv'
<1>1. ShapeInv => ShapeInv'
  BY DEF ShapeInv
<1>2. PairOK("caCert", "caKey") = PairOK("caCert", "caKey")' /\ PairOK("idCert", "idKey") = PairOK("idCert", "idKey")'
  BY DEF PairOK, KeyAfter
<1>3. CAInv => CAInv'
  BY <1>2 DEF CAInv
<1>4. KeyInv => KeyInv'
  BY <1>2 DEF KeyInv
<1> QED
  BY <1>1, <1>3, <1>4

\* The goroutines and GenerateKeys: whatever their order, one key is selected, once.
LEMMA GenerationStep == IdentityInv /\ Generation => IdentityInv'
<1> SUFFICES ASSUME IdentityInv, Generation PROVE IdentityInv'
  OBVIOUS
<1>1. GenTypeOK /\ SelectedInv /\ ShapeInv /\ CAInv /\ KeyInv
  BY DEF IdentityInv
<1>2. ASSUME UNCHANGED <<parent, ca, ident, disk, saving, cut, revoked>>, GenTypeOK', SelectedInv' PROVE IdentityInv'
  BY <1>1, <1>2, KeepNode DEF IdentityInv
<1>3. ASSUME NEW w \in Workers, GenerateKey(w) PROVE IdentityInv'
  <2>1. minted + 1 \in CertKeys /\ minted + 1 \in 0 .. MaxKeys
    BY <1>1, <1>3, IdentityAssumption DEF GenerateKey, GenTypeOK
  <2>2. GenTypeOK'
    BY <1>1, <1>3, <2>1 DEF GenerateKey, GenTypeOK
  <2>3. SelectedInv'
    BY <1>1, <1>3, <2>1 DEF GenerateKey, GenTypeOK, SelectedInv, Generated
  <2> QED
    BY <1>2, <1>3, <2>2, <2>3 DEF GenerateKey, diskVars
<1>4. ASSUME NEW w \in Workers, GenerateFails(w) PROVE IdentityInv'
  <2>1. GenTypeOK'
    BY <1>1, <1>4, SMTT(30) DEF GenerateFails, GenTypeOK, nodeVars
  <2>2. SelectedInv'
    BY <1>1, <1>4 DEF GenerateFails, GenTypeOK, SelectedInv, Generated
  <2> QED
    BY <1>2, <1>4, <2>1, <2>2 DEF GenerateFails, diskVars, nodeVars
<1>5. ASSUME NEW w \in Workers, FoundGood(w) PROVE IdentityInv'
  <2>1. GenTypeOK'
    BY <1>1, <1>5 DEF FoundGood, GenTypeOK, nodeVars
  <2>2. selected' # NoCert /\ selected' \in NodeIDs /\ (selected # NoCert => UNCHANGED selected)
    <3>1. NodeIDFromKey(worker[w].key, 0) \in NodeIDs /\ NodeIDFromKey(worker[w].key, 0) # NoCert
      BY <1>1, <1>5, NodeIDAssumption, CertAssumption DEF FoundGood, SelectedInv, NodeIDs
    <3> QED
      BY <1>1, <1>5, <3>1 DEF FoundGood, SelectKey, SelectedInv
  <2>3. SelectedInv'
    BY <1>1, <1>5, <2>2 DEF FoundGood, GenTypeOK, SelectedInv, Generated
  <2> QED
    BY <1>2, <1>5, <2>1, <2>3 DEF FoundGood, diskVars, nodeVars
<1>6. ASSUME NEW w \in Workers, FoundWeak(w) PROVE IdentityInv'
  <2>1. GenTypeOK'
    BY <1>1, <1>6 DEF FoundWeak, GenTypeOK, nodeVars
  <2>2. SelectedInv'
    BY <1>1, <1>6 DEF FoundWeak, GenTypeOK, SelectedInv, Generated
  <2> QED
    BY <1>2, <1>6, <2>1, <2>2 DEF FoundWeak, diskVars, nodeVars
<1>7. CASE GenerateCancel
  <2>1. GenTypeOK' /\ SelectedInv'
    BY <1>1, <1>7 DEF GenerateCancel, GenTypeOK, SelectedInv, Generated, nodeVars
  <2> QED
    BY <1>2, <1>7, <2>1 DEF GenerateCancel, diskVars, nodeVars
<1>8. CASE GenerateKeys
  <2>1. /\ errchan # <<>> /\ errchan \in Seq({"nil", "err"}) /\ errchan' = Tail(errchan)
        /\ genPc' = IF Head(errchan) = "nil" THEN "cert" ELSE "failed"
        /\ UNCHANGED <<worker, selected, parent, minted>>
    BY <1>1, <1>8 DEF GenerateKeys, GenTypeOK, nodeVars
  <2>2. GenTypeOK'
    BY <1>1, <2>1 DEF GenTypeOK
  <2>3. \A i \in DOMAIN Tail(errchan) : Tail(errchan)[i] = errchan[i + 1] /\ i + 1 \in DOMAIN errchan
    BY <2>1
  <2>4. Head(errchan) = errchan[1] /\ 1 \in DOMAIN errchan
    BY <2>1
  <2>5. SelectedInv'
    BY <1>1, <2>1, <2>3, <2>4 DEF SelectedInv, Generated
  <2> QED
    BY <1>2, <1>8, <2>2, <2>5 DEF GenerateKeys, diskVars, nodeVars
<1>9. CASE NewCACert
  <2>1. GenTypeOK'
    BY <1>1, <1>9 DEF NewCACert, GenTypeOK, nodeVars
  <2>2. PICK k \in CertKeys : selected = NodeIDFromKey(k, 0)
    BY <1>1, <1>9 DEF NewCACert, SelectedInv, Generated, NodeIDs
  <2>3. selected.hash = k
    BY <2>2 DEF NodeIDFromKey
  <2>4. caCert' = CreateCertificate(k, IF parent THEN 0 ELSE k, <<VersionExt(0)>>, <<>>) /\ UNCHANGED <<selected, parent>>
    BY <1>9, <2>3 DEF NewCACert
  <2>5. CertOK(parent, caCert') /\ caCert'.key = k
    BY <2>4, NewCertOK
  <2>6. SelectedInv'
    BY <1>1, <1>9, <2>3, <2>4, <2>5 DEF NewCACert, SelectedInv, Generated
  <2> QED
    BY <1>2, <1>9, <2>1, <2>6 DEF NewCACert, diskVars, nodeVars
<1>10. CASE NewCA
  <2>1. GenTypeOK' /\ SelectedInv'
    BY <1>1, <1>10 DEF NewCA, GenTypeOK, SelectedInv, Generated
  <2> DEFINE new == [cert |-> caCert, key |-> selected.hash, id |-> selected, rest |-> CARest(parent)]
  <2>2. ca' = new /\ UNCHANGED <<parent, ident, disk, saving, cut, revoked>>
    BY <1>10 DEF NewCA, CARest, diskVars
  <2>3. PICK k \in CertKeys : selected = NodeIDFromKey(k, 0)
    BY <1>1, <1>10 DEF NewCA, SelectedInv, Generated, NodeIDs
  <2>4. new.cert = caCert /\ new.key = k /\ new.id = NodeIDFromKey(k, 0) /\ new.rest = CARest(parent)
    BY <2>3 DEF NodeIDFromKey
  <2>5. CertOK(parent, caCert) /\ caCert.key = k
    BY <1>1, <1>10, <2>3 DEF NewCA, SelectedInv, NodeIDFromKey
  <2> HIDE DEF new
  <2>6. CAOK(parent, new) /\ new.rest \in Rests /\ CARecord(new)
    <3>1. CARecord(new)
      BY DEF CARecord, new
    <3> QED
      BY <2>4, <2>5, <3>1 DEF CAOK, Rests, CARest
  <2>7. ShapeInv'
    BY <1>1, <2>2, <2>6 DEF ShapeInv
  <2>8. PairOK("caCert", "caKey") = PairOK("caCert", "caKey")' /\ PairOK("idCert", "idKey") = PairOK("idCert", "idKey")'
    BY <2>2 DEF PairOK, KeyAfter
  <2>9. CAInv'
    BY <1>1, <2>2, <2>6, <2>8 DEF CAInv
  <2>10. KeyInv'
    BY <1>1, <2>2, <2>8 DEF KeyInv
  <2> QED
    BY <2>1, <2>7, <2>9, <2>10 DEF IdentityInv
<1>11. CASE GenerateAgain
  <2>1. GenTypeOK' /\ SelectedInv'
    BY <1>1, <1>11 DEF GenerateAgain, NoGeneration, GenTypeOK, SelectedInv, Generated, nodeVars
  <2> QED
    BY <1>2, <1>11, <2>1 DEF GenerateAgain, diskVars, nodeVars
<1> QED
  BY <1>3, <1>4, <1>5, <1>6, <1>7, <1>8, <1>9, <1>10, <1>11 DEF Generation

\* NewIdentity, Revoke and AddExtension sign with the key of the CA in memory; it is the
\* identity's CA when it has the identity's id.
LEMMA NodeStep == IdentityInv /\ (NewIdentity \/ Revoke \/ RevokeCA \/ AddExtension) => IdentityInv'
<1> SUFFICES ASSUME IdentityInv, NewIdentity \/ Revoke \/ RevokeCA \/ AddExtension PROVE IdentityInv'
  OBVIOUS
<1>1. GenTypeOK /\ SelectedInv /\ ShapeInv /\ CAInv /\ KeyInv
  BY DEF IdentityInv
<1>2. UNCHANGED <<genPc, worker, errchan, selected, caCert, parent, disk, saving, cut>>
  BY DEF NewIdentity, Revoke, RevokeCA, AddExtension, genVars, diskVars
<1>3. minted' \in 0 .. MaxKeys
  BY <1>1, IdentityAssumption DEF GenTypeOK, NewIdentity, Revoke, RevokeCA, AddExtension, CanMint
<1>4. GenTypeOK'
  BY <1>1, <1>2, <1>3 DEF GenTypeOK
<1>5. SelectedInv'
  BY <1>1, <1>2 DEF SelectedInv, Generated
<1>6. PairOK("caCert", "caKey") = PairOK("caCert", "caKey")' /\ PairOK("idCert", "idKey") = PairOK("idCert", "idKey")'
  BY <1>2 DEF PairOK, KeyAfter
<1>7. ASSUME ca' # NoCert => ca'.rest \in Rests /\ CARecord(ca') /\ ("ca" \notin cut => CAOK(parent, ca')),
             ident' # NoCert => ident'.rest \in Rests /\ IdentRecord(ident') /\ ("ca" \notin cut => IdentOK(parent, cut, ident')),
             ~revoked' => ~revoked,
             "id" \notin cut /\ ~revoked' /\ ident' # NoCert => ident'.key = ident'.leaf.key
      PROVE  IdentityInv'
  <2>1. ShapeInv'
    BY <1>1, <1>2, <1>7 DEF ShapeInv
  <2>2. CAInv'
    BY <1>1, <1>2, <1>6, <1>7 DEF CAInv
  <2>3. KeyInv'
    BY <1>1, <1>2, <1>6, <1>7 DEF KeyInv
  <2> QED
    BY <1>4, <1>5, <2>1, <2>2, <2>3 DEF IdentityInv
<1>8. CASE NewIdentity
  <2> DEFINE new == [leaf |-> LeafWith(<<>>), ca |-> ca.cert, rest |-> ca.rest, key |-> minted + 1, id |-> ca.id]
  <2>1. ca # NoCert /\ ident' = new /\ UNCHANGED <<ca, revoked>>
    BY <1>8 DEF NewIdentity, CanMint
  <2>2. new.leaf.signer = ca.key /\ new.leaf.key = new.key /\ new.ca = ca.cert /\ new.rest = ca.rest /\ new.id = ca.id
    BY DEF LeafWith, CreateCertificate
  <2>6. IdentRecord(new)
    BY DEF IdentRecord
  <2> HIDE DEF new
  <2>3. new.rest \in Rests /\ ca.rest \in Rests /\ CARecord(ca)
    BY <1>1, <2>1, <2>2 DEF ShapeInv
  <2>4. "ca" \notin cut => CAOK(parent, ca)
    BY <1>1, <2>1 DEF CAInv
  <2>5. "ca" \notin cut => IdentOK(parent, cut, new)
    BY <2>2, <2>4 DEF CAOK, IdentOK
  <2> QED
    BY <1>7, <2>1, <2>2, <2>3, <2>4, <2>5, <2>6
<1>9. ASSUME NEW leaf, leaf.signer = ca.key, Manageable, ident' = [ident EXCEPT !.leaf = leaf], UNCHANGED ca,
             revoked' = TRUE \/ (UNCHANGED revoked /\ leaf.key = ident.leaf.key)
      PROVE  IdentityInv'
  <2> DEFINE new == [ident EXCEPT !.leaf = leaf]
  <2>1. ident = [leaf |-> ident.leaf, ca |-> ident.ca, rest |-> ident.rest, key |-> ident.key, id |-> ident.id]
    BY <1>1, <1>9 DEF ShapeInv, Manageable, IdentRecord
  <2>2. new.leaf = leaf /\ new.ca = ident.ca /\ new.rest = ident.rest /\ new.key = ident.key /\ new.id = ident.id
    BY <2>1
  <2>8. IdentRecord(new)
    BY <2>1 DEF IdentRecord
  <2> HIDE DEF new
  <2>3. ca # NoCert /\ ident # NoCert /\ ca.id = ident.id
    BY <1>9 DEF Manageable
  <2>4. new.rest \in Rests /\ ca.rest \in Rests /\ CARecord(ca)
    BY <1>1, <2>2, <2>3 DEF ShapeInv
  <2>5. ASSUME "ca" \notin cut PROVE CAOK(parent, ca) /\ IdentOK(parent, cut, new)
    <3>1. CAOK(parent, ca) /\ IdentOK(parent, cut, ident)
      BY <1>1, <2>3, <2>5 DEF CAInv
    <3>2. ca.key = ident.ca.key
      <4>1. NodeIDFromKey(ca.key, 0) = NodeIDFromKey(ident.ca.key, 0)
        BY <2>3, <3>1 DEF CAOK, IdentOK
      <4>2. NodeIDFromKey(ca.key, 0).hash = ca.key /\ NodeIDFromKey(ident.ca.key, 0).hash = ident.ca.key
        BY DEF NodeIDFromKey
      <4> QED
        BY <4>1, <4>2
    <3>3. IdentOK(parent, cut, new)
      BY <1>9, <2>2, <3>1, <3>2 DEF IdentOK
    <3> QED
      BY <3>1, <3>3
  <2>6. "id" \notin cut /\ ~revoked' => new.key = new.leaf.key
    BY <1>1, <1>9, <2>2, <2>3 DEF KeyInv
  <2>7. ident' = new /\ UNCHANGED ca /\ (~revoked' => ~revoked)
    BY <1>9 DEF new
  <2> QED
    BY <1>7, <2>4, <2>5, <2>6, <2>7, <2>8
<1>10. CASE Revoke
  <2>1. LeafWith(<<RevokedBy>>).signer = ca.key
    BY DEF LeafWith, CreateCertificate
  <2> QED
    BY <1>9, <1>10, <2>1 DEF Revoke
<1>11. CASE AddExtension
  <2> DEFINE leaf == CreateCertificate(ident.leaf.key, ca.key, <<SignedExt(0, ident.leaf)>>, ident.leaf.exts)
  <2>1. leaf.signer = ca.key /\ leaf.key = ident.leaf.key
    BY DEF CreateCertificate
  <2> QED
    BY <1>9, <1>11, <2>1 DEF AddExtension
<1>12. CASE RevokeCA
  <2> DEFINE e == NewRevocationExt(ca.key, ca.cert, clock + 1)
             cert == CreateSelfSignedCertificate(ca.key, <<e>>, ca.cert.exts)
             new == [ca EXCEPT !.cert = cert]
  <2>1. ca # NoCert /\ ca.rest = <<>> /\ ca' = new /\ UNCHANGED <<ident, revoked>>
    BY <1>12 DEF RevokeCA
  <2>2. ca = [cert |-> ca.cert, key |-> ca.key, id |-> ca.id, rest |-> ca.rest]
    BY <1>1, <2>1 DEF ShapeInv, CARecord
  <2>9. CARecord(new)
    BY <2>2 DEF CARecord
  <2>3. new.cert = cert /\ new.key = ca.key /\ new.id = ca.id /\ new.rest = ca.rest
    BY <2>2
  <2>4. e.id = "revocation"
    BY DEF NewRevocationExt
  <2> HIDE DEF new, e
  <2>5. ASSUME "ca" \notin cut PROVE CAOK(parent, new)
    <3>1. CAOK(parent, ca)
      BY <1>1, <2>1, <2>5 DEF CAInv
    <3>2. ~parent
      <4>1. ca.rest = CARest(parent) /\ ca.rest = <<>>
        BY <2>1, <3>1 DEF CAOK
      <4>2. <<ParentCert>> # <<>>
        OBVIOUS
      <4> QED
        BY <4>1, <4>2 DEF CARest
    <3>3. cert = CreateSelfSignedCertificate(ca.cert.key, <<e>>, ca.cert.exts) /\ CertOK(parent, ca.cert)
      BY <3>1 DEF CAOK
    <3>4. CertOK(parent, cert) /\ cert.key = ca.key
      <4> HIDE DEF cert
      <4> QED
        BY <2>4, <3>1, <3>2, <3>3, RevokedCertOK DEF CAOK
    <3> HIDE DEF cert
    <3> QED
      BY <2>3, <3>1, <3>4 DEF CAOK
  <2>6. ca.rest \in Rests /\ (ident # NoCert => ident.rest \in Rests /\ IdentRecord(ident))
    BY <1>1, <2>1 DEF ShapeInv
  <2>7. "ca" \notin cut /\ ident # NoCert => IdentOK(parent, cut, ident)
    BY <1>1 DEF CAInv
  <2>8. "id" \notin cut /\ ~revoked /\ ident # NoCert => ident.key = ident.leaf.key
    BY <1>1 DEF KeyInv
  <2> HIDE DEF cert
  <2> QED
    BY <1>7, <2>1, <2>3, <2>5, <2>6, <2>7, <2>8, <2>9
<1> QED
  BY <1>8, <1>10, <1>11, <1>12

\* A Save is of a certificate file and the key file next to it.
LEMMA SavingParts ==
  ASSUME ShapeInv, saving # <<>>
  PROVE  \E p \in FilePairs : \E x, k :
           /\ FileShape(p[1], x)
           /\ \/ /\ Len(saving) = 2 /\ saving[1] = Item(p[1], x) /\ saving[2] = Item(p[2], k)
                 /\ Head(saving) = Item(p[1], x) /\ Tail(saving) = <<Item(p[2], k)>>
              \/ /\ Len(saving) = 1 /\ saving[1] = Item(p[2], k)
                 /\ Head(saving) = Item(p[2], k) /\ Tail(saving) = <<>>
<1>1. PICK p \in FilePairs : \E x, k :
        FileShape(p[1], x) /\ saving \in {<<Item(p[1], x), Item(p[2], k)>>, <<Item(p[2], k)>>}
  BY DEF ShapeInv
<1>2. PICK x, k : FileShape(p[1], x) /\ saving \in {<<Item(p[1], x), Item(p[2], k)>>, <<Item(p[2], k)>>}
  BY <1>1
<1> DEFINE a == Item(p[1], x)
           b == Item(p[2], k)
<1>3. CASE saving = <<a, b>>
  <2> HIDE DEF a, b
  <2>1. Len(saving) = 2 /\ saving[1] = a /\ saving[2] = b /\ Head(saving) = a /\ Tail(saving) = <<b>>
    BY <1>3
  <2> QED
    BY <1>2, <2>1 DEF a, b
<1>4. CASE saving = <<b>>
  <2> HIDE DEF a, b
  <2>1. Len(saving) = 1 /\ saving[1] = b /\ Head(saving) = b /\ Tail(saving) = <<>>
    BY <1>4
  <2> QED
    BY <1>2, <2>1 DEF a, b
<1> QED
  BY <1>2, <1>3, <1>4

\* A Save of one kind leaves the files of the other alone.
LEMMA OtherPair ==
  ASSUME NEW cf, NEW kf, disk'[cf] = disk[cf], disk'[kf] = disk[kf],
         ~(Len(saving) = 1 /\ saving[1].file = kf), ~(Len(saving') = 1 /\ saving'[1].file = kf),
         ~(Len(saving') = 2 /\ saving'[1].file = cf)
  PROVE  PairOK(cf, kf) => PairOK(cf, kf)'
<1>1. KeyAfter(kf) = disk[kf] /\ KeyAfter(kf)' = disk[kf]
  BY DEF KeyAfter
<1> QED
  BY <1>1 DEF PairOK

\* A Save begins with a chain that is whole.
LEMMA SaveStep == IdentityInv /\ (SaveCA \/ SaveIdentity) => IdentityInv'
<1> SUFFICES ASSUME IdentityInv, SaveCA \/ SaveIdentity PROVE IdentityInv'
  OBVIOUS
<1>1. GenTypeOK /\ SelectedInv /\ ShapeInv /\ CAInv /\ KeyInv
  BY DEF IdentityInv
<1>2. saving = <<>> /\ UNCHANGED <<genPc, worker, errchan, selected, caCert, parent, minted, ca, ident, revoked, disk, cut>>
  BY DEF SaveCA, SaveIdentity, Save, Idle, genVars, nodeVars
<1>3. GenTypeOK' /\ SelectedInv'
  BY <1>1, <1>2 DEF GenTypeOK, SelectedInv, Generated
<1>4. ASSUME NEW p \in FilePairs, NEW x, NEW k, saving' = <<Item(p[1], x), Item(p[2], k)>>, FileShape(p[1], x),
             "ca" \notin cut => ChainOK(parent, cut, p[1], x),
             p[1] = "caCert" /\ "ca" \notin cut => k = x[1].key,
             p[1] = "idCert" /\ "id" \notin cut /\ ~revoked => k = x[1].key
      PROVE  IdentityInv'
  <2>1. ShapeInv'
    BY <1>1, <1>2, <1>4 DEF ShapeInv
  <2>2. Len(saving') = 2 /\ saving'[1] = Item(p[1], x) /\ saving'[2] = Item(p[2], k)
    BY <1>4
  <2>3. Len(saving) = 0 /\ Item(p[1], x).file = p[1] /\ Item(p[1], x).content = x /\ Item(p[2], k).content = k
    BY <1>2 DEF Item
  <2>4. ASSUME NEW cf \in {"caCert", "idCert"}, NEW kf, PairOK(cf, kf), p[1] = cf => k = x[1].key PROVE PairOK(cf, kf)'
    <3>1. KeyAfter(kf)' = KeyAfter(kf)
      BY <1>2, <2>2, <2>3 DEF KeyAfter
    <3> QED
      BY <1>2, <2>2, <2>3, <2>4, <3>1 DEF PairOK
  <2>5. CAInv'
    <3>1. "ca" \notin cut => PairOK("caCert", "caKey")'
      BY <1>1, <1>4, <2>4 DEF CAInv
    <3>2. "ca" \notin cut => ChainOK(parent, cut, saving'[1].file, saving'[1].content)
      BY <1>4, <2>2, <2>3
    <3> QED
      BY <1>1, <1>2, <3>1, <3>2 DEF CAInv
  <2>6. KeyInv'
    <3>1. "id" \notin cut /\ ~revoked => PairOK("idCert", "idKey")'
      BY <1>1, <1>4, <2>4 DEF KeyInv
    <3> QED
      BY <1>1, <1>2, <3>1 DEF KeyInv
  <2> QED
    BY <1>3, <2>1, <2>5, <2>6 DEF IdentityInv
<1>5. CASE SaveCA
  <2> DEFINE p == <<"caCert", "caKey">>
             x == <<ca.cert>> \o ca.rest
  <2>1. ca # NoCert /\ saving' = <<Item(p[1], x), Item(p[2], ca.key)>> /\ ca.rest \in Rests /\ p \in FilePairs /\ p[1] = "caCert"
    BY <1>1, <1>5 DEF SaveCA, Save, CAChain, Item, ShapeInv, FilePairs
  <2>2. x[1] = ca.cert
    BY <2>1, CAChainParts
  <2> HIDE DEF x, p
  <2>3. x = <<x[1]>> \o ca.rest
    BY <2>2 DEF x
  <2>4. FileShape("caCert", x)
    BY <2>1, <2>3 DEF FileShape, CAShape
  <2>5. "ca" \notin cut => ChainOK(parent, cut, "caCert", x) /\ ca.key = x[1].key
    BY <1>1, <2>1, <2>2, <2>3 DEF CAInv, CAOK, ChainOK, ChainPart
  <2> QED
    BY <1>4, <2>1, <2>4, <2>5
<1>6. CASE SaveIdentity
  <2> DEFINE p == <<"idCert", "idKey">>
             x == <<ident.leaf, ident.ca>> \o ident.rest
  <2>1. ident # NoCert /\ saving' = <<Item(p[1], x), Item(p[2], ident.key)>> /\ ident.rest \in Rests /\ p \in FilePairs /\ p[1] = "idCert"
    BY <1>1, <1>6 DEF SaveIdentity, Save, IdentChain, Item, ShapeInv, FilePairs
  <2>2. x[1] = ident.leaf /\ x[2] = ident.ca
    BY <2>1, IdentChainParts
  <2> HIDE DEF x, p
  <2>3. x = <<x[1], x[2]>> \o ident.rest
    BY <2>2 DEF x
  <2>4. FileShape("idCert", x)
    BY <2>1, <2>3 DEF FileShape, IdShape
  <2>5. "ca" \notin cut => ChainOK(parent, cut, "idCert", x)
    BY <1>1, <2>1, <2>2, <2>3 DEF CAInv, IdentOK, ChainOK, ChainPart
  <2>6. "id" \notin cut /\ ~revoked => ident.key = x[1].key
    BY <1>1, <2>1, <2>2 DEF KeyInv
  <2> QED
    BY <1>4, <2>1, <2>4, <2>5, <2>6
<1> QED
  BY <1>5, <1>6

\* What a Load reads is what a Save wrote, or the beginning of it.
LEMMA LoadStep == IdentityInv /\ (LoadCA \/ Load) => IdentityInv'
<1> SUFFICES ASSUME IdentityInv, LoadCA \/ Load PROVE IdentityInv'
  OBVIOUS
<1>1. GenTypeOK /\ SelectedInv /\ ShapeInv /\ CAInv /\ KeyInv
  BY DEF IdentityInv
<1>2. saving = <<>> /\ UNCHANGED <<genPc, worker, errchan, selected, caCert, parent, minted, revoked, disk, saving, cut>>
  BY DEF LoadCA, Load, Idle, genVars, diskVars
<1>3. GenTypeOK' /\ SelectedInv'
  BY <1>1, <1>2 DEF GenTypeOK, SelectedInv, Generated
<1>4. PairOK("caCert", "caKey") = PairOK("caCert", "caKey")' /\ PairOK("idCert", "idKey") = PairOK("idCert", "idKey")'
  BY <1>2 DEF PairOK, KeyAfter
<1>5. \A kf : KeyAfter(kf) = disk[kf]
  BY <1>2 DEF KeyAfter
<1>6. CASE LoadCA
  <2> DEFINE x == disk["caCert"].content
             p == PeerCAFromChain(x)
             new == [cert |-> p.cert, key |-> disk["caKey"].content, id |-> p.id, rest |-> p.rest]
  <2>1. /\ disk["caCert"].state = "whole" /\ disk["caKey"].state = "whole" /\ p # NoCert /\ ca' = new
        /\ UNCHANGED ident
    BY <1>6 DEF LoadCA, Readable, CAFiles
  <2>2. PICK r \in Rests : x = <<x[1]>> \o r
    BY <1>1, <2>1 DEF ShapeInv, FileShape, CAShape, Files, CAFiles
  <2>3. x # <<>> /\ Head(x) = x[1] /\ Tail(x) = r
    BY <2>2, CAChainParts
  <2> HIDE DEF x
  <2>4. p = [cert |-> x[1], rest |-> r, id |-> NodeIDFromCert(x[1])]
    BY <2>1, <2>3 DEF PeerCAFromChain
  <2>10. CARecord(new)
    BY DEF CARecord
  <2>5. new.cert = x[1] /\ new.key = disk["caKey"].content /\ new.id = NodeIDFromCert(x[1]) /\ new.rest = r
    BY <2>4
  <2> HIDE DEF new, p
  <2>6. ASSUME "ca" \notin cut PROVE CAOK(parent, new)
    <3>1. CertOK(parent, x[1]) /\ x = <<x[1]>> \o CARest(parent)
      BY <1>1, <2>1, <2>6 DEF CAInv, ChainOK, ChainPart, Files, CAFiles, x
    <3>2. Tail(x) = CARest(parent)
      <4>1. CARest(parent) \in Rests
        BY DEF CARest, Rests
      <4> QED
        BY <3>1, <4>1, CAChainParts
    <3>3. disk["caKey"].content = x[1].key
      BY <1>1, <1>5, <2>1, <2>6 DEF CAInv, PairOK, x
    <3> QED
      BY <2>3, <2>5, <3>1, <3>2, <3>3, CertOKID DEF CAOK
  <2>7. ShapeInv'
    BY <1>1, <1>2, <2>1, <2>5, <2>10 DEF ShapeInv
  <2>8. CAInv'
    BY <1>1, <1>2, <1>4, <2>1, <2>6 DEF CAInv
  <2>9. KeyInv'
    BY <1>1, <1>2, <1>4, <2>1 DEF KeyInv
  <2> QED
    BY <1>3, <2>7, <2>8, <2>9 DEF IdentityInv
<1>7. CASE Load
  <2> DEFINE x == disk["idCert"].content
             p == PeerIdentityFromPEM(x)
             new == [leaf |-> p.leaf, ca |-> p.ca, rest |-> p.rest, key |-> disk["idKey"].content, id |-> p.id]
  <2>1. /\ disk["idCert"].state = "whole" /\ disk["idKey"].state = "whole" /\ p # NoCert /\ ident' = new
        /\ UNCHANGED ca
    BY <1>7 DEF Load, Readable, IdFiles
  <2>2. IdShape(x)
    BY <1>1, <2>1 DEF ShapeInv, FileShape, Files, IdFiles
  <2> HIDE DEF x
  <2>3. ~(Len(x) < 2) /\ p = [leaf |-> x[1], ca |-> x[2], rest |-> Tail(Tail(x)), id |-> NodeIDFromCert(x[2])]
    BY <2>1 DEF PeerIdentityFromPEM, PeerIdentityFromChain, LeafIndex, CAIndex
  <2>4. x # <<x[1]>>
    <3>1. Len(<<x[1]>>) = 1
      OBVIOUS
    <3> QED
      BY <2>3, <3>1
  <2>5. PICK r \in Rests : x = <<x[1], x[2]>> \o r
    BY <2>2, <2>4 DEF IdShape
  <2>6. Tail(Tail(x)) = r
    BY <2>5, IdentChainParts
  <2>13. IdentRecord(new)
    BY DEF IdentRecord
  <2>7. new.leaf = x[1] /\ new.ca = x[2] /\ new.key = disk["idKey"].content /\ new.id = NodeIDFromCert(x[2]) /\ new.rest = r
    BY <2>3, <2>6
  <2> HIDE DEF new, p
  <2>8. ASSUME "ca" \notin cut PROVE IdentOK(parent, cut, new)
    <3>1. ChainOK(parent, cut, "idCert", x)
      BY <1>1, <2>1, <2>8 DEF CAInv, Files, IdFiles, x
    <3>2. CertOK(parent, x[2]) /\ x[1].signer = x[2].key
      BY <2>4, <3>1 DEF ChainOK, ChainPart
    <3>3. "id" \notin cut => r = CARest(parent)
      <4>1. CARest(parent) \in Rests
        BY DEF CARest, Rests
      <4>2. "id" \notin cut => x = <<x[1], x[2]>> \o CARest(parent)
        BY <3>1 DEF ChainOK
      <4>3. ASSUME NEW a, NEW b, x = <<a, b>> \o CARest(parent) PROVE Tail(Tail(x)) = CARest(parent)
        BY <4>1, <4>3, IdentChainParts
      <4> QED
        BY <2>6, <4>2, <4>3
    <3> QED
      BY <2>7, <3>2, <3>3, CertOKID DEF IdentOK
  <2>9. "id" \notin cut /\ ~revoked => new.key = new.leaf.key
    BY <1>1, <1>5, <2>1, <2>7 DEF KeyInv, PairOK, x
  <2>10. ShapeInv'
    BY <1>1, <1>2, <2>1, <2>7, <2>13 DEF ShapeInv
  <2>11. CAInv'
    BY <1>1, <1>2, <1>4, <2>1, <2>8 DEF CAInv
  <2>12. KeyInv'
    BY <1>1, <1>2, <1>4, <2>1, <2>9 DEF KeyInv
  <2> QED
    BY <1>3, <2>10, <2>11, <2>12 DEF IdentityInv
<1> QED
  BY <1>6, <1>7

\* What a file holds after a write, whole or not: a chain, or the beginning of one.
LEMMA WrittenContent ==
  ASSUME ShapeInv, saving # <<>>, NEW c \in CutShort(Head(saving)) \cup {WholeFile(Head(saving).content)}
  PROVE  LET f == Head(saving).file
         IN  c.state = "whole" =>
               /\ FileShape(f, c.content)
               /\ CAInv /\ "ca" \notin cut /\ f \notin CAFiles => ChainPart(parent, f, c.content)
<1> DEFINE f == Head(saving).file
           x == Head(saving).content
<1> SUFFICES ASSUME c.state = "whole"
             PROVE  FileShape(f, c.content) /\ (CAInv /\ "ca" \notin cut /\ f \notin CAFiles => ChainPart(parent, f, c.content))
  OBVIOUS
<1>1. PICK p \in FilePairs : \E y, k :
        /\ FileShape(p[1], y)
        /\ \/ Len(saving) = 2 /\ saving[1] = Item(p[1], y) /\ Head(saving) = Item(p[1], y)
           \/ Len(saving) = 1 /\ Head(saving) = Item(p[2], k)
  BY SavingParts
<1>2. PICK y, k :
        /\ FileShape(p[1], y)
        /\ \/ Len(saving) = 2 /\ saving[1] = Item(p[1], y) /\ Head(saving) = Item(p[1], y)
           \/ Len(saving) = 1 /\ Head(saving) = Item(p[2], k)
  BY <1>1
<1>3. p[1] \in {"caCert", "idCert"} /\ p[2] \in {"caKey", "idKey"}
  BY DEF FilePairs
<1>4. \/ f = p[1] /\ x = y /\ Len(saving) = 2 /\ saving[1] = Head(saving)
      \/ f = p[2]
  BY <1>2 DEF Item
<1>5. f \in Files
  BY <1>3, <1>4 DEF Files, CAFiles, IdFiles
<1>6. ASSUME NEW z, CAInv, "ca" \notin cut, ChainOK(parent, cut, f, z), f \notin CAFiles PROVE ChainPart(parent, f, z)
  BY <1>6 DEF ChainOK, ChainPart
<1>7. CASE c = disk[f]
  BY <1>5, <1>6, <1>7 DEF ShapeInv, CAInv
<1>8. CASE f = p[2]
  BY <1>3, <1>8 DEF FileShape, ChainPart
<1>9. CASE f = p[1] /\ x = y /\ Len(saving) = 2 /\ saving[1] = Head(saving)
  <2>1. FileShape(f, x) /\ f \in {"caCert", "idCert"} /\ (CAInv /\ "ca" \notin cut => ChainOK(parent, cut, f, x))
    BY <1>2, <1>3, <1>9 DEF CAInv
  <2>2. CASE c = WholeFile(x)
    BY <1>6, <2>1, <2>2 DEF WholeFile
  <2>3. ASSUME NEW n \in 1 .. Len(x) - 1, c = WholeFile(SubSeq(x, 1, n))
        PROVE  FileShape(f, c.content) /\ (CAInv /\ "ca" \notin cut /\ f \notin CAFiles => ChainPart(parent, f, c.content))
    <3> DEFINE z == SubSeq(x, 1, n)
    <3>1. FileShape(f, z) /\ z[1] = x[1] /\ (f = "idCert" => z = <<z[1]>> \/ (z[2] = x[2] /\ x # <<x[1]>>))
      BY <2>1, FileParts
    <3>2. c.content = z
      BY <2>3 DEF WholeFile
    <3> HIDE DEF z
    <3>3. CAInv /\ "ca" \notin cut /\ f = "idCert" => ChainPart(parent, f, z)
      BY <2>1, <3>1 DEF ChainOK, ChainPart
    <3> QED
      BY <2>1, <3>1, <3>2, <3>3 DEF ChainPart
  <2>4. c # CutFile
    BY DEF CutFile
  <2>5. c \in {disk[f], CutFile, WholeFile(x)} \cup {WholeFile(SubSeq(x, 1, n)) : n \in 1 .. Len(x) - 1}
    BY <2>1 DEF CutShort
  <2> QED
    BY <1>7, <2>2, <2>3, <2>4, <2>5
<1> QED
  BY <1>4, <1>8, <1>9

\* The next file of a Save is written to the end.
LEMMA WriteStep == IdentityInv /\ writeFile => IdentityInv'
<1> SUFFICES ASSUME IdentityInv, writeFile PROVE IdentityInv'
  OBVIOUS
<1>1. GenTypeOK /\ SelectedInv /\ ShapeInv /\ CAInv /\ KeyInv
  BY DEF IdentityInv
<1> DEFINE f == Head(saving).file
           c == WholeFile(Head(saving).content)
<1>2. /\ saving # <<>> /\ disk' = [disk EXCEPT ![f] = c] /\ saving' = Tail(saving)
      /\ UNCHANGED <<genPc, worker, errchan, selected, caCert, parent, minted, ca, ident, revoked, cut>>
  BY DEF writeFile, genVars, nodeVars
<1>3. GenTypeOK' /\ SelectedInv'
  BY <1>1, <1>2 DEF GenTypeOK, SelectedInv, Generated
<1>4. PICK p \in FilePairs : \E x, k :
        /\ FileShape(p[1], x)
        /\ \/ /\ Len(saving) = 2 /\ saving[1] = Item(p[1], x) /\ saving[2] = Item(p[2], k)
              /\ Head(saving) = Item(p[1], x) /\ Tail(saving) = <<Item(p[2], k)>>
           \/ /\ Len(saving) = 1 /\ saving[1] = Item(p[2], k)
              /\ Head(saving) = Item(p[2], k) /\ Tail(saving) = <<>>
  BY <1>1, <1>2, SavingParts
<1>5. PICK x, k :
        /\ FileShape(p[1], x)
        /\ \/ /\ Len(saving) = 2 /\ saving[1] = Item(p[1], x) /\ saving[2] = Item(p[2], k)
              /\ Head(saving) = Item(p[1], x) /\ Tail(saving) = <<Item(p[2], k)>>
           \/ /\ Len(saving) = 1 /\ saving[1] = Item(p[2], k)
              /\ Head(saving) = Item(p[2], k) /\ Tail(saving) = <<>>
  BY <1>4
<1> DEFINE cf == p[1]
           kf == p[2]
<1>6. \A g, z : Item(g, z).file = g /\ Item(g, z).content = z /\ WholeFile(z).state = "whole" /\ WholeFile(z).content = z
  BY DEF Item, WholeFile
<1>7. \/ cf = "caCert" /\ kf = "caKey"
      \/ cf = "idCert" /\ kf = "idKey"
  BY DEF FilePairs
<1>8. Files = {"caCert", "caKey", "idCert", "idKey"}
  BY DEF Files, CAFiles, IdFiles
<1>9. /\ f \in {cf, kf} /\ f \in Files
      /\ disk' = [g \in Files |-> disk'[g]] /\ \A g \in Files : disk'[g] = IF g = f THEN c ELSE disk[g]
  <2>1. f \in {cf, kf}
    BY <1>5, <1>6
  <2>2. f \in Files
    BY <1>7, <1>8, <2>1
  <2>3. disk = [g \in Files |-> disk[g]]
    BY <1>1 DEF ShapeInv
  <2> HIDE DEF f, c, cf, kf
  <2>4. disk' = [g \in Files |-> IF g = f THEN c ELSE disk[g]]
    BY <1>2, <2>2, <2>3
  <2> QED
    BY <2>1, <2>2, <2>4
<1>10. c \in CutShort(Head(saving)) \cup {c}
  OBVIOUS
<1>11. c.state = "whole" => FileShape(f, c.content)
  BY <1>1, <1>2, <1>10, WrittenContent
<1>12. "ca" \notin cut => ChainOK(parent, cut, f, c.content)
  BY <1>1, <1>5, <1>6, <1>7 DEF CAInv, ChainOK, ChainPart
<1> HIDE DEF f, c, cf, kf
<1>13. Len(saving') \in {0, 1} /\ (Len(saving') = 1 => Len(saving) = 2 /\ saving'[1] = Item(kf, k))
  BY <1>2, <1>5 DEF kf
<1>14. ShapeInv'
  <2>1. \A g \in Files : disk'[g].state = "whole" => FileShape(g, disk'[g].content)
    BY <1>1, <1>9, <1>11 DEF ShapeInv
  <2>2. saving' = <<>> \/ saving' \in {<<Item(p[1], x), Item(p[2], k)>>, <<Item(p[2], k)>>}
    BY <1>2, <1>5
  <2> QED
    BY <1>1, <1>2, <1>5, <1>9, <2>1, <2>2 DEF ShapeInv
<1>15. ASSUME PairOK(cf, kf) PROVE PairOK(cf, kf)'
  <2>1. CASE Len(saving) = 2
    <3>1. f = cf /\ c = WholeFile(x) /\ k = x[1].key /\ Len(saving') = 1 /\ saving'[1] = Item(kf, k)
      BY <1>2, <1>5, <1>6, <1>15, <2>1 DEF PairOK, f, c, cf, kf
    <3>2. KeyAfter(kf)' = WholeFile(k) /\ disk'[cf] = WholeFile(x)
      BY <1>6, <1>7, <1>8, <1>9, <3>1 DEF KeyAfter
    <3> QED
      BY <1>6, <3>1, <3>2 DEF PairOK
  <2>2. CASE Len(saving) = 1
    <3>1. f = kf /\ c = WholeFile(k) /\ Len(saving') = 0 /\ saving[1] = Item(kf, k)
      BY <1>2, <1>5, <1>6, <2>2 DEF f, c, kf
    <3>2. KeyAfter(kf)' = WholeFile(k) /\ KeyAfter(kf) = WholeFile(k) /\ disk'[cf] = disk[cf]
      BY <1>6, <1>7, <1>8, <1>9, <2>2, <3>1 DEF KeyAfter
    <3> QED
      BY <1>15, <3>1, <3>2 DEF PairOK
  <2> QED
    BY <1>5, <2>1, <2>2
<1>16. ASSUME NEW cg, NEW kg, cg \in Files \ {cf, kf}, kg \in Files \ {cf, kf}, PairOK(cg, kg) PROVE PairOK(cg, kg)'
  <2>1. disk'[cg] = disk[cg] /\ disk'[kg] = disk[kg]
    BY <1>9, <1>16
  <2>2. ~(Len(saving) = 1 /\ saving[1].file = kg) /\ ~(Len(saving') = 1 /\ saving'[1].file = kg)
    BY <1>5, <1>6, <1>13, <1>16 DEF kf
  <2> QED
    BY <1>13, <1>16, <2>1, <2>2, OtherPair
<1>17. CAInv'
  <2>3. Len(saving') # 2
    BY <1>13
  <2>1. "ca" \notin cut => PairOK("caCert", "caKey")'
    BY <1>1, <1>7, <1>8, <1>15, <1>16 DEF CAInv
  <2>2. "ca" \notin cut => \A g \in Files : disk'[g].state = "whole" => ChainOK(parent, cut, g, disk'[g].content)
    BY <1>1, <1>9, <1>12 DEF CAInv
  <2> QED
    BY <1>1, <1>2, <2>1, <2>2, <2>3 DEF CAInv
<1>18. KeyInv'
  <2>1. "id" \notin cut /\ ~revoked => PairOK("idCert", "idKey")'
    BY <1>1, <1>7, <1>8, <1>15, <1>16 DEF KeyInv
  <2> QED
    BY <1>1, <1>2, <2>1 DEF KeyInv
<1> QED
  BY <1>3, <1>14, <1>17, <1>18 DEF IdentityInv

\* A write that fails or is cut by the end of the process spoils files of one kind.
LEMMA CutStep ==
  ASSUME ShapeInv, CAInv, KeyInv, saving # <<>>, CutWrite, saving' \in {<<>>, Tail(saving)},
         UNCHANGED <<parent, revoked>>, ca' \in {ca, NoCert}, ident' \in {ident, NoCert}
  PROVE  ShapeInv' /\ CAInv' /\ KeyInv'
<1> DEFINE f == Head(saving).file
           kind == IF f \in CAFiles THEN "ca" ELSE "id"
<1>1. PICK c \in CutShort(Head(saving)) : disk' = [disk EXCEPT ![f] = c]
  BY DEF CutWrite
<1>2. cut' = cut \cup {kind}
  BY DEF CutWrite
<1>3. PICK p \in FilePairs : \E x, k :
        /\ FileShape(p[1], x)
        /\ \/ /\ Len(saving) = 2 /\ saving[1] = Item(p[1], x) /\ saving[2] = Item(p[2], k)
              /\ Head(saving) = Item(p[1], x) /\ Tail(saving) = <<Item(p[2], k)>>
           \/ /\ Len(saving) = 1 /\ saving[1] = Item(p[2], k)
              /\ Head(saving) = Item(p[2], k) /\ Tail(saving) = <<>>
  BY SavingParts
<1>4. PICK x, k :
        /\ FileShape(p[1], x)
        /\ \/ /\ Len(saving) = 2 /\ saving[1] = Item(p[1], x) /\ saving[2] = Item(p[2], k)
              /\ Head(saving) = Item(p[1], x) /\ Tail(saving) = <<Item(p[2], k)>>
           \/ /\ Len(saving) = 1 /\ saving[1] = Item(p[2], k)
              /\ Head(saving) = Item(p[2], k) /\ Tail(saving) = <<>>
  BY <1>3
<1> DEFINE cf == p[1]
           kf == p[2]
<1>5. \A g, z : Item(g, z).file = g /\ Item(g, z).content = z
  BY DEF Item
<1>6. \/ cf = "caCert" /\ kf = "caKey" /\ kind = "ca" /\ f \in {"caCert", "caKey"}
      \/ cf = "idCert" /\ kf = "idKey" /\ kind = "id" /\ f \in {"idCert", "idKey"}
  BY <1>4, <1>5 DEF FilePairs, CAFiles
<1>7. Files = {"caCert", "caKey", "idCert", "idKey"}
  BY DEF Files, CAFiles, IdFiles
<1>8. /\ f \in {cf, kf} /\ f \in Files
      /\ disk' = [g \in Files |-> disk'[g]] /\ \A g \in Files : disk'[g] = IF g = f THEN c ELSE disk[g]
  BY <1>1, <1>4, <1>5, <1>6, <1>7 DEF ShapeInv
<1>9. c.state = "whole" => FileShape(f, c.content) /\ ("ca" \notin cut /\ f \notin CAFiles => ChainPart(parent, f, c.content))
  BY <1>1, WrittenContent
<1> HIDE DEF f, kind, cf, kf
<1>10. Len(saving') \in {0, 1} /\ (Len(saving') = 1 => saving'[1] = Item(kf, k))
  <2>1. Len(<<>>) = 0 /\ Len(<<Item(p[2], k)>>) = 1 /\ <<Item(p[2], k)>>[1] = Item(p[2], k)
    OBVIOUS
  <2>2. saving' = <<>> \/ saving' = <<Item(p[2], k)>>
    BY <1>4
  <2> QED
    BY <2>1, <2>2 DEF kf
<1>11. ShapeInv'
  <2>1. \A g \in Files : disk'[g].state = "whole" => FileShape(g, disk'[g].content)
    BY <1>8, <1>9 DEF ShapeInv
  <2>2. saving' = <<>> \/ saving' \in {<<Item(p[1], x), Item(p[2], k)>>, <<Item(p[2], k)>>}
    BY <1>4
  <2> QED
    BY <1>4, <1>8, <2>1, <2>2 DEF ShapeInv
<1>12. ASSUME NEW cg, NEW kg, cg \in Files \ {cf, kf}, kg \in Files \ {cf, kf}, PairOK(cg, kg) PROVE PairOK(cg, kg)'
  <2>1. disk'[cg] = disk[cg] /\ disk'[kg] = disk[kg]
    BY <1>8, <1>12
  <2>2. ~(Len(saving) = 1 /\ saving[1].file = kg) /\ ~(Len(saving') = 1 /\ saving'[1].file = kg)
    BY <1>4, <1>5, <1>10, <1>12 DEF kf
  <2>3. Len(saving') # 2
    BY <1>10
  <2> QED
    BY <1>12, <2>1, <2>2, <2>3, OtherPair
<1>13. CAInv'
  <2> SUFFICES ASSUME "ca" \notin cut' PROVE CAInv'
    BY DEF CAInv
  <2>1. cf = "idCert" /\ kf = "idKey" /\ kind = "id" /\ "ca" \notin cut /\ "id" \in cut' /\ f \in {"idCert", "idKey"}
    BY <1>2, <1>6
  <2>2. PairOK("caCert", "caKey")'
    BY <1>7, <1>12, <2>1 DEF CAInv
  <2>3. ASSUME NEW g \in Files, disk'[g].state = "whole" PROVE ChainOK(parent, cut, g, disk[g].content)'
    <3>1. CASE g = f
      <4>1. ChainPart(parent, g, c.content) /\ disk'[g] = c
        BY <1>8, <1>9, <2>1, <2>3, <3>1 DEF CAFiles
      <4>2. g # "caCert"
        BY <2>1, <3>1
      <4> QED
        BY <2>1, <4>1, <4>2 DEF ChainOK
    <3>2. CASE g # f
      <4>1. disk'[g] = disk[g] /\ ChainOK(parent, cut, g, disk[g].content)
        BY <1>8, <2>1, <2>3, <3>2 DEF CAInv
      <4> QED
        BY <2>1, <4>1 DEF ChainOK
    <3> QED
      BY <3>1, <3>2
  <2>4. ca' # NoCert => CAOK(parent, ca)'
    BY <2>1 DEF CAInv
  <2>5. ident' # NoCert => IdentOK(parent, cut, ident)'
    BY <2>1 DEF CAInv, IdentOK
  <2> QED
    BY <1>10, <2>2, <2>3, <2>4, <2>5 DEF CAInv
<1>14. KeyInv'
  <2> SUFFICES ASSUME "id" \notin cut', ~revoked PROVE KeyInv'
    BY DEF KeyInv
  <2>1. cf = "caCert" /\ kf = "caKey" /\ "id" \notin cut
    BY <1>2, <1>6
  <2>2. PairOK("idCert", "idKey")'
    BY <1>7, <1>12, <2>1 DEF KeyInv
  <2> QED
    BY <2>1, <2>2 DEF KeyInv
<1> QED
  BY <1>11, <1>13, <1>14

\* A failed write, and the end of the process.
LEMMA FailureStep == IdentityInv /\ (writeFileFails \/ Crash) => IdentityInv'
<1> SUFFICES ASSUME IdentityInv, writeFileFails \/ Crash PROVE IdentityInv'
  OBVIOUS
<1>1. GenTypeOK /\ SelectedInv /\ ShapeInv /\ CAInv /\ KeyInv
  BY DEF IdentityInv
<1>2. CASE writeFileFails
  <2>1. GenTypeOK' /\ SelectedInv'
    BY <1>1, <1>2 DEF writeFileFails, genVars, nodeVars, GenTypeOK, SelectedInv, Generated
  <2>2. /\ saving # <<>> /\ CutWrite /\ saving' \in {<<>>, Tail(saving)} /\ UNCHANGED <<parent, revoked>>
        /\ ca' \in {ca, NoCert} /\ ident' \in {ident, NoCert}
    BY <1>2 DEF writeFileFails, genVars, nodeVars
  <2> QED
    BY <1>1, <2>1, <2>2, CutStep DEF IdentityInv
<1>3. CASE Crash
  <2>1. GenTypeOK' /\ SelectedInv'
    BY <1>1, <1>3 DEF Crash, NoGeneration, GenTypeOK, SelectedInv, Generated
  <2>2. saving' = <<>> /\ ca' = NoCert /\ ident' = NoCert /\ UNCHANGED <<parent, revoked>>
    BY <1>3 DEF Crash
  <2>3. CASE saving # <<>>
    <3>1. CutWrite
      BY <1>3, <2>3 DEF Crash
    <3> QED
      BY <1>1, <2>1, <2>2, <2>3, <3>1, CutStep DEF IdentityInv
  <2>4. CASE saving = <<>>
    <3>1. UNCHANGED <<disk, cut, saving>>
      BY <1>3, <2>2, <2>4 DEF Crash
    <3>2. PairOK("caCert", "caKey") = PairOK("caCert", "caKey")' /\ PairOK("idCert", "idKey") = PairOK("idCert", "idKey")'
      BY <3>1 DEF PairOK, KeyAfter
    <3>3. ShapeInv'
      BY <1>1, <2>2, <3>1 DEF ShapeInv
    <3>4. CAInv'
      BY <1>1, <2>2, <3>1, <3>2 DEF CAInv
    <3>5. KeyInv'
      BY <1>1, <2>2, <3>1, <3>2 DEF KeyInv
    <3> QED
      BY <2>1, <3>3, <3>4, <3>5 DEF IdentityInv
  <2> QED
    BY <2>3, <2>4
<1> QED
  BY <1>2, <1>3

\* Every step of the identity keeps the invariant.
LEMMA IdentityStep == IdentityInv /\ [IdentityNext]_identityVars => IdentityInv'
<1> SUFFICES ASSUME IdentityInv, [IdentityNext]_identityVars PROVE IdentityInv'
  OBVIOUS
<1>1. CASE UNCHANGED identityVars
  <2>1. GenTypeOK' /\ SelectedInv'
    BY <1>1 DEF identityVars, genVars, nodeVars, IdentityInv, GenTypeOK, SelectedInv, Generated
  <2>2. UNCHANGED <<parent, ca, ident, disk, saving, cut, revoked>>
    BY <1>1 DEF identityVars, genVars, nodeVars, diskVars
  <2> QED
    BY <2>1, <2>2, KeepNode DEF IdentityInv
<1>2. CASE IdentityNext
  BY <1>2, GenerationStep, NodeStep, SaveStep, LoadStep, WriteStep, FailureStep DEF IdentityNext
<1> QED
  BY <1>1, <1>2

------------------------------------------------------------------------------
(* Signing: fields in the order of their numbers. *)

Pairs == (Nat \ {0}) \X FieldValues

\* Whether a field is written, when those in zeros are written though they are zero.
Written(zeros, p) == p[2] # 0 \/ p[1] \in zeros

\* What a program writes: numbers ascend.
Ascending(f) ==
  /\ f \in Seq(Pairs)
  /\ \A i, j \in DOMAIN f : i < j => f[i][1] < f[j][1]

\* The bytes the signer has signed.
SignedBytes == EncodeForSigning([known |-> signed.fields, unrecognized |-> <<>>])

\* Going through a sequence, there is a result up to each of its elements.
LEMMA KeptSteps ==
  ASSUME NEW T, NEW s \in Seq(T), NEW S
  PROVE  \E upto : /\ upto = [n \in 0 .. Len(s) |->
                               IF n = 0 THEN <<>>
                               ELSE IF s[n] \in S THEN Append(upto[n - 1], s[n]) ELSE upto[n - 1]]
                   /\ Kept(s, S) = upto[Len(s)]
<1> DEFINE L == Len(s)
           Step(g, n) == IF n = 0 THEN <<>>
                         ELSE IF s[n] \in S THEN Append(g[n - 1], s[n]) ELSE g[n - 1]
           Has(m) == \E g : g = [n \in 0 .. m |-> Step(g, n)]
           Not == {m \in 0 .. L : ~Has(m)}
<1>1. L \in Nat
  OBVIOUS
<1> HIDE DEF L, Step
<1>2. Not = {}
  <2> SUFFICES ASSUME Not # {} PROVE FALSE
    OBVIOUS
  <2>1. Not \subseteq Nat
    BY <1>1
  <2> HIDE DEF Not
  <2>2. PICK m \in Not : \A n \in Not : m <= n
    BY <2>1, LeastNat
  <2>3. m \in 0 .. L /\ ~Has(m)
    BY <2>2 DEF Not
  <2>4. CASE m = 0
    <3> DEFINE g == [n \in 0 .. 0 |-> <<>>]
    <3>1. g = [n \in 0 .. 0 |-> Step(g, n)]
      BY DEF Step
    <3> HIDE DEF g
    <3> QED
      BY <2>3, <2>4, <3>1
  <2>5. CASE m # 0
    <3>1. m - 1 \in 0 .. L /\ m - 1 \notin Not
      BY <1>1, <2>2, <2>3, <2>5
    <3>2. PICK g : g = [n \in 0 .. m - 1 |-> Step(g, n)]
      BY <3>1 DEF Not
    <3> DEFINE h == [n \in 0 .. m |-> IF n = m THEN Step(g, m) ELSE g[n]]
    <3>3. m \in Nat /\ m >= 1
      BY <1>1, <2>3, <2>5
    <3>4. \A n \in 0 .. m : n # m => n \in 0 .. m - 1 /\ (n # 0 => n - 1 \in 0 .. m /\ n - 1 # m)
      BY <3>3
    <3>5. ASSUME NEW n \in 0 .. m PROVE h[n] = Step(h, n)
      <4>1. CASE n = m
        <5>1. m - 1 \in 0 .. m /\ m - 1 # m /\ m \in 0 .. m
          BY <3>3
        <5>2. h[m - 1] = g[m - 1] /\ h[m] = Step(g, m)
          BY <5>1
        <5> HIDE DEF h
        <5>3. Step(h, m) = Step(g, m)
          BY <5>2 DEF Step
        <5> QED
          BY <4>1, <5>2, <5>3
      <4>2. CASE n # m
        <5>1. h[n] = g[n] /\ g[n] = Step(g, n)
          BY <3>2, <3>4, <4>2
        <5>2. n # 0 => h[n - 1] = g[n - 1]
          BY <3>4, <4>2
        <5> HIDE DEF h
        <5>3. Step(h, n) = Step(g, n)
          BY <5>2 DEF Step
        <5> QED
          BY <5>1, <5>3
      <4> QED
        BY <4>1, <4>2
    <3>6. h = [n \in 0 .. m |-> h[n]]
      OBVIOUS
    <3> HIDE DEF h
    <3>7. h = [n \in 0 .. m |-> Step(h, n)]
      BY <3>5, <3>6
    <3> QED
      BY <2>3, <3>7
  <2> QED
    BY <2>4, <2>5
<1>3. Has(L)
  BY <1>1, <1>2
<1> QED
  BY <1>3 DEF Kept, Step, L

\* What is kept is what is in the set, and in whatever order R it was.
LEMMA KeptSelects ==
  ASSUME NEW T, NEW s \in Seq(T), NEW S, NEW R,
         \A i, j \in DOMAIN s : i < j => <<s[i], s[j]>> \in R
  PROVE  /\ Kept(s, S) \in Seq(T)
         /\ ToSet(Kept(s, S)) = ToSet(s) \cap S
         /\ \A i, j \in DOMAIN Kept(s, S) : i < j => <<Kept(s, S)[i], Kept(s, S)[j]>> \in R
<1> DEFINE L == Len(s)
           First(n) == {s[i] : i \in 1 .. n} \cap S
<1>1. PICK upto : /\ upto = [n \in 0 .. L |->
                               IF n = 0 THEN <<>>
                               ELSE IF s[n] \in S THEN Append(upto[n - 1], s[n]) ELSE upto[n - 1]]
                  /\ Kept(s, S) = upto[L]
  BY KeptSteps
<1> DEFINE Good(n) == LET k == upto[n]
                      IN  /\ k \in Seq(T) /\ ToSet(k) = First(n)
                          /\ \A i, j \in DOMAIN k : i < j => <<k[i], k[j]>> \in R
           Bad == {n \in 0 .. L : ~Good(n)}
<1>2. L \in Nat /\ DOMAIN s = 1 .. L
  OBVIOUS
<1>3. /\ upto[0] = <<>>
      /\ \A n \in 1 .. L : upto[n] = IF s[n] \in S THEN Append(upto[n - 1], s[n]) ELSE upto[n - 1]
  <2>1. 0 \in 0 .. L /\ \A n \in 1 .. L : n \in 0 .. L /\ n # 0
    BY <1>2
  <2> QED
    BY <1>1, <2>1
<1>4. Good(0)
  <2>1. First(0) = {}
    OBVIOUS
  <2> QED
    BY <1>3, <2>1 DEF ToSet
<1> HIDE DEF L
<1>5. ASSUME NEW n \in 1 .. L, Good(n - 1) PROVE Good(n)
  <2> DEFINE k == upto[n - 1]
             new == upto[n]
  <2>1. k \in Seq(T) /\ ToSet(k) = First(n - 1) /\ \A i, j \in DOMAIN k : i < j => <<k[i], k[j]>> \in R
    BY <1>5
  <2>2. n \in Nat /\ n >= 1 /\ s[n] \in T /\ 1 .. n = (1 .. n - 1) \cup {n} /\ 1 .. n \subseteq DOMAIN s
    BY <1>2 DEF L
  <2>3. {s[i] : i \in 1 .. n} = {s[i] : i \in 1 .. n - 1} \cup {s[n]}
    BY <2>2
  <2>4. CASE s[n] \in S
    <3>1. new = Append(k, s[n])
      BY <1>3, <2>4
    <3> HIDE DEF k, new
    <3>2. Len(k) \in Nat /\ DOMAIN k = 1 .. Len(k)
      BY <2>1
    <3>3. /\ new \in Seq(T) /\ DOMAIN new = 1 .. Len(k) + 1
          /\ new[Len(k) + 1] = s[n] /\ \A i \in 1 .. Len(k) : new[i] = k[i]
      BY <3>1, <2>1, <2>2
    <3>4. ToSet(new) = ToSet(k) \cup {s[n]}
      <4>1. 1 .. Len(k) + 1 = (1 .. Len(k)) \cup {Len(k) + 1}
        BY <3>2
      <4> QED
        BY <3>2, <3>3, <4>1 DEF ToSet
    <3>5. ToSet(new) = First(n)
      BY <3>4, <2>1, <2>3, <2>4
    <3>6. ASSUME NEW i \in DOMAIN new, NEW j \in DOMAIN new, i < j PROVE <<new[i], new[j]>> \in R
      <4>1. i \in DOMAIN k
        BY <3>2, <3>3, <3>6
      <4>2. CASE j \in DOMAIN k
        BY <4>1, <4>2, <3>2, <3>3, <3>6, <2>1
      <4>3. CASE j \notin DOMAIN k
        <5>1. j = Len(k) + 1
          BY <4>3, <3>2, <3>3
        <5>2. k[i] \in First(n - 1)
          BY <4>1, <2>1 DEF ToSet
        <5>3. PICK m \in 1 .. n - 1 : s[m] = k[i]
          BY <5>2
        <5>4. <<s[m], s[n]>> \in R
          BY <5>3, <2>2
        <5> QED
          BY <5>1, <5>3, <5>4, <4>1, <3>2, <3>3
      <4> QED
        BY <4>2, <4>3
    <3> QED
      BY <3>3, <3>5, <3>6 DEF new
  <2>5. CASE s[n] \notin S
    <3>1. new = k
      BY <1>3, <2>5
    <3>2. First(n) = First(n - 1)
      BY <2>3, <2>5
    <3> HIDE DEF k, First
    <3> QED
      BY <3>1, <3>2, <2>1
  <2> QED
    BY <2>4, <2>5
<1>6. Bad = {}
  <2> SUFFICES ASSUME Bad # {} PROVE FALSE
    OBVIOUS
  <2> HIDE DEF Good
  <2>1. Bad \subseteq Nat
    BY <1>2
  <2>2. PICK m \in Bad : \A n \in Bad : m <= n
    BY <2>1, LeastNat
  <2>3. m # 0
    BY <1>4, <2>2
  <2>4. m \in 1 .. L /\ m - 1 \in 0 .. L /\ m - 1 \notin Bad
    BY <1>2, <2>2, <2>3
  <2> QED
    BY <1>5, <2>2, <2>4
<1>7. Good(L)
  <2>1. L \in 0 .. L
    BY <1>2
  <2> HIDE DEF Good
  <2> QED
    BY <2>1, <1>6
<1>8. First(L) = ToSet(s) \cap S
  BY <1>2 DEF ToSet
<1> QED
  BY <1>1, <1>7, <1>8

\* Sequences in the order of their numbers with the same fields are the same.
LEMMA SameFields ==
  ASSUME NEW f, NEW g, Ascending(f), Ascending(g), ToSet(f) = ToSet(g)
  PROVE  f = g
<1>1. /\ f \in Seq(Pairs) /\ Len(f) \in Nat /\ DOMAIN f = 1 .. Len(f)
      /\ g \in Seq(Pairs) /\ Len(g) \in Nat /\ DOMAIN g = 1 .. Len(g)
  BY DEF Ascending
<1>2. \A p \in Pairs : p[1] \in Nat
  BY DEF Pairs
<1> DEFINE Agree(n) == n \in DOMAIN f /\ n \in DOMAIN g /\ f[n] = g[n]
           Apart == {n \in Nat \ {0} : (n \in DOMAIN f \/ n \in DOMAIN g) /\ ~Agree(n)}
<1>3. ASSUME NEW a, NEW b, Ascending(a), Ascending(b), ToSet(a) = ToSet(b),
             NEW n \in DOMAIN a, \A m \in 1 .. n - 1 : m \in DOMAIN b /\ a[m] = b[m]
      PROVE  n \in DOMAIN b /\ a[n] = b[n]
  <2>1. /\ a \in Seq(Pairs) /\ Len(a) \in Nat /\ DOMAIN a = 1 .. Len(a)
        /\ b \in Seq(Pairs) /\ Len(b) \in Nat /\ DOMAIN b = 1 .. Len(b)
    BY <1>3 DEF Ascending
  <2>2. n \in Nat /\ n >= 1
    BY <2>1
  <2>3. PICK k \in DOMAIN b : b[k] = a[n]
    BY <1>3 DEF ToSet
  <2>4. k >= n
    <3> SUFFICES ASSUME k < n PROVE FALSE
      BY <2>1, <2>2
    <3>1. k \in 1 .. n - 1 /\ k \in DOMAIN a
      BY <2>1, <2>2
    <3>2. a[k] = a[n]
      BY <3>1, <2>3, <1>3
    <3>3. a[k][1] < a[n][1]
      BY <3>1, <1>3 DEF Ascending
    <3>4. a[n][1] \in Nat
      BY <2>1, <1>2
    <3> QED
      BY <3>2, <3>3, <3>4
  <2>5. n \in DOMAIN b
    BY <2>1, <2>2, <2>4
  <2>6. PICK j \in DOMAIN a : a[j] = b[n]
    BY <2>5, <1>3 DEF ToSet
  <2>7. j >= n
    <3> SUFFICES ASSUME j < n PROVE FALSE
      BY <2>1, <2>2
    <3>1. j \in 1 .. n - 1 /\ j \in DOMAIN b
      BY <2>1, <2>2, <2>5
    <3>2. b[j] = b[n]
      BY <3>1, <2>6, <1>3
    <3>3. b[j][1] < b[n][1]
      BY <3>1, <2>5, <1>3 DEF Ascending
    <3>4. b[n][1] \in Nat
      BY <2>1, <2>5, <1>2
    <3> QED
      BY <3>2, <3>3, <3>4
  <2>8. k = n
    <3> SUFFICES ASSUME k > n PROVE FALSE
      BY <2>1, <2>2, <2>4
    <3>1. b[n][1] < b[k][1]
      BY <2>5, <1>3 DEF Ascending
    <3>2. j = n \/ a[n][1] < a[j][1]
      BY <2>1, <2>2, <2>7, <1>3 DEF Ascending
    <3>3. a[n][1] \in Nat /\ b[n][1] \in Nat
      BY <2>1, <2>5, <1>2
    <3> QED
      BY <3>1, <3>2, <3>3, <2>3, <2>6
  <2> QED
    BY <2>3, <2>5, <2>8
<1>4. Apart = {}
  <2> SUFFICES ASSUME Apart # {} PROVE FALSE
    OBVIOUS
  <2>1. PICK n \in Apart : \A m \in Apart : n <= m
    BY LeastNat
  <2>2. n \in Nat /\ n >= 1
    BY <2>1
  <2>3. \A m \in 1 .. n - 1 : m \in Nat \ {0} /\ m \notin Apart
    BY <2>1, <2>2
  <2>4. \A m \in 1 .. n - 1 : Agree(m)
    <3>1. \A m \in 1 .. n - 1 : m \in DOMAIN f \/ m \in DOMAIN g
      BY <1>1, <2>1, <2>2
    <3> QED
      BY <3>1, <2>3
  <2>5. CASE n \in DOMAIN f
    <3>1. n \in DOMAIN g /\ f[n] = g[n]
      BY <1>3, <2>4, <2>5
    <3> QED
      BY <3>1, <2>1, <2>5
  <2>6. CASE n \in DOMAIN g
    <3>1. n \in DOMAIN f /\ g[n] = f[n]
      BY <1>3, <2>4, <2>6
    <3> QED
      BY <3>1, <2>1, <2>6
  <2> QED
    BY <2>1, <2>5, <2>6
<1>5. \A n \in Nat \ {0} : n \in DOMAIN f \/ n \in DOMAIN g => Agree(n)
  BY <1>4
<1>6. DOMAIN f = DOMAIN g
  <2>1. \A n \in DOMAIN f : n \in Nat \ {0}
    BY <1>1
  <2>2. \A n \in DOMAIN g : n \in Nat \ {0}
    BY <1>1
  <2> QED
    BY <2>1, <2>2, <1>5
<1>7. \A n \in DOMAIN f : f[n] = g[n]
  BY <1>1, <1>5
<1>8. f = [n \in DOMAIN f |-> f[n]] /\ g = [n \in DOMAIN g |-> g[n]]
  BY <1>1
<1> QED
  BY <1>6, <1>7, <1>8

\* A message is written as its known fields that are not zero, or in zeros, and all the
\* others, in order, when the others have higher numbers.
LEMMA MarshalOrders ==
  ASSUME NEW v \in Nat, NEW zeros, NEW msg, msg.known \in [1 .. v -> FieldValues],
         Ascending(msg.unrecognized), \A p \in ToSet(msg.unrecognized) : p[1] > v
  PROVE  /\ Ascending(Encoded(zeros, msg))
         /\ ToSet(Encoded(zeros, msg)) =
              {<<i, msg.known[i]>> : i \in {j \in 1 .. v : msg.known[j] # 0 \/ j \in zeros}}
                \cup ToSet(msg.unrecognized)
<1> DEFINE s == [i \in DOMAIN msg.known |-> <<i, msg.known[i]>>]
           T == (1 .. v) \X FieldValues
           S == (Nat \X (FieldValues \ {0})) \cup (zeros \X {0})
           W == {j \in 1 .. v : msg.known[j] # 0 \/ j \in zeros}
           R == {pq \in T \X T : pq[1][1] < pq[2][1]}
           k == Kept(s, S)
           u == msg.unrecognized
<1>1. s \in Seq(T) /\ DOMAIN s = 1 .. v /\ \A i \in 1 .. v : s[i] = <<i, msg.known[i]>>
  <2>1. DOMAIN msg.known = 1 .. v /\ \A i \in 1 .. v : msg.known[i] \in FieldValues
    OBVIOUS
  <2>2. s \in [1 .. v -> T]
    BY <2>1
  <2> QED
    BY <2>1, <2>2
<1>2. \A i, j \in DOMAIN s : i < j => <<s[i], s[j]>> \in R
  BY <1>1
<1> HIDE DEF s
<1>3. /\ k \in Seq(T) /\ ToSet(k) = ToSet(s) \cap S
      /\ \A i, j \in DOMAIN k : i < j => <<k[i], k[j]>> \in R
  <2> HIDE DEF T, R, S
  <2> QED
    BY <1>1, <1>2, KeptSelects
<1>4. Encoded(zeros, msg) = k \o u
  BY DEF Encoded, s
<1>5. ToSet(s) \cap S = {<<i, msg.known[i]>> : i \in W}
  <2>1. \A i \in 1 .. v : s[i] \in S <=> i \in W
    BY <1>1
  <2>2. ToSet(s) = {s[i] : i \in 1 .. v}
    BY <1>1 DEF ToSet
  <2>3. ToSet(s) \cap S = {s[i] : i \in W}
    <3>1. W \subseteq 1 .. v
      OBVIOUS
    <3> HIDE DEF S, W
    <3> QED
      BY <2>1, <2>2, <3>1
  <2>4. \A i \in W : s[i] = <<i, msg.known[i]>>
    BY <1>1
  <2> HIDE DEF S, W
  <2> QED
    BY <2>3, <2>4
<1> HIDE DEF k, S
<1>6. ToSet(k) \subseteq Pairs /\ \A p \in ToSet(k) : p[1] <= v
  BY <1>3, <1>5 DEF Pairs
<1>7. /\ Len(k) \in Nat /\ DOMAIN k = 1 .. Len(k) /\ \A i \in DOMAIN k : k[i] \in ToSet(k)
      /\ u \in Seq(Pairs) /\ Len(u) \in Nat /\ DOMAIN u = 1 .. Len(u) /\ \A i \in DOMAIN u : u[i] \in ToSet(u)
  BY <1>3 DEF Ascending, ToSet
<1>8. k \in Seq(Pairs)
  <2>1. k \in [1 .. Len(k) -> Pairs]
    BY <1>3, <1>6, <1>7
  <2> QED
    BY <2>1, <1>7
<1> DEFINE all == k \o u
<1>9. /\ all \in Seq(Pairs) /\ Len(all) = Len(k) + Len(u) /\ DOMAIN all = 1 .. Len(k) + Len(u)
      /\ \A i \in 1 .. Len(k) : all[i] = k[i]
      /\ \A i \in 1 .. Len(k) + Len(u) : i > Len(k) => all[i] = u[i - Len(k)]
  BY <1>7, <1>8
<1> HIDE DEF all
<1>10. ToSet(all) = ToSet(k) \cup ToSet(u)
  <2>1. \A i \in 1 .. Len(k) + Len(u) : i \in 1 .. Len(k) \/ (i > Len(k) /\ i - Len(k) \in 1 .. Len(u))
    BY <1>7
  <2>2. \A j \in 1 .. Len(u) : j + Len(k) \in 1 .. Len(k) + Len(u) /\ j + Len(k) > Len(k) /\ j + Len(k) - Len(k) = j
    BY <1>7
  <2>3. \A i \in 1 .. Len(k) : i \in 1 .. Len(k) + Len(u)
    BY <1>7
  <2>4. ToSet(all) \subseteq ToSet(k) \cup ToSet(u)
    BY <1>7, <1>9, <2>1 DEF ToSet
  <2>5. ToSet(k) \subseteq ToSet(all)
    BY <1>7, <1>9, <2>3 DEF ToSet
  <2>6. ToSet(u) \subseteq ToSet(all)
    <3>1. \A j \in DOMAIN u : all[j + Len(k)] = u[j] /\ j + Len(k) \in DOMAIN all
      BY <1>7, <1>9, <2>2
    <3>2. \A j \in DOMAIN u : u[j] \in {all[i] : i \in DOMAIN all}
      <4> HIDE DEF u
      <4> QED
        BY <3>1
    <3> QED
      BY <3>2 DEF ToSet
  <2> QED
    BY <2>4, <2>5, <2>6
<1>11. ASSUME NEW i \in DOMAIN all, NEW j \in DOMAIN all, i < j PROVE all[i][1] < all[j][1]
  <2>1. \A p \in Pairs : p[1] \in Nat
    BY DEF Pairs
  <2>2. CASE j <= Len(k)
    <3>1. i \in DOMAIN k /\ j \in DOMAIN k /\ all[i] = k[i] /\ all[j] = k[j]
      BY <1>7, <1>9, <1>11, <2>2
    <3> QED
      BY <3>1, <1>3, <1>11
  <2>3. CASE i > Len(k)
    <3>1. /\ i - Len(k) \in DOMAIN u /\ j - Len(k) \in DOMAIN u /\ i - Len(k) < j - Len(k)
          /\ all[i] = u[i - Len(k)] /\ all[j] = u[j - Len(k)]
      BY <1>7, <1>9, <1>11, <2>3, SMTT(30)
    <3> QED
      BY <3>1 DEF Ascending
  <2>4. CASE i <= Len(k) /\ j > Len(k)
    <3>1. i \in DOMAIN k /\ j - Len(k) \in DOMAIN u /\ all[i] = k[i] /\ all[j] = u[j - Len(k)]
      BY <1>7, <1>9, <1>11, <2>4
    <3>2. all[i][1] <= v /\ all[j][1] > v /\ all[i][1] \in Nat /\ all[j][1] \in Nat
      BY <3>1, <1>6, <1>7, <1>9, <2>1
    <3> QED
      BY <3>2
  <2> QED
    BY <1>7, <1>9, <2>2, <2>3, <2>4
<1>12. all = Encoded(zeros, msg)
  BY <1>4 DEF all
<1> QED
  BY <1>3, <1>5, <1>9, <1>10, <1>11, <1>12 DEF Ascending

\* Unmarshal finds each known field, and keeps the others in order.
LEMMA UnmarshalReads ==
  ASSUME NEW v \in Nat, NEW f, Ascending(f)
  PROVE  LET msg == Unmarshal(v, f)
         IN  /\ msg.known \in [1 .. v -> FieldValues]
             /\ \A i \in 1 .. v : /\ \A x \in FieldValues : <<i, x>> \in ToSet(f) => msg.known[i] = x
                                  /\ msg.known[i] # 0 => <<i, msg.known[i]>> \in ToSet(f)
             /\ Ascending(msg.unrecognized)
             /\ ToSet(msg.unrecognized) = {p \in ToSet(f) : p[1] > v}
<1> DEFINE msg == Unmarshal(v, f)
           S == (Nat \ 1 .. v) \X FieldValues
           R == {pq \in Pairs \X Pairs : pq[1][1] < pq[2][1]}
           At(i) == CHOOSE j \in DOMAIN f : f[j][1] = i
<1>1. f \in Seq(Pairs) /\ Len(f) \in Nat /\ DOMAIN f = 1 .. Len(f) /\ \A i \in DOMAIN f : f[i] \in Pairs
  BY DEF Ascending
<1>2. \A p \in Pairs : /\ p[1] \in Nat \ {0} /\ p[2] \in FieldValues /\ p = <<p[1], p[2]>>
                       /\ p \in S <=> p[1] > v
  BY DEF Pairs
<1>3. \A i \in 1 .. v : msg.known[i] = IF \E j \in DOMAIN f : f[j][1] = i THEN f[At(i)][2] ELSE 0
  BY DEF Unmarshal
<1>4. ASSUME NEW i \in 1 .. v, NEW j \in DOMAIN f, f[j][1] = i PROVE msg.known[i] = f[j][2]
  <2>1. At(i) \in DOMAIN f /\ f[At(i)][1] = i
    BY <1>4
  <2> DEFINE k == At(i)
  <2>2. k \in DOMAIN f /\ f[k][1] = i /\ msg.known[i] = f[k][2]
    BY <2>1, <1>3, <1>4
  <2> HIDE DEF k
  <2>3. ~(k < j) /\ ~(j < k)
    <3>1. f[j][1] \in Nat /\ f[k][1] \in Nat
      BY <1>1, <1>2, <2>2
    <3>2. ~(f[j][1] < f[k][1]) /\ ~(f[k][1] < f[j][1])
      BY <3>1, <2>2, <1>4
    <3> QED
      BY <3>2, <2>2, <1>4 DEF Ascending
  <2>4. k = j
    BY <2>2, <2>3, <1>1
  <2> QED
    BY <2>2, <2>4
<1>5. \A i \in 1 .. v : (\A j \in DOMAIN f : f[j][1] # i) => msg.known[i] = 0
  BY <1>3
<1>6. msg.known \in [1 .. v -> FieldValues]
  <2>1. msg.known = [i \in 1 .. v |-> msg.known[i]]
    BY DEF Unmarshal
  <2>2. \A i \in 1 .. v : msg.known[i] \in FieldValues
    BY <1>1, <1>2, <1>4, <1>5, SigningAssumption
  <2> HIDE DEF msg
  <2> QED
    BY <2>1, <2>2
<1>7. ASSUME NEW i \in 1 .. v
      PROVE  /\ \A x \in FieldValues : <<i, x>> \in ToSet(f) => msg.known[i] = x
             /\ msg.known[i] # 0 => <<i, msg.known[i]>> \in ToSet(f)
  <2> HIDE DEF msg, At
  <2>1. ASSUME NEW x \in FieldValues, <<i, x>> \in ToSet(f) PROVE msg.known[i] = x
    <3>1. PICK j \in DOMAIN f : f[j] = <<i, x>>
      BY <2>1 DEF ToSet
    <3> QED
      BY <3>1, <1>4
  <2>2. ASSUME msg.known[i] # 0 PROVE <<i, msg.known[i]>> \in ToSet(f)
    <3>1. PICK j \in DOMAIN f : f[j][1] = i
      BY <2>2, <1>5
    <3>2. f[j] = <<i, msg.known[i]>>
      BY <3>1, <1>1, <1>2, <1>4, <2>2
    <3> QED
      BY <3>2 DEF ToSet
  <2> QED
    BY <2>1, <2>2
<1>8. \A i, j \in DOMAIN f : i < j => <<f[i], f[j]>> \in R
  BY <1>1 DEF Ascending
<1>9. msg.unrecognized = Kept(f, S)
  BY DEF Unmarshal
<1> HIDE DEF S, msg
<1>10. /\ Kept(f, S) \in Seq(Pairs) /\ ToSet(Kept(f, S)) = ToSet(f) \cap S
       /\ \A i, j \in DOMAIN Kept(f, S) : i < j => <<Kept(f, S)[i], Kept(f, S)[j]>> \in R
  BY <1>1, <1>8, KeptSelects
<1>11. Ascending(msg.unrecognized)
  BY <1>9, <1>10 DEF Ascending
<1>12. ToSet(f) \cap S = {p \in ToSet(f) : p[1] > v}
  BY <1>1, <1>2 DEF ToSet
<1> QED
  BY <1>6, <1>7, <1>9, <1>10, <1>11, <1>12 DEF msg

\* A program of any version that reads fields and writes them again keeps all it does not
\* know and all that are not zero; the fields in zeros are written though they are zero.
LEMMA RelayKeeps ==
  ASSUME NEW v \in Nat, NEW f, Ascending(f), NEW zeros
  PROVE  LET again == Encoded(zeros, Unmarshal(v, f))
         IN  /\ Ascending(again)
             /\ \A p \in ToSet(f) : p[1] > v \/ Written(zeros, p) => p \in ToSet(again)
             /\ \A p \in ToSet(again) : p[1] > v \/ p[2] # 0 => p \in ToSet(f)
             /\ \A p \in ToSet(again) : p[1] > v \/ Written(zeros, p)
             /\ \A i \in 1 .. v : i \in zeros => \E x \in FieldValues : <<i, x>> \in ToSet(again)
<1> DEFINE msg == Unmarshal(v, f)
           again == Encoded(zeros, msg)
<1>1. /\ msg.known \in [1 .. v -> FieldValues]
      /\ \A i \in 1 .. v : /\ \A x \in FieldValues : <<i, x>> \in ToSet(f) => msg.known[i] = x
                           /\ msg.known[i] # 0 => <<i, msg.known[i]>> \in ToSet(f)
      /\ Ascending(msg.unrecognized)
      /\ ToSet(msg.unrecognized) = {p \in ToSet(f) : p[1] > v}
  BY UnmarshalReads
<1> HIDE DEF msg
<1>2. /\ Ascending(again)
      /\ ToSet(again) = {<<i, msg.known[i]>> : i \in {j \in 1 .. v : msg.known[j] # 0 \/ j \in zeros}}
                        \cup ToSet(msg.unrecognized)
  BY <1>1, MarshalOrders
<1> HIDE DEF again
<1>3. ToSet(f) \subseteq Pairs
  BY DEF Ascending, ToSet
<1>4. ASSUME NEW p \in ToSet(f), p[1] > v \/ Written(zeros, p) PROVE p \in ToSet(again)
  <2>1. CASE p[1] > v
    BY <2>1, <1>1, <1>2
  <2>2. CASE ~(p[1] > v)
    <3>1. p[1] \in 1 .. v /\ p[2] \in FieldValues /\ p = <<p[1], p[2]>>
      BY <1>3, <2>2 DEF Pairs
    <3>2. msg.known[p[1]] = p[2]
      BY <3>1, <1>1
    <3>3. msg.known[p[1]] # 0 \/ p[1] \in zeros
      BY <3>2, <1>4, <2>2 DEF Written
    <3>4. <<p[1], msg.known[p[1]]>> \in ToSet(again)
      BY <3>1, <3>3, <1>2
    <3> QED
      BY <3>1, <3>2, <3>4
  <2> QED
    BY <2>1, <2>2
<1>5. ASSUME NEW p \in ToSet(again)
      PROVE  /\ p[1] > v \/ p[2] # 0 => p \in ToSet(f)
             /\ p[1] > v \/ Written(zeros, p)
  <2>1. CASE p \in ToSet(msg.unrecognized)
    BY <2>1, <1>1
  <2>2. CASE p \notin ToSet(msg.unrecognized)
    <3>1. PICK i \in 1 .. v : p = <<i, msg.known[i]>> /\ (msg.known[i] # 0 \/ i \in zeros)
      BY <2>2, <1>2
    <3>2. p[1] = i /\ p[2] = msg.known[i] /\ ~(i > v)
      BY <3>1
    <3> QED
      BY <3>1, <3>2, <1>1 DEF Written
  <2> QED
    BY <2>1, <2>2
<1>6. ASSUME NEW i \in 1 .. v, i \in zeros PROVE \E x \in FieldValues : <<i, x>> \in ToSet(again)
  BY <1>1, <1>2, <1>6
<1> QED
  BY <1>2, <1>4, <1>5, <1>6 DEF msg, again

\* The fields a signature is about.
Core(f) == {p \in ToSet(f) : Written(AlwaysFields, p)}

\* The fields that are always signed are there.
Complete(f) == \A i \in AlwaysFields : \E x \in FieldValues : <<i, x>> \in ToSet(f)

\* A message on its way is in order and has the fields that are always signed; it has no
\* signature but the one of what was signed, and says what was signed until somebody changes
\* it; a verdict is about that message.
SignInv ==
  /\ changed \in BOOLEAN
  /\ wire # NoMsg =>
       /\ signed.version \in MsgVersions /\ signed.key \in SignKeys \ {0}
       /\ signed.fields \in [1 .. signed.version -> FieldValues]
       /\ wire.kind \in MsgKinds /\ wire = [kind |-> wire.kind, fields |-> wire.fields, sig |-> wire.sig]
       /\ Ascending(wire.fields) /\ Complete(wire.fields)
       /\ wire.sig \in {NoMsg, HashAndSign(signed.key, SignedBytes)}
       /\ ~changed => /\ Core(wire.fields) = ToSet(SignedBytes)
                      /\ wire.sig = HashAndSign(signed.key, SignedBytes)
  /\ verdict # NoMsg =>
       /\ wire # NoMsg /\ verdict.version \in MsgVersions /\ verdict.fields = wire.fields
       /\ verdict.ok <=> VerifySignature(wire.kind, verdict.key, Unmarshal(verdict.version, wire.fields), wire.sig)

\* Nothing is signed at first.
LEMMA SignStart == SignInit => SignInv
BY DEF SignInit, SignInv

\* What is written without unknown fields is in order.
LEMMA MarshalKnown ==
  ASSUME NEW v \in Nat, NEW zeros, NEW fields \in [1 .. v -> FieldValues]
  PROVE  LET bytes == Encoded(zeros, [known |-> fields, unrecognized |-> <<>>])
         IN  /\ Ascending(bytes)
             /\ ToSet(bytes) = {<<i, fields[i]>> : i \in {j \in 1 .. v : fields[j] # 0 \/ j \in zeros}}
<1> DEFINE msg == [known |-> fields, unrecognized |-> <<>>]
<1>1. msg.known = fields /\ msg.unrecognized = <<>>
  OBVIOUS
<1>2. Ascending(<<>>) /\ ToSet(<<>>) = {}
  BY DEF Ascending, ToSet
<1> HIDE DEF msg
<1>3. /\ Ascending(Encoded(zeros, msg))
      /\ ToSet(Encoded(zeros, msg)) = {<<i, fields[i]>> : i \in {j \in 1 .. v : fields[j] # 0 \/ j \in zeros}} \cup {}
  BY <1>1, <1>2, MarshalOrders
<1> QED
  BY <1>3 DEF msg

\* Whatever the kind, a message is written with the fields that are always signed.
LEMMA MarshalZeros ==
  ASSUME NEW kind
  PROVE  \E zeros : /\ AlwaysFields \subseteq zeros /\ \A msg : Marshal(kind, msg) = Encoded(zeros, msg)
<1> DEFINE zeros == IF kind \in {"limit", "hash"} THEN AlwaysFields \cup NonNullFields ELSE AlwaysFields
<1>1. AlwaysFields \subseteq zeros
  OBVIOUS
<1>2. \A msg : Marshal(kind, msg) = Encoded(zeros, msg)
  BY DEF Marshal
<1> QED
  BY <1>1, <1>2

\* A message with known fields in order is written in order and complete.
LEMMA MarshalComplete ==
  ASSUME NEW kind, NEW v \in MsgVersions, NEW msg, msg.known \in [1 .. v -> FieldValues],
         Ascending(msg.unrecognized), \A p \in ToSet(msg.unrecognized) : p[1] > v
  PROVE  Ascending(Marshal(kind, msg)) /\ Complete(Marshal(kind, msg))
<1>1. v \in Nat /\ AlwaysFields \subseteq 1 .. v
  BY SigningAssumption
<1>2. PICK zeros : AlwaysFields \subseteq zeros /\ Marshal(kind, msg) = Encoded(zeros, msg)
  BY MarshalZeros
<1>3. /\ Ascending(Encoded(zeros, msg))
      /\ ToSet(Encoded(zeros, msg)) =
           {<<i, msg.known[i]>> : i \in {j \in 1 .. v : msg.known[j] # 0 \/ j \in zeros}}
             \cup ToSet(msg.unrecognized)
  BY <1>1, MarshalOrders
<1>4. ASSUME NEW i \in AlwaysFields PROVE \E x \in FieldValues : <<i, x>> \in ToSet(Encoded(zeros, msg))
  <2>1. i \in 1 .. v /\ i \in zeros
    BY <1>1, <1>2
  <2>2. msg.known[i] \in FieldValues
    BY <2>1
  <2>3. <<i, msg.known[i]>> \in ToSet(Encoded(zeros, msg))
    BY <1>3, <2>1
  <2> QED
    BY <2>2, <2>3
<1> QED
  BY <1>2, <1>3, <1>4 DEF Complete

\* Signing, passing on, changing and verifying keep it.
LEMMA SignStep == SignInv /\ [SignNext]_signVars => SignInv'
<1> SUFFICES ASSUME SignInv, [SignNext]_signVars PROVE SignInv'
  OBVIOUS
<1>1. CASE UNCHANGED signVars
  <2>1. SignedBytes' = SignedBytes
    BY <1>1 DEF signVars, SignedBytes
  <2> QED
    BY <1>1, <2>1 DEF signVars, SignInv
<1>2. ASSUME NEW kind \in MsgKinds, NEW version \in MsgVersions, NEW key \in SignKeys,
             NEW fields \in [1 .. version -> FieldValues], Sign(kind, version, fields, key)
      PROVE  SignInv'
  <2> DEFINE msg == [known |-> fields, unrecognized |-> <<>>]
             bytes == Marshal(kind, msg)
             toSign == EncodeForSigning(msg)
  <2>1. version \in Nat
    BY SigningAssumption
  <2>2. Ascending(bytes) /\ Complete(bytes)
    <3>1. msg.known = fields /\ msg.unrecognized = <<>>
      OBVIOUS
    <3>2. Ascending(<<>>) /\ ToSet(<<>>) = {}
      BY DEF Ascending, ToSet
    <3> HIDE DEF msg
    <3> QED
      BY <3>1, <3>2, MarshalComplete
  <2>3. /\ wire = NoMsg /\ key # 0 /\ UNCHANGED <<changed, verdict>>
        /\ wire' = [kind |-> kind, fields |-> bytes, sig |-> HashAndSign(key, toSign)]
        /\ signed' = [kind |-> kind, key |-> key, version |-> version, fields |-> fields]
    BY <1>2 DEF Sign
  <2>4. SignedBytes' = toSign
    BY <2>3 DEF SignedBytes
  <2>5. Core(bytes) = ToSet(toSign)
    <3>1. PICK zeros : AlwaysFields \subseteq zeros /\ bytes = Encoded(zeros, msg)
      BY MarshalZeros
    <3>2. ToSet(bytes) = {<<i, fields[i]>> : i \in {j \in 1 .. version : fields[j] # 0 \/ j \in zeros}}
      BY <2>1, <3>1, MarshalKnown
    <3>3. ToSet(toSign) = {<<i, fields[i]>> : i \in {j \in 1 .. version : fields[j] # 0 \/ j \in AlwaysFields}}
      BY <2>1, MarshalKnown DEF EncodeForSigning
    <3> HIDE DEF bytes, toSign, msg
    <3>4. ASSUME NEW p \in ToSet(bytes), Written(AlwaysFields, p) PROVE p \in ToSet(toSign)
      <4>1. PICK i \in 1 .. version : p = <<i, fields[i]>>
        BY <3>2
      <4>2. fields[i] # 0 \/ i \in AlwaysFields
        BY <3>4, <4>1 DEF Written
      <4> QED
        BY <4>1, <4>2, <3>3
    <3>5. ASSUME NEW p \in ToSet(toSign) PROVE p \in ToSet(bytes) /\ Written(AlwaysFields, p)
      <4>1. PICK i \in 1 .. version : p = <<i, fields[i]>> /\ (fields[i] # 0 \/ i \in AlwaysFields)
        BY <3>3
      <4>2. i \in {j \in 1 .. version : fields[j] # 0 \/ j \in zeros}
        BY <4>1, <3>1
      <4> QED
        BY <4>1, <4>2, <3>2 DEF Written
    <3> QED
      BY <3>4, <3>5 DEF Core
  <2> HIDE DEF bytes, toSign
  <2>6. verdict = NoMsg
    BY <2>3 DEF SignInv
  <2> QED
    BY <2>2, <2>3, <2>4, <2>5, <2>6 DEF SignInv
<1>3. ASSUME NEW version \in MsgVersions, Relay(version) PROVE SignInv'
  <2> DEFINE f == wire.fields
             new == Marshal(wire.kind, Unmarshal(version, f))
  <2>1. /\ version \in Nat /\ wire # NoMsg /\ verdict = NoMsg /\ UNCHANGED <<signed, changed, verdict>>
        /\ AlwaysFields \subseteq 1 .. version /\ Ascending(f) /\ Complete(f)
    BY <1>3, SigningAssumption DEF Relay, SignInv
  <2>2. PICK zeros : AlwaysFields \subseteq zeros /\ new = Encoded(zeros, Unmarshal(version, f))
    BY MarshalZeros
  <2>3. wire' = [wire EXCEPT !.fields = new]
    BY <1>3 DEF Relay
  <2> HIDE DEF new, f
  <2>4. /\ Ascending(new)
        /\ \A p \in ToSet(f) : p[1] > version \/ Written(zeros, p) => p \in ToSet(new)
        /\ \A p \in ToSet(new) : p[1] > version \/ p[2] # 0 => p \in ToSet(f)
        /\ \A i \in 1 .. version : i \in zeros => \E x \in FieldValues : <<i, x>> \in ToSet(new)
    BY <2>1, <2>2, RelayKeeps
  <2>5. Complete(new)
    BY <2>1, <2>2, <2>4 DEF Complete
  <2>6. ToSet(f) \subseteq Pairs /\ ToSet(new) \subseteq Pairs
    BY <2>1, <2>4 DEF Ascending, ToSet
  <2>7. \A p, q \in ToSet(new) : p[1] = q[1] => p = q
    <3> SUFFICES ASSUME NEW p \in ToSet(new), NEW q \in ToSet(new), p[1] = q[1] PROVE p = q
      OBVIOUS
    <3>1. PICK i, j \in DOMAIN new : new[i] = p /\ new[j] = q
      BY DEF ToSet
    <3>2. i \in Nat /\ j \in Nat /\ p[1] \in Nat
      BY <2>4, <2>6 DEF Ascending, Pairs
    <3>3. ~(i < j) /\ ~(j < i)
      BY <2>4, <3>1, <3>2 DEF Ascending
    <3> QED
      BY <3>1, <3>2, <3>3
  <2>8. Core(new) = Core(f)
    <3>1. ASSUME NEW p \in ToSet(f), Written(AlwaysFields, p) PROVE p \in ToSet(new)
      BY <3>1, <2>2, <2>4 DEF Written
    <3>2. ASSUME NEW p \in ToSet(new), Written(AlwaysFields, p) PROVE p \in ToSet(f)
      <4>1. CASE p[2] # 0
        BY <4>1, <2>4
      <4>2. CASE p[1] \in AlwaysFields
        <5>1. PICK x \in FieldValues : <<p[1], x>> \in ToSet(f)
          BY <4>2, <2>1 DEF Complete
        <5>2. <<p[1], x>> \in ToSet(new)
          BY <5>1, <4>2, <3>1 DEF Written
        <5>3. p = <<p[1], x>>
          BY <5>2, <2>7
        <5> QED
          BY <5>1, <5>3
      <4> QED
        BY <3>2, <4>1, <4>2 DEF Written
    <3> QED
      BY <3>1, <3>2 DEF Core
  <2>9. SignedBytes' = SignedBytes
    BY <2>1 DEF SignedBytes
  <2>10. /\ wire' = [kind |-> wire'.kind, fields |-> wire'.fields, sig |-> wire'.sig]
         /\ wire'.kind = wire.kind /\ wire'.sig = wire.sig /\ wire'.fields = new
    <3>1. wire = [kind |-> wire.kind, fields |-> wire.fields, sig |-> wire.sig]
      BY <2>1 DEF SignInv
    <3> QED
      BY <2>3, <3>1
  <2>11. wire' # NoMsg => /\ ~changed' => /\ Core(wire'.fields) = ToSet(SignedBytes)
                                        /\ wire'.sig = HashAndSign(signed.key, SignedBytes)
    BY <2>1, <2>8, <2>10 DEF SignInv, f
  <2> QED
    BY <2>1, <2>4, <2>5, <2>9, <2>10, <2>11 DEF SignInv
<1>4. ASSUME NEW version \in MsgVersions, RelayChanged(version) PROVE SignInv'
  <2> DEFINE msg == Unmarshal(version, wire.fields)
  <2>1. /\ version \in Nat /\ wire # NoMsg /\ verdict = NoMsg /\ UNCHANGED <<signed, verdict>> /\ changed' = TRUE
        /\ Ascending(wire.fields) /\ Complete(wire.fields)
    BY <1>4, SigningAssumption DEF RelayChanged, SignInv
  <2>2. /\ msg.known \in [1 .. version -> FieldValues] /\ Ascending(msg.unrecognized)
        /\ \A p \in ToSet(msg.unrecognized) : p[1] > version
        /\ msg = [known |-> msg.known, unrecognized |-> msg.unrecognized]
    <3>1. msg = [known |-> msg.known, unrecognized |-> msg.unrecognized]
      BY DEF Unmarshal
    <3> HIDE DEF msg
    <3> QED
      BY <2>1, <3>1, UnmarshalReads DEF msg
  <2>3. \/ \E i \in 1 .. version, v \in FieldValues :
             wire' = [wire EXCEPT !.fields = Marshal(wire.kind, [msg EXCEPT !.known[i] = v])]
        \/ wire' = [wire EXCEPT !.fields = Marshal(wire.kind, [msg EXCEPT !.unrecognized = <<>>])]
        \/ wire' = [wire EXCEPT !.sig = NoMsg]
    BY <1>4 DEF RelayChanged
  <2> HIDE DEF msg
  <2> DEFINE Good(new) == Ascending(Marshal(wire.kind, new)) /\ Complete(Marshal(wire.kind, new))
  <2>4. ASSUME NEW i \in 1 .. version, NEW v \in FieldValues PROVE Good([msg EXCEPT !.known[i] = v])
    <3> DEFINE new == [msg EXCEPT !.known[i] = v]
    <3>1. new.known \in [1 .. version -> FieldValues] /\ new.unrecognized = msg.unrecognized
      BY <2>2
    <3> HIDE DEF new
    <3> QED
      BY <3>1, <2>2, MarshalComplete DEF new
  <2>5. Good([msg EXCEPT !.unrecognized = <<>>])
    <3> DEFINE new == [msg EXCEPT !.unrecognized = <<>>]
    <3>1. new.known = msg.known /\ new.unrecognized = <<>>
      BY <2>2
    <3>2. Ascending(<<>>) /\ ToSet(<<>>) = {}
      BY DEF Ascending, ToSet
    <3> HIDE DEF new
    <3> QED
      BY <3>1, <3>2, <2>2, MarshalComplete DEF new
  <2>6. /\ wire' = [kind |-> wire'.kind, fields |-> wire'.fields, sig |-> wire'.sig]
        /\ wire'.kind = wire.kind /\ wire'.sig \in {wire.sig, NoMsg}
        /\ Ascending(wire'.fields) /\ Complete(wire'.fields)
    <3>1. wire = [kind |-> wire.kind, fields |-> wire.fields, sig |-> wire.sig]
      BY <2>1 DEF SignInv
    <3> QED
      BY <3>1, <2>1, <2>3, <2>4, <2>5
  <2>7. SignedBytes' = SignedBytes
    BY <2>1 DEF SignedBytes
  <2> QED
    BY <2>1, <2>6, <2>7 DEF SignInv
<1>5. ASSUME NEW version \in MsgVersions, NEW key \in SignKeys, Verify(version, key) PROVE SignInv'
  <2> DEFINE ok == VerifySignature(wire.kind, key, Unmarshal(version, wire.fields), wire.sig)
  <2>1. /\ wire # NoMsg /\ UNCHANGED <<wire, signed, changed>>
        /\ verdict' = [key |-> key, version |-> version, fields |-> wire.fields, ok |-> ok]
    BY <1>5 DEF Verify
  <2>2. SignedBytes' = SignedBytes
    BY <2>1 DEF SignedBytes
  <2>3. VerifySignature(wire.kind, key, Unmarshal(version, wire.fields), wire.sig)' = ok
    BY <2>1
  <2>4. /\ verdict'.version = version /\ verdict'.fields = wire.fields /\ verdict'.key = key
        /\ verdict'.ok = ok
    BY <2>1
  <2>5. ok' = ok
    BY <2>1
  <2> QED
    BY <2>1, <2>2, <2>4 DEF SignInv
<1> QED
  BY <1>1, <1>2, <1>3, <1>4, <1>5 DEF SignNext

\* What verifies is what was signed, and what was not changed verifies but for fields the
\* verifier does not know.
LEMMA SignPromise == SignInv => VerifiedAsSigned
<1> SUFFICES ASSUME SignInv, verdict # NoMsg
             PROVE  /\ verdict.ok =>
                         /\ verdict.key = signed.key
                         /\ \A i \in 1 .. signed.version :
                              Unmarshal(signed.version, verdict.fields).known[i] = signed.fields[i]
                    /\ ~changed /\ verdict.key = signed.key =>
                         (verdict.ok <=> \A p \in ToSet(verdict.fields) :
                                           p[1] > verdict.version => wire.kind \in {"limit", "exit"} /\ p[2] # 0)
  BY DEF VerifiedAsSigned
<1> DEFINE v == verdict.version
           f == wire.fields
           msg == Unmarshal(v, f)
           bytes == EncodeForSigning(msg)
           sig == HashAndSign(signed.key, SignedBytes)
<1>1. /\ v \in Nat /\ AlwaysFields \subseteq 1 .. v /\ signed.version \in Nat /\ signed.key \in SignKeys \ {0}
      /\ signed.fields \in [1 .. signed.version -> FieldValues]
      /\ AlwaysFields \subseteq 1 .. signed.version
      /\ Ascending(f) /\ verdict.fields = f /\ wire.kind \in MsgKinds
      /\ wire.sig \in {NoMsg, sig}
      /\ ~changed => Core(f) = ToSet(SignedBytes) /\ wire.sig = sig
      /\ verdict.ok <=> VerifySignature(wire.kind, verdict.key, msg, wire.sig)
      /\ Complete(f)
  BY SigningAssumption DEF SignInv
<1>2. /\ Ascending(SignedBytes)
      /\ ToSet(SignedBytes) =
           {<<i, signed.fields[i]>> : i \in {j \in 1 .. signed.version : signed.fields[j] # 0 \/ j \in AlwaysFields}}
  BY <1>1, MarshalKnown DEF SignedBytes, EncodeForSigning
<1>3. /\ Ascending(bytes)
      /\ \A p \in ToSet(f) : p[1] > v \/ Written(AlwaysFields, p) => p \in ToSet(bytes)
      /\ \A p \in ToSet(bytes) : p[1] > v \/ p[2] # 0 => p \in ToSet(f)
      /\ \A p \in ToSet(bytes) : p[1] > v \/ Written(AlwaysFields, p)
  BY <1>1, RelayKeeps DEF EncodeForSigning
<1>4. ToSet(msg.unrecognized) = {p \in ToSet(f) : p[1] > v} /\ Ascending(msg.unrecognized)
  BY <1>1, UnmarshalReads
<1> HIDE DEF msg, bytes
<1>5. ASSUME ToSet(bytes) = ToSet(SignedBytes), NEW i \in 1 .. signed.version
      PROVE  Unmarshal(signed.version, f).known[i] = signed.fields[i]
  <2> DEFINE known == Unmarshal(signed.version, f).known
  <2>0. signed.version \in Nat /\ Ascending(f)
    BY <1>1
  <2> HIDE DEF f
  <2>1. /\ known \in [1 .. signed.version -> FieldValues]
        /\ \A x \in FieldValues : <<i, x>> \in ToSet(f) => known[i] = x
        /\ known[i] # 0 => <<i, known[i]>> \in ToSet(f)
    BY <2>0, UnmarshalReads
  <2> HIDE DEF known
  <2>2. known[i] \in FieldValues /\ signed.fields[i] \in FieldValues
    BY <1>1, <2>1
  <2>3. CASE signed.fields[i] # 0
    <3> DEFINE p == <<i, signed.fields[i]>>
    <3>1. p \in ToSet(SignedBytes) /\ p[2] # 0
      BY <1>2, <2>3
    <3> HIDE DEF p
    <3>2. p \in ToSet(f)
      BY <3>1, <1>3, <1>5
    <3> QED
      BY <3>2, <2>1, <2>2 DEF p, known
  <2>4. CASE signed.fields[i] = 0
    <3> SUFFICES ASSUME known[i] # 0 PROVE FALSE
      BY <2>4 DEF known
    <3> DEFINE p == <<i, known[i]>>
    <3>1. p \in ToSet(f) /\ p[2] # 0 /\ p[1] = i /\ p[2] = known[i]
      BY <2>1
    <3> HIDE DEF p
    <3>2. p \in ToSet(SignedBytes)
      BY <3>1, <1>3, <1>5 DEF Written
    <3>3. PICK j \in 1 .. signed.version : p = <<j, signed.fields[j]>>
      BY <3>2, <1>2
    <3> QED
      BY <3>1, <3>3, <2>4
  <2> QED
    BY <2>3, <2>4
<1>6. ASSUME verdict.ok
      PROVE  /\ verdict.key = signed.key
             /\ \A i \in 1 .. signed.version : Unmarshal(signed.version, verdict.fields).known[i] = signed.fields[i]
  <2>1. wire.sig # NoMsg /\ wire.sig = HashAndSign(verdict.key, bytes)
    BY <1>1, <1>6 DEF VerifySignature, HashAndVerifySignature, bytes
  <2>2. bytes = SignedBytes /\ verdict.key = signed.key
    BY <1>1, <2>1 DEF HashAndSign
  <2> QED
    BY <1>1, <1>5, <2>2
<1>7. ASSUME ~changed, verdict.key = signed.key
      PROVE  verdict.ok <=> \A p \in ToSet(f) : p[1] > v => wire.kind \in {"limit", "exit"} /\ p[2] # 0
  <2>1. sig # NoMsg
    <3>1. SignedBytes \in Seq(Nat \X FieldValues)
      <4>1. SignedBytes \in Seq(Pairs) /\ Pairs \subseteq Nat \X FieldValues
        BY <1>2 DEF Ascending, Pairs
      <4>2. Len(SignedBytes) \in Nat /\ SignedBytes \in [1 .. Len(SignedBytes) -> Nat \X FieldValues]
        BY <4>1
      <4> QED
        BY <4>2
    <3> QED
      BY <3>1, <1>1, SigningAssumption DEF HashAndSign
  <2>2. HashAndVerifySignature(verdict.key, bytes, wire.sig) <=> bytes = SignedBytes
    BY <1>1, <1>7, <2>1 DEF HashAndVerifySignature, HashAndSign
  <2>3. msg.unrecognized = <<>> <=> ToSet(msg.unrecognized) = {}
    <3> DEFINE u == msg.unrecognized
    <3>1. u \in Seq(Pairs) /\ Len(u) \in Nat /\ DOMAIN u = 1 .. Len(u)
      BY <1>4 DEF Ascending
    <3> HIDE DEF u
    <3>2. u = <<>> => ToSet(u) = {}
      BY DEF ToSet
    <3>3. ToSet(u) = {} => u = <<>>
      <4> SUFFICES ASSUME Len(u) > 0 PROVE u[1] \in ToSet(u)
        BY <3>1
      <4> QED
        BY <3>1 DEF ToSet
    <3> QED
      BY <3>2, <3>3 DEF u
  <2>4. Core(f) = ToSet(SignedBytes)
    BY <1>1, <1>7
  <2>5. ASSUME NEW p \in ToSet(f), p[1] > v, p[2] = 0 PROVE bytes # SignedBytes
    <3>1. p \in ToSet(bytes)
      BY <2>5, <1>3
    <3>2. p[1] \notin AlwaysFields
      <4>1. AlwaysFields \subseteq 1 .. v /\ v \in Nat
        BY <1>1
      <4>2. \A n \in 1 .. v : ~(n > v)
        BY <4>1
      <4> QED
        BY <4>1, <4>2, <2>5
    <3>3. p \notin ToSet(SignedBytes)
      BY <2>4, <2>5, <3>2 DEF Core, Written
    <3> QED
      BY <3>1, <3>3
  <2>6. ASSUME \A p \in ToSet(f) : p[1] > v => p[2] # 0 PROVE bytes = SignedBytes
    <3>1. ASSUME NEW p \in Core(f) PROVE p \in ToSet(bytes)
      BY <1>3 DEF Core
    <3>2. ASSUME NEW p \in ToSet(bytes) PROVE p \in Core(f)
      <4>1. CASE p[1] > v \/ p[2] # 0
        BY <4>1, <1>3, <2>6 DEF Core, Written
      <4>2. CASE ~(p[1] > v) /\ p[2] = 0
        <5>1. p[1] \in AlwaysFields
          BY <4>2, <1>3 DEF Written
        <5>2. PICK x \in FieldValues : <<p[1], x>> \in ToSet(f)
          BY <5>1, <1>1 DEF Complete
        <5> DEFINE q == <<p[1], x>>
        <5>3. q \in ToSet(f) /\ q[1] = p[1] /\ q[1] \in AlwaysFields
          BY <5>1, <5>2
        <5> HIDE DEF q
        <5>4. q \in ToSet(bytes) /\ q \in Core(f)
          BY <5>3, <1>3 DEF Written, Core
        <5>5. q = p
          <6>1. PICK i, j \in DOMAIN bytes : bytes[i] = p /\ bytes[j] = q
            BY <5>4 DEF ToSet
          <6>2. i \in Nat /\ j \in Nat /\ p[1] \in Nat
            BY <6>1, <1>3 DEF Ascending, Pairs
          <6>3. ~(i < j) /\ ~(j < i)
            BY <1>3, <5>3, <6>1, <6>2 DEF Ascending
          <6> QED
            BY <6>1, <6>2, <6>3
        <5> QED
          BY <5>4, <5>5
      <4> QED
        BY <4>1, <4>2
    <3>3. ToSet(bytes) = ToSet(SignedBytes)
      BY <2>4, <3>1, <3>2 DEF Core
    <3> QED
      BY <1>2, <1>3, <3>3, SameFields
  <2>7. verdict.ok <=> /\ wire.kind \in {"order", "hash"} => msg.unrecognized = <<>>
                       /\ bytes = SignedBytes
    BY <1>1, <1>7, <2>2 DEF VerifySignature, bytes
  <2>8. bytes = SignedBytes <=> \A p \in ToSet(f) : p[1] > v => p[2] # 0
    BY <2>5, <2>6
  <2>9. msg.unrecognized = <<>> <=> \A p \in ToSet(f) : ~(p[1] > v)
    BY <2>3, <1>4
  <2>10. wire.kind \in {"order", "hash"} <=> wire.kind \notin {"limit", "exit"}
    BY <1>1 DEF MsgKinds
  <2> QED
    BY <2>7, <2>8, <2>9, <2>10
<1> QED
  BY <1>1, <1>6, <1>7

------------------------------------------------------------------------------
(* The whole. *)

WholeInv == IdentityInv /\ TrustInv /\ DialInv /\ SignInv /\ AtomicFileInv

\* Each part keeps to itself.
LEMMA WholeProjects ==
  [WholeNext]_wholeVars =>
    /\ [IdentityNext]_identityVars /\ [TrustNext]_trustVars
    /\ [DialNext]_dialVars /\ [SignNext]_signVars /\ [FileNext]_fileVars
BY DEF WholeNext, wholeVars

\* Identities, handshakes, dialers, messages and files stay as their invariants say, whatever happens.
THEOREM TrustInvariant == TrustSpec => []WholeInv
<1>1. WholeInit => WholeInv
  BY IdentityStart, TrustStart, DialStart, SignStart, FileStart DEF WholeInit, WholeInv
<1>2. WholeInv /\ [WholeNext]_wholeVars => WholeInv'
  BY WholeProjects, IdentityStep, TrustStep, DialStep, SignStep, FileStep DEF WholeInv
<1> QED
  BY <1>1, <1>2, PTL DEF TrustSpec

\* Through any number of generating goroutines, CAs, identities, revocations, extensions,
\* saves over one another, crashes and loads, a CA and an identity have the keys, ids and
\* signatures that belong together, as long as no Save of the files they come from was cut
\* (certificate_authority.go:89-194, identity.go:136-181, 326-372).
THEOREM IdentityKept == TrustSpec => []IdentityConsistent
<1>1. WholeInv => IdentityConsistent
  BY IdentityPromise DEF WholeInv
<1> QED
  BY <1>1, TrustInvariant, PTL

\* A handshake accepts only the peer that was asked for, for any chains of at least one
\* certificate that peers may present and any TLS options (peertls.go:48-86, tls.go:34-90).
THEOREM HandshakeTrusts == TrustSpec => []AcceptedIsTrusted
<1>1. WholeInv => AcceptedIsTrusted
  BY TrustPromise DEF WholeInv
<1> QED
  BY <1>1, TrustInvariant, PTL

\* Whatever the order of the handlers and the number of concurrent handshakes, an accepted
\* peer's own revocation is its CA's, not older than the known one, and stored; revocations
\* may have the same time, and CAs revocations of their own (options.go:144-156,
\* revocations.go:120-125).
THEOREM RevocationsAreTaken == TrustSpec => []RevocationsTaken
<1>1. WholeInv => RevocationsTaken
  BY TrustPromise DEF WholeInv
<1> QED
  BY <1>1, TrustInvariant, PTL

\* For any number of calls, dialers, addresses and servers that move between them, the
\* connection a call uses leads to what the call asked for, and is its alone
\* (dial.go:101-228, pool.go:90-155).
THEOREM DialerKeepsPromise == TrustSpec => []DialedAsAsked
<1>1. WholeInv => DialedAsAsked
  BY DialPromise DEF WholeInv
<1> QED
  BY <1>1, TrustInvariant, PTL

\* For any number of writers, with any step failing and the process ending anywhere, a file
\* is whole (atomic.go:15-49).
THEOREM FileStaysWhole == TrustSpec => []FileWhole
<1>1. WholeInv => FileWhole
  BY DEF WholeInv, AtomicFileInv
<1> QED
  BY <1>1, TrustInvariant, PTL

\* For any fields, values, keys and versions of the programs on the way, a signature
\* verifies what was signed and nothing else (encode.go:13-109, verify.go:20-115).
THEOREM SignedIsVerified == TrustSpec => []VerifiedAsSigned
<1>1. WholeInv => VerifiedAsSigned
  BY SignPromise DEF WholeInv
<1> QED
  BY <1>1, TrustInvariant, PTL
==============================================================================
