-------------------------------- MODULE Dialer --------------------------------
(***************************************************************************)
(* rpc.Dialer over a shared rpcpool.Pool: who is at the other end of the connections   *)
(* that calls get. Dialers with different TLS options, and calls of all four kinds,    *)
(* share one pool, while what answers at an address changes.                           *)
(*                                                                                     *)
(* The pool is what ConnOwner promises of it: a connection is given out under the key  *)
(* it was put back with, to one user at a time; it may close one at any time. Whether  *)
(* a handshake accepts a peer is PeerTrust's; here a server is the node id and the     *)
(* host name it can prove, "" for none.                                                *)
(***************************************************************************)
EXTENDS Integers, FiniteSets

CONSTANTS
  Calls,        \* connections returned by the Dialer, and the goroutines that use them
  DialerTLS,    \* TLSOptions of the dialers
  DialNodes,    \* node ids
  Addresses,    \* addresses; the host name of an address is the address
  WithPort,     \* the addresses that net.SplitHostPort can split
  ServerNames,  \* ServerNames that HostnameTLSConfigs of the dialers have
  Servers,      \* [id, name, tls]: what may answer, and whether it speaks TLS
  MaxConns,     \* bound on the number of connections made
  Nothing       \* no TLSOptions, no id, no name

VARIABLES
  serverAt,     \* what answers at each address
  pool,         \* idle connections: [key, tls, conn]
  calls,        \* [pc, key, tls, address, verify, conn] of each call
  made          \* number of connections made

dialVars == <<serverAt, pool, calls, made>>

NoCall == [pc |-> "idle", key |-> Nothing, tls |-> Nothing, address |-> Nothing, verify |-> Nothing, conn |-> Nothing]

PoolKey(kind, of) == [kind |-> kind, of |-> of]
Verification(by, name) == [by |-> by, name |-> name]

\* dialPool: the key and the TLS options choose the connection, the rest makes a new one.
DialPool(c, key, opts, address, verify) ==
  /\ calls[c].pc = "idle"
  /\ calls' = [calls EXCEPT ![c] = [pc |-> "get", key |-> key, tls |-> opts, address |-> address,
                                    verify |-> verify, conn |-> Nothing]]
  /\ UNCHANGED <<serverAt, pool, made>>

\* Bug form: keyed by the address, which may answer as another node later.
DialNodeURLByAddress(c, opts, id, address) ==
  opts # Nothing /\ DialPool(c, PoolKey("node", address), opts, address, Verification("id", id))

\* The key has no address: a node is the same node wherever it answers.
DialNodeURL(c, opts, id, address) ==
  opts # Nothing /\ DialPool(c, PoolKey("node", id), opts, address, Verification("id", id))

DialAddressInsecure(c, opts, address) ==
  opts # Nothing /\ DialPool(c, PoolKey("insecure", address), opts, address, Verification("any", Nothing))

\* TLSOptions are cleared, so that dialers with different options share connections. The name
\* to verify is the HostnameTLSConfig's, or else the host of the address, an error if it has
\* no port; the key does not have it.
DialAddressHostnameVerification(c, serverName, address) ==
  /\ serverName # Nothing \/ address \in WithPort
  /\ DialPool(c, PoolKey("hostname", address), Nothing, address,
              Verification("host", IF serverName # Nothing THEN serverName ELSE address))

DialAddressUnencrypted(c, address) ==
  DialPool(c, PoolKey("unencrypted", address), Nothing, address, Verification("none", Nothing))

------------------------------------------------------------------------------

Matching(c) == {e \in pool : e.key = calls[c].key /\ e.tls = calls[c].tls}

\* get finds a connection under the key, or goes on to dial.
GetPooled(c) ==
  /\ calls[c].pc = "get"
  /\ \E e \in Matching(c) : calls' = [calls EXCEPT ![c].pc = "using", ![c].conn = e.conn] /\ pool' = pool \ {e}
  /\ UNCHANGED <<serverAt, made>>

GetNone(c) ==
  /\ calls[c].pc = "get" /\ Matching(c) = {}
  /\ calls' = [calls EXCEPT ![c].pc = "dialing"]
  /\ UNCHANGED <<serverAt, pool, made>>

\* A handshake with this server under this TLS config succeeds.
HandshakeOK(verify, server) ==
  CASE verify.by = "id" -> server.tls /\ server.id = verify.name
    [] verify.by = "any" -> server.tls /\ server.id # Nothing
    [] verify.by = "host" -> server.tls /\ server.name = verify.name

Connected(c, encrypted) ==
  /\ made < MaxConns /\ made' = made + 1
  /\ calls' = [calls EXCEPT ![c].pc = "using",
                            ![c].conn = [n |-> made, server |-> serverAt[calls[c].address], encrypted |-> encrypted]]
  /\ UNCHANGED <<serverAt, pool>>

DialEncryptedConn(c) ==
  /\ calls[c].pc = "dialing" /\ calls[c].verify.by # "none"
  /\ HandshakeOK(calls[c].verify, serverAt[calls[c].address])
  /\ Connected(c, TRUE)

DialUnencryptedConn(c) ==
  /\ calls[c].pc = "dialing" /\ calls[c].verify.by = "none"
  /\ ~serverAt[calls[c].address].tls
  /\ Connected(c, FALSE)

\* No answer, a refused handshake, the DialTimeout.
DialFails(c) ==
  /\ calls[c].pc = "dialing"
  /\ calls' = [calls EXCEPT ![c] = NoCall]
  /\ UNCHANGED <<serverAt, pool, made>>

\* Get puts the connection back at once, as poolConn does after a request, and gives the
\* caller a wrapper. Without the state of a TLS connection, where TLSOptions call for
\* one, the caller gets an error.
PutBack(c) ==
  /\ calls[c].pc = "using"
  /\ pool' = pool \cup {[key |-> calls[c].key, tls |-> calls[c].tls, conn |-> calls[c].conn]}
  /\ calls' = IF calls[c].tls # Nothing /\ ~calls[c].conn.encrypted THEN [calls EXCEPT ![c] = NoCall]
              ELSE [calls EXCEPT ![c].pc = "open", ![c].conn = Nothing]
  /\ UNCHANGED <<serverAt, made>>

\* A request through the wrapper takes any connection under the key, or dials again.
Invoke(c) ==
  /\ calls[c].pc = "open" /\ calls' = [calls EXCEPT ![c].pc = "get"]
  /\ UNCHANGED <<serverAt, pool, made>>

CloseCall(c) ==
  /\ calls[c].pc = "open" /\ calls' = [calls EXCEPT ![c] = NoCall]
  /\ UNCHANGED <<serverAt, pool, made>>

\* The pool closes a connection that is old, or one too many.
Evict ==
  /\ \E e \in pool : pool' = pool \ {e}
  /\ UNCHANGED <<serverAt, calls, made>>

\* Another server answers at an address.
Move ==
  /\ \E a \in Addresses, s \in Servers : s # serverAt[a] /\ serverAt' = [serverAt EXCEPT ![a] = s]
  /\ UNCHANGED <<pool, calls, made>>

DialInit ==
  /\ serverAt \in [Addresses -> Servers]
  /\ pool = {} /\ calls = [c \in Calls |-> NoCall] /\ made = 0

DialNext ==
  \/ \E c \in Calls :
       \/ \E a \in Addresses :
            \/ \E opts \in DialerTLS \cup {Nothing} :
                 \/ \E id \in DialNodes : DialNodeURL(c, opts, id, a)
                 \/ DialAddressInsecure(c, opts, a)
            \/ \E name \in ServerNames \cup {Nothing} : DialAddressHostnameVerification(c, name, a)
            \/ DialAddressUnencrypted(c, a)
       \/ GetPooled(c) \/ GetNone(c) \/ DialEncryptedConn(c) \/ DialUnencryptedConn(c) \/ DialFails(c)
       \/ PutBack(c) \/ Invoke(c) \/ CloseCall(c)
  \/ Evict \/ Move

------------------------------------------------------------------------------

Using == {c \in Calls : calls[c].pc = "using"}

\* What hostname verification of an address may have asked for.
HostNames(address) == ServerNames \cup (WithPort \cap {address})

\* Whichever connection a request goes out on, made for this call or for another one
\* before the address changed hands, its peer has proved to be what this call asked for:
\* the node, a node, or a host. Dialers with different HostnameTLSConfigs share connections:
\* the host is one that one of them asked for at this address. It is encrypted if the call
\* is, and two calls do not share one (dial.go:101-228, pool.go:90-155).
DialedAsAsked ==
  /\ \A c \in Using :
       LET conn == calls[c].conn
       IN  CASE calls[c].verify.by = "none" -> ~conn.encrypted
             [] calls[c].verify.by = "host" -> conn.encrypted /\ conn.server.name \in HostNames(calls[c].address)
             [] OTHER -> conn.encrypted /\ HandshakeOK(calls[c].verify, conn.server)
  /\ \A c, d \in Using : calls[c].conn.n = calls[d].conn.n => c = d
==============================================================================
