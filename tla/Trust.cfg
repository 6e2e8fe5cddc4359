SPECIFICATION TrustSpec
CONSTANTS
  CertKeys <- MCCertKeys
  Versions = {0}
  NoCert = NoCert
  Workers = {g1, g2}
  MaxKeys = 3
  MaxCAs = 2
  MaxSaves = 2
  MaxRevocations = 2
  MaxExts = 2
  Handshakes = {h1, h2}
  Peers <- MCPeers
  TlsOptions <- MCOptions
  CANodes <- MCNodes
  NoPeer = NoPeer
  MsgVersions = {1, 2, 3}
  FieldValues = {0, 1, 2}
  AlwaysFields = {1}
  NonNullFields = {3}
  SignKeys = {0, 1, 2}
  NoMsg = NoMsg
  FileWriters = {w1, w2, w3}
  NoData = NoData
  Calls = {c1, c2}
  DialerTLS = {options1, options2}
  DialNodes = {"node1", "node2"}
  Addresses = {"a1"}
  WithPort = {"a1"}
  ServerNames = {"a2"}
  Servers <- MCServers
  MaxConns = 2
  Nothing = Nothing
INVARIANTS
  IdentityConsistent
  AcceptedIsTrusted
  DialedAsAsked
  RevocationsTaken
  VerifiedAsSigned
  FileWhole
SYMMETRY MCSymmetry
CHECK_DEADLOCK FALSE
