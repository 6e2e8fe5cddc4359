SPECIFICATION ContentSpec
CONSTANTS
  Overhead = 1
  NonceBytes = 4
  GCMNonceBytes = 3
  ByteValues = 2
  DataSizes = {0, 1, 3, 4, 5}
  BlockSizes = {1, 3, 4}
  Ciphers = {"null", "aesgcm", "secretbox", "base64"}
  ReadSizes = {1, 4}
  Requests <- MCRequests
  Tags <- MCTags
  Modtimes = {0, 3, 4}
  Keys = {k1, k2, k3}
  Goroutines = {g1, g2}
  Options <- MCOptions
  Ids = {s1, s2, s3, s4}
  NoState = NoState
  EventTags = {a, b}
  Discarded = Discarded
  CounterLimit = 1
  MapIds = {m1, m2, m3}
  NoMap = NoMap
  Publishers = {p1, p2}
  MaxEvents = 3
  MaxPublishes = 2
  EntrySizes = {2, 5, 9}
  TooLong = 8
  PacketHeader = 3
  PacketSize = 12
  ByteBits = 4
  HexBits = 2
  Base32Bits = 3
  Radix = 7
  ChunkDigits = 3
  NodeIDSize = 4
  WordBytes = 2
  PieceIDSize = 3
  NonceSize = 2
  PublicKeySize = 3
  PrivateKeySize = 4
  UUIDGroups <- MCUUIDGroups
  KnownVersions = {0, 1}
  VarintBase = 8
  VarintLimit = 255
  MaxVarintBytes = 3
  TailBytes = 2
  HashBytes = 2
  RangeOffsets <- MCRangeOffsets
  UintBytes = 4
  TypePrefix <- MCTypePrefix
  FloatUnit = 5
  CsvTexts <- MCCsvTexts
  Base2 = 32
  Base10 = 30
  MaxPower = 2
  SizeBits = 12
  ConvertedHuge <- MCConvertedHuge
  ShareBits = 8
  ShareCounts = {1, 2, 5, 8, 11, 20}
  SegmentSizes = {1, 2, 3, 4, 14, 15, 16, 59, 60, 61}
  Samples <- MCSamples
  Secret <- MCSecret
INVARIANT
  CapacityBound
SYMMETRY MCSymmetry
CHECK_DEADLOCK FALSE
