---------------------------------- MODULE Ids ----------------------------------
(***************************************************************************)
(* Identifiers and their forms: node ids and node URLs in base58, piece ids, serial    *)
(* numbers, stream and segment ids and nonces in base32, UUIDs in hexadecimal; each    *)
(* as text, as bytes and as a database field. A form on its way is a record            *)
(* [form, data]; a conversion gives <<value>>, or <<>> when it refuses its input.      *)
(***************************************************************************)
EXTENDS Integers, Sequences, SequencesExt, FiniteSetsExt

CONSTANTS
  ByteBits,       \* 8
  HexBits,        \* 4: bits of a hexadecimal digit
  Base32Bits,     \* 5: bits of a base32 digit
  Radix,          \* 58: digits of base58
  ChunkDigits,    \* 10: base58 digits converted at a time
  NodeIDSize,     \* 32: bytes of a node id, the last one the version
  WordBytes,      \* 8: bytes compared at a time
  PieceIDSize,    \* 32
  NonceSize,      \* 24
  PublicKeySize,  \* 32: bytes of a public piece key
  PrivateKeySize, \* 64: bytes of a private one
  UUIDGroups,     \* <<4, 2, 2, 2, 6>>: bytes between the dashes
  KnownVersions   \* the numbers in IDVersions

Ok(v) == <<v>>
Refused == <<>>

\* The rest of a reader, for a value that has been read so far.
AndThen(r, Continue(_)) == IF r = Refused THEN Refused ELSE Continue(r[1])
ByteBase == 2 ^ ByteBits
Zeros(n) == [i \in 1..n |-> 0]
IsZero(id) == \A i \in DOMAIN id : id[i] = 0
Wire(form, data) == [form |-> form, data |-> data]
NullField == Wire("null", <<>>)

\* A number from digits of a base, most significant first, and its shortest digits.
ToNumber(digits, base) == FoldLeft(LAMBDA n, d : n * base + d, 0, digits)
RECURSIVE ToDigits(_, _)
ToDigits(n, base) == IF n = 0 THEN <<>> ELSE Append(ToDigits(n \div base, base), n % base)

LeadingZeros(s) ==
  LET other == {i \in DOMAIN s : s[i] # 0} IN IF other = {} THEN Len(s) ELSE Min(other) - 1

------------------------------------------------------------------------------
\* base58: a text is a sequence of digits; Radix stands for any other character.

\* Arithmetic on numbers too large for a word (big.Int), as sequences of bytes.
Divide(x, d) ==
  FoldLeft(LAMBDA acc, b : [quotient |-> Append(acc.quotient, (acc.rest * ByteBase + b) \div d),
                            rest |-> (acc.rest * ByteBase + b) % d],
           [quotient |-> <<>>, rest |-> 0], x)
MultiplyAdd(x, m, a) ==
  LET sum == FoldRight(LAMBDA b, acc : [bytes |-> <<(b * m + acc.carry) % ByteBase>> \o acc.bytes,
                                        carry |-> (b * m + acc.carry) \div ByteBase],
                       x, [bytes |-> <<>>, carry |-> a])
  IN  ToDigits(sum.carry, ByteBase) \o sum.bytes

\* The digits of x, a chunk at a time: all of a chunk unless it is the first.
RECURSIVE Chunked(_)
Chunked(x) ==
  LET div == Divide(x, Radix ^ ChunkDigits)   chunk == ToDigits(div.rest, Radix)
  IN  IF IsZero(div.quotient) THEN chunk
      ELSE Chunked(div.quotient) \o Zeros(ChunkDigits - Len(chunk)) \o chunk

\* Bug form: only the digits that carry value.
Base58EncodeShort(b) == Chunked(b)

Base58Encode(b) == Zeros(LeadingZeros(b)) \o Chunked(b)

RECURSIVE Unchunked(_, _)
Unchunked(x, t) ==
  LET n == Min({Len(t), ChunkDigits})
  IN  IF t = <<>> THEN x
      ELSE Unchunked(MultiplyAdd(x, Radix ^ n, ToNumber(SubSeq(t, 1, n), Radix)), SubSeq(t, n + 1, Len(t)))

Base58Decode(t) ==
  IF Contains(t, Radix) THEN <<>> ELSE Zeros(LeadingZeros(t)) \o Unchunked(<<>>, t)

\* One byte that depends on every byte and its place (SHA-256, cut to four bytes).
Checksum(b) == FoldLeftDomain(LAMBDA sum, i : (sum * 3 + b[i] + i) % ByteBase, 1, b)

CheckEncode(input, version) ==
  LET b == <<version>> \o input IN Base58Encode(Append(b, Checksum(b)))

\* The payload and the version.
CheckDecode(t) ==
  LET decoded == Base58Decode(t)
  IN  IF Len(decoded) < 2 \/ Checksum(Front(decoded)) # Last(decoded) THEN Refused
      ELSE Ok([payload |-> Tail(Front(decoded)), version |-> Head(decoded)])

------------------------------------------------------------------------------
\* Node ids and node URLs.

ZeroNodeID == Zeros(NodeIDSize)
NewVersionedID(id, version) == [id EXCEPT ![NodeIDSize] = version]
Unversioned(id) == [id EXCEPT ![NodeIDSize] = 0]

\* "when in doubt, use V0"
Version(id) == IF id[NodeIDSize] \in KnownVersions THEN id[NodeIDSize] ELSE 0

NodeIDFromBytes(b) == IF Len(b) = NodeIDSize THEN Ok(b) ELSE Refused

\* A version that IDVersions lacks gives its zero value, V0.
NodeIDFromString(t) ==
  AndThen(CheckDecode(t), LAMBDA d :
    IF NodeIDFromBytes(d.payload) = Refused THEN Refused
    ELSE Ok(NewVersionedID(d.payload, IF d.version \in KnownVersions THEN d.version ELSE 0)))

NodeIDString(id) == CheckEncode(Unversioned(id), Version(id))

NodeIDMarshal(medium, id) == IF medium = "text" THEN Wire("text", NodeIDString(id)) ELSE Wire("bytes", id)

NodeIDUnmarshal(medium, w) ==
  CASE medium = "text" -> NodeIDFromString(w.data)
    [] medium = "bytes" -> NodeIDFromBytes(w.data)
    [] medium = "db" -> IF w.form = "bytes" THEN NodeIDFromBytes(w.data) ELSE Refused

\* All the ids, or none when one of them has another length.
NodeIDsFromBytes(list) ==
  IF \E i \in DOMAIN list : NodeIDFromBytes(list[i]) = Refused THEN Refused ELSE Ok(list)

Unique(list) == FoldLeft(LAMBDA result, id : IF Contains(result, id) THEN result ELSE Append(result, id), <<>>, list)

\* Words compared from the left, each as a number.
Word(id, k) == ToNumber(SubSeq(id, (k - 1) * WordBytes + 1, k * WordBytes), ByteBase)
Compare(id, other) ==
  LET differ == {k \in 1..(Len(id) \div WordBytes) : Word(id, k) # Word(other, k)}
  IN  IF differ = {} THEN 0 ELSE IF Word(id, Min(differ)) < Word(other, Min(differ)) THEN -1 ELSE 1
Less(id, other) == Compare(id, other) = -1

\* Trailing zero bits before the version byte; refused when there are only zeros.
Difficulty(id) ==
  LET bits == FlattenSeq([i \in 1..(NodeIDSize - 1) |-> [k \in 1..ByteBits |-> (id[i] \div 2 ^ (ByteBits - k)) % 2]])
      ones == {k \in DOMAIN bits : bits[k] = 1}
  IN  IF ones = {} THEN Refused ELSE Ok(Len(bits) - Max(ones) + ByteBits)

\* The text of a node URL: <<scheme, user, host>>, each <<>> when it is not there.
NodeURLString(url) == <<<<>>, IF IsZero(url.ID) THEN <<>> ELSE Ok(NodeIDString(url.ID)), url.Address>>

ParseNodeURL(t) ==
  IF t[1] \notin {<<>>, Ok("storj")} THEN Refused
  ELSE AndThen(IF t[2] = <<>> THEN Ok(ZeroNodeID) ELSE NodeIDFromString(t[2][1]),
               LAMBDA id : Ok([ID |-> id, Address |-> t[3]]))

\* Texts joined by commas: one empty text is the same as no text.
NodeURLsString(urls) ==
  LET texts == [i \in DOMAIN urls |-> NodeURLString(urls[i])]
  IN  IF texts = <<<<<<>>, <<>>, <<>>>>>> THEN <<>> ELSE texts

ParseNodeURLs(texts) ==
  LET urls == [i \in DOMAIN texts |-> ParseNodeURL(texts[i])]
  IN  IF \E i \in DOMAIN urls : urls[i] = Refused THEN Refused ELSE Ok([i \in DOMAIN urls |-> urls[i][1]])

------------------------------------------------------------------------------
\* Ids in base32 and UUIDs. A digit too large stands for a character outside the alphabet.

Bits(s, width) == FlattenSeq([i \in DOMAIN s |-> [k \in 1..width |-> (s[i] \div 2 ^ (width - k)) % 2]])
Group(bits, width, n) ==
  [i \in 1..n |-> ToNumber([k \in 1..width |-> LET at == (i - 1) * width + k IN IF at <= Len(bits) THEN bits[at] ELSE 0], 2)]

EncodeDigits(b, width) == Group(Bits(b, ByteBits), width, (Len(b) * ByteBits + width - 1) \div width)
\* Bits that do not fill a byte are dropped.
DecodeDigits(t, width) ==
  IF \E i \in DOMAIN t : t[i] >= 2 ^ width THEN Refused
  ELSE Ok(Group(Bits(t, width), ByteBits, (Len(t) * width) \div ByteBits))

Base32Encode(b) == EncodeDigits(b, Base32Bits)
Base32Decode(t) == DecodeDigits(t, Base32Bits)

\* MarshalText and Marshal or Value of these ids, and what a text stands for.
TextOrBytes(medium, id) == IF medium = "text" THEN Wire("text", Base32Encode(id)) ELSE Wire("bytes", id)
FromText(t, FromBytes(_)) == LET b == Base32Decode(t) IN IF b = Refused THEN Refused ELSE FromBytes(b[1])
FromWire(medium, w, FromBytes(_)) ==
  IF medium = "text" THEN FromText(w.data, FromBytes)
  ELSE IF medium = "db" /\ w.form # "bytes" THEN Refused ELSE FromBytes(w.data)

PieceIDFromBytes(b) == IF Len(b) = PieceIDSize THEN Ok(b) ELSE Refused
PieceIDMarshal(medium, id) == TextOrBytes(medium, id)
PieceIDUnmarshal(medium, w) == FromWire(medium, w, PieceIDFromBytes)

SerialNumberFromBytes(b) == IF Len(b) = PieceIDSize THEN Ok(b) ELSE Refused
SerialNumberMarshal(medium, id) == TextOrBytes(medium, id)
SerialNumberUnmarshal(medium, w) == FromWire(medium, w, SerialNumberFromBytes)
\* Byte by byte.
SerialNumberLess(id, other) ==
  \E k \in DOMAIN id : id[k] < other[k] /\ \A j \in 1..(k - 1) : id[j] = other[j]

\* Of any length.
StreamIDMarshal(medium, id) == TextOrBytes(medium, id)
StreamIDFromBytes(b) == Ok(b)
StreamIDUnmarshal(medium, w) == FromWire(medium, w, StreamIDFromBytes)
SegmentIDMarshal(medium, id) == TextOrBytes(medium, id)
SegmentIDFromBytes(b) == Ok(b)
SegmentIDUnmarshal(medium, w) == FromWire(medium, w, SegmentIDFromBytes)

\* A nonce of zeros is NULL in a database.
NonceFromBytes(b) == IF Len(b) = NonceSize THEN Ok(b) ELSE Refused
NonceMarshal(medium, nonce) ==
  IF medium = "db" /\ IsZero(nonce) THEN NullField ELSE TextOrBytes(medium, nonce)
NonceUnmarshal(medium, w) ==
  IF medium = "db" /\ w.form = "null" THEN Ok(Zeros(NonceSize)) ELSE FromWire(medium, w, NonceFromBytes)

\* Piece keys: an empty key may be sent in a message, and as the text of a public key,
\* but not read from a database.
PieceKeyMarshal(key) == Wire("bytes", key)
PieceKeyText(key) == Wire("text", Base32Encode(key))
PieceKeyValue(key) == Wire("bytes", key)
PiecePublicKeyFromBytes(b) == IF Len(b) = PublicKeySize THEN Ok(b) ELSE Refused
PiecePublicKeyUnmarshal(b) == IF b = <<>> THEN Ok(b) ELSE PiecePublicKeyFromBytes(b)
PiecePublicKeyScan(w) == IF w.form = "bytes" THEN PiecePublicKeyFromBytes(w.data) ELSE Refused
PiecePublicKeyUnmarshalText(t) == AndThen(Base32Decode(t), PiecePublicKeyUnmarshal)
PiecePrivateKeyFromBytes(b) == IF Len(b) = PrivateKeySize THEN Ok(b) ELSE Refused
PiecePrivateKeyUnmarshal(b) == IF b = <<>> THEN Ok(b) ELSE PiecePrivateKeyFromBytes(b)
PiecePrivateKeyScan(w) == IF w.form = "bytes" THEN PiecePrivateKeyFromBytes(w.data) ELSE Refused

UUIDSize == FoldLeft(LAMBDA n, g : n + g, 0, UUIDGroups)
Dash == 2 ^ HexBits
Quote == Dash + 1
DigitsPerByte == ByteBits \div HexBits
\* The first position of each group in the text, and the dashes before it.
GroupStart(g) == FoldLeft(LAMBDA at, n : at + n * DigitsPerByte + 1, 1, SubSeq(UUIDGroups, 1, g - 1))
DashPositions == {GroupStart(g) - 1 : g \in 2..Len(UUIDGroups)}
UUIDTextLen == UUIDSize * DigitsPerByte + Len(UUIDGroups) - 1

UUIDString(uuid) ==
  LET digits == EncodeDigits(uuid, HexBits)
  IN  [i \in 1..UUIDTextLen |->
         IF i \in DashPositions THEN Dash ELSE digits[i - Cardinality({p \in DashPositions : p < i})]]

\* Two words, each compared as a number.
UUIDCompare(uuid, other) ==
  CASE Word(uuid, 1) < Word(other, 1) -> -1
    [] Word(uuid, 1) > Word(other, 1) -> 1
    [] Word(uuid, 2) < Word(other, 2) -> -1
    [] Word(uuid, 2) > Word(other, 2) -> 1
    [] OTHER -> 0
UUIDLess(uuid, other) == Word(uuid, 1) < Word(other, 1) \/ (Word(uuid, 1) = Word(other, 1) /\ Word(uuid, 2) < Word(other, 2))

UUIDFromBytes(b) == IF Len(b) = UUIDSize THEN Ok(b) ELSE Refused

UUIDFromString(t) ==
  LET group(g) == SubSeq(t, GroupStart(g), GroupStart(g) + UUIDGroups[g] * DigitsPerByte - 1)
  IN  IF Len(t) # UUIDTextLen \/ \E p \in DashPositions : t[p] # Dash THEN Refused
      ELSE DecodeDigits(FlattenSeq([g \in DOMAIN UUIDGroups |-> group(g)]), HexBits)

UUIDMarshal(medium, uuid) ==
  CASE medium = "text" -> Wire("text", UUIDString(uuid))
    [] medium = "json" -> Wire("text", <<Quote>> \o UUIDString(uuid) \o <<Quote>>)
    [] OTHER -> Wire("bytes", uuid)

\* JSON is refused only when both quotes are missing.
UUIDUnmarshal(medium, w) ==
  LET t == w.data
  IN  CASE medium = "text" -> UUIDFromString(t)
        [] medium = "json" -> IF Len(t) # UUIDTextLen + 2 \/ (Head(t) # Quote /\ Last(t) # Quote) THEN Refused
                              ELSE UUIDFromString(Tail(Front(t)))
        [] OTHER -> UUIDFromBytes(t)

UUIDScan(w) ==
  CASE w.form = "bytes" -> UUIDFromBytes(w.data)
    [] w.form = "text" -> UUIDFromString(w.data)
    [] OTHER -> Refused

NullUUIDValue(n) == IF n.Valid THEN UUIDMarshal("db", n.UUID) ELSE NullField
NullUUIDScan(w) ==
  LET uuid == UUIDScan(w)
  IN  IF w.form = "null" THEN Ok([UUID |-> Zeros(UUIDSize), Valid |-> FALSE])
      ELSE IF uuid = Refused THEN Refused ELSE Ok([UUID |-> uuid[1], Valid |-> TRUE])

------------------------------------------------------------------------------
(* bloomfilter.Filter: a satellite adds the pieces a node should keep, and the node     *)
(* deletes what the filter does not contain. Hashes are windows of the piece id         *)
(* itself, which wrap around at its end. A byte of the table is the set of its bits.    *)

CONSTANTS
  HashBytes,      \* 8: bytes of a window that give the bucket; one more gives the bit
  RangeOffsets    \* <<9, 13, 19, 23>>

NewFilter(seed, hashCount, size) == [seed |-> seed, hashCount |-> hashCount, table |-> [i \in 1..size |-> {}]]

InitialOffset(seed) == seed % PieceIDSize
RangeOffset(seed) == RangeOffsets[((seed \div PieceIDSize) % Len(RangeOffsets)) + 1]

\* The window of n + 1 bytes from an offset on, little-endian, with a wrap.
PieceWindow(offset, id) ==
  LET at(k) == id[((offset + k) % PieceIDSize) + 1]
  IN  [hash |-> ToNumber(Reverse([k \in 1..HashBytes |-> at(k - 1)]), ByteBase), bit |-> at(HashBytes)]

\* Where the hash functions of a filter point for an id.
Places(filter, id) ==
  {LET s == PieceWindow((InitialOffset(filter.seed) + k * RangeOffset(filter.seed)) % PieceIDSize, id)
   IN  [bucket |-> (s.hash % Len(filter.table)) + 1, bit |-> s.bit % ByteBits] : k \in 0..(filter.hashCount - 1)}

AddPiece(filter, id) ==
  [filter EXCEPT !.table = [b \in DOMAIN @ |-> @[b] \cup {p.bit : p \in {q \in Places(filter, id) : q.bucket = b}}]]

ContainsPiece(filter, id) == \A p \in Places(filter, id) : p.bit \in filter.table[p.bucket]

FilterVersion == 1
FilterBytes(filter) == [header |-> <<FilterVersion, filter.seed, filter.hashCount>>, table |-> filter.table]

NewFromBytes(b) ==
  IF Len(b.header) < 3 \/ b.header[1] # FilterVersion \/ b.header[3] = 0 THEN Refused
  ELSE Ok([seed |-> b.header[2], hashCount |-> b.header[3], table |-> b.table])
==============================================================================
