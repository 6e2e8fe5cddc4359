----------------------------- MODULE WireFormats -----------------------------
(***************************************************************************)
(* Values as bytes: macaroons and API keys, PEM files of keys and certificate chains,   *)
(* and revocations.                                                                     *)
(***************************************************************************)
EXTENDS Ids

------------------------------------------------------------------------------
(***************************************************************************)
(* The binary form of a macaroon and the text of an API key: a version byte, sections  *)
(* of typed packets that end with a zero, and the signature. The signature chain is    *)
(* computed over the bytes.                                                            *)
(***************************************************************************)

CONSTANTS
  VarintBase,     \* 128: values of a byte of a varint
  VarintLimit,    \* 0x7fffffff: the largest varint allowed
  MaxVarintBytes, \* 10: bytes of a varint
  TailBytes       \* 32: length of a signature

fieldEOS == 0
fieldLocation == 1
fieldIdentifier == 2
fieldVerificationID == 4
fieldSignature == 6
MacaroonVersion == 2

\* HMAC-SHA256: bytes that depend on every byte of the secret and of the data.
Sign(secret, data) == [i \in 1..TailBytes |-> Checksum(<<i>> \o secret \o data)]

NewUnrestrictedFromParts(head, secret) == [head |-> head, caveats |-> <<>>, tail |-> Sign(secret, head)]

AddFirstPartyCaveat(m, c) == [m EXCEPT !.caveats = Append(@, c), !.tail = Sign(@, c)]

\* The tail of the key and of all its ancestors, oldest first.
TailsOf(m, secret) ==
  FoldLeft(LAMBDA tails, c : Append(tails, Sign(Last(tails), c)), <<Sign(secret, m.head)>>, m.caveats)

ValidateMacaroon(m, secret) == Last(TailsOf(m, secret)) = m.tail

\* PutUvarint: low digits first, all but the last marked.
RECURSIVE Varint(_)
Varint(x) == IF x < VarintBase THEN <<x>> ELSE <<VarintBase + (x % VarintBase)>> \o Varint(x \div VarintBase)

SerializePacket(type, data) == Varint(type) \o Varint(Len(data)) \o data

Serialize(m) ==
  <<MacaroonVersion>> \o SerializePacket(fieldIdentifier, m.head) \o <<fieldEOS>>
    \o FlattenSeq([i \in DOMAIN m.caveats |-> SerializePacket(fieldIdentifier, m.caveats[i]) \o <<fieldEOS>>])
    \o <<fieldEOS>> \o SerializePacket(fieldSignature, m.tail)

\* What a parser takes from the front of the data, and the rest.
Parsed(value, rest) == Ok([value |-> value, rest |-> rest])
Rest(data, n) == SubSeq(data, n + 1, Len(data))

ParseVarint(data) ==
  LET ends == {i \in DOMAIN data : data[i] < VarintBase}
      n == Min(ends)
      value == ToNumber(Reverse([i \in 1..n |-> data[i] % VarintBase]), VarintBase)
  IN  IF ends = {} \/ n > MaxVarintBytes \/ value > VarintLimit THEN Refused ELSE Parsed(value, Rest(data, n))

ParsePacket(data) ==
  AndThen(ParseVarint(data), LAMBDA type :
    IF type.value = fieldEOS THEN Parsed([type |-> fieldEOS, data |-> <<>>], type.rest)
    ELSE AndThen(ParseVarint(type.rest), LAMBDA size :
           IF size.value > Len(size.rest) THEN Refused
           ELSE Parsed([type |-> type.value, data |-> SubSeq(size.rest, 1, size.value)], Rest(size.rest, size.value))))

\* Packets in increasing order of their types, up to the end of the section.
RECURSIVE ParsePackets(_, _)
ParsePackets(data, packets) ==
  AndThen(ParsePacket(data), LAMBDA p :
    IF p.value.type = fieldEOS THEN Parsed(packets, p.rest)
    ELSE IF packets # <<>> /\ p.value.type <= Last(packets).type THEN Refused
    ELSE ParsePackets(p.rest, Append(packets, p.value)))
ParseSection(data) == ParsePackets(data, <<>>)

WithoutLocation(section) ==
  IF section # <<>> /\ section[1].type = fieldLocation THEN Tail(section) ELSE section

\* An identifier, and a verification id that is dropped.
IsCaveat(section) ==
  /\ section # <<>> /\ section[1].type = fieldIdentifier
  /\ Len(section) = 2 => section[2].type = fieldVerificationID
  /\ Len(section) <= 2

\* Caveats up to an empty section, which only no packet at all makes.
RECURSIVE ParseCaveats(_, _)
ParseCaveats(data, caveats) ==
  AndThen(ParseSection(data), LAMBDA s :
    IF s.value = <<>> THEN Parsed(caveats, s.rest)
    ELSE IF ~IsCaveat(WithoutLocation(s.value)) THEN Refused
    ELSE ParseCaveats(s.rest, Append(caveats, WithoutLocation(s.value)[1].data)))

IsHeader(section) == Len(section) = 1 /\ section[1].type = fieldIdentifier
IsSignature(packet) == packet.type = fieldSignature /\ Len(packet.data) = TailBytes

\* Bytes after the signature are ignored.
ParseMacaroon(data) ==
  IF Len(data) < 2 \/ data[1] # MacaroonVersion THEN Refused
  ELSE AndThen(ParseSection(Tail(data)), LAMBDA header :
    IF ~IsHeader(WithoutLocation(header.value)) THEN Refused
    ELSE AndThen(ParseCaveats(header.rest, <<>>), LAMBDA caveats :
           AndThen(ParsePacket(caveats.rest), LAMBDA sig :
             IF ~IsSignature(sig.value) THEN Refused
             ELSE Ok([head |-> WithoutLocation(header.value)[1].data, caveats |-> caveats.value, tail |-> sig.value.data]))))

\* The text of an API key has version 0.
SerializeAPIKey(m) == CheckEncode(Serialize(m), 0)
ParseAPIKey(text) ==
  AndThen(CheckDecode(text), LAMBDA d : IF d.version # 0 THEN Refused ELSE ParseMacaroon(d.payload))

\* FromParts: an unrestricted key, restricted by each caveat.
FromParts(head, secret, caveats) ==
  FoldLeft(AddFirstPartyCaveat, NewUnrestrictedFromParts(head, secret), caveats)

------------------------------------------------------------------------------
(***************************************************************************)
(* PEM files of keys and certificate chains, and the binary form of a revocation,      *)
(* which is that of encoding/gob for this one type.                                     *)
(***************************************************************************)

CONSTANTS
  UintBytes,      \* 8: bytes of the largest number
  TypePrefix      \* the bytes of wireEncoding, which describe the type

\* A PEM file is a sequence of blocks. Contents that x509 can parse name their form.
Block(label, contents) == [label |-> label, contents |-> contents]
Contents(form, value) == [form |-> form, value |-> value]

\* pem.Decode and the x509 function for the label; later blocks are not looked at.
FromPEM(file, forms) ==
  IF file = <<>> \/ file[1].label \notin DOMAIN forms THEN Refused
  ELSE IF file[1].contents.form # forms[file[1].label] THEN Refused
  ELSE Ok(file[1].contents.value)

Labels(l, f) == [x \in {l} |-> f]
PublicKeyToPEM(key) == <<Block("PUBLIC KEY", Contents("PKIX", key))>>
PublicKeyFromPEM(file) == FromPEM(file, Labels("PUBLIC KEY", "PKIX"))
PrivateKeyToPEM(key) == <<Block("PRIVATE KEY", Contents("PKCS8", key))>>
PrivateKeyFromPEM(file) ==
  FromPEM(file, [x \in {"PRIVATE KEY", "EC PRIVATE KEY"} |-> IF x = "PRIVATE KEY" THEN "PKCS8" ELSE "EC"])
CertFromPEM(file) == FromPEM(file, Labels("CERTIFICATE", "DER"))

WriteCertPEM(cert) == Block("CERTIFICATE", Contents("DER", cert))
WriteChain(chain) == IF chain = <<>> THEN Refused ELSE Ok([i \in DOMAIN chain |-> WriteCertPEM(chain[i])])

\* The certificates of a file, whatever else it holds; all of them or none.
CertsFromPEM(file) ==
  LET certs == SelectSeq(file, LAMBDA b : b.label = "CERTIFICATE")
  IN  IF \E i \in DOMAIN certs : certs[i].contents.form # "DER" THEN Refused
      ELSE Ok([i \in DOMAIN certs |-> certs[i].contents.value])

\* The certificate that a node's id is computed from.
NodeIDFromPEM(file) ==
  LET chain == CertsFromPEM(file)
  IN  IF chain = Refused THEN Refused ELSE IF Len(chain[1]) < 2 THEN Refused ELSE Ok(chain[1][2])

\* An identity as bytes: its certificates one after another, leaf, authority and the rest.
EncodePeerIdentity(pi) ==
  [i \in 1..(2 + Len(pi.RestChain)) |->
     Contents("DER", IF i = 1 THEN pi.Leaf ELSE IF i = 2 THEN pi.CA ELSE pi.RestChain[i - 2])]

DecodePeerIdentity(certs) ==
  IF Len(certs) < 2 \/ \E i \in DOMAIN certs : certs[i].form # "DER" THEN Refused
  ELSE Ok([Leaf |-> certs[1].value, CA |-> certs[2].value, RestChain |-> [i \in 1..(Len(certs) - 2) |-> certs[i + 2].value]])

------------------------------------------------------------------------------
\* Numbers: one byte if it is small, otherwise the negated count of bytes, then those.

SmallUints == 2 ^ (ByteBits - 1)
EncodeUint(x) ==
  LET b == ToDigits(x, ByteBase) IN IF x < SmallUints THEN <<x>> ELSE <<ByteBase - Len(b)>> \o b
\* The sign is the lowest bit.
EncodeInt(i) == EncodeUint(IF i < 0 THEN 2 * (-i - 1) + 1 ELSE 2 * i)

\* Each field that is not zero: its distance from the last one written, and itself.
EncodeFields(fields) ==
  LET written(i) == {j \in 1..(i - 1) : fields[j] # <<>>}
  IN  FlattenSeq([i \in DOMAIN fields |-> IF fields[i] = <<>> THEN <<>>
                                          ELSE EncodeUint(i - Max(written(i) \cup {0})) \o fields[i]])

firstCustomTypeID == SmallUints \div 2 + 1   \* 65: the first that takes two bytes
EncodeBytes(b) == IF b = <<>> THEN <<>> ELSE EncodeUint(Len(b)) \o b

RevocationMarshal(r) ==
  LET value == EncodeInt(firstCustomTypeID)
                 \o EncodeFields(<<IF r.Timestamp = 0 THEN <<>> ELSE EncodeInt(r.Timestamp), EncodeBytes(r.KeyHash), EncodeBytes(r.Signature)>>)
                 \o <<0>>
  IN  TypePrefix \o EncodeUint(Len(value)) \o value

\* A number and what follows it. Leading zeros are allowed.
DecodeUint(data) ==
  LET n == ByteBase - data[1]
  IN  IF data = <<>> THEN Refused
      ELSE IF data[1] < SmallUints THEN Ok([x |-> data[1], rest |-> Tail(data)])
      ELSE IF n > UintBytes \/ n > Len(data) - 1 THEN Refused
      ELSE Ok([x |-> ToNumber(SubSeq(data, 2, n + 1), ByteBase), rest |-> SubSeq(data, n + 2, Len(data))])

SignedOf(x) == IF x % 2 = 1 THEN -(x \div 2) - 1 ELSE x \div 2

\* The bytes that a length announces.
DecodeHash(data) ==
  LET n == DecodeUint(data)
  IN  IF n = Refused THEN Refused
      ELSE IF n[1].x > Len(n[1].rest) THEN Refused
      ELSE Ok([x |-> SubSeq(n[1].rest, 1, n[1].x), rest |-> SubSeq(n[1].rest, n[1].x + 1, Len(n[1].rest))])

\* Fields until a zero; the number of a field is counted from the one before.
RECURSIVE DecodeFields(_, _, _)
DecodeFields(data, index, r) ==
  LET delta == DecodeUint(data)
      field == (index + delta[1].x) % ByteBase ^ UintBytes
      rest == delta[1].rest
      got == IF field = 1 THEN DecodeUint(rest) ELSE DecodeHash(rest)
  IN  IF delta = Refused THEN Refused
      ELSE IF delta[1].x = 0 THEN Ok(r)
      ELSE IF field \notin 1..3 \/ got = Refused THEN Refused
      ELSE DecodeFields(got[1].rest, field,
             CASE field = 1 -> [r EXCEPT !.Timestamp = SignedOf(got[1].x)]
               [] field = 2 -> [r EXCEPT !.KeyHash = got[1].x]
               [] field = 3 -> [r EXCEPT !.Signature = got[1].x])

\* The length covers exactly what follows; what follows the last field is ignored.
RevocationUnmarshal(data) ==
  LET length == DecodeUint(SubSeq(data, Len(TypePrefix) + 1, Len(data)))
      type == DecodeUint(length[1].rest)
  IN  IF ~IsPrefix(TypePrefix, data) \/ length = Refused THEN Refused
      ELSE IF length[1].x # Len(length[1].rest) \/ type = Refused THEN Refused
      ELSE IF type[1].x # 2 * firstCustomTypeID THEN Refused
      ELSE DecodeFields(type[1].rest, 0, [Timestamp |-> 0, KeyHash |-> <<>>, Signature |-> <<>>])
==============================================================================
