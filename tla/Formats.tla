------------------------------- MODULE Formats -------------------------------
(***************************************************************************)
(* Values on their way: written in one of the repository's formats, perhaps changed on  *)
(* the way, and read again.                                                             *)
(***************************************************************************)
EXTENDS WireFormats, TextFormats, Transform

CONSTANTS
  Samples,      \* kind -> the values that are sent
  Secret,       \* the secret that macaroons are made with
  ShareCounts,  \* numbers of shares in a redundancy scheme
  SegmentSizes  \* sizes of segments in bytes

VARIABLE trip   \* what is on its way

Ids32 == {"piece id", "serial number", "stream id", "segment id", "nonce"}
PieceKeys == {"piece public key", "piece private key"}
MediaOf(kind) ==
  CASE kind \in Ids32 \cup {"node id"} -> {"text", "bytes", "db"}
    [] kind = "uuid" -> {"text", "json", "db"}
    [] kind = "piece public key" -> {"text", "bytes", "db"}
    [] kind = "piece private key" -> {"bytes", "db"}
    [] OTHER -> {"text"}

\* What is written for a value: <<wire>>, or <<>> when the writer refuses it.
Write(kind, medium, v) ==
  CASE kind = "node id" -> Ok(NodeIDMarshal(medium, v))
    [] kind = "node urls" -> Ok(NodeURLsString(v))
    [] kind = "piece id" -> Ok(PieceIDMarshal(medium, v))
    [] kind = "serial number" -> Ok(SerialNumberMarshal(medium, v))
    [] kind = "stream id" -> Ok(StreamIDMarshal(medium, v))
    [] kind = "segment id" -> Ok(SegmentIDMarshal(medium, v))
    [] kind = "nonce" -> Ok(NonceMarshal(medium, v))
    [] kind \in PieceKeys -> Ok(CASE medium = "text" -> PieceKeyText(v)
                                  [] medium = "bytes" -> PieceKeyMarshal(v)
                                  [] medium = "db" -> PieceKeyValue(v))
    [] kind = "uuid" -> Ok(IF medium = "db" THEN NullUUIDValue([UUID |-> v, Valid |-> TRUE]) ELSE UUIDMarshal(medium, v))
    [] kind = "macaroon" -> Ok(Wire("bytes", Serialize(v)))
    [] kind = "api key" -> Ok(Wire("text", SerializeAPIKey(v)))
    [] kind = "revocation" -> Ok(Wire("bytes", RevocationMarshal(v)))
    [] kind = "certificates" -> WriteChain(v)
    [] kind = "peer identity" -> Ok(EncodePeerIdentity(v))
    [] kind = "private key" -> Ok(PrivateKeyToPEM(v))
    [] kind = "public key" -> Ok(PublicKeyToPEM(v))
    [] kind = "user agent" -> EncodeEntries(v)
    [] kind = "csv" -> MarshalCsv(v.type, v.objs)
    [] kind = "segment" -> Ok(Wire("bytes", EncodeSegment(v)))
    [] kind = "path" -> Ok(Components(v))
    [] kind = "location" -> LET p == NewFPath(v.text) IN IF p = <<>> THEN <<>> ELSE Ok(JoinFPath(p[1], v.segment).original)
    [] kind = "message" -> Encrypt(v.data, v.cipher, v.key, v.nonce)
    [] kind = "filter" -> Ok(FilterBytes(FoldLeft(AddPiece, NewFilter(v.seed, v.hashCount, v.size), v.pieces)))
    [] kind = "size" -> Ok(SizeString(v))
    [] kind = "placement" -> Ok(PlacementValue(v))

\* What is read from a wire: <<value>>, or <<>> when the reader refuses it.
Read(kind, medium, type, w) ==
  CASE kind = "node id" -> NodeIDUnmarshal(medium, w)
    [] kind = "node urls" -> ParseNodeURLs(w)
    [] kind = "piece id" -> PieceIDUnmarshal(medium, w)
    [] kind = "serial number" -> SerialNumberUnmarshal(medium, w)
    [] kind = "stream id" -> StreamIDUnmarshal(medium, w)
    [] kind = "segment id" -> SegmentIDUnmarshal(medium, w)
    [] kind = "nonce" -> NonceUnmarshal(medium, w)
    [] kind = "piece public key" /\ medium = "text" -> PiecePublicKeyUnmarshalText(w.data)
    [] kind = "piece public key" /\ medium = "bytes" -> PiecePublicKeyUnmarshal(w.data)
    [] kind = "piece public key" /\ medium = "db" -> PiecePublicKeyScan(w)
    [] kind = "piece private key" -> IF medium = "db" THEN PiecePrivateKeyScan(w) ELSE PiecePrivateKeyUnmarshal(w.data)
    [] kind = "uuid" -> IF medium = "db" THEN LET n == NullUUIDScan(w) IN IF n = Refused THEN Refused ELSE Ok(n[1].UUID)
                        ELSE UUIDUnmarshal(medium, w)
    [] kind = "macaroon" -> ParseMacaroon(w.data)
    [] kind = "api key" -> ParseAPIKey(w.data)
    [] kind = "revocation" -> RevocationUnmarshal(w.data)
    [] kind = "certificates" -> CertsFromPEM(w)
    [] kind = "peer identity" -> DecodePeerIdentity(w)
    [] kind = "private key" -> PrivateKeyFromPEM(w)
    [] kind = "public key" -> PublicKeyFromPEM(w)
    [] kind = "user agent" -> ParseEntries(w)
    [] kind = "csv" -> UnmarshalCsv(type, w)
    [] kind = "segment" -> DecodeSegment(w.data)
    [] kind = "path" -> Ok(BuildPath(w))
    [] kind = "location" -> NewFPath(w)
    [] kind = "message" -> Decrypt(w, type.cipher, type.key, type.nonce)
    [] kind = "filter" -> NewFromBytes(w)
    [] kind = "size" -> Ok(SetSize(w))
    [] kind = "placement" -> Ok(PlacementScan(w))

\* The characters or bytes that one of a wire may become.
Alphabet(kind, medium) ==
  CASE kind = "segment" -> {0, 1, 2, 3, 46, 47, 48, 254, 255}
    [] kind = "user agent" -> Chars
    [] kind = "api key" \/ (kind = "node id" /\ medium = "text") -> 0..Radix
    [] kind = "uuid" /\ medium # "db" -> 0..Quote
    [] kind \in Ids32 \cup PieceKeys /\ medium = "text" -> 0..(2 ^ Base32Bits)
    [] OTHER -> 0..(ByteBase - 1)

\* One element becomes another, or the end is lost.
ChangedSeq(s, alphabet) == {ReplaceAt(s, i, c) : i \in DOMAIN s, c \in alphabet} \cup {SubSeq(s, 1, n) : n \in 0..(Len(s) - 1)}

Changed(kind, medium, w) ==
  CASE kind = "node urls" -> {[w EXCEPT ![i] = <<Ok("http"), @[2], @[3]>>] : i \in DOMAIN w}
                               \cup {[w EXCEPT ![i] = <<Ok("storj"), @[2], @[3]>>] : i \in DOMAIN w}
    [] kind = "user agent" -> ChangedSeq(w, Chars)
    [] kind \in {"certificates", "private key", "public key"} ->
         {<<Block("PUBLIC KEY", Contents("PKIX", 0))>> \o w} \cup {[w EXCEPT ![i].contents.form = "?"] : i \in DOMAIN w}
           \cup {[w EXCEPT ![i].label = "EC PRIVATE KEY"] : i \in DOMAIN w}
    [] kind = "peer identity" -> {[w EXCEPT ![i].form = "?"] : i \in DOMAIN w} \cup {SubSeq(w, 1, n) : n \in 0..(Len(w) - 1)}
    [] kind = "csv" ->
         {[w EXCEPT !.headers = h] : h \in ChangedSeq(w.headers, ToSet(w.headers) \cup {"other"}) \cup {Reverse(w.headers)}}
           \cup UNION {{[w EXCEPT !.records[i] = r] : r \in ChangedSeq(w.records[i], {<<>>, Text(Decimal, 1)})} : i \in DOMAIN w.records}
    [] kind = "filter" -> {[w EXCEPT !.header = h] : h \in ChangedSeq(w.header, {0})}
    [] kind \in {"path", "size", "location"} -> {}
    [] kind = "message" -> ChangedSeq(w, ToSet(w)) \ {w}
    [] kind = "placement" -> {<<>>}
    [] OTHER -> {Wire(w.form, d) : d \in ChangedSeq(w.data, Alphabet(kind, medium))} \cup (IF medium = "db" THEN {NullField} ELSE {})

------------------------------------------------------------------------------

NoTrip == [pc |-> "idle"]

SendValue(kind, medium, v) ==
  /\ trip.pc = "idle"
  /\ LET w == Write(kind, medium, v)
     IN  trip' = IF w = <<>> THEN [pc |-> "refused", kind |-> kind, sent |-> v]
                 ELSE [pc |-> "sent", kind |-> kind, medium |-> medium, sent |-> v, wire |-> w[1], changed |-> FALSE]

Change ==
  /\ trip.pc = "sent" /\ ~trip.changed
  /\ \E w \in Changed(trip.kind, trip.medium, trip.wire) : trip' = [trip EXCEPT !.wire = w, !.changed = TRUE]

\* What the reader knows: the type of an object, the cipher, key and nonce of a message.
TypeOf(t) == CASE t.kind = "csv" -> t.sent.type [] t.kind = "message" -> t.sent [] OTHER -> <<>>

Receive ==
  /\ trip.pc = "sent"
  /\ trip' = [pc |-> "received", kind |-> trip.kind, medium |-> trip.medium, sent |-> trip.sent, wire |-> trip.wire,
              changed |-> trip.changed, got |-> Read(trip.kind, trip.medium, TypeOf(trip), trip.wire)]

\* How many nodes and stripes a segment needs under a redundancy scheme.
PlanSegment(k, o, n, size) ==
  LET s == [ShareSize |-> 3, RequiredShares |-> k, OptimalShares |-> o, TotalShares |-> n]
  IN  /\ trip.pc = "idle"
      /\ k <= o /\ o <= n
      /\ trip' = [pc |-> "planned", scheme |-> s, size |-> size, nodes |-> DownloadNodes(s), stripes |-> StripeCount(s, size)]

FormatsInit == trip = NoTrip
FormatsNext ==
  \/ /\ trip.pc = "idle"
     /\ \/ \E kind \in DOMAIN Samples : \E medium \in MediaOf(kind), v \in Samples[kind] : SendValue(kind, medium, v)
        \/ \E k, o, n \in ShareCounts, size \in SegmentSizes : PlanSegment(k, o, n, size)
  \/ Change
  \/ Receive
FormatsSpec == FormatsInit /\ [][FormatsNext]_trip

------------------------------------------------------------------------------
\* What should come back.

\* A version that this build does not know is lost in text.
KnownID(id) == IF id[NodeIDSize] \in KnownVersions THEN id ELSE Unversioned(id)

\* A product with a comment comes back as two entries, nothing as none. Comments are
\* written as they are, so only those without special characters can come back.
PlainComment(c) == ToSet(c) \cap {"(", ")", "\\", "x"} = {}
SplitEntry(e) ==
  (IF e.Product = <<>> THEN <<>> ELSE <<Entry(e.Product, e.Version, <<>>)>>)
    \o (IF e.Comment = <<>> THEN <<>> ELSE <<Entry(<<>>, <<>>, e.Comment)>>)

\* Ignored fields are zero, floats rounded, a pointer to an empty text is nil, and lines
\* end with newlines.
CsvCanonical(type, obj) ==
  [i \in DOMAIN type |->
     IF type[i].header = Ignored THEN ZeroField(type[i])
     ELSE IF obj[i] = <<>> THEN <<>>
     ELSE IF type[i].kind = "float" THEN <<(obj[i][1] \div FloatUnit) * FloatUnit>>
     ELSE IF type[i].kind = "string" /\ type[i].pointer /\ obj[i][1] = <<>> THEN <<>>
     ELSE IF type[i].kind = "string" THEN <<ReadText(obj[i][1])>> ELSE obj[i]]

\* The objects whose only column is empty are lost.
CsvKept(type, objs) ==
  LET columns == GettableFields(type)
  IN  SelectSeq(objs, LAMBDA o : Len(columns) > 1 \/ o[1][columns[1]] \notin {<<>>, <<<<>>>>})

Expected(kind, medium, v) ==
  CASE kind = "node id" /\ medium = "text" -> KnownID(v)
    [] kind = "node urls" ->
         LET urls == [i \in DOMAIN v |-> [v[i] EXCEPT !.ID = KnownID(@)]]
         IN  IF Len(v) = 1 /\ IsZero(v[1].ID) /\ v[1].Address = <<>> THEN <<>> ELSE urls
    [] kind = "user agent" -> FlattenSeq([i \in DOMAIN v |-> SplitEntry(v[i])])
    [] kind = "csv" -> LET kept == CsvKept(v.type, v.objs) IN [i \in DOMAIN kept |-> <<CsvCanonical(v.type, kept[i][1])>>]
    [] kind = "filter" -> FoldLeft(AddPiece, NewFilter(v.seed, v.hashCount, v.size), v.pieces)
    [] kind = "message" -> v.data
    [] kind = "location" -> JoinFPath(NewFPath(v.text)[1], v.segment)
    [] OTHER -> v

\* Values whose text is meant to be read again.
Readable(kind, medium, v) ==
  CASE kind \in PieceKeys /\ medium = "db" -> v # <<>>
    [] kind = "user agent" -> (v # <<>> => v[1].Product # <<>>) /\ \A i \in DOMAIN v : PlainComment(v[i].Comment)
    [] kind = "csv" -> GettableFields(v.type) # <<>> /\ \A i, j \in DOMAIN v.type : v.type[i].header = v.type[j].header => i = j \/ v.type[i].header = Ignored
    [] kind = "size" -> FALSE
    \* a segment that begins with a slash is kept as it is below an empty path
    [] kind = "location" -> ~Rooted(v.segment)
    [] OTHER -> TRUE

\* What was read, as a value to send.
Again(t) ==
  CASE t.kind = "csv" -> [type |-> t.sent.type, objs |-> t.got[1]]
    [] t.kind = "message" -> [t.sent EXCEPT !.data = t.got[1]]
    [] OTHER -> t.got[1]

\* A filter is not made from one that was received, and a chain of no certificates is not written.
Sendable(t) == t.kind # "filter" /\ (t.kind = "certificates" => t.got[1] # <<>>) /\ Readable(t.kind, t.medium, Again(t))

Received == trip.pc = "received"

\* Whatever a value is written as, it is read as the same value, or as the part of it
\* that the format keeps: leading zero bytes in base58, empty fields in CSV, though not a
\* row of a single one, nor the carriage returns of its lines, bytes that mean something
\* in a path, numbers of two bytes, empty caveats, an unset timestamp.
\* What was changed on the way is refused, or read as a value that is written and read
\* again as itself, so no two readers see different values (base58.go:30-138,
\* node.go:53-102, serialize.go:31-215, gob.go:28-229, path.go:386-500, uuid.go:49-106,
\* marshal.go:52-236, unmarshal.go:38-278, parse.go:52-309, encode.go:12-50).
ReadAsWritten ==
  Received =>
    /\ ~trip.changed /\ Readable(trip.kind, trip.medium, trip.sent) => trip.got = Ok(Expected(trip.kind, trip.medium, trip.sent))
    /\ trip.changed /\ trip.got # Refused /\ Sendable(trip) =>
         LET w == Write(trip.kind, trip.medium, Again(trip))
         IN  w # <<>> /\ Read(trip.kind, trip.medium, TypeOf(trip), w[1]) = Ok(Expected(trip.kind, trip.medium, Again(trip)))

\* Identifiers are compared a word or a byte at a time, in the order of their bytes,
\* and escaped path components sort like the components (node.go:113-177,
\* uuid.go:109-145, serialnumber.go:47-56, path.go:386-419).
OrderKept ==
  Received /\ ~trip.changed =>
    LET others == Samples[trip.kind]   v == trip.sent
    IN  /\ trip.kind = "node id" =>
             \A o \in others : /\ Less(v, o) = Lexicographic(v, o)
                               /\ Compare(v, o) = -Compare(o, v) /\ (Compare(v, o) = 0) = (v = o)
        /\ trip.kind = "uuid" =>
             \A o \in others : /\ UUIDLess(v, o) = Lexicographic(v, o)
                               /\ (UUIDCompare(v, o) = -1) = UUIDLess(v, o) /\ UUIDCompare(v, o) = -UUIDCompare(o, v)
        /\ trip.kind = "serial number" => \A o \in others : SerialNumberLess(v, o) = Lexicographic(v, o)
        /\ trip.kind = "segment" =>
             \A o \in others : Lexicographic(EncodeSegment(v), EncodeSegment(o)) = Lexicographic(v, o)

\* A node that gets a filter keeps every piece that was added to it (filter.go:81-171).
NoFalseNegatives ==
  Received /\ trip.kind = "filter" /\ ~trip.changed =>
    \A i \in DOMAIN trip.sent.pieces : ContainsPiece(trip.got[1], trip.sent.pieces[i])

\* A macaroon that has been read still validates against its secret (that it does against
\* no other is HMAC's matter, for which a checksum stands here), and the chain of tails
\* has the tail of every macaroon it was made from (macaroon.go:69-108).
StillValid ==
  Received /\ trip.kind \in {"macaroon", "api key"} /\ ~trip.changed =>
    /\ ValidateMacaroon(trip.got[1], Secret)
    /\ \A n \in 1..Len(trip.sent.caveats) :
         TailsOf(trip.got[1], Secret)[n] = FromParts(trip.sent.head, Secret, SubSeq(trip.sent.caveats, 1, n - 1)).tail

\* A sealed message that was changed and is not empty is refused, and under AES-GCM the
\* end of a nonce does not matter (encryption.go:23-75, aesgcm.go:132-165).
SealedMessages ==
  Received /\ trip.kind = "message" =>
    /\ trip.changed /\ trip.sent.cipher # "null" /\ trip.wire # <<>> => trip.got = Refused
    /\ ~trip.changed /\ trip.sent.cipher # "null" /\ trip.wire # <<>> =>
         \A o \in Samples["message"] : o.cipher = trip.sent.cipher =>
           (Decrypt(trip.wire, o.cipher, o.key, o.nonce) # Refused) =
             (o.key = trip.sent.key /\ \A i \in 1..(IF o.cipher = "aesgcm" THEN GCMNonceBytes ELSE NonceBytes) : o.nonce[i] = trip.sent.nonce[i])

\* The text of a size is off by at most half of its last digit, and a fraction of a byte;
\* only the largest sizes have a text that stands for more than a size can hold, and come
\* back as whatever the conversion makes of it (size.go:102-150, 188-215).
SizeClose ==
  Received /\ trip.kind = "size" =>
    \/ trip.got[1] = ConvertedHuge /\ 2 * trip.wire.parts * (MaxSize - trip.sent) <= trip.wire.base ^ trip.wire.power
    \/ 2 * trip.wire.parts * (Abs(trip.got[1] - trip.sent) - 1) <= trip.wire.base ^ trip.wire.power

\* Two readers of one text agree: Parse on the first product with ParseEntries, a single
\* certificate with the chain, the id of an identity from bytes with that of its PEM
\* chain (identity.go:230-240, 511-547), a list of ids with its ids, the last name of a location with
\* what was joined to it (info.go:32-52, encoding.go:134-191, node.go:68-84, 323-335,
\* fpath/path.go:105-127); an id is as difficult as it has zero bits (node.go:196-216).
ReadersAgree ==
  Received /\ trip.got # Refused =>
    /\ trip.kind = "user agent" /\ trip.got[1] # <<>> /\ ~Contains(trip.wire, "tab") =>
         LET first == trip.got[1][1]   info == ParseInfo(trip.wire)
         IN  first.Product # <<>> => info.Name = first.Product /\ info.Version = first.Version
    /\ trip.kind = "certificates" /\ ~trip.changed => CertFromPEM(trip.wire) = Ok(Head(trip.got[1]))
    /\ trip.kind = "peer identity" =>
         LET pi == trip.got[1] IN NodeIDFromPEM(WriteChain(<<pi.Leaf, pi.CA>> \o pi.RestChain)[1]) = Ok(pi.CA)
    /\ trip.kind = "location" /\ Len(trip.sent.segment) = 1 /\ trip.sent.segment[1] \notin {"", ".", ".."} =>
         BaseFPath(trip.got[1]) = trip.sent.segment[1]
    /\ trip.kind = "node urls" =>
         LET ids == [i \in DOMAIN trip.got[1] |-> trip.got[1][i].ID]
         IN  /\ NodeIDsFromBytes(ids) = Ok(ids) /\ NodeIDsFromBytes(Append(ids, <<0>>)) = Refused
             /\ ToSet(Unique(ids)) = ToSet(ids) /\ Len(Unique(ids)) = Cardinality(ToSet(ids))
    /\ trip.kind = "node id" =>
         LET n == ToNumber(Unversioned(trip.got[1]), ByteBase)   d == Difficulty(trip.got[1])
         IN  IF n = 0 THEN d = Refused ELSE n % 2 ^ d[1] = 0 /\ n % 2 ^ (d[1] + 1) # 0

\* As long as the product of its shares fits their width, a scheme asks for enough nodes
\* to download a segment, one to spare if there is one, and counts stripes that hold the
\* segment (redundancy.go:40-68).
SchemesSuffice ==
  trip.pc = "planned" =>
    LET s == trip.scheme   fits == (s.TotalShares - s.OptimalShares) * s.RequiredShares < 2 ^ (ShareBits - 1)
    IN  /\ fits => trip.nodes \in Min({s.RequiredShares + 1, s.TotalShares})..s.TotalShares
        /\ trip.stripes * StripeSize(s) \in trip.size..(trip.size + StripeSize(s) - 1)

\* What the formats promise together.
FormatsFaithful ==
  ReadAsWritten /\ OrderKept /\ NoFalseNegatives /\ StillValid /\ SealedMessages /\ SizeClose /\ ReadersAgree /\ SchemesSuffice
==============================================================================
