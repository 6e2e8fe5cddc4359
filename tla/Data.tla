--------------------------------- MODULE Data ---------------------------------
(***************************************************************************)
(* The way of an object's data: padded and encrypted into a store, damaged there or   *)
(* cut short, and read back in part, from a ranger or over HTTP.                       *)
(***************************************************************************)
EXTENDS Transform, Ranger, FiniteSets

LOCAL IsPrefix(s, t) == Len(s) <= Len(t) /\ SubSeq(t, 1, Len(s)) = s

CONSTANTS
  DataSizes,        \* sizes of the objects
  BlockSizes,       \* sizes of encrypted blocks
  Ciphers,
  ReadSizes,        \* sizes of the buffers passed to Read
  Requests,         \* requests to ServeContent
  Tags, Modtimes    \* what ServeContent knows of the content

VARIABLES
  object,     \* plain data, cipher, encrypter and decrypter
  stored,     \* the encrypted bytes as they are in the store
  damaged,    \* they are not what was stored
  request,    \* offset and length of the range being read
  reader,     \* the transformedReader
  left,       \* what the LimitReader still lets through
  delivered,  \* bytes the caller has received
  outcome,    \* "none", "reading", or the error that the last call returned
  readError,  \* history: a Read has returned an error other than EOF
  response    \* the answer of ServeContent and what it was asked

dataVars == <<object, stored, damaged, request, reader, left, delivered, outcome, readError, response>>

StartingNonce == [i \in 1..NonceBytes |-> ByteValues - 1]
Plain(size) == [i \in 1..size |-> 100 + i]
NoReader == TransformReaderSize(EmptyReader, NoopTransformer, 0, 0)
NoResponse == [status |-> 0, parts |-> <<>>]

\* PadReader, then TransformReader with the encrypter, read to the end.
Upload(size, cipher, blockSize) ==
  LET enc == NewEncrypter(cipher, StartingNonce, blockSize)
      padded == PadReader(Reader(Plain(size), "EOF"), enc.in)
  IN  /\ outcome = "none" /\ object.cipher = "none"
      /\ ValidCipher(cipher, blockSize)
      /\ object' = [cipher |-> cipher, plain |-> Plain(size), enc |-> enc,
                    dec |-> NewDecrypter(cipher, StartingNonce, blockSize)]
      /\ stored' = TransformReadAll(TransformReaderSize(padded, enc, 0, 0), <<>>).data
      /\ UNCHANGED <<damaged, request, reader, left, delivered, outcome, readError, response>>

\* The store loses the end of the data, or, under a cipher that notices, exchanges
\* two blocks or changes a byte.
Damage ==
  /\ object.cipher # "none" /\ outcome = "none" /\ ~damaged
  /\ \/ \E n \in 0..(Len(stored) - 1) : stored' = SubSeq(stored, 1, n)
     \/ /\ object.cipher # "null"
        /\ \/ \E i \in 1..Len(stored) : stored' = [stored EXCEPT ![i].at = 0]
           \/ \E b1, b2 \in 0..(Len(stored) \div object.enc.out - 1) :
                /\ b1 < b2
                /\ stored' = [i \in 1..Len(stored) |->
                     LET b == (i - 1) \div object.enc.out
                     IN  stored[IF b = b1 THEN i + (b2 - b1) * object.enc.out
                                ELSE IF b = b2 THEN i - (b2 - b1) * object.enc.out ELSE i]]
  /\ damaged' = TRUE
  /\ UNCHANGED <<object, request, reader, left, delivered, outcome, readError, response>>

\* The store as a ranger of the size that was stored.
StoreRanger == FileRanger(stored, CalcEncryptedSize(Len(object.plain), object.enc))

\* Range of Unpad of the decrypting ranger, with the padding known.
OpenRange(offset, length) ==
  LET tr == TransformedRange(StoreRanger, object.dec, offset, length)
  IN  /\ object.cipher # "none" /\ outcome = "none"
      /\ ValidTransform(StoreRanger, object.dec)
      /\ request' = [offset |-> offset, length |-> length]
      /\ reader' = tr /\ left' = length
      /\ outcome' = IF tr.err = "nil" THEN "reading" ELSE "not opened"
      /\ UNCHANGED <<object, stored, damaged, delivered, readError, response>>

\* A Read of the limited reader. A caller may go on after an error.
ReadRange(n) ==
  LET m == IF n > left THEN left ELSE n
      next == TransformRead(reader, m)
  IN  /\ outcome \notin {"none", "not opened", "served"}
      /\ IF left <= 0 THEN outcome' = "EOF" /\ UNCHANGED <<reader, left, delivered>>
         ELSE /\ reader' = [next EXCEPT !.got = <<>>]
              /\ left' = left - Len(next.got)
              /\ delivered' = delivered \o next.got
              /\ outcome' = IF next.err = "nil" THEN "reading" ELSE next.err
      /\ readError' = (readError \/ outcome' \notin {"reading", "EOF"})
      /\ UNCHANGED <<object, stored, damaged, request, response>>

\* The content of a request is the plain object, or a shorter one of the same name.
Serve(req, etag, modtime, size) ==
  /\ object.cipher = "none" /\ outcome = "none"
  /\ LET resp == ServeContent(req, etag, modtime, ByteRanger(Plain(size)))
     IN  response' = [status |-> resp.status, parts |-> resp.parts, req |-> req, etag |-> etag,
                      modtime |-> modtime, size |-> size]
  /\ outcome' = "served"
  /\ UNCHANGED <<object, stored, damaged, request, reader, left, delivered, readError>>

------------------------------------------------------------------------------

DataInit ==
  /\ object = [cipher |-> "none", plain |-> <<>>, enc |-> NoopTransformer, dec |-> NoopTransformer]
  /\ stored = <<>> /\ damaged = FALSE
  /\ request = [offset |-> 0, length |-> 0]
  /\ reader = NoReader /\ left = 0 /\ delivered = <<>>
  /\ outcome = "none" /\ readError = FALSE /\ response = NoResponse

DataNext ==
  \/ /\ object.cipher = "none" /\ outcome = "none"
     /\ \/ \E size \in DataSizes, cipher \in Ciphers, blockSize \in BlockSizes : Upload(size, cipher, blockSize)
        \/ \E req \in Requests, etag \in Tags, modtime \in Modtimes, size \in DataSizes : Serve(req, etag, modtime, size)
  \/ Damage
  \/ \E offset, length \in 0..Len(object.plain) : offset + length <= Len(object.plain) /\ OpenRange(offset, length)
  \/ \E n \in ReadSizes : ReadRange(n)

DataSpec == DataInit /\ [][DataNext]_dataVars

------------------------------------------------------------------------------

\* Whatever happened to the store, what a caller receives is the beginning of the range
\* it asked for, also when it reads on after an error; an error means damage; and an EOF
\* without an error before it means that it has all of the range: not when the store ends
\* early, and not from a block in the wrong place. After an error EOF says nothing: the
\* blocks that failed count as read (transform.go:86-114, 155-189, pad.go:44-46).
ReadsAreExact ==
  LET want == Slice(object.plain, request.offset, request.length)
  IN  /\ IsPrefix(delivered, want)
      /\ outcome = "EOF" /\ ~readError => delivered = want
      /\ readError \/ outcome = "not opened" => damaged

\* What the reader of a range gives, limited to its length.
ReadRangeAll(r, t, offset, length) ==
  LimitReadCloser(TransformReadAll(TransformedRange(r, t, offset, length), <<>>), length).data

\* The layers agree with one another: the size of what is stored is the one
\* CalcEncryptedSize announces, the decrypting ranger and its padding give back the
\* size of the object, and any range of the encrypting ranger, over data in one
\* piece, in several, or within a larger ranger, gives the bytes that the reader has
\* stored, wherever it begins and ends in a block (encryption.go:144-156,
\* pad.go:20-70, transform.go:134-189, ranger/reader.go:54-117).
LayersAgree ==
  (object.cipher # "none" /\ ~damaged /\ outcome = "none") =>
    LET n == Len(object.plain)
        padded == TransformedSize(StoreRanger, object.dec)
        last == ReadRangeAll(StoreRanger, object.dec, padded - uint32Size, uint32Size)
        pieces == Concat([i \in 1..3 |-> ByteRanger(Slice(object.plain, ((i - 1) * n) \div 3, (i * n) \div 3 - ((i - 1) * n) \div 3))])
        larger == Subrange(ByteRanger(<<0>> \o object.plain \o <<0>>), 1, n)
    IN  /\ Len(stored) = StoreRanger.size
        /\ Pad(ByteRanger(object.plain), object.enc.in).size = padded
        /\ Len(last) = uint32Size /\ padded - PaddingOf(last) = n
        /\ \A data \in {pieces, larger}, offset, length \in 0..Len(stored) :
             offset + length <= Len(stored) =>
               ReadRangeAll(Pad(data, object.enc.in), object.enc, offset, length) = Slice(stored, offset, length)

\* The positions a specification asks for, by the meaning of the Range header: the
\* last ones, or those from one to another or to the end.
AskedFor(spec, size) ==
  {at \in 0..(size - 1) : IF Suffix(spec) THEN at >= size - spec[2]
                          ELSE at >= spec[1] /\ (spec[2] = NotGiven \/ at <= spec[2])}

NegativeSuffix(spec) == Suffix(spec) /\ spec[2] < 0 /\ spec[2] # NotGiven

\* The parts of a 206 are what was asked for: one for each specification that reaches
\* into the content, in their order, with exactly the bytes it asks for.
PartsAreAsked(parts, specs, content) ==
  LET reached == SelectSeq(specs, LAMBDA s : Suffix(s) \/ AskedFor(s, Len(content)) # {})
  IN  /\ Len(parts) = Len(reached)
      /\ \A i \in DOMAIN parts :
           LET asked == AskedFor(reached[i], Len(content))
           IN  /\ parts[i].start..(parts[i].start + Cardinality(asked) - 1) = asked
               /\ parts[i].data = Slice(content, parts[i].start, Cardinality(asked))
               /\ parts[i].end = "EOF"

\* No answer misleads its client, unless it asked for a negative suffix: the parts of a
\* 206 are exactly what each specification asked for, single, suffix, open or several;
\* a 200 is the whole content, a 416 means that there was nothing to send or no sense in
\* the request; a 206 goes only to a client whose If-Range names this very content, a
\* 304 only to one whose copy is current, and a client that insists on another version
\* gets a 412 (content.go:31-182, 205-371, 446-516).
AnswersAreTrue ==
  (outcome = "served" /\ \A i \in DOMAIN response.req.ranges : ~NegativeSuffix(response.req.ranges[i])) =>
    LET r == response   req == response.req   content == Plain(response.size)
    IN  /\ r.status = 206 /\ req.method # "HEAD" => PartsAreAsked(r.parts, req.ranges, content)
        /\ r.status = 416 => \/ \E i \in DOMAIN req.ranges : InvalidSpec(req.ranges[i])
                             \/ \A i \in DOMAIN req.ranges : AskedFor(req.ranges[i], r.size) = {}
        /\ r.status = 200 /\ req.method # "HEAD" /\ r.size > 0 => r.parts[1].data = content
        /\ r.status = 206 => /\ req.ifRange.etag # NoTag => req.ifRange.etag = r.etag
                             /\ req.ifRange.time # NoTime => req.ifRange.time + 2 > r.modtime
        /\ r.status = 304 => \/ \E t \in Elements(req.ifNoneMatch) : t.tag \in {"*", r.etag.tag}
                             \/ req.ifNoneMatch = <<>> /\ req.ifModifiedSince + 2 > r.modtime
        /\ r.status \in {200, 206} /\ req.ifMatch # <<>> =>
             \E t \in Elements(req.ifMatch) : t.tag \in {"*", r.etag.tag}

\* A range over HTTP is the range of the content behind it, also when the content has
\* become shorter than the ranger believes, in which case it is short or refused
\* (http.go:74-108 over content.go).
HttpRangesAreExact ==
  outcome = "served" =>
    \A size \in DataSizes : \A offset, length \in 0..size :
      LET got == HTTPRange(size, ByteRanger(Plain(response.size)), offset, length)
          want == Slice(Plain(size), offset, length)
      IN  /\ IsPrefix(got.data, want)
          /\ response.size = size /\ offset + length <= size => got.data = want

\* Both ends of an HTTP range keep to the content: the server's answers and the
\* client's ranges (content.go:31-516, http.go:74-108).
HttpAgrees == AnswersAreTrue /\ HttpRangesAreExact
==============================================================================
