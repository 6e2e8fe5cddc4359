------------------------------- MODULE Ranger --------------------------------
(***************************************************************************)
(* ranger.Ranger and the readers it returns (packages ranger and readcloser).      *)
(* A ranger is a record of its kind. A range of it is what a reader gives when it   *)
(* is read to the end: the bytes, and how it ends: "EOF", "unexpected" (EOF in the   *)
(* middle), another error, or "refused" when Range itself fails.                     *)
(***************************************************************************)
EXTENDS Integers, Sequences

Reader(data, end) == [data |-> data, end |-> end]
FatalReader == Reader(<<>>, "refused")
EmptyReader == Reader(<<>>, "EOF")

\* The bytes at offset .. offset + length - 1, as far as there are any.
Slice(bytes, offset, length) ==
  SubSeq(bytes, offset + 1, IF offset + length > Len(bytes) THEN Len(bytes) ELSE offset + length)

ByteRanger(bytes) == [kind |-> "bytes", bytes |-> bytes, size |-> Len(bytes)]

\* FileRanger and ReaderAtRanger know a size; the file may have another one when it
\* is read. Their readers end where the file ends, with a plain EOF.
FileRanger(bytes, size) == [kind |-> "file", bytes |-> bytes, size |-> size]

Concat2(r1, r2) == [kind |-> "concat", r1 |-> r1, r2 |-> r2, size |-> r1.size + r2.size]

RECURSIVE Concat(_)
Concat(rs) ==
  CASE Len(rs) = 0 -> ByteRanger(<<>>)
    [] Len(rs) = 1 -> rs[1]
    [] OTHER -> LET mid == Len(rs) \div 2
                IN  Concat2(Concat(SubSeq(rs, 1, mid)), Concat(SubSeq(rs, mid + 1, Len(rs))))

Subrange(r, offset, length) == [kind |-> "sub", r |-> r, offset |-> offset, size |-> length]

\* MultiReadCloser of two readers, the second opened when the first has ended.
MultiReadCloser(first, second) ==
  IF first.end # "EOF" THEN first
  ELSE IF second.end = "refused" THEN Reader(first.data, "error")
  ELSE Reader(first.data \o second.data, second.end)

LimitReadCloser(rd, n) ==
  IF Len(rd.data) < n THEN rd ELSE Reader(SubSeq(rd.data, 1, n), "EOF")

\* ByteRanger.Range, fileRanger.Range and readerAtRanger.Range.
RangeBytes(r, offset, length) ==
  IF offset < 0 \/ length < 0 \/ offset + length > r.size THEN FatalReader
  ELSE Reader(Slice(r.bytes, offset, length), "EOF")

\* concatReader.Range is given as the ranges of its two parts.
RECURSIVE RangeOf(_, _, _)
RangeOf(r, offset, length) ==
  CASE r.kind \in {"bytes", "file"} -> RangeBytes(r, offset, length)
    [] r.kind = "sub" -> RangeOf(r.r, offset + r.offset, length)
    [] r.kind = "concat" ->
         LET r1Size == r.r1.size
         IN  IF offset + length <= r1Size THEN RangeOf(r.r1, offset, length)
             ELSE IF offset >= r1Size THEN RangeOf(r.r2, offset - r1Size, length)
             ELSE LET first == RangeOf(r.r1, offset, r1Size - offset)
                  IN  IF first.end = "refused" THEN FatalReader
                      ELSE MultiReadCloser(first, RangeOf(r.r2, 0, length - (r1Size - offset)))

\* All the bytes of a ranger, as its size announces them: what its ranges are
\* parts of.
RECURSIVE Content(_)
Content(r) ==
  CASE r.kind \in {"bytes", "file"} -> r.bytes
    [] r.kind = "sub" -> Slice(Content(r.r), r.offset, r.size)
    [] r.kind = "concat" -> Content(r.r1) \o Content(r.r2)

------------------------------------------------------------------------------
(***************************************************************************)
(* httpranger: ServeContent, which answers a request from a ranger, and HTTPRanger,  *)
(* a ranger whose ranges are requests. Entity tags are records, dates are numbers     *)
(* of half seconds (0 is "no time", a header has whole seconds), a Range header is a    *)
(* list of specifications; the text of headers and of multipart bodies is left out.     *)
(***************************************************************************)

NoTag == [weak |-> FALSE, tag |-> ""]
NoTime == -1
NoIfRange == [etag |-> NoTag, time |-> NoTime]

\* A request without conditions. A header that is not there is an empty list,
\* NoTime or NoIfRange; If-Range has a tag or a time.
GetRequest(ranges) ==
  [method |-> "GET", ifMatch |-> <<>>, ifNoneMatch |-> <<>>, ifUnmodifiedSince |-> NoTime,
   ifModifiedSince |-> NoTime, ifRange |-> NoIfRange, ranges |-> ranges]

EtagStrongMatch(a, b) == a = b /\ a # NoTag /\ ~a.weak
EtagWeakMatch(a, b) == a.tag = b.tag

Elements(list) == {list[i] : i \in DOMAIN list}

\* The list scanners of checkIfMatch and checkIfNoneMatch; a list is "*" or the
\* tags up to the first one that is not well formed.
CheckIfMatch(req, etag) ==
  IF req.ifMatch = <<>> THEN "none"
  ELSE IF \E t \in Elements(req.ifMatch) : t.tag = "*" \/ EtagStrongMatch(t, etag) THEN "true" ELSE "false"

CheckIfNoneMatch(req, etag) ==
  IF req.ifNoneMatch = <<>> THEN "none"
  ELSE IF \E t \in Elements(req.ifNoneMatch) : t.tag = "*" \/ EtagWeakMatch(t, etag) THEN "false" ELSE "true"

\* modtime.Before(t + 1s): headers do not have the half second.
UnmodifiedSince(modtime, t) == modtime < t + 2

CheckIfUnmodifiedSince(req, modtime) ==
  IF req.ifUnmodifiedSince = NoTime \/ modtime = 0 THEN "none"
  ELSE IF UnmodifiedSince(modtime, req.ifUnmodifiedSince) THEN "true" ELSE "false"

CheckIfModifiedSince(req, modtime) ==
  IF req.method \notin {"GET", "HEAD"} \/ req.ifModifiedSince = NoTime \/ modtime = 0 THEN "none"
  ELSE IF UnmodifiedSince(modtime, req.ifModifiedSince) THEN "false" ELSE "true"

CheckIfRangeNever(req, etag, modtime) == "none"

CheckIfRange(req, etag, modtime) ==
  IF req.method \notin {"GET", "HEAD"} \/ req.ifRange = NoIfRange THEN "none"
  ELSE IF req.ifRange.etag # NoTag
       THEN IF EtagStrongMatch(req.ifRange.etag, etag) THEN "true" ELSE "false"
       ELSE IF modtime # 0 /\ req.ifRange.time = modtime - (modtime % 2) THEN "true" ELSE "false"

\* checkPreconditions: the status of an answer without content, or the ranges to
\* serve.
CheckPreconditions(req, etag, modtime) ==
  LET unchanged == IF CheckIfMatch(req, etag) # "none" THEN CheckIfMatch(req, etag)
                   ELSE CheckIfUnmodifiedSince(req, modtime)
      noneMatch == CheckIfNoneMatch(req, etag)
  IN  IF unchanged = "false" THEN [status |-> 412, ranges |-> <<>>]
      ELSE IF noneMatch = "false"
           THEN [status |-> IF req.method \in {"GET", "HEAD"} THEN 304 ELSE 412, ranges |-> <<>>]
      ELSE IF noneMatch = "none" /\ CheckIfModifiedSince(req, modtime) = "false"
           THEN [status |-> 304, ranges |-> <<>>]
      ELSE [status |-> 200,
            ranges |-> IF CheckIfRange(req, etag, modtime) = "false" THEN <<>> ELSE req.ranges]

------------------------------------------------------------------------------
(* ParseRange. A specification is <<start, end>>: what stands before and after its   *)
(* first minus sign, so that only the end can be negative, with NotGiven for nothing. *)

NotGiven == -99
Suffix(spec) == spec[1] = NotGiven

InvalidSpec(spec) ==
  IF Suffix(spec) THEN spec[2] = NotGiven ELSE spec[2] # NotGiven /\ spec[1] > spec[2]

Overlaps(spec, size) == Suffix(spec) \/ spec[1] < size

\* A last byte that is not given or after the content is the last byte. A negative
\* suffix makes a range of negative length behind the content.
SpecRange(spec, size) ==
  IF Suffix(spec)
  THEN LET n == IF spec[2] > size THEN size ELSE spec[2] IN [start |-> size - n, length |-> n]
  ELSE LET last == IF spec[2] = NotGiven \/ spec[2] >= size THEN size - 1 ELSE spec[2]
       IN  [start |-> spec[1], length |-> last - spec[1] + 1]

\* A specification that does not overlap is skipped before its end is looked at.
ParseRange(specs, size) ==
  IF \E i \in DOMAIN specs : InvalidSpec(specs[i]) /\ Overlaps(specs[i], size)
  THEN [err |-> "invalid", ranges |-> <<>>]
  ELSE LET hit == SelectSeq(specs, LAMBDA s : Overlaps(s, size))
       IN  IF hit = <<>> /\ specs # <<>> THEN [err |-> "no overlap", ranges |-> <<>>]
           ELSE [err |-> "nil", ranges |-> [i \in DOMAIN hit |-> SpecRange(hit[i], size)]]

RECURSIVE SumRangesSize(_)
SumRangesSize(ranges) == IF ranges = <<>> THEN 0 ELSE Head(ranges).length + SumRangesSize(Tail(ranges))

------------------------------------------------------------------------------

Response(status, parts) == [status |-> status, parts |-> parts]
Part(start, rd) == [start |-> start, data |-> rd.data, end |-> rd.end]

\* The parts are written one after another; a range the content refuses ends them.
Answer(ranges, content) ==
  LET part(i) == Part(ranges[i].start, RangeOf(content, ranges[i].start, ranges[i].length))
      written == {i \in DOMAIN ranges : \A j \in 1..(i - 1) : part(j).end # "refused"}
  IN  Response(206, [i \in written |-> part(i)])

\* ServeContent: more than the whole content altogether is answered with the whole
\* content. A HEAD has the status and no parts.
ServeContent(req, etag, modtime, content) ==
  LET pre == CheckPreconditions(req, etag, modtime)
      parsed == ParseRange(pre.ranges, content.size)
      answer == IF parsed.ranges # <<>> /\ SumRangesSize(parsed.ranges) <= content.size
                THEN Answer(parsed.ranges, content)
                ELSE Response(200, <<Part(0, RangeOf(content, 0, content.size))>>)
  IN  IF pre.status # 200 THEN Response(pre.status, <<>>)
      ELSE IF content.size = 0 THEN Response(200, <<>>)
      ELSE IF parsed.err # "nil" THEN Response(416, <<>>)
      ELSE IF req.method = "HEAD" THEN Response(answer.status, <<>>)
      ELSE answer

\* httpRanger.Range over a server of `content', for a ranger of the given size.
HTTPRange(size, content, offset, length) ==
  IF offset < 0 \/ length < 0 \/ offset + length > size THEN FatalReader
  ELSE IF length = 0 THEN EmptyReader
  ELSE LET resp == ServeContent(GetRequest(<<<<offset, offset + length - 1>>>>), NoTag, 0, content)
       IN  IF resp.status # 206 THEN FatalReader ELSE Reader(resp.parts[1].data, resp.parts[1].end)
==============================================================================
