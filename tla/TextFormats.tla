----------------------------- MODULE TextFormats -----------------------------
(***************************************************************************)
(* Values as text: strictcsv, useragent, the sizes and numbers of memory and storj,     *)
(* and paths. Each part says what its texts are made of.                                *)
(***************************************************************************)
EXTENDS Integers, Sequences, SequencesExt, FiniteSetsExt

------------------------------------------------------------------------------
(***************************************************************************)
(* strictcsv: structs to and from CSV. A struct type is a sequence of fields with a    *)
(* header, a kind and whether they are pointers; a value of it is a sequence, one      *)
(* element per field, <<>> for a nil pointer and <<v>> otherwise. The text of a field  *)
(* is empty or what it looks like and its value.                                       *)
(***************************************************************************)

CONSTANTS
  FloatUnit,      \* 10^6 of the smallest fractions: FormatFloat keeps multiples of it
  CsvTexts        \* the texts of string fields, the empty one among them

CsvError == <<>>
CsvOk(v) == <<v>>
MissingTag == "missing"    \* a field without a csv tag
Ignored == "-"        \* a field that is left out

Field(header, kind, pointer) == [header |-> header, kind |-> kind, pointer |-> pointer]
SupportedKinds == {"string", "bool", "int", "float", "marshaler"}

\* getGettableFields, getSettableFields: the fields of a type, or an error.
FieldsOf(type) ==
  IF \E i \in DOMAIN type : type[i].header = MissingTag \/ (type[i].header # Ignored /\ type[i].kind \notin SupportedKinds)
  THEN CsvError
  ELSE CsvOk({i \in DOMAIN type : type[i].header # Ignored})

\* The columns that are written, in the order of the fields.
GettableFields(type) == SelectSeq([i \in DOMAIN type |-> i], LAMBDA i : type[i].header # Ignored)

\* Texts, by what they look like.
Text(looks, v) == <<looks, v>>
Bool == 1
Decimal == 2
Fraction == 3
Custom == 4
BrokenByCRLF == 5     \* lines ended by a carriage return and a newline
BrokenByLF == 6       \* the same lines ended by newlines

\* The text of a value that is not nil. A float loses what six decimals do not show.
GetValue(kind, v) ==
  CASE kind = "string" -> v
    [] kind = "bool" -> Text(Bool, v)
    [] kind = "int" -> Text(Decimal, v)
    [] kind = "float" -> Text(Fraction, (v \div FloatUnit) * FloatUnit)
    [] kind = "marshaler" -> Text(Custom, v)
GetPointerValue(f, v) == IF v = <<>> THEN <<>> ELSE GetValue(f.kind, v[1])

\* A record for each element; a nil element is an error.
MarshalCsv(type, objs) ==
  LET columns == GettableFields(type)
  IN  IF FieldsOf(type) = CsvError \/ \E i \in DOMAIN objs : objs[i] = <<>> THEN CsvError
      ELSE CsvOk([headers |-> [c \in DOMAIN columns |-> type[columns[c]].header],
                  records |-> [i \in DOMAIN objs |->
                    [c \in DOMAIN columns |-> GetPointerValue(type[columns[c]], objs[i][1][columns[c]])]]])

\* The value of a text, or an error. Numbers and booleans do not parse from nothing.
SetValue(kind, text) ==
  CASE kind = "string" -> CsvOk(text)
    [] kind # "string" ->
         IF text # <<>> /\ text[1] \in [bool |-> {Bool}, int |-> {Decimal}, float |-> {Decimal, Fraction}, marshaler |-> {Custom}][kind]
         THEN CsvOk(text[2]) ELSE CsvError

\* An empty text leaves a pointer nil.
SetPointerValue(f, text) ==
  IF f.pointer /\ text = <<>> THEN CsvOk(<<>>)
  ELSE LET v == SetValue(f.kind, text) IN IF v = CsvError THEN CsvError ELSE CsvOk(v)

\* Headers to fields: every header a field, none twice, no field without one.
HeaderFields(type, headers) ==
  LET fields == FieldsOf(type)[1]
      named(h) == {i \in fields : type[i].header = h}
  IN  IF \/ \E c \in DOMAIN headers : named(headers[c]) = {}
         \/ \E c1, c2 \in DOMAIN headers : c1 # c2 /\ headers[c1] = headers[c2]
         \/ \E i \in fields : ~Contains(headers, type[i].header)
      THEN CsvError
      \* of two fields with one header the map keeps the later one
      ELSE CsvOk([c \in DOMAIN headers |-> CHOOSE i \in named(headers[c]) : \A j \in named(headers[c]) : j <= i])

\* The zero value of a field.
ZeroField(f) == IF f.pointer THEN <<>> ELSE <<IF f.kind = "string" THEN <<>> ELSE 0>>

SetFields(type, fields, record) ==
  LET got == [c \in DOMAIN fields |-> SetPointerValue(type[fields[c]], record[c])]
  IN  IF Len(record) # Len(fields) \/ \E c \in DOMAIN fields : got[c] = CsvError THEN CsvError
      ELSE CsvOk([i \in DOMAIN type |->
             IF \E c \in DOMAIN fields : fields[c] = i THEN got[CHOOSE c \in DOMAIN fields : fields[c] = i][1]
             ELSE ZeroField(type[i])])

\* csv.Reader skips a blank line, which a record of no columns or of one empty text is
\* written as, and ends every line with a newline, also within a field.
ReadText(text) == IF text # <<>> /\ text[1] = BrokenByCRLF THEN Text(BrokenByLF, text[2]) ELSE text
BlankLine(record) == record \in {<<>>, <<<<>>>>}
ReadAllRecords(records) ==
  LET lines == SelectSeq(records, LAMBDA line : ~BlankLine(line))
  IN  [i \in DOMAIN lines |-> [c \in DOMAIN lines[i] |-> ReadText(lines[i][c])]]

\* All records or none: the destination is set at the end. Without headers the next
\* line, if there is one, is taken for them and none of the fields.
UnmarshalCsv(type, csv) ==
  LET fields == HeaderFields(type, csv.headers)
      records == ReadAllRecords(csv.records)
      objs == [i \in DOMAIN records |-> SetFields(type, fields[1], records[i])]
  IN  IF FieldsOf(type) = CsvError \/ csv.headers = <<>> \/ fields = CsvError \/ \E i \in DOMAIN objs : objs[i] = CsvError THEN CsvError
      ELSE CsvOk(objs)

------------------------------------------------------------------------------
(***************************************************************************)
(* The entries of a User-Agent header and their text. Characters of a class that the   *)
(* grammar treats alike are one character: "t" for token characters, ":" for the       *)
(* other visible delimiters, "x" for control characters.                             *)
(***************************************************************************)

Chars == {"t", "/", "(", ")", "\\", " ", "tab", ":", "x"}
IsTChar(c) == c = "t"
IsSpace(c) == c \in {" ", "tab"}

Entry(product, version, comment) == [Product |-> product, Version |-> version, Comment |-> comment]

IsToken(s) == \A i \in DOMAIN s : IsTChar(s[i])

\* What a parser found and where it goes on, or nothing.
Found(value, next) == <<[value |-> value, next |-> next]>>
NotFound == <<>>
AcceptOne(data, p, c) == p <= Len(data) /\ data[p] = c

\* The first place from p on whose character is not of the class.
SkipWhile(data, p, Class(_)) == Min({q \in p..Len(data) : ~Class(data[q])} \cup {Len(data) + 1})

ParseToken(data, from) ==
  LET next == SkipWhile(data, from, IsTChar)
  IN  IF next = from THEN NotFound ELSE Found(SubSeq(data, from, next - 1), next)

ParseProduct(data, from) ==
  LET product == ParseToken(data, from)
      p == product[1].next
      version == ParseToken(data, p + 1)
  IN  IF product = NotFound THEN NotFound
      ELSE IF ~AcceptOne(data, p, "/") THEN Found(Entry(product[1].value, <<>>, <<>>), p)
      ELSE IF version = NotFound THEN NotFound
      ELSE Found(Entry(product[1].value, version[1].value, <<>>), version[1].next)

\* A quoted pair stands for its second character.
ParseCommentChar(data, p) ==
  CASE data[p] = "\\" -> IF p + 1 > Len(data) \/ data[p + 1] = "x" THEN NotFound ELSE Found(data[p + 1], p + 2)
    [] data[p] = "x" -> NotFound
    [] OTHER -> Found(data[p], p + 1)

\* Up to the closing parenthesis; comments do not nest.
RECURSIVE ParseCommentFrom(_, _, _)
ParseCommentFrom(data, p, out) ==
  LET c == ParseCommentChar(data, p)
  IN  IF p > Len(data) THEN NotFound
      ELSE IF data[p] = ")" THEN Found(Entry(<<>>, <<>>, out), p + 1)
      ELSE IF data[p] = "(" \/ c = NotFound THEN NotFound
      ELSE ParseCommentFrom(data, c[1].next, Append(out, c[1].value))
ParseComment(data, from) == ParseCommentFrom(data, from + 1, <<>>)

ParseEntry(data, from) == IF AcceptOne(data, from, "(") THEN ParseComment(data, from) ELSE ParseProduct(data, from)

TrimSpace(data) ==
  LET first == SkipWhile(data, 1, IsSpace)
      last == Len(data) + 1 - SkipWhile(Reverse(data), 1, IsSpace)
  IN  SubSeq(data, first, last)

\* Whitespace is required between entries; the data has none at its end.
RECURSIVE ParseMoreEntries(_, _, _)
ParseMoreEntries(data, p, entries) ==
  LET next == SkipWhile(data, p, IsSpace)
      e == ParseEntry(data, next)
  IN  IF p > Len(data) THEN <<entries>>
      ELSE IF next = p \/ e = NotFound THEN NotFound
      ELSE ParseMoreEntries(data, e[1].next, Append(entries, e[1].value))

\* The first entry is not a comment, unless it is an empty one.
ParseEntries(text) ==
  LET data == TrimSpace(text)
      first == ParseEntry(data, 1)
  IN  IF data = <<>> THEN <<<<>>>>
      ELSE IF first = NotFound \/ first[1].value.Comment # <<>> THEN NotFound
      ELSE ParseMoreEntries(data, first[1].next, <<first[1].value>>)

EntryText(e) ==
  LET product == e.Product \o (IF e.Version = <<>> THEN <<>> ELSE <<"/">> \o e.Version)
      comment == <<"(">> \o e.Comment \o <<")">>
  IN  IF e.Product = <<>> THEN (IF e.Comment = <<>> THEN <<>> ELSE comment)
      ELSE IF e.Comment = <<>> THEN product ELSE product \o <<" ">> \o comment

\* The version is checked and written only with a product. Comments are not escaped.
EncodeEntries(entries) ==
  LET valid(e) == e.Product = <<>> \/ (IsToken(e.Product) /\ IsToken(e.Version))
      texts == [i \in DOMAIN entries |-> EntryText(entries[i])]
  IN  IF \E i \in DOMAIN entries : ~valid(entries[i]) THEN NotFound
      ELSE <<FlattenSeq([i \in DOMAIN texts |-> IF i = 1 THEN texts[i] ELSE <<" ">> \o texts[i]])>>

\* Parse: the product and the version of the first word, as they are.
ParseInfo(text) ==
  LET s == TrimSpace(text)
      word == SubSeq(s, 1, SkipWhile(s, 1, LAMBDA c : c # " ") - 1)
      slash == SkipWhile(word, 1, LAMBDA c : c # "/")
  IN  [Name |-> SubSeq(word, 1, slash - 1), Version |-> SubSeq(word, slash + 1, Len(word)), Full |-> s]

------------------------------------------------------------------------------
(***************************************************************************)
(* memory.Size and its text, the numbers of a redundancy scheme, and placements.        *)
(* The units of a size grow by Base2 (1024) or by Base10 (1000).                        *)
(***************************************************************************)

CONSTANTS
  Base2, Base10,
  MaxPower,       \* 6: exbibytes and exabytes
  SizeBits,       \* 64: the width of a size
  ConvertedHuge,  \* what the build's conversion makes of a float64 beyond int64
  ShareBits       \* 16: the width of the numbers of shares, and of placements

Abs(n) == IF n > 0 THEN n ELSE -n

MinSize == -(2 ^ (SizeBits - 1))
MaxSize == 2 ^ (SizeBits - 1) - 1

\* The negation of the smallest size is itself.
AbsSize(size) == IF size = MinSize THEN size ELSE Abs(size)

\* The text of a size: the value in parts of 1, 10 or 100, and the unit.
SizeText(value, parts, base, power) == [value |-> value, parts |-> parts, base |-> base, power |-> power]

\* The largest unit of which the size is two thirds; less is bytes.
UnitPower(size, base) == Max({0} \cup {p \in 1..MaxPower : AbsSize(size) >= (base ^ p * 2) \div 3})

\* %.1f and %.2f: rounded to the nearest, halves to the even one.
RoundedQuotient(n, d) ==
  LET q == Abs(n) \div d   r == Abs(n) % d
      rounded == IF 2 * r > d \/ (2 * r = d /\ q % 2 = 1) THEN q + 1 ELSE q
  IN  IF n < 0 THEN -rounded ELSE rounded

FormatSize(size, base, parts) ==
  LET p == UnitPower(size, base)
  IN  IF p = 0 THEN SizeText(size, 1, base, 0) ELSE SizeText(RoundedQuotient(size * parts, base ^ p), parts, base, p)

Base2String(size) == FormatSize(size, Base2, 10)
Base10String(size) == FormatSize(size, Base10, 100)

CountZeros(num, base) == IF num = 0 THEN 0 ELSE Max({0} \cup {p \in 1..MaxPower : num % base ^ p = 0})

SizeString(size) == IF CountZeros(size, Base10) > CountZeros(size, Base2) THEN Base10String(size) ELSE Base2String(size)

\* Set: a fraction of a byte is cut off, and the language says nothing of a number
\* that no size is. (A float64 product may miss a whole number by less than it cuts off.)
SetSize(t) ==
  LET n == (Abs(t.value) * t.base ^ t.power) \div t.parts
      size == IF t.value < 0 THEN -n ELSE n
  IN  IF size \in MinSize..MaxSize THEN size ELSE ConvertedHuge

------------------------------------------------------------------------------

\* A product of numbers of this width.
Wrap(n) == ((n + 2 ^ (ShareBits - 1)) % 2 ^ ShareBits) - 2 ^ (ShareBits - 1)

\* Division of the language rounds toward zero.
Quotient(a, b) == IF a < 0 THEN -((-a) \div b) ELSE a \div b

StripeSize(s) == s.ShareSize * s.RequiredShares
StripeCount(s, encryptedSize) == (encryptedSize + StripeSize(s) - 1) \div StripeSize(s)

DownloadNodes(s) ==
  LET product == Wrap((s.TotalShares - s.OptimalShares) * s.RequiredShares)
      share == Quotient(product, s.OptimalShares)
      extra == IF s.OptimalShares > 0 /\ share # 0 THEN share ELSE 1
  IN  Min({s.RequiredShares + extra, s.TotalShares})

------------------------------------------------------------------------------

\* A placement in a database: <<>> for NULL, which allows every country, or <<number>>.
EveryCountry == 0
PlacementValue(p) == <<p>>
PlacementScan(field) == IF field = <<>> THEN EveryCountry ELSE field[1] % 2 ^ ShareBits

------------------------------------------------------------------------------
(***************************************************************************)
(* Paths as strings of bytes: how an Iterator takes them apart and a pathBuilder puts   *)
(* them together, and how an encrypted component is made free of the bytes that have    *)
(* a meaning in a path.                                                                 *)
(***************************************************************************)

SlashByte == 47
emptyComponentPrefix == 1
notEmptyComponentPrefix == 2
escapeSlash == 46
escapeFF == 254
escape01 == 1

\* An Iterator: the path and how much of it is consumed.
NewIterator(raw) == [raw |-> raw, consumed |-> 0, lastEmpty |-> raw # <<>>]
Remaining(it) == SubSeq(it.raw, it.consumed + 1, Len(it.raw))
IteratorDone(it) == Len(it.raw) = it.consumed /\ ~it.lastEmpty

\* Next: the component and the iterator after it.
IteratorNext(it) ==
  LET rem == Remaining(it)
      slashes == {i \in DOMAIN rem : rem[i] = SlashByte}
      index == Min(slashes)
  IN  IF slashes = {} THEN [component |-> rem, it |-> [it EXCEPT !.consumed = Len(it.raw), !.lastEmpty = FALSE]]
      ELSE [component |-> SubSeq(rem, 1, index - 1),
            it |-> [it EXCEPT !.consumed = @ + index, !.lastEmpty = index = Len(rem)]]

RECURSIVE ComponentsFrom(_)
ComponentsFrom(it) ==
  IF IteratorDone(it) THEN <<>>
  ELSE LET next == IteratorNext(it) IN <<next.component>> \o ComponentsFrom(next.it)
Components(raw) == ComponentsFrom(NewIterator(raw))

\* pathBuilder.append of each component.
BuildPath(components) ==
  FlattenSeq([i \in DOMAIN components |-> IF i = 1 THEN components[i] ELSE <<SlashByte>> \o components[i]])

Lexicographic(a, b) ==
  \/ IsStrictPrefix(a, b)
  \/ \E i \in DOMAIN a \cap DOMAIN b : a[i] < b[i] /\ SubSeq(a, 1, i - 1) = SubSeq(b, 1, i - 1)

------------------------------------------------------------------------------
(* Locations (fpath): a text is [scheme, parts]: what stands before a colon, "" when    *)
(* there is no colon, and the rest cut at its slashes, so that <<"">> is the empty text  *)
(* and <<"", "">> a slash.                                                               *)

NoText == <<"">>
Rooted(parts) == Len(parts) > 1 /\ parts[1] = ""

\* path.Clean, and path.Join of two texts, of which empty ones do not count.
Clean(parts) ==
  LET kept == FoldLeft(LAMBDA acc, part :
                CASE part \in {"", "."} -> acc
                  [] part = ".." /\ acc # <<>> /\ Last(acc) # ".." -> Front(acc)
                  [] part = ".." /\ acc = <<>> /\ Rooted(parts) -> acc
                  [] OTHER -> Append(acc, part), <<>>, parts)
  IN  CASE Rooted(parts) -> <<"">> \o (IF kept = <<>> THEN NoText ELSE kept)
        [] ~Rooted(parts) -> IF kept = <<>> THEN <<".">> ELSE kept
JoinText(a, b) ==
  LET texts == SelectSeq(<<a, b>>, LAMBDA t : t # NoText) IN IF texts = <<>> THEN NoText ELSE Clean(FlattenSeq(texts))

\* One to four slashes, a name, and perhaps a slash and more: where the name is, or 0.
ParseBucket(parts) ==
  LET names == {i \in DOMAIN parts : parts[i] # ""} IN IF names # {} /\ Min(names) \in 2..5 THEN Min(names) ELSE 0

\* New: <<location>>, or <<>> for a text that is not one.
NewFPath(text) ==
  LET local == <<[original |-> text, local |-> TRUE, bucket |-> "", path |-> NoText]>>
      at == ParseBucket(text.parts)
      rest == SubSeq(text.parts, at + 1, Len(text.parts))
      names == {i \in DOMAIN rest : rest[i] # ""}
  IN  IF text.scheme = "" THEN local
      ELSE IF text.scheme \notin {"sj", "s3"} \/ at = 0 THEN <<>>
      ELSE <<[original |-> text, local |-> FALSE, bucket |-> text.parts[at],
              path |-> IF names = {} THEN NoText ELSE Clean(SubSeq(rest, Min(names), Len(rest)))]>>

\* Join of a location and a segment.
JoinFPath(p, segment) ==
  IF p.local THEN [p EXCEPT !.original.parts = JoinText(@, segment)]
  ELSE [p EXCEPT !.original.parts = @ \o segment, !.path = JoinText(@, segment)]

\* path.Base, and Base of a location.
BaseText(parts) ==
  LET names == {i \in DOMAIN parts : parts[i] # ""}
  IN  IF names # {} THEN parts[Max(names)] ELSE IF parts = NoText THEN "." ELSE "/"
BaseFPath(p) ==
  IF p.local THEN BaseText(p.original.parts) ELSE IF p.path = NoText THEN "" ELSE BaseText(p.path)

------------------------------------------------------------------------------

EscapeByte(b) ==
  CASE b = escapeSlash -> <<escapeSlash, 1>>
    [] b = escapeSlash + 1 -> <<escapeSlash, 2>>
    [] b = escapeFF -> <<escapeFF, 1>>
    [] b = escapeFF + 1 -> <<escapeFF, 2>>
    [] b = escape01 - 1 -> <<escape01, 1>>
    [] b = escape01 -> <<escape01, 2>>
    [] OTHER -> <<b>>

EncodeSegment(segment) ==
  IF segment = <<>> THEN <<emptyComponentPrefix>>
  ELSE <<notEmptyComponentPrefix>> \o FlattenSeq([i \in DOMAIN segment |-> EscapeByte(segment[i])])

IsEscapeByte(b) == b \in {escapeSlash, escapeFF, escape01}
IsDisallowedByte(b) == b \in {0, 255, SlashByte}

\* The loop over the bytes before the last, then the last unless an escape took it.
RECURSIVE ValidFrom(_, _)
ValidFrom(segment, i) ==
  CASE i > Len(segment) -> TRUE
    [] i = Len(segment) -> ~IsEscapeByte(segment[i]) /\ ~IsDisallowedByte(segment[i])
    [] i < Len(segment) -> IF IsEscapeByte(segment[i]) THEN segment[i + 1] \in {1, 2} /\ ValidFrom(segment, i + 2)
                           ELSE ~IsDisallowedByte(segment[i]) /\ ValidFrom(segment, i + 1)

ValidateEncodedSegment(segment) ==
  /\ segment # <<>>
  /\ segment[1] \in {emptyComponentPrefix, notEmptyComponentPrefix}
  /\ (segment[1] = emptyComponentPrefix) = (Len(segment) = 1)
  /\ ValidFrom(segment, 2)

RECURSIVE UnescapeFrom(_, _)
UnescapeFrom(segment, i) ==
  CASE i > Len(segment) -> <<>>
    [] i = Len(segment) -> <<segment[i]>>
    [] i < Len(segment) ->
         IF segment[i] \in {escapeSlash, escapeFF} THEN <<segment[i] + segment[i + 1] - 1>> \o UnescapeFrom(segment, i + 2)
         ELSE IF segment[i] = escape01 THEN <<segment[i + 1] - 1>> \o UnescapeFrom(segment, i + 2)
         ELSE <<segment[i]>> \o UnescapeFrom(segment, i + 1)

DecodeSegment(segment) ==
  IF ~ValidateEncodedSegment(segment) THEN <<>>
  ELSE IF segment[1] = emptyComponentPrefix THEN <<<<>>>>
  ELSE <<UnescapeFrom(segment, 2)>>
==============================================================================
