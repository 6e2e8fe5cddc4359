------------------------------ MODULE MCContent ------------------------------
(***************************************************************************)
(* Content on its way: an object's data in and out of a store (Data), the cache of   *)
(* values (LruCache), counted events in packets (Telemetry), and values in their     *)
(* formats (Formats). A behaviour is about the part chosen in its initial state, the *)
(* others stay as they were made.                                                    *)
(***************************************************************************)
EXTENDS Data, LruCache, Telemetry, Formats

VARIABLE part

contentVars == <<dataVars, lruVars, telemetryVars, trip, part>>

ContentInit ==
  /\ part \in {"data", "cache", "events", "formats"}
  /\ DataInit /\ LruInit /\ TelemetryInit /\ FormatsInit
  \* one initial state for the parts a behaviour is not about
  /\ part # "cache" => opts = CHOOSE o \in Options : TRUE

ContentNext ==
  /\ UNCHANGED part
  /\ \/ part = "data" /\ DataNext /\ UNCHANGED <<lruVars, telemetryVars, trip>>
     \/ part = "cache" /\ LruNext /\ UNCHANGED <<dataVars, telemetryVars, trip>>
     \/ part = "events" /\ TelemetryNext /\ UNCHANGED <<dataVars, lruVars, trip>>
     \/ part = "formats" /\ FormatsNext /\ UNCHANGED <<dataVars, lruVars, telemetryVars>>

ContentSpec == ContentInit /\ [][ContentNext]_contentVars

------------------------------------------------------------------------------
(* The instance. *)

MCOptions == {[Capacity |-> 1, Expires |-> TRUE], [Capacity |-> 2, Expires |-> TRUE], [Capacity |-> 2, Expires |-> FALSE]}

MCSymmetry == Permutations(Ids) \cup Permutations(Goroutines)

LOCAL Strong == [weak |-> FALSE, tag |-> "v1"]
LOCAL Other == [weak |-> FALSE, tag |-> "v2"]
LOCAL Weak == [weak |-> TRUE, tag |-> "v1"]

MCTags == {NoTag, Strong, Weak}

\* Conditions in all combinations, with one range, and all ranges with If-Range.
MCRequests ==
  [method : {"GET", "POST"}, ifMatch : {<<>>, <<Other>>, <<Other, Strong>>}, ifNoneMatch : {<<>>, <<Other>>, <<Weak>>},
   ifUnmodifiedSince : {NoTime, 2, 4}, ifModifiedSince : {NoTime, 2, 4}, ifRange : {NoIfRange},
   ranges : {<<<<1, 2>>>>}]
  \cup
  [method : {"GET", "HEAD"}, ifMatch : {<<>>}, ifNoneMatch : {<<>>}, ifUnmodifiedSince : {NoTime}, ifModifiedSince : {NoTime},
   ifRange : {NoIfRange, [etag |-> Strong, time |-> NoTime], [etag |-> Weak, time |-> NoTime],
              [etag |-> NoTag, time |-> 2], [etag |-> NoTag, time |-> 4]},
   ranges : {<<>>, <<<<0, 0>>>>, <<<<2, NotGiven>>>>, <<<<NotGiven, 3>>>>, <<<<NotGiven, 0>>>>, <<<<3, 1>>>>, <<<<1, -1>>>>,
             <<<<9, NotGiven>>>>, <<<<0, 1>>, <<3, 9>>>>, <<<<0, NotGiven>>, <<1, 2>>>>, <<<<9, 10>>, <<1, 1>>>>,
             <<<<NotGiven, 1>>, <<0, 1>>, <<9, NotGiven>>>>, <<<<NotGiven, NotGiven>>>>,
             <<<<NotGiven, -2>>>>, <<<<0, 1>>, <<NotGiven, -1>>, <<2, 2>>>>}]

LOCAL Bytes(set, n) == [1..n -> set]
LOCAL Ids3 == Bytes({0, 1, 15}, 3)
LOCAL Nine == [i \in 1..9 |-> i]
LOCAL Csv(type, objects) == {[type |-> type, objs |-> <<>>]} \cup {[type |-> type, objs |-> <<<<o>>>>] : o \in objects}
                              \cup {[type |-> type, objs |-> <<<<o>>, <<p>>>>] : o, p \in objects}
LOCAL Agents ==
  {Entry(p, v, c) : p \in {<<>>, <<"t">>, <<"t", "/">>}, v \in {<<>>, <<"t">>}, c \in {<<>>, <<"t", " ", ":">>, <<")">>, <<"\\">>}}

LOCAL MCSlashes(n) == [i \in 1..n |-> ""]

MCUUIDGroups == <<2, 1, 1>>
MCRangeOffsets == <<1, 2>>
MCTypePrefix == <<4, 2>>
MCCsvTexts == {<<>>, <<0, 1>>, <<2, 5>>, Text(BrokenByCRLF, 1)}
MCSecret == <<7, 1>>
MCConvertedHuge == MinSize    \* as on amd64

MCSamples ==
  [kind \in {"node id", "node urls", "piece id", "serial number", "stream id", "segment id", "nonce", "uuid", "macaroon",
             "api key", "revocation", "certificates", "peer identity", "private key", "public key", "user agent", "csv", "segment", "path", "filter",
             "size", "placement", "piece public key", "piece private key", "location", "message"} |->
     CASE kind = "node id" -> {p \o <<v>> : p \in Bytes({0, 1, 5}, 3), v \in {0, 1, 3}}
       [] kind = "node urls" ->
            LET urls == [ID : {ZeroNodeID, <<0, 5, 0, 0>>, <<0, 0, 0, 3>>}, Address : {<<>>, <<"h">>}]
            IN  {<<>>} \cup {<<u>> : u \in urls} \cup (urls \X urls)
       [] kind \in {"piece id", "serial number"} -> Ids3
       [] kind \in {"stream id", "segment id"} -> {<<>>, <<0>>, <<9>>} \cup Bytes({1, 15}, 2)
       [] kind = "nonce" -> Bytes({0, 1, 15}, 2)
       [] kind = "uuid" -> Bytes({0, 1, 15}, 4)
       [] kind = "macaroon" -> {FromParts(h, Secret, c) : h \in {<<>>, <<3>>}, c \in BoundedSeq({<<>>, <<2, 0>>, Nine}, 2)}
       [] kind = "api key" -> {FromParts(<<0>>, Secret, c) : c \in BoundedSeq({<<>>, <<6>>}, 1)}
       [] kind = "revocation" -> [Timestamp : {-5, 0, 3, 200}, KeyHash : {<<>>, <<1, 2>>}, Signature : {<<>>, <<0>>, Nine}]
       [] kind = "peer identity" -> [Leaf : {1}, CA : {1, 2}, RestChain : {<<>>, <<3>>, <<3, 2>>}]
       [] kind = "certificates" -> {<<>>, <<1>>, <<1, 2>>}
       [] kind \in {"private key", "public key"} -> {1}
       [] kind = "user agent" -> {<<>>} \cup {<<e>> : e \in Agents} \cup {<<e, f>> : e \in Agents, f \in {Entry(<<"t">>, <<>>, <<>>), Entry(<<>>, <<>>, <<"t">>)}}
       [] kind = "csv" ->
            Csv(<<Field("a", "string", FALSE), Field("b", "int", FALSE)>>, {<<<<s>>, <<n>>>> : s \in CsvTexts, n \in {0, 7}})
              \cup Csv(<<Field("a", "string", TRUE), Field("-", "int", FALSE), Field("b", "float", TRUE), Field("c", "bool", FALSE)>>,
                       {<<s, <<7>>, n, <<1>>>> : s \in {<<>>} \cup {<<t>> : t \in CsvTexts}, n \in {<<>>, <<7>>}})
              \cup Csv(<<Field("a", "marshaler", TRUE), Field("a", "int", FALSE)>>, {<<<<>>, <<1>>>>, <<<<2>>, <<1>>>>})
              \cup Csv(<<Field("a", "string", TRUE)>>, {<<<<>>>>, <<<<<<>>>>>>, <<<<<<0, 1>>>>>>})
              \cup Csv(<<Field("-", "int", FALSE)>>, {<<<<7>>>>})
              \cup {[type |-> <<Field("a", "chan", FALSE)>>, objs |-> <<>>], [type |-> <<Field("missing", "int", FALSE)>>, objs |-> <<>>],
                    [type |-> <<Field("a", "int", FALSE)>>, objs |-> <<<<>>>>]}
       [] kind = "segment" -> BoundedSeq({0, 1, 2, 3, 46, 47, 254, 255}, 2)
       [] kind = "path" -> BoundedSeq({3, SlashByte}, 4)
       [] kind = "filter" -> [seed : {0, 2, 4}, hashCount : 1..3, size : 1..3, pieces : {<<p, q>> : p \in Ids3, q \in {<<1, 2, 3>>, <<15, 0, 8>>}}]
       [] kind = "size" -> -70..1200 \cup 1970..MaxSize \cup MinSize..(MinSize + 9)
       [] kind = "placement" -> 0..5
       [] kind = "piece public key" -> {<<>>} \cup Ids3
       [] kind = "piece private key" -> {<<>>} \cup Bytes({0, 9}, 4)
       [] kind = "location" ->
            [text : [scheme : {"sj"}, parts : {MCSlashes(n) \o p : n \in {1, 2, 5}, p \in BoundedSeq({"", "a", ".."}, 3)}]
                      \cup [scheme : {"", "ftp"}, parts : BoundedSeq({"", "a", ".."}, 3) \ {<<>>}],
             segment : BoundedSeq({"", "b", ".", ".."}, 3) \ {<<>>}]
       [] kind = "message" -> [cipher : {"null", "aesgcm", "secretbox", "base64"}, key : {1, 2}, nonce : {<<0, 0, 0, 0>>, <<0, 0, 0, 1>>, <<0, 1, 0, 0>>},
                               data : {<<>>, <<1>>, <<1, 2>>}]]
==============================================================================
