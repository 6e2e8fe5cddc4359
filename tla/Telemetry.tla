------------------------------ MODULE Telemetry ------------------------------
(***************************************************************************)
(* Monitoring: the tag counters of eventstat, telemetry.Send that packs their      *)
(* values into UDP packets, the packets on the network, and the handler of the     *)
(* telemetry server. Publishing may be under way more than once at a time, and     *)
(* events come in meanwhile.                                                       *)
(*                                                                                 *)
(* A map has an identity: a counter exchanges its map under the lock, reads and    *)
(* empties the old one without it, and keeps it for the next time.                 *)
(***************************************************************************)
EXTENDS Naturals, Sequences, FiniteSets, SequencesExt

CONSTANTS
  EventTags,    \* what is counted
  Discarded,    \* the tag "<DISCARDED>"
  CounterLimit, \* WithLimit
  MapIds,       \* identities of maps
  NoMap,        \* c.free = nil, a publisher without a map
  Publishers,   \* goroutines in Publish
  MaxEvents,    \* bound: events
  MaxPublishes, \* bound: reports
  EntrySizes,   \* sizes an encoded entry may have; a larger one than TooLong is refused
  TooLong, PacketHeader, PacketSize

ASSUME TelemetryAssumption ==
  /\ Discarded \notin EventTags /\ CounterLimit \in Nat /\ NoMap \notin MapIds
  /\ EntrySizes \subseteq Nat \ {0}
  /\ IsFiniteSet(MapIds) /\ MapIds # {}

CheckSum == 4

VARIABLES
  maps,       \* the contents: tag -> count
  counters,   \* c.counters
  free,       \* c.free
  discarded,  \* c.discarded
  publisher,  \* [pc, map, marker] of each publisher
  network,    \* packets sent and not yet received or lost
  handled,    \* sum of the counts the handler of the server was called with
  events,     \* history: events so far
  published,  \* history: sum of the counts handed to Send
  lost,       \* history: sum of the counts skipped by Send or lost on the way
  reports     \* bound: reports begun

telemetryVars == <<maps, counters, free, discarded, publisher, network, handled, events, published, lost, reports>>

EmptyMap == [t \in {} |-> 0]
Bump(m, t) == [u \in DOMAIN m \cup {t} |-> IF u = t THEN (IF t \in DOMAIN m THEN m[t] ELSE 0) + 1 ELSE m[u]]

\* The sum of the values of a function, as the number of units that they are made of.
Total(w) == Cardinality(UNION {{x} \X (1 .. w[x]) : x \in DOMAIN w})

------------------------------------------------------------------------------
(* The counter. *)

\* increment: a full map takes no new tag but the one for the rest.
Increment(t) ==
  /\ events < MaxEvents
  /\ LET m == maps[counters]
         full == Cardinality(DOMAIN m) >= CounterLimit /\ t \notin DOMAIN m
     IN  /\ maps' = [maps EXCEPT ![counters] = Bump(m, IF full THEN Discarded ELSE t)]
         /\ discarded' = (discarded \/ full)
  /\ events' = events + 1
  /\ UNCHANGED <<counters, free, publisher, network, handled, published, lost, reports>>

\* Bug form: the full map is offered for use again while it is still to be published.
TakeMapEarly(p) ==
  /\ publisher[p].pc = "idle" /\ reports < MaxPublishes
  /\ \E m \in IF free = NoMap THEN MapIds \ {counters} ELSE {free} :
       counters' = m
  /\ free' = counters
  /\ publisher' = [publisher EXCEPT ![p] = [pc |-> "publish", map |-> counters, marker |-> discarded]]
  /\ discarded' = FALSE /\ reports' = reports + 1
  /\ UNCHANGED <<maps, network, handled, events, published, lost>>

InUse == {counters, free} \cup {publisher[p].map : p \in Publishers}

\* The locked part of publishAndReset.
TakeMap(p) ==
  /\ publisher[p].pc = "idle" /\ reports < MaxPublishes
  /\ \E m \in IF free = NoMap THEN MapIds \ InUse ELSE {free} :
       counters' = m
  /\ free' = NoMap
  /\ publisher' = [publisher EXCEPT ![p] = [pc |-> "publish", map |-> counters, marker |-> discarded]]
  /\ discarded' = FALSE /\ reports' = reports + 1
  /\ UNCHANGED <<maps, network, handled, events, published, lost>>

------------------------------------------------------------------------------
(* Send. *)

\* Begin and the headers, then entries.
BufSize(buf) == PacketHeader + Total([i \in DOMAIN buf |-> buf[i].size])
Fits(buf) == BufSize(buf) + CheckSum <= PacketSize

\* The callback of forEachValue: an entry that cannot be encoded is skipped; one that
\* does not fit sends what there was before and begins a packet, or is one by itself.
AppendEntry(acc, e) ==
  IF e.size > TooLong THEN [acc EXCEPT !.skipped = Append(@, e)]
  ELSE IF Fits(Append(acc.buf, e)) THEN [acc EXCEPT !.buf = Append(@, e)]
  ELSE IF acc.buf = <<>> THEN [acc EXCEPT !.packets = Append(@, <<e>>)]
  ELSE IF Fits(<<e>>) THEN [acc EXCEPT !.packets = Append(@, acc.buf), !.buf = <<e>>]
  ELSE [acc EXCEPT !.packets = @ \o <<acc.buf, <<e>>>>, !.buf = <<>>]

Send(entries) ==
  LET acc[n \in 0 .. Len(entries)] ==
        IF n = 0 THEN [buf |-> <<>>, packets |-> <<>>, skipped |-> <<>>]
        ELSE AppendEntry(acc[n - 1], entries[n])
      end == acc[Len(entries)]
  IN  [packets |-> IF end.buf = <<>> THEN end.packets ELSE Append(end.packets, end.buf),
       skipped |-> end.skipped]

\* The values of a map in some order, then how many there are and whether events were
\* discarded.
EntriesOf(m, marker, sizes) ==
  LET tags == SetToSeq(DOMAIN m)
  IN  [i \in 1 .. Len(tags) |-> [name |-> "count", tag |-> tags[i], value |-> m[tags[i]], size |-> sizes[1]]]
      \o << [name |-> "buckets", tag |-> NoMap, value |-> Cardinality(DOMAIN m), size |-> sizes[2]],
            [name |-> "discarded", tag |-> NoMap, value |-> IF marker THEN 1 ELSE 0, size |-> sizes[2]] >>

CountOf(entries) == Total([i \in DOMAIN entries |-> IF entries[i].name = "count" THEN entries[i].value ELSE 0])

\* The unlocked part of publishAndReset up to the last value: Send, over a network that
\* has not lost anything yet.
PublishMap(p) ==
  /\ publisher[p].pc = "publish"
  /\ \E sizes \in EntrySizes \X EntrySizes :
       LET entries == EntriesOf(maps[publisher[p].map], publisher[p].marker, sizes)
           out == Send(entries)
       IN  /\ network' = network \o out.packets
           /\ published' = published + CountOf(entries)
           /\ lost' = lost + CountOf(out.skipped)
  /\ publisher' = [publisher EXCEPT ![p].pc = "clear"]
  /\ UNCHANGED <<maps, counters, free, discarded, handled, events, reports>>

ClearMap(p) ==
  /\ publisher[p].pc = "clear"
  /\ maps' = [maps EXCEPT ![publisher[p].map] = EmptyMap]
  /\ publisher' = [publisher EXCEPT ![p].pc = "free"]
  /\ UNCHANGED <<counters, free, discarded, network, handled, events, published, lost, reports>>

FreeMap(p) ==
  /\ publisher[p].pc = "free"
  /\ free' = publisher[p].map
  /\ publisher' = [publisher EXCEPT ![p] = [pc |-> "idle", map |-> NoMap, marker |-> FALSE]]
  /\ UNCHANGED <<maps, counters, discarded, network, handled, events, published, lost, reports>>

------------------------------------------------------------------------------
(* The network and the server. *)

\* A packet is lost, or damaged so that its checksum is wrong.
LosePacket ==
  /\ network # <<>>
  /\ network' = Tail(network) /\ lost' = lost + CountOf(Head(network))
  /\ UNCHANGED <<maps, counters, free, discarded, publisher, handled, events, published, reports>>

\* handlerWrapper.Handle: application, instance and headers are read off, then each value
\* goes to the handler.
Handle ==
  /\ network # <<>>
  /\ network' = Tail(network) /\ handled' = handled + CountOf(Head(network))
  /\ UNCHANGED <<maps, counters, free, discarded, publisher, events, published, lost, reports>>

------------------------------------------------------------------------------

TelemetryInit ==
  /\ maps = [m \in MapIds |-> EmptyMap]
  /\ counters = CHOOSE m \in MapIds : TRUE
  /\ free = NoMap /\ discarded = FALSE
  /\ publisher = [p \in Publishers |-> [pc |-> "idle", map |-> NoMap, marker |-> FALSE]]
  /\ network = <<>> /\ handled = 0
  /\ events = 0 /\ published = 0 /\ lost = 0 /\ reports = 0

TelemetryNext ==
  \/ \E t \in EventTags : Increment(t)
  \/ \E p \in Publishers : TakeMap(p) \/ PublishMap(p) \/ ClearMap(p) \/ FreeMap(p)
  \/ LosePacket \/ Handle

TelemetrySpec == TelemetryInit /\ [][TelemetryNext]_telemetryVars

------------------------------------------------------------------------------

InFlight == Total([i \in DOMAIN network |-> CountOf(network[i])])

Unpublished == {counters} \cup {publisher[p].map : p \in {q \in Publishers : publisher[q].pc = "publish"}}

\* No event is counted twice or forgotten, whatever is published while it comes in: it
\* is in the map in use or in one that is about to be published, or it was handed to
\* Send, and from there it was skipped, lost with its packet, or handled. A published
\* map says that events were discarded exactly when it has the tag for them, it never
\* has more than one tag above the limit, and a packet is within its size unless a
\* single value is not (counter.go:24-79, udp.go:62-131).
EventsAccounted ==
  /\ events = published + Total([m \in Unpublished |-> Total(maps[m])])
  /\ published = lost + InFlight + handled
  /\ \A p \in Publishers : publisher[p].pc = "publish" =>
       (publisher[p].marker <=> Discarded \in DOMAIN maps[publisher[p].map])
  /\ \A m \in MapIds : Cardinality(DOMAIN maps[m]) <= CounterLimit + 1
  /\ \A i \in DOMAIN network : Fits(network[i]) \/ Len(network[i]) = 1
==============================================================================
