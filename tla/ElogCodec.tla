------------------------------ MODULE ElogCodec ------------------------------
(***************************************************************************)
(* The saved form of an event log (elog/encoding.go).  A view is written   *)
(* by one program and read by another, which may have registered its event *)
(* types in another order, or not all of them; the bytes may end early.    *)
(* One item of the stream stands for the 8 bytes of the time unit, for one *)
(* varint, for the start time or a name with its length before it, or for  *)
(* the data of an event; an item that is cut in two is read as a missing   *)
(* one.  Package time writes and reads a start time, and may refuse either *)
(* (a zone it cannot encode; an encoding of a newer version).              *)
(***************************************************************************)
EXTENDS Integers, Sequences, FiniteSets
LOCAL INSTANCE SequencesExt

CONSTANTS
  Types,       \* names of event types
  TimeModulus, \* cpu.Time is a uint64
  Times,       \* bound: time stamps that are logged
  Units,       \* bound: time units of a view; 0 when it has none yet
  CpuUnit,     \* the unit that timeUnitNsecs then takes from the processor
  StartTimes,  \* bound: start times of a log
  Unwritable,  \* those that Time.MarshalBinary refuses
  Unreadable,  \* those that Time.UnmarshalBinary of the reader refuses
  Tracks,      \* bound: tracks and data of an event
  MaxEvents    \* bound: events of the view

Time == 0..TimeModulus-1

VARIABLES
  writer,  \* eventTypes of the program that writes: names by index
  reader,  \* eventTypes of the program that reads
  view,    \* the view that is saved
  wire,    \* the bytes, once they are written
  cut,     \* items lost from their end
  got      \* what the reader has: [err, view]

vars == <<writer, reader, view, wire, cut, got>>

Orders == {s \in UNION {[1..n -> Types] : n \in 0..Cardinality(Types)} : IsInjective(s)}

Nothing == [err |-> "none", unit |-> 0, cpuStartTime |-> 0, startTime |-> 0, events |-> <<>>]
fail(e) == [Nothing EXCEPT !.err = e]

Init ==
  /\ writer \in {s \in Orders : Range(s) = Types}
  /\ reader \in Orders
  /\ view \in [unit : Units, cpuStartTime : Times, startTime : StartTimes, events : {<<>>}]
  /\ wire = <<>> /\ cut = 0
  /\ got = Nothing

-----------------------------------------------------------------------------
\* Buffer.Add and NewView; stamps come from different processors, so that
\* they need not grow
Log(t, time, x) ==
  /\ wire = <<>> /\ got = Nothing
  /\ Len(view.events) < MaxEvents
  /\ view' = [view EXCEPT !.events =
                Append(@, [timestamp |-> time, typeIndex |-> t, track |-> x, data |-> x])]
  /\ UNCHANGED <<writer, reader, wire, cut, got>>

\* The type indices of the view in the order in which they are first used
localTypes ==
  FoldLeft(LAMBDA seen, e : IF e.typeIndex \in Range(seen) THEN seen ELSE Append(seen, e.typeIndex),
           <<>>, view.events)

localIndex(t) == CHOOSE i \in DOMAIN localTypes : localTypes[i] = t


\* The time that event i is written relative to
since(i) == IF i = 1 THEN view.cpuStartTime ELSE view.events[i - 1].timestamp

typeCode(e) == localIndex(e.typeIndex)

\* Event.encode
encode(i) ==
  LET e == view.events[i]
  IN <<[dt |-> (e.timestamp - since(i)) % TimeModulus], [type |-> typeCode(e)],
       [track |-> e.track], [data |-> e.data]>>

\* A start time that cannot be written fails the whole call
MarshalBinary ==
  LET unit == IF view.unit = 0 THEN CpuUnit ELSE view.unit
  IN /\ wire = <<>> /\ got = Nothing
     /\ view' = [view EXCEPT !.unit = unit]
     /\ IF view.startTime \in Unwritable
        THEN got' = fail("not written") /\ UNCHANGED wire
        ELSE /\ wire' = <<[unit |-> unit], [start |-> view.cpuStartTime],
                          [startTime |-> view.startTime], [nEvents |-> Len(view.events)],
                          [nTypes |-> Len(localTypes)]>>
                        \o [i \in DOMAIN localTypes |-> [name |-> writer[localTypes[i]]]]
                        \o FlattenSeq([i \in DOMAIN view.events |-> encode(i)])
             /\ UNCHANGED got
     /\ UNCHANGED <<writer, reader, cut>>

\* The bytes end early, perhaps before the first
Cut(n) ==
  /\ wire # <<>> /\ cut = 0 /\ got = Nothing
  /\ n <= Len(wire)
  /\ cut' = n
  /\ UNCHANGED <<writer, reader, view, wire, got>>

-----------------------------------------------------------------------------
\* Event.decode of the item sequence b: a missing item is an underflow, except
\* for the data, whose decoder takes what there is
decode(b, typeMap, t0) ==
  IF Len(b) < 3 THEN [err |-> "underflow"]
  ELSE IF b[2].type > Len(typeMap) THEN [err |-> "type index out of range"]
  ELSE [err |-> "none",
        event |-> [timestamp |-> (t0 + b[1].dt) % TimeModulus, typeIndex |-> typeMap[b[2].type],
                   track |-> b[3].track, data |-> IF Len(b) < 4 THEN 0 ELSE b[4].data]]

\* The loop of UnmarshalBinary over the events; the first error ends it
RECURSIVE decodeAll(_, _, _, _)
decodeAll(b, typeMap, t0, n) ==
  IF n = 0 THEN [err |-> "none", events |-> <<>>]
  ELSE LET d == decode(b, typeMap, t0)
           more == decodeAll(SubSeq(b, 5, Len(b)), typeMap, d.event.timestamp, n - 1)
       IN IF d.err # "none" THEN [err |-> d.err, events |-> <<>>]
          ELSE [err |-> more.err, events |-> <<d.event>> \o more.events]

indexOf(name) == CHOOSE i \in DOMAIN reader : reader[i] = name

\* bo.Uint64 panics when the unit is not there; every other end is an underflow
unmarshal(b) ==
  LET n == b[5].nTypes
      names == [i \in 1..n |-> b[5 + i].name]
      all == decodeAll(SubSeq(b, 6 + n, Len(b)), [i \in 1..n |-> indexOf(names[i])],
                       b[2].start, b[4].nEvents)
  IN IF b = <<>> THEN fail("panic")
     ELSE IF Len(b) < 3 THEN fail("underflow")
     ELSE IF b[3].startTime \in Unreadable THEN fail("start time")
     ELSE IF Len(b) < 5 THEN fail("underflow")
     ELSE IF \E i \in 1..n : 5 + i <= Len(b) /\ b[5 + i].name \notin Range(reader)
          THEN fail("unknown type")
     ELSE IF Len(b) < 5 + n THEN fail("underflow")
     ELSE IF all.err # "none" THEN fail(all.err)
     ELSE [err |-> "none", unit |-> b[1].unit, cpuStartTime |-> b[2].start,
           startTime |-> b[3].startTime, events |-> all.events]

UnmarshalBinary ==
  /\ wire # <<>> /\ got = Nothing
  /\ got' = unmarshal(SubSeq(wire, 1, Len(wire) - cut))
  /\ UNCHANGED <<writer, reader, view, wire, cut>>

Next ==
  \/ \E t \in 1..Len(writer), time \in Times, x \in Tracks : Log(t, time, x)
  \/ MarshalBinary
  \/ \E n \in 1..Len(wire) : Cut(n)
  \/ UnmarshalBinary

Spec == Init /\ [][Next]_vars

-----------------------------------------------------------------------------
TypeOK ==
  /\ writer \in Orders /\ reader \in Orders
  /\ Len(view.events) <= MaxEvents
  /\ \A i \in DOMAIN got.events : got.events[i].timestamp \in Time
  /\ cut \in 0..Len(wire)

Used == {writer[view.events[i].typeIndex] : i \in DOMAIN view.events}

\* MarshalBinary and UnmarshalBinary: a stream that is complete gives the
\* reader the same events, of the types of the same names, with the times of
\* the writer; one that is cut, or that has a type or a start time the reader
\* does not know, is refused and never answered by other events.  (Only the data
\* of the last event may go missing unseen, and a stream of less than 8 bytes
\* makes the reader panic.)
ReadAsWritten ==
  got # Nothing =>
    CASE got.err = "none" ->
           /\ cut <= 1 /\ Used \subseteq Range(reader)
           /\ view.startTime \notin Unwritable \cup Unreadable
           /\ got.unit = view.unit /\ got.cpuStartTime = view.cpuStartTime
           /\ got.startTime = view.startTime
           /\ Len(got.events) = Len(view.events)
           /\ \A i \in DOMAIN view.events :
                LET e == view.events[i] g == got.events[i]
                IN /\ g.timestamp = e.timestamp /\ g.track = e.track
                   /\ reader[g.typeIndex] = writer[e.typeIndex]
                   /\ g.data # e.data => cut = 1 /\ i = Len(view.events)
      [] got.err = "not written" -> view.startTime \in Unwritable /\ wire = <<>>
      [] got.err = "panic" -> cut = Len(wire)
      [] got.err = "start time" -> view.startTime \in Unreadable
      [] got.err = "unknown type" -> ~(Used \subseteq Range(reader))
      [] OTHER -> cut > 0 /\ got.err = "underflow"

=============================================================================
