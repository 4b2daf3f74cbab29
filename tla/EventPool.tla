----------------------------- MODULE EventPool -----------------------------
(***************************************************************************)
(* The pool of timed events (event/event.go): an index pool of events and  *)
(* a Fibonacci heap of the indices, ordered by the times of the events.    *)
(* Slots are numbered from 1 here.                                         *)
(***************************************************************************)
EXTENDS Integers, Sequences

CONSTANTS
  MaxSlots,  \* bound: slots of the pool
  Times      \* EventTime of the events, and the times to advance to

\* Assumed where the module is instantiated
EventPoolAssumption == MaxSlots \in Nat /\ Times \subseteq Nat

VARIABLES
  events,       \* timedEventPool.events: the time of the event in each slot
  freeIndices,  \* the free slots of the pool
  fibheap,
  inHeap,       \* the slots that are in the heap
  out           \* what Advance or NextTime handed out last

vars == <<events, freeIndices, fibheap, inHeap, out>>

Slots == 1..MaxSlots
Nil == -1

\* Times that Compare sees; slots without an event are not in the heap
timeOf == [s \in Slots |-> IF s <= Len(events) THEN events[s] ELSE 0]

Fib == INSTANCE FibHeap WITH Nodes <- Slots, Keys <- Times,
                             heap <- fibheap, key <- timeOf, live <- inHeap

Event(s) == [id |-> s, time |-> events[s]]

Init == /\ events = <<>> /\ freeIndices = <<>>
        /\ fibheap = Fib!Empty
        /\ inHeap = {} /\ out = <<>>

Add(t) ==
  LET reuse == freeIndices # <<>>
      ei == IF reuse THEN freeIndices[Len(freeIndices)] ELSE Len(events) + 1
  IN /\ ei \in Slots
     /\ freeIndices' = IF reuse THEN SubSeq(freeIndices, 1, Len(freeIndices) - 1) ELSE freeIndices
     /\ events' = IF reuse THEN [events EXCEPT ![ei] = t] ELSE Append(events, t)
     /\ fibheap' = Fib!HeapAdd(fibheap, ei)
     /\ inHeap' = inHeap \cup {ei}
     /\ out' = <<>>

\* The caller deletes an event that is still in the heap
Del(ei) ==
  /\ ei \in inHeap
  /\ fibheap' = Fib!HeapDel(fibheap, ei)
  /\ freeIndices' = Append(freeIndices, ei)
  /\ inHeap' = inHeap \ {ei}
  /\ out' = <<>>
  /\ UNCHANGED events

\* Seeded bug: the event that is due at t stays
IsDue_Before(ei, t) == events[ei] < t

IsDue(ei, t) == events[ei] <= t

\* The loop of advance; an expired event keeps its slot
RECURSIVE advance(_, _, _)
advance(h0, t, done) ==
  LET handOut(h) ==
        IF ~h.minValid \/ ~IsDue(h.minIndex, t) THEN [h |-> h, out |-> done]
        ELSE advance(Fib!HeapDel(h, h.minIndex), t, Append(done, Event(h.minIndex)))
  IN handOut(Fib!HeapMin(h0, timeOf))

Advance(t) ==
  \E a \in {advance(fibheap, t, <<>>)} :
    /\ fibheap' = a.h
    /\ out' = a.out
    /\ inHeap' = inHeap \ {a.out[i].id : i \in DOMAIN a.out}
    /\ UNCHANGED <<events, freeIndices>>

NextTime ==
  \E h \in {Fib!HeapMin(fibheap, timeOf)} :
    /\ fibheap' = h
    /\ out' = IF h.minValid THEN <<Event(h.minIndex)>> ELSE <<>>
    /\ UNCHANGED <<events, freeIndices, inHeap>>

Next == \/ \E t \in Times : Add(t) \/ Advance(t)
        \/ \E ei \in inHeap : Del(ei)
        \/ NextTime

Spec == Init /\ [][Next]_vars

-----------------------------------------------------------------------------
(* Properties *)

Queue == INSTANCE TimedQueue WITH Ids <- Slots, queue <- {Event(s) : s \in inHeap}

\* The event pool implements TimedQueue: Advance hands out exactly the events that
\* are due, each once and in the order of their times, whatever was added and
\* deleted before, and a deleted event never expires.
QueueSpec == Queue!Spec

=============================================================================
