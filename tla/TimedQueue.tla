----------------------------- MODULE TimedQueue -----------------------------
(***************************************************************************)
(* What the pool of timed events promises: a set of events with times, of  *)
(* which Advance takes out those that are due, in the order of their       *)
(* times.                                                                  *)
(***************************************************************************)
EXTENDS Integers, Sequences

CONSTANTS Ids, Times

VARIABLES
  queue,  \* the events added and neither deleted nor due so far
  out     \* what the last operation handed out: the due events in order, or
          \* the event that is next

vars == <<queue, out>>

Sorted(s) == \A i \in 1..Len(s) - 1 : s[i].time <= s[i + 1].time
Rng(s) == {s[i] : i \in DOMAIN s}

Init == queue = {} /\ out = <<>>

Add(id, t) ==
  /\ \A e \in queue : e.id # id
  /\ queue' = queue \cup {[id |-> id, time |-> t]}
  /\ out' = <<>>

Del(e) == queue' = queue \ {e} /\ out' = <<>>

Due(t) == {e \in queue : e.time <= t}

Advance(t) ==
  /\ queue' = queue \ Due(t)
  /\ Rng(out') = Due(t)
  /\ Sorted(out')
  /\ \A i, j \in DOMAIN out' : i # j => out'[i] # out'[j]

NextTime ==
  /\ out' = <<>> \/ \E e \in queue : out' = <<e>> /\ \A f \in queue : e.time <= f.time
  /\ out' = <<>> <=> queue = {}
  /\ UNCHANGED queue

Next == \/ \E id \in Ids, t \in Times : Add(id, t)
        \/ \E e \in queue : Del(e)
        \/ \E t \in Times : Advance(t)
        \/ NextTime

Spec == Init /\ [][Next]_vars

=============================================================================
