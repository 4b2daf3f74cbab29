----------------------------- MODULE PollTurns -----------------------------
(***************************************************************************)
(* What doPollers promises, without channels, flags and call threads.      *)
(* Turns alternate between events and polling.  In a round main starts     *)
(* some pollers, each at most once, then waits for every one of them to    *)
(* yield.  A poller yields when its input is done ("idle") or in the       *)
(* middle of it ("held", or "ready" once resumed); a held poller does not  *)
(* run until it is resumed.                                                *)
(***************************************************************************)
EXTENDS Integers

CONSTANT Nodes

VARIABLES
  phase,    \* "events", "starting", "collecting"
  started,  \* pollers started in this round and not collected yet
  stage     \* stage[n]: "idle", "running", "held", "ready"

vars == <<phase, started, stage>>

Init ==
  /\ phase = "events"
  /\ started = {}
  /\ stage = [n \in Nodes |-> "idle"]

BeginRound ==
  /\ phase = "events"
  /\ phase' = "starting"
  /\ UNCHANGED <<started, stage>>

Start(n) ==
  /\ phase = "starting"
  /\ n \notin started
  /\ stage[n] \in {"idle", "ready"}
  /\ started' = started \cup {n}
  /\ stage' = [stage EXCEPT ![n] = "running"]
  /\ UNCHANGED phase

AllStarted ==
  /\ phase = "starting"
  /\ phase' = "collecting"
  /\ UNCHANGED <<started, stage>>

\* The poller gives its turn back
Yield(n) ==
  /\ n \in started
  /\ stage[n] = "running"
  /\ \E s \in {"idle", "held", "ready"} : stage' = [stage EXCEPT ![n] = s]
  /\ UNCHANGED <<phase, started>>

Resume(n) ==
  /\ stage[n] = "held"
  /\ stage' = [stage EXCEPT ![n] = "ready"]
  /\ UNCHANGED <<phase, started>>

Collect(n) ==
  /\ phase = "collecting"
  /\ n \in started
  /\ stage[n] # "running"
  /\ started' = started \ {n}
  /\ UNCHANGED <<phase, stage>>

EndRound ==
  /\ phase = "collecting"
  /\ started = {}
  /\ phase' = "events"
  /\ UNCHANGED <<started, stage>>

Next == \/ BeginRound \/ AllStarted \/ EndRound
        \/ \E n \in Nodes : Start(n) \/ Yield(n) \/ Resume(n) \/ Collect(n)

Spec == Init /\ [][Next]_vars

=============================================================================
