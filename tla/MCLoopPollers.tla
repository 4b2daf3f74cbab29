--------------------------- MODULE MCLoopPollers ---------------------------
(***************************************************************************)
(* Small instances of LoopPollers for TLC.                                 *)
(***************************************************************************)
EXTENDS LoopPollers

CONSTANTS c1, main  \* model values: one outside caller, and main

MCCallers == {c1}
MCInterruptNodes == {1}

\* Bound: while an activate event of a poller is pending no other poller is active
MCNext ==
  /\ Next
  /\ \A n \in Nodes : timers'[n] + due'[n] > 0 => \A m \in Nodes \ {n} : flags'[m] = {}

MCSpec == Init /\ [][MCNext]_vars

\* Two states are the same if they differ only in what is not read before it is written:
\* interruptsDisabled if no poller has interrupts, and main's loop variable outside its loops
Looping == {"start", "checkSuspended", "send", "collect", "done", "disableInterrupts"}
MCView ==
  <<vars = vars, flags, fromLoop, pollerVars, poolVars, eventVars, mpc, callVars,
    InterruptNodes # {} /\ interruptsDisabled, IF mpc \in Looping THEN at ELSE 0>>

=============================================================================
