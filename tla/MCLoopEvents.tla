---------------------------- MODULE MCLoopEvents ----------------------------
(***************************************************************************)
(* Three instances of LoopEvents for TLC.  Each asks another question, and *)
(* to be small enough each gives its constants other values; part says     *)
(* which of them a behaviour belongs to.                                   *)
(*   ownership  one handler, queues of length one, objects recycled at     *)
(*              once: events are diverted, expire and come back            *)
(*   wait       two handlers and room in the queues                        *)
(*   exclusion  two handlers, no timed events, and no queue is ever full   *)
(* The constants of the cfg are those of the instance ownership.           *)
(***************************************************************************)
EXTENDS LoopEvents

VARIABLE part

mcVars == <<vars, part>>

Parts == {"ownership", "wait", "exclusion"}

TwoWait == INSTANCE LoopEvents WITH H <- 2, EventsCap <- 2, RxCap <- 2, PoolReuse <- FALSE

Untimed == INSTANCE LoopEvents WITH H <- 2, EventsCap <- 3, RxCap <- 3, PoolReuse <- FALSE,
                                    Sources <- AllSources \ {"timed"}

MCInit ==
  \/ part = "ownership" /\ Init
  \/ part = "wait" /\ TwoWait!Init
  \/ part = "exclusion" /\ Untimed!Init

MCNext ==
  \/ part = "ownership" /\ Next /\ UNCHANGED part
  \/ part = "wait" /\ TwoWait!Next /\ UNCHANGED part
  \/ part = "exclusion" /\ Untimed!Next /\ UNCHANGED part

MCSpec == MCInit /\ [][MCNext]_mcVars

-----------------------------------------------------------------------------
\* "Wait for all event handlers to become inactive." (doEvents), where no event
\* is diverted into the timed events or expires.
UntimedExcludePolling == part = "exclusion" => Untimed!HandlersExcludePolling

=============================================================================
