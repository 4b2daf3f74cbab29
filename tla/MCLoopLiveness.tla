--------------------------- MODULE MCLoopLiveness ---------------------------
(***************************************************************************)
(* The liveness of the loop: behaviours of LoopPollers, with one poller,   *)
(* and behaviours of LoopEvents, with one handler and room in the queues.  *)
(* part says which of them a behaviour is; the variables of the other keep *)
(* their initial values.                                                   *)
(***************************************************************************)
EXTENDS MCLoopPollers

VARIABLES
  part,
  nAlloc, recycled, dst, kind, queue, timed, dueEvents, rx, active, handled, hpc, hcur, hadd,
  loopPc, mcur, madd, ctx, finite, nth, polled                               \* LoopEvents

evVars == <<nAlloc, recycled, dst, kind, queue, timed, dueEvents, rx, active, handled, hpc, hcur,
            hadd, loopPc, mcur, madd, ctx, finite, nth, polled>>

Events == INSTANCE LoopEvents WITH
            H <- 1, MaxEvents <- 3, EventsCap <- 3, RxCap <- 3, PoolReuse <- FALSE,
            Sources <- {"outside", "timed", "interrupt", "handler", "panic", "main", "poller", "quit"},
            events <- queue, due <- dueEvents, toLoop <- handled, mpc <- loopPc,
            deadline <- finite, at <- nth

MCInit == part \in {"pollers", "events"} /\ Init /\ Events!Init

allVars == <<part, vars, evVars>>

MCLiveNext == \/ part = "pollers" /\ Next /\ UNCHANGED <<part, evVars>>
              \/ part = "events" /\ Events!Next /\ UNCHANGED <<part, vars>>

\* An action of either part
InPollers(A) == part = "pollers" /\ A /\ UNCHANGED <<part, evVars>>
InEvents(A)  == part = "events" /\ A /\ UNCHANGED <<part, vars>>

\* A behaviour is only of one part, so that fairness of an action of the one or an
\* action of the other is fairness of both; node 1, handler 1 and events 1 to 3 are all
\* there are.
MainTurn == InPollers(MainStep) \/ InEvents(Events!MainStep)
HandlerTurn ==
  \/ InPollers(PollerStart(1) \/ SuspendSend(1) \/ SuspendReceive(1) \/ SuspendReturn(1))
  \/ InEvents(Events!HandlerStep(1))
Expires(e) == InEvents(Events!Advance /\ e \in dueEvents')
PollerEnds == InPollers(PollerFinish(1)) \/ Expires(1)
TimerEnds  == InPollers(Advance /\ timers[1] > 0 /\ due'[1] > 0) \/ Expires(2)
ActionEnds == InPollers(ActionDone) \/ Expires(3)

\* Fairness of LoopPollers and Fairness of LoopEvents
MCFairness ==
  /\ WF_allVars(MainTurn) /\ WF_allVars(HandlerTurn)
  /\ \A t \in Threads : WF_allVars(InPollers(CallStep(t)))
  /\ SF_allVars(PollerEnds) /\ SF_allVars(TimerEnds) /\ SF_allVars(ActionEnds)

MCFairSpec == MCInit /\ [][MCLiveNext]_allVars /\ MCFairness

-----------------------------------------------------------------------------
\* AddedEventRuns of LoopEvents: an event that was added is run, unless the loop ends or
\* sleeps over it (event.go).
AddedEventRuns == Events!AddedEventRuns

\* QuitEnds of LoopEvents: a quit event ends the loop (event.go).
QuitEnds == Events!QuitEnds

=============================================================================
