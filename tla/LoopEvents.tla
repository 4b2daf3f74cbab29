----------------------------- MODULE LoopEvents -----------------------------
(***************************************************************************)
(* The event side of the event loop (loop/event.go): how an event travels  *)
(* from AddEvent through l.events or the timed event pool to the main      *)
(* goroutine, and from there to the goroutine of its handler, and how main *)
(* waits for the handlers before it lets the pollers run.                  *)
(*                                                                         *)
(* A loopEvent is an object that is recycled through a sync.Pool once its  *)
(* action has run, so objects have an identity here.  What pollers do is   *)
(* in LoopPollers; here they only add events while it is their turn.       *)
(***************************************************************************)
EXTENDS Integers, Sequences, FiniteSets

CONSTANTS
  H,          \* number of event handlers; l.handlers is 1..H
  MaxEvents,  \* bound: loopEvent objects ever allocated
  EventsCap,  \* capacity of l.events (256)
  RxCap,      \* capacity of Node.rxEvents (256)
  PoolReuse,  \* FALSE: sync.Pool has dropped its items when Get is called
  Sources     \* bound: who adds events, a subset of AllSources

AllSources == {"outside", "timed", "interrupt", "handler", "panic", "main",
               "poller", "quit"}

Handlers == 1..H
Objs == 1..MaxEvents
Nil == 0                       \* a nil *loopEvent, a nil dst
Dsts == Handlers \cup {Nil}
Kinds == {"actor", "quit", "interrupt"}

ASSUME SizeAssumption == /\ H \in Nat \ {0}
                         /\ MaxEvents \in Nat
                         /\ EventsCap \in Nat \ {0}
                         /\ RxCap \in Nat \ {0}
                         /\ PoolReuse \in BOOLEAN
                         /\ Sources \subseteq AllSources

VARIABLES
  nAlloc,     \* objects 1..nAlloc have been allocated
  recycled,   \* objects in the sync.Pool l.loopEvents
  dst,        \* dst[e]: loopEvent.dst
  kind,       \* kind[e]: loopEvent.actor is ErrQuit, ErrInterrupt or another
  events,     \* l.events
  timed,      \* l.eventPool
  due,        \* l.eventVec: expired events that have not run yet
  rx,         \* rx[h]: Node.rxEvents
  active,     \* handlers whose node_active bit is set
  toLoop,     \* handlers whose toLoop channel holds its token
  hpc,        \* hpc[h]: where the goroutine eventHandler is
  hcur,       \* hcur[h]: the event it executes
  hadd,       \* hadd[h]: the event it is adding
  mpc, mcur, madd,  \* the same for the main goroutine
  ctx,        \* which select or loop mcur came from
  deadline,   \* doEventWait sleeps with a finite timeout
  at,         \* loop variable of Wait
  polled      \* l.nActivePollers > 0

objVars  == <<nAlloc, recycled, dst, kind>>
handVars == <<hpc, hcur, hadd>>
mainVars == <<mpc, mcur, madd, ctx, deadline, at>>
vars == <<objVars, handVars, mainVars, events, timed, due, rx, active, toLoop, polled>>

TypeOK ==
  /\ nAlloc \in 0..MaxEvents
  /\ recycled \subseteq Objs
  /\ dst \in [Objs -> Dsts]
  /\ kind \in [Objs -> Kinds]
  /\ events \in Seq(Objs) /\ Len(events) <= EventsCap
  /\ timed \subseteq Objs
  /\ due \subseteq Objs
  /\ rx \in [Handlers -> Seq(Objs)]
  /\ active \subseteq Handlers
  /\ toLoop \subseteq Handlers
  /\ hpc \in [Handlers -> {"idle", "running", "adding", "quitting", "signal"}]
  /\ hcur \in [Handlers -> Objs \cup {Nil}]
  /\ hadd \in [Handlers -> Objs \cup {Nil}]
  /\ mpc \in {"doEvents", "select", "deliver", "setActive", "action", "adding",
              "advance", "timed", "wait", "clear", "poll", "exit", "panic"}
  /\ mcur \in Objs \cup {Nil}
  /\ madd \in Objs \cup {Nil}
  /\ ctx \in {"noWait", "wait", "timed"}
  /\ deadline \in BOOLEAN
  /\ at \in 1..H+1
  /\ polled \in BOOLEAN

Init ==
  /\ nAlloc = 0 /\ recycled = {}
  /\ dst = [e \in Objs |-> Nil] /\ kind = [e \in Objs |-> "actor"]
  /\ events = <<>> /\ timed = {} /\ due = {}
  /\ rx = [h \in Handlers |-> <<>>]
  /\ active = {} /\ toLoop = {}
  /\ hpc = [h \in Handlers |-> "idle"]
  /\ hcur = [h \in Handlers |-> Nil] /\ hadd = [h \in Handlers |-> Nil]
  /\ mpc = "doEvents" /\ mcur = Nil /\ madd = Nil
  /\ ctx = "noWait" /\ deadline = FALSE /\ at = 1
  /\ polled = FALSE

-----------------------------------------------------------------------------
(* loopEvent objects *)

\* getLoopEvent, and the assignment of dst: an object of the pool or a new one
getLoopEvent(e, k, d) ==
  /\ \/ PoolReuse /\ e \in recycled /\ UNCHANGED nAlloc
     \/ e = nAlloc + 1 /\ e \in Objs /\ nAlloc' = e
  /\ recycled' = recycled \ {e}
  /\ dst' = [dst EXCEPT ![e] = d]
  /\ kind' = [kind EXCEPT ![e] = k]

putLoopEvent(e) ==
  /\ recycled' = recycled \cup {e}
  /\ UNCHANGED <<nAlloc, dst, kind>>

\* addEvent(le, false): a full channel diverts the event to the timed events
addEventNonBlocking(e) ==
  IF Len(events) < EventsCap
  THEN events' = Append(events, e) /\ UNCHANGED timed
  ELSE timed' = timed \cup {e} /\ UNCHANGED events

\* addEvent(le, true)
addEventBlocking(e) ==
  /\ Len(events) < EventsCap
  /\ events' = Append(events, e)

-----------------------------------------------------------------------------
(* Other goroutines *)

\* AddEvent of a node that is not polling, and Quit: they block while l.events
\* is full, which is the same as not having been called yet
OutsideAdd ==
  /\ \E e \in Objs, d \in Dsts :
       \/ "outside" \in Sources /\ getLoopEvent(e, "actor", d) /\ addEventBlocking(e)
       \/ "quit" \in Sources /\ d = Nil /\ getLoopEvent(e, "quit", d) /\ addEventBlocking(e)
  /\ UNCHANGED <<timed, due, rx, active, toLoop, handVars, mainVars, polled>>

\* AddTimedEvent: main is not woken up
OutsideAddTimed ==
  /\ "timed" \in Sources
  /\ \E e \in Objs, d \in Handlers : getLoopEvent(e, "actor", d) /\ timed' = timed \cup {e}
  /\ UNCHANGED <<events, due, rx, active, toLoop, handVars, mainVars, polled>>

\* l.waitingForEvent: set before the select, cleared after the event's action
waitingForEvent ==
  \/ mpc = "select"
  \/ ctx = "wait" /\ mpc \in {"deliver", "setActive", "action", "adding"}

OutsideInterrupt ==
  /\ "interrupt" \in Sources
  /\ waitingForEvent
  /\ \E e \in Objs : getLoopEvent(e, "interrupt", Nil) /\ addEventNonBlocking(e)
  /\ UNCHANGED <<due, rx, active, toLoop, handVars, mainVars, polled>>

\* A data poller becomes active; nActivePollers never returns to 0
PollersAppear ==
  /\ ~polled
  /\ polled' = TRUE
  /\ UNCHANGED <<objVars, events, timed, due, rx, active, toLoop, handVars, mainVars>>

\* AddEvent in the turn of the pollers: "Never block when polling"
PollerAdd ==
  /\ "poller" \in Sources
  /\ mpc = "poll"
  /\ polled
  /\ \E e \in Objs, d \in Dsts : getLoopEvent(e, "actor", d) /\ addEventNonBlocking(e)
  /\ UNCHANGED <<due, rx, active, toLoop, handVars, mainVars, polled>>

-----------------------------------------------------------------------------
(* The goroutine of a handler: eventHandler *)

HandlerReceive(h) ==
  /\ hpc[h] = "idle"
  /\ rx[h] # <<>>
  /\ hcur' = [hcur EXCEPT ![h] = Head(rx[h])]
  /\ rx' = [rx EXCEPT ![h] = Tail(@)]
  /\ hpc' = [hpc EXCEPT ![h] = "running"]
  /\ UNCHANGED <<objVars, hadd, events, timed, due, active, toLoop, mainVars, polled>>

\* The action calls AddEvent on the handler's node, which is never polling
HandlerAdd(h) ==
  /\ "handler" \in Sources
  /\ hpc[h] = "running"
  /\ \E e \in Objs, d \in Dsts :
       getLoopEvent(e, "actor", d) /\ hadd' = [hadd EXCEPT ![h] = e]
  /\ hpc' = [hpc EXCEPT ![h] = "adding"]
  /\ UNCHANGED <<hcur, events, timed, due, rx, active, toLoop, mainVars, polled>>

\* The action panics: doEvent recovers and calls Quit; the event is not recycled
HandlerPanic(h) ==
  /\ "panic" \in Sources
  /\ hpc[h] = "running"
  /\ \E e \in Objs : getLoopEvent(e, "quit", Nil) /\ hadd' = [hadd EXCEPT ![h] = e]
  /\ hcur' = [hcur EXCEPT ![h] = Nil]
  /\ hpc' = [hpc EXCEPT ![h] = "quitting"]
  /\ UNCHANGED <<events, timed, due, rx, active, toLoop, mainVars, polled>>

HandlerSend(h) ==
  /\ hpc[h] \in {"adding", "quitting"}
  /\ addEventBlocking(hadd[h])
  /\ hadd' = [hadd EXCEPT ![h] = Nil]
  /\ hpc' = [hpc EXCEPT ![h] = IF @ = "adding" THEN "running" ELSE "signal"]
  /\ UNCHANGED <<objVars, hcur, timed, due, rx, active, toLoop, mainVars, polled>>

\* Seeded bug: the handler goes back to rxEvents without a signal to main
HandlerDone_NoSignal(h) ==
  /\ hpc[h] = "running"
  /\ putLoopEvent(hcur[h])
  /\ hcur' = [hcur EXCEPT ![h] = Nil]
  /\ hpc' = [hpc EXCEPT ![h] = "idle"]
  /\ UNCHANGED <<hadd, events, timed, due, rx, active, toLoop, mainVars, polled>>

\* The action returns and do() recycles the event
HandlerDone(h) ==
  /\ hpc[h] = "running"
  /\ putLoopEvent(hcur[h])
  /\ hcur' = [hcur EXCEPT ![h] = Nil]
  /\ hpc' = [hpc EXCEPT ![h] = "signal"]
  /\ UNCHANGED <<hadd, events, timed, due, rx, active, toLoop, mainVars, polled>>

\* c.toLoop <- struct{}{}
HandlerSignal(h) ==
  /\ hpc[h] = "signal"
  /\ h \notin toLoop
  /\ toLoop' = toLoop \cup {h}
  /\ hpc' = [hpc EXCEPT ![h] = "idle"]
  /\ UNCHANGED <<objVars, hcur, hadd, events, timed, due, rx, active, mainVars, polled>>

-----------------------------------------------------------------------------
(* The main goroutine: Run, doEvents, Wait *)

Goto(pc) == mpc' = pc

\* Seeded bug: quit.Type is not looked at
Received_IgnoreType(e, c) ==
  /\ ctx' = c
  /\ \/ kind[e] \in {"quit", "interrupt"} /\ Goto("poll") /\ UNCHANGED mcur
     \/ /\ kind[e] = "actor"
        /\ mcur' = e
        /\ Goto(IF dst[e] = Nil THEN "action" ELSE "deliver")

\* EventAction of e, or the return of doEvents for quit and interrupt
Received(e, c) ==
  /\ ctx' = c
  /\ \/ kind[e] = "quit" /\ Goto("exit") /\ UNCHANGED mcur
     \/ kind[e] = "interrupt" /\ Goto("poll") /\ UNCHANGED mcur
     \/ /\ kind[e] = "actor"
        /\ mcur' = e
        /\ Goto(IF dst[e] = Nil THEN "action" ELSE "deliver")

\* doEventNoWait takes one event; doEventWait may find a timed event expired.
\* A diverted event counts as a deadline: it has expired when select looks.
DoEvents ==
  /\ mpc = "doEvents"
  /\ \/ /\ polled
        /\ IF events = <<>>
           THEN Goto("advance") /\ UNCHANGED <<events, mcur, ctx>>
           ELSE Received(Head(events), "noWait") /\ events' = Tail(events)
        /\ UNCHANGED deadline
     \/ /\ ~polled
        /\ timed # {}
        /\ Goto("advance")
        /\ UNCHANGED <<events, mcur, ctx, deadline>>
     \/ /\ ~polled
        /\ deadline' = (timed # {})
        /\ Goto("select")
        /\ UNCHANGED <<events, mcur, ctx>>
  /\ UNCHANGED <<objVars, handVars, madd, at, timed, due, rx, active, toLoop, polled>>

Select ==
  /\ mpc = "select"
  /\ \/ /\ events # <<>>
        /\ Received(Head(events), "wait")
        /\ events' = Tail(events)
     \/ /\ deadline
        /\ Goto("advance")
        /\ UNCHANGED <<events, mcur, ctx>>
  /\ deadline' = FALSE
  /\ UNCHANGED <<objVars, handVars, madd, at, timed, due, rx, active, toLoop, polled>>

AfterEvent == IF ctx = "timed" THEN "timed" ELSE "advance"

\* e.dst.rxEvents <- e
Deliver ==
  /\ mpc = "deliver"
  /\ Len(rx[dst[mcur]]) < RxCap
  /\ rx' = [rx EXCEPT ![dst[mcur]] = Append(@, mcur)]
  /\ Goto("setActive")
  /\ UNCHANGED <<objVars, handVars, mcur, madd, ctx, deadline, at, events, timed, due,
                 active, toLoop, polled>>

\* e.dst.set_active(true): e belongs to the handler by now, and may have been
\* recycled; a nil dst panics
SetActive ==
  /\ mpc = "setActive"
  /\ IF dst[mcur] = Nil
     THEN Goto("panic") /\ UNCHANGED active
     ELSE Goto(AfterEvent) /\ active' = active \cup {dst[mcur]}
  /\ mcur' = Nil
  /\ UNCHANGED <<objVars, handVars, madd, ctx, deadline, at, events, timed, due, rx,
                 toLoop, polled>>

\* An event without a handler: its action runs in main, and may add an event
ActionAdd ==
  /\ "main" \in Sources
  /\ mpc = "action"
  /\ kind[mcur] = "actor"
  /\ \E e \in Objs, d \in Dsts : getLoopEvent(e, "actor", d) /\ madd' = e
  /\ Goto("adding")
  /\ UNCHANGED <<handVars, mcur, ctx, deadline, at, events, timed, due, rx, active,
                 toLoop, polled>>

ActionSend ==
  /\ mpc = "adding"
  /\ addEventBlocking(madd)
  /\ madd' = Nil
  /\ Goto("action")
  /\ UNCHANGED <<objVars, handVars, mcur, ctx, deadline, at, timed, due, rx, active,
                 toLoop, polled>>

ActionDone ==
  /\ mpc = "action"
  /\ putLoopEvent(mcur)
  /\ mcur' = Nil
  /\ Goto(AfterEvent)
  /\ UNCHANGED <<handVars, madd, ctx, deadline, at, events, timed, due, rx, active,
                 toLoop, polled>>

\* AdvanceAdd: some of the timed events have expired
Advance ==
  /\ mpc = "advance"
  /\ due' \in SUBSET timed
  /\ timed' = timed \ due'
  /\ Goto("timed")
  /\ UNCHANGED <<objVars, handVars, mcur, madd, ctx, deadline, at, events, rx, active,
                 toLoop, polled>>

\* Seeded bug: eventVec keeps the events that have run
Timed_KeepDue ==
  /\ mpc = "timed"
  /\ \/ at' = 1 /\ Goto("wait") /\ UNCHANGED <<due, mcur, ctx>>
     \/ \E e \in due :
          /\ mcur' = e
          /\ ctx' = "timed"
          /\ Goto(IF dst[e] = Nil THEN "action" ELSE "deliver")
          /\ UNCHANGED <<due, at>>
  /\ UNCHANGED <<objVars, handVars, madd, deadline, events, timed, rx, active, toLoop,
                 polled>>

\* EventAction of the next expired event, or on to Wait when there is none.
\* Quit and interrupt, diverted here by a full channel, have an empty action.
Timed ==
  /\ mpc = "timed"
  /\ \/ /\ due = {}
        /\ at' = 1
        /\ Goto("wait")
        /\ UNCHANGED <<due, mcur, ctx>>
     \/ \E e \in due :
          /\ due' = due \ {e}
          /\ mcur' = e
          /\ ctx' = "timed"
          /\ Goto(IF dst[e] = Nil THEN "action" ELSE "deliver")
          /\ UNCHANGED at
  /\ UNCHANGED <<objVars, handVars, madd, deadline, events, timed, rx, active, toLoop,
                 polled>>

\* Seeded bug: an empty toLoop is taken for an inactive handler
Wait_NoBlock ==
  /\ mpc = "wait"
  /\ \/ at > H /\ Goto("poll") /\ UNCHANGED <<at, toLoop>>
     \/ at <= H /\ at' = at + 1 /\ UNCHANGED <<mpc, toLoop>>
     \/ /\ at <= H
        /\ at \in active
        /\ at \in toLoop
        /\ toLoop' = toLoop \ {at}
        /\ Goto("clear")
        /\ UNCHANGED at
  /\ UNCHANGED <<objVars, handVars, mcur, madd, ctx, deadline, events, timed, due, rx,
                 active, polled>>

\* Wait: <-c.toLoop for every handler with the active bit ...
Wait ==
  /\ mpc = "wait"
  /\ \/ at > H /\ Goto("poll") /\ UNCHANGED <<at, toLoop>>
     \/ at <= H /\ at \notin active /\ at' = at + 1 /\ UNCHANGED <<mpc, toLoop>>
     \/ /\ at <= H
        /\ at \in active
        /\ at \in toLoop
        /\ toLoop' = toLoop \ {at}
        /\ Goto("clear")
        /\ UNCHANGED at
  /\ UNCHANGED <<objVars, handVars, mcur, madd, ctx, deadline, events, timed, due, rx,
                 active, polled>>

\* Seeded bug: the active bit survives the wait
WaitClear_Keep ==
  /\ mpc = "clear"
  /\ at' = at + 1
  /\ Goto("wait")
  /\ UNCHANGED <<objVars, handVars, mcur, madd, ctx, deadline, events, timed, due, rx,
                 active, toLoop, polled>>

\* ... and c.set_active(false)
WaitClear ==
  /\ mpc = "clear"
  /\ active' = active \ {at}
  /\ at' = at + 1
  /\ Goto("wait")
  /\ UNCHANGED <<objVars, handVars, mcur, madd, ctx, deadline, events, timed, due, rx,
                 toLoop, polled>>

\* doPollers returns (LoopPollers)
DoPollers ==
  /\ mpc = "poll"
  /\ Goto("doEvents")
  /\ UNCHANGED <<objVars, handVars, mcur, madd, ctx, deadline, at, events, timed, due, rx,
                 active, toLoop, polled>>

-----------------------------------------------------------------------------

HandlerStep(h) == \/ HandlerReceive(h) \/ HandlerSend(h) \/ HandlerDone(h)
                  \/ HandlerSignal(h)

MainStep == \/ DoEvents \/ Select \/ Deliver \/ SetActive \/ ActionSend \/ ActionDone
            \/ Advance \/ Timed \/ Wait \/ WaitClear \/ DoPollers

Next == \/ OutsideAdd \/ OutsideAddTimed \/ OutsideInterrupt \/ PollersAppear
        \/ PollerAdd \/ MainStep \/ ActionAdd
        \/ \E h \in Handlers : HandlerStep(h) \/ HandlerAdd(h) \/ HandlerPanic(h)

Spec == Init /\ [][Next]_vars

\* Runnable goroutines run, actions return, and timed events expire.
Fairness ==
  /\ WF_vars(MainStep)
  /\ \A h \in Handlers : WF_vars(HandlerStep(h))
  /\ \A e \in Objs : SF_vars(Advance /\ e \in due')

FairSpec == Spec /\ Fairness

-----------------------------------------------------------------------------
(* Properties *)

\* Where a live loopEvent is.  Main gives mcur away at Deliver; what it does
\* with mcur in SetActive is done to an object that it no longer owns.
Owners(e) ==
  {<<"events", 0, i>> : i \in {j \in DOMAIN events : events[j] = e}}
  \cup (UNION {{<<"rx", h, i>> : i \in {j \in DOMAIN rx[h] : rx[h][j] = e}} : h \in Handlers})
  \cup {<<"current", h, 0>> : h \in {g \in Handlers : hcur[g] = e}}
  \cup {<<"adding", h, 0>> : h \in {g \in Handlers : hadd[g] = e}}
  \cup {<<p, 0, 0>> : p \in {q \in {"timed", "due", "mcur", "madd"} :
                               \/ q = "timed" /\ e \in timed
                               \/ q = "due" /\ e \in due
                               \/ q = "mcur" /\ mcur = e /\ mpc # "setActive"
                               \/ q = "madd" /\ madd = e}}

\* A loopEvent has one owner at a time among the two queues, the timed events,
\* main and the handlers, and none once it is in the sync.Pool: however events
\* are diverted, expire and are recycled, no action runs twice.
OneOwner ==
  \A e \in Objs :
    /\ \A p, q \in Owners(e) : p = q
    /\ e \in recycled \/ e > nAlloc => Owners(e) = {}

\* The goroutine of h has, or will have, something to report to main
Busy(h) == hpc[h] # "idle" \/ rx[h] # <<>>

\* main never waits on the toLoop of a handler that has nothing to report: for
\* every active bit there is an event to come or a token, whatever the order of
\* set_active and the handler's signal.
WaitHasSource ==
  \A h \in active : h \in toLoop \/ Busy(h) \/ (mpc = "clear" /\ at = h)

\* "Wait for all event handlers to become inactive." (doEvents): the turn of
\* the pollers begins with every handler parked on rxEvents.
HandlersExcludePolling == mpc = "poll" => \A h \in Handlers : ~Busy(h)

Pending(e) == Owners(e) # {}

\* AddTimedEvent does not wake main: asleep without a deadline it stays asleep
Overslept(e) == e \in timed /\ mpc = "select" /\ ~deadline

\* "AddEvent adds event whose action will be called on the next loop
\* iteration": called at all, unless main oversleeps it or quits first.
AddedEventRuns ==
  \A e \in Objs : (kind[e] = "actor" /\ Pending(e)) ~>
                    (e \in recycled \/ Overslept(e) \/ mpc = "exit")

\* Quit, also that of a handler whose action panicked, ends the loop.
QuitEnds == (\E e \in Objs : kind[e] = "quit" /\ Pending(e)) ~> (mpc = "exit")

=============================================================================
