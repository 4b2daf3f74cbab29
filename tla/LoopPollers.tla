---------------------------- MODULE LoopPollers ----------------------------
(***************************************************************************)
(* The data-poller side of the event loop (loop/loop.go, and the part of   *)
(* loop/event.go that decides when the main goroutine sleeps).             *)
(*                                                                         *)
(* The main goroutine alternates between doEvents and doPollers.  Every    *)
(* data poller has a goroutine of its own (dataPoll) and two channels of   *)
(* capacity one: main starts a round with fromLoop and learns that the     *)
(* poller is done with toLoop.  A poller may Suspend in the middle of a    *)
(* round; any goroutine may Activate, deactivate or Resume a poller.  The  *)
(* flag word of a node changes by compare-and-swap only, so each CAS loop  *)
(* is one action; everything between two accesses to shared state is an    *)
(* action of its own.                                                      *)
(***************************************************************************)
EXTENDS Integers, Sequences

CONSTANTS
  N,               \* number of data pollers; l.dataPollers is 1..N
  Callers,         \* other goroutines that call into the loop
  Main,            \* the goroutine that executes Loop.Run
  InterruptNodes,  \* the pollers that implement InterruptEnabler
  EventCap,        \* capacity of l.events (256 in the code)
  CounterModulus,  \* nActivePollers is a uint32 (2^32 in the code)
  MaxActivations,  \* bound: no deactivation once nActivePollers is here
  MaxTimers        \* bound: pending activate events per node

Nodes == 1..N
Threads == Callers \cup Nodes \cup {Main}

ASSUME NAssumption == N \in Nat
ASSUME ThreadsAssumption == /\ Callers \cap Nodes = {}
                            /\ Main \notin Callers \cup Nodes
ASSUME CapAssumption == /\ EventCap \in Nat
                        /\ CounterModulus \in Nat \ {0}
                        /\ MaxActivations \in Nat
                        /\ MaxTimers \in Nat
ASSUME InterruptNodesAssumption == InterruptNodes \subseteq Nodes

Flags == {"active", "suspended", "resumed", "polling"}
EventKinds == {"interrupt", "quit", "actor"}

VARIABLES
  flags,              \* flags[n]: the set bits of Node.flags
  fromLoop,           \* the nodes n whose channel main -> n holds its token
  toLoop,             \* the nodes n whose channel n -> main holds its token
  ppc,                \* ppc[n]: where the goroutine of poller n is
  pool,               \* l.activePollerPool.entries: nodes by pool index
  activePollerIndex,  \* index into pool, 0 for ^uint(0)
  nActivePollers,     \* l.nActivePollers
  waitingForEvent,    \* l.waitingForEvent
  events,             \* l.events: what is queued for main
  timers,             \* timers[n]: activate events of n in l.eventPool
  lateInterrupt,      \* an ErrInterrupt went to l.eventPool: l.events was full
  due,                \* due[n]: activate events of n in l.eventVec
  deadline,           \* doEventWait sleeps with a finite timeout
  interruptsDisabled, \* l.pollerStats.interruptsDisabled
  mpc,                \* where main is
  at,                 \* main's loop variable (doPollers, disableInterrupts)
  cpc                 \* cpc[t]: progress of the call thread t is making

pollerVars == <<ppc, toLoop>>
poolVars   == <<pool, activePollerIndex>>
eventVars  == <<events, timers, lateInterrupt, due, deadline, waitingForEvent>>
mainVars   == <<mpc, at, interruptsDisabled>>
callVars   == <<nActivePollers, cpc>>
vars == <<flags, fromLoop, pollerVars, poolVars, eventVars, mainVars, callVars>>

TypeOK ==
  /\ flags \in [Nodes -> SUBSET Flags]
  /\ fromLoop \subseteq Nodes
  /\ toLoop \subseteq Nodes
  /\ ppc \in [Nodes -> {"parked", "input", "suspending", "suspended", "woken"}]
  /\ pool \in Seq(Nodes)
  /\ activePollerIndex \in [Nodes -> Nat]
  /\ nActivePollers \in 0..CounterModulus-1
  /\ waitingForEvent \in BOOLEAN
  /\ events \in Seq(EventKinds)
  /\ timers \in [Nodes -> Nat]
  /\ lateInterrupt \in BOOLEAN
  /\ due \in [Nodes -> Nat]
  /\ deadline \in BOOLEAN
  /\ interruptsDisabled \in BOOLEAN
  /\ mpc \in {"doEvents", "doEventNoWait", "doEventWait", "setWaiting",
              "select", "waitAction", "eventAction", "advance", "timed",
              "start", "checkSuspended", "send", "collect", "done",
              "stats", "disableInterrupts", "exit"}
  /\ at \in Nat \ {0}
  /\ cpc \in [Threads -> {"idle", "count", "interrupt", "sendInterrupt"}]

Init ==
  /\ flags = [n \in Nodes |-> {}]
  /\ fromLoop = {}
  /\ toLoop = {}
  /\ ppc = [n \in Nodes |-> "parked"]
  /\ pool = <<>>
  /\ activePollerIndex = [n \in Nodes |-> 0]
  /\ nActivePollers = 0
  /\ waitingForEvent = FALSE
  /\ events = <<>>
  /\ timers = [n \in Nodes |-> 0]
  /\ lateInterrupt = FALSE
  /\ due = [n \in Nodes |-> 0]
  /\ deadline = FALSE
  /\ interruptsDisabled = FALSE
  /\ mpc = "doEvents"
  /\ at = 1
  /\ cpc = [t \in Threads |-> "idle"]

-----------------------------------------------------------------------------
(* Node flags *)

is_active(n)    == "active" \in flags[n]
is_suspended(n) == "suspended" \in flags[n]
is_resumed(n)   == "resumed" \in flags[n]
is_polling(n)   == "polling" \in flags[n]

\* Node.set_flag, and the successful CAS of the other loops
set_flags(n, set, clear) ==
  flags' = [flags EXCEPT ![n] = (@ \cup set) \ clear]

-----------------------------------------------------------------------------
(* Calls into the loop, made by any goroutine *)

\* User code runs in a caller, in a poller that was started, and in the main
\* goroutine while it executes an event's action.
CanCall(t) ==
  /\ cpc[t] = "idle"
  /\ \/ t \in Callers
     \/ t \in Nodes /\ ppc[t] = "input"
     \/ t = Main /\ mpc \in {"waitAction", "eventAction"}

\* Node.Activate(true) up to the CAS; what follows is Count and Interrupt
activate(t, n) ==
  IF is_active(n)
  THEN UNCHANGED <<flags, cpc>>
  ELSE /\ set_flags(n, {"active"}, {})
       /\ cpc' = [cpc EXCEPT ![t] = "count"]

Activate(t, n) ==
  /\ CanCall(t)
  /\ activate(t, n)
  /\ UNCHANGED <<fromLoop, pollerVars, poolVars, eventVars, mainVars,
                 nActivePollers>>

\* Node.Activate(false): no interrupt and nActivePollers stays as it is
Deactivate(t, n) ==
  /\ CanCall(t)
  /\ nActivePollers < MaxActivations
  /\ is_active(n)
  /\ set_flags(n, {}, {"active"})
  /\ UNCHANGED <<fromLoop, pollerVars, poolVars, eventVars, mainVars, callVars>>

\* Deactivate now, activate again from a timed event
ActivateAfterTime(t, n) ==
  /\ CanCall(t)
  /\ nActivePollers < MaxActivations
  /\ timers[n] < MaxTimers
  /\ is_active(n)
  /\ set_flags(n, {}, {"active"})
  /\ timers' = [timers EXCEPT ![n] = @ + 1]
  /\ UNCHANGED <<fromLoop, pollerVars, poolVars, mainVars, callVars, events,
                 lateInterrupt, due, deadline, waitingForEvent>>

\* atomic.AddUint32(&l.nActivePollers, 1)
CountActive(t) ==
  /\ cpc[t] = "count"
  /\ nActivePollers' = (nActivePollers + 1) % CounterModulus
  /\ cpc' = [cpc EXCEPT ![t] = "interrupt"]
  /\ UNCHANGED <<flags, fromLoop, pollerVars, poolVars, eventVars, mainVars>>

\* Seeded bug: the suspended bit stays set
Resume_KeepSuspended(t, n) ==
  /\ CanCall(t)
  /\ activePollerIndex[n] # 0
  /\ is_active(n)
  /\ set_flags(n, {"resumed"}, {})
  /\ cpc' = [cpc EXCEPT ![t] = "interrupt"]
  /\ UNCHANGED <<fromLoop, pollerVars, poolVars, eventVars, mainVars,
                 nActivePollers>>

\* A Resume of a node that is not active does nothing.  An In exists only
\* once its poller has been started, hence has a pool entry.
Resume(t, n) ==
  /\ CanCall(t)
  /\ activePollerIndex[n] # 0
  /\ is_active(n)
  /\ set_flags(n, {"resumed"}, {"suspended"})
  /\ cpc' = [cpc EXCEPT ![t] = "interrupt"]
  /\ UNCHANGED <<fromLoop, pollerVars, poolVars, eventVars, mainVars,
                 nActivePollers>>

\* Loop.Interrupt: the test of waitingForEvent ...
InterruptCheck(t) ==
  /\ cpc[t] = "interrupt"
  /\ cpc' = [cpc EXCEPT ![t] = IF waitingForEvent THEN "sendInterrupt" ELSE "idle"]
  /\ UNCHANGED <<flags, fromLoop, pollerVars, poolVars, eventVars, mainVars,
                 nActivePollers>>

\* ... and the non-blocking addEvent(ErrInterrupt)
InterruptSend(t) ==
  /\ cpc[t] = "sendInterrupt"
  /\ IF Len(events) < EventCap
     THEN events' = Append(events, "interrupt") /\ UNCHANGED lateInterrupt
     ELSE lateInterrupt' = TRUE /\ UNCHANGED events
  /\ cpc' = [cpc EXCEPT ![t] = "idle"]
  /\ UNCHANGED <<flags, fromLoop, pollerVars, poolVars, timers, due, deadline,
                 waitingForEvent, mainVars, nActivePollers>>

\* Loop.Quit, and AddEvent of an actor without a handler, from outside
AddEvent(t, kind) ==
  /\ t \in Callers
  /\ CanCall(t)
  /\ Len(events) < EventCap
  /\ events' = Append(events, kind)
  /\ UNCHANGED <<flags, fromLoop, pollerVars, poolVars, timers, lateInterrupt,
                 due, deadline, waitingForEvent, mainVars, callVars>>

-----------------------------------------------------------------------------
(* The goroutine of a poller: dataPoll, and Suspend called from within *)

\* <-c.fromLoop at the head of dataPoll
PollerStart(n) ==
  /\ ppc[n] = "parked"
  /\ n \in fromLoop
  /\ fromLoop' = fromLoop \ {n}
  /\ ppc' = [ppc EXCEPT ![n] = "input"]
  /\ UNCHANGED <<flags, toLoop, poolVars, eventVars, mainVars, callVars>>

\* LoopInput and out.call have returned: c.toLoop <- struct{}{}
PollerFinish(n) ==
  /\ ppc[n] = "input"
  /\ cpc[n] = "idle"
  /\ n \notin toLoop
  /\ toLoop' = toLoop \cup {n}
  /\ ppc' = [ppc EXCEPT ![n] = "parked"]
  /\ UNCHANGED <<flags, fromLoop, poolVars, eventVars, mainVars, callVars>>

\* The CAS loop of Suspend: with a Resume already in, there is no wait
Suspend(n) ==
  /\ ppc[n] = "input"
  /\ cpc[n] = "idle"
  /\ IF is_resumed(n)
     THEN UNCHANGED flags /\ ppc' = [ppc EXCEPT ![n] = "woken"]
     ELSE /\ set_flags(n, {"suspended"}, {"resumed"})
          /\ ppc' = [ppc EXCEPT ![n] = "suspending"]
  /\ UNCHANGED <<fromLoop, toLoop, poolVars, eventVars, mainVars, callVars>>

\* Seeded bug: the poller waits without giving its turn back
SuspendSend_NoSignal(n) ==
  /\ ppc[n] = "suspending"
  /\ ppc' = [ppc EXCEPT ![n] = "suspended"]
  /\ UNCHANGED <<flags, fromLoop, toLoop, poolVars, eventVars, mainVars, callVars>>

\* p.toLoop <- struct{}{}
SuspendSend(n) ==
  /\ ppc[n] = "suspending"
  /\ n \notin toLoop
  /\ toLoop' = toLoop \cup {n}
  /\ ppc' = [ppc EXCEPT ![n] = "suspended"]
  /\ UNCHANGED <<flags, fromLoop, poolVars, eventVars, mainVars, callVars>>

\* <-p.fromLoop
SuspendReceive(n) ==
  /\ ppc[n] = "suspended"
  /\ n \in fromLoop
  /\ fromLoop' = fromLoop \ {n}
  /\ ppc' = [ppc EXCEPT ![n] = "woken"]
  /\ UNCHANGED <<flags, toLoop, poolVars, eventVars, mainVars, callVars>>

\* Seeded bug: the mask takes node_polling along
SuspendReturn_ClearPolling(n) ==
  /\ ppc[n] = "woken"
  /\ set_flags(n, {}, {"resumed", "suspended", "polling"})
  /\ ppc' = [ppc EXCEPT ![n] = "input"]
  /\ UNCHANGED <<fromLoop, toLoop, poolVars, eventVars, mainVars, callVars>>

\* p.set_flag(node_resumed|node_suspended, false)
SuspendReturn(n) ==
  /\ ppc[n] = "woken"
  /\ set_flags(n, {}, {"resumed", "suspended"})
  /\ ppc' = [ppc EXCEPT ![n] = "input"]
  /\ UNCHANGED <<fromLoop, toLoop, poolVars, eventVars, mainVars, callVars>>

-----------------------------------------------------------------------------
(* Main: doEvents *)

Goto(pc) == mpc' = pc
MainAt(pc) == mpc = pc /\ cpc[Main] = "idle"

TimedEventPending == lateInterrupt \/ \E n \in Nodes : timers[n] > 0

DoEvents ==
  /\ MainAt("doEvents")
  /\ Goto(IF nActivePollers > 0 THEN "doEventNoWait" ELSE "doEventWait")
  /\ UNCHANGED <<flags, fromLoop, pollerVars, poolVars, eventVars, callVars,
                 at, interruptsDisabled>>

\* Main has received event e.  A quit or an interrupt makes doEvents return
\* at once; the action of any other event runs in main.
Received(e, actionPc) ==
  CASE e = "quit"      -> Goto("exit") /\ UNCHANGED at
    [] e = "interrupt" -> Goto("start") /\ at' = 1
    [] e = "actor"     -> Goto(actionPc) /\ UNCHANGED at

DoEventNoWait ==
  /\ MainAt("doEventNoWait")
  /\ IF events = <<>>
     THEN Goto("advance") /\ UNCHANGED <<events, at>>
     ELSE Received(Head(events), "eventAction") /\ events' = Tail(events)
  /\ UNCHANGED <<flags, fromLoop, pollerVars, poolVars, callVars, timers,
                 lateInterrupt, due, deadline, waitingForEvent, interruptsDisabled>>

\* NextTime, read without eventPoolLock: an expired event means no sleep
DoEventWait ==
  /\ MainAt("doEventWait")
  /\ \/ /\ TimedEventPending
        /\ Goto("advance")
        /\ UNCHANGED deadline
     \/ /\ ~lateInterrupt            \* that event has expired already
        /\ deadline' = TimedEventPending
        /\ Goto("setWaiting")
  /\ UNCHANGED <<flags, fromLoop, pollerVars, poolVars, callVars, events, timers,
                 lateInterrupt, due, waitingForEvent, at, interruptsDisabled>>

SetWaiting ==
  /\ MainAt("setWaiting")
  /\ waitingForEvent' = TRUE
  /\ Goto("select")
  /\ UNCHANGED <<flags, fromLoop, pollerVars, poolVars, callVars, events, timers,
                 lateInterrupt, due, deadline, at, interruptsDisabled>>

\* select: an event or the timeout; waitingForEvent is cleared after the action
Select ==
  /\ MainAt("select")
  /\ \/ /\ events # <<>>
        /\ Received(Head(events), "waitAction")
        /\ waitingForEvent' = (Head(events) = "actor")
        /\ events' = Tail(events)
     \/ /\ deadline
        /\ waitingForEvent' = FALSE
        /\ Goto("advance")
        /\ UNCHANGED <<events, at>>
  /\ deadline' = FALSE
  /\ UNCHANGED <<flags, fromLoop, pollerVars, poolVars, callVars, timers,
                 lateInterrupt, due, interruptsDisabled>>

\* The event's action has returned
ActionDone ==
  /\ MainAt("waitAction") \/ MainAt("eventAction")
  /\ waitingForEvent' = FALSE
  /\ Goto("advance")
  /\ UNCHANGED <<flags, fromLoop, pollerVars, poolVars, callVars, events, timers,
                 lateInterrupt, due, deadline, at, interruptsDisabled>>

\* AdvanceAdd under eventPoolLock: some of the pending events have expired
Advance ==
  /\ MainAt("advance")
  /\ \E expired \in [Nodes -> 0..MaxTimers] :
       /\ \A n \in Nodes : expired[n] <= timers[n]
       /\ due' = expired
       /\ timers' = [n \in Nodes |-> timers[n] - expired[n]]
  /\ lateInterrupt' = FALSE
  /\ Goto("timed")
  /\ UNCHANGED <<flags, fromLoop, pollerVars, poolVars, callVars, events,
                 deadline, waitingForEvent, at, interruptsDisabled>>

\* activateEvent.EventAction for one expired event
TimedActivate(n) ==
  /\ MainAt("timed")
  /\ due[n] > 0
  /\ due' = [due EXCEPT ![n] = @ - 1]
  /\ activate(Main, n)
  /\ UNCHANGED <<fromLoop, pollerVars, poolVars, events, timers, lateInterrupt,
                 deadline, waitingForEvent, mainVars, nActivePollers>>

\* Seeded bug: eventVec is truncated before all of it has run
TimedDone_Early ==
  /\ MainAt("timed")
  /\ at' = 1
  /\ Goto("start")
  /\ UNCHANGED <<flags, fromLoop, pollerVars, poolVars, callVars, eventVars,
                 interruptsDisabled>>

\* All expired events have run and Wait has returned: on to doPollers
TimedDone ==
  /\ MainAt("timed")
  /\ \A n \in Nodes : due[n] = 0
  /\ at' = 1
  /\ Goto("start")
  /\ UNCHANGED <<flags, fromLoop, pollerVars, poolVars, callVars, eventVars,
                 interruptsDisabled>>

-----------------------------------------------------------------------------
(* Main: doPollers *)

\* The first loop, at dataPollers[at]: skip a node that is not active ...
CheckActive ==
  /\ MainAt("start")
  /\ \/ at > N /\ at' = 1 /\ Goto("collect")
     \/ at <= N /\ ~is_active(at) /\ at' = at + 1 /\ UNCHANGED mpc
     \/ at <= N /\ is_active(at) /\ Goto("checkSuspended") /\ UNCHANGED at
  /\ UNCHANGED <<flags, fromLoop, pollerVars, poolVars, callVars, eventVars,
                 interruptsDisabled>>

\* allocActivePoller, for a node that has no pool entry yet
allocActivePoller(n) ==
  IF activePollerIndex[n] = 0
  THEN /\ pool' = Append(pool, n)
       /\ activePollerIndex' = [activePollerIndex EXCEPT ![n] = Len(pool) + 1]
  ELSE UNCHANGED poolVars

\* Seeded bug: the suspended bit is not looked at
CheckSuspended_Skip ==
  /\ MainAt("checkSuspended")
  /\ allocActivePoller(at)
  /\ set_flags(at, {"polling"}, {})
  /\ Goto("send")
  /\ UNCHANGED <<fromLoop, pollerVars, callVars, eventVars, at, interruptsDisabled>>

\* ... or suspended (a second read of flags); otherwise set node_polling
CheckSuspended ==
  /\ MainAt("checkSuspended")
  /\ IF is_suspended(at)
     THEN at' = at + 1 /\ Goto("start") /\ UNCHANGED <<flags, poolVars>>
     ELSE /\ allocActivePoller(at)
          /\ set_flags(at, {"polling"}, {})
          /\ Goto("send")
          /\ UNCHANGED at
  /\ UNCHANGED <<fromLoop, pollerVars, callVars, eventVars, interruptsDisabled>>

\* Seeded bug: the loop does not advance
StartPoller_NoAdvance ==
  /\ MainAt("send")
  /\ at \notin fromLoop
  /\ fromLoop' = fromLoop \cup {at}
  /\ Goto("start")
  /\ UNCHANGED <<flags, pollerVars, poolVars, callVars, eventVars, at,
                 interruptsDisabled>>

\* n.fromLoop <- struct{}{}
StartPoller ==
  /\ MainAt("send")
  /\ at \notin fromLoop
  /\ fromLoop' = fromLoop \cup {at}
  /\ at' = at + 1
  /\ Goto("start")
  /\ UNCHANGED <<flags, pollerVars, poolVars, callVars, eventVars,
                 interruptsDisabled>>

\* Seeded bug: main gives up on a poller that is not done yet
Collect_NoWait ==
  /\ MainAt("collect")
  /\ \/ at > Len(pool) /\ Goto("stats") /\ UNCHANGED <<at, toLoop>>
     \/ /\ at <= Len(pool)
        /\ at' = at + 1
        /\ UNCHANGED <<mpc, toLoop>>
     \/ /\ at <= Len(pool)
        /\ is_polling(pool[at])
        /\ pool[at] \in toLoop
        /\ toLoop' = toLoop \ {pool[at]}
        /\ Goto("done")
        /\ UNCHANGED at
  /\ UNCHANGED <<flags, fromLoop, ppc, poolVars, callVars, eventVars,
                 interruptsDisabled>>

\* The second loop, over the pool: <-n.toLoop for every node that is polling.
\* No entry is ever freed, and nFreed stays 0 ("smp races.  Disabled for now").
Collect ==
  /\ MainAt("collect")
  /\ \/ at > Len(pool) /\ Goto("stats") /\ UNCHANGED <<at, toLoop>>
     \/ /\ at <= Len(pool)
        /\ ~is_polling(pool[at])
        /\ at' = at + 1
        /\ UNCHANGED <<mpc, toLoop>>
     \/ /\ at <= Len(pool)
        /\ is_polling(pool[at])
        /\ pool[at] \in toLoop
        /\ toLoop' = toLoop \ {pool[at]}
        /\ Goto("done")
        /\ UNCHANGED at
  /\ UNCHANGED <<flags, fromLoop, ppc, poolVars, callVars, eventVars,
                 interruptsDisabled>>

\* Seeded bug: node_polling stays set
PollerDone_KeepPolling ==
  /\ MainAt("done")
  /\ at' = at + 1
  /\ Goto("collect")
  /\ UNCHANGED <<flags, fromLoop, pollerVars, poolVars, callVars, eventVars,
                 interruptsDisabled>>

\* n.set_flag(node_polling, false)
PollerDone ==
  /\ MainAt("done")
  /\ set_flags(pool[at], {}, {"polling"})
  /\ at' = at + 1
  /\ Goto("collect")
  /\ UNCHANGED <<fromLoop, pollerVars, poolVars, callVars, eventVars,
                 interruptsDisabled>>

\* doPollerStats: now and then the vector rate crosses the threshold
DoPollerStats ==
  /\ MainAt("stats")
  /\ \/ Goto("doEvents") /\ UNCHANGED <<at, interruptsDisabled>>
     \/ /\ nActivePollers < MaxActivations
        /\ Goto("disableInterrupts")
        /\ at' = 1
        /\ interruptsDisabled' = ~interruptsDisabled
  /\ UNCHANGED <<flags, fromLoop, pollerVars, poolVars, callVars, eventVars>>

\* disableInterrupts(disable): Activate(disable) for every InterruptEnabler
DisableInterrupts ==
  /\ MainAt("disableInterrupts")
  /\ IF at > N
     THEN Goto("doEvents") /\ UNCHANGED <<at, flags, cpc>>
     ELSE /\ at' = at + 1
          /\ UNCHANGED mpc
          /\ CASE at \notin InterruptNodes -> UNCHANGED <<flags, cpc>>
               [] at \in InterruptNodes /\ interruptsDisabled -> activate(Main, at)
               [] at \in InterruptNodes /\ ~interruptsDisabled ->
                    set_flags(at, {}, {"active"}) /\ UNCHANGED cpc
  /\ UNCHANGED <<fromLoop, pollerVars, poolVars, eventVars, interruptsDisabled,
                 nActivePollers>>

-----------------------------------------------------------------------------

PollerStep(n) == \/ PollerStart(n) \/ PollerFinish(n) \/ Suspend(n)
                 \/ SuspendSend(n) \/ SuspendReceive(n) \/ SuspendReturn(n)

CallStep(t) == CountActive(t) \/ InterruptCheck(t) \/ InterruptSend(t)

Call(t) == \/ \E n \in Nodes : \/ Activate(t, n) \/ Deactivate(t, n)
                               \/ ActivateAfterTime(t, n) \/ Resume(t, n)
           \/ \E kind \in {"quit", "actor"} : AddEvent(t, kind)

MainStep == \/ DoEvents \/ DoEventNoWait \/ DoEventWait \/ SetWaiting \/ Select
            \/ ActionDone \/ Advance \/ (\E n \in Nodes : TimedActivate(n))
            \/ TimedDone \/ CheckActive \/ CheckSuspended \/ StartPoller
            \/ Collect \/ PollerDone \/ DoPollerStats \/ DisableInterrupts

Next == \/ MainStep
        \/ \E n \in Nodes : PollerStep(n)
        \/ \E t \in Threads : Call(t) \/ CallStep(t)

Spec == Init /\ [][Next]_vars

(***************************************************************************)
(* Go schedules every runnable goroutine, LoopInput and event actions      *)
(* return, whoever entered Activate or Resume leaves it, and time passes.  *)
(* User code may make any finite number of calls before it returns, and a  *)
(* call in progress disables the return, hence SF.  Nothing is assumed of  *)
(* new calls, nor of the other goroutines.                                 *)
(***************************************************************************)
Fairness ==
  /\ WF_vars(MainStep)
  /\ \A t \in Threads : WF_vars(CallStep(t))
  /\ \A n \in Nodes :
       /\ WF_vars(PollerStart(n) \/ SuspendSend(n) \/ SuspendReceive(n)
                  \/ SuspendReturn(n))
       /\ SF_vars(PollerFinish(n))
       /\ SF_vars(Advance /\ timers[n] > 0 /\ due'[n] > 0)
  /\ SF_vars(ActionDone)

FairSpec == Spec /\ Fairness

-----------------------------------------------------------------------------
(* Properties *)

\* Where main is: the turn of the pollers is the body of doPollers
Starting   == mpc \in {"start", "checkSuspended", "send"}
Collecting == mpc \in {"collect", "done"}

\* The poller of n executes user code, or is bound to
Running(n) == \/ ppc[n] \in {"input", "suspending", "woken"}
              \/ n \in fromLoop
              \/ mpc = "send" /\ at = n

\* While main handles events, and until it starts the next round, no poller
\* executes LoopInput: each is parked in dataPoll or waits in Suspend.  This
\* is what lets event actions touch node state without a lock.
EventsExcludePolling ==
  ~Starting /\ ~Collecting => \A n \in Nodes : ~Running(n) /\ n \notin toLoop

\* event.go "Never block when polling": AddEvent called from a poller reads
\* node_polling set, in every interleaving of main, Suspend and Resume.
NeverBlockWhenPolling ==
  \A n \in Nodes : ppc[n] \in {"input", "suspending", "woken"} => is_polling(n)

\* The hand-over channels have room when their one sender comes to send:
\* neither main nor a poller ever blocks in a send on them.
HandoverHasRoom ==
  /\ mpc = "send" => at \notin fromLoop
  /\ \A n \in Nodes : ppc[n] \in {"input", "suspending"} => n \notin toLoop

\* A poller that waits in Suspend is continued only after a Resume took its
\* suspended bit away, however Suspend's two steps and main's reads interleave.
SuspendHonoured ==
  \A n \in Nodes : ppc[n] = "suspended" /\ Running(n) => ~is_suspended(n)

\* The conjuncts below, with TypeOK, are inductive: they pin down which
\* goroutine holds a poller's turn in every state.
PoolInv ==
  /\ \A n \in Nodes : activePollerIndex[n] # 0 =>
       activePollerIndex[n] \in 1..Len(pool) /\ pool[activePollerIndex[n]] = n
  /\ \A i \in 1..Len(pool) : activePollerIndex[pool[i]] = i

\* main has the turn of n: about to give it away, or just given it back
MainHolds(n) == \/ mpc = "send" /\ at = n
                \/ mpc = "done" /\ pool[at] = n

TurnInv ==
  \A n \in Nodes :
    /\ ppc[n] \in {"input", "suspending", "woken"} =>
         is_polling(n) /\ n \notin fromLoop /\ n \notin toLoop /\ ~MainHolds(n)
    /\ n \in fromLoop => is_polling(n) /\ n \notin toLoop /\ ~MainHolds(n)
    /\ n \in toLoop => is_polling(n) /\ ~MainHolds(n)
    /\ MainHolds(n) => is_polling(n)
    /\ is_suspended(n) => ppc[n] \in {"suspending", "suspended", "woken"}
    /\ ppc[n] = "suspended" /\ (n \in fromLoop \/ (mpc = "send" /\ at = n)) =>
         ~is_suspended(n)

PhaseInv ==
  /\ mpc \in {"checkSuspended", "send"} => at \in Nodes
  /\ mpc = "done" => at \in 1..Len(pool)
  /\ \A n \in Nodes : is_polling(n) =>
       /\ activePollerIndex[n] # 0
       /\ Starting \/ Collecting
       /\ mpc \in {"start", "checkSuspended"} => n < at
       /\ mpc = "send" => n <= at
       /\ Collecting => activePollerIndex[n] >= at

IInv == TypeOK /\ PoolInv /\ TurnInv /\ PhaseInv

-----------------------------------------------------------------------------
(* The abstract view: PollTurns *)

phase == IF Starting THEN "starting" ELSE IF Collecting THEN "collecting" ELSE "events"
started == {n \in Nodes : is_polling(n)}
stage == [n \in Nodes |->
            IF Running(n) THEN "running"
            ELSE IF ppc[n] = "parked" THEN "idle"
            ELSE IF is_suspended(n) THEN "held" ELSE "ready"]

Turns == INSTANCE PollTurns WITH Nodes <- Nodes, phase <- phase, started <- started, stage <- stage

\* doPollers and the pollers implement turn taking: rounds in which each poller
\* runs at most once and which end when every started poller has yielded.
TurnsSpec == Turns!Spec

\* A round ends: main never waits forever for a poller that does not yield.
RoundsEnd == Collecting ~> ~Collecting

\* main sleeps, or is on its way to sleep
Sleepy == nActivePollers = 0 \/ mpc \in {"doEventWait", "setWaiting", "select", "exit"}

\* A Resume is not lost: the waiting poller continues, unless it is deactivated
\* or main sleeps or quits.
ResumeContinues ==
  \A n \in Nodes : (ppc[n] = "suspended" /\ is_resumed(n)) ~>
     (ppc[n] # "suspended" \/ ~is_active(n) \/ Sleepy)

\* ActivateAfterTime keeps its promise: a pending activate event activates.
TimerActivates ==
  \A n \in Nodes : (timers[n] > 0) ~> (is_active(n) \/ Sleepy)

\* loop.go: "Interrupt event wait to poll active nodes."
ActivateWakesMain ==
  \A n \in Nodes : is_active(n) ~> (is_polling(n) \/ ~is_active(n) \/ is_suspended(n)
                                     \/ mpc = "exit")

=============================================================================
