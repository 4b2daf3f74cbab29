------------------------- MODULE LoopPollersProofs -------------------------
(***************************************************************************)
(* Theorems about LoopPollers, for any number of pollers and callers, any  *)
(* channel capacity, any width of nActivePollers and any bound.            *)
(***************************************************************************)
EXTENDS LoopPollers, TLAPS

LEMMA InitInv == Init => IInv
<1> SUFFICES ASSUME Init PROVE IInv
  OBVIOUS
<1>1. TypeOK
  <2> USE DEF Init
  <2>1. flags \in [Nodes -> SUBSET Flags]
    OBVIOUS
  <2>2. pool \in Seq(Nodes) /\ events \in Seq(EventKinds)
    OBVIOUS
  <2>3. nActivePollers \in 0..CounterModulus-1
    BY CapAssumption
  <2>4. mpc = "doEvents" /\ at \in Nat \ {0}
    OBVIOUS
  <2>5. /\ ppc \in [Nodes -> {"parked", "input", "suspending", "suspended", "woken"}]
        /\ cpc \in [Threads -> {"idle", "count", "interrupt", "sendInterrupt"}]
    OBVIOUS
  <2>6. /\ activePollerIndex \in [Nodes -> Nat]
        /\ timers \in [Nodes -> Nat]
        /\ due \in [Nodes -> Nat]
    OBVIOUS
  <2> QED BY <2>1, <2>2, <2>3, <2>4, <2>5, <2>6 DEF TypeOK
<1>2. PoolInv
  BY DEF Init, PoolInv
<1>3. TurnInv
  BY DEF Init, TurnInv, MainHolds, is_polling, is_suspended
<1>4. PhaseInv
  BY DEF Init, PhaseInv, is_polling, Collecting, Starting
<1> QED
  BY <1>1, <1>2, <1>3, <1>4 DEF IInv

-----------------------------------------------------------------------------
(* What a change of the flag word does to the invariant *)

\* set_flags changes the flags of one node only and keeps their type
LEMMA SetFlags ==
  ASSUME flags \in [Nodes -> SUBSET Flags], NEW n \in Nodes,
         NEW set \in SUBSET Flags, NEW clear, set_flags(n, set, clear)
  PROVE  /\ flags' \in [Nodes -> SUBSET Flags]
         /\ flags'[n] = (flags[n] \cup set) \ clear
         /\ \A m \in Nodes : m # n => flags'[m] = flags[m]
BY DEF set_flags

\* A step that leaves the polling bits alone and suspends nobody
LEMMA FlagChange ==
  ASSUME PoolInv, TurnInv, PhaseInv,
         \A m \in Nodes : is_polling(m)' <=> is_polling(m),
         \A m \in Nodes : is_suspended(m)' => is_suspended(m),
         UNCHANGED <<fromLoop, toLoop, ppc, pool, activePollerIndex, mpc, at>>
  PROVE  PoolInv' /\ TurnInv' /\ PhaseInv'
<1>1. PoolInv'
  BY DEF PoolInv
<1>2. TurnInv'
  BY DEF TurnInv, MainHolds
<1>3. PhaseInv'
  BY DEF PhaseInv, Starting, Collecting
<1> QED
  BY <1>1, <1>2, <1>3

\* The first half of Activate, in a call, a timed event or disableInterrupts
LEMMA ActivateFlags ==
  ASSUME TypeOK, NEW t \in Threads, NEW n \in Nodes, activate(t, n)
  PROVE  /\ flags' \in [Nodes -> SUBSET Flags]
         /\ cpc' \in [Threads -> {"idle", "count", "interrupt", "sendInterrupt"}]
         /\ \A m \in Nodes : is_polling(m)' <=> is_polling(m)
         /\ \A m \in Nodes : is_suspended(m)' <=> is_suspended(m)
<1>1. CASE is_active(n)
  BY <1>1 DEF activate, TypeOK, is_polling, is_suspended
<1>2. CASE ~is_active(n)
  <2>1. /\ set_flags(n, {"active"}, {})
        /\ cpc' = [cpc EXCEPT ![t] = "count"]
    BY <1>2 DEF activate
  <2>2. {"active"} \in SUBSET Flags
    BY DEF Flags
  <2>3. /\ flags' \in [Nodes -> SUBSET Flags]
        /\ flags'[n] = (flags[n] \cup {"active"}) \ {}
        /\ \A m \in Nodes : m # n => flags'[m] = flags[m]
    BY <2>1, <2>2, SetFlags DEF TypeOK
  <2>4. cpc' \in [Threads -> {"idle", "count", "interrupt", "sendInterrupt"}]
    BY <2>1 DEF TypeOK
  <2> QED BY <2>3, <2>4 DEF is_polling, is_suspended
<1> QED
  BY <1>1, <1>2

-----------------------------------------------------------------------------
(* The steps of the call threads and of the pollers *)

LEMMA CallInv ==
  ASSUME IInv, NEW t \in Threads, Call(t)
  PROVE  IInv'
<1> USE DEF IInv, pollerVars, poolVars, eventVars, mainVars, callVars
<1>a. {"resumed"} \in SUBSET Flags /\ {} \in SUBSET Flags
  BY DEF Flags
<1>1. ASSUME NEW n \in Nodes, Activate(t, n) PROVE IInv'
  <2>1. TypeOK'
    BY <1>1, ActivateFlags DEF Activate, TypeOK
  <2>2. PoolInv' /\ TurnInv' /\ PhaseInv'
    BY <1>1, ActivateFlags, FlagChange DEF Activate
  <2> QED BY <2>1, <2>2
<1>2. ASSUME NEW n \in Nodes, Deactivate(t, n) \/ ActivateAfterTime(t, n) PROVE IInv'
  <2>1. /\ flags' \in [Nodes -> SUBSET Flags]
        /\ flags'[n] = (flags[n] \cup {}) \ {"active"}
        /\ \A m \in Nodes : m # n => flags'[m] = flags[m]
    BY <1>a, <1>2, SetFlags DEF Deactivate, ActivateAfterTime, TypeOK
  <2>2. TypeOK'
    BY <1>2, <2>1 DEF Deactivate, ActivateAfterTime, TypeOK
  <2>3. PoolInv' /\ TurnInv' /\ PhaseInv'
    BY <1>2, <2>1, FlagChange
       DEF Deactivate, ActivateAfterTime, is_polling, is_suspended
  <2> QED BY <2>2, <2>3
<1>3. ASSUME NEW n \in Nodes, Resume(t, n) PROVE IInv'
  <2>1. /\ flags' \in [Nodes -> SUBSET Flags]
        /\ flags'[n] = (flags[n] \cup {"resumed"}) \ {"suspended"}
        /\ \A m \in Nodes : m # n => flags'[m] = flags[m]
    BY <1>a, <1>3, SetFlags DEF Resume, TypeOK
  <2>2. TypeOK'
    BY <1>3, <2>1 DEF Resume, TypeOK
  <2>3. PoolInv' /\ TurnInv' /\ PhaseInv'
    BY <1>3, <2>1, FlagChange DEF Resume, is_polling, is_suspended
  <2> QED BY <2>2, <2>3
<1>4. ASSUME NEW kind \in {"quit", "actor"}, AddEvent(t, kind) PROVE IInv'
  <2>1. TypeOK'
    BY <1>4 DEF AddEvent, TypeOK, EventKinds
  <2>2. PoolInv' /\ TurnInv' /\ PhaseInv'
    BY <1>4, FlagChange DEF AddEvent, is_polling, is_suspended
  <2> QED BY <2>1, <2>2
<1> QED
  BY <1>1, <1>2, <1>3, <1>4 DEF Call

LEMMA CallStepInv ==
  ASSUME IInv, NEW t \in Threads, CallStep(t)
  PROVE  IInv'
<1> USE DEF IInv, pollerVars, poolVars, eventVars, mainVars, callVars
<1>1. TypeOK'
  <2>1. CASE CountActive(t)
    BY <2>1, CapAssumption DEF CountActive, TypeOK
  <2>2. CASE InterruptCheck(t)
    BY <2>2 DEF InterruptCheck, TypeOK
  <2>3. CASE InterruptSend(t)
    <3>1. events' \in Seq(EventKinds) /\ lateInterrupt' \in BOOLEAN
      <4>1. CASE Len(events) < EventCap
        <5>1. "interrupt" \in EventKinds
          BY DEF EventKinds
        <5>2. events' = Append(events, "interrupt") /\ lateInterrupt' = lateInterrupt
          BY <2>3, <4>1 DEF InterruptSend
        <5> QED BY <5>1, <5>2 DEF TypeOK
      <4>2. CASE ~(Len(events) < EventCap)
        BY <2>3, <4>2 DEF InterruptSend, TypeOK
      <4> QED BY <4>1, <4>2
    <3> QED BY <2>3, <3>1 DEF InterruptSend, TypeOK
  <2> QED BY <2>1, <2>2, <2>3 DEF CallStep
<1>2. PoolInv' /\ TurnInv' /\ PhaseInv'
  BY FlagChange DEF CallStep, CountActive, InterruptCheck, InterruptSend,
                    is_polling, is_suspended
<1> QED
  BY <1>1, <1>2

LEMMA PollerStepInv ==
  ASSUME IInv, NEW n \in Nodes, PollerStep(n)
  PROVE  IInv'
<1> USE DEF IInv, pollerVars, poolVars, eventVars, mainVars, callVars
<1>a. {"suspended"} \in SUBSET Flags /\ {} \in SUBSET Flags
  BY DEF Flags
<1>b. /\ flags' \in [Nodes -> SUBSET Flags]
      /\ \A m \in Nodes : is_polling(m)' <=> is_polling(m)
      /\ \A m \in Nodes \ {n} : is_suspended(m)' <=> is_suspended(m)
  <2>1. CASE UNCHANGED flags
    BY <2>1 DEF TypeOK, is_polling, is_suspended
  <2>2. CASE \/ set_flags(n, {"suspended"}, {"resumed"})
             \/ set_flags(n, {}, {"resumed", "suspended"})
    <3>1. /\ flags' \in [Nodes -> SUBSET Flags]
          /\ \/ flags'[n] = (flags[n] \cup {"suspended"}) \ {"resumed"}
             \/ flags'[n] = (flags[n] \cup {}) \ {"resumed", "suspended"}
          /\ \A m \in Nodes : m # n => flags'[m] = flags[m]
      BY <1>a, <2>2, SetFlags DEF TypeOK
    <3> QED BY <3>1 DEF is_polling, is_suspended
  <2> QED
    BY <2>1, <2>2 DEF PollerStep, PollerStart, PollerFinish, Suspend, SuspendSend,
                      SuspendReceive, SuspendReturn
<1>1. TypeOK'
  <2>1. /\ fromLoop' \subseteq Nodes
        /\ toLoop' \subseteq Nodes
    BY DEF PollerStep, PollerStart, PollerFinish, Suspend, SuspendSend,
           SuspendReceive, SuspendReturn, TypeOK
  <2>2. ppc' \in [Nodes -> {"parked", "input", "suspending", "suspended", "woken"}]
    <3>1. \E pc \in {"parked", "input", "suspending", "suspended", "woken"} :
            ppc' = [ppc EXCEPT ![n] = pc]
      BY DEF PollerStep, PollerStart, PollerFinish, Suspend, SuspendSend,
             SuspendReceive, SuspendReturn
    <3> QED BY <3>1 DEF TypeOK
  <2>3. UNCHANGED <<poolVars, eventVars, mainVars, callVars>>
    BY DEF PollerStep, PollerStart, PollerFinish, Suspend, SuspendSend,
           SuspendReceive, SuspendReturn
  <2> QED BY <1>b, <2>1, <2>2, <2>3 DEF TypeOK
<1>2. PoolInv'
  BY DEF PollerStep, PollerStart, PollerFinish, Suspend, SuspendSend,
         SuspendReceive, SuspendReturn, PoolInv
<1>3. TurnInv'
  <2> USE DEF TypeOK, TurnInv, MainHolds
  <2>1. CASE PollerStart(n)
    BY <2>1 DEF PollerStart, is_polling, is_suspended
  <2>2. CASE PollerFinish(n)
    BY <2>2 DEF PollerFinish, is_polling, is_suspended
  <2>3. CASE Suspend(n)
    <3>1. CASE is_resumed(n)
      BY <2>3, <3>1 DEF Suspend, is_polling, is_suspended
    <3>2. CASE ~is_resumed(n)
      <4>1. /\ ppc[n] = "input"
            /\ ppc' = [ppc EXCEPT ![n] = "suspending"]
            /\ UNCHANGED <<fromLoop, toLoop, pool, mpc, at>>
        BY <2>3, <3>2 DEF Suspend
      <4> QED BY <1>b, <4>1
    <3> QED BY <3>1, <3>2
  <2>4. CASE SuspendSend(n)
    BY <2>4 DEF SuspendSend, is_polling, is_suspended
  <2>5. CASE SuspendReceive(n)
    BY <2>5 DEF SuspendReceive, is_polling, is_suspended
  <2>6. CASE SuspendReturn(n)
    <3>1. ppc' = [ppc EXCEPT ![n] = "input"] /\ ppc[n] = "woken"
      BY <2>6 DEF SuspendReturn
    <3>2. /\ UNCHANGED <<fromLoop, toLoop, pool, mpc, at>>
          /\ set_flags(n, {}, {"resumed", "suspended"})
      BY <2>6 DEF SuspendReturn
    <3>3. flags'[n] = (flags[n] \cup {}) \ {"resumed", "suspended"}
      BY <3>2 DEF set_flags
    <3>4. ~is_suspended(n)'
      BY <3>3 DEF is_suspended
    <3> QED BY <1>b, <3>1, <3>2, <3>4
  <2> QED BY <2>1, <2>2, <2>3, <2>4, <2>5, <2>6 DEF PollerStep
<1>4. PhaseInv'
  <2>1. UNCHANGED <<mpc, at, pool, activePollerIndex>>
    BY DEF PollerStep, PollerStart, PollerFinish, Suspend, SuspendSend,
           SuspendReceive, SuspendReturn
  <2> QED BY <1>b, <2>1 DEF PhaseInv, Starting, Collecting
<1> QED
  BY <1>1, <1>2, <1>3, <1>4

-----------------------------------------------------------------------------
(* The steps of main *)

\* Between rounds no polling bit is set, so nothing depends on at or mpc
BetweenRounds == ~Starting /\ ~Collecting

LEMMA MainQuiet ==
  ASSUME PoolInv, TurnInv, PhaseInv, BetweenRounds,
         mpc' \notin {"checkSuspended", "send", "collect", "done"},
         \A m \in Nodes : is_polling(m)' <=> is_polling(m),
         \A m \in Nodes : is_suspended(m)' => is_suspended(m),
         UNCHANGED <<fromLoop, toLoop, ppc, pool, activePollerIndex>>
  PROVE  PoolInv' /\ TurnInv' /\ PhaseInv'
<1>1. \A m \in Nodes : ~is_polling(m)
  BY DEF PhaseInv, BetweenRounds
<1>2. PoolInv'
  BY DEF PoolInv
<1>3. TurnInv'
  BY <1>1 DEF TurnInv, MainHolds, BetweenRounds, Starting, Collecting
<1>4. PhaseInv'
  BY <1>1 DEF PhaseInv, Starting, Collecting
<1> QED
  BY <1>2, <1>3, <1>4

LEMMA MainEventsInv ==
  ASSUME IInv,
         \/ DoEvents \/ DoEventNoWait \/ DoEventWait \/ SetWaiting \/ Select
         \/ ActionDone \/ Advance \/ (\E n \in Nodes : TimedActivate(n))
         \/ TimedDone \/ DoPollerStats \/ DisableInterrupts
  PROVE  IInv'
<1> USE DEF IInv, pollerVars, poolVars, eventVars, mainVars, callVars, MainAt, Goto
<1>a. Main \in Threads
  BY DEF Threads
<1>b. ASSUME NEW actionPc, events # <<>>, Received(Head(events), actionPc), TypeOK
      PROVE  /\ mpc' \in {"exit", "start", actionPc}
             /\ at' \in Nat \ {0}
  <2>1. Head(events) \in EventKinds
    BY <1>b DEF TypeOK
  <2>2. CASE Head(events) = "quit"
    BY <1>b, <2>2 DEF Received, TypeOK
  <2>3. CASE Head(events) = "interrupt"
    <3>1. mpc' = "start" /\ at' = 1
      BY <1>b, <2>3 DEF Received
    <3> QED BY <3>1
  <2>4. CASE Head(events) = "actor"
    BY <1>b, <2>4 DEF Received, TypeOK
  <2> QED BY <2>1, <2>2, <2>3, <2>4 DEF EventKinds
<1>1. CASE DoEvents
  <2>1. TypeOK'
    BY <1>1 DEF DoEvents, TypeOK
  <2>2. PoolInv' /\ TurnInv' /\ PhaseInv'
    BY <1>1, MainQuiet DEF DoEvents, BetweenRounds, Starting, Collecting,
                           is_polling, is_suspended
  <2> QED BY <2>1, <2>2
<1>2. CASE DoEventNoWait
  <2>1. /\ events' \in Seq(EventKinds)
        /\ at' \in Nat \ {0}
        /\ mpc' \in {"advance", "exit", "start", "eventAction"}
    <3>1. CASE events = <<>>
      BY <1>2, <3>1 DEF DoEventNoWait, TypeOK
    <3>2. CASE events # <<>>
      <4>1. Received(Head(events), "eventAction") /\ events' = Tail(events)
        BY <1>2, <3>2 DEF DoEventNoWait
      <4>2. mpc' \in {"exit", "start", "eventAction"} /\ at' \in Nat \ {0}
        BY <1>b, <3>2, <4>1
      <4>3. events' \in Seq(EventKinds)
        BY <3>2, <4>1 DEF TypeOK
      <4> QED BY <4>2, <4>3
    <3> QED BY <3>1, <3>2
  <2>2. TypeOK'
    BY <1>2, <2>1 DEF DoEventNoWait, TypeOK
  <2>3. PoolInv' /\ TurnInv' /\ PhaseInv'
    BY <1>2, <2>1, MainQuiet DEF DoEventNoWait, BetweenRounds, Starting, Collecting,
                                 is_polling, is_suspended
  <2> QED BY <2>2, <2>3
<1>3. CASE DoEventWait \/ SetWaiting \/ ActionDone \/ TimedDone
  <2>1. TypeOK'
    <3>1. CASE DoEventWait
      <4>1. mpc' \in {"advance", "setWaiting"} /\ deadline' \in BOOLEAN
        BY <3>1 DEF DoEventWait, TypeOK, TimedEventPending
      <4> QED BY <3>1, <4>1 DEF DoEventWait, TypeOK
    <3>2. CASE SetWaiting
      BY <3>2 DEF SetWaiting, TypeOK
    <3>3. CASE ActionDone
      BY <3>3 DEF ActionDone, TypeOK
    <3>4. CASE TimedDone
      BY <3>4 DEF TimedDone, TypeOK
    <3> QED BY <1>3, <3>1, <3>2, <3>3, <3>4
  <2>2. PoolInv' /\ TurnInv' /\ PhaseInv'
    BY <1>3, MainQuiet DEF DoEventWait, SetWaiting, ActionDone, TimedDone,
                           BetweenRounds, Starting, Collecting, is_polling, is_suspended
  <2> QED BY <2>1, <2>2
<1>4. CASE Select
  <2>1. /\ events' \in Seq(EventKinds)
        /\ at' \in Nat \ {0}
        /\ mpc' \in {"advance", "exit", "start", "waitAction"}
        /\ waitingForEvent' \in BOOLEAN
    <3>1. CASE /\ events # <<>>
               /\ Received(Head(events), "waitAction")
               /\ waitingForEvent' = (Head(events) = "actor")
               /\ events' = Tail(events)
      <4>1. mpc' \in {"exit", "start", "waitAction"} /\ at' \in Nat \ {0}
        BY <1>b, <3>1
      <4>2. events' \in Seq(EventKinds)
        BY <3>1 DEF TypeOK
      <4> QED BY <3>1, <4>1, <4>2
    <3>2. CASE /\ waitingForEvent' = FALSE
               /\ Goto("advance")
               /\ UNCHANGED <<events, at>>
      BY <3>2 DEF TypeOK
    <3> QED BY <1>4, <3>1, <3>2 DEF Select
  <2>2. TypeOK'
    BY <1>4, <2>1 DEF Select, TypeOK
  <2>3. PoolInv' /\ TurnInv' /\ PhaseInv'
    BY <1>4, <2>1, MainQuiet DEF Select, BetweenRounds, Starting, Collecting,
                                 is_polling, is_suspended
  <2> QED BY <2>2, <2>3
<1>5. CASE Advance
  <2>1. PICK expired \in [Nodes -> 0..MaxTimers] :
          /\ \A n \in Nodes : expired[n] <= timers[n]
          /\ due' = expired
          /\ timers' = [n \in Nodes |-> timers[n] - expired[n]]
    BY <1>5 DEF Advance
  <2>2. due' \in [Nodes -> Nat] /\ timers' \in [Nodes -> Nat]
    BY <2>1, CapAssumption DEF TypeOK
  <2>3. TypeOK'
    BY <1>5, <2>2 DEF Advance, TypeOK
  <2>4. PoolInv' /\ TurnInv' /\ PhaseInv'
    BY <1>5, MainQuiet DEF Advance, BetweenRounds, Starting, Collecting,
                           is_polling, is_suspended
  <2> QED BY <2>3, <2>4
<1>6. ASSUME NEW n \in Nodes, TimedActivate(n) PROVE IInv'
  <2>1. activate(Main, n)
    BY <1>6 DEF TimedActivate
  <2>2. /\ flags' \in [Nodes -> SUBSET Flags]
        /\ cpc' \in [Threads -> {"idle", "count", "interrupt", "sendInterrupt"}]
        /\ \A m \in Nodes : is_polling(m)' <=> is_polling(m)
        /\ \A m \in Nodes : is_suspended(m)' => is_suspended(m)
    BY <1>a, <2>1, ActivateFlags
  <2>3. TypeOK'
    <3>1. due' \in [Nodes -> Nat]
      BY <1>6 DEF TimedActivate, TypeOK
    <3> QED BY <1>6, <2>2, <3>1 DEF TimedActivate, TypeOK
  <2>4. PoolInv' /\ TurnInv' /\ PhaseInv'
    BY <1>6, <2>2, FlagChange DEF TimedActivate
  <2> QED BY <2>3, <2>4
<1>7. CASE DoPollerStats
  <2>1. TypeOK'
    <3>1. /\ mpc' \in {"doEvents", "disableInterrupts"}
          /\ at' = at \/ at' = 1
      BY <1>7 DEF DoPollerStats
    <3>2. interruptsDisabled' \in BOOLEAN
      BY <1>7 DEF DoPollerStats, TypeOK
    <3> QED BY <1>7, <3>1, <3>2 DEF DoPollerStats, TypeOK
  <2>2. PoolInv' /\ TurnInv' /\ PhaseInv'
    BY <1>7, MainQuiet DEF DoPollerStats, BetweenRounds, Starting, Collecting,
                           is_polling, is_suspended
  <2> QED BY <2>1, <2>2
<1>8. CASE DisableInterrupts
  <2>1. /\ flags' \in [Nodes -> SUBSET Flags]
        /\ cpc' \in [Threads -> {"idle", "count", "interrupt", "sendInterrupt"}]
        /\ \A m \in Nodes : is_polling(m)' <=> is_polling(m)
        /\ \A m \in Nodes : is_suspended(m)' => is_suspended(m)
    <3>1. CASE UNCHANGED <<flags, cpc>>
      BY <3>1 DEF TypeOK, is_polling, is_suspended
    <3>2. CASE at \in Nodes /\ activate(Main, at)
      BY <1>a, <3>2, ActivateFlags
    <3>3. CASE at \in Nodes /\ set_flags(at, {}, {"active"}) /\ UNCHANGED cpc
      <4>1. /\ flags' \in [Nodes -> SUBSET Flags]
            /\ flags'[at] = (flags[at] \cup {}) \ {"active"}
            /\ \A m \in Nodes : m # at => flags'[m] = flags[m]
        BY <3>3, SetFlags DEF TypeOK
      <4> QED BY <3>3, <4>1 DEF TypeOK, is_polling, is_suspended
    <3>4. at > N \/ at \in Nodes
      BY NAssumption DEF TypeOK, Nodes
    <3> QED BY <1>8, <3>1, <3>2, <3>3, <3>4, InterruptNodesAssumption
            DEF DisableInterrupts
  <2>2. TypeOK'
    <3>1. mpc' \in {"doEvents", "disableInterrupts"} /\ (at' = at \/ at' = at + 1)
      BY <1>8 DEF DisableInterrupts
    <3> QED BY <1>8, <2>1, <3>1 DEF DisableInterrupts, TypeOK
  <2>3. PoolInv' /\ TurnInv' /\ PhaseInv'
    BY <1>8, <2>1, MainQuiet DEF DisableInterrupts, BetweenRounds, Starting, Collecting
  <2> QED BY <2>2, <2>3
<1> QED
  BY <1>1, <1>2, <1>3, <1>4, <1>5, <1>6, <1>7, <1>8

LEMMA CheckActiveInv == ASSUME IInv, CheckActive PROVE IInv'
<1> USE DEF IInv, CheckActive, pollerVars, poolVars, eventVars, mainVars, callVars,
            MainAt, Goto
<1>1. CASE at > N /\ at' = 1 /\ mpc' = "collect"
  <2>1. TypeOK'
    BY <1>1 DEF TypeOK
  <2>2. PoolInv' /\ TurnInv'
    BY <1>1 DEF PoolInv, TurnInv, MainHolds, is_polling, is_suspended
  <2>3. PhaseInv'
    BY <1>1 DEF PhaseInv, TypeOK, Starting, Collecting, is_polling
  <2> QED BY <2>1, <2>2, <2>3
<1>2. CASE at <= N /\ at' \in {at, at + 1} /\ mpc' \in {"start", "checkSuspended"}
  <2>1. TypeOK'
    BY <1>2 DEF TypeOK
  <2>2. PoolInv' /\ TurnInv'
    BY <1>2 DEF PoolInv, TurnInv, MainHolds, is_polling, is_suspended
  <2>3. PhaseInv'
    <3>1. mpc' = "checkSuspended" => at' \in Nodes
      BY <1>2, NAssumption DEF TypeOK, Nodes
    <3> QED BY <1>2, <3>1 DEF PhaseInv, TypeOK, Starting, Collecting, is_polling, Nodes
  <2> QED BY <2>1, <2>2, <2>3
<1> QED
  BY <1>1, <1>2

LEMMA CheckSuspendedInv == ASSUME IInv, CheckSuspended PROVE IInv'
<1> USE DEF IInv, CheckSuspended, pollerVars, eventVars, mainVars, callVars,
            MainAt, Goto
<1>a. at \in Nodes /\ {"polling"} \in SUBSET Flags
  BY DEF PhaseInv, Flags
<1>1. CASE is_suspended(at)
  <2>1. TypeOK'
    BY <1>1 DEF TypeOK, poolVars
  <2>2. PoolInv' /\ TurnInv'
    BY <1>1 DEF PoolInv, TurnInv, MainHolds, is_polling, is_suspended, poolVars
  <2>3. PhaseInv'
    BY <1>1 DEF PhaseInv, TypeOK, Starting, Collecting, is_polling, poolVars, Nodes
  <2> QED BY <2>1, <2>2, <2>3
<1>2. CASE ~is_suspended(at)
  <2>a. /\ flags' \in [Nodes -> SUBSET Flags]
        /\ flags'[at] = (flags[at] \cup {"polling"}) \ {}
        /\ \A m \in Nodes : m # at => flags'[m] = flags[m]
    BY <1>a, <1>2, SetFlags DEF TypeOK
  <2>b. \A m \in Nodes : /\ is_polling(m)' <=> (is_polling(m) \/ m = at)
                         /\ is_suspended(m)' <=> is_suspended(m)
    BY <2>a DEF is_polling, is_suspended
  <2>c. ~is_polling(at)
    BY <1>a DEF PhaseInv, Nodes
  <2>d. /\ allocActivePoller(at)
        /\ mpc = "checkSuspended" /\ mpc' = "send" /\ at' = at
        /\ UNCHANGED <<fromLoop, toLoop, ppc>>
    BY <1>2
  <2>1. /\ pool' \in Seq(Nodes)
        /\ activePollerIndex' \in [Nodes -> Nat]
        /\ PoolInv'
        /\ activePollerIndex'[at] # 0
        /\ \A m \in Nodes : activePollerIndex[m] # 0 =>
             activePollerIndex'[m] = activePollerIndex[m]
    <3>1. CASE activePollerIndex[at] = 0
      <4>1. pool' = Append(pool, at)
        BY <2>d, <3>1 DEF allocActivePoller
      <4>2. activePollerIndex' = [activePollerIndex EXCEPT ![at] = Len(pool) + 1]
        BY <2>d, <3>1 DEF allocActivePoller
      <4>3. pool' \in Seq(Nodes) /\ activePollerIndex' \in [Nodes -> Nat]
        BY <1>a, <4>1, <4>2 DEF TypeOK
      <4>4. /\ Len(pool') = Len(pool) + 1
            /\ pool'[Len(pool) + 1] = at
            /\ \A i \in 1..Len(pool) : pool'[i] = pool[i]
        BY <1>a, <4>1 DEF TypeOK
      <4>5. \A i \in 1..Len(pool) : pool[i] # at /\ pool[i] \in Nodes
        BY <3>1, SMTT(20) DEF PoolInv, TypeOK
      <4>6. PoolInv'
        <5>1. ASSUME NEW n \in Nodes, activePollerIndex'[n] # 0
              PROVE  /\ activePollerIndex'[n] \in 1..Len(pool')
                     /\ pool'[activePollerIndex'[n]] = n
          BY <1>a, <4>2, <4>4, <5>1, SMTT(20) DEF PoolInv, TypeOK
        <5>2. ASSUME NEW i \in 1..Len(pool')
              PROVE  activePollerIndex'[pool'[i]] = i
          <6>1. CASE i = Len(pool) + 1
            BY <1>a, <4>2, <4>4, <6>1 DEF TypeOK
          <6>2. CASE i \in 1..Len(pool)
            BY <1>a, <4>2, <4>4, <4>5, <6>2 DEF PoolInv, TypeOK
          <6>3. Len(pool) \in Nat
            BY DEF TypeOK, IInv
          <6>4. i \in 1..Len(pool) + 1
            BY <4>4, <5>2
          <6> QED BY <6>1, <6>2, <6>3, <6>4
        <5> QED BY <5>1, <5>2 DEF PoolInv
      <4> QED BY <1>a, <3>1, <4>2, <4>3, <4>6 DEF TypeOK
    <3>2. CASE activePollerIndex[at] # 0
      BY <2>d, <3>2 DEF allocActivePoller, poolVars, TypeOK, PoolInv
    <3> QED BY <3>1, <3>2
  <2>2. TypeOK'
    BY <1>2, <2>a, <2>1 DEF TypeOK
  <2>3. TurnInv'
    <3>1. ~is_suspended(at) /\ pool' \in Seq(Nodes)
      BY <1>2, <2>1
    <3>2. \A n \in Nodes : MainHolds(n)' <=> n = at
      BY <2>d DEF MainHolds
    <3>3. \A n \in Nodes : ~MainHolds(n)
      BY <2>d DEF MainHolds
    <3> QED BY <1>a, <2>b, <2>c, <2>d, <3>1, <3>2, <3>3 DEF TurnInv
  <2>4. PhaseInv'
    <3>1. /\ mpc' = "send" /\ at' = at /\ at \in Nodes
          /\ mpc = "checkSuspended"
      BY <1>a, <2>d
    <3>2. \A n \in Nodes : is_polling(n)' => n <= at
      BY <2>b, <3>1 DEF PhaseInv, Nodes
    <3>3. \A n \in Nodes : is_polling(n)' => activePollerIndex'[n] # 0
      BY <2>b, <2>1 DEF PhaseInv
    <3> QED BY <3>1, <3>2, <3>3 DEF PhaseInv, Starting, Collecting
  <2> QED BY <2>1, <2>2, <2>3, <2>4
<1> QED
  BY <1>1, <1>2

LEMMA StartPollerInv == ASSUME IInv, StartPoller PROVE IInv'
<1> USE DEF IInv, StartPoller, pollerVars, poolVars, eventVars, mainVars, callVars,
            MainAt, Goto
<1>a. at \in Nodes
  BY DEF PhaseInv
<1>1. TypeOK'
  BY <1>a, SMTT(20) DEF TypeOK
<1>2. PoolInv'
  BY DEF PoolInv
<1>3. TurnInv'
  BY <1>a DEF TurnInv, MainHolds, TypeOK, is_polling, is_suspended
<1>4. PhaseInv'
  BY <1>a DEF PhaseInv, TypeOK, Starting, Collecting, is_polling, Nodes
<1> QED
  BY <1>1, <1>2, <1>3, <1>4

LEMMA CollectInv == ASSUME IInv, Collect PROVE IInv'
<1> USE DEF IInv, Collect, pollerVars, poolVars, eventVars, mainVars, callVars,
            MainAt, Goto
<1>a. \A i \in 1..Len(pool) : pool[i] \in Nodes
  BY DEF TypeOK
<1>1. CASE at > Len(pool) /\ mpc' = "stats" /\ UNCHANGED <<at, toLoop>>
  <2>1. TypeOK'
    BY <1>1 DEF TypeOK
  <2>2. \A n \in Nodes : ~is_polling(n)
    BY <1>1 DEF PhaseInv, PoolInv, TypeOK, Collecting
  <2>3. PoolInv' /\ TurnInv'
    BY <1>1 DEF PoolInv, TurnInv, MainHolds, is_polling, is_suspended
  <2>4. PhaseInv'
    BY <1>1, <2>2 DEF PhaseInv, Starting, Collecting, is_polling
  <2> QED BY <2>1, <2>3, <2>4
<1>2. CASE /\ at <= Len(pool)
           /\ ~is_polling(pool[at])
           /\ at' = at + 1
           /\ UNCHANGED <<mpc, toLoop>>
  <2>1. TypeOK'
    BY <1>2, SMTT(20) DEF TypeOK
  <2>2. \A n \in Nodes : is_polling(n) => activePollerIndex[n] # at
    BY <1>2 DEF PoolInv, PhaseInv, TypeOK
  <2>3. PoolInv' /\ TurnInv'
    BY <1>2 DEF PoolInv, TurnInv, MainHolds, is_polling, is_suspended
  <2>4. PhaseInv'
    BY <1>2, <2>2 DEF PhaseInv, TypeOK, Starting, Collecting, is_polling
  <2> QED BY <2>1, <2>3, <2>4
<1>3. CASE /\ at <= Len(pool)
           /\ is_polling(pool[at])
           /\ pool[at] \in toLoop
           /\ toLoop' = toLoop \ {pool[at]}
           /\ mpc' = "done"
           /\ UNCHANGED at
  <2>1. TypeOK'
    BY <1>3 DEF TypeOK
  <2>2. at \in 1..Len(pool) /\ pool[at] \in Nodes
    BY <1>a, <1>3 DEF TypeOK
  <2>3. PoolInv'
    BY DEF PoolInv
  <2>4. TurnInv'
    BY <1>3, <2>2 DEF TurnInv, MainHolds, is_polling, is_suspended
  <2>5. PhaseInv'
    BY <1>3, <2>2 DEF PhaseInv, TypeOK, Starting, Collecting, is_polling
  <2> QED BY <2>1, <2>3, <2>4, <2>5
<1> QED
  BY <1>1, <1>2, <1>3

LEMMA PollerDoneInv == ASSUME IInv, PollerDone PROVE IInv'
<1> USE DEF IInv, PollerDone, pollerVars, poolVars, eventVars, mainVars, callVars,
            MainAt, Goto
<1>a. at \in 1..Len(pool) /\ pool[at] \in Nodes /\ {} \in SUBSET Flags
  BY DEF PhaseInv, TypeOK, Flags
<1>b. /\ flags' \in [Nodes -> SUBSET Flags]
      /\ flags'[pool[at]] = (flags[pool[at]] \cup {}) \ {"polling"}
      /\ \A m \in Nodes : m # pool[at] => flags'[m] = flags[m]
  BY <1>a, SetFlags DEF TypeOK
<1>c. \A m \in Nodes : /\ is_polling(m)' <=> (is_polling(m) /\ m # pool[at])
                       /\ is_suspended(m)' <=> is_suspended(m)
  BY <1>b DEF is_polling, is_suspended
<1>1. TypeOK'
  BY <1>b, SMTT(20) DEF TypeOK
<1>2. PoolInv'
  BY DEF PoolInv
<1>3. TurnInv'
  BY <1>a, <1>c DEF TurnInv, MainHolds
<1>4. PhaseInv'
  <2>1. \A n \in Nodes : is_polling(n)' => is_polling(n) /\ activePollerIndex[n] # at
    BY <1>a, <1>c DEF PoolInv, PhaseInv
  <2> QED BY <2>1 DEF PhaseInv, TypeOK, Starting, Collecting
<1> QED
  BY <1>1, <1>2, <1>3, <1>4

-----------------------------------------------------------------------------
(* The theorems *)

LEMMA NextInv == ASSUME IInv, [Next]_vars PROVE IInv'
<1>1. CASE MainStep
  BY <1>1, MainEventsInv, CheckActiveInv, CheckSuspendedInv, StartPollerInv,
     CollectInv, PollerDoneInv DEF MainStep
<1>2. CASE \E n \in Nodes : PollerStep(n)
  BY <1>2, PollerStepInv
<1>3. CASE \E t \in Threads : Call(t) \/ CallStep(t)
  BY <1>3, CallInv, CallStepInv
<1>4. CASE UNCHANGED vars
  <2>1. TypeOK'
    BY <1>4 DEF IInv, TypeOK, vars, pollerVars, poolVars, eventVars, mainVars, callVars
  <2>2. PoolInv' /\ TurnInv' /\ PhaseInv'
    BY <1>4, FlagChange DEF IInv, vars, pollerVars, poolVars, mainVars,
                            is_polling, is_suspended
  <2> QED BY <2>1, <2>2 DEF IInv
<1> QED
  BY <1>1, <1>2, <1>3, <1>4 DEF Next

\* The inductive invariant: who holds the turn of a poller, in every state.
THEOREM Invariance == Spec => []IInv
<1>1. Init => IInv
  BY InitInv
<1>2. IInv /\ [Next]_vars => IInv'
  BY NextInv
<1> QED
  BY <1>1, <1>2, PTL DEF Spec

\* Every variable keeps its type, for any number of pollers and callers.
THEOREM TypeCorrect == Spec => []TypeOK
<1>1. IInv => TypeOK
  BY DEF IInv
<1> QED
  BY <1>1, Invariance, PTL

\* While main handles events no poller executes LoopInput (doEvents/doPollers).
THEOREM EventsExcludePollingCorrect == Spec => []EventsExcludePolling
<1>1. IInv => EventsExcludePolling
  BY DEF IInv, TypeOK, TurnInv, PhaseInv, EventsExcludePolling, Running, Starting,
         Collecting
<1> QED
  BY <1>1, Invariance, PTL

\* AddEvent called from a poller always sees node_polling (event.go:91).
THEOREM NeverBlockWhenPollingCorrect == Spec => []NeverBlockWhenPolling
<1>1. IInv => NeverBlockWhenPolling
  BY DEF IInv, TurnInv, NeverBlockWhenPolling
<1> QED
  BY <1>1, Invariance, PTL

\* The channels fromLoop and toLoop always have room for their sender.
THEOREM HandoverHasRoomCorrect == Spec => []HandoverHasRoom
<1>1. IInv => HandoverHasRoom
  BY DEF IInv, TurnInv, PhaseInv, MainHolds, HandoverHasRoom
<1> QED
  BY <1>1, Invariance, PTL

\* A poller that waits in Suspend is continued only after a Resume.
THEOREM SuspendHonouredCorrect == Spec => []SuspendHonoured
<1>1. IInv => SuspendHonoured
  BY DEF IInv, TurnInv, SuspendHonoured, Running
<1> QED
  BY <1>1, Invariance, PTL

-----------------------------------------------------------------------------
(* The refinement: doPollers implements PollTurns *)

\* A step that moves no poller between the stages
LEMMA StageSame ==
  ASSUME \A n \in Nodes : is_polling(n)' <=> is_polling(n),
         \A n \in Nodes : Running(n)' <=> Running(n),
         \A n \in Nodes : ~Running(n) => /\ is_suspended(n)' <=> is_suspended(n)
                                         /\ ppc'[n] = "parked" <=> ppc[n] = "parked"
  PROVE  started' = started /\ stage' = stage
<1>1. started' = started
  BY DEF started
<1>2. ASSUME NEW n \in Nodes
      PROVE  (IF Running(n) THEN "running"
              ELSE IF ppc[n] = "parked" THEN "idle"
              ELSE IF is_suspended(n) THEN "held" ELSE "ready")' =
             (IF Running(n) THEN "running"
              ELSE IF ppc[n] = "parked" THEN "idle"
              ELSE IF is_suspended(n) THEN "held" ELSE "ready")
  <2>1. /\ Running(n)' <=> Running(n)
        /\ ~Running(n) => /\ is_suspended(n)' <=> is_suspended(n)
                          /\ ppc'[n] = "parked" <=> ppc[n] = "parked"
    BY <1>2
  <2>2. CASE Running(n)
    BY <2>1, <2>2
  <2>3. CASE ~Running(n)
    BY <2>1, <2>3
  <2> QED BY <2>2, <2>3
<1>3. stage' = stage
  BY <1>2 DEF stage
<1> QED
  BY <1>1, <1>3

LEMMA CallTurns ==
  ASSUME IInv, NEW t \in Threads, Call(t) \/ CallStep(t)
  PROVE  [Turns!Next]_Turns!vars
<1> USE DEF IInv, pollerVars, poolVars, eventVars, mainVars, callVars
<1>a. {"resumed"} \in SUBSET Flags /\ {} \in SUBSET Flags
  BY DEF Flags
<1>b. /\ phase' = phase
      /\ UNCHANGED <<mpc, at, ppc, fromLoop>>
      /\ \A n \in Nodes : Running(n)' <=> Running(n)
  BY DEF phase, Running, Starting, Collecting, Call, CallStep, Activate, Deactivate,
         ActivateAfterTime, Resume, AddEvent, CountActive, InterruptCheck, InterruptSend
<1>1. CASE UNCHANGED flags
  BY <1>1, <1>b, StageSame DEF Turns!vars, is_polling, is_suspended
<1>2. ASSUME NEW n \in Nodes, Activate(t, n)
      PROVE  [Turns!Next]_Turns!vars
  BY <1>b, <1>2, ActivateFlags, StageSame DEF Activate, Turns!vars
<1>3. ASSUME NEW n \in Nodes, Deactivate(t, n) \/ ActivateAfterTime(t, n)
      PROVE  [Turns!Next]_Turns!vars
  <2>1. /\ flags'[n] = (flags[n] \cup {}) \ {"active"}
        /\ \A m \in Nodes : m # n => flags'[m] = flags[m]
    BY <1>a, <1>3, SetFlags DEF Deactivate, ActivateAfterTime, TypeOK
  <2> QED BY <1>b, <2>1, StageSame DEF Turns!vars, is_polling, is_suspended
<1>4. ASSUME NEW n \in Nodes, Resume(t, n)
      PROVE  [Turns!Next]_Turns!vars
  <2>1. /\ flags' \in [Nodes -> SUBSET Flags]
        /\ flags'[n] = (flags[n] \cup {"resumed"}) \ {"suspended"}
        /\ \A m \in Nodes : m # n => flags'[m] = flags[m]
    BY <1>a, <1>4, SetFlags DEF Resume, TypeOK
  <2>2. /\ \A m \in Nodes : is_polling(m)' <=> is_polling(m)
        /\ \A m \in Nodes : m # n => (is_suspended(m)' <=> is_suspended(m))
        /\ ~is_suspended(n)'
    BY <2>1 DEF is_polling, is_suspended
  <2>3. CASE stage[n] = "held"
    <3>1. ~Running(n) /\ ppc[n] # "parked"
      BY <2>3 DEF stage
    <3>2. stage' = [stage EXCEPT ![n] = "ready"] /\ started' = started
      BY <1>b, <2>2, <3>1 DEF stage, started
    <3> QED BY <1>b, <2>3, <3>2 DEF Turns!Next, Turns!Resume
  <2>4. CASE stage[n] # "held"
    <3>1. stage' = stage /\ started' = started
      BY <1>b, <2>2, <2>4 DEF stage, started
    <3> QED BY <1>b, <3>1 DEF Turns!vars
  <2> QED BY <2>3, <2>4
<1> QED
  BY <1>1, <1>2, <1>3, <1>4 DEF Call, CallStep, AddEvent, CountActive, InterruptCheck,
                                InterruptSend

LEMMA PollerTurns ==
  ASSUME IInv, IInv', NEW n \in Nodes, PollerStep(n)
  PROVE  [Turns!Next]_Turns!vars
<1> USE DEF IInv, pollerVars, poolVars, eventVars, mainVars, callVars
<1>a. phase' = phase /\ UNCHANGED <<mpc, at>>
  BY DEF phase, Starting, Collecting, PollerStep, PollerStart, PollerFinish,
         Suspend, SuspendSend, SuspendReceive, SuspendReturn
<1>b. {"suspended"} \in SUBSET Flags /\ {} \in SUBSET Flags
  BY DEF Flags
<1>1. CASE PollerStart(n) \/ SuspendReceive(n)
  <2>1. /\ n \in fromLoop /\ fromLoop' = fromLoop \ {n}
        /\ UNCHANGED flags
        /\ \E pc \in {"input", "woken"} : ppc' = [ppc EXCEPT ![n] = pc]
    BY <1>1 DEF PollerStart, SuspendReceive
  <2>2. \A m \in Nodes : /\ Running(m)' <=> Running(m)
                         /\ m # n => ppc'[m] = ppc[m]
    BY <1>a, <2>1 DEF Running, TypeOK
  <2>3. Running(n)
    BY <2>1 DEF Running
  <2> QED BY <1>a, <2>1, <2>2, <2>3, StageSame DEF Turns!vars, is_polling, is_suspended
<1>2. CASE Suspend(n) \/ SuspendReturn(n)
  <2>1. /\ UNCHANGED fromLoop
        /\ ppc[n] \in {"input", "woken"}
        /\ \E pc \in {"input", "suspending", "woken"} : ppc' = [ppc EXCEPT ![n] = pc]
        /\ \/ UNCHANGED flags
           \/ set_flags(n, {"suspended"}, {"resumed"})
           \/ set_flags(n, {}, {"resumed", "suspended"})
    BY <1>2 DEF Suspend, SuspendReturn
  <2>2. \A m \in Nodes : /\ is_polling(m)' <=> is_polling(m)
                         /\ m # n => (is_suspended(m)' <=> is_suspended(m))
    <3>1. CASE UNCHANGED flags
      BY <3>1 DEF is_polling, is_suspended
    <3>2. CASE set_flags(n, {"suspended"}, {"resumed"})
      <4>1. /\ flags' \in [Nodes -> SUBSET Flags]
            /\ flags'[n] = (flags[n] \cup {"suspended"}) \ {"resumed"}
            /\ \A m \in Nodes : m # n => flags'[m] = flags[m]
        BY <1>b, <3>2, SetFlags DEF TypeOK
      <4> QED BY <4>1 DEF is_polling, is_suspended
    <3>3. CASE set_flags(n, {}, {"resumed", "suspended"})
      <4>1. /\ flags' \in [Nodes -> SUBSET Flags]
            /\ flags'[n] = (flags[n] \cup {}) \ {"resumed", "suspended"}
            /\ \A m \in Nodes : m # n => flags'[m] = flags[m]
        BY <1>b, <3>3, SetFlags DEF TypeOK
      <4> QED BY <4>1 DEF is_polling, is_suspended
    <3> QED BY <2>1, <3>1, <3>2, <3>3
  <2>3. \A m \in Nodes : /\ Running(m)' <=> Running(m)
                         /\ m # n => ppc'[m] = ppc[m]
    BY <1>a, <2>1 DEF Running, TypeOK
  <2>4. Running(n)
    BY <2>1 DEF Running
  <2> QED BY <1>a, <2>2, <2>3, <2>4, StageSame DEF Turns!vars
<1>3. CASE PollerFinish(n) \/ SuspendSend(n)
  <2>1. /\ ppc[n] \in {"input", "suspending"}
        /\ UNCHANGED <<flags, fromLoop>>
        /\ \E pc \in {"parked", "suspended"} : ppc' = [ppc EXCEPT ![n] = pc]
    BY <1>3 DEF PollerFinish, SuspendSend
  <2>2. is_polling(n) /\ n \notin fromLoop /\ ~(mpc = "send" /\ at = n)
    BY <2>1 DEF TurnInv, MainHolds
  <2>3. Running(n) /\ ~Running(n)'
    BY <1>a, <2>1, <2>2 DEF Running, TypeOK
  <2>4. \A m \in Nodes : m # n => Running(m)' = Running(m) /\ ppc'[m] = ppc[m]
    BY <1>a, <2>1 DEF Running, TypeOK
  <2>5. started' = started /\ n \in started
    BY <2>1, <2>2 DEF started, is_polling
  <2>6. stage[n] = "running"
    BY <2>3 DEF stage
  <2>7. stage' = [stage EXCEPT ![n] = stage'[n]] /\ stage'[n] \in {"idle", "held", "ready"}
    BY <2>1, <2>3, <2>4 DEF stage, is_suspended
  <2> QED BY <1>a, <2>5, <2>6, <2>7 DEF Turns!Next, Turns!Yield
<1> QED
  BY <1>1, <1>2, <1>3 DEF PollerStep

LEMMA MainTurns ==
  ASSUME IInv, IInv', MainStep
  PROVE  [Turns!Next]_Turns!vars
<1> USE DEF IInv, pollerVars, poolVars, eventVars, mainVars, callVars, MainAt, Goto
<1>a. Main \in Threads
  BY DEF Threads
<1>1. ASSUME UNCHANGED <<flags, fromLoop, ppc>>,
             mpc # "send" \/ UNCHANGED fromLoop, mpc # "send", mpc' # "send"
      PROVE  started' = started /\ stage' = stage
  BY <1>1, StageSame DEF Running, is_polling, is_suspended
<1>2. CASE \/ DoEvents \/ DoEventNoWait \/ DoEventWait \/ SetWaiting \/ Select
           \/ ActionDone \/ Advance \/ TimedDone \/ DoPollerStats
  <2>1. /\ UNCHANGED <<flags, fromLoop, ppc>>
        /\ phase = "events"
        /\ mpc # "send" /\ mpc' # "send"
        /\ phase' \in {"events", "starting"}
    <3>1. ASSUME NEW pc \in {"waitAction", "eventAction"}, events # <<>>,
                 Received(Head(events), pc)
          PROVE  mpc' \in {"exit", "start", pc}
      <4>1. Head(events) \in EventKinds
        BY <3>1 DEF TypeOK
      <4> QED BY <3>1, <4>1 DEF EventKinds, Received
    <3>2. CASE DoEventNoWait \/ Select
      <4>1. /\ mpc \in {"doEventNoWait", "select"}
            /\ UNCHANGED <<flags, fromLoop, ppc>>
            /\ \/ mpc' = "advance"
               \/ /\ events # <<>>
                  /\ \E pc \in {"waitAction", "eventAction"} : Received(Head(events), pc)
        BY <3>2 DEF DoEventNoWait, Select
      <4>2. mpc' \in {"advance", "exit", "start", "waitAction", "eventAction"}
        BY <3>1, <4>1
      <4> QED BY <4>1, <4>2 DEF phase, Starting, Collecting
    <3>3. CASE \/ DoEvents \/ DoEventWait \/ SetWaiting \/ ActionDone \/ Advance
               \/ TimedDone \/ DoPollerStats
      BY <3>3 DEF DoEvents, DoEventWait, SetWaiting, ActionDone, Advance, TimedDone,
                  DoPollerStats, phase, Starting, Collecting
    <3> QED BY <1>2, <3>2, <3>3
  <2> QED BY <1>1, <2>1 DEF Turns!Next, Turns!BeginRound, Turns!vars
<1>3. ASSUME NEW n \in Nodes, TimedActivate(n)
      PROVE  [Turns!Next]_Turns!vars
  <2>1. activate(Main, n) /\ UNCHANGED <<mpc, at, ppc, fromLoop>>
    BY <1>3 DEF TimedActivate
  <2>2. \A m \in Nodes : Running(m)' <=> Running(m)
    BY <2>1 DEF Running
  <2>3. phase' = phase
    BY <2>1 DEF phase, Starting, Collecting
  <2> QED BY <1>a, <2>1, <2>2, <2>3, ActivateFlags, StageSame DEF Turns!vars
<1>4. CASE CheckActive
  <2>1. /\ UNCHANGED <<flags, fromLoop, ppc>>
        /\ phase = "starting"
        /\ mpc # "send" /\ mpc' # "send"
        /\ phase' \in {"starting", "collecting"}
    BY <1>4 DEF CheckActive, phase, Starting, Collecting
  <2> QED BY <1>1, <2>1 DEF Turns!Next, Turns!AllStarted, Turns!vars
<1>5. CASE CheckSuspended /\ is_suspended(at)
  <2>1. /\ UNCHANGED <<flags, fromLoop, ppc>>
        /\ mpc # "send" /\ mpc' # "send"
        /\ phase' = phase
    BY <1>5 DEF CheckSuspended, phase, Starting, Collecting
  <2> QED BY <1>1, <2>1 DEF Turns!vars
<1>6. CASE CheckSuspended /\ ~is_suspended(at)
  <2>1. /\ at \in Nodes /\ {"polling"} \in SUBSET Flags
        /\ mpc = "checkSuspended" /\ mpc' = "send" /\ at' = at
        /\ UNCHANGED <<fromLoop, ppc>>
    BY <1>6 DEF CheckSuspended, PhaseInv, Flags
  <2>2. /\ flags' \in [Nodes -> SUBSET Flags]
        /\ flags'[at] = (flags[at] \cup {"polling"}) \ {}
        /\ \A m \in Nodes : m # at => flags'[m] = flags[m]
    BY <1>6, <2>1, SetFlags DEF CheckSuspended, TypeOK
  <2>3. ~is_polling(at)
    BY <2>1 DEF PhaseInv, Nodes
  <2>4. ~Running(at) /\ ppc[at] \in {"parked", "suspended"}
    BY <2>1, <2>3 DEF Running, TurnInv, TypeOK
  <2>5. phase = "starting" /\ phase' = phase
    BY <2>1 DEF phase, Starting, Collecting
  <2>6. at \notin started /\ started' = started \cup {at}
    BY <2>1, <2>2, <2>3 DEF started, is_polling
  <2>7. stage[at] \in {"idle", "ready"}
    BY <1>6, <2>1, <2>4 DEF stage
  <2>8. \A m \in Nodes : /\ Running(m)' <=> (Running(m) \/ m = at)
                         /\ m # at => (is_suspended(m)' <=> is_suspended(m))
    BY <2>1, <2>2 DEF Running, is_suspended
  <2>9. stage' = [stage EXCEPT ![at] = "running"]
    BY <2>1, <2>8 DEF stage
  <2> QED BY <2>1, <2>5, <2>6, <2>7, <2>9 DEF Turns!Next, Turns!Start
<1>7. CASE StartPoller
  <2>1. /\ at \in Nodes /\ mpc = "send" /\ mpc' = "start"
        /\ fromLoop' = fromLoop \cup {at}
        /\ UNCHANGED <<flags, ppc>>
    BY <1>7 DEF StartPoller, PhaseInv
  <2>2. \A m \in Nodes : Running(m)' <=> Running(m)
    BY <2>1 DEF Running
  <2>3. phase' = phase
    BY <2>1 DEF phase, Starting
  <2> QED BY <2>1, <2>2, <2>3, StageSame DEF Turns!vars, is_polling, is_suspended
<1>8. CASE Collect
  <2>1. /\ UNCHANGED <<flags, fromLoop, ppc>>
        /\ phase = "collecting"
        /\ mpc # "send" /\ mpc' # "send"
        /\ \/ phase' = "collecting"
           \/ phase' = "events" /\ mpc' = "stats"
    BY <1>8 DEF Collect, phase, Starting, Collecting
  <2>2. mpc' = "stats" => started' = {}
    <3>1. mpc' = "stats" => \A n \in Nodes : ~is_polling(n)'
      BY DEF PhaseInv, Starting, Collecting
    <3> QED BY <3>1 DEF started
  <2> QED BY <1>1, <2>1, <2>2 DEF Turns!Next, Turns!EndRound, Turns!vars
<1>9. CASE PollerDone
  <2>1. /\ mpc = "done" /\ mpc' = "collect"
        /\ pool[at] \in Nodes /\ {} \in SUBSET Flags
        /\ UNCHANGED <<fromLoop, ppc>>
    BY <1>9 DEF PollerDone, PhaseInv, TypeOK, Flags
  <2>2. /\ flags' \in [Nodes -> SUBSET Flags]
        /\ flags'[pool[at]] = (flags[pool[at]] \cup {}) \ {"polling"}
        /\ \A m \in Nodes : m # pool[at] => flags'[m] = flags[m]
    BY <1>9, <2>1, SetFlags DEF PollerDone, TypeOK
  <2>3. \A m \in Nodes : /\ is_polling(m)' <=> (is_polling(m) /\ m # pool[at])
                         /\ is_suspended(m)' <=> is_suspended(m)
    BY <2>2 DEF is_polling, is_suspended
  <2>4. \A m \in Nodes : Running(m)' <=> Running(m)
    BY <2>1 DEF Running
  <2>5. stage' = stage
    BY <2>1, <2>3, <2>4 DEF stage
  <2>6. is_polling(pool[at]) /\ ~Running(pool[at])
    BY <2>1 DEF TurnInv, MainHolds, Running
  <2>7. pool[at] \in started /\ started' = started \ {pool[at]}
    BY <2>1, <2>3, <2>6 DEF started
  <2>8. stage[pool[at]] # "running"
    BY <2>1, <2>6 DEF stage
  <2>9. phase = "collecting" /\ phase' = phase
    BY <2>1 DEF phase, Starting, Collecting
  <2> QED BY <2>1, <2>5, <2>7, <2>8, <2>9 DEF Turns!Next, Turns!Collect
<1>10. CASE DisableInterrupts
  <2>1. /\ mpc = "disableInterrupts" /\ mpc' \in {"doEvents", "disableInterrupts"}
        /\ UNCHANGED <<fromLoop, ppc>>
    BY <1>10 DEF DisableInterrupts
  <2>2. /\ \A m \in Nodes : is_polling(m)' <=> is_polling(m)
        /\ \A m \in Nodes : is_suspended(m)' <=> is_suspended(m)
    <3>1. CASE UNCHANGED flags
      BY <3>1 DEF is_polling, is_suspended
    <3>2. CASE at \in Nodes /\ activate(Main, at)
      BY <1>a, <3>2, ActivateFlags
    <3>3. CASE at \in Nodes /\ set_flags(at, {}, {"active"})
      <4>1. /\ flags' \in [Nodes -> SUBSET Flags]
            /\ flags'[at] = (flags[at] \cup {}) \ {"active"}
            /\ \A m \in Nodes : m # at => flags'[m] = flags[m]
        BY <3>3, SetFlags DEF TypeOK
      <4> QED BY <3>3, <4>1 DEF is_polling, is_suspended
    <3>4. at > N \/ at \in Nodes
      BY NAssumption DEF TypeOK, Nodes
    <3> QED BY <1>10, <3>1, <3>2, <3>3, <3>4 DEF DisableInterrupts
  <2>3. \A m \in Nodes : Running(m)' <=> Running(m)
    BY <2>1 DEF Running
  <2>4. phase' = phase
    BY <2>1 DEF phase, Starting, Collecting
  <2> QED BY <2>1, <2>2, <2>3, <2>4, StageSame DEF Turns!vars
<1> QED
  BY <1>2, <1>3, <1>4, <1>5, <1>6, <1>7, <1>8, <1>9, <1>10 DEF MainStep

\* doPollers and the poller goroutines implement turn taking: a round starts
\* each poller at most once, ends only when every started one has yielded, and
\* a poller held in Suspend runs again only after a Resume.
THEOREM Refinement == Spec => TurnsSpec
<1>1. Init => Turns!Init
  BY DEF Init, Turns!Init, phase, started, stage, Starting, Collecting, Running,
         is_polling
<1>2. IInv /\ IInv' /\ [Next]_vars => [Turns!Next]_Turns!vars
  <2> SUFFICES ASSUME IInv, IInv', [Next]_vars PROVE [Turns!Next]_Turns!vars
    OBVIOUS
  <2>1. CASE MainStep
    BY <2>1, MainTurns
  <2>2. CASE \E n \in Nodes : PollerStep(n)
    BY <2>2, PollerTurns
  <2>3. CASE \E t \in Threads : Call(t) \/ CallStep(t)
    BY <2>3, CallTurns
  <2>4. CASE UNCHANGED vars
    BY <2>4 DEF vars, pollerVars, mainVars, Turns!vars, phase, started, stage, Starting,
                Collecting, Running, is_polling, is_suspended
  <2> QED BY <2>1, <2>2, <2>3, <2>4 DEF Next
<1> QED
  BY <1>1, <1>2, Invariance, PTL DEF Spec, TurnsSpec, Turns!Spec

=============================================================================
