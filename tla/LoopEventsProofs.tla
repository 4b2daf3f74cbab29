-------------------------- MODULE LoopEventsProofs --------------------------
(***************************************************************************)
(* Theorems about LoopEvents, for any number of handlers, objects and      *)
(* queue lengths: a loopEvent has one owner at a time, main never waits    *)
(* for a handler that has nothing to report, and without timed and         *)
(* diverted events the pollers run only while every handler is parked.     *)
(***************************************************************************)
EXTENDS LoopEvents, FiniteSetTheorems, TLAPS

-----------------------------------------------------------------------------
(* The inductive invariants *)

Places == ({"events", "timed", "due", "mcur", "madd", "free"} \X {0})
          \cup ({"rx", "current", "adding"} \X Handlers)

Distinct(s) == \A i, j \in DOMAIN s : s[i] = s[j] => i = j

\* own says where every object is: what is found at a place belongs there
EventsAt(own) == \A i \in DOMAIN events : own[events[i]] = <<"events", 0>>
RxAt(own) == \A h \in Handlers : \A i \in DOMAIN rx[h] : own[rx[h][i]] = <<"rx", h>>
CurrentAt(own) == \A h \in Handlers : hcur[h] # Nil => own[hcur[h]] = <<"current", h>>
AddingAt(own) == \A h \in Handlers : hadd[h] # Nil => own[hadd[h]] = <<"adding", h>>
TimedAt(own) == \A e \in timed : own[e] = <<"timed", 0>>
DueAt(own) == \A e \in due : own[e] = <<"due", 0>>
McurAt(own) == (mcur # Nil /\ mpc # "setActive") => own[mcur] = <<"mcur", 0>>
MaddAt(own) == madd # Nil => own[madd] = <<"madd", 0>>
FreeAt(own) == \A e \in Objs : (e \in recycled \/ e > nAlloc) => own[e] = <<"free", 0>>

Placed(own) ==
  /\ EventsAt(own) /\ RxAt(own) /\ CurrentAt(own) /\ AddingAt(own) /\ TimedAt(own)
  /\ DueAt(own) /\ McurAt(own) /\ MaddAt(own) /\ FreeAt(own)

\* A goroutine at work on an event has one
InHand ==
  /\ mpc \in {"deliver", "setActive", "action", "adding"} => mcur # Nil
  /\ mpc = "deliver" => dst[mcur] # Nil
  /\ mpc = "setActive" => mcur <= nAlloc
  /\ mpc = "adding" => madd # Nil
  /\ mpc = "clear" => at <= H
  /\ \A h \in Handlers : /\ hpc[h] \in {"running", "adding"} => hcur[h] # Nil
                         /\ hpc[h] \in {"adding", "quitting"} => hadd[h] # Nil

QueuesDistinct == Distinct(events) /\ \A h \in Handlers : Distinct(rx[h])

\* Only allocated objects are recycled
RecycledOld == \A e \in recycled : e <= nAlloc

OwnerInv ==
  /\ TypeOK /\ InHand /\ RecycledOld /\ QueuesDistinct
  /\ \E own \in [Objs -> Places] : Placed(own)

-----------------------------------------------------------------------------
(* Sequences *)

LEMMA AppendFacts ==
  ASSUME NEW S, NEW s \in Seq(S), NEW e \in S
  PROVE  /\ Append(s, e) \in Seq(S) /\ Len(Append(s, e)) = Len(s) + 1
         /\ \A i \in DOMAIN Append(s, e) :
              (i \in DOMAIN s /\ Append(s, e)[i] = s[i]) \/ (i = Len(s) + 1 /\ Append(s, e)[i] = e)
OBVIOUS

LEMMA AppendDistinct ==
  ASSUME NEW S, NEW s \in Seq(S), NEW e \in S, Distinct(s), \A i \in DOMAIN s : s[i] # e
  PROVE  Distinct(Append(s, e))
BY DEF Distinct

LEMMA TailFacts ==
  ASSUME NEW S, NEW s \in Seq(S), s # <<>>
  PROVE  /\ Head(s) \in S /\ Head(s) = s[1] /\ 1 \in DOMAIN s
         /\ Tail(s) \in Seq(S) /\ Len(Tail(s)) = Len(s) - 1
         /\ \A i \in DOMAIN Tail(s) : i + 1 \in DOMAIN s /\ Tail(s)[i] = s[i + 1] /\ i + 1 # 1
OBVIOUS

LEMMA TailDistinct ==
  ASSUME NEW S, NEW s \in Seq(S), s # <<>>, Distinct(s)
  PROVE  Distinct(Tail(s)) /\ \A i \in DOMAIN Tail(s) : Tail(s)[i] # Head(s)
<1>1. \A i \in DOMAIN Tail(s) : i + 1 \in DOMAIN s /\ Tail(s)[i] = s[i + 1] /\ i + 1 # 1
  BY TailFacts
<1>2. Head(s) = s[1] /\ 1 \in DOMAIN s
  BY TailFacts
<1>3. DOMAIN Tail(s) \subseteq Int
  OBVIOUS
<1> QED
  BY <1>1, <1>2, <1>3 DEF Distinct

-----------------------------------------------------------------------------
(* Moves of an object *)

\* OwnerInv in parts, so that a step has to say of each only what it changes
ObjType ==
  /\ nAlloc \in 0..MaxEvents /\ recycled \subseteq Objs
  /\ dst \in [Objs -> Dsts] /\ kind \in [Objs -> Kinds]

QueueType ==
  /\ events \in Seq(Objs) /\ Len(events) <= EventsCap
  /\ timed \subseteq Objs /\ due \subseteq Objs
  /\ rx \in [Handlers -> Seq(Objs)]
  /\ active \subseteq Handlers /\ toLoop \subseteq Handlers /\ polled \in BOOLEAN

HandType ==
  /\ hpc \in [Handlers -> {"idle", "running", "adding", "quitting", "signal"}]
  /\ hcur \in [Handlers -> Objs \cup {Nil}]
  /\ hadd \in [Handlers -> Objs \cup {Nil}]

MainType ==
  /\ mpc \in {"doEvents", "select", "deliver", "setActive", "action", "adding",
              "advance", "timed", "wait", "clear", "poll", "exit", "panic"}
  /\ mcur \in Objs \cup {Nil} /\ madd \in Objs \cup {Nil}
  /\ ctx \in {"noWait", "wait", "timed"} /\ deadline \in BOOLEAN
  /\ at \in 1..H+1

MainHas ==
  /\ mpc \in {"deliver", "setActive", "action", "adding"} => mcur # Nil
  /\ mpc = "deliver" => dst[mcur] # Nil
  /\ mpc = "setActive" => mcur <= nAlloc
  /\ mpc = "adding" => madd # Nil
  /\ mpc = "clear" => at <= H

HandsHave ==
  \A h \in Handlers : /\ hpc[h] \in {"running", "adding"} => hcur[h] # Nil
                      /\ hpc[h] \in {"adding", "quitting"} => hadd[h] # Nil

LEMMA OwnerParts ==
  OwnerInv <=> /\ ObjType /\ QueueType /\ HandType /\ MainType
               /\ MainHas /\ HandsHave /\ RecycledOld /\ QueuesDistinct
               /\ \E own \in [Objs -> Places] : Placed(own)
BY DEF OwnerInv, TypeOK, InHand, ObjType, QueueType, HandType, MainType, MainHas, HandsHave

LEMMA OwnerNext ==
  ASSUME ObjType', QueueType', HandType', MainType',
         MainHas', HandsHave', RecycledOld', QueuesDistinct',
         NEW own \in [Objs -> Places], Placed(own)'
  PROVE  OwnerInv'
BY DEF OwnerInv, TypeOK, InHand, ObjType, QueueType, HandType, MainType, MainHas, HandsHave

LEMMA ObjFacts ==
  /\ Nil \notin Objs /\ Objs \subseteq Nat /\ MaxEvents \in Nat
  /\ ObjType => nAlloc \in Nat
BY SizeAssumption DEF Objs, Nil, ObjType

LEMMA PlaceNames ==
  /\ <<"events", 0>> \in Places /\ <<"timed", 0>> \in Places /\ <<"due", 0>> \in Places
  /\ <<"mcur", 0>> \in Places /\ <<"madd", 0>> \in Places /\ <<"free", 0>> \in Places
  /\ \A h \in Handlers : <<"rx", h>> \in Places /\ <<"current", h>> \in Places /\ <<"adding", h>> \in Places
BY DEF Places

\* o is own but for e, which is at q
Moved(o, own, e, q) == o[e] = q /\ \A x \in Objs \ {e} : o[x] = own[x]

LEMMA Relocate ==
  ASSUME NEW own \in [Objs -> Places], NEW e \in Objs, NEW q \in Places
  PROVE  \E o \in [Objs -> Places] : Moved(o, own, e, q)
<1>1. [own EXCEPT ![e] = q] \in [Objs -> Places]
  OBVIOUS
<1> QED
  BY <1>1 DEF Moved

\* An object is at no other place than the one it is at
LEMMA Apart ==
  ASSUME ObjType, NEW own \in [Objs -> Places], Placed(own), NEW e \in Objs
  PROVE  /\ own[e] # <<"events", 0>> => \A i \in DOMAIN events : events[i] # e
         /\ \A h \in Handlers :
              /\ own[e] # <<"rx", h>> => \A i \in DOMAIN rx[h] : rx[h][i] # e
              /\ own[e] # <<"current", h>> => hcur[h] # e
              /\ own[e] # <<"adding", h>> => hadd[h] # e
         /\ own[e] # <<"timed", 0>> => e \notin timed
         /\ own[e] # <<"due", 0>> => e \notin due
         /\ own[e] # <<"mcur", 0>> => mcur # e \/ mpc = "setActive"
         /\ own[e] # <<"madd", 0>> => madd # e
         /\ own[e] # <<"free", 0>> => e \notin recycled /\ e <= nAlloc
<1>1. e # Nil /\ nAlloc \in Int /\ e \in Int
  BY ObjFacts
<1> QED
  BY <1>1 DEF Placed, EventsAt, RxAt, CurrentAt, AddingAt, TimedAt, DueAt, McurAt, MaddAt, FreeAt

\* What is at a place that the step leaves alone, and that e was not at, stays there
LEMMA Stay ==
  ASSUME ObjType, QueueType, HandType, MainType,
         NEW own \in [Objs -> Places], Placed(own),
         NEW e \in Objs, NEW o \in [Objs -> Places], NEW q, Moved(o, own, e, q)
  PROVE  /\ (events' = events /\ own[e] # <<"events", 0>>) => EventsAt(o)'
         /\ (rx' = rx /\ \A h \in Handlers : own[e] # <<"rx", h>>) => RxAt(o)'
         /\ (hcur' = hcur /\ \A h \in Handlers : own[e] # <<"current", h>>) => CurrentAt(o)'
         /\ (hadd' = hadd /\ \A h \in Handlers : own[e] # <<"adding", h>>) => AddingAt(o)'
         /\ (timed' = timed /\ own[e] # <<"timed", 0>>) => TimedAt(o)'
         /\ (due' = due /\ own[e] # <<"due", 0>>) => DueAt(o)'
         /\ (mcur' = mcur /\ mpc' = mpc /\ own[e] # <<"mcur", 0>>) => McurAt(o)'
         /\ (madd' = madd /\ own[e] # <<"madd", 0>>) => MaddAt(o)'
         /\ (recycled' = recycled /\ nAlloc' = nAlloc /\ own[e] # <<"free", 0>>) => FreeAt(o)'
<1>1. (events' = events /\ own[e] # <<"events", 0>>) => EventsAt(o)'
  BY DEF Placed, EventsAt, Moved, QueueType
<1>2. (rx' = rx /\ \A h \in Handlers : own[e] # <<"rx", h>>) => RxAt(o)'
  BY DEF Placed, RxAt, Moved, QueueType
<1>3. (hcur' = hcur /\ \A h \in Handlers : own[e] # <<"current", h>>) => CurrentAt(o)'
  BY DEF Placed, CurrentAt, Moved, HandType
<1>4. (hadd' = hadd /\ \A h \in Handlers : own[e] # <<"adding", h>>) => AddingAt(o)'
  BY DEF Placed, AddingAt, Moved, HandType
<1>5. (timed' = timed /\ own[e] # <<"timed", 0>>) => TimedAt(o)'
  BY DEF Placed, TimedAt, Moved, QueueType
<1>6. (due' = due /\ own[e] # <<"due", 0>>) => DueAt(o)'
  BY DEF Placed, DueAt, Moved, QueueType
<1>7. (mcur' = mcur /\ mpc' = mpc /\ own[e] # <<"mcur", 0>>) => McurAt(o)'
  BY DEF Placed, McurAt, Moved, MainType
<1>8. (madd' = madd /\ own[e] # <<"madd", 0>>) => MaddAt(o)'
  BY DEF Placed, MaddAt, Moved, MainType
<1>9. (recycled' = recycled /\ nAlloc' = nAlloc /\ own[e] # <<"free", 0>>) => FreeAt(o)'
  BY DEF Placed, FreeAt, Moved
<1> QED
  BY <1>1, <1>2, <1>3, <1>4, <1>5, <1>6, <1>7, <1>8, <1>9

\* A new object was free, and stops being it
LEMMA NewObject ==
  ASSUME ObjType, RecycledOld, NEW own \in [Objs -> Places], Placed(own),
         NEW e \in Objs, NEW k \in Kinds, NEW d \in Dsts, getLoopEvent(e, k, d)
  PROVE  /\ own[e] = <<"free", 0>> /\ ObjType' /\ RecycledOld' /\ nAlloc <= nAlloc'
         /\ \A x \in Objs \ {e} : dst'[x] = dst[x]
         /\ dst'[e] = d
         /\ \A o, q : Moved(o, own, e, q) => FreeAt(o)'
<1>1. /\ nAlloc \in 0..MaxEvents /\ nAlloc \in Nat /\ recycled \subseteq Objs
      /\ dst \in [Objs -> Dsts] /\ kind \in [Objs -> Kinds]
  BY ObjFacts DEF ObjType
<1>2. e \in recycled \/ e > nAlloc
  BY <1>1 DEF getLoopEvent
<1>3. own[e] = <<"free", 0>>
  BY <1>2 DEF Placed, FreeAt
<1>4. nAlloc' \in 0..MaxEvents /\ nAlloc <= nAlloc'
  BY <1>1, ObjFacts DEF getLoopEvent, Objs
<1>5. recycled' = recycled \ {e} /\ dst' = [dst EXCEPT ![e] = d] /\ kind' = [kind EXCEPT ![e] = k]
  BY DEF getLoopEvent
<1>6. \A x \in Objs : (x \in recycled' \/ x > nAlloc') => x # e /\ (x \in recycled \/ x > nAlloc)
  <2>1. \A x \in Objs : x > nAlloc' => x > nAlloc
    BY <1>1, <1>4, ObjFacts
  <2>2. ~(e > nAlloc')
    BY <1>1, <1>4, ObjFacts DEF getLoopEvent, RecycledOld
  <2> QED BY <1>5, <2>1, <2>2
<1>7. \A o, q : Moved(o, own, e, q) => FreeAt(o)'
  BY <1>6 DEF Placed, FreeAt, Moved
<1>8. RecycledOld'
  BY <1>1, <1>4, <1>5, ObjFacts DEF RecycledOld
<1> QED
  BY <1>1, <1>3, <1>4, <1>5, <1>7, <1>8 DEF ObjType

-----------------------------------------------------------------------------
(* The steps that begin with a new object *)

\* A new object disturbs nothing that main has, or a handler
LEMMA MainKeeps ==
  ASSUME ObjType, MainType, MainHas, NEW own \in [Objs -> Places], Placed(own), UNCHANGED mainVars,
         ObjType', nAlloc <= nAlloc',
         \A x \in Objs : own[x] # <<"free", 0>> => dst'[x] = dst[x]
  PROVE  MainType' /\ MainHas'
<1>1. MainType'
  BY DEF MainType, mainVars
<1>2. mpc = "deliver" => dst'[mcur] = dst[mcur]
  <2>1. CASE mpc = "deliver"
    <3>1. mcur \in Objs /\ own[mcur] = <<"mcur", 0>>
      BY <2>1 DEF MainType, MainHas, Placed, McurAt
    <3> QED BY <3>1
  <2> QED BY <2>1
<1>3. mpc = "setActive" => mcur <= nAlloc'
  <2>1. nAlloc \in Nat /\ nAlloc' \in Nat /\ (mcur \in Nat)
    BY ObjFacts DEF ObjType, MainType, Nil
  <2> QED BY <2>1 DEF MainHas
<1> QED
  BY <1>1, <1>2, <1>3 DEF MainHas, mainVars

LEMMA HandsKeep ==
  ASSUME HandType, HandsHave, UNCHANGED handVars
  PROVE  HandType' /\ HandsHave'
BY DEF HandType, HandsHave, handVars

\* What l.events holds after an object went into it
LEMMA EventsGain ==
  ASSUME ObjType, QueueType, QueuesDistinct, NEW own \in [Objs -> Places], Placed(own),
         NEW e \in Objs, own[e] # <<"events", 0>>, addEventBlocking(e)
  PROVE  /\ events' \in Seq(Objs) /\ Len(events') <= EventsCap /\ Distinct(events')
         /\ \A o : Moved(o, own, e, <<"events", 0>>) => EventsAt(o)'
<1>1. events \in Seq(Objs) /\ events' = Append(events, e) /\ Len(events) < EventsCap
  BY DEF addEventBlocking, QueueType
<1>2. \A i \in DOMAIN events : events[i] # e
  BY Apart
<1>3. Distinct(events')
  BY <1>1, <1>2, AppendDistinct DEF QueuesDistinct
<1>4. \A i \in DOMAIN events' : events'[i] = e \/ \E j \in DOMAIN events : events'[i] = events[j]
  BY <1>1, AppendFacts
<1>5. \A j \in DOMAIN events : events[j] \in Objs \ {e} /\ own[events[j]] = <<"events", 0>>
  BY <1>1, <1>2 DEF Placed, EventsAt
<1>6. \A o : Moved(o, own, e, <<"events", 0>>) => EventsAt(o)'
  BY <1>4, <1>5 DEF EventsAt, Moved
<1>7. events' \in Seq(Objs) /\ Len(events') <= EventsCap
  BY <1>1, AppendFacts, SizeAssumption
<1> QED
  BY <1>3, <1>6, <1>7

\* A new object goes into l.events or into the timed events
LEMMA NewShared ==
  ASSUME OwnerInv, NEW e \in Objs, NEW k \in Kinds, NEW d \in Dsts, getLoopEvent(e, k, d),
         \/ addEventBlocking(e) /\ timed' = timed
         \/ events' = events /\ timed' = timed \cup {e},
         UNCHANGED <<due, rx, active, toLoop, handVars, mainVars, polled>>
  PROVE  OwnerInv'
<1>0. /\ ObjType /\ QueueType /\ HandType /\ MainType
      /\ MainHas /\ HandsHave /\ RecycledOld /\ QueuesDistinct
  BY OwnerParts
<1>own. PICK own \in [Objs -> Places] : Placed(own)
  BY DEF OwnerInv
<1>1. /\ own[e] = <<"free", 0>> /\ ObjType' /\ RecycledOld' /\ nAlloc <= nAlloc'
      /\ \A x \in Objs \ {e} : dst'[x] = dst[x]
      /\ \A o, q : Moved(o, own, e, q) => FreeAt(o)'
  BY <1>0, <1>own, NewObject
<1>2. MainType' /\ MainHas' /\ HandType' /\ HandsHave'
  BY <1>0, <1>own, <1>1, MainKeeps, HandsKeep
<1>3. \A q, o : (o \in [Objs -> Places] /\ Moved(o, own, e, q)) =>
        /\ RxAt(o)' /\ CurrentAt(o)' /\ AddingAt(o)' /\ DueAt(o)' /\ McurAt(o)' /\ MaddAt(o)'
        /\ events' = events => EventsAt(o)'
        /\ timed' = timed => TimedAt(o)'
  BY <1>0, <1>own, <1>1, Stay DEF handVars, mainVars
<1>4. CASE addEventBlocking(e) /\ timed' = timed
  <2>1. /\ events' \in Seq(Objs) /\ Len(events') <= EventsCap /\ Distinct(events')
        /\ \A o : Moved(o, own, e, <<"events", 0>>) => EventsAt(o)'
    BY <1>0, <1>own, <1>1, <1>4, EventsGain
  <2>2. PICK o \in [Objs -> Places] : Moved(o, own, e, <<"events", 0>>)
    BY <1>own, Relocate, PlaceNames
  <2>3. Placed(o)'
    BY <1>1, <1>3, <1>4, <2>1, <2>2 DEF Placed
  <2>4. QueueType' /\ QueuesDistinct'
    BY <1>0, <1>4, <2>1 DEF QueueType, QueuesDistinct
  <2> QED BY <1>1, <1>2, <2>3, <2>4, OwnerNext
<1>5. CASE events' = events /\ timed' = timed \cup {e}
  <2>2. PICK o \in [Objs -> Places] : Moved(o, own, e, <<"timed", 0>>)
    BY <1>own, Relocate, PlaceNames
  <2>a. TimedAt(o)'
    BY <1>0, <1>own, <1>5, <2>2 DEF Placed, TimedAt, Moved, QueueType
  <2>3. Placed(o)'
    BY <1>1, <1>3, <1>5, <2>2, <2>a DEF Placed
  <2>4. QueueType' /\ QueuesDistinct'
    BY <1>0, <1>5 DEF QueueType, QueuesDistinct
  <2> QED BY <1>1, <1>2, <2>3, <2>4, OwnerNext
<1> QED
  BY <1>4, <1>5

\* The action of an event that a handler executes makes a new object
LEMMA HandlerNew ==
  ASSUME OwnerInv, NEW h \in Handlers, NEW e \in Objs, NEW k \in Kinds, NEW d \in Dsts,
         getLoopEvent(e, k, d), hpc[h] = "running", hadd' = [hadd EXCEPT ![h] = e],
         \/ hcur' = hcur /\ hpc' = [hpc EXCEPT ![h] = "adding"]
         \/ hcur' = [hcur EXCEPT ![h] = Nil] /\ hpc' = [hpc EXCEPT ![h] = "quitting"],
         UNCHANGED <<events, timed, due, rx, active, toLoop, mainVars, polled>>
  PROVE  OwnerInv'
<1>0. /\ ObjType /\ QueueType /\ HandType /\ MainType
      /\ MainHas /\ HandsHave /\ RecycledOld /\ QueuesDistinct
  BY OwnerParts
<1>own. PICK own \in [Objs -> Places] : Placed(own)
  BY DEF OwnerInv
<1>1. /\ own[e] = <<"free", 0>> /\ ObjType' /\ RecycledOld' /\ nAlloc <= nAlloc'
      /\ \A x \in Objs \ {e} : dst'[x] = dst[x]
      /\ \A o, q : Moved(o, own, e, q) => FreeAt(o)'
  BY <1>0, <1>own, NewObject
<1>2. MainType' /\ MainHas'
  BY <1>0, <1>own, <1>1, MainKeeps
<1>3. HandType' /\ HandsHave'
  BY <1>0, ObjFacts DEF HandType, HandsHave
<1>4. PICK o \in [Objs -> Places] : Moved(o, own, e, <<"adding", h>>)
  BY <1>own, Relocate, PlaceNames
<1>5. /\ EventsAt(o)' /\ RxAt(o)' /\ TimedAt(o)' /\ DueAt(o)' /\ McurAt(o)' /\ MaddAt(o)'
  BY <1>0, <1>own, <1>1, <1>4, Stay DEF mainVars
<1>6. /\ \A g \in Handlers : hcur[g] # e /\ hadd[g] # e
  BY <1>0, <1>own, <1>1, Apart
<1>7. CurrentAt(o)'
  BY <1>0, <1>own, <1>4, <1>6 DEF Placed, CurrentAt, Moved, HandType
<1>8. AddingAt(o)'
  BY <1>0, <1>own, <1>4, <1>6 DEF Placed, AddingAt, Moved, HandType
<1>9. Placed(o)'
  BY <1>1, <1>4, <1>5, <1>7, <1>8 DEF Placed
<1>10. QueueType' /\ QueuesDistinct'
  BY <1>0 DEF QueueType, QueuesDistinct
<1> QED
  BY <1>1, <1>2, <1>3, <1>9, <1>10, OwnerNext

\* So does one that main executes
LEMMA ActionAddStep ==
  ASSUME OwnerInv, ActionAdd
  PROVE  OwnerInv'
<1>0. /\ ObjType /\ QueueType /\ HandType /\ MainType
      /\ MainHas /\ HandsHave /\ RecycledOld /\ QueuesDistinct
  BY OwnerParts
<1>own. PICK own \in [Objs -> Places] : Placed(own)
  BY DEF OwnerInv
<1>e. PICK e \in Objs, d \in Dsts : getLoopEvent(e, "actor", d) /\ madd' = e
  BY DEF ActionAdd
<1>u. /\ UNCHANGED <<handVars, mcur, ctx, deadline, at, events, timed, due, rx, active, toLoop, polled>>
      /\ mpc = "action" /\ mpc' = "adding"
  BY DEF ActionAdd, Goto
<1>1. /\ own[e] = <<"free", 0>> /\ ObjType' /\ RecycledOld' /\ nAlloc <= nAlloc'
      /\ \A o, q : Moved(o, own, e, q) => FreeAt(o)'
  BY <1>0, <1>own, <1>e, NewObject DEF Kinds
<1>2. HandType' /\ HandsHave'
  BY <1>0, <1>u, HandsKeep
<1>3. MainType' /\ MainHas'
  BY <1>0, <1>e, <1>u, ObjFacts DEF MainType, MainHas
<1>4. PICK o \in [Objs -> Places] : Moved(o, own, e, <<"madd", 0>>)
  BY <1>own, <1>e, Relocate, PlaceNames
<1>5. /\ EventsAt(o)' /\ RxAt(o)' /\ CurrentAt(o)' /\ AddingAt(o)' /\ TimedAt(o)' /\ DueAt(o)'
  BY <1>0, <1>own, <1>e, <1>u, <1>1, <1>4, Stay DEF handVars
<1>6. mcur # e
  BY <1>0, <1>own, <1>e, <1>u, <1>1, Apart
<1>7. McurAt(o)' /\ MaddAt(o)'
  BY <1>0, <1>own, <1>e, <1>u, <1>4, <1>6 DEF Placed, McurAt, MaddAt, Moved, MainType
<1>9. Placed(o)'
  BY <1>1, <1>4, <1>5, <1>7 DEF Placed
<1>10. QueueType' /\ QueuesDistinct'
  BY <1>0, <1>u DEF QueueType, QueuesDistinct
<1> QED
  BY <1>1, <1>2, <1>3, <1>9, <1>10, OwnerNext

-----------------------------------------------------------------------------
(* The other steps of handlers *)

LEMMA HandlerReceiveStep ==
  ASSUME OwnerInv, NEW h \in Handlers, HandlerReceive(h)
  PROVE  OwnerInv'
<1>0. /\ ObjType /\ QueueType /\ HandType /\ MainType
      /\ MainHas /\ HandsHave /\ RecycledOld /\ QueuesDistinct
  BY OwnerParts
<1>own. PICK own \in [Objs -> Places] : Placed(own)
  BY DEF OwnerInv
<1>u. /\ UNCHANGED <<objVars, hadd, events, timed, due, active, toLoop, mainVars, polled>>
      /\ hcur' = [hcur EXCEPT ![h] = Head(rx[h])]
      /\ rx' = [rx EXCEPT ![h] = Tail(rx[h])]
      /\ hpc' = [hpc EXCEPT ![h] = "running"]
      /\ hpc[h] = "idle"
  BY DEF HandlerReceive
<1>s. PICK s \in Seq(Objs) : s = rx[h] /\ s # <<>>
  BY <1>0 DEF HandlerReceive, QueueType
<1>e. PICK e \in Objs : e = Head(s)
  BY <1>s, TailFacts
<1>t. /\ Tail(s) \in Seq(Objs) /\ Distinct(Tail(s))
      /\ \A i \in DOMAIN Tail(s) : Tail(s)[i] # e /\ \E j \in DOMAIN s : Tail(s)[i] = s[j]
  BY <1>0, <1>s, <1>e, TailFacts, TailDistinct DEF QueuesDistinct
<1>1. own[e] = <<"rx", h>>
  BY <1>own, <1>s, <1>e, TailFacts DEF Placed, RxAt
<1>2. PICK o \in [Objs -> Places] : Moved(o, own, e, <<"current", h>>)
  BY <1>own, <1>e, Relocate, PlaceNames
<1>3. /\ EventsAt(o)' /\ AddingAt(o)' /\ TimedAt(o)' /\ DueAt(o)' /\ McurAt(o)' /\ MaddAt(o)' /\ FreeAt(o)'
  <2>1. /\ own[e] # <<"events", 0>> /\ own[e] # <<"timed", 0>> /\ own[e] # <<"due", 0>>
        /\ own[e] # <<"mcur", 0>> /\ own[e] # <<"madd", 0>> /\ own[e] # <<"free", 0>>
        /\ \A g \in Handlers : own[e] # <<"adding", g>>
    BY <1>1
  <2>2. UNCHANGED <<events, hadd, timed, due, mcur, mpc, madd, recycled, nAlloc>>
    BY <1>u DEF mainVars, objVars
  <2> QED BY <1>0, <1>own, <1>2, <2>1, <2>2, Stay
<1>4. \A g \in Handlers : hcur[g] # e /\ (g # h => \A i \in DOMAIN rx[g] : rx[g][i] # e)
  BY <1>0, <1>own, <1>1, Apart
<1>5. CurrentAt(o)'
  BY <1>0, <1>own, <1>u, <1>s, <1>e, <1>2, <1>4 DEF Placed, CurrentAt, Moved, HandType
<1>6. RxAt(o)'
  <2>1. ASSUME NEW g \in Handlers, g # h, NEW i \in DOMAIN rx'[g]
        PROVE  o[rx'[g][i]] = <<"rx", g>>
    <3>1. rx'[g] = rx[g] /\ rx[g] \in Seq(Objs) /\ rx[g][i] \in Objs \ {e}
      BY <1>0, <1>u, <1>4, <2>1 DEF QueueType
    <3> QED BY <1>own, <1>2, <2>1, <3>1 DEF Placed, RxAt, Moved
  <2>2. ASSUME NEW i \in DOMAIN rx'[h] PROVE o[rx'[h][i]] = <<"rx", h>>
    <3>1. rx'[h] = Tail(s)
      BY <1>0, <1>u, <1>s DEF QueueType
    <3>2. PICK j \in DOMAIN s : Tail(s)[i] = s[j] /\ s[j] # e
      BY <1>t, <2>2, <3>1
    <3> QED BY <1>own, <1>s, <1>2, <3>1, <3>2 DEF Placed, RxAt, Moved
  <2> QED BY <2>1, <2>2 DEF RxAt
<1>7. Placed(o)'
  BY <1>3, <1>5, <1>6 DEF Placed
<1>8. rx' \in [Handlers -> Seq(Objs)] /\ \A g \in Handlers : Distinct(rx'[g])
  BY <1>0, <1>u, <1>s, <1>t DEF QueueType, QueuesDistinct
<1>9. QueueType' /\ QueuesDistinct'
  BY <1>0, <1>u, <1>8 DEF QueueType, QueuesDistinct
<1>10. HandType' /\ HandsHave'
  BY <1>0, <1>u, <1>s, <1>e, ObjFacts DEF HandType, HandsHave
<1>11. ObjType' /\ MainType' /\ MainHas' /\ RecycledOld'
  BY <1>0, <1>u DEF ObjType, MainType, MainHas, RecycledOld, objVars, mainVars
<1> QED
  BY <1>7, <1>9, <1>10, <1>11, OwnerNext

LEMMA HandlerSendStep ==
  ASSUME OwnerInv, NEW h \in Handlers, HandlerSend(h)
  PROVE  OwnerInv'
<1>0. /\ ObjType /\ QueueType /\ HandType /\ MainType
      /\ MainHas /\ HandsHave /\ RecycledOld /\ QueuesDistinct
  BY OwnerParts
<1>own. PICK own \in [Objs -> Places] : Placed(own)
  BY DEF OwnerInv
<1>u. /\ UNCHANGED <<objVars, hcur, timed, due, rx, active, toLoop, mainVars, polled>>
      /\ addEventBlocking(hadd[h]) /\ hpc[h] \in {"adding", "quitting"}
      /\ hadd' = [hadd EXCEPT ![h] = Nil]
      /\ hpc' = [hpc EXCEPT ![h] = IF hpc[h] = "adding" THEN "running" ELSE "signal"]
  BY DEF HandlerSend
<1>e. PICK e \in Objs : e = hadd[h]
  BY <1>0, <1>u DEF HandType, HandsHave
<1>1. own[e] = <<"adding", h>>
  BY <1>own, <1>e, ObjFacts DEF Placed, AddingAt
<1>2. PICK o \in [Objs -> Places] : Moved(o, own, e, <<"events", 0>>)
  BY <1>own, <1>e, Relocate, PlaceNames
<1>3. /\ events' \in Seq(Objs) /\ Len(events') <= EventsCap /\ Distinct(events')
      /\ EventsAt(o)'
  BY <1>0, <1>own, <1>u, <1>e, <1>1, <1>2, EventsGain
<1>4. /\ RxAt(o)' /\ CurrentAt(o)' /\ TimedAt(o)' /\ DueAt(o)' /\ McurAt(o)' /\ MaddAt(o)' /\ FreeAt(o)'
  BY <1>0, <1>own, <1>e, <1>u, <1>1, <1>2, Stay DEF mainVars, objVars
<1>5. AddingAt(o)'
  <2>1. \A g \in Handlers \ {h} : hadd[g] # e
    BY <1>0, <1>own, <1>1, Apart
  <2> QED BY <1>0, <1>own, <1>u, <1>2, <2>1 DEF Placed, AddingAt, Moved, HandType
<1>7. Placed(o)'
  BY <1>3, <1>4, <1>5 DEF Placed
<1>9. QueueType' /\ QueuesDistinct'
  BY <1>0, <1>u, <1>3 DEF QueueType, QueuesDistinct
<1>10. HandType' /\ HandsHave'
  BY <1>0, <1>u DEF HandType, HandsHave
<1>11. ObjType' /\ MainType' /\ MainHas' /\ RecycledOld'
  BY <1>0, <1>u DEF ObjType, MainType, MainHas, RecycledOld, objVars, mainVars
<1> QED
  BY <1>7, <1>9, <1>10, <1>11, OwnerNext

LEMMA HandlerDoneStep ==
  ASSUME OwnerInv, NEW h \in Handlers, HandlerDone(h)
  PROVE  OwnerInv'
<1>0. /\ ObjType /\ QueueType /\ HandType /\ MainType
      /\ MainHas /\ HandsHave /\ RecycledOld /\ QueuesDistinct
  BY OwnerParts
<1>own. PICK own \in [Objs -> Places] : Placed(own)
  BY DEF OwnerInv
<1>u. /\ UNCHANGED <<nAlloc, dst, kind, hadd, events, timed, due, rx, active, toLoop, mainVars, polled>>
      /\ recycled' = recycled \cup {hcur[h]} /\ hpc[h] = "running"
      /\ hcur' = [hcur EXCEPT ![h] = Nil]
      /\ hpc' = [hpc EXCEPT ![h] = "signal"]
  BY DEF HandlerDone, putLoopEvent
<1>e. PICK e \in Objs : e = hcur[h]
  BY <1>0, <1>u DEF HandType, HandsHave
<1>1. own[e] = <<"current", h>> /\ e <= nAlloc
  <2>1. own[e] = <<"current", h>>
    BY <1>own, <1>e, ObjFacts DEF Placed, CurrentAt
  <2> QED BY <1>0, <1>own, <2>1, Apart
<1>2. PICK o \in [Objs -> Places] : Moved(o, own, e, <<"free", 0>>)
  BY <1>own, <1>e, Relocate, PlaceNames
<1>4. /\ EventsAt(o)' /\ RxAt(o)' /\ AddingAt(o)' /\ TimedAt(o)' /\ DueAt(o)' /\ McurAt(o)' /\ MaddAt(o)'
  BY <1>0, <1>own, <1>e, <1>u, <1>1, <1>2, Stay DEF mainVars
<1>5. CurrentAt(o)'
  <2>1. \A g \in Handlers \ {h} : hcur[g] # e
    BY <1>0, <1>own, <1>1, Apart
  <2> QED BY <1>0, <1>own, <1>u, <1>2, <2>1 DEF Placed, CurrentAt, Moved, HandType
<1>6. FreeAt(o)'
  BY <1>own, <1>u, <1>e, <1>2 DEF Placed, FreeAt, Moved
<1>7. Placed(o)'
  BY <1>4, <1>5, <1>6 DEF Placed
<1>8. ObjType' /\ RecycledOld'
  BY <1>0, <1>u, <1>e, <1>1 DEF ObjType, RecycledOld
<1>9. QueueType' /\ QueuesDistinct'
  BY <1>0, <1>u DEF QueueType, QueuesDistinct
<1>10. HandType' /\ HandsHave'
  BY <1>0, <1>u DEF HandType, HandsHave
<1>11. MainType' /\ MainHas'
  BY <1>0, <1>u DEF MainType, MainHas, mainVars
<1> QED
  BY <1>7, <1>8, <1>9, <1>10, <1>11, OwnerNext

-----------------------------------------------------------------------------
(* The steps of main, and those that move no object *)

LEMMA Unmoved ==
  ASSUME OwnerInv, UNCHANGED <<objVars, events, timed, due, rx, hcur, hadd, madd>>,
         \/ mcur' = mcur /\ (mpc = "setActive" => mpc' = "setActive")
         \/ mcur' = Nil,
         active' \subseteq Handlers, toLoop' \subseteq Handlers, polled' \in BOOLEAN,
         HandType', HandsHave', MainType', MainHas'
  PROVE  OwnerInv'
<1>0. /\ ObjType /\ QueueType /\ RecycledOld /\ QueuesDistinct
  BY OwnerParts
<1>own. PICK own \in [Objs -> Places] : Placed(own)
  BY DEF OwnerInv
<1>1. McurAt(own)'
  BY <1>own DEF Placed, McurAt
<1>2. Placed(own)'
  BY <1>own, <1>1 DEF Placed, EventsAt, RxAt, CurrentAt, AddingAt, TimedAt, DueAt, MaddAt, FreeAt, objVars
<1>3. ObjType' /\ RecycledOld'
  BY <1>0 DEF ObjType, RecycledOld, objVars
<1>4. QueueType' /\ QueuesDistinct'
  BY <1>0 DEF QueueType, QueuesDistinct
<1> QED
  BY <1>2, <1>3, <1>4, OwnerNext

\* main takes the first event out of l.events
LEMMA MainTakes ==
  ASSUME OwnerInv, mpc \in {"doEvents", "select"}, events # <<>>,
         NEW c \in {"noWait", "wait"}, Received(Head(events), c), events' = Tail(events),
         deadline' \in BOOLEAN,
         UNCHANGED <<objVars, handVars, madd, at, timed, due, rx, active, toLoop, polled>>
  PROVE  OwnerInv'
<1>0. /\ ObjType /\ QueueType /\ HandType /\ MainType
      /\ MainHas /\ HandsHave /\ RecycledOld /\ QueuesDistinct
  BY OwnerParts
<1>own. PICK own \in [Objs -> Places] : Placed(own)
  BY DEF OwnerInv
<1>s. events \in Seq(Objs) /\ Distinct(events)
  BY <1>0 DEF QueueType, QueuesDistinct
<1>e. PICK e \in Objs : e = Head(events) /\ 1 \in DOMAIN events /\ e = events[1]
  BY <1>s, TailFacts
<1>t. /\ events' \in Seq(Objs) /\ Len(events') = Len(events) - 1 /\ Distinct(events')
      /\ \A i \in DOMAIN events' : events'[i] # e /\ \E j \in DOMAIN events : events'[i] = events[j]
  BY <1>s, <1>e, TailFacts, TailDistinct
<1>a. Len(events') <= EventsCap
  BY <1>0, <1>s, <1>t, SizeAssumption DEF QueueType
<1>1. own[e] = <<"events", 0>>
  BY <1>own, <1>e DEF Placed, EventsAt
<1>2. HandType' /\ HandsHave'
  BY <1>0, HandsKeep
<1>3. ObjType' /\ RecycledOld'
  BY <1>0 DEF ObjType, RecycledOld, objVars
<1>4. QueueType' /\ QueuesDistinct'
  BY <1>0, <1>t, <1>a DEF QueueType, QueuesDistinct
<1>5. CASE kind[e] # "actor"
  <2>1. mpc' \in {"exit", "poll"} /\ mcur' = mcur /\ ctx' = c
    BY <1>5, <1>e DEF Received, Goto
  <2>2. MainType' /\ MainHas'
    BY <1>0, <2>1 DEF MainType, MainHas
  <2>3. EventsAt(own)'
    BY <1>own, <1>t DEF Placed, EventsAt
  <2>4. Placed(own)'
    BY <1>own, <2>1, <2>3 DEF Placed, RxAt, CurrentAt, AddingAt, TimedAt, DueAt, McurAt, MaddAt, FreeAt,
                              objVars, handVars
  <2> QED BY <1>2, <1>3, <1>4, <2>2, <2>4, OwnerNext
<1>6. CASE kind[e] = "actor"
  <2>1. /\ mpc' = (IF dst[e] = Nil THEN "action" ELSE "deliver")
        /\ mcur' = e /\ ctx' = c
    BY <1>6, <1>e DEF Received, Goto
  <2>2. MainType' /\ MainHas'
    BY <1>0, <2>1, ObjFacts DEF MainType, MainHas, objVars
  <2>3. PICK o \in [Objs -> Places] : Moved(o, own, e, <<"mcur", 0>>)
    BY <1>own, <1>e, Relocate, PlaceNames
  <2>4. /\ RxAt(o)' /\ CurrentAt(o)' /\ AddingAt(o)' /\ TimedAt(o)' /\ DueAt(o)' /\ MaddAt(o)' /\ FreeAt(o)'
    BY <1>0, <1>own, <1>e, <1>1, <2>3, Stay DEF objVars, handVars
  <2>5. EventsAt(o)'
    <3>1. \A i \in DOMAIN events' : events'[i] \in Objs \ {e} /\ own[events'[i]] = <<"events", 0>>
      BY <1>own, <1>s, <1>t DEF Placed, EventsAt
    <3> QED BY <2>3, <3>1 DEF EventsAt, Moved
  <2>6. McurAt(o)'
    BY <2>1, <2>3 DEF McurAt, Moved
  <2>7. Placed(o)'
    BY <2>4, <2>5, <2>6 DEF Placed
  <2> QED BY <1>2, <1>3, <1>4, <2>2, <2>7, OwnerNext
<1> QED
  BY <1>5, <1>6

LEMMA DeliverStep ==
  ASSUME OwnerInv, Deliver
  PROVE  OwnerInv'
<1>0. /\ ObjType /\ QueueType /\ HandType /\ MainType
      /\ MainHas /\ HandsHave /\ RecycledOld /\ QueuesDistinct
  BY OwnerParts
<1>own. PICK own \in [Objs -> Places] : Placed(own)
  BY DEF OwnerInv
<1>e. PICK e \in Objs : e = mcur
  BY <1>0 DEF MainType, MainHas, Deliver
<1>h. PICK h \in Handlers : h = dst[e]
  BY <1>0, <1>e DEF MainHas, ObjType, Deliver, Dsts
<1>u. /\ rx' = [rx EXCEPT ![h] = Append(rx[h], e)]
      /\ mpc = "deliver" /\ mpc' = "setActive"
      /\ UNCHANGED <<objVars, handVars, mcur, madd, ctx, deadline, at, events, timed, due,
                     active, toLoop, polled>>
  BY <1>e, <1>h DEF Deliver, Goto
<1>1. own[e] = <<"mcur", 0>>
  BY <1>own, <1>e, <1>u, ObjFacts DEF Placed, McurAt
<1>2. PICK o \in [Objs -> Places] : Moved(o, own, e, <<"rx", h>>)
  BY <1>own, Relocate, PlaceNames
<1>3. /\ EventsAt(o)' /\ CurrentAt(o)' /\ AddingAt(o)' /\ TimedAt(o)' /\ DueAt(o)' /\ MaddAt(o)' /\ FreeAt(o)'
  BY <1>0, <1>own, <1>u, <1>1, <1>2, Stay DEF objVars, handVars
<1>4. McurAt(o)'
  BY <1>u DEF McurAt
<1>s. PICK s \in Seq(Objs) : s = rx[h] /\ Distinct(s)
  BY <1>0 DEF QueueType, QueuesDistinct
<1>5. \A g \in Handlers : \A i \in DOMAIN rx[g] : rx[g][i] # e
  BY <1>0, <1>own, <1>1, Apart
<1>6. /\ Append(s, e) \in Seq(Objs) /\ Distinct(Append(s, e))
      /\ \A i \in DOMAIN Append(s, e) :
           Append(s, e)[i] = e \/ \E j \in DOMAIN s : Append(s, e)[i] = s[j]
  BY <1>s, <1>5, AppendFacts, AppendDistinct
<1>7. rx' \in [Handlers -> Seq(Objs)] /\ rx'[h] = Append(s, e) /\ \A g \in Handlers \ {h} : rx'[g] = rx[g]
  BY <1>0, <1>u, <1>s, <1>6 DEF QueueType
<1>8. RxAt(o)'
  <2>1. \A g \in Handlers : \A i \in DOMAIN rx[g] : o[rx[g][i]] = <<"rx", g>>
    <3>1. \A g \in Handlers : rx[g] \in Seq(Objs)
      BY <1>0 DEF QueueType
    <3>2. \A g \in Handlers : \A i \in DOMAIN rx[g] : rx[g][i] \in Objs \ {e}
      BY <1>5, <3>1
    <3> QED BY <1>own, <1>2, <3>2 DEF Placed, RxAt, Moved
  <2>2. ASSUME NEW i \in DOMAIN rx'[h] PROVE o[rx'[h][i]] = <<"rx", h>>
    <3>1. rx'[h][i] = e \/ \E j \in DOMAIN rx[h] : rx'[h][i] = rx[h][j]
      <4>1. rx'[h] = Append(s, e) /\ i \in DOMAIN Append(s, e)
        BY <1>7, Zenon
      <4>2. Append(s, e)[i] = e \/ \E j \in DOMAIN s : Append(s, e)[i] = s[j]
        BY <1>6, <4>1, Zenon
      <4> QED BY <1>s, <4>1, <4>2, Zenon
    <3>2. o[e] = <<"rx", h>>
      BY <1>2 DEF Moved
    <3> QED BY <2>1, <3>1, <3>2
  <2> QED BY <1>7, <2>1, <2>2 DEF RxAt
<1>9. Placed(o)'
  BY <1>3, <1>4, <1>8 DEF Placed
<1>10. QueueType' /\ QueuesDistinct'
  BY <1>0, <1>u, <1>6, <1>7 DEF QueueType, QueuesDistinct
<1>11. HandType' /\ HandsHave' /\ ObjType' /\ RecycledOld'
  BY <1>0, <1>u, HandsKeep DEF ObjType, RecycledOld, objVars
<1>12. e <= nAlloc
  BY <1>0, <1>own, <1>1, Apart
<1>13. MainType' /\ MainHas'
  BY <1>0, <1>e, <1>u, <1>12, ObjFacts DEF MainType, MainHas, objVars
<1> QED
  BY <1>9, <1>10, <1>11, <1>13, OwnerNext

LEMMA ActionSendStep ==
  ASSUME OwnerInv, ActionSend
  PROVE  OwnerInv'
<1>0. /\ ObjType /\ QueueType /\ HandType /\ MainType
      /\ MainHas /\ HandsHave /\ RecycledOld /\ QueuesDistinct
  BY OwnerParts
<1>own. PICK own \in [Objs -> Places] : Placed(own)
  BY DEF OwnerInv
<1>u. /\ addEventBlocking(madd) /\ madd' = Nil /\ mpc = "adding" /\ mpc' = "action"
      /\ UNCHANGED <<objVars, handVars, mcur, ctx, deadline, at, timed, due, rx, active, toLoop, polled>>
  BY DEF ActionSend, Goto
<1>e. PICK e \in Objs : e = madd
  BY <1>0, <1>u DEF MainType, MainHas
<1>1. own[e] = <<"madd", 0>>
  BY <1>own, <1>e, ObjFacts DEF Placed, MaddAt
<1>2. PICK o \in [Objs -> Places] : Moved(o, own, e, <<"events", 0>>)
  BY <1>own, <1>e, Relocate, PlaceNames
<1>3. /\ events' \in Seq(Objs) /\ Len(events') <= EventsCap /\ Distinct(events')
      /\ EventsAt(o)'
  BY <1>0, <1>own, <1>u, <1>e, <1>1, <1>2, EventsGain
<1>4. /\ RxAt(o)' /\ CurrentAt(o)' /\ AddingAt(o)' /\ TimedAt(o)' /\ DueAt(o)' /\ FreeAt(o)'
  BY <1>0, <1>own, <1>e, <1>u, <1>1, <1>2, Stay DEF objVars, handVars
<1>5. mcur # e
  BY <1>0, <1>own, <1>u, <1>1, Apart
<1>6. McurAt(o)' /\ MaddAt(o)'
  BY <1>0, <1>own, <1>u, <1>2, <1>5 DEF Placed, McurAt, MaddAt, Moved, MainType
<1>7. Placed(o)'
  BY <1>3, <1>4, <1>6 DEF Placed
<1>8. QueueType' /\ QueuesDistinct'
  BY <1>0, <1>u, <1>3 DEF QueueType, QueuesDistinct
<1>9. HandType' /\ HandsHave' /\ ObjType' /\ RecycledOld'
  BY <1>0, <1>u, HandsKeep DEF ObjType, RecycledOld, objVars
<1>10. MainType' /\ MainHas'
  BY <1>0, <1>u DEF MainType, MainHas
<1> QED
  BY <1>7, <1>8, <1>9, <1>10, OwnerNext

LEMMA ActionDoneStep ==
  ASSUME OwnerInv, ActionDone
  PROVE  OwnerInv'
<1>0. /\ ObjType /\ QueueType /\ HandType /\ MainType
      /\ MainHas /\ HandsHave /\ RecycledOld /\ QueuesDistinct
  BY OwnerParts
<1>own. PICK own \in [Objs -> Places] : Placed(own)
  BY DEF OwnerInv
<1>u. /\ recycled' = recycled \cup {mcur} /\ UNCHANGED <<nAlloc, dst, kind>>
      /\ mcur' = Nil /\ mpc = "action" /\ mpc' \in {"timed", "advance"}
      /\ UNCHANGED <<handVars, madd, ctx, deadline, at, events, timed, due, rx, active, toLoop, polled>>
  BY DEF ActionDone, putLoopEvent, Goto, AfterEvent
<1>e. PICK e \in Objs : e = mcur
  BY <1>0, <1>u DEF MainType, MainHas
<1>1. own[e] = <<"mcur", 0>> /\ e <= nAlloc
  <2>1. own[e] = <<"mcur", 0>>
    BY <1>own, <1>e, <1>u, ObjFacts DEF Placed, McurAt
  <2> QED BY <1>0, <1>own, <2>1, Apart
<1>2. PICK o \in [Objs -> Places] : Moved(o, own, e, <<"free", 0>>)
  BY <1>own, <1>e, Relocate, PlaceNames
<1>4. /\ EventsAt(o)' /\ RxAt(o)' /\ CurrentAt(o)' /\ AddingAt(o)' /\ TimedAt(o)' /\ DueAt(o)' /\ MaddAt(o)'
  BY <1>0, <1>own, <1>e, <1>u, <1>1, <1>2, Stay DEF handVars
<1>6. McurAt(o)' /\ FreeAt(o)'
  BY <1>own, <1>u, <1>e, <1>2 DEF Placed, McurAt, FreeAt, Moved
<1>7. Placed(o)'
  BY <1>4, <1>6 DEF Placed
<1>8. ObjType' /\ RecycledOld'
  BY <1>0, <1>u, <1>e, <1>1 DEF ObjType, RecycledOld
<1>9. QueueType' /\ QueuesDistinct' /\ HandType' /\ HandsHave'
  BY <1>0, <1>u, HandsKeep DEF QueueType, QueuesDistinct
<1>10. MainType' /\ MainHas'
  BY <1>0, <1>u DEF MainType, MainHas
<1> QED
  BY <1>7, <1>8, <1>9, <1>10, OwnerNext

\* Some of the timed events are due now
LEMMA AdvanceStep ==
  ASSUME OwnerInv, Advance
  PROVE  OwnerInv'
<1>0. /\ ObjType /\ QueueType /\ HandType /\ MainType
      /\ MainHas /\ HandsHave /\ RecycledOld /\ QueuesDistinct
  BY OwnerParts
<1>own. PICK own \in [Objs -> Places] : Placed(own)
  BY DEF OwnerInv
<1>u. /\ due' \subseteq timed /\ timed' = timed \ due' /\ mpc = "advance" /\ mpc' = "timed"
      /\ UNCHANGED <<objVars, handVars, mcur, madd, ctx, deadline, at, events, rx, active, toLoop, polled>>
  BY DEF Advance, Goto
<1> DEFINE o == [e \in Objs |-> IF e \in due' THEN <<"due", 0>> ELSE own[e]]
<1>1. PICK p \in [Objs -> Places] : p = o
  <2>1. o \in [Objs -> Places]
    BY PlaceNames
  <2> QED BY <2>1
<1>2. /\ \A e \in due' : e \in Objs /\ p[e] = <<"due", 0>> /\ own[e] = <<"timed", 0>>
      /\ \A e \in Objs \ due' : p[e] = own[e]
  <2>1. due' \subseteq Objs
    BY <1>0, <1>u DEF QueueType
  <2> QED BY <1>own, <1>u, <1>1, <2>1 DEF Placed, TimedAt
<1> HIDE DEF o
<1>3. \A e \in Objs : own[e] # <<"timed", 0>> => p[e] = own[e]
  BY <1>2
<1>4. EventsAt(p)'
  BY <1>0, <1>own, <1>u, <1>3 DEF Placed, EventsAt, QueueType
<1>5. RxAt(p)'
  BY <1>0, <1>own, <1>u, <1>3 DEF Placed, RxAt, QueueType
<1>6. CurrentAt(p)' /\ AddingAt(p)'
  BY <1>0, <1>own, <1>u, <1>3 DEF Placed, CurrentAt, AddingAt, HandType, handVars
<1>7. McurAt(p)' /\ MaddAt(p)'
  BY <1>0, <1>own, <1>u, <1>3 DEF Placed, McurAt, MaddAt, MainType
<1>8. TimedAt(p)' /\ DueAt(p)'
  BY <1>0, <1>own, <1>u, <1>2 DEF Placed, TimedAt, DueAt, QueueType
<1>9. FreeAt(p)'
  BY <1>own, <1>u, <1>3 DEF Placed, FreeAt, objVars
<1>10. Placed(p)'
  BY <1>4, <1>5, <1>6, <1>7, <1>8, <1>9 DEF Placed
<1>11. QueueType' /\ QueuesDistinct'
  BY <1>0, <1>u DEF QueueType, QueuesDistinct
<1>12. HandType' /\ HandsHave' /\ ObjType' /\ RecycledOld'
  BY <1>0, <1>u, HandsKeep DEF ObjType, RecycledOld, objVars
<1>13. MainType' /\ MainHas'
  BY <1>0, <1>u DEF MainType, MainHas
<1> QED
  BY <1>10, <1>11, <1>12, <1>13, OwnerNext

\* main takes an expired event
LEMMA TimedTakes ==
  ASSUME OwnerInv, mpc = "timed", NEW e \in due, due' = due \ {e}, mcur' = e,
         ctx' = "timed", mpc' = (IF dst[e] = Nil THEN "action" ELSE "deliver"),
         UNCHANGED <<at, objVars, handVars, madd, deadline, events, timed, rx, active, toLoop, polled>>
  PROVE  OwnerInv'
<1>0. /\ ObjType /\ QueueType /\ HandType /\ MainType
      /\ MainHas /\ HandsHave /\ RecycledOld /\ QueuesDistinct
  BY OwnerParts
<1>own. PICK own \in [Objs -> Places] : Placed(own)
  BY DEF OwnerInv
<1>e. e \in Objs /\ own[e] = <<"due", 0>>
  BY <1>0, <1>own DEF QueueType, Placed, DueAt
<1>2. PICK o \in [Objs -> Places] : Moved(o, own, e, <<"mcur", 0>>)
  BY <1>own, <1>e, Relocate, PlaceNames
<1>3. /\ EventsAt(o)' /\ RxAt(o)' /\ CurrentAt(o)' /\ AddingAt(o)' /\ TimedAt(o)' /\ MaddAt(o)' /\ FreeAt(o)'
  BY <1>0, <1>own, <1>e, <1>2, Stay DEF objVars, handVars
<1>4. McurAt(o)' /\ DueAt(o)'
  BY <1>0, <1>own, <1>2 DEF McurAt, DueAt, Moved, Placed, QueueType
<1>5. Placed(o)'
  BY <1>3, <1>4 DEF Placed
<1>6. QueueType' /\ QueuesDistinct'
  BY <1>0 DEF QueueType, QueuesDistinct
<1>7. HandType' /\ HandsHave' /\ ObjType' /\ RecycledOld'
  BY <1>0, HandsKeep DEF ObjType, RecycledOld, objVars
<1>8. MainType' /\ MainHas'
  BY <1>0, <1>e, ObjFacts DEF MainType, MainHas, objVars
<1> QED
  BY <1>5, <1>6, <1>7, <1>8, OwnerNext

\* Main moves on without an event in its hands, or keeps the one it has
LEMMA MainMoves ==
  ASSUME OwnerInv, UNCHANGED <<objVars, handVars, madd, events, timed, due, rx, polled>>,
         mpc' \in {"doEvents", "select", "advance", "timed", "wait", "clear", "poll", "panic"},
         \/ mcur' = mcur /\ mpc # "setActive"
         \/ mcur' = Nil,
         active' \subseteq Handlers, toLoop' \subseteq Handlers,
         ctx' = ctx, deadline' \in BOOLEAN, at' \in 1..H+1, mpc' = "clear" => at' <= H
  PROVE  OwnerInv'
<1>0. HandType /\ HandsHave /\ MainType /\ MainHas /\ QueueType
  BY OwnerParts
<1>1. HandType' /\ HandsHave' /\ MainType' /\ MainHas' /\ polled' \in BOOLEAN
  BY <1>0, HandsKeep DEF MainType, MainHas, QueueType
<1> QED
  BY <1>1, Unmoved DEF handVars

LEMMA HandlerSignalStep ==
  ASSUME OwnerInv, NEW h \in Handlers, HandlerSignal(h)
  PROVE  OwnerInv'
<1>0. HandType /\ HandsHave /\ MainType /\ MainHas /\ QueueType
  BY OwnerParts
<1>u. /\ toLoop' = toLoop \cup {h} /\ hpc' = [hpc EXCEPT ![h] = "idle"]
      /\ UNCHANGED <<objVars, hcur, hadd, events, timed, due, rx, active, mainVars, polled>>
  BY DEF HandlerSignal
<1>1. HandType' /\ HandsHave'
  BY <1>0, <1>u DEF HandType, HandsHave
<1>2. MainType' /\ MainHas' /\ active' \subseteq Handlers /\ toLoop' \subseteq Handlers /\ polled' \in BOOLEAN
  BY <1>0, <1>u DEF MainType, MainHas, mainVars, objVars, QueueType
<1> QED
  BY <1>u, <1>1, <1>2, Unmoved DEF mainVars

LEMMA MainStepOwner ==
  ASSUME OwnerInv, MainStep
  PROVE  OwnerInv'
<1>0. MainType /\ MainHas /\ QueueType /\ ObjType
  BY OwnerParts
<1>1. CASE DoEvents
  <2>1. CASE polled /\ events # <<>> /\ Received(Head(events), "noWait") /\ events' = Tail(events)
             /\ UNCHANGED deadline
    BY <1>0, <1>1, <2>1, MainTakes DEF DoEvents, MainType
  <2>2. CASE /\ mpc' \in {"advance", "select"} /\ UNCHANGED <<events, mcur, ctx>>
             /\ deadline' \in BOOLEAN
    BY <1>0, <1>1, <2>2, MainMoves DEF DoEvents, MainType, QueueType
  <2> QED BY <1>0, <1>1, <2>1, <2>2 DEF DoEvents, Goto, MainType
<1>2. CASE Select
  <2>1. CASE events # <<>> /\ Received(Head(events), "wait") /\ events' = Tail(events)
    BY <1>0, <1>2, <2>1, MainTakes DEF Select
  <2>2. CASE mpc' = "advance" /\ UNCHANGED <<events, mcur, ctx>>
    BY <1>0, <1>2, <2>2, MainMoves DEF Select, MainType, QueueType
  <2> QED BY <1>2, <2>1, <2>2 DEF Select, Goto
<1>3. CASE SetActive
  <2>1. mcur \in Objs /\ dst[mcur] \in Dsts
    BY <1>0, <1>3 DEF SetActive, MainType, MainHas, ObjType
  <2>2. /\ mpc' \in {"panic", "timed", "advance"} /\ active' \subseteq Handlers /\ mcur' = Nil
        /\ UNCHANGED <<objVars, handVars, madd, ctx, deadline, at, events, timed, due, rx, toLoop, polled>>
    BY <1>0, <1>3, <2>1 DEF SetActive, Goto, AfterEvent, QueueType, Dsts
  <2> QED BY <1>0, <2>2, MainMoves DEF MainType, QueueType
<1>4. CASE Timed
  <2>1. CASE at' = 1 /\ Goto("wait") /\ UNCHANGED <<due, mcur, ctx>>
    <3>1. 1 \in 1..H+1
      BY SizeAssumption
    <3> QED BY <1>0, <1>4, <2>1, <3>1, MainMoves DEF Timed, Goto, MainType, QueueType
  <2>2. CASE \E e \in due : /\ due' = due \ {e} /\ mcur' = e /\ ctx' = "timed"
                            /\ Goto(IF dst[e] = Nil THEN "action" ELSE "deliver") /\ UNCHANGED at
    BY <1>4, <2>2, TimedTakes DEF Timed, Goto
  <2> QED BY <1>4, <2>1, <2>2 DEF Timed
<1>5. CASE Wait
  <2>1. /\ mpc' \in {"poll", "wait", "clear"} /\ toLoop' \subseteq Handlers /\ at' \in 1..H+1
        /\ mpc' = "clear" => at' <= H
        /\ UNCHANGED <<objVars, handVars, mcur, madd, ctx, deadline, events, timed, due, rx, active, polled>>
        /\ mpc = "wait"
    BY <1>0, <1>5, SizeAssumption DEF Wait, Goto, MainType, QueueType
  <2> QED BY <1>0, <2>1, MainMoves DEF MainType, QueueType
<1>6. CASE WaitClear
  <2>1. at \in 1..H
    BY <1>0, <1>6, SizeAssumption DEF WaitClear, MainType, MainHas
  <2>2. /\ mpc' = "wait" /\ active' \subseteq Handlers /\ at' \in 1..H+1 /\ mpc = "clear"
        /\ UNCHANGED <<objVars, handVars, mcur, madd, ctx, deadline, events, timed, due, rx, toLoop, polled>>
    BY <1>0, <1>6, <2>1, SizeAssumption DEF WaitClear, Goto, MainType, QueueType
  <2> QED BY <1>0, <2>2, MainMoves DEF MainType, QueueType
<1>7. CASE DoPollers
  BY <1>0, <1>7, MainMoves DEF DoPollers, Goto, MainType, QueueType
<1> QED
  BY <1>1, <1>2, <1>3, <1>4, <1>5, <1>6, <1>7, DeliverStep, ActionSendStep, ActionDoneStep, AdvanceStep
     DEF MainStep

-----------------------------------------------------------------------------
(* One owner *)

LEMMA OwnerInit == Init => OwnerInv
<1> SUFFICES ASSUME Init PROVE OwnerInv
  OBVIOUS
<1>1. ObjType /\ RecycledOld
  <2>1. nAlloc \in 0..MaxEvents
    BY SizeAssumption DEF Init
  <2>2. Nil \in Dsts /\ "actor" \in Kinds
    BY DEF Dsts, Kinds
  <2>3. dst \in [Objs -> Dsts] /\ kind \in [Objs -> Kinds]
    BY <2>2 DEF Init
  <2>4. recycled = {}
    BY DEF Init
  <2> QED BY <2>1, <2>3, <2>4 DEF ObjType, RecycledOld
<1>2. QueueType /\ QueuesDistinct
  <2>1. <<>> \in Seq(Objs) /\ Distinct(<<>>) /\ Len(<<>>) <= EventsCap
    BY SizeAssumption DEF Distinct
  <2>2. rx \in [Handlers -> Seq(Objs)] /\ \A h \in Handlers : rx[h] = <<>>
    BY <2>1 DEF Init
  <2>3. events = <<>> /\ timed = {} /\ due = {} /\ active = {} /\ toLoop = {} /\ polled = FALSE
    BY DEF Init
  <2> QED BY <2>1, <2>2, <2>3 DEF QueueType, QueuesDistinct
<1>3. HandType /\ HandsHave
  BY DEF Init, HandType, HandsHave
<1>4. MainType /\ MainHas
  <2>1. 1 \in 1..H+1
    BY SizeAssumption
  <2> QED BY <2>1 DEF Init, MainType, MainHas
<1>5. PICK own \in [Objs -> Places] : own = [e \in Objs |-> <<"free", 0>>]
  BY PlaceNames
<1>6. Placed(own)
  BY <1>5 DEF Init, Placed, EventsAt, RxAt, CurrentAt, AddingAt, TimedAt, DueAt, McurAt, MaddAt, FreeAt
<1> QED
  BY <1>1, <1>2, <1>3, <1>4, <1>6, OwnerParts

LEMMA OwnerStep == OwnerInv /\ [Next]_vars => OwnerInv'
<1> SUFFICES ASSUME OwnerInv, [Next]_vars PROVE OwnerInv'
  OBVIOUS
<1>0. /\ ObjType /\ QueueType /\ HandType /\ MainType /\ MainHas /\ HandsHave
  BY OwnerParts
<1>k. "actor" \in Kinds /\ "quit" \in Kinds /\ "interrupt" \in Kinds /\ Nil \in Dsts /\ Handlers \subseteq Dsts
  BY DEF Kinds, Dsts
<1>1. CASE OutsideAdd
  <2>1. PICK e \in Objs, d \in Dsts, k \in Kinds : getLoopEvent(e, k, d) /\ addEventBlocking(e)
    BY <1>1, <1>k DEF OutsideAdd
  <2> QED BY <1>1, <2>1, NewShared DEF OutsideAdd
<1>2. CASE OutsideAddTimed
  <2>1. PICK e \in Objs, d \in Dsts : getLoopEvent(e, "actor", d) /\ timed' = timed \cup {e}
    BY <1>2, <1>k DEF OutsideAddTimed
  <2> QED BY <1>2, <1>k, <2>1, NewShared DEF OutsideAddTimed
<1>3. CASE OutsideInterrupt
  <2>1. PICK e \in Objs : getLoopEvent(e, "interrupt", Nil) /\ addEventNonBlocking(e)
    BY <1>3 DEF OutsideInterrupt
  <2>2. \/ addEventBlocking(e) /\ timed' = timed
        \/ events' = events /\ timed' = timed \cup {e}
    BY <2>1 DEF addEventNonBlocking, addEventBlocking
  <2> QED BY <1>3, <1>k, <2>1, <2>2, NewShared DEF OutsideInterrupt
<1>4. CASE PollersAppear
  <2>1. UNCHANGED <<objVars, handVars, mainVars, events, timed, due, rx, active, toLoop>> /\ polled' = TRUE
    BY <1>4 DEF PollersAppear
  <2>2. HandType' /\ HandsHave' /\ MainType' /\ MainHas'
    BY <1>0, <2>1 DEF HandType, HandsHave, MainType, MainHas, objVars, handVars, mainVars
  <2> QED BY <1>0, <2>1, <2>2, Unmoved DEF handVars, mainVars, QueueType
<1>5. CASE PollerAdd
  <2>1. PICK e \in Objs, d \in Dsts : getLoopEvent(e, "actor", d) /\ addEventNonBlocking(e)
    BY <1>5 DEF PollerAdd
  <2>2. \/ addEventBlocking(e) /\ timed' = timed
        \/ events' = events /\ timed' = timed \cup {e}
    BY <2>1 DEF addEventNonBlocking, addEventBlocking
  <2> QED BY <1>5, <1>k, <2>1, <2>2, NewShared DEF PollerAdd
<1>6. ASSUME NEW h \in Handlers, HandlerAdd(h) PROVE OwnerInv'
  <2>1. PICK e \in Objs, d \in Dsts : getLoopEvent(e, "actor", d) /\ hadd' = [hadd EXCEPT ![h] = e]
    BY <1>6 DEF HandlerAdd
  <2> QED BY <1>6, <1>k, <2>1, HandlerNew DEF HandlerAdd
<1>7. ASSUME NEW h \in Handlers, HandlerPanic(h) PROVE OwnerInv'
  <2>1. PICK e \in Objs : getLoopEvent(e, "quit", Nil) /\ hadd' = [hadd EXCEPT ![h] = e]
    BY <1>7 DEF HandlerPanic
  <2> QED BY <1>7, <1>k, <2>1, HandlerNew DEF HandlerPanic
<1>8. ASSUME NEW h \in Handlers, HandlerStep(h) PROVE OwnerInv'
  BY <1>8, HandlerReceiveStep, HandlerSendStep, HandlerDoneStep, HandlerSignalStep DEF HandlerStep
<1>9. CASE UNCHANGED vars
  <2>1. UNCHANGED <<objVars, handVars, mainVars, events, timed, due, rx, active, toLoop, polled>>
    BY <1>9 DEF vars
  <2>2. HandType' /\ HandsHave' /\ MainType' /\ MainHas'
    BY <1>0, <2>1 DEF HandType, HandsHave, MainType, MainHas, objVars, handVars, mainVars
  <2> QED BY <1>0, <2>1, <2>2, Unmoved DEF handVars, mainVars, QueueType
<1> QED
  BY <1>1, <1>2, <1>3, <1>4, <1>5, <1>6, <1>7, <1>8, <1>9, MainStepOwner, ActionAddStep DEF Next

\* An owner of e is at the place where own says that e is
LEMMA OwnersAt ==
  ASSUME OwnerInv, NEW own \in [Objs -> Places], Placed(own), NEW e \in Objs
  PROVE  \A p \in Owners(e) :
           \/ own[e] = <<"events", 0>> /\ \E i \in DOMAIN events : events[i] = e /\ p = <<"events", 0, i>>
           \/ \E h \in Handlers : own[e] = <<"rx", h>>
                /\ \E i \in DOMAIN rx[h] : rx[h][i] = e /\ p = <<"rx", h, i>>
           \/ \E h \in Handlers : own[e] = <<"current", h>> /\ p = <<"current", h, 0>>
           \/ \E h \in Handlers : own[e] = <<"adding", h>> /\ p = <<"adding", h, 0>>
           \/ \E k \in {"timed", "due", "mcur", "madd"} : own[e] = <<k, 0>> /\ p = <<k, 0, 0>>
<1> SUFFICES ASSUME NEW p \in Owners(e)
             PROVE  \/ own[e] = <<"events", 0>> /\ \E i \in DOMAIN events : events[i] = e /\ p = <<"events", 0, i>>
                    \/ \E h \in Handlers : own[e] = <<"rx", h>>
                         /\ \E i \in DOMAIN rx[h] : rx[h][i] = e /\ p = <<"rx", h, i>>
                    \/ \E h \in Handlers : own[e] = <<"current", h>> /\ p = <<"current", h, 0>>
                    \/ \E h \in Handlers : own[e] = <<"adding", h>> /\ p = <<"adding", h, 0>>
                    \/ \E k \in {"timed", "due", "mcur", "madd"} : own[e] = <<k, 0>> /\ p = <<k, 0, 0>>
  OBVIOUS
<1>e. e # Nil
  BY ObjFacts
<1> DEFINE E == {<<"events", 0, i>> : i \in {j \in DOMAIN events : events[j] = e}}
           R == UNION {{<<"rx", h, i>> : i \in {j \in DOMAIN rx[h] : rx[h][j] = e}} : h \in Handlers}
           C == {<<"current", h, 0>> : h \in {g \in Handlers : hcur[g] = e}}
           A == {<<"adding", h, 0>> : h \in {g \in Handlers : hadd[g] = e}}
           K == {q \in {"timed", "due", "mcur", "madd"} :
                   \/ q = "timed" /\ e \in timed
                   \/ q = "due" /\ e \in due
                   \/ q = "mcur" /\ mcur = e /\ mpc # "setActive"
                   \/ q = "madd" /\ madd = e}
           M == {<<k, 0, 0>> : k \in K}
<1>1. CASE p \in E
  BY <1>1 DEF Placed, EventsAt
<1>2. CASE p \in R
  BY <1>2 DEF Placed, RxAt
<1>3. CASE p \in C
  BY <1>3, <1>e DEF Placed, CurrentAt
<1>4. CASE p \in A
  BY <1>4, <1>e DEF Placed, AddingAt
<1>5. CASE p \in M
  <2>1. PICK k \in K : p = <<k, 0, 0>>
    BY <1>5
  <2>2. own[e] = <<k, 0>>
    BY <1>e DEF Placed, TimedAt, DueAt, McurAt, MaddAt
  <2> QED BY <2>1, <2>2
<1>6. p \in E \/ p \in R \/ p \in C \/ p \in A \/ p \in M
  BY DEF Owners
<1> HIDE DEF E, R, C, A, M
<1> QED
  BY <1>1, <1>2, <1>3, <1>4, <1>5, <1>6

LEMMA OwnerInvOneOwner == OwnerInv => OneOwner
<1> SUFFICES ASSUME OwnerInv, NEW e \in Objs
             PROVE  /\ \A p, q \in Owners(e) : p = q
                    /\ e \in recycled \/ e > nAlloc => Owners(e) = {}
  BY DEF OneOwner
<1>own. PICK own \in [Objs -> Places] : Placed(own)
  BY DEF OwnerInv
<1>d. QueuesDistinct
  BY DEF OwnerInv
<1>1. ASSUME NEW p \in Owners(e), NEW q \in Owners(e) PROVE p = q
  <2>1. CASE own[e] = <<"events", 0>>
    <3>1. PICK i \in DOMAIN events : events[i] = e /\ p = <<"events", 0, i>>
      BY <1>own, <2>1, OwnersAt
    <3>2. PICK j \in DOMAIN events : events[j] = e /\ q = <<"events", 0, j>>
      BY <1>own, <2>1, OwnersAt
    <3> QED BY <1>d, <3>1, <3>2 DEF QueuesDistinct, Distinct
  <2>2. ASSUME NEW h \in Handlers, own[e] = <<"rx", h>> PROVE p = q
    <3>1. PICK i \in DOMAIN rx[h] : rx[h][i] = e /\ p = <<"rx", h, i>>
      BY <1>own, <2>2, OwnersAt
    <3>2. PICK j \in DOMAIN rx[h] : rx[h][j] = e /\ q = <<"rx", h, j>>
      BY <1>own, <2>2, OwnersAt
    <3> QED BY <1>d, <3>1, <3>2 DEF QueuesDistinct, Distinct
  <2>3. CASE own[e] # <<"events", 0>> /\ \A h \in Handlers : own[e] # <<"rx", h>>
    BY <1>own, <2>3, OwnersAt
  <2> QED BY <2>1, <2>2, <2>3
<1>2. ASSUME e \in recycled \/ e > nAlloc PROVE Owners(e) = {}
  <2>1. own[e] = <<"free", 0>>
    BY <1>own, <1>2 DEF Placed, FreeAt
  <2> QED BY <1>own, <2>1, OwnersAt
<1> QED
  BY <1>1, <1>2

\* A loopEvent is always at one place: in l.events, in the rxEvents of one node, among the
\* timed events, in eventVec, in the hands of one goroutine, or recycled.
THEOREM OwnerInvHolds == Spec => []OwnerInv
BY OwnerInit, OwnerStep, PTL DEF Spec

LEMMA OwnerInvTypeOK == OwnerInv => TypeOK
BY DEF OwnerInv

\* l.events never holds more events than it has room for (addEvent diverts the others), and
\* what handlers and main have in hand are objects that were allocated (TypeOK).
THEOREM TypeCorrect == Spec => []TypeOK
BY OwnerInvHolds, OwnerInvTypeOK, PTL

\* A loopEvent has one owner at a time, whatever the sync.Pool returns and however small the
\* channels are: no event is delivered twice and none is used after putLoopEvent.
THEOREM OneOwnerHolds == Spec => []OneOwner
BY OwnerInvHolds, OwnerInvOneOwner, PTL

-----------------------------------------------------------------------------
(* Waiting for a handler *)

\* Something of h's is still to come, or is in its channel
HasSource(h) == h \in toLoop \/ Busy(h)

\* main is about to set the active bit of the handler that it gave the event to
SourceInv ==
  /\ WaitHasSource
  /\ mpc = "setActive" => \E h \in Handlers : dst[mcur] \in {h, Nil} /\ HasSource(h)

\* A step of a handler, or of another goroutine than main, takes no source away
LEMMA SourceKept ==
  ASSUME OwnerInv,
         \/ \E h \in Handlers : HandlerStep(h) \/ HandlerAdd(h) \/ HandlerPanic(h)
         \/ OutsideAdd \/ OutsideAddTimed \/ OutsideInterrupt \/ PollersAppear \/ PollerAdd
         \/ UNCHANGED vars
  PROVE  /\ \A h \in Handlers : HasSource(h) => HasSource(h)'
         /\ UNCHANGED <<active, mpc, at, mcur>>
<1>0. HandType
  BY OwnerParts
<1>1. ASSUME NEW g \in Handlers, HandlerReceive(g) \/ HandlerSend(g) \/ HandlerDone(g)
                                 \/ HandlerAdd(g) \/ HandlerPanic(g)
      PROVE  /\ \A h \in Handlers : HasSource(h) => HasSource(h)'
             /\ UNCHANGED <<active, mpc, at, mcur>>
  <2>1. /\ UNCHANGED <<toLoop, active, mainVars>> /\ hpc'[g] # "idle"
        /\ \A h \in Handlers \ {g} : hpc'[h] = hpc[h] /\ rx'[h] = rx[h]
    <3>0. rx \in [Handlers -> Seq(Objs)]
      BY OwnerParts DEF QueueType
    <3>1. CASE HandlerReceive(g)
      BY <1>0, <3>0, <3>1 DEF HandlerReceive, HandType
    <3>2. CASE HandlerSend(g)
      BY <1>0, <3>2 DEF HandlerSend, HandType
    <3>3. CASE HandlerDone(g) \/ HandlerAdd(g) \/ HandlerPanic(g)
      BY <1>0, <3>3 DEF HandlerDone, HandlerAdd, HandlerPanic, HandType
    <3> QED BY <1>1, <3>1, <3>2, <3>3
  <2> QED BY <2>1 DEF HasSource, Busy, mainVars
<1>2. ASSUME NEW g \in Handlers, HandlerSignal(g)
      PROVE  /\ \A h \in Handlers : HasSource(h) => HasSource(h)'
             /\ UNCHANGED <<active, mpc, at, mcur>>
  BY <1>0, <1>2 DEF HandlerSignal, HasSource, Busy, HandType, mainVars
<1>3. CASE \/ OutsideAdd \/ OutsideAddTimed \/ OutsideInterrupt \/ PollersAppear \/ PollerAdd
           \/ UNCHANGED vars
  <2>1. UNCHANGED <<toLoop, active, rx, handVars, mainVars>>
    BY <1>3 DEF OutsideAdd, OutsideAddTimed, OutsideInterrupt, PollersAppear, PollerAdd, vars
  <2> QED BY <2>1 DEF HasSource, Busy, handVars, mainVars
<1> QED
  BY <1>1, <1>2, <1>3 DEF HandlerStep

\* Without reuse an allocated object keeps its dst
LEMMA DstKept ==
  ASSUME OwnerInv, ~PoolReuse, [Next]_vars, NEW e \in Objs, e <= nAlloc
  PROVE  dst'[e] = dst[e]
<1>0. ObjType
  BY OwnerParts
<1>1. ASSUME NEW x \in Objs, NEW k, NEW d, getLoopEvent(x, k, d) PROVE dst'[e] = dst[e]
  <2>1. x = nAlloc + 1 /\ dst' = [dst EXCEPT ![x] = d]
    BY <1>1 DEF getLoopEvent
  <2>2. x # e
    BY <1>0, <2>1, ObjFacts
  <2> QED BY <1>0, <2>1, <2>2 DEF ObjType
<1>2. ASSUME dst' = dst PROVE dst'[e] = dst[e]
  BY <1>2
<1>3. CASE OutsideAdd \/ OutsideAddTimed \/ OutsideInterrupt \/ PollerAdd \/ ActionAdd
  BY <1>1, <1>3 DEF OutsideAdd, OutsideAddTimed, OutsideInterrupt, PollerAdd, ActionAdd
<1>4. CASE \E h \in Handlers : HandlerAdd(h) \/ HandlerPanic(h)
  BY <1>1, <1>4 DEF HandlerAdd, HandlerPanic
<1>5. CASE \E h \in Handlers : HandlerStep(h)
  BY <1>5 DEF HandlerStep, HandlerReceive, HandlerSend, HandlerDone, HandlerSignal, putLoopEvent, objVars
<1>6. CASE MainStep
  BY <1>6 DEF MainStep, DoEvents, Select, Deliver, SetActive, ActionSend, ActionDone, Advance, Timed,
              Wait, WaitClear, DoPollers, putLoopEvent, objVars
<1>7. CASE PollersAppear \/ UNCHANGED vars
  BY <1>7 DEF PollersAppear, vars, objVars
<1> QED
  BY <1>3, <1>4, <1>5, <1>6, <1>7 DEF Next

\* While main is about to set the bit, dst stays the handler it was, or becomes nil
LEMMA DstStays ==
  ASSUME PoolReuse => H = 1, OwnerInv, OwnerInv', [Next]_vars, mpc = "setActive",
         NEW h \in Handlers, dst[mcur] \in {h, Nil}
  PROVE  dst'[mcur] \in {h, Nil}
<1>1. mcur \in Objs /\ mcur <= nAlloc
  BY OwnerParts DEF MainType, MainHas
<1>2. CASE PoolReuse
  <2>1. H = 1 /\ h = 1
    BY <1>2 DEF Handlers
  <2>2. dst'[mcur] \in {1, Nil}
    BY <1>1, <2>1 DEF OwnerInv, TypeOK, Dsts, Handlers
  <2> QED BY <2>1, <2>2
<1>3. CASE ~PoolReuse
  BY <1>1, <1>3, DstKept
<1> QED BY <1>2, <1>3

LEMMA SourceStep ==
  ASSUME PoolReuse => H = 1, OwnerInv, OwnerInv', SourceInv, [Next]_vars
  PROVE  SourceInv'
<1>0. ObjType /\ QueueType /\ HandType /\ MainType /\ MainHas
  BY OwnerParts
<1>d. ASSUME mpc = "setActive", mcur' = mcur, NEW h \in Handlers, dst[mcur] \in {h, Nil}
      PROVE  dst'[mcur] \in {h, Nil}
  BY <1>d, DstStays
<1>1. ASSUME \/ \E h \in Handlers : HandlerStep(h) \/ HandlerAdd(h) \/ HandlerPanic(h)
             \/ OutsideAdd \/ OutsideAddTimed \/ OutsideInterrupt \/ PollersAppear \/ PollerAdd
             \/ UNCHANGED vars
      PROVE  SourceInv'
  <2>1. /\ \A h \in Handlers : HasSource(h) => HasSource(h)'
        /\ UNCHANGED <<active, mpc, at, mcur>>
    BY <1>1, SourceKept
  <2>2. WaitHasSource'
    BY <1>0, <2>1 DEF SourceInv, WaitHasSource, HasSource, QueueType
  <2>3. ASSUME mpc' = "setActive" PROVE \E h \in Handlers : dst'[mcur'] \in {h, Nil} /\ HasSource(h)'
    <3>1. PICK h \in Handlers : dst[mcur] \in {h, Nil} /\ HasSource(h)
      BY <2>1, <2>3 DEF SourceInv
    <3> QED BY <1>d, <2>1, <2>3, <3>1
  <2> QED BY <2>2, <2>3 DEF SourceInv
<1>2. CASE Deliver
  <2>1. mcur \in Objs /\ dst[mcur] \in Handlers
    BY <1>0, <1>2 DEF Deliver, MainType, MainHas, ObjType, Dsts
  <2>2. /\ rx' = [rx EXCEPT ![dst[mcur]] = Append(rx[dst[mcur]], mcur)] /\ mpc' = "setActive"
        /\ UNCHANGED <<dst, mcur, hpc, active, toLoop>> /\ mpc = "deliver"
    BY <1>2 DEF Deliver, Goto, objVars, handVars
  <2>3. rx'[dst[mcur]] # <<>> /\ \A h \in Handlers : rx[h] # <<>> => rx'[h] # <<>>
    <3>1. rx[dst[mcur]] \in Seq(Objs)
      BY <1>0, <2>1 DEF QueueType
    <3>2. Append(rx[dst[mcur]], mcur) # <<>>
      BY <2>1, <3>1
    <3> QED BY <1>0, <2>1, <2>2, <3>2 DEF QueueType
  <2>4. HasSource(dst[mcur])' /\ WaitHasSource'
    BY <1>0, <2>1, <2>2, <2>3 DEF SourceInv, WaitHasSource, HasSource, Busy, QueueType
  <2> QED BY <2>1, <2>2, <2>4 DEF SourceInv, HasSource, Busy
<1>3. CASE SetActive
  <2>1. /\ mpc = "setActive" /\ mpc' # "setActive" /\ UNCHANGED <<rx, hpc, toLoop>>
        /\ active' = active \/ (active' = active \cup {dst[mcur]} /\ dst[mcur] # Nil)
    BY <1>3 DEF SetActive, Goto, AfterEvent, handVars
  <2> QED BY <1>0, <2>1 DEF SourceInv, WaitHasSource, HasSource, Busy, QueueType
<1>4. CASE Wait
  <2>1. /\ mpc = "wait" /\ mpc' # "setActive" /\ UNCHANGED <<rx, hpc, active>>
        /\ toLoop' = toLoop \/ (toLoop' = toLoop \ {at} /\ mpc' = "clear" /\ at' = at)
    BY <1>4 DEF Wait, Goto, handVars
  <2> QED BY <1>0, <2>1 DEF SourceInv, WaitHasSource, Busy, QueueType
<1>5. CASE WaitClear
  <2>1. /\ mpc' # "setActive" /\ UNCHANGED <<rx, hpc, toLoop>> /\ active' = active \ {at}
    BY <1>5 DEF WaitClear, Goto, handVars
  <2> QED BY <1>0, <2>1 DEF SourceInv, WaitHasSource, Busy, QueueType
<1>6. ASSUME \/ DoEvents \/ Select \/ ActionSend \/ ActionAdd \/ ActionDone \/ Advance \/ Timed \/ DoPollers
      PROVE  SourceInv'
  <2>1. mpc' # "setActive" /\ mpc # "clear" /\ UNCHANGED <<rx, hpc, toLoop, active>>
    <3>1. CASE DoEvents \/ Select
      BY <3>1 DEF DoEvents, Select, Received, Goto, handVars
    <3>2. CASE ActionSend \/ ActionAdd \/ ActionDone \/ Advance \/ Timed \/ DoPollers
      BY <3>2 DEF ActionSend, ActionAdd, ActionDone, Advance, Timed, DoPollers, AfterEvent, Goto, handVars
    <3> QED BY <1>6, <3>1, <3>2
  <2> QED BY <1>0, <2>1 DEF SourceInv, WaitHasSource, Busy, QueueType
<1> QED
  BY <1>1, <1>2, <1>3, <1>4, <1>5, <1>6 DEF Next, MainStep

\* main never waits for a token of a handler that has nothing to report (Wait of event.go
\* cannot block for good), for any number of handlers when an object is not used again
\* while main may still set its handler's active bit; with a sync.Pool that hands objects
\* out again it holds for one handler, and the run of finding recycled_event shows that
\* it fails for two.
THEOREM WaitHasSourceHolds ==
  ASSUME PoolReuse => H = 1
  PROVE  Spec => []WaitHasSource
<1>1. Init => SourceInv
  BY DEF Init, SourceInv, WaitHasSource
<1>2. OwnerInv /\ OwnerInv' /\ SourceInv /\ [Next]_vars => SourceInv'
  BY SourceStep
<1>3. SourceInv => WaitHasSource
  BY DEF SourceInv
<1> QED
  BY <1>1, <1>2, <1>3, OwnerInvHolds, PTL DEF Spec

-----------------------------------------------------------------------------
(* The turn of the pollers *)

\* h is parked on rxEvents and main owes it nothing
Quiet(h) == ~Busy(h) /\ h \notin toLoop
AllQuiet == \A h \in Handlers : Quiet(h)

\* h has one event, in its queue or in its hands, or the token that it is done
OneJob(h) ==
  \/ Len(rx[h]) = 1 /\ hpc[h] = "idle" /\ h \notin toLoop
  \/ rx[h] = <<>> /\ (hpc[h] # "idle" <=> h \notin toLoop)
OneAtWork(h) == OneJob(h) /\ \A g \in Handlers \ {h} : Quiet(g)

\* A handler is at work from the time main delivers its event until main has waited for it,
\* and main delivers no other event in between
TurnInv ==
  /\ timed = {} /\ due = {} /\ ctx # "timed"
  /\ mpc \in {"doEvents", "select", "deliver", "action", "adding", "poll"} => active = {} /\ AllQuiet
  /\ mpc = "setActive" => active = {} /\ \E h \in Handlers : dst[mcur] \in {h, Nil} /\ OneAtWork(h)
  /\ mpc \in {"advance", "timed", "wait"} =>
       \/ active = {} /\ AllQuiet
       \/ \E h \in Handlers : active = {h} /\ OneAtWork(h) /\ (mpc = "wait" => at <= h)
  /\ mpc = "clear" => active = {at} /\ AllQuiet

\* With as much room as there are objects, l.events is never full for a new one
LEMMA Room ==
  ASSUME OwnerInv, EventsCap >= MaxEvents, NEW e \in Objs, NEW k, NEW d, getLoopEvent(e, k, d)
  PROVE  Len(events) < EventsCap
<1>0. ObjType /\ QueueType /\ QueuesDistinct
  BY OwnerParts
<1>own. PICK own \in [Objs -> Places] : Placed(own)
  BY DEF OwnerInv
<1>1. own[e] = <<"free", 0>>
  <2>1. e \in recycled \/ e > nAlloc
    BY <1>0, ObjFacts DEF getLoopEvent
  <2> QED BY <1>own, <2>1 DEF Placed, FreeAt
<1>2. \A i \in DOMAIN events : events[i] # e
  BY <1>0, <1>own, <1>1, Apart
<1>3. events \in [1..Len(events) -> Objs \ {e}] /\ Len(events) \in Nat
  BY <1>0, <1>2 DEF QueueType
<1>4. IsFiniteSet(Objs) /\ Cardinality(Objs) = MaxEvents
  BY ObjFacts, FS_Interval DEF Objs
<1>5. IsFiniteSet(Objs \ {e}) /\ Cardinality(Objs \ {e}) = MaxEvents - 1
  BY <1>4, FS_RemoveElement
<1>6. IsFiniteSet(1..Len(events)) /\ Cardinality(1..Len(events)) = Len(events)
  <2>1. 1 \in Int /\ Len(events) \in Int
    BY <1>3
  <2>2. /\ IsFiniteSet(1..Len(events))
        /\ Cardinality(1..Len(events)) = IF 1 > Len(events) THEN 0 ELSE Len(events) - 1 + 1
    BY <2>1, FS_Interval, Zenon
  <2> QED BY <1>3, <2>2
<1>7. ASSUME Len(events) >= MaxEvents PROVE FALSE
  <2>1. Cardinality(Objs \ {e}) < Cardinality(1..Len(events))
    BY <1>3, <1>5, <1>6, <1>7, ObjFacts
  <2>2. \E x, y \in 1..Len(events) : x # y /\ events[x] = events[y]
    BY <1>3, <1>5, <1>6, <2>1, FS_PigeonHole
  <2> QED BY <1>0, <1>3, <2>2 DEF QueuesDistinct, Distinct
<1> QED
  BY <1>3, <1>7, ObjFacts, SizeAssumption

\* A step of a handler is one of a handler that is not parked, and leaves it its one job
LEMMA HandlerWorks ==
  ASSUME OwnerInv, NEW g \in Handlers, HandlerStep(g) \/ HandlerAdd(g) \/ HandlerPanic(g)
  PROVE  /\ ~Quiet(g)
         /\ OneJob(g) => OneJob(g)'
         /\ \A h \in Handlers \ {g} : Quiet(h) => Quiet(h)'
         /\ UNCHANGED <<active, timed, due, mainVars>>
<1>0. HandType /\ QueueType
  BY OwnerParts
<1>r. rx[g] \in Seq(Objs) /\ Len(rx[g]) \in Nat
  BY <1>0 DEF QueueType
<1>1. CASE HandlerReceive(g)
  <2>1. /\ hpc[g] = "idle" /\ rx[g] # <<>> /\ hpc'[g] = "running" /\ rx'[g] = Tail(rx[g])
        /\ \A h \in Handlers \ {g} : hpc'[h] = hpc[h] /\ rx'[h] = rx[h]
        /\ UNCHANGED <<toLoop, active, timed, due, mainVars>>
    BY <1>0, <1>1 DEF HandlerReceive, HandType, QueueType
  <2>2. Len(rx[g]) = 1 => Tail(rx[g]) = <<>>
    <3>1. rx[g] # <<>> => Tail(rx[g]) \in Seq(Objs) /\ Len(Tail(rx[g])) = Len(rx[g]) - 1
      BY <1>r, TailFacts
    <3>2. \A s \in Seq(Objs) : Len(s) = 0 => s = <<>>
      OBVIOUS
    <3>3. Len(rx[g]) = 1 => Len(Tail(rx[g])) = 0
      BY <2>1, <3>1
    <3> QED BY <2>1, <3>1, <3>2, <3>3, Zenon
  <2> QED BY <2>1, <2>2 DEF Quiet, Busy, OneJob
<1>2. CASE HandlerSend(g) \/ HandlerDone(g) \/ HandlerAdd(g) \/ HandlerPanic(g)
  <2>1. /\ hpc[g] # "idle" /\ hpc'[g] # "idle"
        /\ \A h \in Handlers \ {g} : hpc'[h] = hpc[h]
        /\ UNCHANGED <<rx, toLoop, active, timed, due, mainVars>>
    <3>1. CASE HandlerSend(g)
      BY <1>0, <3>1 DEF HandlerSend, HandType
    <3>2. CASE HandlerDone(g) \/ HandlerAdd(g) \/ HandlerPanic(g)
      BY <1>0, <3>2 DEF HandlerDone, HandlerAdd, HandlerPanic, HandType
    <3> QED BY <1>2, <3>1, <3>2
  <2> QED BY <2>1 DEF Quiet, Busy, OneJob
<1>3. CASE HandlerSignal(g)
  <2>1. /\ hpc[g] = "signal" /\ hpc'[g] = "idle" /\ toLoop' = toLoop \cup {g} /\ g \notin toLoop
        /\ \A h \in Handlers \ {g} : hpc'[h] = hpc[h]
        /\ UNCHANGED <<rx, active, timed, due, mainVars>>
    BY <1>0, <1>3 DEF HandlerSignal, HandType
  <2> QED BY <2>1 DEF Quiet, Busy, OneJob
<1> QED
  BY <1>1, <1>2, <1>3 DEF HandlerStep


\* What the other goroutines add is not diverted
LEMMA OthersAdd ==
  ASSUME OwnerInv, EventsCap >= MaxEvents, "timed" \notin Sources,
         OutsideAdd \/ OutsideAddTimed \/ OutsideInterrupt \/ PollersAppear \/ PollerAdd \/ UNCHANGED vars
  PROVE  UNCHANGED <<timed, due, rx, active, toLoop, handVars, mainVars>>
<1>1. ASSUME NEW e \in Objs, NEW k, NEW d, getLoopEvent(e, k, d), addEventNonBlocking(e)
      PROVE  timed' = timed
  BY <1>1, Room DEF addEventNonBlocking
<1>2. CASE OutsideInterrupt
  BY <1>1, <1>2 DEF OutsideInterrupt
<1>3. CASE PollerAdd
  BY <1>1, <1>3 DEF PollerAdd
<1>4. CASE OutsideAdd \/ OutsideAddTimed \/ PollersAppear \/ UNCHANGED vars
  BY <1>4 DEF OutsideAdd, OutsideAddTimed, PollersAppear, vars
<1> QED
  BY <1>2, <1>3, <1>4

\* Steps of main that touch neither a handler's queue nor its token nor its active bit
LEMMA TurnMoves ==
  ASSUME OwnerInv, TurnInv,
         DoEvents \/ Select \/ ActionAdd \/ ActionSend \/ ActionDone \/ Advance \/ Timed \/ DoPollers
  PROVE  TurnInv'
<1>0. QueueType
  BY OwnerParts
<1>1. /\ UNCHANGED <<rx, hpc, toLoop, active>> /\ timed' = {} /\ due' = {}
      /\ ctx' # "timed"
      /\ \/ /\ mpc \in {"doEvents", "select", "action", "adding", "poll"}
            /\ mpc' \in {"doEvents", "select", "deliver", "action", "adding", "poll", "advance", "exit"}
         \/ mpc = "advance" /\ mpc' = "timed"
         \/ mpc = "timed" /\ mpc' = "wait" /\ at' = 1
  <2>1. CASE DoEvents \/ Select
    BY <2>1 DEF TurnInv, DoEvents, Select, Received, Goto, handVars
  <2>2. CASE ActionAdd \/ ActionSend \/ ActionDone \/ DoPollers
    BY <2>2 DEF TurnInv, ActionAdd, ActionSend, ActionDone, DoPollers, AfterEvent, Goto, handVars
  <2>3. CASE Advance \/ Timed
    BY <2>3 DEF TurnInv, Advance, Timed, Goto, handVars
  <2> QED BY <2>1, <2>2, <2>3
<1>2. \A h \in Handlers : (Quiet(h) <=> Quiet(h)') /\ (OneJob(h) <=> OneJob(h)')
  BY <1>1 DEF Quiet, Busy, OneJob
<1>3. (AllQuiet <=> AllQuiet') /\ \A h \in Handlers : OneAtWork(h) <=> OneAtWork(h)'
  BY <1>2 DEF AllQuiet, OneAtWork
<1>4. \A h \in Handlers : 1 <= h
  BY DEF Handlers
<1>5. CASE /\ mpc \in {"doEvents", "select", "action", "adding", "poll"}
           /\ mpc' \in {"doEvents", "select", "deliver", "action", "adding", "poll", "advance", "exit"}
  BY <1>1, <1>3, <1>5 DEF TurnInv
<1>6. CASE mpc = "advance" /\ mpc' = "timed"
  BY <1>1, <1>3, <1>6 DEF TurnInv
<1>7. CASE mpc = "timed" /\ mpc' = "wait" /\ at' = 1
  BY <1>1, <1>3, <1>4, <1>7 DEF TurnInv
<1> QED
  BY <1>1, <1>5, <1>6, <1>7

LEMMA TurnDeliver ==
  ASSUME OwnerInv, TurnInv, Deliver
  PROVE  TurnInv'
<1>0. ObjType /\ QueueType /\ MainType /\ MainHas
  BY OwnerParts
<1>1. PICK h \in Handlers : dst[mcur] = h
  BY <1>0 DEF Deliver, MainType, MainHas, ObjType, Dsts
<1>2. /\ rx' = [rx EXCEPT ![h] = Append(rx[h], mcur)] /\ mpc = "deliver" /\ mpc' = "setActive"
      /\ UNCHANGED <<timed, due, ctx, active, dst, mcur, hpc, toLoop>>
  BY <1>1 DEF Deliver, Goto, objVars, handVars
<1>3. active = {} /\ \A g \in Handlers : hpc[g] = "idle" /\ rx[g] = <<>> /\ g \notin toLoop
  BY <1>2 DEF TurnInv, AllQuiet, Quiet, Busy
<1>4. Len(rx'[h]) = 1 /\ \A g \in Handlers \ {h} : rx'[g] = rx[g]
  <2>1. mcur \in Objs /\ rx[h] \in Seq(Objs) /\ Len(rx[h]) = 0
    BY <1>0, <1>2, <1>3 DEF MainType, MainHas, QueueType
  <2>2. Len(Append(rx[h], mcur)) = 1
    BY <2>1, AppendFacts
  <2> QED BY <1>0, <1>2, <2>2 DEF QueueType
<1>5. OneAtWork(h)'
  BY <1>2, <1>3, <1>4 DEF OneAtWork, OneJob, Quiet, Busy
<1> QED
  BY <1>1, <1>2, <1>3, <1>5 DEF TurnInv

LEMMA TurnSetActive ==
  ASSUME OwnerInv, TurnInv, SetActive
  PROVE  TurnInv'
<1>1. /\ mpc = "setActive" /\ UNCHANGED <<timed, due, ctx, rx, hpc, toLoop>>
      /\ \/ dst[mcur] = Nil /\ mpc' = "panic"
         \/ dst[mcur] # Nil /\ mpc' = "advance" /\ active' = active \cup {dst[mcur]}
  BY DEF TurnInv, SetActive, Goto, AfterEvent, handVars
<1>2. CASE mpc' = "panic"
  BY <1>1, <1>2 DEF TurnInv
<1>3. CASE dst[mcur] # Nil /\ mpc' = "advance" /\ active' = active \cup {dst[mcur]}
  <2>1. PICK h \in Handlers : dst[mcur] = h /\ OneAtWork(h) /\ active = {}
    BY <1>1, <1>3 DEF TurnInv
  <2>2. OneAtWork(h)' /\ active' = {h}
    BY <1>1, <1>3, <2>1 DEF OneAtWork, OneJob, Quiet, Busy
  <2> QED BY <1>1, <1>3, <2>2 DEF TurnInv
<1> QED
  BY <1>1, <1>2, <1>3

LEMMA TurnWait ==
  ASSUME OwnerInv, TurnInv, Wait
  PROVE  TurnInv'
<1>0. QueueType /\ MainType
  BY OwnerParts
<1>1. /\ mpc = "wait" /\ UNCHANGED <<timed, due, ctx, rx, hpc, active>>
      /\ \/ at > H /\ mpc' = "poll" /\ toLoop' = toLoop
         \/ at <= H /\ at \notin active /\ at' = at + 1 /\ mpc' = "wait" /\ toLoop' = toLoop
         \/ at \in active /\ at \in toLoop /\ toLoop' = toLoop \ {at} /\ mpc' = "clear" /\ at' = at
  BY DEF Wait, Goto, handVars
<1>2. CASE active = {} /\ AllQuiet
  <2>1. toLoop' = toLoop /\ mpc' \in {"poll", "wait"}
    BY <1>1, <1>2
  <2>2. AllQuiet'
    BY <1>1, <1>2, <2>1 DEF AllQuiet, Quiet, Busy
  <2> QED BY <1>1, <1>2, <2>1, <2>2 DEF TurnInv
<1>3. ASSUME NEW h \in Handlers, active = {h}, OneAtWork(h), at <= h PROVE TurnInv'
  <2>1. h \in Int /\ h <= H /\ at \in Int /\ H \in Int
    BY <1>0, SizeAssumption DEF Handlers, MainType
  <2>2. CASE at \notin active
    <3>1. at' = at + 1 /\ mpc' = "wait" /\ toLoop' = toLoop /\ at # h
      BY <1>1, <1>3, <2>1, <2>2
    <3>2. OneAtWork(h)' /\ active' = {h} /\ at' <= h
      BY <1>1, <1>3, <2>1, <3>1 DEF OneAtWork, OneJob, Quiet, Busy
    <3> QED BY <1>1, <3>1, <3>2 DEF TurnInv
  <2>3. CASE at \in active
    <3>1. at = h /\ h \in toLoop /\ toLoop' = toLoop \ {h} /\ mpc' = "clear" /\ at' = h
      BY <1>1, <1>3, <2>1, <2>3
    <3>2. AllQuiet'
      BY <1>1, <1>3, <3>1 DEF AllQuiet, OneAtWork, OneJob, Quiet, Busy
    <3> QED BY <1>1, <1>3, <3>1, <3>2 DEF TurnInv
  <2> QED BY <2>2, <2>3
<1> QED
  BY <1>1, <1>2, <1>3 DEF TurnInv

LEMMA TurnStep ==
  ASSUME PoolReuse => H = 1, EventsCap >= MaxEvents, "timed" \notin Sources,
         OwnerInv, OwnerInv', TurnInv, [Next]_vars
  PROVE  TurnInv'
<1>d. ASSUME mpc = "setActive", NEW h \in Handlers, dst[mcur] \in {h, Nil}
      PROVE  dst'[mcur] \in {h, Nil}
  BY <1>d, DstStays
<1>1. CASE OutsideAdd \/ OutsideAddTimed \/ OutsideInterrupt \/ PollersAppear \/ PollerAdd \/ UNCHANGED vars
  <2>1. UNCHANGED <<timed, due, rx, active, toLoop, handVars, mainVars>>
    BY <1>1, OthersAdd
  <2>2. UNCHANGED <<timed, due, active, ctx, mpc, mcur, at>>
    BY <2>1 DEF mainVars
  <2>3. (AllQuiet <=> AllQuiet') /\ \A h \in Handlers : OneAtWork(h) <=> OneAtWork(h)'
    BY <2>1 DEF handVars, AllQuiet, OneAtWork, OneJob, Quiet, Busy
  <2> QED BY <1>d, <2>2, <2>3 DEF TurnInv
<1>2. ASSUME NEW g \in Handlers, HandlerStep(g) \/ HandlerAdd(g) \/ HandlerPanic(g) PROVE TurnInv'
  <2>1. /\ ~Quiet(g) /\ (OneJob(g) => OneJob(g)') /\ \A h \in Handlers \ {g} : Quiet(h) => Quiet(h)'
        /\ UNCHANGED <<active, timed, due, mainVars>>
    BY <1>2, HandlerWorks
  <2>2. UNCHANGED <<timed, due, active, ctx, mpc, mcur, at>>
    BY <2>1 DEF mainVars
  <2>3. ~AllQuiet /\ \A h \in Handlers : OneAtWork(h) => OneAtWork(h)'
    BY <2>1 DEF AllQuiet, OneAtWork
  <2> QED BY <1>d, <2>2, <2>3 DEF TurnInv
<1>3. CASE WaitClear
  <2>1. /\ mpc = "clear" /\ mpc' = "wait" /\ active' = active \ {at}
        /\ UNCHANGED <<timed, due, ctx, rx, hpc, toLoop>>
    BY <1>3 DEF WaitClear, Goto, handVars
  <2> QED BY <2>1 DEF TurnInv, AllQuiet, Quiet, Busy
<1>4. CASE DoEvents \/ Select \/ ActionAdd \/ ActionSend \/ ActionDone \/ Advance \/ Timed \/ DoPollers
  BY <1>4, TurnMoves
<1>5. CASE Deliver \/ SetActive \/ Wait
  BY <1>5, TurnDeliver, TurnSetActive, TurnWait
<1> QED
  BY <1>1, <1>2, <1>3, <1>4, <1>5 DEF Next, MainStep

\* "Wait for all event handlers to become inactive." (doEvents of event.go): when the
\* pollers run, every handler is parked and its queue is empty, if no events are timed,
\* l.events has room for all of them, and no object is used again while main may still set
\* its handler's active bit.  The runs of findings handler_two_events and recycled_event
\* show that it fails with timed events, and with reuse among several handlers.
THEOREM HandlersExcludePollingHolds ==
  ASSUME PoolReuse => H = 1, EventsCap >= MaxEvents, "timed" \notin Sources
  PROVE  Spec => []HandlersExcludePolling
<1>1. Init => TurnInv
  BY DEF Init, TurnInv, AllQuiet, Quiet, Busy
<1>2. OwnerInv /\ OwnerInv' /\ TurnInv /\ [Next]_vars => TurnInv'
  BY TurnStep
<1>3. TurnInv => HandlersExcludePolling
  BY DEF TurnInv, HandlersExcludePolling, AllQuiet, Quiet
<1> QED
  BY <1>1, <1>2, <1>3, OwnerInvHolds, PTL DEF Spec

=============================================================================
