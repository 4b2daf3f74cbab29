----------------------------- MODULE ElogProofs -----------------------------
(***************************************************************************)
(* Theorems about Elog, for any number of writers and controllers and a    *)
(* buffer of any length: the lock bit excludes, logging stops when it was  *)
(* told to, and a view that was begun in a quiet moment is exact.          *)
(***************************************************************************)
EXTENDS Elog, FiniteSetTheorems, SequenceTheorems, TLAPS

-----------------------------------------------------------------------------
(* The inductive invariant *)

\* Writers that may still claim a slot without another look at disableIndex
PassedTest ==
  {w \in Writers : \/ wpc[w] \in {"load", "cas"}
                   \/ wpc[w] = "enabled" /\ wload[w] < disableIndex}

\* As many events are logged after the limit as writers have passed the test
StopInv == index + Cardinality(PassedTest) <= disableIndex + Cardinality(Writers)

\* A slot that was not lapped has one writer at most
OneWriter ==
  \A v, w \in Writers :
    Writing(v) /\ Writing(w) /\ wevent[v].slot = wevent[w].slot /\ wevent[w].slot \notin lapped
      => v = w

\* w writes the event with the number m into slot s, the header is there first
WritesTo(w, s, m) ==
  /\ Writing(w) /\ wevent[w].slot = s /\ wevent[w].number = m
  /\ wpc[w] = "data" => events[s].header = m

Whole(m) == [header |-> m, data |-> m]

\* The slot s holds the event m, or its writer is about to finish it
Holds(s, m) ==
  \/ \E w \in Writers : WritesTo(w, s, m)
  \/ /\ events[s] = Whole(m)
     /\ \A w \in Writers : Writing(w) => wevent[w].slot # s

\* The last Cap events are in their slots, but for those that were lapped
BufferInv ==
  /\ Len(logged) = index
  /\ \A i \in Nat : i < index /\ index - Cap <= i /\ Slot(i) \notin lapped
                      => Holds(Slot(i), logged[i + 1])

\* A quiet view has the slots it has copied as they still are
ViewInv ==
  \A c \in Controllers : quiet[c] =>
    /\ cpc[c] = <<"view", "copy">>
    /\ lapped = {} /\ \A w \in Writers : ~Writing(w)
    /\ view[c].of = Last(logged, Cap)
    /\ Len(view[c].events) + Len(view[c].todo) = Len(ViewSlots(index))
    /\ \A k \in 1..Len(view[c].events) : view[c].events[k] = events[ViewSlots(index)[k]]
    /\ \A k \in 1..Len(view[c].todo) :
         view[c].todo[k] = ViewSlots(index)[Len(view[c].events) + k]

IInv == TypeOK /\ LockExcludes /\ StopInv /\ OneWriter /\ BufferInv /\ ViewInv

-----------------------------------------------------------------------------
(* Slots *)

LEMMA CapFact == Cap \in Nat /\ Cap > 0
BY ElogAssumption

\* A multiple of the capacity is at least as large as the capacity
LEMMA MultipleOfCap ==
  ASSUME NEW q \in Int, q > 0
  PROVE  Cap * q >= Cap
BY CapFact

LEMMA Distribute ==
  ASSUME NEW a \in Int, NEW c \in Int, NEW d \in Int
  PROVE  a * (c - d) = a * c - a * d
OBVIOUS

LEMMA SlotDivision ==
  ASSUME NEW i \in Nat
  PROVE  /\ Slot(i) \in 0..Cap - 1
         /\ \E q \in Int : i = Cap * q + Slot(i)
<1>1. i \div Cap \in Int /\ i = Cap * (i \div Cap) + Slot(i)
  BY CapFact DEF Slot
<1> QED
  BY <1>1, CapFact DEF Slot

\* Two indices less than Cap apart have different slots
LEMMA SlotsDiffer ==
  ASSUME NEW i \in Nat, NEW j \in Nat, i < j, j < i + Cap
  PROVE  Slot(i) # Slot(j)
<1> SUFFICES ASSUME Slot(i) = Slot(j) PROVE FALSE
  OBVIOUS
<1>1. PICK p \in Int : i = Cap * p + Slot(i)
  BY SlotDivision
<1>2. PICK q \in Int : j = Cap * q + Slot(j)
  BY SlotDivision
<1>3. Cap * p \in Int /\ Cap * q \in Int /\ Slot(i) \in Int
  BY SlotDivision, CapFact
<1>4. Cap * (q - p) = j - i
  BY <1>1, <1>2, <1>3, Distribute, CapFact
<1>5. CASE q > p
  BY <1>4, <1>5, MultipleOfCap, CapFact
<1>6. CASE q <= p
  <2>1. Cap * (p - q) = i - j
    BY <1>1, <1>2, <1>3, Distribute, CapFact
  <2>2. p = q \/ p - q > 0
    BY <1>6
  <2>3. CASE p = q
    BY <1>1, <1>2, <2>3
  <2>4. CASE p - q > 0
    BY <2>1, <2>4, MultipleOfCap, CapFact
  <2> QED BY <2>2, <2>3, <2>4
<1> QED
  BY <1>5, <1>6

\* An index and the one a lap later have the same slot
LEMMA SlotLap ==
  ASSUME NEW i \in Nat
  PROVE  Slot(i + Cap) = Slot(i)
<1>1. PICK p \in Int : i = Cap * p + Slot(i)
  BY SlotDivision
<1>a. \A j \in Nat : Slot(j) \in 0..Cap - 1 /\ \E q \in Int : j = Cap * q + Slot(j)
  BY SlotDivision
<1>b. i + Cap \in Nat
  BY CapFact
<1>2. PICK q \in Int : i + Cap = Cap * q + Slot(i + Cap)
  BY <1>a, <1>b
<1> DEFINE r == q - (p + 1)
           d == Slot(i) - Slot(i + Cap)
<1>3. /\ Slot(i) \in 0..Cap - 1 /\ Slot(i + Cap) \in 0..Cap - 1
      /\ Cap * p \in Int /\ Cap * q \in Int
  BY <1>a, <1>b, CapFact
<1>4. Cap * (p + 1) = Cap * p + Cap
  BY CapFact
<1>5. Cap * r = d
  BY <1>1, <1>2, <1>3, <1>4, Distribute, CapFact
<1>6. Cap * ((p + 1) - q) = Slot(i + Cap) - Slot(i)
  BY <1>1, <1>2, <1>3, <1>4, Distribute, CapFact
<1>7. ~(r > 0)
  BY <1>3, <1>5, MultipleOfCap, CapFact
<1>8. ~((p + 1) - q > 0)
  BY <1>3, <1>6, MultipleOfCap, CapFact
<1>9. q = p + 1
  BY <1>7, <1>8
<1> QED
  BY <1>1, <1>2, <1>3, <1>4, <1>9, CapFact

\* An index of the first lap is its own slot
LEMMA SlotFirstLap ==
  ASSUME NEW i \in Nat, i < Cap
  PROVE  Slot(i) = i
BY CapFact DEF Slot

-----------------------------------------------------------------------------
(* Types *)

LEMMA ForeverType == Forever \in Nat
BY ElogAssumption, FS_CardinalityType DEF Forever

LEMMA HeadTail ==
  ASSUME NEW S, NEW s \in Seq(S), s # <<>>
  PROVE  /\ Len(s) > 0 /\ Head(s) = s[1] /\ Head(s) \in S
         /\ Tail(s) \in Seq(S) /\ Len(Tail(s)) = Len(s) - 1
         /\ \A k \in 1..Len(s) - 1 : Tail(s)[k] = s[k + 1]
OBVIOUS

LEMMA LastType ==
  ASSUME NEW S, NEW s \in Seq(S), NEW n \in Nat
  PROVE  /\ Last(s, n) \in Seq(S)
         /\ Len(Last(s, n)) = IF Len(s) > n THEN n ELSE Len(s)
         /\ \A k \in 1..Len(Last(s, n)) : Last(s, n)[k] = s[Len(s) - Len(Last(s, n)) + k]
<1>0. Len(s) \in Nat
  OBVIOUS
<1>1. CASE Len(s) > n
  <2> DEFINE m == Len(s) - n
  <2>1. m \in Nat /\ m + n = Len(s) /\ Len(s) - m = n
    BY <1>0, <1>1
  <2>2. Last(s, n) = SubSeq(s, m + 1, Len(s))
    BY <1>1 DEF Last
  <2> HIDE DEF m
  <2>3. SubSeq(s, m + 1, Len(s)) \in Seq(S) /\ Len(SubSeq(s, m + 1, Len(s))) = Len(s) - m
    BY <1>0, <2>1
  <2>4. \A k \in 1..Len(s) - m : SubSeq(s, m + 1, Len(s))[k] = s[m + k]
    BY <1>0, <2>1
  <2> QED BY <1>1, <2>1, <2>2, <2>3, <2>4 DEF m
<1>2. CASE ~(Len(s) > n)
  <2>1. Last(s, n) = s
    <3>1. Last(s, n) = SubSeq(s, 1, Len(s))
      BY <1>2 DEF Last
    <3>2. SubSeq(s, 1, Len(s)) = s
      BY SubSeqFull, Zenon
    <3> QED BY <3>1, <3>2
  <2> QED BY <1>0, <1>2, <2>1
<1> QED
  BY <1>1, <1>2

LEMMA ViewSlotsType ==
  ASSUME NEW i \in Nat
  PROVE  /\ ViewSlots(i) \in Seq(0..Cap - 1)
         /\ Len(ViewSlots(i)) = IF i >= Cap THEN Cap ELSE i
         /\ \A k \in 1..Len(ViewSlots(i)) :
              ViewSlots(i)[k] = IF i >= Cap THEN Slot(i + k - 1) ELSE k - 1
<1>1. CASE i >= Cap
  <2>1. \A k \in 1..Cap : Slot(i + k - 1) \in 0..Cap - 1
    BY SlotDivision, CapFact
  <2>2. ViewSlots(i) = [k \in 1..Cap |-> Slot(i + k - 1)]
    BY <1>1 DEF ViewSlots
  <2> QED BY <1>1, <2>1, <2>2, CapFact
<1>2. CASE ~(i >= Cap)
  BY <1>2, CapFact DEF ViewSlots
<1> QED
  BY <1>1, <1>2

LEMMA StageType ==
  /\ Idle \in Stages /\ <<"view", "copy">> \in Stages
  /\ \A op \in Calls : /\ <<op, "load">> \in Stages
                       /\ <<op, "cas">> \in Stages
                       /\ <<op, "locked">> \in Stages
BY DEF Stages

\* The type invariant in three parts, one for each actor's variables
LogType ==
  /\ index \in Nat /\ locked \in BOOLEAN /\ disableIndex \in Nat
  /\ events \in [0..Cap - 1 -> Written]
  /\ nClaimed \in Nat /\ logged \in Seq(Nat) /\ lapped \subseteq 0..Cap - 1

WriterType ==
  /\ wpc \in [Writers -> {"idle", "enabled", "load", "cas", "header", "data"}]
  /\ wload \in [Writers -> Nat]
  /\ wevent \in [Writers -> [slot : 0..Cap - 1, number : Nat]]

Views == [events : Seq(Written), of : Seq(Nat), todo : Seq(0..Cap - 1)]

CtrlType ==
  /\ cpc \in [Controllers -> Stages]
  /\ cload \in [Controllers -> Nat] /\ nCalls \in Nat
  /\ view \in [Controllers -> Views]
  /\ quiet \in [Controllers -> BOOLEAN]

LEMMA TypeParts == TypeOK <=> LogType /\ WriterType /\ CtrlType
BY DEF TypeOK, LogType, WriterType, CtrlType, Views

LEMMA TypeInit == Init => TypeOK
<1> SUFFICES ASSUME Init PROVE LogType /\ WriterType /\ CtrlType
  BY TypeParts
<1>1. LogType
  <2>1. events \in [0..Cap - 1 -> Written]
    BY DEF Init, Nothing, Written
  <2>2. logged \in Seq(Nat)
    BY DEF Init
  <2> QED BY <2>1, <2>2 DEF Init, LogType
<1>2. WriterType
  BY CapFact DEF Init, NoEvent, Nothing, WriterType
<1>3. NoView \in Views
  BY DEF NoView, Views
<1>4. CtrlType
  BY <1>3, StageType DEF Init, CtrlType
<1> QED
  BY <1>1, <1>2, <1>4

LEMMA TypeWriter ==
  ASSUME TypeOK, NEW w \in Writers, Writer(w)
  PROVE  TypeOK'
<1>a. LogType /\ WriterType /\ CtrlType
  BY TypeParts
<1>b. CtrlType'
  BY <1>a DEF Writer, ReadIndex, Enabled, Load, Claim, WriteHeader, WriteData, ctrlVars, CtrlType
<1>c. ASSUME LogType', WriterType' PROVE TypeOK'
  BY <1>b, <1>c, TypeParts, PTL
<1>1. CASE ReadIndex(w) \/ Enabled(w) \/ Load(w)
  <2>1. LogType'
    BY <1>1, <1>a DEF ReadIndex, Enabled, Load, logVars, LogType
  <2>2. wpc' \in [Writers -> {"idle", "enabled", "load", "cas", "header", "data"}]
    BY <1>1, <1>a DEF ReadIndex, Enabled, Load, WriterType
  <2>a. /\ wload' = [wload EXCEPT ![w] = index] \/ wload' = [wload EXCEPT ![w] = 0]
        /\ wevent' = wevent
    BY <1>1 DEF ReadIndex, Enabled, Load
  <2>b. index \in Nat /\ wload \in [Writers -> Nat]
    BY <1>a DEF LogType, WriterType
  <2>3. wload' \in [Writers -> Nat] /\ wevent' = wevent
    BY <2>a, <2>b
  <2>4. WriterType'
    BY <1>a, <2>2, <2>3 DEF WriterType
  <2> QED BY <2>1, <2>4, <1>c
<1>2. CASE Claim(w)
  <2>1. Slot(index) \in 0..Cap - 1
    BY <1>a, SlotDivision DEF LogType
  <2>2. CASE ~Unchanged(w)
    <3>1. UNCHANGED <<index, locked, disableIndex, events, nClaimed, logged, lapped, wevent>>
      BY <1>2, <2>2 DEF Claim
    <3>2. wpc' = [wpc EXCEPT ![w] = "load"] /\ wload' = [wload EXCEPT ![w] = 0]
      BY <1>2, <2>2 DEF Claim
    <3>3. LogType'
      BY <1>a, <3>1 DEF LogType
    <3>4. WriterType'
      BY <1>a, <3>1, <3>2 DEF WriterType
    <3> QED BY <3>3, <3>4, <1>c
  <2>3. CASE Unchanged(w)
    <3>1. /\ index' = index + 1 /\ nClaimed' = nClaimed + 1
          /\ UNCHANGED <<locked, disableIndex, events>>
      BY <1>2, <2>3 DEF Claim
    <3>2. logged' = Append(logged, nClaimed + 1)
      BY <1>2, <2>3 DEF Claim
    <3>3. logged' \in Seq(Nat)
      BY <1>a, <3>2 DEF LogType
    <3>4. lapped' \subseteq 0..Cap - 1
      BY <1>2, <2>3, <1>a, <2>1 DEF Claim, LogType
    <3>5. LogType'
      BY <1>a, <3>1, <3>3, <3>4 DEF LogType
    <3>6. wevent' = [wevent EXCEPT ![w] = [slot |-> Slot(index), number |-> nClaimed + 1]]
      BY <1>2, <2>3 DEF Claim
    <3>7. wpc' = [wpc EXCEPT ![w] = "header"] /\ wload' = [wload EXCEPT ![w] = 0]
      BY <1>2, <2>3 DEF Claim
    <3>8. [slot |-> Slot(index), number |-> nClaimed + 1] \in [slot : 0..Cap - 1, number : Nat]
      BY <1>a, <2>1 DEF LogType
    <3>9. WriterType'
      BY <1>a, <3>6, <3>7, <3>8 DEF WriterType
    <3> QED BY <3>5, <3>9, <1>c
  <2> QED BY <2>2, <2>3
<1>3. CASE WriteHeader(w) \/ WriteData(w)
  <2>0. wevent[w].slot \in 0..Cap - 1 /\ wevent[w].number \in Nat
    BY <1>a DEF WriterType
  <2> DEFINE s == wevent[w].slot
             n == wevent[w].number
  <2>b. events' \in {[events EXCEPT ![s].header = n], [events EXCEPT ![s].data = n]}
    BY <1>3 DEF WriteHeader, WriteData
  <2>a. events' \in [0..Cap - 1 -> Written]
    <3>1. s \in 0..Cap - 1 /\ n \in Nat
      BY <2>0
    <3> HIDE DEF s, n
    <3> QED BY <2>b, <1>a, <3>1 DEF LogType, Written
  <2>1. LogType'
    BY <1>3, <1>a, <2>a DEF WriteHeader, WriteData, LogType
  <2>2. NoEvent \in [slot : 0..Cap - 1, number : Nat]
    BY CapFact DEF NoEvent, Nothing
  <2>3. WriterType'
    BY <1>3, <1>a, <2>2 DEF WriteHeader, WriteData, WriterType
  <2> QED BY <2>1, <2>3, <1>c
<1> QED
  BY <1>1, <1>2, <1>3 DEF Writer

LEMMA TypeController ==
  ASSUME TypeOK, NEW c \in Controllers, InCall(c) \/ \E op \in Calls : Call(c, op)
  PROVE  TypeOK'
<1>a. LogType /\ WriterType /\ CtrlType
  BY TypeParts
<1>b. WriterType'
  BY <1>a DEF InCall, Call, LoadLock, TryLock, Clear, Enable, DisableAfter, BeginView, CopySlot, EndView,
              writerVars, WriterType
<1>c. ASSUME LogType', CtrlType' PROVE TypeOK'
  BY <1>b, <1>c, TypeParts, PTL
<1>1. ASSUME NEW op \in Calls, Call(c, op) \/ LoadLock(c, op) \/ TryLock(c, op)
      PROVE  TypeOK'
  <2>1. LogType'
    BY <1>1, <1>a DEF Call, LoadLock, TryLock, logVars, LogType
  <2>2. cpc' \in [Controllers -> Stages]
    BY <1>1, <1>a, StageType DEF Call, LoadLock, TryLock, CtrlType
  <2>3. CtrlType'
    BY <1>1, <1>a, <2>2 DEF Call, LoadLock, TryLock, LogType, CtrlType
  <2> QED BY <2>1, <2>3, <1>c
<1>2. ASSUME Clear(c) \/ (\E v \in BOOLEAN : Enable(c, v)) \/ (\E n \in 0..Cap \div 2 : DisableAfter(c, n))
      PROVE  TypeOK'
  <2>0. 0..Cap \div 2 \subseteq Nat
    BY CapFact
  <2>a. index' \in Nat /\ disableIndex' \in Nat
    BY <1>2, <1>a, <2>0, ForeverType DEF Clear, Enable, DisableAfter, LogType
  <2>d. logged' = logged \/ logged' = <<>>
    BY <1>2 DEF Clear, Enable, DisableAfter
  <2>b. logged' \in Seq(Nat)
    <3>1. <<>> \in Seq(Nat) /\ logged \in Seq(Nat)
      BY <1>a DEF LogType
    <3> QED BY <2>d, <3>1
  <2>1. LogType'
    BY <1>2, <1>a, <2>a, <2>b DEF Clear, Enable, DisableAfter, Unlock, LogType
  <2>c. /\ Unlock(c)
        /\ UNCHANGED <<nCalls, view, quiet>>
    BY <1>2 DEF Clear, Enable, DisableAfter
  <2>2. CtrlType'
    BY <1>a, <2>c, StageType DEF Unlock, CtrlType
  <2> QED BY <2>1, <2>2, <1>c
<1>3. CASE BeginView(c)
  <2>1. /\ Last(logged, Cap) \in Seq(Nat) /\ ViewSlots(cload[c]) \in Seq(0..Cap - 1)
        /\ <<>> \in Seq(Written)
    <3>1. logged \in Seq(Nat) /\ cload[c] \in Nat /\ Cap \in Nat
      BY <1>a, CapFact DEF LogType, CtrlType
    <3>2. Last(logged, Cap) \in Seq(Nat)
      BY <3>1, LastType, Zenon
    <3>3. ViewSlots(cload[c]) \in Seq(0..Cap - 1)
      BY <3>1, ViewSlotsType
    <3>4. <<>> \in Seq(Written)
      BY EmptySeq, Zenon
    <3> QED BY <3>2, <3>3, <3>4
  <2>2. view' \in [Controllers -> Views]
    BY <1>3, <1>a, <2>1 DEF BeginView, CtrlType, Views
  <2>3. CtrlType'
    BY <1>3, <1>a, <2>2, StageType DEF BeginView, CtrlType
  <2>4. LogType'
    BY <1>3, <1>a DEF BeginView, logVars, LogType
  <2> QED BY <2>3, <2>4, <1>c
<1>4. CASE CopySlot(c)
  <2>1. PICK v \in Views : v = view[c]
    BY <1>a DEF CtrlType
  <2>2. v.events \in Seq(Written) /\ v.of \in Seq(Nat) /\ v.todo \in Seq(0..Cap - 1)
    BY <2>1 DEF Views
  <2>3. v.todo # <<>>
    BY <1>4, <2>1 DEF CopySlot
  <2>a. PICK t \in Seq(0..Cap - 1) : t = v.todo
    BY <2>2
  <2>b. Head(t) \in 0..Cap - 1 /\ Tail(t) \in Seq(0..Cap - 1)
    BY <2>3, <2>a, HeadTail
  <2>c. events[Head(t)] \in Written
    BY <1>a, <2>b DEF LogType
  <2>d. Append(v.events, events[Head(t)]) \in Seq(Written)
    BY <2>2, <2>c
  <2>e. /\ DOMAIN view' = Controllers /\ view' = [k \in Controllers |-> view'[k]]
        /\ \A k \in Controllers : k # c => view'[k] = view[k]
        /\ view'[c] = [events |-> Append(v.events, events[Head(t)]), of |-> v.of, todo |-> Tail(t)]
    BY <1>4, <1>a, <2>1, <2>a DEF CopySlot, CtrlType, Views
  <2>f. view'[c] \in Views
    BY <2>2, <2>b, <2>d, <2>e DEF Views
  <2>g. view \in [Controllers -> Views]
    BY <1>a DEF CtrlType
  <2>4. view' \in [Controllers -> Views]
    BY <2>e, <2>f, <2>g
  <2>5. CtrlType'
    BY <1>4, <1>a, <2>4 DEF CopySlot, CtrlType
  <2>6. LogType'
    BY <1>4, <1>a DEF CopySlot, logVars, LogType
  <2> QED BY <2>5, <2>6, <1>c
<1>5. CASE EndView(c)
  <2>1. NoView \in Views
    BY DEF NoView, Views
  <2>2. LogType'
    BY <1>5, <1>a DEF EndView, Unlock, LogType
  <2>3. CtrlType'
    BY <1>5, <1>a, <2>1, StageType DEF EndView, Unlock, CtrlType
  <2> QED BY <2>2, <2>3, <1>c
<1> QED
  BY <1>1, <1>2, <1>3, <1>4, <1>5 DEF InCall

-----------------------------------------------------------------------------
(* The lock bit *)

\* What a controller's step does to the others, and to its own stage
LEMMA OthersKeep ==
  ASSUME TypeOK, NEW c \in Controllers, InCall(c) \/ \E op \in Calls : Call(c, op)
  PROVE  \A d \in Controllers \ {c} : /\ cpc'[d] = cpc[d] /\ cload'[d] = cload[d]
                                      /\ view'[d] = view[d] /\ quiet'[d] = quiet[d]
<1>1. CtrlType
  BY TypeParts
<1>2. cpc' = cpc \/ \E x : cpc' = [cpc EXCEPT ![c] = x]
  BY DEF InCall, Call, LoadLock, TryLock, Clear, Enable, DisableAfter, BeginView, CopySlot, EndView, Unlock
<1>3. cload' = cload \/ \E x : cload' = [cload EXCEPT ![c] = x]
  BY DEF InCall, Call, LoadLock, TryLock, Clear, Enable, DisableAfter, BeginView, CopySlot, EndView, Unlock
<1>4. \A d \in Controllers \ {c} : view'[d] = view[d] /\ quiet'[d] = quiet[d]
  BY <1>1 DEF InCall, Call, LoadLock, TryLock, Clear, Enable, DisableAfter, BeginView, CopySlot, EndView, CtrlType
<1> QED
  BY <1>1, <1>2, <1>3, <1>4 DEF CtrlType

\* What a controller does to the lock, in four kinds of step
LEMMA LockKinds ==
  ASSUME TypeOK, NEW c \in Controllers, InCall(c) \/ \E op \in Calls : Call(c, op)
  PROVE  \/ ~Critical(c) /\ ~Critical(c)' /\ UNCHANGED <<index, locked>>
         \/ /\ ~Critical(c) /\ ~locked /\ index = cload[c]
            /\ Critical(c)' /\ locked' /\ cload'[c] = cload[c] /\ index' = index
         \/ Critical(c) /\ Critical(c)' /\ UNCHANGED <<index, locked>> /\ cload'[c] = cload[c]
         \/ Critical(c) /\ ~Critical(c)' /\ ~locked'
<1>1. cpc \in [Controllers -> Stages] /\ cload \in [Controllers -> Nat]
  BY DEF TypeOK
<1>2. ASSUME NEW op \in Calls, Call(c, op) \/ LoadLock(c, op)
      PROVE  ~Critical(c) /\ ~Critical(c)' /\ UNCHANGED <<index, locked>>
  BY <1>1, <1>2 DEF Call, LoadLock, Critical, Idle, logVars
<1>3. ASSUME NEW op \in Calls, TryLock(c, op)
      PROVE  \/ ~Critical(c) /\ ~Critical(c)' /\ UNCHANGED <<index, locked>>
             \/ /\ ~Critical(c) /\ ~locked /\ index = cload[c]
                /\ Critical(c)' /\ locked' /\ cload'[c] = cload[c] /\ index' = index
  BY <1>1, <1>3 DEF TryLock, Critical
<1>4. CASE BeginView(c) \/ CopySlot(c)
  BY <1>1, <1>4 DEF BeginView, CopySlot, Critical, logVars
<1>5. CASE \/ Clear(c) \/ EndView(c)
           \/ \E v \in BOOLEAN : Enable(c, v)
           \/ \E n \in 0..Cap \div 2 : DisableAfter(c, n)
  <2>1. Critical(c)
    BY <1>5 DEF Clear, EndView, Enable, DisableAfter, Critical
  <2>2. ~locked' /\ cpc' = [cpc EXCEPT ![c] = Idle]
    BY <1>5 DEF Clear, EndView, Enable, DisableAfter, Unlock
  <2> QED BY <1>1, <2>1, <2>2 DEF Critical, Idle
<1> QED
  BY <1>2, <1>3, <1>4, <1>5 DEF InCall

\* A writer moves the index only while the lock bit is clear
LEMMA WriterKinds ==
  ASSUME NEW w \in Writers, Writer(w)
  PROVE  /\ UNCHANGED <<locked, disableIndex, cpc, cload, nCalls, view, quiet>>
         /\ locked => UNCHANGED <<index, nClaimed, logged, lapped>>
BY DEF Writer, ReadIndex, Enabled, Load, Claim, Unchanged, WriteHeader, WriteData, logVars, ctrlVars

LEMMA LockStep ==
  ASSUME TypeOK, LockExcludes, [Next]_vars
  PROVE  LockExcludes'
<1>1. ASSUME NEW w \in Writers, Writer(w) PROVE LockExcludes'
  <2>1. UNCHANGED <<locked, cpc, cload>> /\ (locked => index' = index)
    BY <1>1, WriterKinds
  <2>2. \A c \in Controllers : Critical(c)' <=> Critical(c)
    BY <2>1 DEF Critical
  <2> QED BY <2>1, <2>2 DEF LockExcludes
<1>2. ASSUME NEW c \in Controllers, InCall(c) \/ \E op \in Calls : Call(c, op)
      PROVE  LockExcludes'
  <2>1. \A d \in Controllers \ {c} : cpc'[d] = cpc[d] /\ cload'[d] = cload[d]
    BY <1>2, OthersKeep
  <2>2. \A d \in Controllers \ {c} : Critical(d)' <=> Critical(d)
    BY <2>1 DEF Critical
  <2>3. CASE ~Critical(c) /\ ~Critical(c)' /\ UNCHANGED <<index, locked>>
    BY <2>1, <2>2, <2>3 DEF LockExcludes
  <2>4. CASE /\ ~Critical(c) /\ ~locked /\ index = cload[c]
             /\ Critical(c)' /\ locked' /\ cload'[c] = cload[c] /\ index' = index
    BY <2>1, <2>2, <2>4 DEF LockExcludes
  <2>5. CASE Critical(c) /\ Critical(c)' /\ UNCHANGED <<index, locked>> /\ cload'[c] = cload[c]
    BY <2>1, <2>2, <2>5 DEF LockExcludes
  <2>6. CASE Critical(c) /\ ~Critical(c)' /\ ~locked'
    BY <2>1, <2>2, <2>6 DEF LockExcludes
  <2> QED BY <1>2, <2>3, <2>4, <2>5, <2>6, LockKinds
<1>3. CASE UNCHANGED vars
  BY <1>3 DEF vars, logVars, ctrlVars, LockExcludes, Critical
<1> QED
  BY <1>1, <1>2, <1>3 DEF Next

-----------------------------------------------------------------------------
(* Logging stops *)

LEMMA PassedBound ==
  /\ IsFiniteSet(PassedTest) /\ Cardinality(PassedTest) \in Nat
  /\ Cardinality(Writers) \in Nat /\ Cardinality(PassedTest) <= Cardinality(Writers)
<1>1. PassedTest \subseteq Writers
  BY DEF PassedTest
<1> QED
  BY <1>1, ElogAssumption, FS_Subset, FS_CardinalityType

LEMMA FewerPassed ==
  ASSUME TypeOK, StopInv, index' = index, disableIndex' = disableIndex,
         PassedTest' \subseteq PassedTest
  PROVE  StopInv'
<1>1. Cardinality(PassedTest') \in Nat /\ Cardinality(PassedTest') <= Cardinality(PassedTest)
  BY PassedBound, FS_Subset, FS_CardinalityType
<1>2. index \in Nat /\ disableIndex \in Nat
  BY DEF TypeOK
<1> QED
  BY <1>1, <1>2, PassedBound DEF StopInv

LEMMA StopStep ==
  ASSUME TypeOK, TypeOK', StopInv, [Next]_vars
  PROVE  StopInv'
<1> DEFINE N == Cardinality(Writers)
<1>a. PassedTest' \subseteq Writers
  BY DEF PassedTest
<1>b. Cardinality(PassedTest') \in Nat /\ N \in Nat /\ Cardinality(PassedTest') <= N
  BY <1>a, ElogAssumption, FS_Subset, FS_CardinalityType
<1>c. index' \in Nat /\ disableIndex' \in Nat /\ index \in Nat /\ disableIndex \in Nat
  BY DEF TypeOK
<1>d. ASSUME index' <= disableIndex' PROVE StopInv'
  BY <1>b, <1>c, <1>d DEF StopInv
<1>e. /\ wpc \in [Writers -> {"idle", "enabled", "load", "cas", "header", "data"}]
      /\ wload \in [Writers -> Nat]
  BY DEF TypeOK
<1>1. ASSUME NEW w \in Writers, Writer(w) PROVE StopInv'
  <2>0. disableIndex' = disableIndex
    BY <1>1, WriterKinds
  <2>1. CASE ReadIndex(w)
    <3>1. index' = index
      BY <2>1 DEF ReadIndex, logVars
    <3>2. CASE index < disableIndex
      BY <1>c, <1>d, <2>0, <3>1, <3>2
    <3>3. CASE ~(index < disableIndex)
      <4>1. PassedTest' \subseteq PassedTest
        BY <2>0, <2>1, <3>3, <1>e DEF ReadIndex, PassedTest
      <4> QED BY <2>0, <3>1, <4>1, FewerPassed
    <3> QED BY <3>2, <3>3
  <2>2. CASE Claim(w) /\ Unchanged(w)
    <3>1. index' = index + 1 /\ w \in PassedTest
      BY <2>2 DEF Claim, PassedTest
    <3>2. PassedTest' \subseteq PassedTest \ {w}
      BY <2>0, <2>2, <1>e DEF Claim, PassedTest
    <3>3. /\ Cardinality(PassedTest \ {w}) = Cardinality(PassedTest) - 1
          /\ IsFiniteSet(PassedTest \ {w})
      BY <3>1, PassedBound, FS_RemoveElement
    <3>4. Cardinality(PassedTest') <= Cardinality(PassedTest \ {w})
      BY <3>2, <3>3, FS_Subset
    <3> QED BY <1>b, <1>c, <2>0, <3>1, <3>3, <3>4, PassedBound DEF StopInv
  <2>3. CASE \/ Enabled(w) \/ Load(w)
             \/ Claim(w) /\ ~Unchanged(w)
             \/ WriteHeader(w) \/ WriteData(w)
    <3>1. index' = index
      BY <2>3 DEF Enabled, Load, Claim, WriteHeader, WriteData, logVars
    <3>2. PassedTest' \subseteq PassedTest
      BY <2>0, <2>3, <1>e DEF Enabled, Load, Claim, WriteHeader, WriteData, PassedTest
    <3> QED BY <2>0, <3>1, <3>2, FewerPassed
  <2> QED BY <1>1, <2>1, <2>2, <2>3 DEF Writer
<1>2. ASSUME NEW c \in Controllers, InCall(c) \/ \E op \in Calls : Call(c, op)
      PROVE  StopInv'
  <2>1. CASE Clear(c) \/ \E v \in BOOLEAN : Enable(c, v)
    <3>1. index' = 0
      BY <2>1 DEF Clear, Enable
    <3> QED BY <1>c, <1>d, <3>1
  <2>2. ASSUME NEW n \in 0..Cap \div 2, DisableAfter(c, n) PROVE StopInv'
    <3>1. index' = index /\ disableIndex' = index + n /\ n >= 0 /\ n \in Int
      BY <2>2, CapFact DEF DisableAfter
    <3> QED BY <1>c, <1>d, <3>1
  <2>3. CASE \/ BeginView(c) \/ CopySlot(c) \/ EndView(c)
             \/ \E op \in Calls : Call(c, op) \/ LoadLock(c, op) \/ TryLock(c, op)
    <3>1. UNCHANGED <<index, disableIndex, wpc, wload>>
      BY <2>3 DEF BeginView, CopySlot, EndView, Call, LoadLock, TryLock, logVars, writerVars
    <3> QED BY <3>1, FewerPassed DEF PassedTest
  <2> QED BY <1>2, <2>1, <2>2, <2>3 DEF InCall
<1>3. CASE UNCHANGED vars
  BY <1>3, FewerPassed DEF vars, logVars, writerVars, PassedTest
<1> QED
  BY <1>1, <1>2, <1>3 DEF Next

-----------------------------------------------------------------------------
(* What the slots hold *)

\* What Claim does when the index has not moved
LEMMA ClaimEffect ==
  ASSUME TypeOK, NEW w \in Writers, Claim(w), Unchanged(w)
  PROVE  /\ index' = index + 1 /\ events' = events
         /\ logged' = Append(logged, nClaimed + 1)
         /\ ~Writing(w) /\ wpc'[w] = "header"
         /\ wevent'[w].slot = Slot(index) /\ wevent'[w].number = nClaimed + 1
         /\ \A v \in Writers \ {w} : wpc'[v] = wpc[v] /\ wevent'[v] = wevent[v]
         /\ Slot(index) \notin lapped' =>
              \A v \in Writers : Writing(v) => wevent[v].slot # Slot(index)
         /\ \A s : s # Slot(index) => (s \in lapped' <=> s \in lapped)
<1>1. DOMAIN wpc = Writers /\ DOMAIN wevent = Writers
  BY DEF TypeOK
<1>2. /\ index' = index + 1 /\ events' = events /\ logged' = Append(logged, nClaimed + 1)
      /\ wpc[w] = "cas" /\ wpc' = [wpc EXCEPT ![w] = "header"]
      /\ wevent' = [wevent EXCEPT ![w] = [slot |-> Slot(index), number |-> nClaimed + 1]]
  BY DEF Claim
<1>3. lapped' = IF \E v \in Writers : Writing(v) /\ wevent[v].slot = Slot(index)
                THEN lapped \cup {Slot(index)} ELSE lapped \ {Slot(index)}
  BY DEF Claim
<1>4. Slot(index) \notin lapped' => \A v \in Writers : Writing(v) => wevent[v].slot # Slot(index)
  BY <1>3
<1>5. \A s : s # Slot(index) => (s \in lapped' <=> s \in lapped)
  BY <1>3
<1> QED
  BY <1>1, <1>2, <1>4, <1>5 DEF Writing

\* What WriteHeader and WriteData do
LEMMA WriteEffect ==
  ASSUME TypeOK, NEW w \in Writers, WriteHeader(w) \/ WriteData(w)
  PROVE  /\ UNCHANGED <<index, logged, lapped>> /\ Writing(w)
         /\ \A v \in Writers \ {w} : wpc'[v] = wpc[v] /\ wevent'[v] = wevent[v]
         /\ \A s \in 0..Cap - 1 : s # wevent[w].slot => events'[s] = events[s]
         /\ WriteHeader(w) => /\ wevent' = wevent /\ wpc[w] = "header" /\ wpc'[w] = "data"
                              /\ events'[wevent[w].slot].header = wevent[w].number
         /\ WriteData(w) => /\ wpc[w] = "data" /\ wpc'[w] = "idle"
                            /\ events'[wevent[w].slot] =
                                 [header |-> events[wevent[w].slot].header, data |-> wevent[w].number]
<1>1. /\ DOMAIN wpc = Writers /\ DOMAIN wevent = Writers /\ wevent[w].slot \in 0..Cap - 1
      /\ events \in [0..Cap - 1 -> Written]
  BY DEF TypeOK
<1>2. CASE WriteHeader(w)
  BY <1>1, <1>2 DEF WriteHeader, WriteData, Writing, Written
<1>3. CASE WriteData(w)
  <2>1. ~WriteHeader(w)
    BY <1>3 DEF WriteHeader, WriteData
  <2> QED BY <1>1, <1>3, <2>1 DEF WriteData, Writing, Written
<1> QED
  BY <1>2, <1>3

\* The other steps leave events alone and begin or end no writing
LEMMA OtherEffect ==
  ASSUME TypeOK,
         \/ \E w \in Writers : \/ ReadIndex(w) \/ Enabled(w) \/ Load(w)
                               \/ Claim(w) /\ ~Unchanged(w)
         \/ \E c \in Controllers : InCall(c) \/ \E op \in Calls : Call(c, op)
         \/ UNCHANGED vars
  PROVE  /\ UNCHANGED <<events, wevent, lapped>>
         /\ \A v \in Writers : /\ Writing(v)' <=> Writing(v)
                               /\ Writing(v) => wpc'[v] = wpc[v]
         /\ UNCHANGED <<index, logged>> \/ (index' = 0 /\ logged' = <<>>)
<1>1. DOMAIN wpc = Writers
  BY DEF TypeOK
<1>2. ASSUME NEW w \in Writers,
             \/ ReadIndex(w) \/ Enabled(w) \/ Load(w)
             \/ Claim(w) /\ ~Unchanged(w)
      PROVE  /\ UNCHANGED <<events, wevent, lapped, index, logged>>
             /\ \A v \in Writers : /\ Writing(v)' <=> Writing(v)
                                   /\ Writing(v) => wpc'[v] = wpc[v]
  BY <1>1, <1>2 DEF ReadIndex, Enabled, Load, Claim, logVars, Writing
<1>3. ASSUME NEW c \in Controllers, InCall(c) \/ \E op \in Calls : Call(c, op)
      PROVE  /\ UNCHANGED <<events, wevent, lapped, wpc>>
             /\ UNCHANGED <<index, logged>> \/ (index' = 0 /\ logged' = <<>>)
  BY <1>3 DEF InCall, Call, LoadLock, TryLock, Clear, Enable, DisableAfter, BeginView, CopySlot, EndView,
              logVars, writerVars
<1>4. CASE UNCHANGED vars
  BY <1>4 DEF vars, logVars, writerVars, Writing
<1> QED
  BY <1>2, <1>3, <1>4 DEF Writing

\* Next, as the three lemmas above take it apart
LEMMA NextCases ==
  ASSUME [Next]_vars
  PROVE  \/ \E w \in Writers : Claim(w) /\ Unchanged(w)
         \/ \E w \in Writers : WriteHeader(w) \/ WriteData(w)
         \/ \E w \in Writers : \/ ReadIndex(w) \/ Enabled(w) \/ Load(w)
                               \/ Claim(w) /\ ~Unchanged(w)
         \/ \E c \in Controllers : InCall(c) \/ \E op \in Calls : Call(c, op)
         \/ UNCHANGED vars
BY DEF Next, Writer

LEMMA OneWriterStep ==
  ASSUME TypeOK, OneWriter, [Next]_vars
  PROVE  OneWriter'
<1>1. ASSUME NEW w \in Writers, Claim(w), Unchanged(w) PROVE OneWriter'
  BY <1>1, ClaimEffect DEF OneWriter, Writing
<1>2. ASSUME NEW w \in Writers, WriteHeader(w) \/ WriteData(w) PROVE OneWriter'
  <2>1. \A v \in Writers : Writing(v)' => Writing(v) /\ wevent'[v] = wevent[v]
    BY <1>2, WriteEffect DEF Writing
  <2>2. lapped' = lapped
    BY <1>2, WriteEffect
  <2> QED BY <2>1, <2>2 DEF OneWriter
<1>3. CASE \/ \E w \in Writers : \/ ReadIndex(w) \/ Enabled(w) \/ Load(w)
                                 \/ Claim(w) /\ ~Unchanged(w)
           \/ \E c \in Controllers : InCall(c) \/ \E op \in Calls : Call(c, op)
           \/ UNCHANGED vars
  BY <1>3, OtherEffect DEF OneWriter
<1> QED
  BY <1>1, <1>2, <1>3, NextCases

\* What a slot holds, it holds after every step but the claim of its next event
LEMMA HoldsStep ==
  ASSUME TypeOK, OneWriter, [Next]_vars, NEW s \in 0..Cap - 1, NEW m,
         s \notin lapped, Holds(s, m),
         \A w \in Writers : Claim(w) /\ Unchanged(w) => s # Slot(index)
  PROVE  Holds(s, m)'
<1>1. ASSUME NEW w \in Writers, Claim(w), Unchanged(w) PROVE Holds(s, m)'
  <2>1. s # Slot(index) /\ events' = events
    BY <1>1, ClaimEffect
  <2>2. ASSUME NEW v \in Writers, WritesTo(v, s, m) PROVE Holds(s, m)'
    <3>1. v # w /\ wpc'[v] = wpc[v] /\ wevent'[v] = wevent[v]
      BY <1>1, <2>2, ClaimEffect DEF WritesTo
    <3>2. WritesTo(v, s, m)'
      BY <2>1, <2>2, <3>1 DEF WritesTo, Writing
    <3> QED BY <3>2 DEF Holds
  <2>3. CASE events[s] = Whole(m) /\ \A v \in Writers : Writing(v) => wevent[v].slot # s
    <3>1. ASSUME NEW v \in Writers, Writing(v)' PROVE wevent'[v].slot # s
      <4>1. v = w => wevent'[v].slot = Slot(index)
        BY <1>1, ClaimEffect
      <4>2. v # w => wevent'[v] = wevent[v] /\ wpc'[v] = wpc[v]
        BY <1>1, ClaimEffect
      <4>3. v # w => Writing(v)
        BY <3>1, <4>2 DEF Writing
      <4> QED BY <2>1, <2>3, <4>1, <4>2, <4>3
    <3>2. events'[s] = Whole(m)'
      BY <2>1, <2>3 DEF Whole
    <3> QED BY <3>1, <3>2 DEF Holds
  <2> QED BY <2>2, <2>3 DEF Holds
<1>2. ASSUME NEW w \in Writers, WriteHeader(w) \/ WriteData(w) PROVE Holds(s, m)'
  <2>1. ASSUME NEW v \in Writers, WritesTo(v, s, m), v # w PROVE Holds(s, m)'
    <3>1. wevent[w].slot # s
      BY <1>2, <2>1, WriteEffect DEF WritesTo, OneWriter
    <3>2. WritesTo(v, s, m)'
      BY <1>2, <2>1, <3>1, WriteEffect DEF WritesTo, Writing
    <3> QED BY <3>2 DEF Holds
  <2>2. CASE WritesTo(w, s, m) /\ WriteHeader(w)
    <3>1. WritesTo(w, s, m)'
      BY <2>2, WriteEffect DEF WritesTo, Writing
    <3> QED BY <3>1 DEF Holds
  <2>3. CASE WritesTo(w, s, m) /\ WriteData(w)
    <3>1. wevent[w].slot = s /\ wevent[w].number = m /\ events[s].header = m
      BY <2>3, WriteEffect DEF WritesTo
    <3>2. events'[s] = Whole(m)'
      BY <2>3, <3>1, WriteEffect DEF Whole
    <3>3. ASSUME NEW v \in Writers, Writing(v)' PROVE wevent'[v].slot # s
      <4>1. v # w /\ Writing(v) /\ wevent'[v] = wevent[v]
        BY <2>3, <3>3, WriteEffect DEF Writing
      <4> QED BY <2>3, <3>1, <4>1, WriteEffect DEF OneWriter
    <3> QED BY <3>2, <3>3 DEF Holds
  <2>4. CASE events[s] = Whole(m) /\ \A v \in Writers : Writing(v) => wevent[v].slot # s
    <3>1. wevent[w].slot # s
      BY <1>2, <2>4, WriteEffect
    <3>2. events'[s] = Whole(m)'
      BY <1>2, <2>4, <3>1, WriteEffect DEF Whole
    <3>3. ASSUME NEW v \in Writers, Writing(v)' PROVE wevent'[v].slot # s
      BY <1>2, <2>4, <3>1, <3>3, WriteEffect DEF Writing
    <3> QED BY <3>2, <3>3 DEF Holds
  <2> QED BY <1>2, <2>1, <2>2, <2>3, <2>4 DEF Holds
<1>3. CASE \/ \E w \in Writers : \/ ReadIndex(w) \/ Enabled(w) \/ Load(w)
                                 \/ Claim(w) /\ ~Unchanged(w)
           \/ \E c \in Controllers : InCall(c) \/ \E op \in Calls : Call(c, op)
           \/ UNCHANGED vars
  <2>1. UNCHANGED <<events, wevent>>
    BY <1>3, OtherEffect
  <2>2. \A v \in Writers : /\ Writing(v)' <=> Writing(v)
                           /\ Writing(v) => wpc'[v] = wpc[v]
    BY <1>3, OtherEffect
  <2> QED BY <2>1, <2>2 DEF Holds, WritesTo, Whole
<1> QED
  BY <1>1, <1>2, <1>3, NextCases

LEMMA BufferStep ==
  ASSUME TypeOK, OneWriter, BufferInv, [Next]_vars
  PROVE  BufferInv'
<1>a. index \in Nat /\ nClaimed \in Nat /\ logged \in Seq(Nat) /\ Len(logged) = index
  BY DEF TypeOK, BufferInv
<1>1. ASSUME NEW w \in Writers, Claim(w), Unchanged(w) PROVE BufferInv'
  <2>1. index' = index + 1 /\ logged' = Append(logged, nClaimed + 1)
    BY <1>1, ClaimEffect
  <2>2. Len(logged') = index' /\ logged'[index + 1] = nClaimed + 1
    BY <1>a, <2>1
  <2>3. \A i \in Nat : i < index => logged'[i + 1] = logged[i + 1]
    BY <1>a, <2>1
  <2>4. ASSUME NEW i \in Nat, i < index', index' - Cap <= i, Slot(i) \notin lapped'
        PROVE  Holds(Slot(i), logged[i + 1])'
    <3>1. CASE i = index
      <4>1. WritesTo(w, Slot(i), logged[i + 1])'
        BY <1>1, <2>2, <3>1, ClaimEffect DEF WritesTo, Writing, Slot
      <4> QED BY <4>1 DEF Holds
    <3>2. CASE i < index
      <4>1. Slot(i) # Slot(index)
        BY <1>a, <2>1, <2>4, <3>2, SlotsDiffer, CapFact
      <4>2. Slot(i) \notin lapped
        BY <1>1, <2>4, <4>1, ClaimEffect
      <4>3. Holds(Slot(i), logged[i + 1])
        BY <1>a, <2>1, <2>4, <3>2, <4>2, CapFact DEF BufferInv
      <4>4. PICK s \in 0..Cap - 1 : s = Slot(i)
        BY SlotDivision
      <4>5. PICK m : m = logged[i + 1]
        OBVIOUS
      <4>6. Holds(s, m)'
        BY <1>1, <4>1, <4>2, <4>3, <4>4, <4>5, HoldsStep
      <4> QED BY <2>3, <3>2, <4>4, <4>5, <4>6 DEF Slot
    <3> QED BY <1>a, <2>1, <2>4, <3>1, <3>2
  <2> QED BY <2>2, <2>4 DEF BufferInv
<1>2. ASSUME UNCHANGED <<index, logged, lapped>>, ~\E w \in Writers : Claim(w) /\ Unchanged(w)
      PROVE  BufferInv'
  <2>1. ASSUME NEW i \in Nat, i < index, index - Cap <= i, Slot(i) \notin lapped
        PROVE  Holds(Slot(i), logged[i + 1])'
    <3>1. Holds(Slot(i), logged[i + 1])
      BY <2>1 DEF BufferInv
    <3>2. PICK s \in 0..Cap - 1 : s = Slot(i)
      BY SlotDivision
    <3>3. PICK m : m = logged[i + 1]
      OBVIOUS
    <3>4. Holds(s, m)'
      BY <1>2, <2>1, <3>1, <3>2, <3>3, HoldsStep
    <3> QED BY <1>2, <3>2, <3>3, <3>4 DEF Slot
  <2> QED BY <1>2, <2>1 DEF BufferInv, Slot
<1>3. ASSUME index' = 0, logged' = <<>> PROVE BufferInv'
  BY <1>3 DEF BufferInv
<1>4. CASE ~\E w \in Writers : Claim(w) /\ Unchanged(w)
  BY <1>2, <1>3, <1>4, NextCases, WriteEffect, OtherEffect
<1> QED
  BY <1>1, <1>4

-----------------------------------------------------------------------------
(* The quiet view *)

\* What ViewInv says of one controller
QuietView(c) ==
  /\ cpc[c] = <<"view", "copy">>
  /\ lapped = {} /\ \A w \in Writers : ~Writing(w)
  /\ view[c].of = Last(logged, Cap)
  /\ Len(view[c].events) + Len(view[c].todo) = Len(ViewSlots(index))
  /\ \A k \in 1..Len(view[c].events) : view[c].events[k] = events[ViewSlots(index)[k]]
  /\ \A k \in 1..Len(view[c].todo) :
       view[c].todo[k] = ViewSlots(index)[Len(view[c].events) + k]

LEMMA ViewInvQuiet == ViewInv <=> \A c \in Controllers : quiet[c] => QuietView(c)
BY DEF ViewInv, QuietView

\* A view stays as it is when the buffer does
LEMMA QuietKept ==
  ASSUME NEW c \in Controllers, QuietView(c), cpc'[c] = cpc[c], view'[c] = view[c],
         UNCHANGED <<index, events, logged, lapped>>,
         \A w \in Writers : Writing(w)' <=> Writing(w)
  PROVE  QuietView(c)'
BY DEF QuietView, ViewSlots, Slot, Last

\* The copy of the next slot
LEMMA QuietCopy ==
  ASSUME TypeOK, NEW c \in Controllers, QuietView(c), CopySlot(c)
  PROVE  QuietView(c)'
<1>1. PICK v \in Views : v = view[c]
  BY DEF TypeOK, Views
<1>2. v.events \in Seq(Written) /\ v.todo \in Seq(0..Cap - 1) /\ v.todo # <<>>
  BY <1>1 DEF Views, CopySlot
<1>3. PICK t \in Seq(0..Cap - 1) : t = v.todo
  BY <1>2
<1>4. /\ Len(t) > 0 /\ Head(t) = t[1] /\ Head(t) \in 0..Cap - 1
      /\ Len(Tail(t)) = Len(t) - 1 /\ \A k \in 1..Len(t) - 1 : Tail(t)[k] = t[k + 1]
  BY <1>2, <1>3, HeadTail
<1>5. UNCHANGED <<index, events, logged, lapped, wpc>> /\ cpc'[c] = cpc[c]
  BY DEF CopySlot, logVars, writerVars
<1>6. /\ view'[c].events = Append(v.events, events[Head(t)])
      /\ view'[c].todo = Tail(t) /\ view'[c].of = v.of
  BY <1>1, <1>3 DEF CopySlot, TypeOK, Views
<1>7. PICK e \in Seq(Written) : e = v.events
  BY <1>2
<1>8. events[Head(t)] \in Written
  BY <1>4 DEF TypeOK
<1>9. /\ Len(view'[c].events) = Len(e) + 1
      /\ \A k \in 1..Len(e) : view'[c].events[k] = e[k]
      /\ view'[c].events[Len(e) + 1] = events[Head(t)]
  BY <1>6, <1>7, <1>8
<1>10. Len(e) \in Nat /\ Len(t) \in Nat /\ Len(Tail(t)) \in Nat
  BY <1>4
<1> DEFINE S == ViewSlots(index)
<1>11. /\ Len(e) + Len(t) = Len(S)
       /\ \A k \in 1..Len(e) : e[k] = events[S[k]]
       /\ \A k \in 1..Len(t) : t[k] = S[Len(e) + k]
  BY <1>1, <1>3, <1>7 DEF QuietView
<1>12. ViewSlots(index)' = S /\ Last(logged, Cap)' = Last(logged, Cap)
  BY <1>5 DEF ViewSlots, Slot, Last
<1> HIDE DEF S
<1>13. Len(view'[c].events) + Len(view'[c].todo) = Len(S)
  <2>1. Len(view'[c].todo) = Len(t) - 1
    BY <1>4, <1>6
  <2>2. Len(view'[c].events) = Len(e) + 1 /\ Len(e) + Len(t) = Len(S)
    BY <1>9, <1>11
  <2>3. \A m, n \in Nat : (m + 1) + (n - 1) = m + n
    OBVIOUS
  <2> QED BY <1>10, <2>1, <2>2, <2>3
<1>14. ASSUME NEW k \in 1..Len(view'[c].events) PROVE view'[c].events[k] = events[S[k]]
  <2>1. k \in 1..Len(e) \/ k = Len(e) + 1
    BY <1>9, <1>10
  <2>2. t[1] = S[Len(e) + 1]
    BY <1>4, <1>10, <1>11
  <2> QED BY <1>4, <1>9, <1>11, <2>1, <2>2
<1>15. ASSUME NEW k \in 1..Len(view'[c].todo)
       PROVE  view'[c].todo[k] = S[Len(view'[c].events) + k]
  <2>1. k \in 1..Len(t) - 1 /\ k + 1 \in 1..Len(t)
    BY <1>4, <1>6, <1>10
  <2>2. view'[c].todo[k] = S[Len(e) + (k + 1)]
    BY <1>4, <1>6, <1>11, <2>1
  <2>3. Len(e) + (k + 1) = Len(view'[c].events) + k
    BY <1>9, <1>10, <2>1
  <2> QED BY <2>2, <2>3
<1> QED
  BY <1>1, <1>5, <1>6, <1>12, <1>13, <1>14, <1>15 DEF QuietView, Writing

LEMMA ViewStep ==
  ASSUME TypeOK, LockExcludes, LockExcludes', ViewInv, [Next]_vars
  PROVE  ViewInv'
<1> SUFFICES ASSUME NEW c \in Controllers, quiet'[c]
             PROVE  QuietView(c)'
  BY DEF ViewInv, QuietView
<1>a. quiet[c] => QuietView(c)
  BY DEF ViewInv, QuietView
<1>b. QuietView(c) => Critical(c) /\ locked
  BY DEF QuietView, Critical, LockExcludes
<1>1. ASSUME NEW w \in Writers, Writer(w) PROVE QuietView(c)'
  <2>1. QuietView(c) /\ locked
    BY <1>1, <1>a, <1>b, WriterKinds
  <2>2. ~Writing(w) /\ ~(Claim(w) /\ Unchanged(w))
    BY <2>1 DEF QuietView, Unchanged
  <2>3. \/ ReadIndex(w) \/ Enabled(w) \/ Load(w)
        \/ Claim(w) /\ ~Unchanged(w)
    BY <1>1, <2>2 DEF Writer, WriteHeader, WriteData, Writing
  <2>4. events' = events /\ \A v \in Writers : Writing(v)' <=> Writing(v)
    BY <2>3, OtherEffect
  <2> QED BY <1>1, <2>1, <2>4, WriterKinds, QuietKept
<1>2. ASSUME NEW d \in Controllers, d # c, InCall(d) \/ \E op \in Calls : Call(d, op)
      PROVE  QuietView(c)'
  <2>1. cpc'[c] = cpc[c] /\ view'[c] = view[c] /\ quiet'[c] = quiet[c]
    BY <1>2, OthersKeep
  <2>2. QuietView(c) /\ Critical(c) /\ locked /\ ~Critical(d)
    BY <1>2, <1>a, <1>b, <2>1 DEF LockExcludes
  <2>3. /\ UNCHANGED <<events, lapped, wpc>>
        /\ UNCHANGED <<index, logged>>
    <3>1. ~Clear(d) /\ \A v \in BOOLEAN : ~Enable(d, v)
      BY <2>2 DEF Clear, Enable, Critical
    <3>2. ~BeginView(d) /\ ~CopySlot(d) /\ ~EndView(d) /\ \A n : ~DisableAfter(d, n)
      BY <2>2 DEF BeginView, CopySlot, EndView, DisableAfter, Critical
    <3>3. \E op \in Calls : Call(d, op) \/ LoadLock(d, op) \/ TryLock(d, op)
      BY <1>2, <3>1, <3>2 DEF InCall
    <3> QED BY <3>3 DEF Call, LoadLock, TryLock, logVars, writerVars
  <2> QED BY <2>1, <2>2, <2>3, QuietKept DEF Writing
<1>3. CASE BeginView(c)
  <2>1. cload[c] = index
    BY <1>3 DEF BeginView, LockExcludes, Critical
  <2>2. UNCHANGED <<index, events, logged, lapped, wpc>> /\ cpc'[c] = <<"view", "copy">>
    BY <1>3 DEF BeginView, logVars, writerVars, TypeOK
  <2>3. view'[c] = [events |-> <<>>, of |-> Last(logged, Cap), todo |-> ViewSlots(index)]
    BY <1>3, <2>1 DEF BeginView, TypeOK
  <2>4. lapped = {} /\ \A w \in Writers : ~Writing(w)
    BY <1>3 DEF BeginView, TypeOK
  <2>5. ViewSlots(index)' = ViewSlots(index) /\ Last(logged, Cap)' = Last(logged, Cap)
    BY <2>2 DEF ViewSlots, Slot, Last
  <2>6. Len(ViewSlots(index)) \in Nat
    BY ViewSlotsType, CapFact DEF TypeOK
  <2> QED BY <2>2, <2>3, <2>4, <2>5, <2>6 DEF QuietView, Writing
<1>4. CASE CopySlot(c)
  <2>1. QuietView(c)
    BY <1>4, <1>a DEF CopySlot
  <2> QED BY <1>4, <2>1, QuietCopy
<1>5. CASE EndView(c)
  BY <1>5 DEF EndView, TypeOK
<1>6. ASSUME \/ \E op \in Calls : Call(c, op) \/ LoadLock(c, op) \/ TryLock(c, op)
             \/ Clear(c)
             \/ \E v \in BOOLEAN : Enable(c, v)
             \/ \E n \in 0..Cap \div 2 : DisableAfter(c, n)
      PROVE  QuietView(c)'
  <2>1. quiet' = quiet /\ cpc[c] # <<"view", "copy">>
    BY <1>6 DEF Call, LoadLock, TryLock, Clear, Enable, DisableAfter, Idle
  <2> QED BY <1>a, <2>1 DEF QuietView
<1>7. CASE UNCHANGED vars
  <2>1. UNCHANGED <<index, events, logged, lapped, wpc, cpc, view, quiet>>
    BY <1>7 DEF vars, logVars, writerVars, ctrlVars
  <2> QED BY <1>a, <2>1, QuietKept DEF Writing
<1>8. CASE InCall(c) \/ \E op \in Calls : Call(c, op)
  BY <1>3, <1>4, <1>5, <1>6, <1>8 DEF InCall
<1> QED
  BY <1>1, <1>2, <1>7, <1>8 DEF Next

\* The invariant says that a quiet view that is complete is exact
LEMMA InvQuietViewExact == IInv => QuietViewExact
<1> SUFFICES ASSUME IInv, NEW c \in Controllers, quiet[c], view[c].todo = <<>>
             PROVE  view[c].events =
                      [k \in DOMAIN view[c].of |-> [header |-> view[c].of[k], data |-> view[c].of[k]]]
  BY DEF QuietViewExact
<1>1. QuietView(c)
  BY DEF IInv, ViewInv, QuietView
<1>2. index \in Nat /\ logged \in Seq(Nat) /\ Len(logged) = index
  BY DEF IInv, TypeOK, BufferInv
<1>3. PICK e \in Seq(Written) : e = view[c].events
  BY DEF IInv, TypeOK
<1> DEFINE n == IF index >= Cap THEN Cap ELSE index
           S == ViewSlots(index)
           L == Last(logged, Cap)
<1>4. /\ S \in Seq(0..Cap - 1) /\ Len(S) = n
      /\ \A k \in 1..n : S[k] = IF index >= Cap THEN Slot(index + k - 1) ELSE k - 1
  BY <1>2, ViewSlotsType
<1>5. L \in Seq(Nat) /\ Len(L) = n /\ \A k \in 1..n : L[k] = logged[index - n + k]
  <2>1. Len(L) = IF Len(logged) > Cap THEN Cap ELSE Len(logged)
    BY <1>2, LastType, CapFact
  <2>2. Len(L) = n
    BY <1>2, <2>1, CapFact
  <2>3. \A k \in 1..Len(L) : L[k] = logged[Len(logged) - Len(L) + k]
    BY <1>2, LastType, CapFact
  <2>4. L \in Seq(Nat)
    BY <1>2, LastType, CapFact
  <2> HIDE DEF L, n
  <2> QED BY <1>2, <2>2, <2>3, <2>4
<1>6. view[c].of = L /\ Len(e) = n /\ \A k \in 1..n : e[k] = events[S[k]]
  <2>1. /\ view[c].of = L /\ Len(e) + Len(<<>>) = n
        /\ \A k \in 1..Len(e) : e[k] = events[S[k]]
    BY <1>1, <1>3, <1>4 DEF QuietView
  <2>2. Len(e) = n
    BY <1>2, <2>1, CapFact
  <2> QED BY <2>1, <2>2
<1>7. ASSUME NEW k \in 1..n PROVE e[k] = Whole(L[k])
  <2> DEFINE i == index - n + k - 1
  <2>1. n \in Nat /\ n <= index /\ n <= Cap /\ k \in Nat
    BY <1>2, CapFact
  <2>2. i \in Nat /\ i < index /\ index - Cap <= i /\ i + 1 = index - n + k
    BY <1>2, <2>1, CapFact
  <2>3. S[k] = Slot(i)
    <3>1. CASE index >= Cap
      <4>1. i + Cap = index + k - 1
        BY <1>2, <2>1, <3>1, CapFact
      <4> QED BY <1>4, <2>2, <3>1, <4>1, SlotLap
    <3>2. CASE ~(index >= Cap)
      <4>1. i = k - 1 /\ i < Cap
        BY <1>2, <2>1, <3>2, CapFact
      <4> QED BY <1>4, <2>2, <3>2, <4>1, SlotFirstLap
    <3> QED BY <3>1, <3>2
  <2>4. Holds(Slot(i), logged[i + 1])
    BY <1>1, <2>2 DEF IInv, BufferInv, QuietView
  <2>5. events[Slot(i)] = Whole(logged[i + 1])
    BY <1>1, <2>4 DEF Holds, QuietView, WritesTo
  <2> QED BY <1>5, <1>6, <2>2, <2>3, <2>5
<1>8. DOMAIN view[c].of = 1..n /\ DOMAIN e = 1..n /\ e = [k \in 1..n |-> e[k]]
  BY <1>2, <1>5, <1>6, CapFact
<1> HIDE DEF n, L
<1>9. [k \in 1..n |-> e[k]] = [k \in 1..n |-> [header |-> L[k], data |-> L[k]]]
  BY <1>7 DEF Whole
<1> QED
  BY <1>3, <1>6, <1>8, <1>9

-----------------------------------------------------------------------------
(* The theorems *)

LEMMA InvInit == Init => IInv
<1> SUFFICES ASSUME Init PROVE IInv
  OBVIOUS
<1>1. TypeOK
  BY TypeInit
<1>2. \A c \in Controllers : ~Critical(c)
  BY DEF Init, Critical, Idle
<1>3. LockExcludes
  BY <1>2 DEF Init, LockExcludes
<1>4. StopInv
  BY PassedBound DEF Init, StopInv
<1>5. \A w \in Writers : ~Writing(w)
  BY DEF Init, Writing
<1>6. BufferInv
  BY CapFact DEF Init, BufferInv
<1>7. ViewInv
  BY DEF Init, ViewInv
<1> QED
  BY <1>1, <1>3, <1>4, <1>5, <1>6, <1>7 DEF IInv, OneWriter

LEMMA InvStep == IInv /\ [Next]_vars => IInv'
<1> SUFFICES ASSUME IInv, [Next]_vars PROVE IInv'
  OBVIOUS
<1> USE DEF IInv
<1>1. TypeOK'
  <2>1. CASE UNCHANGED vars
    BY <2>1 DEF vars, logVars, writerVars, ctrlVars, TypeOK
  <2> QED BY <2>1, TypeWriter, TypeController DEF Next
<1>2. LockExcludes'
  BY LockStep
<1>3. StopInv'
  BY <1>1, StopStep
<1>4. OneWriter'
  BY OneWriterStep
<1>5. BufferInv'
  BY BufferStep
<1>6. ViewInv'
  BY <1>2, ViewStep
<1> QED
  BY <1>1, <1>2, <1>3, <1>4, <1>5, <1>6

\* The inductive invariant holds: lock, limit, slots and quiet views keep to what is
\* said of them above in every state of every execution of elog.go's operations.
THEOREM InvariantHolds == Spec => []IInv
BY InvInit, InvStep, PTL DEF Spec

\* Types, the exclusion of the lock bit and the limit of DisableAfter (one event for each
\* writer past Enabled's test) hold for any number of goroutines and any capacity.
THEOREM SafeHolds == Spec => []ElogSafe
<1>1. IInv => ElogSafe
  <2> SUFFICES ASSUME IInv PROVE ElogSafe
    OBVIOUS
  <2> DEFINE P == {w \in Writers : wpc[w] \in {"load", "cas"}}
  <2>1. P \subseteq PassedTest
    BY DEF PassedTest
  <2>2. Cardinality(P) \in Nat /\ Cardinality(P) <= Cardinality(PassedTest)
    BY <2>1, PassedBound, FS_Subset, FS_CardinalityType
  <2>3. DisableStops
    BY <2>2, PassedBound DEF IInv, StopInv, TypeOK, DisableStops
  <2> QED BY <2>3 DEF IInv, ElogSafe
<1> QED
  BY <1>1, InvariantHolds, PTL

\* NewView returns the last events logged, whole and in order, when it took the lock with
\* no writer inside Add or Encode and no slot lapped, whatever writers try meanwhile.
THEOREM QuietViewHolds == Spec => []QuietViewExact
BY InvQuietViewExact, InvariantHolds, PTL

=============================================================================
