--------------------------- MODULE CallGraphProofs ---------------------------
(***************************************************************************)
(* Theorems about CallGraph, for any number of nodes, any frame length and *)
(* any graph: the frames of a walk are queued once and handed on with as   *)
(* many vectors as were put into them, and the index of a next leads to    *)
(* the node of that name; and about Dep, for any elements: each is ordered *)
(* once, after what it depends on.                                         *)
(***************************************************************************)
EXTENDS CallGraph, Dep, FiniteSetTheorems, SequenceTheorems, TLAPS

-----------------------------------------------------------------------------
(* The inductive invariants *)

FrameType == [Len : 0..MaxVectorLen-1, next : {Nil} \cup Nodes, isPending : BOOLEAN]
PendingType == [node : Nodes, nextIndex : Nodes, nextNode : {Nil} \cup Nodes]

GraphType ==
  /\ nextNodes \in [Nodes -> Seq({Nil} \cup Nodes)]
  /\ initialNodesRegistered \in BOOLEAN
  /\ DOMAIN nextIndexByNodeName = Nodes
  /\ \A n \in Nodes : /\ DOMAIN nextIndexByNodeName[n] \subseteq Nodes
                      /\ \A m \in DOMAIN nextIndexByNodeName[n] :
                           nextIndexByNodeName[n][m] \in Nat \ {0}

OutType ==
  /\ out \in [Nodes -> Seq(FrameType)] /\ held \in [Nodes -> Seq(Nat)]
  /\ \A n \in Nodes : Len(held[n]) = Len(out[n])

WalkType ==
  /\ pending \in Seq(PendingType) /\ pendingIndex \in 0..Len(pending)
  /\ currentNode \in {Nil} \cup Nodes /\ left \in 0..MaxVectorLen /\ rounds \in 0..MaxRounds

ToDo == pendingIndex+1..Len(pending)
IsAt(j, n, i) == pending[j].node = n /\ pending[j].nextIndex = i

\* A frame is queued once if its flag is set, else not at all
QueueInv ==
  /\ \A j, k \in ToDo : IsAt(j, pending[k].node, pending[k].nextIndex) => j = k
  /\ \A j \in ToDo : /\ pending[j].nextIndex \in DOMAIN out[pending[j].node]
                     /\ out[pending[j].node][pending[j].nextIndex].isPending
                     /\ pending[j].nextNode # Nil
  /\ \A n \in Nodes : \A i \in DOMAIN out[n] :
       out[n][i].isPending => \E j \in ToDo : IsAt(j, n, i)
  /\ currentNode = Nil => pending = <<>> /\ left = 0

\* The byte Len stands for what was put into the frame
FrameInv ==
  \A n \in Nodes : \A i \in DOMAIN out[n] :
    IF out[n][i].isPending
    THEN /\ held[n][i] \in 1..MaxVectorLen
         /\ out[n][i].Len = (IF held[n][i] = MaxVectorLen THEN 0 ELSE held[n][i])
    ELSE held[n][i] = 0 /\ out[n][i].Len = 0

\* Every vector of a round is in one frame, in the hands of the running node, or gone
Vectors == 1..MaxVectorLen
Places == (Nodes \cup {0}) \X Nat
Hand == <<0, 0>>
Gone == <<0, 1>>
At(own, p) == {v \in Vectors : own[v] = p}
Shared(own) ==
  /\ \A n \in Nodes : \A i \in DOMAIN out[n] : Cardinality(At(own, <<n, i>>)) = held[n][i]
  /\ Cardinality(At(own, Hand)) = left
VectorsInv == \E own \in [Vectors -> Places] : Shared(own)

WalkInv == GraphType /\ OutType /\ WalkType /\ QueueInv /\ FrameInv /\ VectorsInv

-----------------------------------------------------------------------------
(* Operators *)

\* t is s with v at x, and zero in what is new before it
IsPut(t, S, s, x, zero, v) ==
  /\ t \in Seq(S) /\ Len(t) = (IF x > Len(s) THEN x ELSE Len(s))
  /\ DOMAIN t = DOMAIN s \cup 1..x
  /\ \A i \in DOMAIN t : t[i] = IF i = x THEN v ELSE IF i \in DOMAIN s THEN s[i] ELSE zero

LEMMA PutFacts ==
  ASSUME NEW S, NEW s \in Seq(S), NEW x \in Nat \ {0}, NEW zero \in S, NEW v \in S
  PROVE  IsPut(PutAt(s, x, zero, v), S, s, x, zero, v)
<1> DEFINE l == IF x > Len(s) THEN x ELSE Len(s)
<1>1. l \in Nat /\ DOMAIN s = 1..Len(s) /\ Len(s) \in Nat /\ 1..l = DOMAIN s \cup 1..x
  OBVIOUS
<1>2. \A i \in 1..l : /\ (i <= Len(s) <=> i \in DOMAIN s)
                      /\ (IF i = x THEN v ELSE IF i <= Len(s) THEN s[i] ELSE zero) \in S
  BY <1>1
<1>3. PutAt(s, x, zero, v) = [i \in 1..l |-> IF i = x THEN v ELSE IF i <= Len(s) THEN s[i] ELSE zero]
  BY DEF PutAt
<1>4. PutAt(s, x, zero, v) \in Seq(S) /\ Len(PutAt(s, x, zero, v)) = l /\ DOMAIN PutAt(s, x, zero, v) = 1..l
  BY <1>1, <1>2, <1>3
<1> QED
  BY <1>1, <1>2, <1>3, <1>4 DEF IsPut

\* Len is the number of vectors as a byte
LEMMA LenFacts ==
  ASSUME NEW a \in Nat, a <= MaxVectorLen
  PROVE  a % MaxVectorLen = (IF a = MaxVectorLen THEN 0 ELSE a)
BY LenAssumption

LEMMA VectorsFinite ==
  ASSUME NEW own, NEW p
  PROVE  /\ IsFiniteSet(At(own, p)) /\ Cardinality(At(own, p)) \in Nat
         /\ Cardinality(At(own, p)) <= MaxVectorLen
<1>1. MaxVectorLen \in Nat /\ IsFiniteSet(Vectors) /\ Cardinality(Vectors) = MaxVectorLen
  BY LenAssumption, FS_Interval DEF Vectors
<1>2. At(own, p) \in SUBSET Vectors
  BY DEF At
<1>3. IsFiniteSet(At(own, p)) /\ Cardinality(At(own, p)) <= Cardinality(Vectors)
  BY <1>1, <1>2, FS_Subset
<1> QED
  BY <1>1, <1>3, FS_CardinalityType

\* Some k elements of a finite set
LEMMA SomeOf ==
  ASSUME NEW S, IsFiniteSet(S), NEW k \in Nat, k <= Cardinality(S)
  PROVE  \E T \in SUBSET S : IsFiniteSet(T) /\ Cardinality(T) = k
<1>1. Cardinality(S) \in Nat /\ ExistsBijection(1..Cardinality(S), S)
  BY FS_CardinalityType
<1>2. PICK f : f \in Bijection(1..Cardinality(S), S)
  BY <1>1 DEF ExistsBijection
<1> DEFINE T == {f[j] : j \in 1..k}
           g == [j \in 1..k |-> f[j]]
<1>3. f \in [1..Cardinality(S) -> S] /\ \A a, b \in 1..Cardinality(S) : f[a] = f[b] => a = b
  BY <1>2 DEF Bijection, Injection, IsInjective
<1>4. 1..k \subseteq 1..Cardinality(S)
  BY <1>1
<1>5. T \subseteq S
  BY <1>3, <1>4
<1>6. g \in Bijection(1..k, T)
  BY <1>3, <1>4 DEF Bijection, Injection, Surjection, IsInjective
<1>7. Cardinality(T) = k
  BY <1>6, FS_CountingElements DEF ExistsBijection
<1>8. IsFiniteSet(T)
  BY <1>5, FS_Subset
<1> QED
  BY <1>5, <1>7, <1>8


-----------------------------------------------------------------------------
(* Between the rounds *)

\* Nothing is in any frame
AllEmpty ==
  \A n \in Nodes : \A i \in DOMAIN out[n] :
    ~out[n][i].isPending /\ out[n][i].Len = 0 /\ held[n][i] = 0

LEMMA IdleEmpty ==
  ASSUME WalkInv, pending = <<>>
  PROVE  AllEmpty
<1>1. ToDo = {}
  BY DEF WalkInv, WalkType, ToDo
<1>2. \A n \in Nodes : \A i \in DOMAIN out[n] : out[n][i] \in FrameType
  BY DEF WalkInv, OutType
<1>3. \A n \in Nodes : \A i \in DOMAIN out[n] : ~out[n][i].isPending
  BY <1>1 DEF WalkInv, QueueInv
<1> QED
  BY <1>2, <1>3 DEF WalkInv, FrameInv, AllEmpty

LEMMA EmptyShared ==
  ASSUME AllEmpty, left \in 0..MaxVectorLen
  PROVE  VectorsInv
<1> DEFINE own == [v \in Vectors |-> IF v <= left THEN Hand ELSE Gone]
<1>1. own \in [Vectors -> Places]
  BY DEF Places, Hand, Gone
<1>2. \A n \in Nodes : \A i \in DOMAIN out[n] : At(own, <<n, i>>) = {}
  BY DEF At, Hand, Gone, Nodes
<1>3. At(own, Hand) = 1..left
  BY LenAssumption DEF At, Hand, Gone, Vectors
<1>4. Cardinality(1..left) = left
  <2>1. left \in Int /\ 1 \in Int
    OBVIOUS
  <2>2. Cardinality(1..left) = IF 1 > left THEN 0 ELSE left - 1 + 1
    BY <2>1, FS_Interval, Zenon
  <2> QED BY <2>2
<1>5. Cardinality({}) = 0
  BY FS_EmptySet
<1> HIDE DEF own
<1>6. Shared(own)
  BY <1>2, <1>3, <1>4, <1>5 DEF Shared, AllEmpty
<1> QED
  BY <1>1, <1>6 DEF VectorsInv

\* Without vectors in any frame the invariant is one of the types
NothingQueued == pending = <<>> /\ (currentNode = Nil => left = 0)
EmptyWalk == GraphType /\ OutType /\ WalkType /\ AllEmpty /\ NothingQueued

LEMMA EmptyInv == EmptyWalk => WalkInv
<1> SUFFICES ASSUME EmptyWalk PROVE WalkInv
  OBVIOUS
<1> USE DEF EmptyWalk, NothingQueued
<1>1. ToDo = {}
  BY DEF WalkType, ToDo
<1>2. QueueInv /\ FrameInv
  BY <1>1 DEF QueueInv, FrameInv, AllEmpty
<1>3. VectorsInv
  BY EmptyShared DEF WalkType
<1> QED
  BY <1>2, <1>3 DEF WalkInv

LEMMA EmptyNext == (GraphType' /\ OutType' /\ WalkType' /\ AllEmpty' /\ NothingQueued') => WalkInv'
<1>1. (GraphType /\ OutType /\ WalkType /\ AllEmpty /\ NothingQueued) => WalkInv
  BY EmptyInv DEF EmptyWalk
<1> QED
  BY <1>1, PTL

LEMMA WalkInit == Init => WalkInv
<1> SUFFICES ASSUME Init PROVE WalkInv
  OBVIOUS
<1>1. GraphType
  <2>1. DOMAIN <<>> = {} /\ <<>> \in Seq({Nil} \cup Nodes)
    OBVIOUS
  <2> QED BY <2>1 DEF Init, GraphType
<1>2. OutType
  BY DEF Init, OutType
<1>3. WalkType
  BY LenAssumption, RoundsAssumption DEF Init, WalkType
<1>4. AllEmpty
  BY DEF Init, AllEmpty
<1> QED
  BY <1>1, <1>2, <1>3, <1>4, EmptyInv DEF EmptyWalk, NothingQueued, Init

\* AddToPollers puts an empty frame, or leaves what is in the one that is there
LEMMA AddToPollersFacts ==
  ASSUME OutType, AllEmpty, NEW n \in Nodes, NEW m \in Nodes, NEW x \in Nat \ {0}, AddToPollers(n, m, x)
  PROVE  OutType' /\ AllEmpty'
<1>1. CASE ~initialized
  BY <1>1 DEF AddToPollers, OutType, AllEmpty
<1>2. CASE initialized
  <2> DEFINE v == IF x <= Len(out[n]) THEN [out[n][x] EXCEPT !.next = m] ELSE Frame(m)
             w == IF x <= Len(held[n]) THEN held[n][x] ELSE 0
  <2>1. out[n] \in Seq(FrameType) /\ held[n] \in Seq(Nat) /\ Len(held[n]) = Len(out[n])
    BY DEF OutType
  <2>2. /\ out' = [out EXCEPT ![n] = PutAt(out[n], x, Frame(Nil), v)]
        /\ held' = [held EXCEPT ![n] = PutAt(held[n], x, 0, w)]
    BY <1>2 DEF AddToPollers
  <2>3. /\ \A k \in {Nil} \cup Nodes : Frame(k) \in FrameType /\ Frame(k).Len = 0 /\ ~Frame(k).isPending
    BY LenAssumption DEF Frame, FrameType
  <2>4. x <= Len(out[n]) => x \in DOMAIN out[n]
    BY <2>1
  <2>5. v \in FrameType /\ v.Len = 0 /\ ~v.isPending
    <3>1. CASE x <= Len(out[n])
      <4>1. out[n][x] \in FrameType /\ out[n][x].Len = 0 /\ ~out[n][x].isPending
        BY <2>1, <2>4, <3>1 DEF AllEmpty
      <4> QED BY <3>1, <4>1 DEF FrameType
    <3>2. CASE ~(x <= Len(out[n]))
      BY <2>3, <3>2
    <3> QED BY <3>1, <3>2
  <2>6. w = 0
    BY <2>1, <2>4 DEF AllEmpty
  <2> HIDE DEF v, w
  <2>7. IsPut(out'[n], FrameType, out[n], x, Frame(Nil), v)
    <3>1. Frame(Nil) \in FrameType
      BY <2>3
    <3>2. IsPut(PutAt(out[n], x, Frame(Nil), v), FrameType, out[n], x, Frame(Nil), v)
      BY <2>1, <2>5, <3>1, PutFacts
    <3> QED BY <2>2, <3>2 DEF OutType
  <2>8. IsPut(held'[n], Nat, held[n], x, 0, w)
    <3>1. 0 \in Nat /\ w \in Nat
      BY <2>6
    <3>2. IsPut(PutAt(held[n], x, 0, w), Nat, held[n], x, 0, w)
      BY <2>1, <3>1, PutFacts
    <3> QED BY <2>2, <3>2 DEF OutType
  <2>9. DOMAIN out[n] = DOMAIN held[n]
    BY <2>1
  <2>10. OutType'
    <3>1. out'[n] \in Seq(FrameType) /\ held'[n] \in Seq(Nat) /\ Len(held'[n]) = Len(out'[n])
      BY <2>1, <2>7, <2>8 DEF IsPut
    <3>2. out' \in [Nodes -> Seq(FrameType)] /\ held' \in [Nodes -> Seq(Nat)]
      BY <2>2, <3>1 DEF OutType
    <3> QED BY <2>2, <3>1, <3>2 DEF OutType
  <2>11. \A i \in DOMAIN out'[n] : ~out'[n][i].isPending /\ out'[n][i].Len = 0 /\ held'[n][i] = 0
    BY <2>3, <2>5, <2>6, <2>7, <2>8, <2>9 DEF AllEmpty, IsPut
  <2>12. \A k \in Nodes \ {n} : out'[k] = out[k] /\ held'[k] = held[k]
    BY <2>2 DEF OutType
  <2> QED BY <2>10, <2>11, <2>12 DEF AllEmpty
<1> QED
  BY <1>1, <1>2

LEMMA AddNextGraph ==
  ASSUME GraphType, NEW n \in Nodes, NEW m \in Nodes, NEW w \in {AutoIndex} \cup Nodes, AddNext(n, m, w)
  PROVE  GraphType' /\ nextIndex(n, m, w) \in Nat \ {0}
<1>1. nextNodes[n] \in Seq({Nil} \cup Nodes) /\ Len(nextNodes[n]) \in Nat
  BY DEF GraphType
<1>2. nextIndex(n, m, w) \in Nat \ {0}
  BY <1>1 DEF GraphType, nextIndex, AutoIndex, Nodes
<1>3. findNext(n, m) \in Nat \ {0}
  BY <1>1 DEF GraphType, findNext
<1>4. nextNodes' = [nextNodes EXCEPT ![n] = PutAt(nextNodes[n], nextIndex(n, m, w), Nil, m)]
  BY DEF AddNext
<1>5. PutAt(nextNodes[n], nextIndex(n, m, w), Nil, m) \in Seq({Nil} \cup Nodes)
  BY <1>1, <1>2, PutFacts DEF IsPut
<1>6. /\ DOMAIN nextIndexByNodeName' = Nodes
      /\ nextIndexByNodeName'[n] = [k \in DOMAIN nextIndexByNodeName[n] \cup {m} |->
                                      IF k = m THEN findNext(n, m) ELSE nextIndexByNodeName[n][k]]
      /\ \A x \in Nodes \ {n} : nextIndexByNodeName'[x] = nextIndexByNodeName[x]
  BY DEF AddNext, GraphType
<1>7. initialNodesRegistered' \in BOOLEAN
  BY DEF AddNext, GraphType
<1>8. nextNodes' \in [Nodes -> Seq({Nil} \cup Nodes)]
  BY <1>4, <1>5 DEF GraphType
<1> HIDE DEF nextIndex
<1>9. \A x \in Nodes : /\ DOMAIN nextIndexByNodeName'[x] \subseteq Nodes
                       /\ \A k \in DOMAIN nextIndexByNodeName'[x] : nextIndexByNodeName'[x][k] \in Nat \ {0}
  <2>1. \A x \in Nodes \ {n} : /\ DOMAIN nextIndexByNodeName'[x] \subseteq Nodes
                             /\ \A k \in DOMAIN nextIndexByNodeName'[x] :
                                  nextIndexByNodeName'[x][k] \in Nat \ {0}
    BY <1>6 DEF GraphType
  <2>2. DOMAIN nextIndexByNodeName'[n] = DOMAIN nextIndexByNodeName[n] \cup {m}
    BY <1>6
  <2>3. \A k \in DOMAIN nextIndexByNodeName[n] \cup {m} : nextIndexByNodeName'[n][k] \in Nat \ {0}
    BY <1>3, <1>6 DEF GraphType
  <2> QED BY <2>1, <2>2, <2>3 DEF GraphType
<1> QED
  BY <1>2, <1>6, <1>7, <1>8, <1>9 DEF GraphType

\* The steps between the rounds, and the start of one
LEMMA IdleStep ==
  ASSUME WalkInv,
         \/ \E n, m \in Nodes, w \in {AutoIndex} \cup Nodes : AddNext(n, m, w)
         \/ graphInit \/ initNodes
         \/ \E nVec \in 0..MaxVectorLen : LoopInput(nVec)
  PROVE  WalkInv'
<1>0. GraphType /\ OutType /\ WalkType
  BY DEF WalkInv
<1>1. ASSUME NEW n \in Nodes, NEW m \in Nodes, NEW w \in {AutoIndex} \cup Nodes, AddNext(n, m, w)
      PROVE  WalkInv'
  <2>1. GraphType' /\ nextIndex(n, m, w) \in Nat \ {0}
    BY <1>0, <1>1, AddNextGraph
  <2>2. AddToPollers(n, m, nextIndex(n, m, w)) /\ pending = <<>> /\ currentNode = Nil /\ UNCHANGED walkVars
    BY <1>1 DEF AddNext
  <2>3. OutType' /\ AllEmpty'
    BY <1>0, <2>1, <2>2, IdleEmpty, AddToPollersFacts
  <2>4. WalkType' /\ NothingQueued'
    BY <1>0, <2>2 DEF WalkType, walkVars, WalkInv, QueueInv, NothingQueued
  <2> QED BY <2>1, <2>3, <2>4, EmptyNext
<1>2. CASE graphInit
  <2>1. GraphType' /\ UNCHANGED <<out, held, walkVars>>
    BY <1>0, <1>2 DEF graphInit, GraphType
  <2>2. OutType' /\ WalkType'
    BY <1>0, <2>1 DEF OutType, WalkType, walkVars
  <2>3. QueueInv'
    BY <2>1 DEF WalkInv, QueueInv, ToDo, IsAt, walkVars
  <2>4. FrameInv'
    BY <2>1 DEF WalkInv, FrameInv
  <2>5. VectorsInv'
    BY <2>1 DEF WalkInv, VectorsInv, Shared, walkVars
  <2> QED BY <2>1, <2>2, <2>3, <2>4, <2>5 DEF WalkInv
<1>3. CASE initNodes
  <2>1. GraphType' /\ WalkType' /\ NothingQueued'
    BY <1>0, <1>3 DEF initNodes, NothingQueued, graphVars, walkVars, WalkInv, QueueInv, GraphType, WalkType
  <2>2. \A n \in Nodes : nextNodes[n] \in Seq({Nil} \cup Nodes)
    BY <1>0 DEF GraphType
  <2>3. \A k \in {Nil} \cup Nodes : Frame(k) \in FrameType /\ Frame(k).Len = 0 /\ ~Frame(k).isPending
    BY LenAssumption DEF Frame, FrameType
  <2>4. \A n \in Nodes : /\ out'[n] = [i \in DOMAIN nextNodes[n] |-> Frame(nextNodes[n][i])]
                         /\ held'[n] = [i \in DOMAIN nextNodes[n] |-> 0]
    BY <1>3 DEF initNodes
  <2>5. \A n \in Nodes : \A i \in DOMAIN nextNodes[n] : Frame(nextNodes[n][i]) \in FrameType
    BY <2>2, <2>3
  <2>6. \A n \in Nodes : out'[n] \in Seq(FrameType) /\ held'[n] \in Seq(Nat) /\ Len(held'[n]) = Len(out'[n])
    <3> SUFFICES ASSUME NEW n \in Nodes
                 PROVE  out'[n] \in Seq(FrameType) /\ held'[n] \in Seq(Nat) /\ Len(held'[n]) = Len(out'[n])
      OBVIOUS
    <3>1. PICK l \in Nat : DOMAIN nextNodes[n] = 1..l
      BY <2>2
    <3>2. /\ out'[n] = [i \in 1..l |-> Frame(nextNodes[n][i])] /\ held'[n] = [i \in 1..l |-> 0]
          /\ \A i \in 1..l : Frame(nextNodes[n][i]) \in FrameType
      BY <2>4, <2>5, <3>1
    <3> QED BY <3>2
  <2>7. OutType'
    BY <1>3, <2>6 DEF OutType, initNodes
  <2>8. AllEmpty'
    <3> SUFFICES ASSUME NEW n \in Nodes, NEW i \in DOMAIN out'[n]
                 PROVE  ~out'[n][i].isPending /\ out'[n][i].Len = 0 /\ held'[n][i] = 0
      BY DEF AllEmpty
    <3>1. i \in DOMAIN nextNodes[n] /\ nextNodes[n][i] \in {Nil} \cup Nodes
      <4>1. DOMAIN out'[n] = DOMAIN nextNodes[n]
        BY <2>4
      <4>2. \A k \in DOMAIN nextNodes[n] : nextNodes[n][k] \in {Nil} \cup Nodes
        BY <2>2
      <4> QED BY <4>1, <4>2
    <3>2. out'[n][i] = Frame(nextNodes[n][i]) /\ held'[n][i] = 0
      BY <2>4, <3>1
    <3>3. ~Frame(nextNodes[n][i]).isPending /\ Frame(nextNodes[n][i]).Len = 0
      BY DEF Frame
    <3> QED BY <3>2, <3>3
  <2> QED BY <2>1, <2>7, <2>8, EmptyNext
<1>4. ASSUME NEW nVec \in 0..MaxVectorLen, LoopInput(nVec) PROVE WalkInv'
  <2>1. GraphType' /\ OutType' /\ UNCHANGED <<out, held, pending>> /\ pending = <<>>
    BY <1>0, <1>4 DEF LoopInput, graphVars, GraphType, OutType
  <2>2. WalkType'
    BY <1>0, <1>4, RoundsAssumption, NAssumption DEF LoopInput, WalkType, Nodes
  <2>3. AllEmpty'
    BY <2>1, IdleEmpty DEF AllEmpty
  <2>4. NothingQueued'
    BY <1>4 DEF LoopInput, Nil, NothingQueued
  <2> QED BY <2>1, <2>2, <2>3, <2>4, EmptyNext
<1> QED
  BY <1>1, <1>2, <1>3, <1>4

-----------------------------------------------------------------------------
(* A round *)

\* One frame changes, and nothing of the others
\* x at place i of node n of a table
SetAt(t, n, i, x) == [t EXCEPT ![n][i] = x]

TwoFields(t, n, i, a, b) == [t EXCEPT ![n][i].Len = a, ![n][i].isPending = b]

SetFields(fr, a, b) == [fr EXCEPT !.Len = a, !.isPending = b]

\* One frame becomes fr, with h vectors
FrameBecomes(n, i, fr, h) ==
  /\ OutType' /\ \A m \in Nodes : DOMAIN out'[m] = DOMAIN out[m]
  /\ out'[n][i] = fr /\ held'[n][i] = h
  /\ \A m \in Nodes : \A j \in DOMAIN out[m] :
       m # n \/ j # i => out'[m][j] = out[m][j] /\ held'[m][j] = held[m][j]

LEMMA PutFields ==
  ASSUME NEW t \in [Nodes -> Seq(FrameType)], NEW n \in Nodes, NEW i \in DOMAIN t[n], NEW a, NEW b
  PROVE  TwoFields(t, n, i, a, b) = SetAt(t, n, i, SetFields(t[n][i], a, b))
<1>1. t[n] \in Seq(FrameType) /\ DOMAIN t = Nodes
  OBVIOUS
<1>2. t[n][i] \in FrameType
  BY <1>1
<1> QED
  BY <1>1, <1>2 DEF FrameType, TwoFields, SetAt, SetFields

LEMMA OneFrame ==
  ASSUME OutType, NEW n \in Nodes, NEW i \in DOMAIN out[n], NEW fr \in FrameType, NEW h \in Nat,
         out' = SetAt(out, n, i, fr), held' = SetAt(held, n, i, h)
  PROVE  FrameBecomes(n, i, fr, h)
<1>1. out[n] \in Seq(FrameType) /\ held[n] \in Seq(Nat) /\ Len(held[n]) = Len(out[n])
  BY DEF OutType
<1>2. i \in DOMAIN held[n]
  BY <1>1
<1>3. /\ out'[n] = [out[n] EXCEPT ![i] = fr] /\ held'[n] = [held[n] EXCEPT ![i] = h]
      /\ \A m \in Nodes \ {n} : out'[m] = out[m] /\ held'[m] = held[m]
      /\ out' = [m \in Nodes |-> out'[m]] /\ held' = [m \in Nodes |-> held'[m]]
  BY DEF OutType, SetAt
<1>4. /\ out'[n] \in Seq(FrameType) /\ held'[n] \in Seq(Nat) /\ Len(held'[n]) = Len(out'[n])
      /\ DOMAIN out'[n] = DOMAIN out[n] /\ DOMAIN held'[n] = DOMAIN held[n]
      /\ DOMAIN held[n] = DOMAIN out[n]
  BY <1>1, <1>2, <1>3
<1>5. OutType'
  <2>1. \A m \in Nodes : /\ out'[m] \in Seq(FrameType) /\ held'[m] \in Seq(Nat)
                         /\ Len(held'[m]) = Len(out'[m])
    BY <1>3, <1>4 DEF OutType
  <2>2. out' \in [Nodes -> Seq(FrameType)] /\ held' \in [Nodes -> Seq(Nat)]
    BY <1>3, <2>1
  <2> QED BY <2>1, <2>2 DEF OutType
<1>6. /\ out'[n][i] = fr /\ held'[n][i] = h
      /\ \A j \in DOMAIN out[n] \ {i} : out'[n][j] = out[n][j] /\ held'[n][j] = held[n][j]
  BY <1>2, <1>3, <1>4
<1> QED
  BY <1>3, <1>4, <1>5, <1>6 DEF FrameBecomes

\* k vectors go from one place to another
LEMMA Give ==
  ASSUME NEW own \in [Vectors -> Places], NEW p \in Places, NEW q \in Places, p # q,
         NEW k \in Nat, k <= Cardinality(At(own, p))
  PROVE  \E o \in [Vectors -> Places] :
           /\ Cardinality(At(o, p)) = Cardinality(At(own, p)) - k
           /\ Cardinality(At(o, q)) = Cardinality(At(own, q)) + k
           /\ \A r : r # p /\ r # q => At(o, r) = At(own, r)
<1>1. IsFiniteSet(At(own, p)) /\ IsFiniteSet(At(own, q))
  BY VectorsFinite
<1>2. PICK T \in SUBSET At(own, p) : IsFiniteSet(T) /\ Cardinality(T) = k
  BY <1>1, SomeOf
<1> DEFINE o == [v \in Vectors |-> IF v \in T THEN q ELSE own[v]]
<1>3. o \in [Vectors -> Places]
  OBVIOUS
<1>4. \A v \in T : v \in Vectors /\ own[v] = p
  BY <1>2 DEF At
<1>5. At(o, p) = At(own, p) \ T /\ At(o, q) = At(own, q) \cup T /\ At(own, q) \cap T = {}
  BY <1>4 DEF At
<1>6. \A r : r # p /\ r # q => At(o, r) = At(own, r)
  BY <1>4 DEF At
<1>7. Cardinality(At(o, p)) = Cardinality(At(own, p)) - k
  <2>1. At(own, p) \cap T = T
    BY <1>2
  <2>2. Cardinality(At(own, p) \ T) = Cardinality(At(own, p)) - Cardinality(At(own, p) \cap T)
    BY <1>1, FS_Difference
  <2> QED BY <1>2, <1>5, <2>1, <2>2
<1>8. Cardinality(At(o, q)) = Cardinality(At(own, q)) + k
  <2>1. Cardinality(At(own, q) \cup T)
          = Cardinality(At(own, q)) + Cardinality(T) - Cardinality(At(own, q) \cap T)
    BY <1>1, <1>2, FS_Union
  <2>2. Cardinality(At(own, q)) \in Nat /\ Cardinality({}) = 0
    BY VectorsFinite, FS_EmptySet
  <2>3. Cardinality(At(own, q) \cap T) = 0 /\ Cardinality(At(o, q)) = Cardinality(At(own, q) \cup T)
    BY <1>5, <2>2
  <2> QED BY <1>2, <2>1, <2>2, <2>3
<1> HIDE DEF o
<1> QED
  BY <1>3, <1>6, <1>7, <1>8

LEMMA PlaceFacts ==
  /\ Hand \in Places /\ Gone \in Places /\ Hand # Gone
  /\ \A n \in Nodes : \A i \in Nat : <<n, i>> \in Places /\ <<n, i>> # Hand /\ <<n, i>> # Gone
BY DEF Hand, Gone, Places, Nodes

LEMMA SendStep ==
  ASSUME WalkInv, NEW i \in Nodes, NEW k \in 1..MaxVectorLen, Send(i, k)
  PROVE  WalkInv'
<1> DEFINE n == currentNode
           nVec == out[n][i].Len + k
           fr == [out[n][i] EXCEPT !.Len = nVec % MaxVectorLen, !.isPending = TRUE]
           h == held[n][i] + k
<1>0. GraphType /\ OutType /\ WalkType /\ QueueInv /\ FrameInv
  BY DEF WalkInv
<1>1. n \in Nodes /\ i \in DOMAIN out[n] /\ i \in Nat /\ k \in Nat \ {0}
  BY <1>0, LenAssumption DEF Send, WalkType, Nodes
<1>2. /\ out[n][i] \in FrameType /\ held[n][i] \in Nat /\ out[n][i].Len \in 0..MaxVectorLen-1
      /\ out[n][i].isPending \in BOOLEAN /\ out[n][i].next \in {Nil} \cup Nodes /\ out[n][i].next # Nil
      /\ i \in DOMAIN held[n]
  <2>1. /\ out[n] \in Seq(FrameType) /\ held[n] \in Seq(Nat) /\ Len(held[n]) = Len(out[n])
        /\ out[n][i].next # Nil
    BY <1>0, <1>1 DEF OutType, Send
  <2>2. DOMAIN held[n] = DOMAIN out[n]
    BY <2>1
  <2>3. out[n][i] \in FrameType /\ held[n][i] \in Nat
    BY <1>1, <2>1, <2>2
  <2> QED BY <1>1, <2>1, <2>2, <2>3 DEF FrameType
<1>3. nVec \in Nat /\ nVec > 0 /\ nVec <= MaxVectorLen /\ k <= left
  BY <1>1, <1>2 DEF Send, GetLen
<1>4. /\ out' = [out EXCEPT ![n][i] = fr]
      /\ pending' = IF ~out[n][i].isPending THEN Append(pending, Pending(n, i)) ELSE pending
      /\ held' = [held EXCEPT ![n][i] = h] /\ left' = left - k
      /\ UNCHANGED <<graphVars, pendingIndex, currentNode, rounds>>
  <2>1. /\ out' = [out EXCEPT ![n][i].Len = nVec % MaxVectorLen, ![n][i].isPending = @ \/ nVec > 0]
        /\ pending' = IF nVec > 0 /\ ~out[n][i].isPending THEN Append(pending, Pending(n, i)) ELSE pending
        /\ held' = [held EXCEPT ![n][i] = h] /\ left' = left - k
        /\ UNCHANGED <<graphVars, pendingIndex, currentNode, rounds>>
    BY DEF Send, SetLen, GetLen
  <2>2. out' = [out EXCEPT ![n][i] = [out[n][i] EXCEPT !.Len = nVec % MaxVectorLen, !.isPending = @ \/ nVec > 0]]
    BY <1>0, <1>1, <1>2, <2>1 DEF OutType, FrameType
  <2>3. (out[n][i].isPending \/ nVec > 0) = TRUE
    BY <1>3
  <2> QED BY <1>2, <1>3, <2>1, <2>2, <2>3 DEF FrameType
\* The frame was not full: every vector of the round would be in it, and none in hand
<1>own. PICK own \in [Vectors -> Places] : Shared(own)
  BY DEF WalkInv, VectorsInv
<1>5. PICK o \in [Vectors -> Places] :
        /\ Cardinality(At(o, Hand)) = Cardinality(At(own, Hand)) - k
        /\ Cardinality(At(o, <<n, i>>)) = Cardinality(At(own, <<n, i>>)) + k
        /\ \A r : r # Hand /\ r # <<n, i>> => At(o, r) = At(own, r)
  <2>1. k <= Cardinality(At(own, Hand)) /\ k \in Nat
    BY <1>1, <1>3, <1>own DEF Shared
  <2>2. Hand \in Places /\ <<n, i>> \in Places /\ Hand # <<n, i>>
    BY <1>1, PlaceFacts
  <2> QED BY <2>1, <2>2, Give
<1>6. Cardinality(At(own, <<n, i>>)) = held[n][i] /\ Cardinality(At(own, Hand)) = left
  BY <1>1, <1>own DEF Shared
<1>7. h <= MaxVectorLen
  BY <1>5, <1>6, VectorsFinite
<1>8. held[n][i] = out[n][i].Len /\ h = nVec
  BY <1>0, <1>1, <1>2, <1>7, LenAssumption DEF FrameInv
<1>9. fr \in FrameType /\ fr.isPending /\ fr.Len = (IF h = MaxVectorLen THEN 0 ELSE h) /\ h \in 1..MaxVectorLen
  <2>1. nVec % MaxVectorLen = (IF nVec = MaxVectorLen THEN 0 ELSE nVec)
    BY <1>3, LenFacts
  <2>2. nVec % MaxVectorLen \in 0..MaxVectorLen-1
    BY <1>3, <2>1, LenAssumption
  <2>3. fr \in FrameType /\ fr.isPending /\ fr.Len = nVec % MaxVectorLen
    BY <1>2, <2>2 DEF FrameType
  <2> QED BY <1>3, <1>8, <2>1, <2>3
<1>10. h \in Nat
  BY <1>1, <1>2
<1> HIDE DEF fr, h, nVec
<1>11. /\ OutType' /\ \A m \in Nodes : DOMAIN out'[m] = DOMAIN out[m]
       /\ out'[n][i] = fr /\ held'[n][i] = h
       /\ \A m \in Nodes : \A j \in DOMAIN out[m] :
            m # n \/ j # i => out'[m][j] = out[m][j] /\ held'[m][j] = held[m][j]
  <2>1. out' = SetAt(out, n, i, fr) /\ held' = SetAt(held, n, i, h)
    BY <1>4 DEF SetAt
  <2>2. FrameBecomes(n, i, fr, h)
    BY <1>0, <1>1, <1>9, <1>10, <2>1, OneFrame, Zenon
  <2> QED BY <2>2 DEF FrameBecomes
<1>12. FrameInv'
  BY <1>0, <1>1, <1>9, <1>11 DEF FrameInv
<1>13. VectorsInv'
  <2>1. \A m \in Nodes : \A j \in DOMAIN out[m] : <<m, j>> # Hand /\ (<<m, j>> = <<n, i>> => m = n /\ j = i)
    BY DEF Hand, Nodes
  <2>2. \A m \in Nodes : \A j \in DOMAIN out[m] : Cardinality(At(o, <<m, j>>)) = held'[m][j]
    BY <1>5, <1>6, <1>own, <1>11, <2>1 DEF Shared, h
  <2>3. Cardinality(At(o, Hand)) = left'
    BY <1>4, <1>5, <1>6
  <2> QED BY <1>11, <2>2, <2>3 DEF VectorsInv, Shared
<1>14. Pending(n, i) \in PendingType /\ Pending(n, i).node = n /\ Pending(n, i).nextIndex = i
       /\ Pending(n, i).nextNode # Nil
  BY <1>1, <1>2 DEF Pending, PendingType
<1>15. pending \in Seq(PendingType) /\ pendingIndex \in 0..Len(pending) /\ left \in 0..MaxVectorLen
  BY <1>0 DEF WalkType
<1>td. \A j \in ToDo : pending[j].node \in Nodes
  <2>1. \A j \in 1..Len(pending) : pending[j] \in PendingType
    BY <1>15
  <2>2. ToDo \subseteq 1..Len(pending)
    BY <1>15 DEF ToDo
  <2> QED BY <2>1, <2>2 DEF PendingType
<1>16. WalkType'
  <2>1. pending' \in Seq(PendingType) /\ Len(pending') >= Len(pending)
    <3>1. CASE pending' = pending
      BY <1>15, <3>1
    <3>2. CASE pending' = Append(pending, Pending(n, i))
      BY <1>14, <1>15, <3>2, AppendProperties
    <3> QED BY <1>4, <3>1, <3>2
  <2>2. left' \in 0..MaxVectorLen
    <3>1. left' = left - k /\ k \in Nat /\ k <= left /\ left \in 0..MaxVectorLen
      BY <1>1, <1>3, <1>4, <1>15
    <3> QED BY <3>1, LenAssumption
  <2> QED BY <1>0, <1>4, <1>15, <2>1, <2>2 DEF WalkType
<1>17. QueueInv'
  <2>0. currentNode' # Nil
    BY <1>1, <1>4 DEF Nodes, Nil
  <2>1. CASE out[n][i].isPending
    <3>1. ToDo' = ToDo /\ pending' = pending
      BY <1>4, <2>1 DEF ToDo
    <3>2. \A m \in Nodes : \A j \in DOMAIN out[m] : out'[m][j].isPending <=> out[m][j].isPending
      BY <1>9, <1>11, <2>1
    <3>3. \A j \in ToDo : pending[j].node \in Nodes
      BY <1>td
    <3>4. \A j \in ToDo : /\ pending[j].nextIndex \in DOMAIN out'[pending[j].node]
                          /\ out'[pending[j].node][pending[j].nextIndex].isPending
      BY <1>0, <1>11, <3>2, <3>3 DEF QueueInv
    <3> QED BY <1>0, <1>11, <2>0, <3>1, <3>2, <3>4 DEF QueueInv, IsAt
  <2>2. CASE ~out[n][i].isPending
    <3> DEFINE l == Len(pending) + 1
    <3>1. pending' = Append(pending, Pending(n, i)) /\ l \in Nat
      BY <1>4, <1>15, <2>2
    <3>2. /\ pending'[l] = Pending(n, i) /\ \A j \in ToDo : pending'[j] = pending[j] /\ j # l
          /\ ToDo' = ToDo \cup {l}
      BY <1>4, <1>14, <1>15, <3>1 DEF ToDo
    <3>3. \A j \in ToDo : ~IsAt(j, n, i)
      BY <1>0, <2>2 DEF QueueInv, IsAt
    <3>t. \A j \in ToDo : pending[j].node \in Nodes
      BY <1>td
    <3> HIDE DEF l
    <3>4. \A j, m \in ToDo' : (pending'[j].node = pending'[m].node /\ pending'[j].nextIndex = pending'[m].nextIndex) => j = m
      BY <1>0, <1>14, <3>2, <3>3 DEF QueueInv, IsAt
    <3>5. \A j \in ToDo' : /\ pending'[j].nextIndex \in DOMAIN out'[pending'[j].node]
                           /\ out'[pending'[j].node][pending'[j].nextIndex].isPending
                           /\ pending'[j].nextNode # Nil
      <4>1. ASSUME NEW j \in ToDo PROVE /\ pending[j].nextIndex \in DOMAIN out'[pending[j].node]
                           /\ out'[pending[j].node][pending[j].nextIndex].isPending
                           /\ pending[j].nextNode # Nil
        BY <1>0, <1>9, <1>11, <3>t DEF QueueInv
      <4> QED BY <1>1, <1>9, <1>11, <1>14, <3>2, <4>1
    <3>6. \A m \in Nodes : \A j \in DOMAIN out'[m] :
            out'[m][j].isPending => \E x \in ToDo' : pending'[x].node = m /\ pending'[x].nextIndex = j
      <4>1. ASSUME NEW m \in Nodes, NEW j \in DOMAIN out[m], out'[m][j].isPending
            PROVE  \E x \in ToDo' : pending'[x].node = m /\ pending'[x].nextIndex = j
        <5>1. CASE m = n /\ j = i
          BY <1>14, <3>2, <5>1
        <5>2. CASE m # n \/ j # i
          <6>1. out[m][j].isPending
            BY <1>11, <4>1, <5>2
          <6>2. PICK x \in ToDo : IsAt(x, m, j)
            BY <1>0, <6>1 DEF QueueInv
          <6> QED BY <3>2, <6>2 DEF IsAt
        <5> QED BY <5>1, <5>2
      <4> QED BY <1>11, <4>1
    <3> QED BY <2>0, <3>4, <3>5, <3>6 DEF QueueInv, IsAt
  <2> QED BY <2>1, <2>2
<1>18. GraphType'
  BY <1>0, <1>4 DEF GraphType, graphVars
<1> QED
  BY <1>11, <1>12, <1>13, <1>16, <1>17, <1>18 DEF WalkInv

\* The running node returns and the next frame is taken from the queue
LEMMA TakeFrame ==
  ASSUME WalkInv, Return, pendingIndex < Len(pending)
  PROVE  WalkInv'
<1> DEFINE p == pending[pendingIndex + 1]
           n == p.node
           i == p.nextIndex
           fr == [out[n][i] EXCEPT !.Len = 0, !.isPending = FALSE]
<1>0. GraphType /\ OutType /\ WalkType /\ QueueInv /\ FrameInv
  BY DEF WalkInv
<1>1. pending \in Seq(PendingType) /\ pendingIndex \in 0..Len(pending) /\ left \in 0..MaxVectorLen
  BY <1>0 DEF WalkType
<1>2. /\ pendingIndex + 1 \in ToDo /\ p \in PendingType /\ n \in Nodes /\ i \in Nodes
      /\ \A j \in ToDo : pending[j].node \in Nodes
  <2>1. \A j \in 1..Len(pending) : pending[j] \in PendingType
    BY <1>1
  <2>2. ToDo \subseteq 1..Len(pending) /\ pendingIndex + 1 \in ToDo
    BY <1>1 DEF ToDo
  <2> QED BY <2>1, <2>2 DEF PendingType
<1>3. i \in DOMAIN out[n] /\ out[n][i].isPending /\ p.nextNode # Nil /\ p.nextNode \in Nodes
  BY <1>0, <1>2 DEF QueueInv, PendingType
<1>4. /\ out' = [out EXCEPT ![n][i] = fr] /\ held' = [held EXCEPT ![n][i] = 0]
      /\ pendingIndex' = pendingIndex + 1 /\ currentNode' = p.nextNode
      /\ left' = nextVectors(n, i)
      /\ UNCHANGED <<pending, graphVars, rounds>>
  <2>1. /\ ResetFrame(n, i) /\ held' = [held EXCEPT ![n][i] = 0]
        /\ pendingIndex' = pendingIndex + 1 /\ currentNode' = p.nextNode
        /\ left' = nextVectors(n, i) /\ UNCHANGED <<pending, graphVars, rounds>>
    BY DEF Return
  <2>2. out \in [Nodes -> Seq(FrameType)]
    BY <1>0 DEF OutType
  <2>3. [out EXCEPT ![n][i].Len = 0, ![n][i].isPending = FALSE] = [out EXCEPT ![n][i] = fr]
    <3>0. n \in Nodes /\ i \in DOMAIN out[n]
      BY <1>2, <1>3
    <3>a. \A a, c : TwoFields(out, n, i, a, c) = SetAt(out, n, i, SetFields(out[n][i], a, c))
      <4> HIDE DEF n, i
      <4> QED BY <2>2, <3>0, PutFields, Zenon
    <3>1. TwoFields(out, n, i, 0, FALSE) = SetAt(out, n, i, SetFields(out[n][i], 0, FALSE))
      BY <3>a, Zenon
    <3> QED BY <3>1 DEF TwoFields, SetAt, SetFields
  <2> QED BY <2>1, <2>3 DEF ResetFrame
<1>5. fr \in FrameType /\ ~fr.isPending /\ fr.Len = 0
  <2>1. out[n] \in Seq(FrameType)
    BY <1>0, <1>2 DEF OutType
  <2>2. out[n][i] \in FrameType
    BY <1>3, <2>1
  <2>3. 0 \in 0..MaxVectorLen-1
    BY LenAssumption
  <2> HIDE DEF p, n, i
  <2> QED BY <2>2, <2>3 DEF FrameType
<1>6. left' = held[n][i] /\ held[n][i] \in 1..MaxVectorLen
  <2>1. held[n][i] \in 1..MaxVectorLen /\ out[n][i].Len = (IF held[n][i] = MaxVectorLen THEN 0 ELSE held[n][i])
    BY <1>0, <1>2, <1>3 DEF FrameInv
  <2>2. \A x, y \in Nat : x \in 1..MaxVectorLen /\ y = (IF x = MaxVectorLen THEN 0 ELSE x)
                        => (IF y = 0 THEN MaxVectorLen ELSE y) = x
    BY LenAssumption
  <2>3. held[n][i] \in Nat /\ out[n][i].Len \in Nat
    BY <2>1, LenAssumption
  <2>4. (IF out[n][i].Len = 0 THEN MaxVectorLen ELSE out[n][i].Len) = held[n][i]
    <3> HIDE DEF n, i
    <3> QED BY <2>1, <2>2, <2>3, Zenon
  <2>5. nextVectors(n, i) = held[n][i]
    BY <2>4 DEF nextVectors
  <2> QED BY <1>4, <2>1, <2>5
<1> HIDE DEF fr, p
<1>7. /\ OutType' /\ \A m \in Nodes : DOMAIN out'[m] = DOMAIN out[m]
      /\ out'[n][i] = fr /\ held'[n][i] = 0
      /\ \A m \in Nodes : \A j \in DOMAIN out[m] :
           m # n \/ j # i => out'[m][j] = out[m][j] /\ held'[m][j] = held[m][j]
  <2>1. 0 \in Nat
    OBVIOUS
  <2>2. out' = SetAt(out, n, i, fr) /\ held' = SetAt(held, n, i, 0)
    BY <1>4 DEF SetAt
  <2>3. OutType /\ n \in Nodes /\ i \in DOMAIN out[n] /\ fr \in FrameType
    BY <1>0, <1>2, <1>3, <1>5
  <2> HIDE DEF n, i
  <2>4. FrameBecomes(n, i, fr, 0)
    BY <2>1, <2>2, <2>3, OneFrame, Zenon
  <2> QED BY <2>4 DEF FrameBecomes
<1>8. FrameInv'
  BY <1>0, <1>5, <1>7 DEF FrameInv
<1>9. GraphType' /\ WalkType'
  <2>1. pendingIndex' \in 0..Len(pending) /\ pending' = pending
    BY <1>1, <1>4
  <2>2. left' \in 0..MaxVectorLen
    BY <1>6
  <2> QED BY <1>0, <1>3, <1>4, <2>1, <2>2 DEF GraphType, WalkType, graphVars
<1>10. ToDo' = ToDo \ {pendingIndex + 1} /\ \A j \in ToDo : pending'[j] = pending[j]
  BY <1>1, <1>4 DEF ToDo
<1>11. \A j \in ToDo : IsAt(j, n, i) => j = pendingIndex + 1
  BY <1>0, <1>2 DEF QueueInv, p
<1>12. QueueInv'
  <2>1. \A j, k \in ToDo' : (pending'[j].node = pending'[k].node /\ pending'[j].nextIndex = pending'[k].nextIndex) => j = k
    BY <1>0, <1>10 DEF QueueInv, IsAt
  <2>2. \A j \in ToDo' : /\ pending'[j].nextIndex \in DOMAIN out'[pending'[j].node]
                         /\ out'[pending'[j].node][pending'[j].nextIndex].isPending
                         /\ pending'[j].nextNode # Nil
    <3>1. ASSUME NEW j \in ToDo, j # pendingIndex + 1
          PROVE  /\ pending[j].nextIndex \in DOMAIN out'[pending[j].node]
                 /\ out'[pending[j].node][pending[j].nextIndex].isPending
                 /\ pending[j].nextNode # Nil
      <4>1. pending[j].node # n \/ pending[j].nextIndex # i
        BY <1>11, <3>1 DEF IsAt
      <4> QED BY <1>0, <1>2, <1>7, <4>1 DEF QueueInv
    <3> QED BY <1>10, <3>1
  <2>3. \A m \in Nodes : \A j \in DOMAIN out'[m] :
          out'[m][j].isPending => \E x \in ToDo' : pending'[x].node = m /\ pending'[x].nextIndex = j
    <3>1. ASSUME NEW m \in Nodes, NEW j \in DOMAIN out[m], out'[m][j].isPending
          PROVE  \E x \in ToDo' : pending'[x].node = m /\ pending'[x].nextIndex = j
      <4>1. m # n \/ j # i
        BY <1>5, <1>7, <3>1
      <4>2. out[m][j].isPending
        BY <1>7, <3>1, <4>1
      <4>3. PICK x \in ToDo : IsAt(x, m, j)
        BY <1>0, <4>2 DEF QueueInv
      <4>4. x # pendingIndex + 1
        BY <4>1, <4>3 DEF IsAt, p
      <4> QED BY <1>10, <4>3, <4>4 DEF IsAt
    <3> QED BY <1>7, <3>1
  <2>4. currentNode' # Nil
    BY <1>3, <1>4
  <2> QED BY <2>1, <2>2, <2>3, <2>4 DEF QueueInv, IsAt
\* What the node dropped is gone, and what was in the frame is in hand
<1>own. PICK own \in [Vectors -> Places] : Shared(own)
  BY DEF WalkInv, VectorsInv
<1>13. /\ Hand \in Places /\ Gone \in Places /\ <<n, i>> \in Places
       /\ Hand # Gone /\ <<n, i>> # Hand /\ <<n, i>> # Gone
       /\ \A m \in Nodes : \A j : <<m, j>> # Hand /\ <<m, j>> # Gone
       /\ \A m, j : <<m, j>> = <<n, i>> => m = n /\ j = i
  <2>1. i \in Nat
    BY <1>2 DEF Nodes
  <2> QED BY <1>2, <2>1, PlaceFacts DEF Hand, Gone, Nodes
<1>14. PICK o1 \in [Vectors -> Places] :
         /\ Cardinality(At(o1, Hand)) = Cardinality(At(own, Hand)) - left
         /\ \A r : r # Hand /\ r # Gone => At(o1, r) = At(own, r)
  <2>1. left \in Nat /\ left <= Cardinality(At(own, Hand))
    BY <1>1, <1>own DEF Shared
  <2> QED BY <1>13, <2>1, Give
<1>15. PICK o2 \in [Vectors -> Places] :
         /\ Cardinality(At(o2, <<n, i>>)) = Cardinality(At(o1, <<n, i>>)) - held[n][i]
         /\ Cardinality(At(o2, Hand)) = Cardinality(At(o1, Hand)) + held[n][i]
         /\ \A r : r # <<n, i>> /\ r # Hand => At(o2, r) = At(o1, r)
  <2>1. At(o1, <<n, i>>) = At(own, <<n, i>>)
    BY <1>13, <1>14
  <2>2. held[n][i] \in Nat /\ held[n][i] <= Cardinality(At(o1, <<n, i>>))
    <3>1. Cardinality(At(own, <<n, i>>)) = held[n][i]
      BY <1>2, <1>3, <1>own DEF Shared
    <3> QED BY <1>6, <2>1, <3>1
  <2> HIDE DEF n, i
  <2>3. Hand \in Places /\ <<n, i>> \in Places /\ <<n, i>> # Hand
    BY <1>13
  <2> QED BY <2>2, <2>3, Give, ZenonT(30)
<1>16. VectorsInv'
  <2>1. Cardinality(At(own, Hand)) = left /\ \A m \in Nodes : \A j \in DOMAIN out[m] : Cardinality(At(own, <<m, j>>)) = held[m][j]
    BY <1>own DEF Shared
  <2>2. Cardinality(At(o2, Hand)) = left'
    BY <1>1, <1>6, <1>14, <1>15, <2>1
  <2>3. Cardinality(At(o2, <<n, i>>)) = 0
    <3>1. At(o1, <<n, i>>) = At(own, <<n, i>>)
      BY <1>13, <1>14
    <3> QED BY <1>2, <1>3, <1>6, <1>15, <2>1, <3>1
  <2>4. \A m \in Nodes : \A j \in DOMAIN out[m] : Cardinality(At(o2, <<m, j>>)) = held'[m][j]
    <3> SUFFICES ASSUME NEW m \in Nodes, NEW j \in DOMAIN out[m]
                 PROVE  Cardinality(At(o2, <<m, j>>)) = held'[m][j]
      OBVIOUS
    <3>1. CASE m = n /\ j = i
      BY <1>7, <2>3, <3>1
    <3>2. CASE m # n \/ j # i
      <4>1. At(o2, <<m, j>>) = At(o1, <<m, j>>) /\ At(o1, <<m, j>>) = At(own, <<m, j>>)
        BY <1>13, <1>14, <1>15, <3>2
      <4> QED BY <1>7, <2>1, <3>2, <4>1
    <3> QED BY <3>1, <3>2
  <2> QED BY <1>7, <2>2, <2>4 DEF VectorsInv, Shared
<1> QED
  BY <1>7, <1>8, <1>9, <1>12, <1>16 DEF WalkInv

\* ... or the round ends
LEMMA EndRound ==
  ASSUME WalkInv, Return, ~(pendingIndex < Len(pending))
  PROVE  WalkInv'
<1>0. GraphType /\ OutType /\ WalkType /\ QueueInv /\ FrameInv
  BY DEF WalkInv
<1>1. /\ pending' = <<>> /\ pendingIndex' = 0 /\ currentNode' = Nil /\ left' = 0
      /\ UNCHANGED <<out, held, graphVars, rounds>>
  BY DEF Return
<1>2. ToDo = {}
  BY <1>0 DEF WalkType, ToDo
<1>3. \A n \in Nodes : \A i \in DOMAIN out[n] : out[n][i].isPending \in BOOLEAN
  <2>1. \A n \in Nodes : \A i \in DOMAIN out[n] : out[n][i] \in FrameType
    BY <1>0 DEF OutType
  <2> QED BY <2>1 DEF FrameType
<1>4. AllEmpty
  BY <1>0, <1>2, <1>3 DEF QueueInv, FrameInv, AllEmpty
<1>5. AllEmpty' /\ NothingQueued' /\ OutType'
  BY <1>0, <1>1, <1>4 DEF AllEmpty, NothingQueued, OutType
<1>6. GraphType' /\ WalkType'
  BY <1>0, <1>1, LenAssumption DEF GraphType, WalkType, graphVars
<1> QED
  BY <1>5, <1>6, EmptyNext

LEMMA WalkStep == WalkInv /\ [Next]_vars => WalkInv'
<1> SUFFICES ASSUME WalkInv, [Next]_vars PROVE WalkInv'
  OBVIOUS
<1>1. CASE UNCHANGED vars
  <2>1. UNCHANGED <<nextNodes, nextIndexByNodeName, initialNodesRegistered, out, held, pending,
                    pendingIndex, currentNode, left, rounds>>
    BY <1>1 DEF vars, graphVars, walkVars
  <2>2. GraphType' /\ OutType' /\ WalkType'
    BY <2>1 DEF WalkInv, GraphType, OutType, WalkType
  <2>3. QueueInv'
    BY <2>1 DEF WalkInv, QueueInv, ToDo, IsAt
  <2>4. FrameInv' /\ VectorsInv'
    BY <2>1 DEF WalkInv, FrameInv, VectorsInv, Shared
  <2> QED BY <2>2, <2>3, <2>4 DEF WalkInv
<1>2. CASE \/ \E n, m \in Nodes, w \in {AutoIndex} \cup Nodes : AddNext(n, m, w)
           \/ graphInit \/ initNodes
           \/ \E nVec \in 0..MaxVectorLen : LoopInput(nVec)
  BY <1>2, IdleStep
<1>3. CASE \E i \in Nodes, k \in 1..MaxVectorLen : Send(i, k)
  BY <1>3, SendStep
<1>4. CASE Return
  BY <1>4, TakeFrame, EndRound
<1> QED
  BY <1>1, <1>2, <1>3, <1>4 DEF Next

-----------------------------------------------------------------------------
(* The properties of a walk *)

LEMMA WalkTypeOK == WalkInv => TypeOK
BY DEF WalkInv, GraphType, OutType, WalkType, TypeOK, FrameType, PendingType

LEMMA WalkVectorsKept == WalkInv => VectorsKept
<1> SUFFICES ASSUME WalkInv PROVE VectorsKept
  OBVIOUS
<1>0. OutType /\ WalkType /\ QueueInv /\ FrameInv
  BY DEF WalkInv
<1> DEFINE f == [j \in ToDo |-> <<pending[j].node, pending[j].nextIndex>>]
<1>1. waiting = {f[j] : j \in ToDo}
  BY DEF waiting, ToDo
<1>2. ASSUME NEW n \in Nodes, NEW i \in DOMAIN out[n]
      PROVE  IF <<n, i>> \in waiting
             THEN nextVectors(n, i) = held[n][i]
             ELSE held[n][i] = 0 /\ out[n][i].Len = 0
  <2>1. <<n, i>> \in waiting <=> out[n][i].isPending
    <3>1. <<n, i>> \in waiting <=> \E j \in ToDo : IsAt(j, n, i)
      BY <1>1 DEF IsAt
    <3> QED BY <1>0, <3>1 DEF QueueInv, IsAt
  <2>2. out[n][i].isPending => nextVectors(n, i) = held[n][i]
    BY <1>0, LenAssumption DEF FrameInv, nextVectors
  <2>3. ~out[n][i].isPending => held[n][i] = 0 /\ out[n][i].Len = 0
    BY <1>0 DEF FrameInv
  <2> QED BY <2>1, <2>2, <2>3
<1>3. \A g \in Frames : IF g \in waiting
                        THEN nextVectors(g[1], g[2]) = held[g[1]][g[2]]
                        ELSE held[g[1]][g[2]] = 0 /\ out[g[1]][g[2]].Len = 0
  BY <1>2 DEF Frames
<1>4. f \in Bijection(ToDo, waiting)
  <2>1. \A j, k \in ToDo : f[j] = f[k] => j = k
    BY <1>0 DEF QueueInv, IsAt
  <2> QED BY <1>1, <2>1 DEF Bijection, Injection, Surjection, IsInjective
<1>5. IsFiniteSet(ToDo) /\ Cardinality(ToDo) = Len(pending) - pendingIndex
  <2>1. Len(pending) \in Nat /\ pendingIndex \in Nat /\ pendingIndex <= Len(pending)
    BY <1>0 DEF WalkType
  <2>2. pendingIndex + 1 \in Int /\ Len(pending) \in Int
    BY <2>1
  <2>3. /\ IsFiniteSet(ToDo)
        /\ Cardinality(ToDo) = IF pendingIndex + 1 > Len(pending) THEN 0
                               ELSE Len(pending) - (pendingIndex + 1) + 1
    BY <2>2, FS_Interval, Zenon DEF ToDo
  <2> QED BY <2>1, <2>3
<1>6. Cardinality(waiting) = Len(pending) - pendingIndex
  BY <1>4, <1>5, FS_Bijection DEF ExistsBijection
<1> QED
  BY <1>3, <1>6 DEF VectorsKept

\* Out.call and SetLen: however nodes are linked, in every state of a walk a frame with
\* vectors is queued exactly once, and its node is called with as many as were put in.
THEOREM CallsSoundHolds == Spec => []CallsSound
<1>1. WalkInv => CallsSound
  BY WalkTypeOK, WalkVectorsKept DEF CallsSound
<1> QED
  BY <1>1, WalkInit, WalkStep, PTL DEF Spec

-----------------------------------------------------------------------------
(* The indices of nexts *)

\* nextIndexByNodeName is the inverse of nextNodes
NamesInv ==
  \A n \in Nodes :
    /\ \A m \in DOMAIN nextIndexByNodeName[n] :
         /\ nextIndexByNodeName[n][m] \in DOMAIN nextNodes[n]
         /\ nextNodes[n][nextIndexByNodeName[n][m]] = m
    /\ \A i \in DOMAIN nextNodes[n] :
         /\ nextNodes[n][i] \in DOMAIN nextIndexByNodeName[n]
         /\ nextIndexByNodeName[n][nextNodes[n][i]] = i

\* The tables of the poller are those of the graph
TablesInv ==
  initialized => \A n \in Nodes : /\ DOMAIN out[n] = DOMAIN nextNodes[n]
                                  /\ \A i \in DOMAIN out[n] : out[n][i].next = nextNodes[n][i]

LEMMA InitializedFacts == OutType => (initialized <=> \E n \in Nodes : DOMAIN out[n] # {})
<1> SUFFICES ASSUME OutType PROVE initialized <=> \E n \in Nodes : DOMAIN out[n] # {}
  OBVIOUS
<1>1. \A n \in Nodes : out[n] \in Seq(FrameType)
  BY DEF OutType
<1>2. \A s \in Seq(FrameType) : s # <<>> <=> DOMAIN s # {}
  <2> TAKE s \in Seq(FrameType)
  <2>1. Len(s) \in Nat /\ DOMAIN s = 1..Len(s)
    OBVIOUS
  <2>2. s = <<>> <=> Len(s) = 0
    BY EmptySeq
  <2>3. Len(s) = 0 <=> 1..Len(s) = {}
    <3>1. Len(s) # 0 => 1 \in 1..Len(s)
      BY <2>1
    <3>2. Len(s) = 0 => 1..Len(s) = {}
      BY <2>1
    <3> QED BY <3>1, <3>2
  <2> QED BY <2>1, <2>2, <2>3
<1> QED
  BY <1>1, <1>2 DEF initialized

LEMMA InitializedNext ==
  ASSUME OutType'
  PROVE  initialized' <=> \E n \in Nodes : DOMAIN out'[n] # {}
<1>1. \A n \in Nodes : out'[n] \in Seq(FrameType)
  BY DEF OutType
<1>2. \A s \in Seq(FrameType) : s # <<>> <=> DOMAIN s # {}
  <2> TAKE s \in Seq(FrameType)
  <2>1. Len(s) \in Nat /\ DOMAIN s = 1..Len(s)
    OBVIOUS
  <2>2. s = <<>> <=> Len(s) = 0
    BY EmptySeq
  <2>3. Len(s) = 0 <=> 1..Len(s) = {}
    <3>1. Len(s) # 0 => 1 \in 1..Len(s)
      BY <2>1
    <3>2. Len(s) = 0 => 1..Len(s) = {}
      BY <2>1
    <3> QED BY <3>1, <3>2
  <2> QED BY <2>1, <2>2, <2>3
<1> QED
  BY <1>1, <1>2 DEF initialized

\* A walk changes no next
LEMMA TablesKept ==
  ASSUME OutType, OutType', TablesInv, NamesInv, UNCHANGED graphVars,
         \A n \in Nodes : /\ DOMAIN out'[n] = DOMAIN out[n]
                          /\ \A i \in DOMAIN out[n] : out'[n][i].next = out[n][i].next
  PROVE  NamesInv' /\ TablesInv'
<1>1. NamesInv'
  BY DEF NamesInv, graphVars
<1>2. initialized' => initialized
  BY InitializedFacts, InitializedNext
<1>3. TablesInv'
  BY <1>2 DEF TablesInv, graphVars
<1> QED
  BY <1>1, <1>3

\* One next more, or one that is known already
LEMMA AddNextNames ==
  ASSUME ~AnyIndex, GraphType, NamesInv,
         NEW n \in Nodes, NEW m \in Nodes, NEW w \in {AutoIndex} \cup Nodes, AddNext(n, m, w)
  PROVE  /\ NamesInv'
         /\ nextNodes'[n] = PutAt(nextNodes[n], nextIndex(n, m, w), Nil, m)
         /\ \A k \in Nodes \ {n} : nextNodes'[k] = nextNodes[k]
         /\ nextIndex(n, m, w) \in 1..Len(nextNodes[n]) + 1
<1> DEFINE s == nextNodes[n]
           x == nextIndex(n, m, w)
           known == m \in DOMAIN nextIndexByNodeName[n]
<1>1. s \in Seq({Nil} \cup Nodes) /\ Len(s) \in Nat /\ DOMAIN s = 1..Len(s)
  BY DEF GraphType
<1>2. IF known THEN x = nextIndexByNodeName[n][m] /\ x \in DOMAIN s /\ s[x] = m ELSE x = Len(s) + 1
  <2>1. CASE known
    BY <2>1 DEF NamesInv, nextIndex
  <2>2. CASE ~known
    BY <2>2 DEF AddNext, nextIndex
  <2> QED BY <2>1, <2>2
<1>3. x \in Nat \ {0} /\ x \in 1..Len(s) + 1
  BY <1>1, <1>2
<1>4. findNext(n, m) = x
  BY <1>2 DEF findNext
<1>5. /\ nextNodes' = [nextNodes EXCEPT ![n] = PutAt(s, x, Nil, m)]
      /\ nextIndexByNodeName' =
           [nextIndexByNodeName EXCEPT ![n] = [k \in DOMAIN nextIndexByNodeName[n] \cup {m} |->
                                                 IF k = m THEN x ELSE nextIndexByNodeName[n][k]]]
  BY <1>4 DEF AddNext
<1>6. /\ nextNodes'[n] = PutAt(s, x, Nil, m) /\ \A k \in Nodes \ {n} : nextNodes'[k] = nextNodes[k]
      /\ \A k \in Nodes \ {n} : nextIndexByNodeName'[k] = nextIndexByNodeName[k]
      /\ DOMAIN nextIndexByNodeName'[n] = DOMAIN nextIndexByNodeName[n] \cup {m}
      /\ \A k \in DOMAIN nextIndexByNodeName[n] \cup {m} :
           nextIndexByNodeName'[n][k] = IF k = m THEN x ELSE nextIndexByNodeName[n][k]
  BY <1>5 DEF GraphType
<1> HIDE DEF x
<1>7. IsPut(PutAt(s, x, Nil, m), {Nil} \cup Nodes, s, x, Nil, m)
  BY <1>1, <1>3, PutFacts
<1>8. /\ DOMAIN nextNodes'[n] = DOMAIN s \cup {x}
      /\ \A i \in DOMAIN s \cup {x} : nextNodes'[n][i] = IF i = x THEN m ELSE s[i]
  <2>1. DOMAIN s \cup 1..x = DOMAIN s \cup {x}
    BY <1>1, <1>3
  <2> QED BY <1>6, <1>7, <2>1 DEF IsPut
<1>9. /\ \A k \in DOMAIN nextIndexByNodeName[n] : nextIndexByNodeName[n][k] \in DOMAIN s /\ s[nextIndexByNodeName[n][k]] = k
      /\ \A i \in DOMAIN s : s[i] \in DOMAIN nextIndexByNodeName[n] /\ nextIndexByNodeName[n][s[i]] = i
  BY DEF NamesInv
<1>10. ~known => x \notin DOMAIN s
  BY <1>1, <1>2
<1>11. \A k \in DOMAIN nextIndexByNodeName'[n] :
         /\ nextIndexByNodeName'[n][k] \in DOMAIN nextNodes'[n]
         /\ nextNodes'[n][nextIndexByNodeName'[n][k]] = k
  BY <1>2, <1>6, <1>8, <1>9, <1>10
<1>12. \A i \in DOMAIN nextNodes'[n] :
         /\ nextNodes'[n][i] \in DOMAIN nextIndexByNodeName'[n]
         /\ nextIndexByNodeName'[n][nextNodes'[n][i]] = i
  BY <1>2, <1>6, <1>8, <1>9, <1>10
<1>13. NamesInv'
  BY <1>6, <1>11, <1>12 DEF NamesInv
<1> QED
  BY <1>3, <1>6, <1>13 DEF x

LEMMA AddNextTables ==
  ASSUME ~AnyIndex, GraphType, OutType, OutType', NamesInv, TablesInv,
         NEW n \in Nodes, NEW m \in Nodes, NEW w \in {AutoIndex} \cup Nodes, AddNext(n, m, w)
  PROVE  TablesInv'
<1> DEFINE x == nextIndex(n, m, w)
           s == nextNodes[n]
           v == IF x <= Len(out[n]) THEN [out[n][x] EXCEPT !.next = m] ELSE Frame(m)
<1>1. /\ nextNodes'[n] = PutAt(s, x, Nil, m) /\ x \in 1..Len(s) + 1
      /\ \A k \in Nodes \ {n} : nextNodes'[k] = nextNodes[k]
  BY AddNextNames
<1>2. s \in Seq({Nil} \cup Nodes) /\ Len(s) \in Nat /\ DOMAIN s = 1..Len(s) /\ x \in Nat \ {0}
  <2>1. s \in Seq({Nil} \cup Nodes)
    BY DEF GraphType
  <2>2. Len(s) \in Nat /\ DOMAIN s = 1..Len(s)
    BY <2>1
  <2> QED BY <1>1, <2>1, <2>2
<1>3. CASE ~initialized
  <2>1. out' = out
    BY <1>3 DEF AddNext, AddToPollers
  <2>2. ~initialized'
    BY <1>3, <2>1 DEF initialized
  <2> QED BY <2>2 DEF TablesInv
<1>4. CASE initialized
  <2>1. /\ \A k \in Nodes : DOMAIN out[k] = DOMAIN nextNodes[k]
        /\ \A k \in Nodes : \A i \in DOMAIN out[k] : out[k][i].next = nextNodes[k][i]
    BY <1>4 DEF TablesInv
  <2>2. out' = [out EXCEPT ![n] = PutAt(out[n], x, Frame(Nil), v)]
    BY <1>4 DEF AddNext, AddToPollers
  <2>3. out[n] \in Seq(FrameType) /\ DOMAIN out[n] = 1..Len(out[n]) /\ Len(out[n]) \in Nat
    <3>1. out[n] \in Seq(FrameType)
      BY DEF OutType
    <3> QED BY <3>1
  <2>4. /\ out'[n] = PutAt(out[n], x, Frame(Nil), v)
        /\ \A k \in Nodes \ {n} : out'[k] = out[k]
    BY <2>2 DEF OutType
  <2>5. Frame(Nil) \in FrameType /\ Frame(m) \in FrameType /\ Frame(m).next = m
    BY LenAssumption DEF Frame, FrameType
  <2>6. v \in FrameType /\ v.next = m
    <3>1. CASE x <= Len(out[n])
      <4>1. out[n][x] \in FrameType
        BY <1>2, <2>3, <3>1
      <4> QED BY <3>1, <4>1 DEF FrameType
    <3>2. CASE ~(x <= Len(out[n]))
      BY <2>5, <3>2
    <3> QED BY <3>1, <3>2
  <2> HIDE DEF v, x
  <2>7. IsPut(out'[n], FrameType, out[n], x, Frame(Nil), v)
    BY <1>2, <2>3, <2>4, <2>5, <2>6, PutFacts
  <2>8. IsPut(nextNodes'[n], {Nil} \cup Nodes, s, x, Nil, m)
    <3>1. IsPut(PutAt(s, x, Nil, m), {Nil} \cup Nodes, s, x, Nil, m)
      BY <1>2, PutFacts
    <3> QED BY <1>1, <3>1
  <2>9. DOMAIN s \cup 1..x = DOMAIN s \cup {x}
    BY <1>1, <1>2
  <2>10. DOMAIN out'[n] = DOMAIN nextNodes'[n] /\ \A i \in DOMAIN out'[n] : out'[n][i].next = nextNodes'[n][i]
    BY <2>1, <2>6, <2>7, <2>8, <2>9 DEF IsPut
  <2> QED BY <1>1, <2>1, <2>4, <2>10 DEF TablesInv
<1> QED
  BY <1>3, <1>4

LEMMA RoutesStep ==
  ASSUME ~AnyIndex, WalkInv, WalkInv', NamesInv, TablesInv, [Next]_vars
  PROVE  NamesInv' /\ TablesInv'
<1>0. GraphType /\ OutType /\ WalkType /\ QueueInv /\ OutType'
  BY DEF WalkInv
<1>t. \A n \in Nodes : \A i \in DOMAIN out[n] : out[n][i] \in FrameType
  BY <1>0 DEF OutType
<1>1. CASE UNCHANGED vars
  BY <1>0, <1>1, TablesKept DEF vars
<1>2. CASE graphInit
  <2>1. UNCHANGED <<nextNodes, nextIndexByNodeName, out>>
    BY <1>2 DEF graphInit
  <2> QED BY <2>1 DEF NamesInv, TablesInv, initialized
<1>3. CASE initNodes
  <2>1. /\ UNCHANGED graphVars
        /\ \A n \in Nodes : out'[n] = [i \in DOMAIN nextNodes[n] |-> Frame(nextNodes[n][i])]
    BY <1>3 DEF initNodes
  <2>2. \A k : Frame(k).next = k
    BY DEF Frame
  <2>3. ASSUME NEW n \in Nodes
        PROVE  DOMAIN out'[n] = DOMAIN nextNodes[n] /\ \A i \in DOMAIN out'[n] : out'[n][i].next = nextNodes[n][i]
    <3>1. out'[n] = [i \in DOMAIN nextNodes[n] |-> Frame(nextNodes[n][i])]
      BY <2>1
    <3>2. DOMAIN out'[n] = DOMAIN nextNodes[n]
      BY <3>1
    <3>3. ASSUME NEW i \in DOMAIN nextNodes[n] PROVE out'[n][i].next = nextNodes[n][i]
      <4>1. out'[n][i] = Frame(nextNodes[n][i])
        BY <3>1
      <4> QED BY <4>1, <2>2
    <3> QED BY <3>2, <3>3
  <2>4. nextNodes' = nextNodes
    BY <2>1 DEF graphVars
  <2>5. TablesInv'
    BY <2>3, <2>4 DEF TablesInv
  <2> QED BY <2>1, <2>5 DEF NamesInv, graphVars
<1>4. ASSUME NEW n \in Nodes, NEW m \in Nodes, NEW w \in {AutoIndex} \cup Nodes, AddNext(n, m, w)
      PROVE  NamesInv' /\ TablesInv'
  BY <1>0, <1>4, AddNextNames, AddNextTables
<1>5. CASE \E nVec \in 0..MaxVectorLen : LoopInput(nVec)
  BY <1>0, <1>5, TablesKept DEF LoopInput
<1>6. ASSUME NEW i \in Nodes, NEW k \in 1..MaxVectorLen, Send(i, k) PROVE NamesInv' /\ TablesInv'
  <2>1. currentNode \in Nodes /\ i \in DOMAIN out[currentNode] /\ UNCHANGED graphVars
    BY <1>0, <1>6 DEF Send, WalkType
  <2> DEFINE n == currentNode
             a == (GetLen(n, i) + k) % MaxVectorLen
             b == out[n][i].isPending \/ GetLen(n, i) + k > 0
  <2>2. out' = [out EXCEPT ![n][i] = [out[n][i] EXCEPT !.Len = a, !.isPending = b]]
    <3>1. out' = [out EXCEPT ![n][i].Len = a, ![n][i].isPending = @ \/ GetLen(n, i) + k > 0]
      BY <1>6 DEF Send, SetLen
    <3>2. out \in [Nodes -> Seq(FrameType)] /\ n \in Nodes /\ i \in DOMAIN out[n]
      BY <1>0, <2>1 DEF OutType
    <3>3. out[n] \in Seq(FrameType) /\ out[n][i] \in FrameType
      BY <3>2
    <3>4. out' = TwoFields(out, n, i, a, b)
      <4> HIDE DEF n, a
      <4> QED BY <3>1, <3>2, <3>3 DEF FrameType, TwoFields
    <3> HIDE DEF n, a, b
    <3>5. out' = SetAt(out, n, i, SetFields(out[n][i], a, b))
      BY <3>2, <3>4, PutFields
    <3> QED BY <3>5 DEF SetAt, SetFields
  <2>3. out' = [out EXCEPT ![n] = [out[n] EXCEPT ![i] = [out[n][i] EXCEPT !.Len = a, !.isPending = b]]]
    BY <1>0, <2>1, <2>2 DEF OutType
  <2> HIDE DEF n, a, b
  <2>4. [out[n][i] EXCEPT !.Len = a, !.isPending = b].next = out[n][i].next
    BY <1>t, <2>1 DEF FrameType, n
  <2>5. \A x \in Nodes : /\ DOMAIN out'[x] = DOMAIN out[x]
                         /\ \A j \in DOMAIN out[x] : out'[x][j].next = out[x][j].next
    BY <1>0, <2>1, <2>3, <2>4 DEF OutType, n
  <2> QED BY <1>0, <2>1, <2>5, TablesKept
<1>7. CASE Return
  <2>1. UNCHANGED graphVars
    BY <1>7 DEF Return
  <2>2. CASE pendingIndex < Len(pending)
    <3> DEFINE n == pending[pendingIndex + 1].node
               i == pending[pendingIndex + 1].nextIndex
    <3>1. pendingIndex + 1 \in ToDo /\ pendingIndex + 1 \in 1..Len(pending)
      BY <1>0, <2>2 DEF WalkType, ToDo
    <3>2. n \in Nodes /\ i \in DOMAIN out[n]
      <4>1. pending[pendingIndex + 1] \in PendingType
        BY <1>0, <3>1 DEF WalkType
      <4>2. i \in DOMAIN out[n]
        BY <1>0, <3>1 DEF QueueInv
      <4> QED BY <4>1, <4>2 DEF PendingType
    <3>3. out' = [out EXCEPT ![n][i].Len = 0, ![n][i].isPending = FALSE]
      BY <1>7, <2>2 DEF Return, ResetFrame
    <3> HIDE DEF n, i
    <3>4. out' = [out EXCEPT ![n] = [out[n] EXCEPT ![i] = [out[n][i] EXCEPT !.Len = 0, !.isPending = FALSE]]]
      BY <1>0, <1>t, <3>2, <3>3 DEF OutType, FrameType
    <3>5. [out[n][i] EXCEPT !.Len = 0, !.isPending = FALSE].next = out[n][i].next
      BY <1>t, <3>2 DEF FrameType
    <3>6. \A x \in Nodes : /\ DOMAIN out'[x] = DOMAIN out[x]
                           /\ \A j \in DOMAIN out[x] : out'[x][j].next = out[x][j].next
      BY <1>0, <3>2, <3>4, <3>5 DEF OutType
    <3> QED BY <1>0, <2>1, <3>6, TablesKept
  <2>3. CASE ~(pendingIndex < Len(pending))
    <3>1. out' = out
      BY <1>7, <2>3 DEF Return
    <3> QED BY <1>0, <2>1, <3>1, TablesKept
  <2> QED BY <2>2, <2>3
<1> QED
  BY <1>1, <1>2, <1>3, <1>4, <1>5, <1>6, <1>7 DEF Next

\* AddNamedNextWithIndex: an index that was given out for a next leads to the node of that
\* name, before and after the pollers have made their tables, if callers pass the index
\* that comes next or none.  With gaps it fails: findNext counts the nexts, gaps included.
THEOREM RoutesAgreeHolds ==
  ASSUME ~AnyIndex
  PROVE  Spec => []RoutesAgree
<1>1. Init => NamesInv /\ TablesInv
  BY DEF Init, NamesInv, TablesInv, initialized
<1>2. WalkInv /\ WalkInv' /\ NamesInv /\ TablesInv /\ [Next]_vars => NamesInv' /\ TablesInv'
  BY RoutesStep
<1>3. NamesInv /\ TablesInv => RoutesAgree
  BY DEF NamesInv, TablesInv, RoutesAgree
<1> QED
  BY <1>1, <1>2, <1>3, WalkInit, WalkStep, PTL DEF Spec

-----------------------------------------------------------------------------
(* Dep: the inductive invariant *)

Elements == Range(hooks)
IndicesOf(S) == {index[h] : h \in S}
Needs(h) == {d \in Hooks : <<h, d>> \in Before}

DepTypes ==
  /\ Deps \subseteq Hooks \X Hooks /\ AntiDeps \subseteq Hooks \X Hooks /\ Acyclic(Before)
  /\ index \in [Hooks -> Nat] /\ deps \in [Hooks -> SUBSET Hooks]
  /\ hooks \in Seq(Hooks) /\ order \in Seq(Nat) /\ helperCalls \in Seq(Hooks) /\ placed \in Nat

\* Elements are numbered as they are added
Entered ==
  /\ \A h, d \in Elements : index[h] = index[d] => h = d
  /\ IndicesOf(Elements) \subseteq 0..Len(hooks) - 1
  /\ IsFiniteSet(IndicesOf(Elements)) /\ Cardinality(IndicesOf(Elements)) = Len(hooks)

Unordered ==
  /\ doing = "idle" /\ order = <<>>
  /\ \A i \in 1..Len(hooks) : index[hooks[i]] = i - 1
  /\ \A h \in Hooks : deps[h] = {d \in Hooks : <<h, d>> \in Deps}

\* Anti-dependencies have been turned around
Resolved == hooks # <<>> /\ \A h \in Elements : deps[h] = Needs(h) /\ deps[h] \subseteq Elements

\* The calls under way follow dependencies and have not returned
CallsInv ==
  /\ \A i \in 1..Len(helperCalls) : helperCalls[i] \in Elements /\ index[helperCalls[i]] \notin Range(order)
  /\ \A i \in 1..Len(helperCalls) - 1 : helperCalls[i + 1] \in deps[helperCalls[i]]
  /\ \A i, j \in 1..Len(helperCalls) : helperCalls[i] = helperCalls[j] => i = j
  /\ seen = Range(order) \cup {index[helperCalls[i]] : i \in 1..Len(helperCalls)}

\* What has returned has its dependencies before it
OrderInv ==
  /\ IsFiniteSet(Range(order)) /\ Cardinality(Range(order)) = Len(order)
  /\ Range(order) \subseteq IndicesOf(Elements)
  /\ \A h \in Elements : \A d \in deps[h] : \A j \in 1..Len(order) :
       order[j] = index[h] => \E i \in 1..j - 1 : order[i] = index[d]

DepInv ==
  /\ DepTypes /\ Entered
  /\ isOrdered \in BOOLEAN
  /\ ~isOrdered => Unordered
  /\ isOrdered => Resolved /\ CallsInv /\ OrderInv
  /\ doing = "place" => order = <<>> /\ helperCalls = <<>> /\ placed \in 1..Len(hooks)
  /\ isOrdered /\ doing = "idle" => helperCalls = <<>> /\ IndicesOf(Elements) \subseteq seen

-----------------------------------------------------------------------------
(* Dep: the steps *)

\* A sequence without its last element
LEMMA Lasts ==
  ASSUME NEW S, NEW r \in Seq(S), r # <<>>
  PROVE  /\ Len(r) \in Nat \ {0} /\ r[Len(r)] \in S
         /\ SubSeq(r, 1, Len(r) - 1) \in Seq(S) /\ Len(SubSeq(r, 1, Len(r) - 1)) = Len(r) - 1
         /\ \A i \in 1..Len(r) - 1 : SubSeq(r, 1, Len(r) - 1)[i] = r[i]
<1>1. Len(r) \in Nat \ {0} /\ r[Len(r)] \in S
  OBVIOUS
<1> DEFINE m == Len(r) - 1
<1>2. m \in Nat /\ m <= Len(r)
  BY <1>1
<1> HIDE DEF m
<1>3. /\ SubSeq(r, 1, m) \in Seq(S) /\ Len(SubSeq(r, 1, m)) = m
      /\ \A i \in 1..m : SubSeq(r, 1, m)[i] = r[i]
  BY <1>2
<1> QED
  BY <1>1, <1>3 DEF m

LEMMA DepInvInit ==
  ASSUME DepInit
  PROVE  DepInv
<1>1. /\ hooks = <<>> /\ order = <<>> /\ helperCalls = <<>> /\ doing = "idle" /\ isOrdered = FALSE /\ placed = 0
      /\ index = [h \in Hooks |-> 0] /\ deps = [h \in Hooks |-> {d \in Hooks : <<h, d>> \in Deps}]
      /\ Deps \subseteq Hooks \X Hooks /\ AntiDeps \subseteq Hooks \X Hooks /\ Acyclic(Before)
  BY DEF DepInit
<1>2. Elements = {} /\ IndicesOf(Elements) = {} /\ Len(hooks) = 0
  BY <1>1 DEF Elements, IndicesOf, Range
<1>3. IsFiniteSet(IndicesOf(Elements)) /\ Cardinality(IndicesOf(Elements)) = 0
  BY <1>2, FS_EmptySet
<1>4. DepTypes
  BY <1>1 DEF DepTypes
<1>5. Entered
  BY <1>2, <1>3 DEF Entered
<1>6. Unordered
  BY <1>1, <1>2 DEF Unordered
<1> QED
  BY <1>1, <1>4, <1>5, <1>6 DEF DepInv

LEMMA AddKeeps ==
  ASSUME ~AddLater, DepInv, NEW h \in Hooks, Add(h)
  PROVE  DepInv'
<1>1. /\ doing = "idle" /\ h \notin Elements /\ order = <<>>
      /\ index' = [index EXCEPT ![h] = Len(hooks)] /\ hooks' = Append(hooks, h) /\ isOrdered' = FALSE
      /\ deps' = deps /\ order' = order /\ Deps' = Deps /\ AntiDeps' = AntiDeps
      /\ doing' = doing /\ placed' = placed /\ helperCalls' = helperCalls
  BY DEF Add, Elements, user, within
<1>2. /\ DepTypes /\ Entered /\ hooks \in Seq(Hooks) /\ index \in [Hooks -> Nat]
  BY DEF DepInv, DepTypes
<1>3. ~isOrdered /\ Unordered
  <2>1. CASE isOrdered
    <3>1. helperCalls = <<>> /\ IndicesOf(Elements) \subseteq seen /\ CallsInv /\ hooks # <<>>
      BY <1>1, <2>1 DEF DepInv, Resolved
    <3>2. seen = {}
      BY <1>1, <3>1 DEF CallsInv, Range
    <3>3. hooks[1] \in Elements
      BY <1>2, <3>1 DEF Elements, Range
    <3> QED BY <3>1, <3>2, <3>3 DEF IndicesOf
  <2> QED BY <2>1 DEF DepInv
<1>4. /\ Len(hooks) \in Nat /\ Len(hooks') = Len(hooks) + 1 /\ hooks' \in Seq(Hooks)
      /\ \A i \in 1..Len(hooks) : hooks'[i] = hooks[i] /\ hooks[i] \in Elements
      /\ hooks'[Len(hooks) + 1] = h
  BY <1>1, <1>2 DEF Elements, Range
<1>5. Elements' = Elements \cup {h} /\ Elements \subseteq Hooks
  <2>1. DOMAIN hooks = 1..Len(hooks) /\ DOMAIN hooks' = 1..Len(hooks) + 1
    BY <1>2, <1>4
  <2>2. Elements = {hooks[i] : i \in 1..Len(hooks)} /\ Elements' = {hooks'[i] : i \in 1..Len(hooks) + 1}
    BY <2>1 DEF Elements, Range
  <2>3. \A i \in 1..Len(hooks) + 1 : i \in 1..Len(hooks) \/ i = Len(hooks) + 1
    BY <1>4
  <2>4. 1..Len(hooks) \subseteq 1..Len(hooks) + 1 /\ Len(hooks) + 1 \in 1..Len(hooks) + 1
    BY <1>4
  <2>5. ASSUME NEW d \in Elements' PROVE d \in Elements \cup {h}
    BY <1>4, <2>2, <2>3
  <2>6. ASSUME NEW d \in Elements \cup {h} PROVE d \in Elements'
    BY <1>4, <2>2, <2>4
  <2>7. \A i \in 1..Len(hooks) : hooks[i] \in Hooks
    BY <1>2
  <2> QED BY <2>2, <2>5, <2>6, <2>7
<1>6. /\ index' \in [Hooks -> Nat] /\ index'[h] = Len(hooks)
      /\ \A d \in Elements : index'[d] = index[d] /\ index[d] \in 0..Len(hooks) - 1
  BY <1>1, <1>2, <1>4, <1>5 DEF Entered, IndicesOf
<1>7. IndicesOf(Elements)' = IndicesOf(Elements) \cup {Len(hooks)} /\ Len(hooks) \notin IndicesOf(Elements)
  BY <1>4, <1>5, <1>6 DEF IndicesOf
<1>8. /\ IsFiniteSet(IndicesOf(Elements)') /\ Cardinality(IndicesOf(Elements)') = Len(hooks')
      /\ IndicesOf(Elements)' \subseteq 0..Len(hooks') - 1
  <2>1. IsFiniteSet(IndicesOf(Elements)) /\ Cardinality(IndicesOf(Elements)) = Len(hooks)
        /\ IndicesOf(Elements) \subseteq 0..Len(hooks) - 1
    BY <1>2 DEF Entered
  <2>2. /\ IsFiniteSet(IndicesOf(Elements) \cup {Len(hooks)})
        /\ Cardinality(IndicesOf(Elements) \cup {Len(hooks)}) = Len(hooks) + 1
    BY <1>7, <2>1, FS_AddElement
  <2> QED BY <1>4, <1>7, <2>1, <2>2
<1>9. Entered'
  <2>1. ASSUME NEW d \in Elements', NEW e \in Elements', index'[d] = index'[e] PROVE d = e
    <3>1. \A g \in Elements : index'[g] # Len(hooks)
      BY <1>4, <1>6
    <3>2. CASE d \in Elements /\ e \in Elements
      BY <1>2, <1>6, <2>1, <3>2 DEF Entered
    <3>3. CASE d = h \/ e = h
      BY <1>5, <1>6, <2>1, <3>1, <3>3
    <3> QED BY <1>5, <3>2, <3>3
  <2> QED BY <1>8, <2>1 DEF Entered
<1>10. Unordered'
  <2>1. \A i \in 1..Len(hooks') : index'[hooks'[i]] = i - 1
    <3> SUFFICES ASSUME NEW i \in 1..Len(hooks') PROVE index'[hooks'[i]] = i - 1
      OBVIOUS
    <3>1. CASE i \in 1..Len(hooks)
      <4>1. index[hooks[i]] = i - 1
        BY <1>3, <3>1 DEF Unordered
      <4> QED BY <1>4, <1>6, <3>1, <4>1
    <3>2. CASE i = Len(hooks) + 1
      BY <1>4, <1>6, <3>2
    <3> QED BY <1>4, <3>1, <3>2
  <2> QED BY <1>1, <1>3, <2>1 DEF Unordered
<1>11. DepTypes'
  BY <1>1, <1>2, <1>4, <1>6 DEF DepTypes, Before
<1> QED
  BY <1>1, <1>9, <1>10, <1>11 DEF DepInv

LEMMA SortKeeps ==
  ASSUME DepInv, Sort
  PROVE  DepInv'
<1>1. /\ doing = "idle" /\ hooks # <<>> /\ ~isOrdered
      /\ \A h \in Elements : \A d \in Hooks : <<h, d>> \in Before => d \in Elements
      /\ deps' = [h \in Hooks |-> IF h \in Elements THEN dependsOn(h) ELSE deps[h]]
      /\ isOrdered' = TRUE /\ order' = <<>> /\ doing' = "place" /\ placed' = 1 /\ seen' = {} /\ helperCalls' = <<>>
      /\ Deps' = Deps /\ AntiDeps' = AntiDeps /\ index' = index /\ hooks' = hooks
  BY DEF Sort, Elements, user
<1>2. DepTypes /\ Entered /\ Unordered /\ hooks \in Seq(Hooks) /\ deps \in [Hooks -> SUBSET Hooks]
  BY <1>1 DEF DepInv, DepTypes
<1>3. Elements' = Elements /\ Elements \subseteq Hooks /\ IndicesOf(Elements)' = IndicesOf(Elements) /\ Before' = Before
      /\ Len(hooks) \in Nat \ {0} /\ DOMAIN hooks = 1..Len(hooks)
  BY <1>1, <1>2 DEF Elements, Range, IndicesOf, Before
<1>4. \A d \in Elements : hooks[index[d] + 1] = d
  <2> SUFFICES ASSUME NEW d \in Elements PROVE hooks[index[d] + 1] = d
    OBVIOUS
  <2>1. PICK i \in 1..Len(hooks) : hooks[i] = d
    BY <1>3 DEF Elements, Range
  <2>2. index[d] = i - 1
    BY <1>2, <2>1 DEF Unordered
  <2> QED BY <1>3, <2>1, <2>2
<1>5. ASSUME NEW h \in Elements PROVE deps'[h] = Needs(h) /\ deps'[h] \subseteq Elements
  <2> DEFINE named == deps[h] \cup {d \in Elements : <<d, h>> \in AntiDeps}
  <2>1. h \in Hooks /\ deps'[h] = {hooks[index[d] + 1] : d \in named}
    BY <1>1, <1>3 DEF dependsOn, Elements
  <2>2. Needs(h) \subseteq Elements
    BY <1>1 DEF Needs
  <2>3. named = Needs(h)
    <3>1. \A d \in Hooks : <<h, d>> \in Before <=> <<h, d>> \in Deps \/ <<d, h>> \in AntiDeps
      <4> SUFFICES ASSUME NEW d \in Hooks PROVE <<h, d>> \in Before <=> <<h, d>> \in Deps \/ <<d, h>> \in AntiDeps
        OBVIOUS
      <4>1. ASSUME NEW p \in AntiDeps, <<h, d>> = <<p[2], p[1]>> PROVE <<d, h>> \in AntiDeps
        <5>1. p \in Hooks \X Hooks /\ p = <<p[1], p[2]>>
          BY <1>2 DEF DepTypes
        <5> QED BY <4>1, <5>1
      <4>2. <<d, h>> \in AntiDeps => <<h, d>> \in {<<p[2], p[1]>> : p \in AntiDeps}
        OBVIOUS
      <4> QED BY <4>1, <4>2 DEF Before
    <3>2. deps[h] = {d \in Hooks : <<h, d>> \in Deps}
      BY <1>2, <2>1 DEF Unordered
    <3> QED BY <1>3, <2>2, <3>1, <3>2 DEF Needs
  <2> HIDE DEF named
  <2>4. deps'[h] = Needs(h)
    BY <1>4, <2>1, <2>2, <2>3
  <2> QED BY <2>2, <2>4
<1>6. deps' \in [Hooks -> SUBSET Hooks]
  <2>1. \A h \in Hooks : deps'[h] \in SUBSET Hooks
    BY <1>1, <1>2, <1>3, <1>5
  <2>2. deps' = [h \in Hooks |-> deps'[h]]
    BY <1>1
  <2> QED BY <2>1, <2>2
<1>7. Range(order') = {} /\ IsFiniteSet(Range(order')) /\ Cardinality(Range(order')) = 0
  <2>1. Range(order') = {}
    BY <1>1 DEF Range
  <2> QED BY <2>1, FS_EmptySet
<1>8. DepTypes'
  BY <1>1, <1>2, <1>3, <1>6 DEF DepTypes
<1>9. Entered'
  BY <1>1, <1>2, <1>3 DEF Entered
<1>10. Resolved'
  BY <1>1, <1>3, <1>5 DEF Resolved, Needs, Before
<1>11. CallsInv' /\ OrderInv'
  BY <1>1, <1>7 DEF CallsInv, OrderInv
<1>12. 1 \in 1..Len(hooks)
  BY <1>3
<1> QED
  BY <1>1, <1>8, <1>9, <1>10, <1>11, <1>12 DEF DepInv

LEMMA MoveAheadKeeps ==
  ASSUME DepInv, MoveAhead
  PROVE  DepInv'
<1> DEFINE n == placed + 1
<1>1. /\ doing = "place" /\ placed < Len(hooks) /\ placed' = placed + 1
      /\ index' = index /\ deps' = deps /\ order' = order /\ isOrdered' = isOrdered /\ doing' = doing
      /\ seen' = seen /\ helperCalls' = helperCalls /\ Deps' = Deps /\ AntiDeps' = AntiDeps
  BY DEF MoveAhead, user
<1>2. PICK k \in 1..n : hooks' = [i \in 1..Len(hooks) |-> IF i = k THEN hooks[n]
                                              ELSE IF i \in k + 1..n THEN hooks[i - 1] ELSE hooks[i]]
  BY DEF MoveAhead
<1>3. /\ DepTypes /\ Entered /\ hooks \in Seq(Hooks) /\ placed \in 1..Len(hooks) /\ order = <<>> /\ helperCalls = <<>>
      /\ isOrdered /\ Resolved /\ CallsInv /\ OrderInv
  BY <1>1 DEF DepInv, DepTypes, Unordered
<1>4. Len(hooks) \in Nat /\ DOMAIN hooks = 1..Len(hooks) /\ n \in 1..Len(hooks) /\ n \in Nat /\ k \in Nat /\ k <= n
  BY <1>1, <1>3
<1> HIDE DEF n
<1>5. hooks' \in Seq(Hooks) /\ Len(hooks') = Len(hooks) /\ DOMAIN hooks' = 1..Len(hooks)
  <2>1. \A i \in 1..Len(hooks) : hooks'[i] \in Hooks
    <3> SUFFICES ASSUME NEW i \in 1..Len(hooks) PROVE hooks'[i] \in Hooks
      OBVIOUS
    <3>1. i \in k + 1..n => i - 1 \in 1..Len(hooks)
      BY <1>4
    <3> QED BY <1>2, <1>3, <1>4, <3>1
  <2> QED BY <1>2, <1>4, <2>1
<1>6. Elements' = Elements
  <2>1. ASSUME NEW i \in 1..Len(hooks) PROVE hooks'[i] \in Elements
    <3>1. i \in k + 1..n => i - 1 \in 1..Len(hooks)
      BY <1>4
    <3> QED BY <1>2, <1>4, <3>1 DEF Elements, Range
  <2>2. ASSUME NEW i \in 1..Len(hooks) PROVE \E j \in 1..Len(hooks) : hooks'[j] = hooks[i]
    <3>1. CASE i = n
      <4>1. k \in 1..Len(hooks)
        BY <1>4
      <4>2. hooks'[k] = hooks[n]
        BY <1>2, <4>1
      <4> QED BY <3>1, <4>1, <4>2
    <3>2. CASE i \in k..n - 1
      <4>1. i + 1 \in k + 1..n /\ i + 1 \in 1..Len(hooks) /\ i + 1 # k /\ (i + 1) - 1 = i
        BY <1>4, <3>2
      <4>2. hooks'[i + 1] = hooks[i]
        BY <1>2, <4>1
      <4> QED BY <4>1, <4>2
    <3>3. CASE i # n /\ i \notin k..n - 1
      <4>1. i # k /\ i \notin k + 1..n
        BY <1>4, <3>3
      <4> QED BY <1>2, <4>1
    <3> QED BY <3>1, <3>2, <3>3
  <2> QED BY <1>4, <1>5, <2>1, <2>2 DEF Elements, Range
<1>7. IndicesOf(Elements)' = IndicesOf(Elements) /\ Before' = Before
  BY <1>1, <1>6 DEF IndicesOf, Before
<1>8. DepTypes'
  BY <1>1, <1>3, <1>4, <1>5, <1>7 DEF DepTypes
<1>9. Entered'
  BY <1>1, <1>3, <1>5, <1>6, <1>7 DEF Entered
<1>10. Resolved'
  <2>1. hooks' # <<>>
    BY <1>4, <1>5
  <2> QED BY <1>1, <1>3, <1>6, <1>7, <2>1 DEF Resolved, Needs
<1>11. CallsInv' /\ OrderInv'
  BY <1>1, <1>3, <1>6, <1>7 DEF CallsInv, OrderInv
<1>12. placed' \in 1..Len(hooks')
  BY <1>1, <1>3, <1>5
<1> QED
  BY <1>1, <1>3, <1>8, <1>9, <1>10, <1>11, <1>12 DEF DepInv

LEMMA StartVisitsKeeps ==
  ASSUME DepInv, StartVisits
  PROVE  DepInv'
<1>1. /\ doing = "place" /\ doing' = "visit"
      /\ Deps' = Deps /\ AntiDeps' = AntiDeps /\ index' = index /\ deps' = deps /\ hooks' = hooks /\ order' = order
      /\ isOrdered' = isOrdered /\ placed' = placed /\ seen' = seen /\ helperCalls' = helperCalls
  BY DEF StartVisits, user
<1>2. Elements' = Elements /\ IndicesOf(Elements)' = IndicesOf(Elements) /\ Before' = Before
  BY <1>1 DEF Elements, IndicesOf, Before
<1>3. isOrdered
  BY <1>1 DEF DepInv, Unordered
<1>4. DepTypes' /\ Entered' /\ Resolved' /\ CallsInv' /\ OrderInv'
  BY <1>1, <1>2, <1>3 DEF DepInv, DepTypes, Entered, Resolved, Needs, CallsInv, OrderInv
<1> QED
  BY <1>1, <1>3, <1>4 DEF DepInv

\* orderHelper is called for an element that was not visited
LEMMA CallKeeps ==
  ASSUME DepInv, doing = "visit", NEW h \in Elements, index[h] \notin seen,
         helperCalls = <<>> \/ h \in deps[Running], Call(h)
  PROVE  DepInv'
<1> DEFINE m == Len(helperCalls)
<1>1. /\ seen' = seen \cup {index[h]} /\ helperCalls' = Append(helperCalls, h)
      /\ Deps' = Deps /\ AntiDeps' = AntiDeps /\ index' = index /\ deps' = deps /\ hooks' = hooks /\ order' = order
      /\ isOrdered' = isOrdered /\ doing' = doing /\ placed' = placed
  BY DEF Call, user
<1>2. Elements' = Elements /\ IndicesOf(Elements)' = IndicesOf(Elements) /\ Before' = Before
  BY <1>1 DEF Elements, IndicesOf, Before
<1>3. isOrdered /\ DepTypes /\ Entered /\ Resolved /\ CallsInv /\ OrderInv /\ helperCalls \in Seq(Hooks) /\ h \in Hooks
  <2>1. isOrdered /\ DepTypes
    BY DEF DepInv, Unordered
  <2>2. \A i \in DOMAIN hooks : hooks[i] \in Hooks
    BY <2>1 DEF DepTypes
  <2>3. h \in Hooks
    BY <2>2 DEF Elements, Range
  <2> QED BY <2>1, <2>3 DEF DepInv, DepTypes
<1>4. /\ m \in Nat /\ Len(helperCalls') = m + 1 /\ helperCalls' \in Seq(Hooks) /\ helperCalls'[m + 1] = h
      /\ \A i \in 1..m : helperCalls'[i] = helperCalls[i]
  BY <1>1, <1>3
<1> HIDE DEF m
<1>5. /\ \A i \in 1..m : helperCalls[i] \in Elements /\ index[helperCalls[i]] \notin Range(order) /\ helperCalls[i] # h
      /\ \A i \in 1..m - 1 : helperCalls[i + 1] \in deps[helperCalls[i]]
      /\ \A i, j \in 1..m : helperCalls[i] = helperCalls[j] => i = j
      /\ seen = Range(order) \cup {index[helperCalls[i]] : i \in 1..m}
  BY <1>3 DEF CallsInv, m
<1>6. \A i \in 1..m + 1 : i \in 1..m \/ i = m + 1
  BY <1>4
<1>7. \A i \in 1..m + 1 : helperCalls'[i] \in Elements /\ index[helperCalls'[i]] \notin Range(order)
  BY <1>4, <1>5, <1>6
<1>8. \A i \in 1..(m + 1) - 1 : helperCalls'[i + 1] \in deps[helperCalls'[i]]
  <2> SUFFICES ASSUME NEW i \in 1..m PROVE helperCalls'[i + 1] \in deps[helperCalls'[i]]
    BY <1>4
  <2>1. CASE i \in 1..m - 1
    <3>1. i + 1 \in 1..m
      BY <1>4, <2>1
    <3> QED BY <1>4, <1>5, <2>1, <3>1
  <2>2. CASE i = m
    <3>1. helperCalls # <<>> /\ Running = helperCalls[m]
      BY <1>4, <2>2 DEF Running, m
    <3> QED BY <1>4, <2>2, <3>1
  <2> QED BY <1>4, <2>1, <2>2
<1>9. \A i, j \in 1..m + 1 : helperCalls'[i] = helperCalls'[j] => i = j
  BY <1>4, <1>5, <1>6
<1>10. seen' = Range(order) \cup {index[helperCalls'[i]] : i \in 1..m + 1}
  <2>1. 1..m \subseteq 1..m + 1 /\ m + 1 \in 1..m + 1
    BY <1>4
  <2>2. {index[helperCalls'[i]] : i \in 1..m + 1} = {index[helperCalls[i]] : i \in 1..m} \cup {index[h]}
    <3>1. ASSUME NEW i \in 1..m + 1 PROVE index[helperCalls'[i]] \in {index[helperCalls[k]] : k \in 1..m} \cup {index[h]}
      BY <1>4, <1>6
    <3>2. ASSUME NEW i \in 1..m PROVE index[helperCalls[i]] \in {index[helperCalls'[k]] : k \in 1..m + 1}
      BY <1>4, <2>1
    <3>3. index[h] \in {index[helperCalls'[k]] : k \in 1..m + 1}
      BY <1>4, <2>1
    <3> QED BY <3>1, <3>2, <3>3
  <2> QED BY <1>1, <1>5, <2>2
<1>11. CallsInv'
  BY <1>1, <1>2, <1>4, <1>7, <1>8, <1>9, <1>10 DEF CallsInv
<1>12. DepTypes' /\ Entered' /\ Resolved' /\ OrderInv'
  BY <1>1, <1>2, <1>3, <1>4 DEF DepTypes, Entered, Resolved, Needs, OrderInv
<1> QED
  BY <1>1, <1>3, <1>11, <1>12 DEF DepInv

\* When orderHelper returns, what the element depends on has returned before: it was
\* visited, and what is still under way depends on the element itself
LEMMA DepsReturned ==
  ASSUME DepInv, isOrdered, helperCalls # <<>>, Unseen(deps[Running]) = {}
  PROVE  \A d \in deps[Running] : index[d] \in Range(order)
<1> DEFINE m == Len(helperCalls)
<1>1. DepTypes /\ Entered /\ Resolved /\ CallsInv /\ helperCalls \in Seq(Hooks)
  BY DEF DepInv, DepTypes
<1>2. m \in Nat \ {0} /\ Running = helperCalls[m]
  BY <1>1 DEF Running
<1>3. /\ \A i \in 1..m : helperCalls[i] \in Elements
      /\ \A i \in 1..m - 1 : helperCalls[i + 1] \in deps[helperCalls[i]]
      /\ seen = Range(order) \cup {index[helperCalls[i]] : i \in 1..m}
  BY <1>1 DEF CallsInv
<1> HIDE DEF m
<1> SUFFICES ASSUME NEW d \in deps[Running], index[d] \notin Range(order) PROVE FALSE
  OBVIOUS
<1>4. Running \in Elements /\ d \in Elements
  BY <1>1, <1>2, <1>3 DEF Resolved
<1>5. index[d] \in seen
  BY DEF Unseen
<1>6. PICK k \in 1..m : index[d] = index[helperCalls[k]]
  BY <1>3, <1>5
<1>7. d = helperCalls[k]
  BY <1>1, <1>3, <1>4, <1>6 DEF Entered
<1> DEFINE S == {helperCalls[i] : i \in k..m}
<1>8. k..m \subseteq 1..m /\ k \in k..m
  BY <1>2
<1>9. S \in (SUBSET Hooks) \ {{}}
  <2>1. \A i \in 1..m : helperCalls[i] \in Hooks
    BY <1>1 DEF m
  <2> QED BY <1>8, <2>1
<1>10. PICK g \in S : \A e \in S : <<g, e>> \notin Before
  BY <1>1, <1>9 DEF DepTypes, Acyclic
<1>11. PICK i \in k..m : g = helperCalls[i]
  BY <1>10
<1>12. g \in Elements /\ deps[g] = Needs(g)
  BY <1>1, <1>3, <1>8, <1>11 DEF Resolved
<1>13. CASE i = m
  <2>1. d \in deps[g] /\ d \in S
    BY <1>2, <1>7, <1>8, <1>11, <1>13
  <2> QED BY <1>10, <1>12, <2>1 DEF Needs
<1>14. CASE i # m
  <2>1. i \in 1..m - 1 /\ i + 1 \in k..m
    BY <1>2, <1>14
  <2>2. helperCalls[i + 1] \in deps[g] /\ helperCalls[i + 1] \in S
    BY <1>3, <1>11, <2>1
  <2> QED BY <1>10, <1>12, <2>2 DEF Needs
<1> QED
  BY <1>13, <1>14

LEMMA ReturnsKeeps ==
  ASSUME DepInv, Returns
  PROVE  DepInv'
<1> DEFINE m == Len(helperCalls)
           n == Len(order)
           h == Running
<1>1. /\ doing = "visit" /\ helperCalls # <<>> /\ Unseen(deps[h]) = {}
      /\ order' = Append(order, index[h]) /\ helperCalls' = SubSeq(helperCalls, 1, m - 1)
      /\ Deps' = Deps /\ AntiDeps' = AntiDeps /\ index' = index /\ deps' = deps /\ hooks' = hooks
      /\ isOrdered' = isOrdered /\ doing' = doing /\ placed' = placed /\ seen' = seen
  BY DEF Returns, user
<1>2. Elements' = Elements /\ IndicesOf(Elements)' = IndicesOf(Elements) /\ Before' = Before
  BY <1>1 DEF Elements, IndicesOf, Before
<1>3. /\ isOrdered /\ DepTypes /\ Entered /\ Resolved /\ CallsInv /\ OrderInv
      /\ helperCalls \in Seq(Hooks) /\ order \in Seq(Nat) /\ index \in [Hooks -> Nat]
  BY <1>1 DEF DepInv, Unordered, DepTypes
<1>4. \A d \in deps[h] : index[d] \in Range(order)
  BY <1>1, <1>3, DepsReturned
<1>5. /\ m \in Nat \ {0} /\ h = helperCalls[m] /\ h \in Hooks
      /\ helperCalls' \in Seq(Hooks) /\ Len(helperCalls') = m - 1 /\ \A i \in 1..m - 1 : helperCalls'[i] = helperCalls[i]
  BY <1>1, <1>3, Lasts DEF Running
<1>6. /\ n \in Nat /\ order' \in Seq(Nat) /\ Len(order') = n + 1 /\ order'[n + 1] = index[h]
      /\ (\A i \in 1..n : order'[i] = order[i]) /\ DOMAIN order = 1..n /\ DOMAIN order' = 1..n + 1
  BY <1>1, <1>3, <1>5
<1>7. /\ \A i \in 1..m : helperCalls[i] \in Elements /\ index[helperCalls[i]] \notin Range(order)
      /\ \A i \in 1..m - 1 : helperCalls[i + 1] \in deps[helperCalls[i]]
      /\ \A i, j \in 1..m : helperCalls[i] = helperCalls[j] => i = j
      /\ seen = Range(order) \cup {index[helperCalls[i]] : i \in 1..m}
  BY <1>3 DEF CallsInv
<1>8. /\ IsFiniteSet(Range(order)) /\ Cardinality(Range(order)) = n /\ Range(order) \subseteq IndicesOf(Elements)
      /\ \A g \in Elements : \A d \in deps[g] : \A j \in 1..n :
           order[j] = index[g] => \E i \in 1..j - 1 : order[i] = index[d]
  BY <1>3 DEF OrderInv
<1> HIDE DEF m, n, h
<1>9. m \in 1..m /\ 1..m - 1 \subseteq 1..m /\ (\A i \in 1..m : i \in 1..m - 1 \/ i = m) /\ m \notin 1..m - 1
  BY <1>5
<1>10. h \in Elements /\ index[h] \notin Range(order)
  BY <1>5, <1>7, <1>9
<1>11. Range(order') = Range(order) \cup {index[h]}
  <2>1. 1..n \subseteq 1..n + 1 /\ n + 1 \in 1..n + 1 /\ \A i \in 1..n + 1 : i \in 1..n \/ i = n + 1
    BY <1>6
  <2>2. Range(order) = {order[i] : i \in 1..n} /\ Range(order') = {order'[i] : i \in 1..n + 1}
    BY <1>6 DEF Range
  <2>3. ASSUME NEW x \in Range(order') PROVE x \in Range(order) \cup {index[h]}
    BY <1>6, <2>1, <2>2
  <2>4. ASSUME NEW x \in Range(order) \cup {index[h]} PROVE x \in Range(order')
    BY <1>6, <2>1, <2>2
  <2> QED BY <2>3, <2>4
<1>12. OrderInv'
  <2>1. IsFiniteSet(Range(order')) /\ Cardinality(Range(order')) = n + 1
    <3>1. /\ IsFiniteSet(Range(order) \cup {index[h]})
          /\ Cardinality(Range(order) \cup {index[h]}) = n + 1
      BY <1>8, <1>10, FS_AddElement
    <3> QED BY <1>11, <3>1
  <2>2. Range(order') \subseteq IndicesOf(Elements)
    BY <1>8, <1>10, <1>11 DEF IndicesOf
  <2>3. ASSUME NEW g \in Elements, NEW d \in deps[g], NEW j \in 1..n + 1, order'[j] = index[g]
        PROVE  \E i \in 1..j - 1 : order'[i] = index[d]
    <3>1. CASE j \in 1..n
      <4>1. PICK i \in 1..j - 1 : order[i] = index[d]
        BY <1>6, <1>8, <2>3, <3>1
      <4>2. i \in 1..n
        BY <1>6, <3>1
      <4> QED BY <1>6, <4>1, <4>2
    <3>2. CASE j = n + 1
      <4>1. g = h
        BY <1>3, <1>6, <1>10, <2>3, <3>2 DEF Entered
      <4>2. PICK i \in 1..n : order[i] = index[d]
        BY <1>4, <1>6, <2>3, <4>1 DEF Range
      <4>3. i \in 1..j - 1
        BY <1>6, <3>2
      <4> QED BY <1>6, <4>2, <4>3
    <3> QED BY <1>6, <3>1, <3>2
  <2> QED BY <1>1, <1>2, <1>6, <2>1, <2>2, <2>3 DEF OrderInv
<1>13. CallsInv'
  <2>1. \A i \in 1..m - 1 : helperCalls'[i] \in Elements /\ index[helperCalls'[i]] \notin Range(order')
    <3> SUFFICES ASSUME NEW i \in 1..m - 1 PROVE helperCalls[i] \in Elements /\ index[helperCalls[i]] \notin Range(order')
      BY <1>5
    <3>1. helperCalls[i] \in Elements /\ index[helperCalls[i]] \notin Range(order) /\ helperCalls[i] # h
      BY <1>5, <1>7, <1>9
    <3> QED BY <1>3, <1>10, <1>11, <3>1 DEF Entered
  <2>2. \A i \in 1..(m - 1) - 1 : helperCalls'[i + 1] \in deps[helperCalls'[i]]
    <3> SUFFICES ASSUME NEW i \in 1..(m - 1) - 1 PROVE helperCalls'[i + 1] \in deps[helperCalls'[i]]
      OBVIOUS
    <3>1. i \in 1..m - 1 /\ i + 1 \in 1..m - 1
      BY <1>5
    <3> QED BY <1>5, <1>7, <3>1
  <2>3. \A i, j \in 1..m - 1 : helperCalls'[i] = helperCalls'[j] => i = j
    BY <1>5, <1>7, <1>9
  <2>4. seen' = Range(order') \cup {index[helperCalls'[i]] : i \in 1..m - 1}
    <3>1. {index[helperCalls[i]] : i \in 1..m} = {index[helperCalls'[i]] : i \in 1..m - 1} \cup {index[h]}
      <4>1. ASSUME NEW i \in 1..m PROVE index[helperCalls[i]] \in {index[helperCalls'[k]] : k \in 1..m - 1} \cup {index[h]}
        BY <1>5, <1>9
      <4>2. ASSUME NEW i \in 1..m - 1 PROVE index[helperCalls'[i]] \in {index[helperCalls[k]] : k \in 1..m}
        BY <1>5, <1>9
      <4>3. index[h] \in {index[helperCalls[k]] : k \in 1..m}
        BY <1>5, <1>9
      <4> QED BY <4>1, <4>2, <4>3
    <3> QED BY <1>1, <1>7, <1>11, <3>1
  <2>5. Len(helperCalls') = m - 1 /\ index' = index /\ deps' = deps /\ Elements' = Elements
    BY <1>1, <1>2, <1>5
  <2> QED BY <2>1, <2>2, <2>3, <2>4, <2>5 DEF CallsInv
<1>14. DepTypes' /\ Entered' /\ Resolved'
  <2>1. DepTypes'
    <3>1. Acyclic(Before)'
      BY <1>2, <1>3 DEF DepTypes, Acyclic
    <3> QED BY <1>1, <1>3, <1>5, <1>6, <3>1 DEF DepTypes
  <2>2. Entered'
    BY <1>1, <1>2, <1>3 DEF Entered
  <2>3. Resolved'
    BY <1>1, <1>2, <1>3 DEF Resolved, Needs
  <2> QED BY <2>1, <2>2, <2>3
<1> QED
  BY <1>1, <1>3, <1>12, <1>13, <1>14 DEF DepInv

LEMMA EndSortKeeps ==
  ASSUME DepInv, EndSort
  PROVE  DepInv'
<1>1. /\ doing = "visit" /\ doing' = "idle" /\ helperCalls = <<>> /\ Unseen(Elements) = {}
      /\ Deps' = Deps /\ AntiDeps' = AntiDeps /\ index' = index /\ deps' = deps /\ hooks' = hooks /\ order' = order
      /\ isOrdered' = isOrdered /\ placed' = placed /\ seen' = seen /\ helperCalls' = helperCalls
  BY DEF EndSort, user, Elements
<1>2. Elements' = Elements /\ IndicesOf(Elements)' = IndicesOf(Elements) /\ Before' = Before
  BY <1>1 DEF Elements, IndicesOf, Before
<1>3. isOrdered
  BY <1>1 DEF DepInv, Unordered
<1>4. DepTypes' /\ Entered' /\ Resolved' /\ CallsInv' /\ OrderInv'
  BY <1>1, <1>2, <1>3 DEF DepInv, DepTypes, Entered, Resolved, Needs, CallsInv, OrderInv
<1>5. IndicesOf(Elements) \subseteq seen
  BY <1>1 DEF Unseen, IndicesOf
<1> QED
  BY <1>1, <1>2, <1>3, <1>4, <1>5 DEF DepInv

\* The invariant
THEOREM DepInvHolds == ~AddLater => (DepSpec => []DepInv)
<1> SUFFICES ASSUME ~AddLater PROVE DepSpec => []DepInv
  OBVIOUS
<1>1. DepInit => DepInv
  BY DepInvInit
<1>2. DepInv /\ [DepNext]_depVars => DepInv'
  <2> SUFFICES ASSUME DepInv, [DepNext]_depVars PROVE DepInv'
    OBVIOUS
  <2>1. CASE Sort \/ MoveAhead \/ StartVisits \/ Returns \/ EndSort
    BY <2>1, SortKeeps, MoveAheadKeeps, StartVisitsKeeps, ReturnsKeeps, EndSortKeeps
  <2>2. CASE VisitNext
    <3>1. PICK i \in DOMAIN hooks : hooks[i] \in Unseen(Elements) /\ Call(hooks[i])
      BY <2>2 DEF VisitNext, Elements
    <3>2. doing = "visit" /\ helperCalls = <<>> /\ hooks[i] \in Elements /\ index[hooks[i]] \notin seen
      BY <2>2, <3>1 DEF VisitNext, Unseen
    <3> QED BY <3>1, <3>2, CallKeeps
  <2>3. CASE VisitDep
    <3>1. PICK d \in Unseen(deps[Running]) : Call(d)
      BY <2>3 DEF VisitDep
    <3>2. doing = "visit" /\ helperCalls # <<>> /\ d \in deps[Running] /\ index[d] \notin seen
      BY <2>3, <3>1 DEF VisitDep, Unseen
    <3>3. Resolved /\ CallsInv /\ helperCalls \in Seq(Hooks)
      BY <3>2 DEF DepInv, Unordered, DepTypes
    <3>4. Running \in Elements
      BY <3>2, <3>3 DEF Running, CallsInv
    <3>5. d \in Elements
      BY <3>2, <3>3, <3>4 DEF Resolved
    <3> QED BY <3>1, <3>2, <3>5, CallKeeps
  <2>4. CASE \E h \in Hooks : Add(h)
    BY <2>4, AddKeeps
  <2>5. CASE UNCHANGED depVars
    <3>1. /\ Deps' = Deps /\ AntiDeps' = AntiDeps /\ index' = index /\ deps' = deps /\ hooks' = hooks
          /\ order' = order /\ isOrdered' = isOrdered /\ doing' = doing /\ placed' = placed
          /\ seen' = seen /\ helperCalls' = helperCalls
      BY <2>5 DEF depVars, user, within
    <3>2. Elements' = Elements /\ IndicesOf(Elements)' = IndicesOf(Elements) /\ Before' = Before
      BY <3>1 DEF Elements, IndicesOf, Before
    <3>3. DepTypes' = DepTypes /\ Entered' = Entered /\ Unordered' = Unordered
      BY <3>1, <3>2 DEF DepTypes, Entered, Unordered
    <3>4. Resolved' = Resolved /\ CallsInv' = CallsInv /\ OrderInv' = OrderInv
      BY <3>1, <3>2 DEF Resolved, Needs, CallsInv, OrderInv
    <3> QED BY <3>1, <3>2, <3>3, <3>4 DEF DepInv
  <2> QED BY <2>1, <2>2, <2>3, <2>4, <2>5 DEF DepNext
<1> QED
  BY <1>1, <1>2, PTL DEF DepSpec

\* Once ordered, every element has one place, after all that it depends on and before all
\* that it is an anti-dependency of (sort and orderHelper of dep.go), for any elements and
\* dependencies without a cycle, wherever sort.Sort puts the elements first, if no element
\* is added after the first use of Index
THEOREM OrderRespectsDepsHolds == ~AddLater => (DepSpec => []OrderRespectsDeps)
<1> SUFFICES ASSUME ~AddLater PROVE DepSpec => []OrderRespectsDeps
  OBVIOUS
<1>1. DepInv => OrderRespectsDeps
  <2> SUFFICES ASSUME DepInv, isOrdered, doing = "idle" PROVE OrderRespectsDeps
    BY DEF OrderRespectsDeps
  <2>1. /\ DepTypes /\ Entered /\ Resolved /\ CallsInv /\ OrderInv /\ helperCalls = <<>>
        /\ IndicesOf(Elements) \subseteq seen /\ order \in Seq(Nat)
    BY DEF DepInv, DepTypes
  <2>2. seen = Range(order)
    <3>1. 1..Len(helperCalls) = {}
      BY <2>1
    <3>2. seen = Range(order) \cup {index[helperCalls[i]] : i \in 1..Len(helperCalls)}
      BY <2>1 DEF CallsInv
    <3> QED BY <3>1, <3>2
  <2>3. Range(order) = IndicesOf(Elements)
    BY <2>1, <2>2 DEF OrderInv
  <2>4. Len(order) = Len(hooks)
    BY <2>1, <2>3 DEF OrderInv, Entered
  <2>5. ASSUME NEW h \in Elements, NEW d \in Elements, <<h, d>> \in Before
        PROVE  \E i, j \in DOMAIN order : i < j /\ order[i] = index[d] /\ order[j] = index[h]
    <3>1. DOMAIN order = 1..Len(order) /\ Len(order) \in Nat
      BY <2>1
    <3>2. PICK j \in 1..Len(order) : order[j] = index[h]
      BY <2>3, <3>1 DEF IndicesOf, Range
    <3>3. \A i \in DOMAIN hooks : hooks[i] \in Hooks
      BY <2>1 DEF DepTypes
    <3>4. d \in deps[h]
      BY <2>1, <2>5, <3>3 DEF Resolved, Needs, Elements, Range
    <3>5. PICK i \in 1..j - 1 : order[i] = index[d]
      BY <2>1, <3>2, <3>4 DEF OrderInv
    <3>6. i \in 1..Len(order) /\ i < j
      BY <3>1
    <3> QED BY <3>1, <3>2, <3>5, <3>6
  <2> QED BY <2>3, <2>4, <2>5 DEF OrderRespectsDeps, IndicesOf, Elements
<1>2. DepSpec => []DepInv
  BY DepInvHolds
<1> QED
  BY <1>1, <1>2, PTL

=============================================================================
