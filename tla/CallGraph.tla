------------------------------ MODULE CallGraph ------------------------------
(***************************************************************************)
(* The graph of data nodes and its walk (loop/call.go): how nodes are      *)
(* linked by name, before and after the loop has started, and how one      *)
(* poller hands frames of vectors from node to node.  An out frame of node *)
(* n is out[n][i]; Len of a frame is a byte (Vi), so that a full frame has *)
(* Len 0.  The state of a walk (activePoller) is private to its poller:    *)
(* one poller is modelled.                                                 *)
(***************************************************************************)
EXTENDS Integers, Sequences, FiniteSets

CONSTANTS
  N,            \* bound: the data nodes 1..N; node 1 is the poller's own node
  MaxVectorLen, \* vectors in a full frame (256 in the code)
  MaxRounds,    \* bound: calls of LoopInput
  AnyIndex      \* callers pass AddNextWithIndex indices out of order

ASSUME NAssumption == N \in Nat \ {0}
ASSUME LenAssumption == MaxVectorLen \in Nat \ {0}
ASSUME RoundsAssumption == MaxRounds \in Nat
ASSUME CallersAssumption == AnyIndex \in BOOLEAN

Nodes == 1..N
Nil == 0       \* no node is called
AutoIndex == 0      \* withIndex ^uint(0)

VARIABLES
  nextNodes,              \* nextNodes[n][i]: the node that next i of n names, Nil for a gap
  nextIndexByNodeName,    \* nextIndexByNodeName[n]: what findNext knows
  initialNodesRegistered, \* graphInit has run
  out,          \* activeNodes[n].out, once initNodes has run
  pending,      \* a.pending
  pendingIndex, \* call: how many of them are done
  currentNode,  \* a.currentNode while a node runs
  left,         \* vectors the current node has not handed on yet
  rounds,       \* calls of LoopInput so far
  held          \* history: the vectors that were put into each frame since its last call

graphVars == <<nextNodes, nextIndexByNodeName, initialNodesRegistered>>
walkVars == <<pending, pendingIndex, currentNode, left, rounds>>
vars == <<graphVars, out, held, walkVars>>

Init ==
  /\ nextNodes = [n \in Nodes |-> <<>>]
  /\ nextIndexByNodeName = [n \in Nodes |-> <<>>]
  /\ initialNodesRegistered = FALSE
  /\ out = [n \in Nodes |-> <<>>]
  /\ held = [n \in Nodes |-> <<>>]
  /\ pending = <<>>
  /\ pendingIndex = 0
  /\ currentNode = Nil
  /\ left = 0
  /\ rounds = 0

initialized == \E n \in Nodes : out[n] # <<>>   \* activeNodes # nil

-----------------------------------------------------------------------------
(* The graph *)

Frame(m) == [Len |-> 0, next |-> m, isPending |-> FALSE]

\* Validate(x) extends with zero values, then the slot is set
PutAt(s, x, zero, v) ==
  [i \in 1..(IF x > Len(s) THEN x ELSE Len(s)) |->
     IF i = x THEN v ELSE IF i <= Len(s) THEN s[i] ELSE zero]

\* findNext(name, true): known names keep their index
findNext(n, m) ==
  IF m \in DOMAIN nextIndexByNodeName[n] THEN nextIndexByNodeName[n][m]
  ELSE Len(nextNodes[n]) + 1

\* The index AddNamedNextWithIndex settles on; an index that contradicts a
\* known name is an error, and the known one is used.
nextIndex(n, m, withIndex) ==
  IF m \in DOMAIN nextIndexByNodeName[n] THEN nextIndexByNodeName[n][m]
  ELSE IF withIndex = AutoIndex THEN Len(nextNodes[n]) + 1 ELSE withIndex

\* Seeded bug: the pollers that run already do not hear of the new next
AddToPollers_None(n, m, x) == UNCHANGED <<out, held>>

\* activeNode.addNext for the poller that has been initialized
AddToPollers(n, m, x) ==
  IF initialized
  THEN /\ out' = [out EXCEPT ![n] = PutAt(@, x, Frame(Nil), IF x <= Len(@) THEN [@[x] EXCEPT !.next = m]
                                                            ELSE Frame(m))]
       /\ held' = [held EXCEPT ![n] = PutAt(@, x, 0, IF x <= Len(@) THEN @[x] ELSE 0)]
  ELSE UNCHANGED <<out, held>>

\* AddNamedNextWithIndex, by an event or an init hook: no poller runs.  m names
\* a node that comes after n: the graph has no cycle.
AddNext(n, m, withIndex) ==
  LET x == nextIndex(n, m, withIndex)
  IN /\ currentNode = Nil /\ pending = <<>>
     /\ m > n
     /\ withIndex # AutoIndex /\ ~AnyIndex =>
          withIndex = IF m \in DOMAIN nextIndexByNodeName[n] THEN nextIndexByNodeName[n][m]
                                                             ELSE Len(nextNodes[n]) + 1
     /\ nextIndexByNodeName' =
          [nextIndexByNodeName EXCEPT ![n] = [k \in DOMAIN @ \cup {m} |->
                                                IF k = m THEN findNext(n, m) ELSE @[k]]]
     /\ nextNodes' = [nextNodes EXCEPT ![n] = PutAt(@, x, Nil, m)]
     /\ AddToPollers(n, m, x)
     /\ UNCHANGED <<initialNodesRegistered, walkVars>>

\* graphInit; it panics if a next is not at the index findNext knows
graphInit ==
  /\ ~initialNodesRegistered
  /\ \A n \in Nodes : \A i \in DOMAIN nextNodes[n] :
       nextNodes[n][i] # Nil => findNext(n, nextNodes[n][i]) = i
  /\ initialNodesRegistered' = TRUE
  /\ UNCHANGED <<nextNodes, nextIndexByNodeName, out, held, walkVars>>

\* initNodes and analyze, before a poller's first round; a node without a
\* next has nothing to analyze
initNodes ==
  /\ initialNodesRegistered
  /\ ~initialized
  /\ currentNode = Nil
  /\ out' = [n \in Nodes |-> [i \in DOMAIN nextNodes[n] |-> Frame(nextNodes[n][i])]]
  /\ held' = [n \in Nodes |-> [i \in DOMAIN nextNodes[n] |-> 0]]
  /\ UNCHANGED <<graphVars, walkVars>>

-----------------------------------------------------------------------------
(* A round: LoopInput, then the frames in the order they became pending *)

Pending(n, i) == [node |-> n, nextIndex |-> i, nextNode |-> out[n][i].next]

GetLen(n, i) == out[n][i].Len

\* Seeded bug: a frame is queued again each time its length is set
SetLen_QueueAlways(n, i, nVec) ==
  /\ out' = [out EXCEPT ![n][i].Len = nVec % MaxVectorLen, ![n][i].isPending = TRUE]
  /\ pending' = Append(pending, Pending(n, i))

\* In.SetLen in node n
SetLen(n, i, nVec) ==
  /\ out' = [out EXCEPT ![n][i].Len = nVec % MaxVectorLen,
                        ![n][i].isPending = @ \/ nVec > 0]
  /\ pending' = IF nVec > 0 /\ ~out[n][i].isPending
                THEN Append(pending, Pending(n, i)) ELSE pending

LoopInput(nVec) ==
  /\ initialized
  /\ currentNode = Nil /\ pending = <<>>
  /\ rounds < MaxRounds
  /\ currentNode' = 1
  /\ left' = nVec
  /\ rounds' = rounds + 1
  /\ UNCHANGED <<graphVars, out, held, pending, pendingIndex>>

\* The running node hands k vectors to its next i, behind those that are in the
\* frame already: the node may be called again before the frame is.
Send(i, k) ==
  LET n == currentNode
      start == GetLen(n, i)
  IN /\ n # Nil
     /\ i \in DOMAIN out[n] /\ out[n][i].next # Nil
     /\ k <= left /\ start + k <= MaxVectorLen
     /\ SetLen(n, i, start + k)
     /\ held' = [held EXCEPT ![n][i] = @ + k]
     /\ left' = left - k
     /\ UNCHANGED <<graphVars, pendingIndex, currentNode, rounds>>

ResetFrame(n, i) == out' = [out EXCEPT ![n][i].Len = 0, ![n][i].isPending = FALSE]

nextVectors(n, i) == IF out[n][i].Len = 0 THEN MaxVectorLen ELSE out[n][i].Len

\* The running node returns (what it has not handed on it has dropped), and
\* the loop of Out.call takes the next frame, or ends.
Return ==
  /\ currentNode # Nil
  /\ IF pendingIndex < Len(pending)
     THEN LET p == pending[pendingIndex + 1]
          IN /\ pendingIndex' = pendingIndex + 1
             /\ ResetFrame(p.node, p.nextIndex)
             /\ held' = [held EXCEPT ![p.node][p.nextIndex] = 0]
             /\ currentNode' = p.nextNode
             /\ left' = nextVectors(p.node, p.nextIndex)
             /\ UNCHANGED pending
     ELSE /\ pending' = <<>>
          /\ pendingIndex' = 0
          /\ currentNode' = Nil
          /\ left' = 0
          /\ UNCHANGED <<out, held>>
  /\ UNCHANGED <<graphVars, rounds>>

Next ==
  \/ \E n, m \in Nodes, withIndex \in {AutoIndex} \cup Nodes : AddNext(n, m, withIndex)
  \/ graphInit
  \/ initNodes
  \/ \E nVec \in 0..MaxVectorLen : LoopInput(nVec)
  \/ \E i \in Nodes, k \in 1..MaxVectorLen : Send(i, k)
  \/ Return

Spec == Init /\ [][Next]_vars

-----------------------------------------------------------------------------
(* Properties *)

Frames == UNION {{<<n, i>> : i \in DOMAIN out[n]} : n \in Nodes}

waiting == {<<pending[j].node, pending[j].nextIndex>> : j \in pendingIndex+1..Len(pending)}

TypeOK ==
  /\ nextNodes \in [Nodes -> Seq({Nil} \cup Nodes)]
  /\ initialNodesRegistered \in BOOLEAN
  /\ \A n \in Nodes : /\ DOMAIN nextIndexByNodeName[n] \subseteq Nodes
                      /\ out[n] \in Seq([Len : 0..MaxVectorLen-1, next : {Nil} \cup Nodes,
                                         isPending : BOOLEAN])
                      /\ held[n] \in Seq(Nat)
  /\ pending \in Seq([node : Nodes, nextIndex : Nodes, nextNode : {Nil} \cup Nodes])
  /\ pendingIndex \in 0..Len(pending)
  /\ currentNode \in {Nil} \cup Nodes
  /\ left \in 0..MaxVectorLen
  /\ rounds \in 0..MaxRounds

\* Out.call and SetLen: a frame waits in the queue exactly once if it holds
\* vectors, else not at all, and its next node will be given as many vectors
\* as the nodes before it put in, also when frames are full or are filled by
\* several calls of one node.
VectorsKept ==
  /\ \A f \in Frames : IF f \in waiting
                       THEN nextVectors(f[1], f[2]) = held[f[1]][f[2]]
                       ELSE held[f[1]][f[2]] = 0 /\ out[f[1]][f[2]].Len = 0
  /\ Cardinality(waiting) = Len(pending) - pendingIndex

\* TypeOK and VectorsKept: a frame waits in the queue exactly once if it holds vectors,
\* and its next node is given as many as were put in (loop/call.go).
CallsSound == TypeOK /\ VectorsKept

\* AddNamedNextWithIndex: the index that a node got for a next leads to the
\* next of that name, in the tables of a poller too that was started before.
RoutesAgree ==
  \A n \in Nodes :
    /\ \A i \in DOMAIN nextNodes[n] :
         nextNodes[n][i] # Nil => nextIndexByNodeName[n][nextNodes[n][i]] = i
    /\ initialized => /\ DOMAIN out[n] = DOMAIN nextNodes[n]
                      /\ \A i \in DOMAIN out[n] : out[n][i].next = nextNodes[n][i]

=============================================================================
