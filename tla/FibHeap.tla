------------------------------- MODULE FibHeap -------------------------------
(***************************************************************************)
(* The Fibonacci heap of fibheap.go.  Nodes are indices; siblings form     *)
(* doubly linked lists through next and prev.  The list of roots runs      *)
(* through f.root (Root); a list of children is circular.                  *)
(*                                                                         *)
(* An operator on heaps takes a heap and returns the heap that the         *)
(* function of the same name in the code leaves behind.                    *)
(***************************************************************************)
EXTENDS Integers, Sequences, FiniteSets

CONSTANTS
  Nodes,  \* bound: the indices in use
  Keys    \* what Compare compares

\* Assumed where the module is instantiated
NodesAssumption == IsFiniteSet(Nodes) /\ 0 \notin Nodes /\ -1 \notin Nodes
KeysAssumption == Keys \subseteq Int

Elts == Cardinality(Nodes)
Root == 0      \* fibRootIndex
Nil == -1      \* MaxIndex

VARIABLES
  heap,   \* FibHeap
  key,    \* the caller's data: key[i] orders element i
  live    \* the indices added and not deleted: what the heap stands for

vars == <<heap, key, live>>

Empty == [next |-> [i \in {Root} \cup Nodes |-> Root],
          prev |-> [i \in {Root} \cup Nodes |-> Root],
          sup |-> [i \in Nodes |-> Nil],
          sub |-> [i \in Nodes |-> Nil],
          nSub |-> [i \in Nodes |-> 0],
          isMarked |-> [i \in Nodes |-> FALSE],
          minIndex |-> Nil,
          minValid |-> FALSE]

-----------------------------------------------------------------------------
(* Links *)

linkAfter(h, p, x) ==
  [h EXCEPT !.next[p] = x, !.prev[x] = p, !.next[x] = h.next[p], !.prev[h.next[p]] = x]

addRoot(h, x) == linkAfter(h, Root, x)

unlink(h, x) == [h EXCEPT !.next[h.prev[x]] = h.next[x], !.prev[h.next[x]] = h.prev[x]]

-----------------------------------------------------------------------------
(* Add and Del *)

HeapAdd(h, x) ==
  addRoot([h EXCEPT !.minValid = FALSE, !.sup[x] = Nil, !.sub[x] = Nil,
                    !.nSub[x] = 0, !.isMarked[x] = FALSE], x)

\* The loop of cutChildren from child c on; first is where the list closes
RECURSIVE CutFrom(_, _, _)
CutFrom(h, c, first) ==
  LET cut == addRoot([h EXCEPT !.sup[c] = Nil], c)
  IN IF h.next[c] = first THEN cut ELSE CutFrom(cut, h.next[c], first)

cutChildren(h, x) == IF h.sub[x] = Nil THEN h ELSE CutFrom(h, h.sub[x], h.sub[x])

\* Seeded bug: the sibling stays that of the child that was lost first
RECURSIVE AdjustParent_SameSibling(_, _, _)
AdjustParent_SameSibling(h, s, n) ==
  LET count == h.nSub[s] - 1
      lost == [h EXCEPT !.nSub[s] = count, !.isMarked[s] = TRUE,
                        !.sub[s] = IF count = 0 THEN Nil ELSE n]
  IN IF ~h.isMarked[s] \/ h.sup[s] = Nil
     THEN lost
     ELSE AdjustParent_SameSibling(addRoot([unlink(lost, s) EXCEPT !.sup[s] = Nil], s),
                                   h.sup[s], n)

\* The loop of Del: s has lost a child, n is a sibling of that child.  A
\* marked parent is cut as well, unless it is a root.
RECURSIVE AdjustParent(_, _, _)
AdjustParent(h, s, n) ==
  LET count == h.nSub[s] - 1
      lost == [h EXCEPT !.nSub[s] = count, !.isMarked[s] = TRUE,
                        !.sub[s] = IF count = 0 THEN Nil ELSE n]
  IN IF ~h.isMarked[s] \/ h.sup[s] = Nil
     THEN lost
     ELSE AdjustParent(addRoot([unlink(lost, s) EXCEPT !.sup[s] = Nil], s),
                       h.sup[s], h.next[s])

HeapDel(h, x) ==
  LET cut == [cutChildren(unlink(h, x), x) EXCEPT
                !.minValid = h.minValid /\ x # h.minIndex]
  IN IF cut.sup[x] = Nil THEN cut ELSE AdjustParent(cut, cut.sup[x], cut.next[x])

-----------------------------------------------------------------------------
(* Min *)

\* Root r0 becomes a child of root r
makeChild(h, r0, r) ==
  LET g == [unlink(h, r0) EXCEPT !.isMarked[r0] = FALSE, !.sup[r0] = r]
  IN IF g.sub[r] # Nil
     THEN linkAfter([g EXCEPT !.nSub[r] = @ + 1], g.sub[r], r0)
     ELSE [g EXCEPT !.sub[r] = r0, !.nSub[r] = 1, !.isMarked[r] = FALSE,
                    !.next[r0] = r0, !.prev[r0] = r0]

\* The loop of Min over the roots.  deg is defined for the degrees seen so far
\* (degValid); r is the current root and n the one after it.
RECURSIVE Consolidate(_, _, _, _, _)
Consolidate(h, k, r, n, deg) ==
  IF r = Root THEN [h |-> h, deg |-> deg]
  ELSE
    LET d == h.nSub[r]
        others == [e \in DOMAIN deg \ {d} |-> deg[e]]
    IN IF d \notin DOMAIN deg
       THEN Consolidate(h, k, n, h.next[n], [e \in DOMAIN deg \cup {d} |->
                                               IF e = d THEN r ELSE deg[e]])
       ELSE LET parent == IF k[deg[d]] <= k[r] THEN deg[d] ELSE r
                child  == IF k[deg[d]] <= k[r] THEN r ELSE deg[d]
            IN Consolidate(makeChild(h, child, parent), k, parent, n, others)

\* The last loop: the least root, of the least degree among equals
leastRoot(deg, k) ==
  LET least == {d \in DOMAIN deg : \A e \in DOMAIN deg : k[deg[d]] <= k[deg[e]]}
  IN IF DOMAIN deg = {} THEN Nil ELSE deg[CHOOSE d \in least : \A e \in least : d <= e]

HeapMin(h, k) ==
  IF h.minValid THEN h
  ELSE LET done == Consolidate(h, k, h.next[Root], h.next[h.next[Root]], <<>>)
           min == leastRoot(done.deg, k)
       IN [done.h EXCEPT !.minIndex = min, !.minValid = (min # Nil)]

-----------------------------------------------------------------------------
(* The heap as it is used *)

Init ==
  /\ heap = Empty
  /\ key \in [Nodes -> {CHOOSE k \in Keys : TRUE}]
  /\ live = {}

Add(x, k) ==
  /\ x \notin live
  /\ key' = [key EXCEPT ![x] = k]
  /\ heap' = HeapAdd(heap, x)
  /\ live' = live \cup {x}

Del(x) ==
  /\ x \in live
  /\ heap' = HeapDel(heap, x)
  /\ live' = live \ {x}
  /\ UNCHANGED key

\* The caller gives x another key and then calls Update
Update(x, k) ==
  /\ x \in live
  /\ k # key[x]
  /\ key' = [key EXCEPT ![x] = k]
  /\ heap' = HeapAdd(HeapDel(heap, x), x)
  /\ UNCHANGED live

Min ==
  /\ heap' = HeapMin(heap, key)
  /\ UNCHANGED <<key, live>>

Next == \/ \E x \in Nodes, k \in Keys : Add(x, k) \/ Update(x, k)
        \/ \E x \in Nodes : Del(x)
        \/ Min

Spec == Init /\ [][Next]_vars

-----------------------------------------------------------------------------
(* Properties *)

TypeOK ==
  /\ heap \in [next : [{Root} \cup Nodes -> {Root} \cup Nodes],
               prev : [{Root} \cup Nodes -> {Root} \cup Nodes],
               sup : [Nodes -> Nodes \cup {Nil}],
               sub : [Nodes -> Nodes \cup {Nil}],
               nSub : [Nodes -> 0..Elts],
               isMarked : [Nodes -> BOOLEAN],
               minIndex : Nodes \cup {Nil},
               minValid : BOOLEAN]
  /\ key \in [Nodes -> Keys]
  /\ live \subseteq Nodes

\* The members of the list that starts at x, and those in seen
RECURSIVE Around(_, _)
Around(x, seen) == IF x \in seen THEN seen ELSE Around(heap.next[x], seen \cup {x})

Roots == Around(Root, {}) \ {Root}
Children(x) == IF heap.sub[x] = Nil THEN {} ELSE Around(heap.sub[x], {})

\* Nobody is an ancestor of itself: sup leads to a root, in at most as many steps as there are elements
Grounded(x) == LET above[i \in 0..Elts] == IF i = 0 THEN x
                                         ELSE LET a == above[i - 1]
                                              IN IF a \in live THEN heap.sup[a] ELSE a
               IN above[Elts] = Nil

\* validate (fibheap_debug.go), and more: after any sequence of calls the links
\* form a forest of exactly the elements added and not deleted, every list is
\* closed, and the child counts and parents agree with the lists.
WellFormed ==
  /\ \A x \in live \cup {Root} : heap.prev[heap.next[x]] = x /\ heap.next[heap.prev[x]] = x
  /\ Roots = {x \in live : heap.sup[x] = Nil}
  /\ \A x \in live : Children(x) = {c \in live : heap.sup[c] = x}
  /\ \A x \in live : heap.nSub[x] = Cardinality(Children(x))
  /\ \A x \in live : heap.sub[x] = Nil <=> heap.nSub[x] = 0
  /\ \A x \in live : Grounded(x)

\* The heap up to the numbers of its elements (a view for TLC): its trees, each a
\* key, a mark, whether it is the minimum, and subtrees, in the order of the lists
RECURSIVE Shape(_)
Shape(x) ==
  LET from[i \in Nat] == IF i = 0 THEN <<>>
                         ELSE IF i = 1 THEN <<IF x = Root THEN heap.next[Root] ELSE heap.sub[x]>>
                         ELSE LET s == from[i - 1] IN Append(s, heap.next[s[i - 1]])
      below == from[IF x = Root THEN Cardinality(Roots) ELSE heap.nSub[x]]
  IN <<IF x = Root THEN 0 ELSE key[x], x # Root /\ heap.isMarked[x],
       heap.minValid /\ x = heap.minIndex, [i \in DOMAIN below |-> Shape(below[i])]>>

\* No element is less than its parent, and a minimum that is cached is one:
\* Min answers with a least element however Add, Del and Update came before.
MinCorrect ==
  /\ \A x \in live : heap.sup[x] # Nil => key[heap.sup[x]] <= key[x]
  /\ heap.minValid => heap.minIndex \in live /\ \A x \in live : key[heap.minIndex] <= key[x]

\* Min finds a minimum whenever there is an element
MinTotal == [][Min => heap'.minValid = (live # {})]_vars

=============================================================================
