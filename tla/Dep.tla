-------------------------------- MODULE Dep --------------------------------
(***************************************************************************)
(* Ordered hooks (dep/dep.go): elements with dependencies, which come      *)
(* before them, and anti-dependencies, which come after them.  The order   *)
(* is made by the first use of Index after an Add: sort.Sort, one element  *)
(* a step, then the recursion of orderHelper, one call or return a step.   *)
(*                                                                         *)
(* Elements are the hooks of the program; it names them in Deps and        *)
(* AntiDeps before it adds them.                                           *)
(***************************************************************************)
EXTENDS Integers, Sequences, FiniteSets, Functions

CONSTANTS
  Hooks,        \* bound: the elements
  OrderValues,  \* bound: the values of Dep.Order
  AddLater      \* whether elements are added after Index was used

\* Assumed where the module is instantiated
DepAssumption == IsFiniteSet(Hooks) /\ OrderValues \subseteq Nat /\ AddLater \in BOOLEAN

VARIABLES
  Deps, AntiDeps,  \* Dep.Deps and Dep.AntiDeps, as sets of pairs
  Order,           \* Dep.Order
  index,           \* Dep.index; 0 before the element is added
  deps,            \* Dep.Deps as sort leaves them, as sets of elements
  hooks,           \* Deps.elts
  order,           \* Deps.order
  isOrdered,
  doing,           \* what sort is doing: idle, place or visit
  placed,          \* the elements that sort.Sort has put in order
  seen,            \* the bitmap of visited indices
  helperCalls      \* the elements that orderHelper is called for, the outermost first

user == <<Deps, AntiDeps, Order>>
within == <<doing, placed, seen, helperCalls>>
depVars == <<user, index, deps, hooks, order, isOrdered, within>>

\* The dependencies that the user states: <<h, d>> if d comes before h
Before == Deps \cup {<<p[2], p[1]>> : p \in AntiDeps}

\* Some element of every set depends on no other one in it
Acyclic(R) == \A S \in (SUBSET Hooks) \ {{}} : \E h \in S : \A d \in S : <<h, d>> \notin R

DepInit ==
  /\ Deps \in SUBSET (Hooks \X Hooks)
  /\ AntiDeps \in SUBSET (Hooks \X Hooks)
  /\ Acyclic(Before)
  /\ Order \in [Hooks -> OrderValues]
  /\ index = [h \in Hooks |-> 0]
  /\ deps = [h \in Hooks |-> {d \in Hooks : <<h, d>> \in Deps}]
  /\ hooks = <<>> /\ order = <<>> /\ isOrdered = FALSE
  /\ doing = "idle" /\ placed = 0 /\ seen = {} /\ helperCalls = <<>>

Add(h) ==
  /\ doing = "idle"
  /\ h \notin Range(hooks)
  /\ AddLater \/ order = <<>>
  /\ index' = [index EXCEPT ![h] = Len(hooks)]
  /\ hooks' = Append(hooks, h)
  /\ isOrdered' = FALSE
  /\ UNCHANGED <<user, deps, order, within>>

-----------------------------------------------------------------------------
(* sort *)

\* Seeded bug: anti-dependencies are read as dependencies
dependsOn_Swap(h) ==
  deps[h] \cup {p[2] : p \in {q \in AntiDeps : q[1] = h}}

\* The elements that h depends on once anti-dependencies are turned around: those
\* at the positions in hooks that the bitmap of indices names
dependsOn(h) ==
  LET named == deps[h] \cup {d \in Range(hooks) : <<d, h>> \in AntiDeps}
  IN {hooks[index[d] + 1] : d \in named}

\* The first Index after an Add.  The program names no element that it has not added
Sort ==
  /\ doing = "idle"
  /\ hooks # <<>> /\ ~isOrdered
  /\ \A h \in Range(hooks) : \A d \in Hooks : <<h, d>> \in Before => d \in Range(hooks)
  /\ isOrdered' = TRUE
  /\ deps' = [h \in Hooks |-> IF h \in Range(hooks) THEN dependsOn(h) ELSE deps[h]]
  /\ order' = <<>>
  /\ doing' = "place" /\ placed' = 1 /\ seen' = {} /\ helperCalls' = <<>>
  /\ UNCHANGED <<user, index, hooks>>

\* Less of element a at position i and element b at position j
Less(a, i, b, j) == IF Order[a] # Order[b] THEN Order[a] < Order[b] ELSE i > j

\* sort.Sort of a few elements: the next one moves ahead while it is Less
MoveAhead ==
  /\ doing = "place" /\ placed < Len(hooks)
  /\ LET n == placed + 1
         h == hooks[n]
     IN \E k \in 1..n :
          /\ \A i \in k + 1..n : Less(h, i, hooks[i - 1], i - 1)
          /\ k # 1 => ~Less(h, k, hooks[k - 1], k - 1)
          /\ hooks' = [i \in 1..Len(hooks) |-> IF i = k THEN h
                                              ELSE IF i \in k + 1..n THEN hooks[i - 1] ELSE hooks[i]]
  /\ placed' = placed + 1
  /\ UNCHANGED <<user, index, deps, order, isOrdered, doing, seen, helperCalls>>

StartVisits ==
  /\ doing = "place" /\ placed = Len(hooks)
  /\ doing' = "visit"
  /\ UNCHANGED <<user, index, deps, hooks, order, isOrdered, placed, seen, helperCalls>>

Unseen(S) == {h \in S : index[h] \notin seen}

\* orderHelper is called for h
Call(h) ==
  /\ seen' = seen \cup {index[h]}
  /\ helperCalls' = Append(helperCalls, h)
  /\ UNCHANGED <<user, index, deps, hooks, order, isOrdered, doing, placed>>

\* The loop of sort; for an element that was visited orderHelper does nothing
VisitNext ==
  /\ doing = "visit" /\ helperCalls = <<>>
  /\ \E i \in DOMAIN hooks :
       /\ hooks[i] \in Unseen(Range(hooks))
       /\ \A j \in 1..i - 1 : hooks[j] \notin Unseen(Range(hooks))
       /\ Call(hooks[i])

Running == helperCalls[Len(helperCalls)]

\* The loop of orderHelper, in the order of the indices
VisitDep ==
  /\ doing = "visit" /\ helperCalls # <<>>
  /\ \E d \in Unseen(deps[Running]) :
       /\ \A e \in Unseen(deps[Running]) : index[d] <= index[e]
       /\ Call(d)

\* orderHelper returns: an element comes after what it depends on
Returns ==
  /\ doing = "visit" /\ helperCalls # <<>>
  /\ Unseen(deps[Running]) = {}
  /\ order' = Append(order, index[Running])
  /\ helperCalls' = SubSeq(helperCalls, 1, Len(helperCalls) - 1)
  /\ UNCHANGED <<user, index, deps, hooks, isOrdered, doing, placed, seen>>

EndSort ==
  /\ doing = "visit" /\ helperCalls = <<>>
  /\ Unseen(Range(hooks)) = {}
  /\ doing' = "idle"
  /\ UNCHANGED <<user, index, deps, hooks, order, isOrdered, placed, seen, helperCalls>>

DepNext == \/ Sort \/ MoveAhead \/ StartVisits \/ VisitNext \/ VisitDep \/ Returns \/ EndSort
           \/ \E h \in Hooks : Add(h)

DepSpec == DepInit /\ [][DepNext]_depVars

-----------------------------------------------------------------------------
(* Properties *)

\* Once ordered, every element has one place, and comes after all that it depends
\* on and before all that it is an anti-dependency of.
OrderRespectsDeps ==
  isOrdered /\ doing = "idle" =>
    /\ Range(order) = {index[h] : h \in Range(hooks)} /\ Len(order) = Len(hooks)
    /\ \A h, d \in Range(hooks) : <<h, d>> \in Before =>
         \E i, j \in DOMAIN order : i < j /\ order[i] = index[d] /\ order[j] = index[h]

\* Elements that nothing else tells apart come in the order of their Order and,
\* where that is the same, in the order in which they were added: "Otherwise
\* maintain array order" (dep.go:45).
ArrayOrder ==
  isOrdered /\ doing = "idle" /\ Before = {} =>
    \A h, d \in Range(hooks) :
      h # d /\ (Order[h] < Order[d] \/ (Order[h] = Order[d] /\ index[h] < index[d])) =>
        \E i, j \in DOMAIN order : i < j /\ order[i] = index[h] /\ order[j] = index[d]

=============================================================================
