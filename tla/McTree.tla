------------------------------- MODULE McTree -------------------------------
(***************************************************************************)
(* The match tree of package mctree (mctree.go, pair.go, save.go): keys    *)
(* with masked bits are kept in the leaves of a binary tree, and Step      *)
(* improves the tree by simulated annealing.  It clones the best tree,     *)
(* splits and joins leaves of the clone at random, and takes the clone for *)
(* the best tree when it costs less.  A clone shares the vectors of keys   *)
(* (of their offsets) with its original by reference count.                *)
(*                                                                         *)
(* A key is a tuple of bits 0, 1 and X (not masked).  What a vector holds  *)
(* is a set of offsets.  A pool of nodes or vectors gives the lowest free  *)
(* index (module Pool models pools).  A draw of the random generator is a  *)
(* choice.                                                                 *)
(***************************************************************************)
EXTENDS Integers, Sequences, FiniteSets, FiniteSetsExt

CONSTANTS
  Keys,      \* the keys that may be added
  W,         \* Key_bits
  MaxLeafs, MinPairs, RestartAfter,  \* Config
  ReAdd      \* a key may be added that is there already

X == 2

\* Assumed where the module is instantiated
McTreeAssumption ==
  /\ W \in Nat \ {0} /\ Keys \subseteq [1..W -> {0, 1, X}]
  /\ {MaxLeafs, MinPairs, RestartAfter} \subseteq Nat \ {0} /\ ReAdd \in BOOLEAN

VARIABLES
  nodes,     \* node_pool: node of each index, or FreeNode
  vecs,      \* shared_pair_offsets_pool
  pairs,     \* pair_hash: the key at each offset, or NoKey
  root,      \* trees: root_node_index
  cost,      \* trees: tree_cost
  nSteps,    \* trees: n_steps
  cur,       \* tree_sequence & 1
  panicked

vars == <<nodes, vecs, pairs, root, cost, nSteps, cur, panicked>>

Bits == 1..W
NodeIds == 0..2 * (2 ^ (W + 1)) - 1
VecIds == 1..2 * (2 ^ W) + 2
Offsets == 1..Cardinality(Keys)

NoVec == 0
FreeNode == [key |-> <<>>, bit |-> 0, subs |-> <<>>, vec |-> NoVec, hash |-> FALSE]
FreeVec == [refs |-> 0, offs |-> {}]
NoKey == <<>>
AnyKey == [b \in Bits |-> X]
NewNode(key) == [FreeNode EXCEPT !.key = key]

Lowest(S) == CHOOSE i \in S : \A j \in S : i <= j

\* The pools: a record of the nodes, the vectors and whether an operation failed
Heap == [nodes |-> nodes, vecs |-> vecs, failed |-> FALSE]

FreeNodes(h) == {i \in NodeIds : h.nodes[i].key = <<>>}
FreeVecs(h) == {v \in VecIds : h.vecs[v].refs = 0}

IsSplit(h, i) == h.nodes[i].subs # <<>>
Subs(h, i) == {h.nodes[i].subs[1], h.nodes[i].subs[2]}
Content(h, i) == IF h.nodes[i].vec = NoVec THEN {} ELSE h.vecs[h.nodes[i].vec].offs

\* All nodes under node r; a path is not longer than a key
NodesUnder(h, r) ==
  LET level[d \in 0..W] ==
        IF d = 0 THEN {r}
        ELSE UNION {IF IsSplit(h, i) THEN Subs(h, i) ELSE {} : i \in level[d - 1]}
  IN UNION {level[d] : d \in 0..W}
Leaves(h, r) == {i \in NodesUnder(h, r) : ~IsSplit(h, i)}

-----------------------------------------------------------------------------
(* Vectors *)

Get(h, offs) == [h EXCEPT !.vecs[Lowest(FreeVecs(h))] = [refs |-> 1, offs |-> offs]]

\* put_pair_offsets; a vector without references fails
Put(h, v) ==
  IF v = NoVec THEN h
  ELSE IF h.vecs[v].refs = 0 THEN [h EXCEPT !.failed = TRUE]
  ELSE [h EXCEPT !.vecs[v] = IF @.refs = 1 THEN FreeVec ELSE [@ EXCEPT !.refs = @ - 1]]

\* free_pairs, free_node
FreePairs(h, i) == [Put(h, h.nodes[i].vec) EXCEPT !.nodes[i].vec = NoVec, !.nodes[i].hash = FALSE]
FreeOne(i, h) == [FreePairs(h, i) EXCEPT !.nodes[i] = FreeNode]

\* free_tree
FreeTree(h, r) == FoldSet(FreeOne, h, NodesUnder(h, r))

\* Replace the vector of node i: get a new one, then put the old
Replace(h, i, offs) ==
  LET v == Lowest(FreeVecs(h))
  IN [Put(Get(h, offs), h.nodes[i].vec) EXCEPT !.nodes[i].vec = v, !.nodes[i].hash = TRUE]

-----------------------------------------------------------------------------
(* Clone *)

\* add_reference for each node of the clone
References(h, from, v) == h.vecs[v].refs + Cardinality({i \in from : h.nodes[i].vec = v})

Rank(S, i) == Cardinality({j \in S : j < i})

\* The nodes of the clone: node i of the tree at r gets the free index of its rank
CloneOf(h, r) ==
  LET free == FreeNodes(h)
      at == [k \in 0..Cardinality(free) - 1 |-> CHOOSE j \in free : Rank(free, j) = k]
      from == NodesUnder(h, r)
  IN [i \in from |-> at[Rank(from, i)]]

\* clone_tree
CloneTree(h, r) ==
  LET to == CloneOf(h, r)
      copy(i) == IF IsSplit(h, i)
                 THEN [h.nodes[i] EXCEPT !.subs = <<to[@[1]], to[@[2]]>>] ELSE h.nodes[i]
      copies == {to[i] : i \in DOMAIN to}
  IN [h EXCEPT
       !.nodes = [j \in NodeIds |-> IF j \in copies
                                    THEN copy(CHOOSE i \in DOMAIN to : to[i] = j) ELSE @[j]],
       !.vecs = [v \in VecIds |-> [@[v] EXCEPT !.refs = References(h, DOMAIN to, v)]]]

-----------------------------------------------------------------------------
(* Cost *)

Size(S) == Cardinality(S)
NonEmpty(n) == IF n > 0 THEN 1 ELSE 0

\* The cost of a tree when leaves of the sizes in old become leaves of those in new
Change(c, old, new) ==
  LET sum(s, F(_)) == FoldSet(LAMBDA k, acc : acc + F(s[k]), 0, DOMAIN s)
  IN [occupancy |-> c.occupancy + sum(new, LAMBDA n : n) - sum(old, LAMBDA n : n),
      occupancy2 |-> c.occupancy2 + sum(new, LAMBDA n : n * n) - sum(old, LAMBDA n : n * n),
      leafs |-> c.leafs + sum(new, NonEmpty) - sum(old, NonEmpty)]

\* compute_cost, up to the factor that the number of keys makes
Cost(c) == c.occupancy * c.occupancy2

\* accept_cost_change: a higher cost may be taken or not
Accepts(old, new) == IF Cost(new) > Cost(old) THEN BOOLEAN ELSE {TRUE}

-----------------------------------------------------------------------------
(* Split and join *)

Masked(k, bit) == k[bit] # X

\* branch: a key that does not mask the bit goes to both sides
Branch(k, bit) == IF ~Masked(k, bit) THEN {1, 2} ELSE {k[bit] + 1}

\* random_masked_bit: a bit that some key of the leaf masks and the leaf's key does not
SplitBits(h, i) == {bit \in Bits : h.nodes[i].key[bit] = X
                                   /\ \E o \in Content(h, i) : Masked(pairs[o], bit)}
\* A key without such a bit may be drawn: nothing is split
NoBitDrawn(h, i) == \E o \in Content(h, i) :
                      \A bit \in Bits : Masked(pairs[o], bit) => h.nodes[i].key[bit] # X

Side(h, i, bit, s) == {o \in Content(h, i) : s \in Branch(pairs[o], bit)}

\* alloc_subs, and the offsets move to the new nodes
SplitNode(h, i, bit) ==
  LET i0 == Lowest(FreeNodes(h))
      i1 == Lowest(FreeNodes(h) \ {i0})
      v0 == Lowest(FreeVecs(h))
      v1 == Lowest(FreeVecs(h) \ {v0})
      sub(v, val) == [NewNode([h.nodes[i].key EXCEPT ![bit] = val]) EXCEPT !.vec = v]
      g == Get(Get(h, Side(h, i, bit, 1)), Side(h, i, bit, 2))
  IN FreePairs([g EXCEPT !.nodes = [@ EXCEPT ![i0] = sub(v0, 0), ![i1] = sub(v1, 1),
                                            ![i].subs = <<i0, i1>>, ![i].bit = bit]], i)

\* Seeded bug: keys of the right leaf are only taken if they are not masked
Right_Unmasked(k, bit) == ~Masked(k, bit)
\* join: the keys of the right leaf that are not in the left one too
Right(k, bit) == Masked(k, bit)

JoinedRight(h, i) == {o \in Content(h, h.nodes[i].subs[2]) : Right(pairs[o], h.nodes[i].bit)}

JoinNode(h, i) ==
  LET n0 == h.nodes[i].subs[1]
      n1 == h.nodes[i].subs[2]
      all == Content(h, n0) \cup JoinedRight(h, i)
      v == IF Content(h, n0) = {} /\ Content(h, n1) = {} THEN NoVec ELSE Lowest(FreeVecs(h))
      g == IF v = NoVec THEN h ELSE Get(h, all)
  IN FreeOne(n1, FreeOne(n0, [g EXCEPT !.nodes[i].vec = v, !.nodes[i].hash = FALSE,
                                       !.nodes[i].subs = <<>>, !.nodes[i].bit = 0]))

-----------------------------------------------------------------------------
(* Operations *)

NElts == Cardinality({o \in Offsets : pairs[o] # NoKey})
Best == 1 - cur

\* Seeded bug: the trial tree is taken whatever it costs
EndStep_AnyCost(h, r, c, accepted) ==
  LET lower == accepted
      restart == ~lower /\ nSteps[cur] + 1 > RestartAfter
      g == IF lower THEN FreeTree(h, root[Best])
           ELSE IF restart THEN FreeTree(h, r) ELSE h
  IN /\ nodes' = g.nodes /\ vecs' = g.vecs
     /\ panicked' = g.failed
     /\ root' = [root EXCEPT ![cur] = r]
     /\ cost' = [cost EXCEPT ![cur] = c]
     /\ nSteps' = [nSteps EXCEPT ![cur] = IF lower \/ restart THEN 0 ELSE @ + 1]
     /\ cur' = IF lower THEN 1 - cur ELSE cur
     /\ UNCHANGED pairs

\* The end of Step: the trial tree becomes the best, or is given up after
\* RestartAfter steps
EndStep(h, r, c, accepted) ==
  LET lower == accepted /\ Cost(c) < Cost(cost[Best])
      restart == ~lower /\ nSteps[cur] + 1 > RestartAfter
      g == IF lower THEN FreeTree(h, root[Best])
           ELSE IF restart THEN FreeTree(h, r) ELSE h
  IN /\ nodes' = g.nodes /\ vecs' = g.vecs
     /\ panicked' = g.failed
     /\ root' = [root EXCEPT ![cur] = r]
     /\ cost' = [cost EXCEPT ![cur] = c]
     /\ nSteps' = [nSteps EXCEPT ![cur] = IF lower \/ restart THEN 0 ELSE @ + 1]
     /\ cur' = IF lower THEN 1 - cur ELSE cur
     /\ UNCHANGED pairs

CanJoin(h, i) == IsSplit(h, i) /\ \A s \in Subs(h, i) : ~IsSplit(h, s)
CanSplit(h, i, c) ==
  /\ c.leafs + 1 <= (IF NElts < MaxLeafs THEN NElts ELSE MaxLeafs)
  /\ Size(Content(h, i)) >= MinPairs

Join(h, r, c) ==
  \E i \in NodesUnder(h, r) :
    /\ CanJoin(h, i)
    /\ LET l0 == Size(Content(h, h.nodes[i].subs[1]))
           l1 == Size(Content(h, h.nodes[i].subs[2]))
           joined == Change(c, <<l0, l1>>, <<l0 + Size(JoinedRight(h, i))>>)
       IN \E accept \in Accepts(c, joined) :
            IF accept THEN EndStep(JoinNode(h, i), r, joined, TRUE)
                      ELSE EndStep(h, r, c, FALSE)

Split(h, r, c) ==
  \E i \in Leaves(h, r) :
    /\ CanSplit(h, i, c)
    /\ \/ NoBitDrawn(h, i) /\ EndStep(h, r, c, FALSE)
       \/ \E bit \in SplitBits(h, i) :
            LET l0 == Size(Side(h, i, bit, 1))
                l1 == Size(Side(h, i, bit, 2))
                divided == Change(c, <<Size(Content(h, i))>>, <<l0, l1>>)
            IN \E accept \in IF Cost(divided) < Cost(c) \/ (l0 > 0 /\ l1 > 0)
                             THEN Accepts(c, divided) ELSE {FALSE} :
                 IF accept THEN EndStep(SplitNode(h, i, bit), r, divided, TRUE)
                           ELSE EndStep(h, r, c, FALSE)

\* The first step after a restart clones the best tree
Step ==
  IF nSteps[cur] > 0
  THEN Join(Heap, root[cur], cost[cur]) \/ Split(Heap, root[cur], cost[cur])
  ELSE LET h == CloneTree(Heap, root[Best])
           r == CloneOf(Heap, root[Best])[root[Best]]
       IN Join(h, r, cost[Best]) \/ Split(h, r, cost[Best])

\* add_del_key_helper: the leaves that a key belongs to
LeavesOf(h, r, k) ==
  LET down(i) == IF ~IsSplit(h, i) THEN {i}
                 ELSE LET bit == h.nodes[i].bit
                      IN {h.nodes[i].subs[s] : s \in {t \in {1, 2} :
                            \/ ~Masked(k, bit)
                            \/ (t = 1) <=> k[bit] # 1}}
      level[d \in 0..W] == IF d = 0 THEN {r} ELSE UNION {down(i) : i \in level[d - 1]}
  IN level[W]

\* restart: the trial tree is given up
Restarted == IF nSteps[cur] > 0 THEN FreeTree(Heap, root[cur]) ELSE Heap

AddCost(c, l) == Change(c, <<l>>, <<l + 1>>)

CostOver(op(_, _), h, c, at) ==
  FoldSet(LAMBDA i, acc : op(acc, Size(Content(h, i))), c, at)

\* add_del_key_leaf: the leaf turns into a hash of a new vector, or the hash
\* grows, or it has room
Add(k) ==
  LET known == {o \in Offsets : pairs[o] = k}
      o == IF known # {} THEN Lowest(known) ELSE Lowest({p \in Offsets : pairs[p] = NoKey})
      at == LeavesOf(Restarted, root[Best], k)
      grown(i, h) == Replace(h, i, Content(h, i) \cup {o})
      stored(i, h) == IF h.nodes[i].hash /\ h.nodes[i].vec # NoVec
                      THEN [h EXCEPT !.vecs[h.nodes[i].vec].offs = @ \cup {o}]
                      ELSE grown(i, h)
  IN /\ known = {} \/ ReAdd
     /\ \E resize \in BOOLEAN :
          LET h == IF resize THEN FoldSet(grown, Restarted, at) ELSE FoldSet(stored, Restarted, at)
          IN nodes' = h.nodes /\ vecs' = h.vecs /\ panicked' = h.failed
     /\ pairs' = [pairs EXCEPT ![o] = k]
     /\ cost' = [cost EXCEPT ![Best] = CostOver(AddCost, Restarted, @, at)]
     /\ nSteps' = [nSteps EXCEPT ![cur] = 0]
     /\ UNCHANGED <<root, cur>>

\* A key whose offset is in no leaf fails
Del(k) ==
  LET o == Lowest({p \in Offsets : pairs[p] = k})
      at == LeavesOf(Restarted, root[Best], k)
      hashed(i, h) == IF h.nodes[i].hash \/ h.nodes[i].vec = NoVec
                      THEN [h EXCEPT !.nodes[i].hash = TRUE]
                      ELSE Replace(h, i, Content(h, i))
      h == FoldSet(hashed, Restarted, at)
  IN /\ \E p \in Offsets : pairs[p] = k
     /\ nodes' = h.nodes
     /\ vecs' = [v \in VecIds |-> IF \E i \in at : h.nodes[i].vec = v
                                  THEN [h.vecs[v] EXCEPT !.offs = @ \ {o}] ELSE h.vecs[v]]
     /\ panicked' = (h.failed \/ \E i \in at : o \notin Content(h, i))
     /\ pairs' = [pairs EXCEPT ![o] = NoKey]
     /\ cost' = [cost EXCEPT ![Best] =
                   CostOver(LAMBDA c, l : Change(c, <<l>>, <<l - 1>>), Restarted, @, at)]
     /\ nSteps' = [nSteps EXCEPT ![cur] = 0]
     /\ UNCHANGED <<root, cur>>

NoCost == [occupancy |-> 0, occupancy2 |-> 0, leafs |-> 0]

\* Init makes an empty tree; Restore may split it as a saved tree was, here at
\* one bit
Init ==
  /\ \E bit \in Bits \cup {0} :
       nodes = [i \in NodeIds |->
         CASE i = 0 -> IF bit = 0 THEN NewNode(AnyKey)
                       ELSE [NewNode(AnyKey) EXCEPT !.subs = <<1, 2>>, !.bit = bit]
           [] i \in {1, 2} /\ bit # 0 -> NewNode([AnyKey EXCEPT ![bit] = i - 1])
           [] OTHER -> FreeNode]
  /\ vecs = [v \in VecIds |-> FreeVec]
  /\ pairs = [o \in Offsets |-> NoKey]
  /\ root = [t \in {0, 1} |-> 0]
  /\ cost = [t \in {0, 1} |-> NoCost]
  /\ nSteps = [t \in {0, 1} |-> 0]
  /\ cur = 1 /\ panicked = FALSE

Next == ~panicked /\ (Step \/ \E k \in Keys : Add(k) \/ Del(k))

Spec == Init /\ [][Next]_vars

-----------------------------------------------------------------------------
(* Properties: what Validate (validate.go) checks, and more *)

Live == {Best} \cup (IF nSteps[cur] > 0 THEN {cur} ELSE {})
Compatible(k, key) == \A b \in Bits : k[b] = X \/ key[b] = X \/ k[b] = key[b]

\* A state up to the numbers of nodes, vectors, offsets and trees (a view for TLC)
Shape ==
  LET user(t, i) == <<t = Best, nodes[i].key>>
      inTree(t) == NodesUnder(Heap, root[t])
      users(v) == UNION {{user(t, i) : i \in {j \in inTree(t) : nodes[j].vec = v}} : t \in Live}
  IN <<{pairs[o] : o \in Offsets}, panicked, nSteps[cur], nSteps[Best], {<<t = Best, cost[t]>> : t \in Live},
       UNION {{<<user(t, i), nodes[i].bit, nodes[i].hash>> : i \in inTree(t)} : t \in Live},
       {<<users(v), {pairs[o] : o \in vecs[v].offs}, vecs[v].refs>> :
          v \in {u \in VecIds : vecs[u].refs > 0 \/ users(u) # {}}},
       Cardinality({i \in NodeIds : nodes[i].key # <<>>})>>

\* In the best tree and in the trial tree every leaf holds exactly the keys that
\* agree with the bits on the path to it: no key vanishes and none is in a wrong
\* leaf, after any splits, joins, clones, restarts, additions and deletions.
LeavesExact ==
  \A t \in Live : \A i \in Leaves(Heap, root[t]) :
    {pairs[o] : o \in Content(Heap, i)}
      = {pairs[o] : o \in {p \in Offsets : pairs[p] # NoKey /\ Compatible(pairs[p], nodes[i].key)}}

\* The reference count of a vector is the number of nodes of both trees that
\* use it, a node without vector or with subnodes uses none, and a node is in use
\* exactly if one of the trees has it: nothing leaks and nothing is freed too early.
ReferencesExact ==
  LET inTrees == UNION {NodesUnder(Heap, root[t]) : t \in Live}
  IN /\ \A v \in VecIds : vecs[v].refs = Cardinality({i \in inTrees : nodes[i].vec = v})
     /\ \A i \in NodeIds : nodes[i].key # <<>> <=> i \in inTrees
     /\ \A i \in inTrees : IsSplit(Heap, i) => nodes[i].vec = NoVec

\* The cost that is kept up to date by differences is the cost of the tree.
CostExact ==
  \A t \in Live :
    cost[t] = FoldSet(LAMBDA i, c : Change(c, <<>>, <<Size(Content(Heap, i))>>),
                      NoCost, Leaves(Heap, root[t]))

\* No operation meets a free vector or a key that is in no leaf.
NoPanic == ~panicked

\* The best tree never gets more expensive but when a key is added or deleted.
BestImproves == [][pairs' = pairs => Cost(cost'[1 - cur']) <= Cost(cost[Best])]_vars

=============================================================================
