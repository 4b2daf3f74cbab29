------------------------------- MODULE Sparse -------------------------------
(***************************************************************************)
(* Sparse arrays of sparse.go: a bitmap of the valid sparse indices, and   *)
(* for every word of it the number of valid indices in the words before.   *)
(* A word is the set of its bits.                                          *)
(***************************************************************************)
EXTENDS Integers, FiniteSets

CONSTANTS
  WordBits,   \* bits per word
  MaxWords    \* bound: words of a bitmap

\* Assumed where the module is instantiated
SparseAssumption == WordBits \in Nat \ {0} /\ MaxWords \in Nat \ {0}

MaxIndex == -1
Indices == 0..WordBits * MaxWords - 1

VARIABLES
  valid,    \* Sparse.valid: word number -> set of bits
  count,    \* Sparse.count
  members,  \* the indices set and not unset: what the array stands for
  dense     \* what the last Set of a new index returned, as <<sparse, dense>>

vars == <<valid, count, members, dense>>

word(x) == x \div WordBits
bit(x) == x % WordBits
Below(v, b) == Cardinality({c \in v : c < b})

Init == valid = <<>> /\ count = <<>> /\ members = {} /\ dense = <<>>

\* Get: [dense, valid]
Get(x) ==
  IF word(x) \notin DOMAIN valid THEN [dense |-> 0, valid |-> FALSE]
  ELSE IF bit(x) \notin valid[word(x)] THEN [dense |-> MaxIndex, valid |-> FALSE]
  ELSE [dense |-> count[word(x)] + Below(valid[word(x)], bit(x)), valid |-> TRUE]

eltsBefore(i) == count[i] + Cardinality(valid[i])

elts == IF DOMAIN count = {} THEN 0 ELSE eltsBefore(Cardinality(DOMAIN count) - 1)

\* The words and counts after both vectors were grown to hold word i
GrownValid(i) == [j \in DOMAIN valid \cup 0..i |-> IF j \in DOMAIN valid THEN valid[j] ELSE {}]

GrownCount(i) == [j \in DOMAIN count \cup 0..i |->
                    IF j \in DOMAIN count THEN count[j] ELSE elts]

inc(c, start, dx) == [j \in DOMAIN c |-> IF j > start THEN c[j] + dx ELSE c[j]]

Set(x) ==
  LET i == word(x)
      v == GrownValid(i)
      c == GrownCount(i)
  IN /\ members' = members \cup {x}
     /\ IF bit(x) \in v[i]
        THEN valid' = v /\ count' = c /\ dense' = <<>>
        ELSE /\ valid' = [v EXCEPT ![i] = @ \cup {bit(x)}]
             /\ count' = inc(c, i, 1)
             /\ dense' = <<x, c[i] + Below(v[i], bit(x))>>

\* Unset of an index beyond the last word panics
Unset(x) ==
  LET i == word(x)
  IN /\ i \in DOMAIN valid
     /\ members' = members \ {x}
     /\ valid' = [valid EXCEPT ![i] = @ \ {bit(x)}]
     /\ count' = IF bit(x) \in valid[i] THEN inc(count, i, -1) ELSE count
     /\ dense' = <<>>

Next == \E x \in Indices : Set(x) \/ Unset(x)

Spec == Init /\ [][Next]_vars

-----------------------------------------------------------------------------
(* Properties *)

\* Whatever was set and unset before, and in whatever order the array grew, Get
\* and Set number the valid sparse indices 0, 1, 2, ... in increasing order
\* (sparse_debug.go's validate), and elts counts them.
DenseIsRank ==
  LET rank(x) == Cardinality({y \in members : y < x})
  IN /\ \A x \in Indices : /\ Get(x).valid <=> x \in members
                           /\ x \in members => Get(x).dense = rank(x)
     /\ dense # <<>> => dense[2] = rank(dense[1])
     /\ elts = Cardinality(members)

=============================================================================
