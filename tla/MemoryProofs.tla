---------------------------- MODULE MemoryProofs ----------------------------
(***************************************************************************)
(* Theorems about BufferPool and Dma.  BufferPool, for any number of       *)
(* buffers: a packet leads to the buffers that were put into it, and none  *)
(* is lost or in two places.  Dma, for memory, chunks and lines of any     *)
(* size and any number of goroutines of which one allocates at a time: a   *)
(* buffer is contiguous for the device and nobody else's, and what was     *)
(* kept aside is all back when the allocation ends.                        *)
(***************************************************************************)
EXTENDS BufferPool, Dma, FiniteSetTheorems, WellFoundedInduction, TLAPS

-----------------------------------------------------------------------------
(* Induction: a set of numbers has a least one *)

LEMMA Least ==
  ASSUME NEW T, T \subseteq Nat, T # {}
  PROVE  \E x \in T : \A y \in T : x <= y
<1> DEFINE R == StrictSubsetOrdering(Nat)
           F == FiniteSubsetsOf(Nat)
           U == {0..x : x \in T}
<1>1. IsWellFoundedOn(R, F)
  BY FS_StrictSubsetOrderingWellFounded
<1>2. U \subseteq F /\ U # {}
  <2>1. \A x \in T : IsFiniteSet(0..x) /\ 0..x \subseteq Nat
    BY FS_Interval
  <2> QED BY <2>1 DEF FiniteSubsetsOf
<1>3. \E u \in U : \A v \in U : <<v, u>> \notin R
  <2> HIDE DEF R, F, U
  <2> QED BY <1>1, <1>2, WFMin
<1>4. PICK x \in T : \A y \in T : <<0..y, 0..x>> \notin R
  BY <1>3
<1>5. ASSUME NEW y \in T, y < x PROVE FALSE
  <2>1. x \in Nat /\ y \in Nat
    OBVIOUS
  <2>2. /\ 0..y \in SUBSET Nat /\ 0..x \in SUBSET Nat /\ 0..y \subseteq 0..x
        /\ x \in 0..x /\ x \notin 0..y
    BY <1>5, <2>1
  <2>3. <<0..y, 0..x>> \in R
    BY <2>2 DEF StrictSubsetOrdering
  <2> QED BY <1>4, <2>3
<1> QED
  BY <1>5

\* What holds of 0 and of n + 1 when it holds of n, holds of all numbers up to m
LEMMA Induction ==
  ASSUME NEW m \in Nat, NEW T, 0 \in T, \A n \in 0..m - 1 : n \in T => n + 1 \in T
  PROVE  \A n \in 0..m : n \in T
<1> DEFINE S == (0..m) \ T
<1> SUFFICES ASSUME S # {} PROVE FALSE
  OBVIOUS
<1>1. S \subseteq Nat
  OBVIOUS
<1>2. PICK x \in S : \A y \in S : x <= y
  BY <1>1, Least
<1>3. x \in 0..m /\ x # 0
  OBVIOUS
<1>4. x - 1 \in 0..m - 1 /\ (x - 1) + 1 = x
  BY <1>3
<1>5. x - 1 \in T
  BY <1>2, <1>4
<1> QED
  BY <1>4, <1>5

-----------------------------------------------------------------------------
(* Numbers *)

LEMMA Division ==
  ASSUME NEW a \in Nat, NEW c \in Nat \ {0}
  PROVE  a \div c \in Nat /\ a % c \in 0..c - 1 /\ a = c * (a \div c) + (a % c)
OBVIOUS

LEMMA Distribute ==
  ASSUME NEW a \in Int, NEW c \in Int, NEW d \in Int
  PROVE  a * (c - d) = a * c - a * d
OBVIOUS

LEMMA AtLeastOne ==
  ASSUME NEW c \in Nat \ {0}, NEW q \in Int, q > 0
  PROVE  c * q >= c
OBVIOUS

\* A number has one quotient and one remainder
LEMMA DivisionUnique ==
  ASSUME NEW c \in Nat \ {0}, NEW p \in Int, NEW q \in Int, NEW r \in 0..c - 1, NEW s \in 0..c - 1,
         c * p + r = c * q + s
  PROVE  p = q /\ r = s
<1>1. c * p \in Int /\ c * q \in Int
  OBVIOUS
<1>2. c * (p - q) = s - r /\ c * (q - p) = r - s
  BY <1>1, Distribute
<1>3. ~(p - q > 0) /\ ~(q - p > 0)
  BY <1>2, AtLeastOne
<1>4. p = q
  BY <1>3
<1> QED
  BY <1>1, <1>4

\* The page of a byte of the memory
LEMMA PageExists ==
  ASSUME NEW c \in Nat \ {0}, NEW k \in Nat, NEW a \in Nat, a < c * k
  PROVE  (a \div c) + 1 \in 1..k
<1>1. a \div c \in Nat /\ a % c \in 0..c - 1 /\ a = c * (a \div c) + (a % c)
  BY Division
<1> DEFINE q == a \div c
<1>2. SUFFICES ASSUME q - k >= 0 PROVE FALSE
  BY <1>1
<1> HIDE DEF q
<1>3. q \in Nat /\ c * q <= a
  BY <1>1 DEF q
<1>4. c * (q - k) = c * q - c * k /\ c * q \in Int /\ c * k \in Int
  BY <1>3, Distribute
<1>5. c * (q - k) >= 0
  BY <1>2, <1>3
<1> QED
  BY <1>3, <1>4, <1>5

-----------------------------------------------------------------------------
(* Chains *)

Ref == [buffer : Nat, nextValid : BOOLEAN]
Memory == 1..MaxBuffers

\* The reference to the i-th of the buffers in s, of which r is the first
RefAt(r, next, s, i) == IF i = 1 THEN r ELSE next[s[i - 1]]

IsChain(r, next, s) ==
  /\ s \in Seq(Memory) /\ Len(s) > 0 /\ Len(s) <= MaxBuffers
  /\ \A i \in 1..Len(s) : /\ RefAt(r, next, s, i).buffer = s[i]
                          /\ RefAt(r, next, s, i).nextValid <=> i < Len(s)

LEMMA FollowExact ==
  ASSUME BufferAssumption, NEW r \in Ref, NEW next \in [Memory -> Ref], NEW s, IsChain(r, next, s)
  PROVE  Follow(r, next) = s
<1> DEFINE at == CHOOSE at : at = [i \in 0..MaxBuffers |->
                               IF i = 0 THEN r
                               ELSE IF at[i - 1].nextValid THEN next[at[i - 1].buffer] ELSE NoRef]
           g == [i \in 0..MaxBuffers |-> IF i < Len(s) THEN RefAt(r, next, s, i + 1) ELSE NoRef]
           n == Len(s)
<1>1. MaxBuffers \in Nat /\ s \in Seq(Memory) /\ n \in Nat /\ n > 0 /\ n <= MaxBuffers
  BY DEF IsChain, BufferAssumption
<1>2. \A i \in 0..n - 1 : /\ g[i] = RefAt(r, next, s, i + 1) /\ g[i].buffer = s[i + 1]
                          /\ g[i].nextValid <=> i + 1 < n
  <2> SUFFICES ASSUME NEW i \in 0..n - 1
               PROVE  /\ g[i] = RefAt(r, next, s, i + 1) /\ g[i].buffer = s[i + 1]
                      /\ g[i].nextValid <=> i + 1 < n
    OBVIOUS
  <2>1. i \in 0..MaxBuffers /\ i < n /\ i + 1 \in 1..n
    BY <1>1
  <2>2. g[i] = RefAt(r, next, s, i + 1)
    BY <2>1
  <2> HIDE DEF g
  <2> QED BY <2>1, <2>2 DEF IsChain
<1>3. \A i \in 0..MaxBuffers : i >= n => g[i] = NoRef
  BY <1>1
<1>4. g[0] = r
  BY <1>1 DEF RefAt
<1>5. ASSUME NEW i \in 0..MaxBuffers, i # 0
      PROVE  g[i] = IF g[i - 1].nextValid THEN next[g[i - 1].buffer] ELSE NoRef
  <2> HIDE DEF g
  <2>1. CASE i < n
    <3>1. i - 1 \in 0..n - 1 /\ (i - 1) + 1 = i /\ i \in 0..n - 1
      BY <1>1, <1>5, <2>1
    <3>2. g[i - 1].nextValid /\ g[i - 1].buffer = s[i]
      BY <1>2, <2>1, <3>1
    <3>3. g[i] = RefAt(r, next, s, i + 1)
      BY <1>2, <3>1
    <3>4. RefAt(r, next, s, i + 1) = next[s[i]]
      BY <1>5 DEF RefAt
    <3> QED BY <3>2, <3>3, <3>4
  <2>2. CASE i = n
    <3>1. i - 1 \in 0..n - 1 /\ ~((i - 1) + 1 < n)
      BY <1>1, <2>2
    <3>2. ~g[i - 1].nextValid
      BY <1>2, <3>1
    <3> QED BY <1>3, <2>2, <3>2
  <2>3. CASE i > n
    <3>1. i - 1 \in 0..MaxBuffers /\ i - 1 >= n
      BY <1>1, <2>3
    <3>2. ~g[i - 1].nextValid
      BY <1>3, <3>1 DEF NoRef
    <3> QED BY <1>3, <2>3, <3>2
  <2> QED BY <1>1, <2>1, <2>2, <2>3
<1>6. g = [i \in 0..MaxBuffers |->
             IF i = 0 THEN r ELSE IF g[i - 1].nextValid THEN next[g[i - 1].buffer] ELSE NoRef]
  <2>1. g = [i \in 0..MaxBuffers |-> g[i]]
    OBVIOUS
  <2> HIDE DEF g
  <2>2. \A i \in 0..MaxBuffers :
           g[i] = IF i = 0 THEN r ELSE IF g[i - 1].nextValid THEN next[g[i - 1].buffer] ELSE NoRef
    BY <1>4, <1>5
  <2> QED BY <2>1, <2>2
<1>7. at = [i \in 0..MaxBuffers |->
              IF i = 0 THEN r ELSE IF at[i - 1].nextValid THEN next[at[i - 1].buffer] ELSE NoRef]
  <2> HIDE DEF g
  <2> QED BY <1>6
<1> HIDE DEF at, g
<1>8. \A i \in 0..MaxBuffers : at[i] = g[i]
  <2> DEFINE T == {i \in 0..MaxBuffers : at[i] = g[i]}
  <2>1. 0 \in T
    BY <1>1, <1>4, <1>7
  <2>2. ASSUME NEW i \in 0..MaxBuffers - 1, i \in T PROVE i + 1 \in T
    <3>1. i + 1 \in 0..MaxBuffers /\ i + 1 # 0 /\ (i + 1) - 1 = i /\ at[i] = g[i]
      BY <1>1, <2>2
    <3>2. at[i + 1] = IF at[i].nextValid THEN next[at[i].buffer] ELSE NoRef
      BY <1>7, <3>1
    <3>3. g[i + 1] = IF g[i].nextValid THEN next[g[i].buffer] ELSE NoRef
      BY <1>6, <3>1
    <3> QED BY <3>1, <3>2, <3>3
  <2> HIDE DEF T
  <2>3. \A i \in 0..MaxBuffers : i \in T
    BY <1>1, <2>1, <2>2, Induction
  <2> QED BY <2>3 DEF T
<1>9. \A i \in 0..MaxBuffers :
         ~at[i].nextValid /\ (\A j \in 0..i - 1 : at[j].nextValid) <=> i = n - 1
  <2> SUFFICES ASSUME NEW i \in 0..MaxBuffers
               PROVE  ~at[i].nextValid /\ (\A j \in 0..i - 1 : at[j].nextValid) <=> i = n - 1
    OBVIOUS
  <2>1. \A j \in 0..n - 1 : at[j].nextValid <=> j + 1 < n
    BY <1>1, <1>2, <1>8
  <2>2. CASE i < n - 1
    BY <1>1, <2>1, <2>2
  <2>3. CASE i = n - 1
    <3>1. ~at[n - 1].nextValid
      BY <1>1, <2>1
    <3>2. \A j \in 0..(n - 1) - 1 : at[j].nextValid
      BY <1>1, <2>1
    <3> QED BY <2>3, <3>1, <3>2, Zenon
  <2>4. CASE i > n - 1
    <3>1. n - 1 \in 0..i - 1 /\ n - 1 \in 0..n - 1
      BY <1>1, <2>4
    <3>2. ~at[n - 1].nextValid
      BY <1>1, <2>1, <3>1
    <3> QED BY <2>4, <3>1, <3>2
  <2> QED BY <1>1, <2>2, <2>3, <2>4
<1>10. (CHOOSE i \in 0..MaxBuffers : ~at[i].nextValid /\ \A j \in 0..i - 1 : at[j].nextValid) = n - 1
  <2>1. n - 1 \in 0..MaxBuffers
    BY <1>1
  <2> QED BY <1>9, <2>1
<1>11. Follow(r, next) = [i \in 1..(n - 1) + 1 |-> at[i - 1].buffer]
  BY <1>10 DEF Follow, at
<1>12. \A i \in 1..n : at[i - 1].buffer = s[i]
  <2> SUFFICES ASSUME NEW i \in 1..n PROVE at[i - 1].buffer = s[i]
    OBVIOUS
  <2>1. i - 1 \in 0..n - 1 /\ i - 1 \in 0..MaxBuffers /\ (i - 1) + 1 = i
    BY <1>1
  <2> QED BY <1>2, <1>8, <2>1
<1> QED
  BY <1>1, <1>11, <1>12

\* Only the headers of the buffers in a chain matter for it
LEMMA ChainKept ==
  ASSUME NEW r, NEW next, NEW s, IsChain(r, next, s),
         NEW other, \A i \in 1..Len(s) : other[s[i]] = next[s[i]]
  PROVE  IsChain(r, other, s)
<1>1. Len(s) \in Nat
  BY DEF IsChain
<1>2. \A i \in 1..Len(s) : RefAt(r, other, s, i) = RefAt(r, next, s, i)
  <2> SUFFICES ASSUME NEW i \in 1..Len(s), i # 1 PROVE other[s[i - 1]] = next[s[i - 1]]
    BY DEF RefAt
  <2>1. i - 1 \in 1..Len(s)
    BY <1>1
  <2> QED BY <2>1
<1> QED
  BY <1>2 DEF IsChain

\* What is left of a chain without its first buffer
LEMMA ChainTail ==
  ASSUME BufferAssumption, NEW r, NEW next, NEW s, IsChain(r, next, s), Len(s) > 1
  PROVE  IsChain(next[s[1]], next, Tail(s))
<1> DEFINE t == Tail(s)
<1>1. s \in Seq(Memory) /\ Len(s) \in Nat /\ Len(s) <= MaxBuffers
  BY DEF IsChain
<1>2. t \in Seq(Memory) /\ Len(t) = Len(s) - 1 /\ \A i \in 1..Len(t) : t[i] = s[i + 1]
  BY <1>1
<1> HIDE DEF t
<1>3. ASSUME NEW i \in 1..Len(t)
      PROVE  RefAt(next[s[1]], next, t, i) = RefAt(r, next, s, i + 1)
  <2>1. CASE i = 1
    BY <2>1 DEF RefAt
  <2>2. CASE i # 1
    <3>1. i - 1 \in 1..Len(t) /\ (i - 1) + 1 = i /\ (i + 1) - 1 = i /\ i + 1 # 1
      BY <1>1, <1>2, <2>2
    <3>2. t[i - 1] = s[i]
      BY <1>2, <3>1
    <3> QED BY <2>2, <3>1, <3>2 DEF RefAt
  <2> QED BY <2>1, <2>2
<1>4. \A i \in 1..Len(t) : /\ RefAt(next[s[1]], next, t, i).buffer = t[i]
                           /\ RefAt(next[s[1]], next, t, i).nextValid <=> i < Len(t)
  <2> SUFFICES ASSUME NEW i \in 1..Len(t)
               PROVE  /\ RefAt(next[s[1]], next, t, i).buffer = t[i]
                      /\ RefAt(next[s[1]], next, t, i).nextValid <=> i < Len(t)
    OBVIOUS
  <2>1. i + 1 \in 1..Len(s) /\ (i + 1 < Len(s) <=> i < Len(t))
    BY <1>1, <1>2
  <2>2. /\ RefAt(r, next, s, i + 1).buffer = s[i + 1]
        /\ RefAt(r, next, s, i + 1).nextValid <=> i + 1 < Len(s)
    BY <2>1 DEF IsChain
  <2> QED BY <1>2, <1>3, <2>1, <2>2
<1>5. t \in Seq(Memory) /\ Len(t) > 0 /\ Len(t) <= MaxBuffers
  BY <1>1, <1>2 DEF BufferAssumption
<1>6. IsChain(next[s[1]], next, t)
  BY <1>4, <1>5, Zenon DEF IsChain
<1> QED
  BY <1>6 DEF t

-----------------------------------------------------------------------------
(* Sequences *)

LEMMA Concatenation ==
  ASSUME NEW S, NEW s \in Seq(S), NEW t \in Seq(S)
  PROVE  /\ s \o t \in Seq(S) /\ Len(s \o t) = Len(s) + Len(t) /\ Len(s) \in Nat /\ Len(t) \in Nat
         /\ \A i \in 1..Len(s) : (s \o t)[i] = s[i]
         /\ \A i \in 1..Len(t) : (s \o t)[Len(s) + i] = t[i]
OBVIOUS

LEMMA SeqWiden ==
  ASSUME NEW S, NEW T, S \subseteq T, NEW s \in Seq(S)
  PROVE  s \in Seq(T)
OBVIOUS

LEMMA ItemsOfSeq ==
  ASSUME NEW S, NEW s \in Seq(S)
  PROVE  /\ \A i \in 1..Len(s) : s[i] \in Range(s) /\ s[i] \in S
         /\ \A x \in Range(s) : \E i \in 1..Len(s) : x = s[i]
         /\ Range(s) \subseteq S
<1>1. DOMAIN s = 1..Len(s) /\ Len(s) \in Nat /\ \A i \in 1..Len(s) : s[i] \in S
  OBVIOUS
<1>2. (\A i \in 1..Len(s) : s[i] \in Range(s)) /\ \A x \in Range(s) : \E i \in 1..Len(s) : x = s[i]
  BY <1>1 DEF Range
<1>3. Range(s) \subseteq S
  BY <1>1, <1>2
<1> QED
  BY <1>1, <1>2, <1>3

LEMMA InjectiveSeq ==
  ASSUME NEW S, NEW s \in Seq(S)
  PROVE  IsInjective(s) <=> \A i \in 1..Len(s), j \in 1..Len(s) : s[i] = s[j] => i = j
BY DEF IsInjective

LEMMA ConcatenationRange ==
  ASSUME NEW S, NEW s \in Seq(S), NEW t \in Seq(S)
  PROVE  /\ Range(s \o t) = Range(s) \cup Range(t)
         /\ IsInjective(s) /\ IsInjective(t) /\ Range(s) \cap Range(t) = {} => IsInjective(s \o t)
<1> DEFINE u == s \o t
<1>1. /\ u \in Seq(S) /\ Len(u) = Len(s) + Len(t) /\ Len(s) \in Nat /\ Len(t) \in Nat
      /\ \A i \in 1..Len(s) : u[i] = s[i]
      /\ \A i \in 1..Len(t) : u[Len(s) + i] = t[i]
  BY Concatenation
<1> HIDE DEF u
<1>2. DOMAIN u = 1..Len(u) /\ DOMAIN s = 1..Len(s) /\ DOMAIN t = 1..Len(t)
  BY <1>1
<1>3. ASSUME NEW i \in 1..Len(u), i > Len(s)
      PROVE  i - Len(s) \in 1..Len(t) /\ u[i] = t[i - Len(s)]
  <2>1. i - Len(s) \in 1..Len(t) /\ Len(s) + (i - Len(s)) = i
    BY <1>1, <1>3
  <2> QED BY <1>1, <2>1
<1>4. ASSUME NEW i \in 1..Len(u) PROVE i \in 1..Len(s) \/ i > Len(s)
  BY <1>1
<1>5. Range(u) = Range(s) \cup Range(t)
  <2>1. ASSUME NEW i \in 1..Len(u) PROVE u[i] \in Range(s) \cup Range(t)
    BY <1>1, <1>2, <1>3, <1>4 DEF Range
  <2>2. ASSUME NEW i \in 1..Len(s) PROVE s[i] \in Range(u)
    <3>1. i \in DOMAIN u
      BY <1>1, <1>2
    <3> QED BY <1>1, <3>1 DEF Range
  <2>3. ASSUME NEW i \in 1..Len(t) PROVE t[i] \in Range(u)
    <3>1. Len(s) + i \in DOMAIN u
      BY <1>1, <1>2
    <3> QED BY <1>1, <3>1 DEF Range
  <2> QED BY <1>2, <2>1, <2>2, <2>3 DEF Range
<1>6. ASSUME IsInjective(s), IsInjective(t), Range(s) \cap Range(t) = {}
      PROVE  IsInjective(u)
  <2> SUFFICES ASSUME NEW i \in 1..Len(u), NEW j \in 1..Len(u), u[i] = u[j] PROVE i = j
    BY <1>2 DEF IsInjective
  <2>0. \A x \in 1..Len(s), y \in 1..Len(t) : s[x] # t[y]
    BY <1>2, <1>6 DEF Range
  <2>1. CASE i \in 1..Len(s) /\ j \in 1..Len(s)
    BY <1>1, <1>2, <1>6, <2>1 DEF IsInjective
  <2>2. CASE i > Len(s) /\ j > Len(s)
    <3>1. i - Len(s) = j - Len(s)
      BY <1>2, <1>3, <1>6, <2>2 DEF IsInjective
    <3> QED BY <1>1, <3>1
  <2>3. CASE i \in 1..Len(s) /\ j > Len(s)
    <3>1. j - Len(s) \in 1..Len(t) /\ u[j] = t[j - Len(s)] /\ u[i] = s[i]
      BY <1>1, <1>3, <2>3
    <3> QED BY <2>0, <2>3, <3>1, Zenon
  <2>4. CASE i > Len(s) /\ j \in 1..Len(s)
    <3>1. i - Len(s) \in 1..Len(t) /\ u[i] = t[i - Len(s)] /\ u[j] = s[j]
      BY <1>1, <1>3, <2>4
    <3> QED BY <2>0, <2>4, <3>1, Zenon
  <2> QED BY <1>4, <2>1, <2>2, <2>3, <2>4
<1> QED
  BY <1>5, <1>6 DEF u

\* There are not more buffers in a sequence without repetition than there are
LEMMA InjectiveLength ==
  ASSUME BufferAssumption, NEW s \in Seq(Memory), IsInjective(s)
  PROVE  Len(s) <= MaxBuffers
<1>1. MaxBuffers \in Nat /\ Len(s) \in Nat /\ DOMAIN s = 1..Len(s)
  BY DEF BufferAssumption
<1>2. s \in Injection(1..Len(s), Memory)
  BY <1>1 DEF Injection, IsInjective
<1>3. IsFiniteSet(Memory) /\ Cardinality(Memory) = MaxBuffers
  BY <1>1, FS_Interval DEF Memory
<1>4. Cardinality(1..Len(s)) <= Cardinality(Memory)
  BY <1>2, <1>3, FS_Injection
<1>5. Cardinality(1..Len(s)) = Len(s)
  BY <1>1, FS_Interval
<1> QED
  BY <1>3, <1>4, <1>5

\* Two chains that were linked: the reference to the last buffer of the first says that another
\* follows it, and the header of that buffer says which
LEMMA ChainsLinked ==
  ASSUME NEW r, NEW next, NEW s, IsChain(r, next, s), IsInjective(s),
         NEW q, NEW t, IsChain(q, next, t), Range(s) \cap Range(t) = {},
         Len(s) + Len(t) <= MaxBuffers,
         NEW other, other[s[Len(s)]] = q,
         Len(s) > 1 => /\ other[s[Len(s) - 1]].buffer = next[s[Len(s) - 1]].buffer
                       /\ other[s[Len(s) - 1]].nextValid = TRUE,
         \A b \in Memory : b # s[Len(s)] /\ (Len(s) > 1 => b # s[Len(s) - 1]) => other[b] = next[b],
         NEW first, first.buffer = r.buffer, first.nextValid = TRUE
  PROVE  IsChain(first, other, s \o t)
<1> DEFINE u == s \o t
           n == Len(s)
<1>1. /\ s \in Seq(Memory) /\ t \in Seq(Memory) /\ n \in Nat /\ Len(t) \in Nat /\ n > 0 /\ Len(t) > 0
      /\ u \in Seq(Memory) /\ Len(u) = n + Len(t)
      /\ \A i \in 1..n : u[i] = s[i]
      /\ \A i \in 1..Len(t) : u[n + i] = t[i]
  <2>1. s \in Seq(Memory) /\ t \in Seq(Memory) /\ n > 0 /\ Len(t) > 0
    BY DEF IsChain
  <2> QED BY <2>1, Concatenation
<1>2. /\ \A i, j \in 1..n : s[i] = s[j] => i = j
      /\ \A i \in 1..n, j \in 1..Len(t) : s[i] # t[j]
      /\ \A i \in 1..n : s[i] \in Memory
      /\ \A i \in 1..Len(t) : t[i] \in Memory
  <2>0. s \in Seq(Memory) /\ t \in Seq(Memory)
    BY <1>1
  <2>1. \A i \in 1..n : s[i] \in Range(s) /\ s[i] \in Memory
    BY <2>0, ItemsOfSeq
  <2>3. \A i \in 1..n, j \in 1..n : s[i] = s[j] => i = j
    BY <2>0, InjectiveSeq
  <2>2. \A i \in 1..Len(t) : t[i] \in Range(t) /\ t[i] \in Memory
    BY <2>0, ItemsOfSeq
  <2> QED BY <2>1, <2>2, <2>3
<1> HIDE DEF u
<1>3. ASSUME NEW i \in 1..n
      PROVE  RefAt(first, other, u, i).buffer = u[i] /\ RefAt(first, other, u, i).nextValid
  <2>1. RefAt(r, next, s, i).buffer = s[i] /\ (RefAt(r, next, s, i).nextValid <=> i < n)
    BY DEF IsChain
  <2>2. CASE i = 1
    BY <1>1, <2>1, <2>2 DEF RefAt
  <2>3. CASE i # 1 /\ i = n
    <3>1. n > 1 /\ n - 1 \in 1..n
      BY <1>1, <2>3
    <3>2. RefAt(first, other, u, i) = other[s[n - 1]] /\ RefAt(r, next, s, i) = next[s[n - 1]]
      BY <1>1, <2>3, <3>1 DEF RefAt
    <3> QED BY <1>1, <2>1, <3>1, <3>2
  <2>4. CASE i # 1 /\ i # n
    <3>1. i - 1 \in 1..n /\ i - 1 # n /\ i - 1 # n - 1 /\ i < n /\ n \in 1..n /\ (n > 1 => n - 1 \in 1..n)
      BY <1>1, <2>4
    <3>2. RefAt(first, other, u, i) = other[s[i - 1]] /\ RefAt(r, next, s, i) = next[s[i - 1]]
      BY <1>1, <2>4, <3>1 DEF RefAt
    <3>3. s[i - 1] # s[n] /\ (n > 1 => s[i - 1] # s[n - 1]) /\ s[i - 1] \in Memory
      BY <1>2, <3>1
    <3>4. other[s[i - 1]] = next[s[i - 1]]
      BY <3>3
    <3> QED BY <1>1, <2>1, <3>1, <3>2, <3>4
  <2> QED BY <2>2, <2>3, <2>4
<1>4. ASSUME NEW j \in 1..Len(t)
      PROVE  /\ RefAt(first, other, u, n + j).buffer = u[n + j]
             /\ RefAt(first, other, u, n + j).nextValid <=> j < Len(t)
  <2>1. RefAt(q, next, t, j).buffer = t[j] /\ (RefAt(q, next, t, j).nextValid <=> j < Len(t))
    BY DEF IsChain
  <2>2. n + j # 1
    BY <1>1
  <2>3. CASE j = 1
    <3>1. (n + j) - 1 = n /\ n \in 1..n
      BY <1>1, <2>3
    <3>2. RefAt(first, other, u, n + j) = q
      BY <1>1, <2>2, <3>1 DEF RefAt
    <3>3. RefAt(q, next, t, j) = q
      BY <2>3 DEF RefAt
    <3> QED BY <1>1, <2>1, <3>2, <3>3
  <2>4. CASE j # 1
    <3>1. j - 1 \in 1..Len(t) /\ (n + j) - 1 = n + (j - 1) /\ n \in 1..n /\ (n > 1 => n - 1 \in 1..n)
      BY <1>1, <2>4
    <3>2. RefAt(first, other, u, n + j) = other[t[j - 1]] /\ RefAt(q, next, t, j) = next[t[j - 1]]
      BY <1>1, <2>2, <2>4, <3>1 DEF RefAt
    <3>3. t[j - 1] # s[n] /\ (n > 1 => t[j - 1] # s[n - 1]) /\ t[j - 1] \in Memory
      BY <1>2, <3>1
    <3>4. other[t[j - 1]] = next[t[j - 1]]
      BY <3>3
    <3> QED BY <1>1, <2>1, <3>2, <3>4
  <2> QED BY <2>3, <2>4
<1>5. ASSUME NEW i \in 1..Len(u)
      PROVE  /\ RefAt(first, other, u, i).buffer = u[i]
             /\ RefAt(first, other, u, i).nextValid <=> i < Len(u)
  <2>1. CASE i <= n
    BY <1>1, <1>3, <2>1
  <2>2. CASE i > n
    <3>1. i - n \in 1..Len(t) /\ n + (i - n) = i /\ (i - n < Len(t) <=> i < Len(u))
      BY <1>1, <2>2
    <3> QED BY <1>4, <3>1
  <2> QED BY <1>1, <2>1, <2>2
<1> QED
  BY <1>1, <1>5 DEF IsChain, u

-----------------------------------------------------------------------------
(* The inductive invariant *)

\* A packet leads to its buffers, and has none of them twice
IsPacket(p, next) ==
  /\ p = [ref |-> p.ref, bufs |-> p.bufs] /\ p.ref \in Ref
  /\ IsChain(p.ref, next, p.bufs) /\ IsInjective(p.bufs)

\* So does the chain under construction, which knows its last two buffers besides
ChainInv ==
  \/ chain = EmptyChain
  \/ /\ chain = [len |-> Len(chain.bufs), head |-> chain.head, tail |-> chain.bufs[Len(chain.bufs)],
                 prevTail |-> IF Len(chain.bufs) = 1 THEN Head0
                              ELSE chain.bufs[Len(chain.bufs) - 1],
                 bufs |-> chain.bufs]
     /\ chain.head \in Ref /\ IsChain(chain.head, nextRef, chain.bufs) /\ IsInjective(chain.bufs)

\* The buffers in B are, each in one place, free (F), in the chain (C) or in one packet of P
Owned(F, C, P, B) ==
  /\ F \cup C \cup UNION {Range(p.bufs) : p \in P} = B
  /\ F \cap C = {}
  /\ \A p \in P : Range(p.bufs) \cap F = {} /\ Range(p.bufs) \cap C = {}
  /\ \A p, q \in P : p # q => Range(p.bufs) \cap Range(q.bufs) = {}

IInv ==
  /\ made \in 0..MaxBuffers
  /\ refs \in Seq(Memory) /\ IsInjective(refs)
  /\ nextRef \in [Memory -> Ref]
  /\ \A p \in packets : IsPacket(p, nextRef)
  /\ ChainInv
  /\ Owned(Range(refs), Range(chain.bufs), packets, 1..made)

-----------------------------------------------------------------------------
(* Packets *)

LEMMA SinglePacket ==
  ASSUME BufferAssumption, NEW next, NEW b \in Memory
  PROVE  IsPacket(Single(b), next) /\ Range(Single(b).bufs) = {b}
<1> DEFINE s == <<b>>
<1>1. s \in Seq(Memory) /\ Len(s) = 1 /\ DOMAIN s = {1} /\ s[1] = b
  OBVIOUS
<1>2. MaxBuffers >= 1
  BY DEF Memory, BufferAssumption
<1>3. Range(s) = {b} /\ IsInjective(s)
  BY <1>1 DEF Range, IsInjective
<1> DEFINE r == [buffer |-> b, nextValid |-> FALSE]
<1>4. r \in Ref /\ r.buffer = b /\ r.nextValid = FALSE
  BY DEF Ref, Memory
<1>5. Single(b) = [ref |-> r, bufs |-> s] /\ Single(b).ref = r /\ Single(b).bufs = s
  BY DEF Single
<1> HIDE DEF s, r
<1>6. \A i \in 1..Len(s) : RefAt(r, next, s, i) = r /\ i = 1
  BY <1>1 DEF RefAt
<1>7. IsChain(r, next, s)
  BY <1>1, <1>2, <1>4, <1>6 DEF IsChain, BufferAssumption
<1> QED
  BY <1>3, <1>4, <1>5, <1>7, Zenon DEF IsPacket

LEMMA PacketKept ==
  ASSUME NEW p, NEW next, IsPacket(p, next), NEW other, \A b \in Range(p.bufs) : other[b] = next[b]
  PROVE  IsPacket(p, other)
<1>1. p.bufs \in Seq(Memory)
  BY DEF IsPacket, IsChain
<1>2. \A i \in 1..Len(p.bufs) : p.bufs[i] \in Range(p.bufs)
  BY <1>1, ItemsOfSeq
<1>3. IsChain(p.ref, other, p.bufs)
  BY <1>2, ChainKept DEF IsPacket
<1> QED
  BY <1>3 DEF IsPacket

\* The first buffer of a packet is the one that its reference names
LEMMA PacketFirst ==
  ASSUME NEW p, NEW next, IsPacket(p, next)
  PROVE  /\ p.bufs \in Seq(Memory) /\ Len(p.bufs) \in Nat /\ Len(p.bufs) > 0
         /\ p.ref.buffer = p.bufs[1] /\ p.bufs[1] \in Range(p.bufs) /\ p.bufs[1] \in Memory
         /\ p.ref.nextValid <=> Len(p.bufs) > 1
<1>1. p.bufs \in Seq(Memory) /\ Len(p.bufs) \in Nat /\ Len(p.bufs) > 0
  BY DEF IsPacket, IsChain
<1>2. 1 \in 1..Len(p.bufs)
  BY <1>1
<1>3. p.bufs[1] \in Range(p.bufs) /\ p.bufs[1] \in Memory
  BY <1>1, <1>2, ItemsOfSeq
<1>4. RefAt(p.ref, next, p.bufs, 1) = p.ref
  BY DEF RefAt
<1>5. p.ref.buffer = p.bufs[1] /\ (p.ref.nextValid <=> 1 < Len(p.bufs))
  BY <1>2, <1>4 DEF IsPacket, IsChain
<1> QED
  BY <1>1, <1>3, <1>5

\* A packet without its first buffer
LEMMA TailItems ==
  ASSUME NEW S, NEW s \in Seq(S), Len(s) > 0, IsInjective(s)
  PROVE  /\ Tail(s) \in Seq(S) /\ IsInjective(Tail(s))
         /\ Range(s) = {s[1]} \cup Range(Tail(s)) /\ s[1] \notin Range(Tail(s))
<1> DEFINE t == Tail(s)
<1>1. /\ Len(s) \in Nat /\ t \in Seq(S) /\ Len(t) = Len(s) - 1 /\ Len(t) \in Nat
      /\ \A i \in 1..Len(t) : t[i] = s[i + 1]
  OBVIOUS
<1> HIDE DEF t
<1>2. \A i \in 1..Len(s), j \in 1..Len(s) : s[i] = s[j] => i = j
  BY InjectiveSeq
<1>3. IsInjective(t)
  <2>1. ASSUME NEW i \in 1..Len(t), NEW j \in 1..Len(t), t[i] = t[j] PROVE i = j
    <3>1. i + 1 \in 1..Len(s) /\ j + 1 \in 1..Len(s) /\ s[i + 1] = s[j + 1]
      BY <1>1, <2>1
    <3>2. i + 1 = j + 1
      BY <1>2, <3>1
    <3> QED BY <3>2
  <2> QED BY <1>1, <2>1, InjectiveSeq
<1>4. /\ \A i \in 1..Len(s) : s[i] \in Range(s)
      /\ \A x \in Range(s) : \E i \in 1..Len(s) : x = s[i]
  BY ItemsOfSeq
<1>5. /\ \A i \in 1..Len(t) : t[i] \in Range(t)
      /\ \A x \in Range(t) : \E i \in 1..Len(t) : x = t[i]
  BY <1>1, ItemsOfSeq
<1>6. ASSUME NEW x \in Range(s) PROVE x \in {s[1]} \cup Range(t)
  <2>1. PICK i \in 1..Len(s) : x = s[i]
    BY <1>4
  <2>2. CASE i # 1
    <3>1. i - 1 \in 1..Len(t) /\ (i - 1) + 1 = i
      BY <1>1, <2>2
    <3>2. t[i - 1] = s[i]
      BY <1>1, <3>1
    <3> QED BY <1>5, <2>1, <3>1, <3>2
  <2> QED BY <2>1, <2>2
<1>7. ASSUME NEW x \in Range(t) PROVE x \in Range(s) /\ x # s[1]
  <2>1. PICK i \in 1..Len(t) : x = t[i]
    BY <1>5
  <2>2. x = s[i + 1] /\ i + 1 \in 1..Len(s) /\ 1 \in 1..Len(s) /\ i + 1 # 1
    BY <1>1, <2>1
  <2> QED BY <1>2, <1>4, <2>2
<1>8. s[1] \in Range(s)
  BY <1>1, <1>4
<1>9. Range(s) = {s[1]} \cup Range(t) /\ s[1] \notin Range(t)
  BY <1>6, <1>7, <1>8
<1> QED
  BY <1>1, <1>3, <1>9 DEF t

LEMMA PacketTail ==
  ASSUME BufferAssumption, NEW p, NEW next \in [Memory -> Ref], IsPacket(p, next), Len(p.bufs) > 1
  PROVE  IsPacket([ref |-> next[p.ref.buffer], bufs |-> Tail(p.bufs)], next)
<1> DEFINE t == Tail(p.bufs)
           r == next[p.bufs[1]]
<1>1. p.bufs \in Seq(Memory) /\ p.ref.buffer = p.bufs[1] /\ p.bufs[1] \in Memory
  BY PacketFirst
<1>2. IsInjective(t)
  BY <1>1, TailItems DEF IsPacket
<1>3. IsChain(r, next, t)
  BY ChainTail DEF IsPacket
<1>4. r \in Ref
  BY <1>1
<1> HIDE DEF t, r
<1>5. IsPacket([ref |-> r, bufs |-> t], next)
  BY <1>2, <1>3, <1>4 DEF IsPacket
<1> QED
  BY <1>1, <1>5 DEF t, r

LEMMA PacketsFinite ==
  ASSUME BufferAssumption, IInv
  PROVE  IsFiniteSet(packets)
<1> DEFINE f == [p \in packets |-> p.bufs[1]]
<1>1. \A p \in packets : p.bufs[1] \in Range(p.bufs) /\ p.bufs[1] \in Memory
  BY PacketFirst DEF IInv
<1>2. f \in [packets -> Memory]
  BY <1>1
<1>3. \A p, q \in packets : f[p] = f[q] => p = q
  BY <1>1 DEF IInv, Owned
<1>4. IsFiniteSet(Memory)
  BY FS_Interval DEF Memory, BufferAssumption
<1> HIDE DEF f
<1>5. f \in Injection(packets, Memory)
  BY <1>2, <1>3 DEF Injection, IsInjective
<1> QED
  BY <1>4, <1>5, FS_Injection

-----------------------------------------------------------------------------
(* Allocation *)

LEMMA InitInv ==
  ASSUME BufferAssumption, BuffersInit
  PROVE  IInv
<1>1. refs = <<>> /\ made = 0 /\ packets = {} /\ chain = EmptyChain /\ chain.bufs = <<>>
  BY DEF BuffersInit, EmptyChain
<1>2. <<>> \in Seq(Memory) /\ IsInjective(<<>>) /\ Range(<<>>) = {}
  BY DEF Range, IsInjective
<1>3. nextRef \in [Memory -> Ref]
  BY DEF BuffersInit, Memory, NoRef, None, Ref
<1>4. made \in 0..MaxBuffers /\ 1..made = {}
  BY <1>1 DEF BufferAssumption
<1>5. Owned({}, {}, packets, {})
  BY <1>1 DEF Owned
<1>6. Owned(Range(refs), Range(chain.bufs), packets, 1..made)
  BY <1>1, <1>2, <1>4, <1>5
<1> QED
  BY <1>1, <1>2, <1>3, <1>4, <1>6 DEF IInv, ChainInv

\* Buffers from n + 1 on are taken, each as a packet
LEMMA SinglesKeep ==
  ASSUME BufferAssumption, IInv, NEW all \in Seq(Memory), IsInjective(all), NEW n \in 0..Len(all),
         made' \in 0..MaxBuffers, Owned(Range(all), Range(chain.bufs), packets, 1..made'),
         refs' = SubSeq(all, 1, n), UNCHANGED <<nextRef, chain>>,
         packets' = packets \cup {Single(all[i]) : i \in n + 1..Len(all)}
  PROVE  IInv'
<1> DEFINE kept == SubSeq(all, 1, n)
<1>1. /\ Len(all) \in Nat /\ n \in Nat /\ n <= Len(all)
      /\ kept \in Seq(Memory) /\ Len(kept) = n /\ \A i \in 1..n : kept[i] = all[i]
  OBVIOUS
<1> HIDE DEF kept
<1>2. /\ \A i \in 1..Len(all), j \in 1..Len(all) : all[i] = all[j] => i = j
      /\ \A i \in 1..Len(all) : all[i] \in Range(all) /\ all[i] \in Memory
      /\ \A b \in Range(all) : \E i \in 1..Len(all) : b = all[i]
  BY InjectiveSeq, ItemsOfSeq
<1>3. /\ \A b \in Range(kept) : \E i \in 1..n : b = all[i]
      /\ \A i \in 1..n : all[i] \in Range(kept)
  <2>1. /\ \A b \in Range(kept) : \E i \in 1..Len(kept) : b = kept[i]
        /\ \A i \in 1..Len(kept) : kept[i] \in Range(kept)
    BY <1>1, ItemsOfSeq
  <2> QED BY <1>1, <2>1
<1>4. IsInjective(kept)
  <2>1. \A i \in 1..Len(kept), j \in 1..Len(kept) : kept[i] = kept[j] => i = j
    BY <1>1, <1>2
  <2> QED BY <1>1, <2>1, InjectiveSeq
<1>5. \A i \in n + 1..Len(all) :
        IsPacket(Single(all[i]), nextRef) /\ Range(Single(all[i]).bufs) = {all[i]}
  <2> SUFFICES ASSUME NEW i \in n + 1..Len(all)
               PROVE  IsPacket(Single(all[i]), nextRef) /\ Range(Single(all[i]).bufs) = {all[i]}
    OBVIOUS
  <2>1. all[i] \in Memory
    BY <1>1, <1>2
  <2> QED BY <2>1, SinglePacket
<1>6. \A p \in packets' : IsPacket(p, nextRef')
  BY <1>5 DEF IInv
<1>7. Owned(Range(kept), Range(chain.bufs), packets', 1..made')
  <2> DEFINE singles == {Single(all[i]) : i \in n + 1..Len(all)}
             C == Range(chain.bufs)
             A == Range(all)
             K == Range(kept)
             P == packets
             M == 1..made'
  <2>1. /\ \A p \in singles : \E i \in n + 1..Len(all) : p = Single(all[i]) /\ Range(p.bufs) = {all[i]}
        /\ \A i \in n + 1..Len(all) : Single(all[i]) \in singles /\ all[i] \in Range(Single(all[i]).bufs)
    BY <1>5
  <2>2. ASSUME NEW b \in A PROVE b \in K \/ \E p \in singles : b \in Range(p.bufs)
    <3>1. PICK i \in 1..Len(all) : b = all[i]
      BY <1>2
    <3>2. i \in 1..n \/ i \in n + 1..Len(all)
      BY <1>1
    <3> QED BY <1>3, <2>1, <3>1, <3>2
  <2>3. K \subseteq A /\ \A p \in singles : Range(p.bufs) \subseteq A /\ Range(p.bufs) \cap K = {}
    <3>1. \A i \in 1..n : i \in 1..Len(all)
      BY <1>1
    <3>2. \A i \in n + 1..Len(all) : i \in 1..Len(all) /\ i \notin 1..n
      BY <1>1
    <3>3. K \subseteq A
      BY <1>2, <1>3, <3>1
    <3>4. ASSUME NEW q \in singles PROVE Range(q.bufs) \subseteq A /\ Range(q.bufs) \cap K = {}
      <4>1. PICK i \in n + 1..Len(all) : Range(q.bufs) = {all[i]}
        BY <2>1
      <4>2. all[i] \in A /\ all[i] \notin K
        BY <1>2, <1>3, <3>1, <3>2
      <4> QED BY <4>1, <4>2
    <3> QED BY <3>3, <3>4
  <2>4. \A p, q \in singles : p # q => Range(p.bufs) \cap Range(q.bufs) = {}
    <3>2. \A i \in n + 1..Len(all) : i \in 1..Len(all)
      BY <1>1
    <3> QED BY <1>2, <2>1, <3>2
  <2>5. Owned(A, C, P, M)
    OBVIOUS
  <2>6. packets' = P \cup singles
    OBVIOUS
  <2> HIDE DEF singles, C, A, K, P, M
  <2>7. Owned(K, C, P \cup singles, M)
    <3>1. K \cup C \cup UNION {Range(p.bufs) : p \in P \cup singles} = M
      BY <2>2, <2>3, <2>5 DEF Owned
    <3>2. \A p \in P \cup singles : Range(p.bufs) \cap K = {} /\ Range(p.bufs) \cap C = {}
      BY <2>3, <2>5 DEF Owned
    <3>3. \A p, q \in P \cup singles : p # q => Range(p.bufs) \cap Range(q.bufs) = {}
      BY <2>3, <2>4, <2>5 DEF Owned
    <3>4. K \cap C = {}
      BY <2>3, <2>5 DEF Owned
    <3> QED BY <3>1, <3>2, <3>3, <3>4 DEF Owned
  <2> QED BY <2>6, <2>7 DEF C, K, M
<1>8. Owned(Range(refs'), Range(chain'.bufs), packets', 1..made')
  BY <1>7 DEF kept
<1>9. ChainInv'
  BY DEF IInv, ChainInv
<1>10. refs' \in Seq(Memory) /\ IsInjective(refs')
  BY <1>1, <1>4 DEF kept
<1> QED
  BY <1>6, <1>8, <1>9, <1>10 DEF IInv

LEMMA CachedKeeps ==
  ASSUME BufferAssumption, IInv, AllocCachedRefs
  PROVE  IInv'
<1>1. refs \in Seq(Memory) /\ 0 \in 0..Len(refs) /\ SubSeq(refs, 1, 0) = <<>> /\ 0 + 1 = 1
  BY DEF IInv
<1>2. /\ refs' = SubSeq(refs, 1, 0) /\ UNCHANGED <<nextRef, chain>> /\ made' = made
      /\ packets' = packets \cup {Single(refs[i]) : i \in 0 + 1..Len(refs)}
  BY <1>1 DEF AllocCachedRefs
<1>3. /\ IsInjective(refs) /\ made' \in 0..MaxBuffers
      /\ Owned(Range(refs), Range(chain.bufs), packets, 1..made')
  BY <1>2 DEF IInv
<1> QED
  BY <1>1, <1>2, <1>3, SinglesKeep

LEMMA ChunkPlace ==
  ASSUME NEW c \in Nat \ {0}, NEW k \in Nat, NEW q \in 0..k - 1, NEW r \in 0..c - 1
  PROVE  c * q \in Nat /\ c * q + r + 1 \in 1..c * k
<1>1. k - (q + 1) \in Nat /\ q + 1 \in Nat
  OBVIOUS
<1>2. c * (k - (q + 1)) = c * k - c * (q + 1)
  BY <1>1, Distribute
<1>3. c * (q + 1) = c * q + c /\ c * q \in Nat /\ c * k \in Nat
  OBVIOUS
<1>4. c * (k - (q + 1)) >= 0
  BY <1>1
<1> QED
  BY <1>2, <1>3, <1>4

\* The i-th number has the place R[i] in the chunk Q[i], and D[i] from its end
InChunks(c, k, m, i, Q, R, D, f) ==
  /\ Q[i] \in 0..k - 1 /\ R[i] \in 0..c - 1 /\ D[i] \in 0..c - 1
  /\ D[i] + R[i] = c - 1 /\ i - 1 = c * Q[i] + R[i]
  /\ f[i] = m + (c * Q[i] + D[i]) + 1

AllInChunks(c, k, m, n, Q, R, D, f) == \A i \in 1..n : InChunks(c, k, m, i, Q, R, D, f)

LEMMA PlacesInChunks ==
  ASSUME NEW c \in Nat \ {0}, NEW k \in Nat, NEW m \in Nat, NEW n \in Nat, n = c * k,
         NEW Q, NEW R, NEW D, NEW f \in [1..n -> Int],
         AllInChunks(c, k, m, n, Q, R, D, f)
  PROVE  f \in Seq(m + 1..m + n) /\ Len(f) = n /\ IsInjective(f) /\ Range(f) = m + 1..m + n
<1>2. ASSUME NEW i \in 1..n PROVE f[i] \in m + 1..m + n
  <2> DEFINE u == c * Q[i]
             d == D[i]
  <2>1. InChunks(c, k, m, i, Q, R, D, f)
    BY DEF AllInChunks
  <2>2. Q[i] \in 0..k - 1 /\ d \in 0..c - 1 /\ f[i] = m + (u + d) + 1
    BY <2>1 DEF InChunks
  <2>3. u \in Nat /\ u + d + 1 \in 1..n
    BY <2>2, ChunkPlace
  <2> HIDE DEF u, d
  <2> QED BY <2>2, <2>3
<1>3. f \in Seq(m + 1..m + n) /\ Len(f) = n /\ DOMAIN f = 1..n
  <2>1. DOMAIN f = 1..n
    OBVIOUS
  <2>2. f \in [1..n -> m + 1..m + n]
    BY <1>2
  <2> QED BY <2>1, <2>2
<1>4. ASSUME NEW i \in 1..n, NEW j \in 1..n, f[i] = f[j] PROVE i = j
  <2>1. InChunks(c, k, m, i, Q, R, D, f) /\ InChunks(c, k, m, j, Q, R, D, f)
    BY DEF AllInChunks
  <2> DEFINE p == Q[i]
             q == Q[j]
             r == R[i]
             s == R[j]
             d == D[i]
             e == D[j]
  <2>2. /\ p \in 0..k - 1 /\ r \in 0..c - 1 /\ d \in 0..c - 1
        /\ d + r = c - 1 /\ i - 1 = c * p + r /\ f[i] = m + (c * p + d) + 1
    BY <2>1, Zenon DEF InChunks
  <2>3. /\ q \in 0..k - 1 /\ s \in 0..c - 1 /\ e \in 0..c - 1
        /\ e + s = c - 1 /\ j - 1 = c * q + s /\ f[j] = m + (c * q + e) + 1
    BY <2>1, Zenon DEF InChunks
  <2>4. m + (c * p + d) + 1 = m + (c * q + e) + 1
    BY <1>4, <2>2, <2>3, Zenon
  <2> HIDE DEF p, q, r, s, d, e
  <2>5. p \in Int /\ q \in Int
    BY <2>2, <2>3
  <2>6. d \in 0..c - 1 /\ e \in 0..c - 1
    BY <2>2, <2>3
  <2>7. c * p + d = c * q + e
    <3> DEFINE u == c * p
               v == c * q
    <3>1. u \in Int /\ v \in Int /\ m + (u + d) + 1 = m + (v + e) + 1
      BY <2>4, <2>5
    <3> HIDE DEF u, v
    <3>2. u + d = v + e
      BY <2>6, <3>1
    <3> QED BY <3>2 DEF u, v
  <2>8. p = q /\ d = e
    <3>1. \A x \in Int, y \in Int, u \in 0..c - 1, v \in 0..c - 1 :
             c * x + u = c * y + v => x = y /\ u = v
      BY DivisionUnique
    <3>2. \A u \in 0..c - 1, v \in 0..c - 1 : c * p + u = c * q + v => p = q /\ u = v
      BY <2>5, <3>1, Zenon
    <3>3. c * p + d = c * q + e => p = q /\ d = e
      BY <2>6, <3>2, Zenon
    <3> QED BY <2>7, <3>3, Zenon
  <2>9. r = s
    BY <2>2, <2>3, <2>8
  <2>10. i - 1 = j - 1
    BY <2>2, <2>3, <2>8, <2>9, Zenon
  <2> QED BY <2>10
<1>5. f \in Injection(1..n, m + 1..m + n)
  BY <1>2, <1>3, <1>4 DEF Injection, IsInjective
<1>6. IsFiniteSet(m + 1..m + n) /\ Cardinality(1..n) = n /\ Cardinality(m + 1..m + n) = n
  <2>1. m + 1 \in Int /\ m + n \in Int /\ 1 \in Int /\ n \in Int
    OBVIOUS
  <2>2. /\ IsFiniteSet(m + 1..m + n) /\ Cardinality(1..n) = IF 1 > n THEN 0 ELSE n - 1 + 1
        /\ Cardinality(m + 1..m + n) = IF m + 1 > m + n THEN 0 ELSE (m + n) - (m + 1) + 1
    BY <2>1, FS_Interval, Zenon
  <2> QED BY <2>2
<1>7. f \in Surjection(1..n, m + 1..m + n)
  BY <1>5, <1>6, FS_Injection
<1>8. Range(f) = m + 1..m + n
  BY <1>2, <1>3, <1>7 DEF Range, Surjection
<1> QED
  BY <1>3, <1>4, <1>8 DEF IsInjective

\* The buffers of k chunks, each chunk from its end, are those that follow
LEMMA ChunksOfBuffers ==
  ASSUME NEW c \in Nat \ {0}, NEW k \in Nat, NEW m \in Nat
  PROVE  LET f == [i \in 1..k * c |-> m + ((i - 1) \div c + 1) * c - ((i - 1) % c)]
         IN  /\ k * c \in Nat /\ f \in Seq(m + 1..m + k * c) /\ Len(f) = k * c
             /\ IsInjective(f) /\ Range(f) = m + 1..m + k * c
<1> DEFINE n == k * c
           f == [i \in 1..n |-> m + ((i - 1) \div c + 1) * c - ((i - 1) % c)]
           Q == [i \in 1..n |-> (i - 1) \div c]
           R == [i \in 1..n |-> (i - 1) % c]
           D == [i \in 1..n |-> c - 1 - R[i]]
<1>1. n \in Nat /\ n = c * k
  OBVIOUS
<1> HIDE DEF n
<1>2. ASSUME NEW i \in 1..n
      PROVE  Q[i] \in 0..k - 1 /\ R[i] \in 0..c - 1 /\ i - 1 = c * Q[i] + R[i]
  <2>1. i - 1 \in Nat /\ i - 1 < c * k
    BY <1>1
  <2>2. Q[i] \in Nat /\ R[i] \in 0..c - 1 /\ i - 1 = c * Q[i] + R[i]
    BY <2>1, Division
  <2>3. Q[i] + 1 \in 1..k
    BY <2>1, PageExists
  <2> HIDE DEF Q, R
  <2> QED BY <2>2, <2>3
<1>3. \A i \in 1..n : D[i] = c - 1 - R[i] /\ f[i] = m + (Q[i] + 1) * c - R[i]
  OBVIOUS
<1>4. f \in [1..n -> Int]
  <2>1. ASSUME NEW i \in 1..n PROVE m + ((i - 1) \div c + 1) * c - ((i - 1) % c) \in Int
    BY Division
  <2> QED BY <2>1
<1> HIDE DEF f, Q, R, D
<1>5. ASSUME NEW i \in 1..n PROVE InChunks(c, k, m, i, Q, R, D, f)
  <2> DEFINE u == c * Q[i]
  <2>1. Q[i] \in 0..k - 1 /\ R[i] \in 0..c - 1 /\ D[i] = c - 1 - R[i]
    BY <1>2, <1>3
  <2>2. (Q[i] + 1) * c = u + c /\ u \in Int
    BY <2>1
  <2>3. f[i] = m + (u + c) - R[i]
    BY <1>3, <2>2
  <2>4. f[i] = m + (u + D[i]) + 1
    <3> HIDE DEF u
    <3> QED BY <2>1, <2>2, <2>3
  <2>5. D[i] \in 0..c - 1 /\ D[i] + R[i] = c - 1
    BY <2>1
  <2>6. i - 1 = c * Q[i] + R[i]
    BY <1>2
  <2> QED BY <2>1, <2>4, <2>5, <2>6, Zenon DEF InChunks
<1>6. f \in Seq(m + 1..m + n) /\ Len(f) = n /\ IsInjective(f) /\ Range(f) = m + 1..m + n
  <2>1. AllInChunks(c, k, m, n, Q, R, D, f)
    BY <1>5 DEF AllInChunks
  <2> QED BY <1>1, <1>4, <2>1, PlacesInChunks
<1> QED
  BY <1>1, <1>6 DEF n, f

LEMMA GrownExact ==
  ASSUME BufferAssumption, IInv, NEW want \in 1..MaxWant,
         made + Len(Grown(want)) - Len(refs) <= MaxBuffers
  PROVE  /\ Grown(want) \in Seq(Memory) /\ IsInjective(Grown(want)) /\ want <= Len(Grown(want))
         /\ made + Len(Grown(want)) - Len(refs) \in 0..MaxBuffers
         /\ Owned(Range(Grown(want)), Range(chain.bufs), packets,
                  1..made + Len(Grown(want)) - Len(refs))
<1> DEFINE len == Len(refs)
           Enough(n) == len + n * Chunk >= want
           Fewest(n) == Enough(n) /\ \A m \in 0..n - 1 : len + m * Chunk < want
           k == CHOOSE n \in 0..want : Fewest(n)
           new == [i \in 1..k * Chunk |-> made + ((i - 1) \div Chunk + 1) * Chunk - ((i - 1) % Chunk)]
           all == Grown(want)
           M == made + k * Chunk
<1>1. /\ want \in Nat \ {0} /\ Chunk \in Nat \ {0} /\ made \in Nat /\ MaxBuffers \in Nat
      /\ refs \in Seq(Memory) /\ IsInjective(refs) /\ len \in Nat
  BY DEF BufferAssumption, IInv
<1>2. k \in 0..want /\ len + k * Chunk >= want
  <2> DEFINE T == {n \in Nat : Enough(n)}
  <2>1. want \in T
    <3>1. want * Chunk >= want /\ want * Chunk \in Nat
      BY <1>1, AtLeastOne
    <3> HIDE DEF len
    <3> QED BY <1>1, <3>1
  <2>2. PICK n \in T : \A y \in T : n <= y
    <3>1. T \subseteq Nat /\ T # {}
      BY <2>1
    <3> HIDE DEF T
    <3> QED BY <3>1, Least
  <2>3. n \in 0..want /\ Enough(n)
    BY <1>1, <2>1, <2>2
  <2>4. ASSUME NEW m \in 0..n - 1 PROVE len + m * Chunk < want
    <3>1. m \in Nat /\ n \in Nat /\ ~(n <= m) /\ m * Chunk \in Nat
      BY <1>1, <2>3
    <3>2. ~Enough(m)
      BY <2>2, <3>1
    <3> HIDE DEF len
    <3> QED BY <1>1, <3>1, <3>2
  <2>5. \E x \in 0..want : Fewest(x)
    BY <2>3, <2>4
  <2>6. k \in 0..want /\ Fewest(k)
    <3> HIDE DEF Fewest
    <3> QED BY <2>5
  <2> HIDE DEF k
  <2> QED BY <2>6
<1>3. all = refs \o new
  BY DEF Grown
<1> HIDE DEF k
<1>4. k \in Nat
  BY <1>1, <1>2
<1>5. /\ k * Chunk \in Nat /\ new \in Seq(made + 1..M) /\ Len(new) = k * Chunk
      /\ IsInjective(new) /\ Range(new) = made + 1..M
  BY <1>1, <1>4, ChunksOfBuffers
<1> HIDE DEF new
<1>6. /\ Range(refs) \subseteq 1..made
      /\ Owned(Range(refs), Range(chain.bufs), packets, 1..made)
  BY DEF IInv, Owned
<1>7. new \in Seq(Nat) /\ refs \in Seq(Nat)
  <2>1. made + 1..M \subseteq Nat /\ Memory \subseteq Nat
    BY <1>1 DEF Memory
  <2>2. new \in Seq(Nat)
    BY <1>5, <2>1, SeqWiden
  <2>3. refs \in Seq(Nat)
    BY <1>1, <2>1, SeqWiden
  <2> QED BY <2>2, <2>3
<1>8. Len(all) = len + k * Chunk /\ M = made + Len(all) - Len(refs)
  <2>1. Len(all) = Len(refs) + Len(new)
    BY <1>3, <1>7, Concatenation
  <2> QED BY <1>1, <1>5, <2>1
<1>9. M \in Nat /\ made <= M /\ M <= MaxBuffers
  BY <1>1, <1>5, <1>8
<1>10. made + 1..M \subseteq Memory
  BY <1>1, <1>9 DEF Memory
<1>11. new \in Seq(Memory)
  BY <1>5, <1>10, SeqWiden
<1>12. Range(refs) \cap Range(new) = {}
  BY <1>1, <1>5, <1>6
<1>13. all \in Seq(Memory)
  BY <1>1, <1>3, <1>11, Concatenation
<1>14. Range(all) = Range(refs) \cup (made + 1..M) /\ IsInjective(all)
  <2>1. /\ Range(refs \o new) = Range(refs) \cup Range(new)
        /\ IsInjective(refs) /\ IsInjective(new) /\ Range(refs) \cap Range(new) = {} =>
             IsInjective(refs \o new)
    BY <1>1, <1>11, ConcatenationRange
  <2>2. IsInjective(refs \o new)
    BY <1>1, <1>5, <1>12, <2>1
  <2> QED BY <1>3, <1>5, <2>1, <2>2, Zenon
<1>15. Owned(Range(all), Range(chain.bufs), packets, 1..M)
  <2> DEFINE R == Range(refs)
             C == Range(chain.bufs)
             N == made + 1..M
             A == 1..made
             B == 1..M
  <2>1. B = A \cup N /\ A \cap N = {}
    BY <1>1, <1>9
  <2>2. Owned(R, C, packets, A)
    BY <1>6
  <2> HIDE DEF R, C, N, A, B
  <2>3. Owned(R \cup N, C, packets, B)
    <3>1. (R \cup N) \cup C \cup UNION {Range(p.bufs) : p \in packets} = B
      BY <2>1, <2>2 DEF Owned
    <3>2. C \subseteq A /\ \A p \in packets : Range(p.bufs) \subseteq A
      BY <2>2 DEF Owned
    <3>3. /\ (R \cup N) \cap C = {}
          /\ \A p \in packets : Range(p.bufs) \cap (R \cup N) = {} /\ Range(p.bufs) \cap C = {}
      BY <2>1, <2>2, <3>2 DEF Owned
    <3> QED BY <2>2, <3>1, <3>3 DEF Owned
  <2> QED BY <1>14, <2>3 DEF R, C, N, B
<1>16. want <= Len(all)
  BY <1>2, <1>8
<1> QED
  BY <1>8, <1>9, <1>13, <1>14, <1>15, <1>16

LEMMA AllocKeeps ==
  ASSUME BufferAssumption, IInv, NEW want \in 1..MaxWant, AllocRefs(want)
  PROVE  IInv'
<1> DEFINE all == Grown(want)
           n == Len(all) - want
<1>1. /\ made + Len(all) - Len(refs) <= MaxBuffers /\ made' = made + Len(all) - Len(refs)
      /\ refs' = SubSeq(all, 1, n) /\ UNCHANGED <<nextRef, chain>>
      /\ packets' = packets \cup {Single(all[i]) : i \in n + 1..Len(all)}
  BY DEF AllocRefs
<1>2. /\ all \in Seq(Memory) /\ IsInjective(all) /\ want <= Len(all)
      /\ made + Len(all) - Len(refs) \in 0..MaxBuffers
      /\ Owned(Range(all), Range(chain.bufs), packets, 1..made + Len(all) - Len(refs))
  BY <1>1, GrownExact
<1> HIDE DEF all
<1>3. n \in 0..Len(all)
  BY <1>2 DEF BufferAssumption
<1>4. made' \in 0..MaxBuffers /\ Owned(Range(all), Range(chain.bufs), packets, 1..made')
  BY <1>1, <1>2
<1> HIDE DEF n
<1> QED
  BY <1>1, <1>2, <1>3, <1>4, SinglesKeep

-----------------------------------------------------------------------------
(* Free *)

\* The sequences F[1], F[2], ... joined, up to each of them
Joined(f, F, n) == f = [i \in 1..n |-> IF i = 1 THEN F[i] ELSE f[i - 1] \o F[i]]

LEMMA JoinedExists ==
  ASSUME NEW n \in Nat, NEW F
  PROVE  \E f : Joined(f, F, n)
<1> DEFINE T == {m \in 0..n : \E f : Joined(f, F, m)}
<1>1. 0 \in T
  <2>1. Joined(<<>>, F, 0)
    BY DEF Joined
  <2> QED BY <2>1
<1>2. ASSUME NEW m \in 0..n - 1, m \in T PROVE m + 1 \in T
  <2>1. PICK f : Joined(f, F, m)
    BY <1>2
  <2> DEFINE g == [i \in 1..m + 1 |-> IF i <= m THEN f[i]
                                      ELSE IF m = 0 THEN F[i] ELSE f[m] \o F[i]]
  <2>2. m \in Nat
    OBVIOUS
  <2>3. ASSUME NEW i \in 1..m + 1
        PROVE  g[i] = IF i = 1 THEN F[i] ELSE g[i - 1] \o F[i]
    <3>1. CASE i <= m
      <4>1. i \in 1..m /\ g[i] = f[i]
        BY <2>2, <3>1
      <4>2. f[i] = IF i = 1 THEN F[i] ELSE f[i - 1] \o F[i]
        BY <2>1, <4>1 DEF Joined
      <4>3. CASE i # 1
        <5>1. i - 1 \in 1..m + 1 /\ i - 1 <= m
          BY <2>2, <4>1, <4>3
        <5>2. g[i - 1] = f[i - 1]
          BY <5>1
        <5> HIDE DEF g
        <5> QED BY <4>1, <4>2, <4>3, <5>2
      <4> HIDE DEF g
      <4> QED BY <4>1, <4>2, <4>3
    <3>2. CASE i = m + 1
      <4>1. CASE m = 0
        BY <3>2, <4>1
      <4>2. CASE m # 0
        <5>1. i # 1 /\ i - 1 = m /\ m \in 1..m + 1 /\ ~(i <= m) /\ m <= m
          BY <2>2, <3>2, <4>2
        <5>2. g[m] = f[m]
          BY <5>1
        <5>3. g[i] = f[m] \o F[i]
          BY <4>2, <5>1
        <5> HIDE DEF g
        <5> QED BY <5>1, <5>2, <5>3
      <4> QED BY <4>1, <4>2
    <3> QED BY <2>2, <3>1, <3>2
  <2>4. g = [i \in 1..m + 1 |-> g[i]]
    OBVIOUS
  <2> HIDE DEF g
  <2>5. Joined(g, F, m + 1)
    BY <2>3, <2>4 DEF Joined
  <2>6. m + 1 \in 0..n
    OBVIOUS
  <2> QED BY <2>5, <2>6
<1> HIDE DEF T
<1>3. n \in T
  BY <1>1, <1>2, Induction
<1> QED
  BY <1>3 DEF T

LEMMA FlattenItems ==
  ASSUME NEW S, NEW n \in Nat, NEW F \in [1..n -> Seq(S)],
         \A i \in 1..n : IsInjective(F[i]),
         \A i, j \in 1..n : i # j => Range(F[i]) \cap Range(F[j]) = {}
  PROVE  /\ FlattenSeq(F) \in Seq(S) /\ IsInjective(FlattenSeq(F))
         /\ Range(FlattenSeq(F)) = UNION {Range(F[i]) : i \in 1..n}
<1>1. F \in Seq(Seq(S)) /\ Len(F) = n
  OBVIOUS
<1>2. CASE n = 0
  <2>1. FlattenSeq(F) = <<>>
    BY <1>1, <1>2 DEF FlattenSeq
  <2>2. <<>> \in Seq(S) /\ IsInjective(<<>>) /\ Range(<<>>) = {}
    BY DEF Range, IsInjective
  <2> QED BY <1>2, <2>1, <2>2
<1>3. CASE n # 0
  <2> DEFINE f == CHOOSE f : f = [i \in 1..n |-> IF i = 1 THEN F[i] ELSE f[i - 1] \o F[i]]
             Items(m) == UNION {Range(F[i]) : i \in 1..m}
             Good(m) == f[m] \in Seq(S) /\ IsInjective(f[m]) /\ Range(f[m]) = Items(m)
             T == {m \in 0..n : m # 0 => Good(m)}
  <2>1. FlattenSeq(F) = f[n]
    BY <1>1, <1>3 DEF FlattenSeq
  <2>2. f = [i \in 1..n |-> IF i = 1 THEN F[i] ELSE f[i - 1] \o F[i]]
    <3>1. \E g : g = [i \in 1..n |-> IF i = 1 THEN F[i] ELSE g[i - 1] \o F[i]]
      BY JoinedExists DEF Joined
    <3> QED BY <3>1
  <2> HIDE DEF f
  <2>3. 0 \in T
    OBVIOUS
  <2>4. ASSUME NEW m \in 0..n - 1, m \in T PROVE m + 1 \in T
    <3>1. m \in Nat /\ m + 1 \in 1..n /\ (m + 1) - 1 = m /\ m + 1 \in 0..n
      OBVIOUS
    <3>2. f[m + 1] = IF m + 1 = 1 THEN F[m + 1] ELSE f[m] \o F[m + 1]
      BY <2>2, <3>1
    <3>3. Items(m + 1) = Items(m) \cup Range(F[m + 1])
      <4>1. \A i : i \in 1..m + 1 <=> i \in 1..m \/ i = m + 1
        BY <3>1
      <4> QED BY <4>1
    <3>4. F[m + 1] \in Seq(S) /\ IsInjective(F[m + 1])
      BY <3>1
    <3>5. CASE m = 0
      <4>1. f[m + 1] = F[m + 1]
        BY <3>2, <3>5
      <4>2. Items(m) = {}
        BY <3>5
      <4> HIDE DEF Items
      <4>3. Range(f[m + 1]) = Items(m + 1)
        BY <3>3, <4>1, <4>2
      <4>4. Good(m + 1)
        BY <3>4, <4>1, <4>3
      <4> HIDE DEF Good
      <4> QED BY <3>1, <4>4
    <3>6. CASE m # 0
      <4>1. f[m] \in Seq(S) /\ IsInjective(f[m]) /\ Range(f[m]) = Items(m)
        BY <2>4, <3>6
      <4>2. Range(f[m]) \cap Range(F[m + 1]) = {}
        <5>1. \A i \in 1..m : i \in 1..n /\ i # m + 1
          BY <3>1
        <5>2. \A i \in 1..m : Range(F[i]) \cap Range(F[m + 1]) = {}
          BY <3>1, <5>1
        <5>3. Items(m) \cap Range(F[m + 1]) = {}
          BY <5>2
        <5> HIDE DEF Items
        <5> QED BY <4>1, <5>3
      <4> HIDE DEF Items
      <4>3. f[m + 1] = f[m] \o F[m + 1]
        <5>1. m + 1 # 1
          BY <3>1, <3>6
        <5> QED BY <3>2, <5>1, Zenon
      <4>4. f[m] \o F[m + 1] \in Seq(S)
        BY <3>4, <4>1, Concatenation
      <4>5. Range(f[m] \o F[m + 1]) = Range(f[m]) \cup Range(F[m + 1]) /\ IsInjective(f[m] \o F[m + 1])
        BY <3>4, <4>1, <4>2, ConcatenationRange
      <4>6. Range(f[m + 1]) = Items(m + 1)
        BY <3>3, <4>1, <4>3, <4>5, Zenon
      <4>7. Good(m + 1)
        BY <4>3, <4>4, <4>5, <4>6, Zenon
      <4> HIDE DEF Good
      <4> QED BY <3>1, <4>7
    <3> QED BY <3>5, <3>6
  <2> HIDE DEF T
  <2>5. n \in T
    <3>1. n \in 0..n
      OBVIOUS
    <3>2. \A m \in 0..n : m \in T
      BY <2>3, <2>4, Induction, Zenon
    <3> QED BY <3>1, <3>2
  <2> QED BY <1>3, <2>1, <2>5 DEF T
<1> QED
  BY <1>2, <1>3

\* Buffers are freed that no packet has any longer
LEMMA FreedKeep ==
  ASSUME BufferAssumption, IInv, NEW freed \in Seq(Memory), IsInjective(freed),
         Range(refs) \cap Range(freed) = {},
         Owned(Range(refs) \cup Range(freed), Range(chain.bufs), packets', 1..made),
         \A p \in packets' : IsPacket(p, nextRef), refs' = refs \o freed,
         nextRef' = [b \in DOMAIN nextRef |-> IF b \in Range(freed) THEN NoRef ELSE nextRef[b]],
         UNCHANGED <<made, chain>>
  PROVE  IInv'
<1>1. refs \in Seq(Memory) /\ nextRef \in [Memory -> Ref] /\ IsInjective(refs)
  BY DEF IInv
<1>2. NoRef \in Ref
  BY DEF NoRef, None, Ref
<1>3. nextRef' \in [Memory -> Ref]
  BY <1>1, <1>2
<1>4. \A b \in Memory : b \notin Range(freed) => nextRef'[b] = nextRef[b]
  BY <1>1
<1>5. \A p \in packets' : IsPacket(p, nextRef')
  <2> DEFINE other == nextRef'
             those == packets'
  <2>1. \A b \in Memory : b \notin Range(freed) => other[b] = nextRef[b]
    BY <1>4
  <2>2. \A p \in those : IsPacket(p, nextRef) /\ Range(p.bufs) \cap Range(freed) = {}
    BY DEF Owned
  <2> HIDE DEF other, those
  <2>3. ASSUME NEW p \in those PROVE IsPacket(p, other)
    <3>1. IsPacket(p, nextRef) /\ Range(p.bufs) \cap Range(freed) = {}
      BY <2>2
    <3>2. Range(p.bufs) \subseteq Memory
      BY <3>1, ItemsOfSeq DEF IsPacket, IsChain
    <3>3. \A b \in Range(p.bufs) : other[b] = nextRef[b]
      BY <2>1, <3>1, <3>2
    <3> QED BY <3>1, <3>3, PacketKept
  <2> QED BY <2>3 DEF other, those
<1>6. ChainInv'
  <2>1. CASE chain = EmptyChain
    BY <2>1 DEF ChainInv
  <2>2. CASE chain # EmptyChain
    <3>1. IsChain(chain.head, nextRef, chain.bufs)
      BY <2>2 DEF IInv, ChainInv
    <3>2. chain.bufs \in Seq(Memory)
      BY <3>1 DEF IsChain
    <3>3. \A i \in 1..Len(chain.bufs) : chain.bufs[i] \in Range(chain.bufs) /\ chain.bufs[i] \in Memory
      BY <3>2, ItemsOfSeq
    <3>4. Range(chain.bufs) \cap Range(freed) = {}
      BY DEF Owned
    <3>5. \A i \in 1..Len(chain.bufs) : nextRef'[chain.bufs[i]] = nextRef[chain.bufs[i]]
      BY <1>4, <3>3, <3>4
    <3>6. IsChain(chain.head, nextRef', chain.bufs)
      BY <3>1, <3>5, ChainKept
    <3> QED BY <2>2, <3>6 DEF IInv, ChainInv
  <2> QED BY <2>1, <2>2
<1>7. refs' \in Seq(Memory)
  BY <1>1, Concatenation
<1>8. Range(refs') = Range(refs) \cup Range(freed) /\ IsInjective(refs')
  BY <1>1, ConcatenationRange
<1>9. Owned(Range(refs'), Range(chain'.bufs), packets', 1..made')
  BY <1>8, Zenon
<1> QED
  BY <1>3, <1>5, <1>6, <1>7, <1>8, <1>9 DEF IInv

\* What is left of a packet when its first buffer is freed alone
Remaining(p) == [ref |-> nextRef[p.ref.buffer], bufs |-> Tail(p.bufs)]

LEMMA TailOfOne ==
  ASSUME NEW S, NEW s \in Seq(S), Len(s) = 1
  PROVE  Tail(s) = <<>>
<1> DEFINE t == Tail(s)
<1>1. t \in Seq(S) /\ Len(t) = 0
  OBVIOUS
<1> HIDE DEF t
<1>2. t = <<>>
  BY <1>1
<1> QED
  BY <1>2 DEF t

LEMMA RemainingPacket ==
  ASSUME BufferAssumption, IInv, NEW p \in packets
  PROVE  /\ Tail(p.bufs) \in Seq(Memory) /\ IsInjective(Tail(p.bufs))
         /\ Range(p.bufs) = {p.bufs[1]} \cup Range(Tail(p.bufs)) /\ p.bufs[1] \notin Range(Tail(p.bufs))
         /\ Len(p.bufs) > 1 => IsPacket(Remaining(p), nextRef)
         /\ Remaining(p).bufs = Tail(p.bufs)
         /\ ~(Len(p.bufs) > 1) => Tail(p.bufs) = <<>>
<1>1. nextRef \in [Memory -> Ref] /\ IsPacket(p, nextRef)
  BY DEF IInv
<1>2. p.bufs \in Seq(Memory) /\ Len(p.bufs) \in Nat /\ Len(p.bufs) > 0
  BY <1>1, PacketFirst
<1>3. /\ Tail(p.bufs) \in Seq(Memory) /\ IsInjective(Tail(p.bufs))
      /\ Range(p.bufs) = {p.bufs[1]} \cup Range(Tail(p.bufs)) /\ p.bufs[1] \notin Range(Tail(p.bufs))
  BY <1>1, <1>2, TailItems DEF IsPacket
<1>4. Len(p.bufs) > 1 => IsPacket(Remaining(p), nextRef)
  BY <1>1, PacketTail DEF Remaining
<1>5. Remaining(p).bufs = Tail(p.bufs)
  BY DEF Remaining
<1>6. ~(Len(p.bufs) > 1) => Tail(p.bufs) = <<>>
  <2>0. \A n \in Nat : n > 0 => n = 1 \/ n > 1
    OBVIOUS
  <2>1. Len(p.bufs) = 1 \/ Len(p.bufs) > 1
    BY <1>2, <2>0, Zenon
  <2>2. Len(p.bufs) = 1 => Tail(p.bufs) = <<>>
    BY <1>2, TailOfOne
  <2> QED BY <2>1, <2>2, Zenon
<1> QED
  BY <1>3, <1>4, <1>5, <1>6, Zenon

\* The buffers of some packets, the first buffer of each, the others, and the packets they make
HeldBy(Q) == UNION {Range(p.bufs) : p \in Q}
FirstsOf(Q) == {p.bufs[1] : p \in Q}
RestsOf(Q) == UNION {Range(Tail(p.bufs)) : p \in Q}
RemainingOf(Q) == {Remaining(p) : p \in {q \in Q : Len(q.bufs) > 1}}

\* The packets of Q are freed with all their buffers
LEMMA AllFreed ==
  ASSUME NEW F, NEW C, NEW P, NEW B, Owned(F, C, P, B), NEW Q \in SUBSET P
  PROVE  F \cap HeldBy(Q) = {} /\ Owned(F \cup HeldBy(Q), C, P \ Q, B)
<1> DEFINE G == HeldBy(Q)
<1>0. G = UNION {Range(p.bufs) : p \in Q}
  BY DEF HeldBy
<1> HIDE DEF G
<1>1. F \cap G = {} /\ G \cap C = {}
  BY <1>0 DEF Owned
<1>2. UNION {Range(p.bufs) : p \in P} = G \cup UNION {Range(p.bufs) : p \in P \ Q}
  BY <1>0
<1>3. (F \cup G) \cup C \cup UNION {Range(p.bufs) : p \in P \ Q} = B
  BY <1>2 DEF Owned
<1>4. \A p \in P \ Q : Range(p.bufs) \cap G = {}
  BY <1>0 DEF Owned
<1>5. Owned(F \cup G, C, P \ Q, B)
  BY <1>1, <1>3, <1>4 DEF Owned
<1> QED
  BY <1>1, <1>5 DEF G

\* Of the packets of Q the first buffer is freed, and the others remain a packet
LEMMA FirstsFreed ==
  ASSUME NEW F, NEW C, NEW P, NEW B, Owned(F, C, P, B), NEW Q \in SUBSET P,
         \A p \in Q : /\ Range(p.bufs) = {p.bufs[1]} \cup Range(Tail(p.bufs))
                      /\ p.bufs[1] \notin Range(Tail(p.bufs))
                      /\ Remaining(p).bufs = Tail(p.bufs)
                      /\ ~(Len(p.bufs) > 1) => Tail(p.bufs) = <<>>
  PROVE  F \cap FirstsOf(Q) = {} /\ Owned(F \cup FirstsOf(Q), C, (P \ Q) \cup RemainingOf(Q), B)
<1> DEFINE first == [p \in Q |-> p.bufs[1]]
           rest == [p \in Q |-> Range(Tail(p.bufs))]
           L == [p \in Q |-> Remaining(p)]
           G == FirstsOf(Q)
           K == RemainingOf(Q)
<1>0. /\ \A p \in Q : Range(p.bufs) = {first[p]} \cup rest[p] /\ first[p] \notin rest[p]
      /\ \A c \in K : \E p \in Q : c = L[p] /\ Range(c.bufs) = rest[p]
      /\ \A p \in Q : rest[p] = {} \/ (L[p] \in K /\ Range(L[p].bufs) = rest[p])
      /\ G = {first[p] : p \in Q}
  <2>1. \A p \in Q : Range(p.bufs) = {first[p]} \cup rest[p] /\ first[p] \notin rest[p]
    OBVIOUS
  <2>2. \A c \in K : \E p \in Q : c = L[p] /\ Range(c.bufs) = rest[p]
    BY DEF RemainingOf
  <2>3. ASSUME NEW p \in Q PROVE rest[p] = {} \/ (L[p] \in K /\ Range(L[p].bufs) = rest[p])
    <3>1. Range(<<>>) = {}
      BY DEF Range
    <3>2. CASE Len(p.bufs) > 1
      BY <3>2 DEF RemainingOf
    <3>3. CASE ~(Len(p.bufs) > 1)
      BY <3>1, <3>3
    <3> QED BY <3>2, <3>3
  <2>4. G = {first[p] : p \in Q}
    BY DEF FirstsOf
  <2> QED BY <2>1, <2>2, <2>3, <2>4
<1> HIDE DEF first, rest, L, G, K
<1> DEFINE U == UNION {Range(p.bufs) : p \in (P \ Q) \cup K}
<1>1. /\ \A p \in Q : Range(p.bufs) \cap F = {} /\ Range(p.bufs) \cap C = {}
      /\ \A p \in Q, q \in P \ Q : Range(p.bufs) \cap Range(q.bufs) = {}
      /\ \A p, q \in Q : p # q => Range(p.bufs) \cap Range(q.bufs) = {}
      /\ \A p \in Q : first[p] \in Range(p.bufs) /\ rest[p] \subseteq Range(p.bufs)
  <2>1. /\ \A p \in P : Range(p.bufs) \cap F = {} /\ Range(p.bufs) \cap C = {}
        /\ \A p, q \in P : p # q => Range(p.bufs) \cap Range(q.bufs) = {}
    BY Zenon DEF Owned
  <2>2. \A p \in Q : p \in P /\ p \notin P \ Q
    OBVIOUS
  <2>3. \A p \in Q : first[p] \in Range(p.bufs) /\ rest[p] \subseteq Range(p.bufs)
    <3> SUFFICES ASSUME NEW p \in Q PROVE first[p] \in Range(p.bufs) /\ rest[p] \subseteq Range(p.bufs)
      OBVIOUS
    <3>1. Range(p.bufs) = {first[p]} \cup rest[p]
      BY <1>0, Zenon
    <3> DEFINE a == Range(p.bufs)
               b == first[p]
               c == rest[p]
    <3>2. a = {b} \cup c
      BY <3>1
    <3> HIDE DEF a, b, c
    <3>3. b \in a /\ c \subseteq a
      BY <3>2, Zenon
    <3> QED BY <3>3 DEF a, b, c
  <2>4. \A q \in P \ Q : q \in P
    OBVIOUS
  <2> QED BY <2>1, <2>2, <2>3, <2>4, Zenon
<1>2. F \cap G = {} /\ G \cap C = {}
  BY <1>0, <1>1
<1>3. \A c \in K : \E p \in Q : c = L[p] /\ Range(c.bufs) = rest[p] /\ Range(c.bufs) \subseteq Range(p.bufs)
  BY <1>0, <1>1
<1>4. (F \cup G) \cup C \cup U = B
  <2>1. U \subseteq B /\ G \subseteq B /\ F \subseteq B /\ C \subseteq B
    <3>1. \A p \in P : Range(p.bufs) \subseteq B
      BY DEF Owned
    <3>2. \A p \in (P \ Q) \cup K : Range(p.bufs) \subseteq B
      BY <1>3, <3>1
    <3>3. G \subseteq B
      BY <1>0, <1>1, <3>1
    <3> QED BY <3>2, <3>3 DEF Owned
  <2>2. ASSUME NEW b \in B PROVE b \in (F \cup G) \cup C \cup U
    <3>1. b \in F \/ b \in C \/ \E p \in P : b \in Range(p.bufs)
      BY DEF Owned
    <3>2. ASSUME NEW p \in Q, b \in Range(p.bufs) PROVE b \in G \cup U
      <4>1. b = first[p] \/ b \in rest[p]
        BY <1>0, <3>2
      <4>2. CASE b \in rest[p]
        <5>1. L[p] \in K /\ b \in Range(L[p].bufs)
          BY <1>0, <4>2
        <5> QED BY <5>1
      <4> QED BY <1>0, <4>1, <4>2
    <3>3. ASSUME NEW p \in P \ Q, b \in Range(p.bufs) PROVE b \in U
      BY <3>3
    <3> QED BY <3>1, <3>2, <3>3
  <2> QED BY <2>1, <2>2
<1>5. \A p \in (P \ Q) \cup K : Range(p.bufs) \cap (F \cup G) = {} /\ Range(p.bufs) \cap C = {}
  <2>1. ASSUME NEW p \in P \ Q
        PROVE  Range(p.bufs) \cap (F \cup G) = {} /\ Range(p.bufs) \cap C = {}
    <3> DEFINE a == Range(p.bufs)
    <3>1. a \cap F = {} /\ a \cap C = {}
      BY Zenon DEF Owned
    <3>2. ASSUME NEW g \in G PROVE g \notin a
      <4>1. PICK q \in Q : g = first[q]
        BY <1>0
      <4>2. g \in Range(q.bufs) /\ Range(q.bufs) \cap a = {}
        BY <1>1, <4>1, Zenon
      <4> HIDE DEF a
      <4> QED BY <4>2
    <3> HIDE DEF a
    <3>3. a \cap (F \cup G) = {} /\ a \cap C = {}
      BY <3>1, <3>2
    <3> QED BY <3>3 DEF a
  <2>2. ASSUME NEW c \in K PROVE Range(c.bufs) \cap (F \cup G) = {} /\ Range(c.bufs) \cap C = {}
    <3>1. PICK p \in Q : Range(c.bufs) = rest[p]
      BY <1>3
    <3>2. \A q \in Q : first[q] \notin rest[p]
      BY <1>0, <1>1
    <3> QED BY <1>0, <1>1, <3>1, <3>2
  <2> QED BY <2>1, <2>2
<1>6. \A p, q \in (P \ Q) \cup K : p # q => Range(p.bufs) \cap Range(q.bufs) = {}
  <2>1. ASSUME NEW c \in K, NEW d \in K, c # d PROVE Range(c.bufs) \cap Range(d.bufs) = {}
    <3>1. PICK p \in Q : c = L[p] /\ Range(c.bufs) \subseteq Range(p.bufs)
      BY <1>3
    <3>2. PICK q \in Q : d = L[q] /\ Range(d.bufs) \subseteq Range(q.bufs)
      BY <1>3
    <3>3. p # q
      BY <2>1, <3>1, <3>2
    <3> QED BY <1>1, <3>1, <3>2, <3>3
  <2>2. \A c \in K, q \in P \ Q : Range(c.bufs) \cap Range(q.bufs) = {}
    BY <1>1, <1>3
  <2>3. \A p, q \in P \ Q : p # q => Range(p.bufs) \cap Range(q.bufs) = {}
    BY DEF Owned
  <2> QED BY <2>1, <2>2, <2>3
<1>7. Owned(F \cup G, C, (P \ Q) \cup K, B)
  BY <1>2, <1>4, <1>5, <1>6 DEF Owned
<1> QED
  BY <1>2, <1>7 DEF G, K

\* A packet counts as one with a rest if it has one, in a batch of four or alone
LEMMA RestExact ==
  ASSUME BufferAssumption, IInv, NEW n \in Nat, NEW ps \in [1..n -> packets],
         NEW src, src = [i \in DOMAIN ps |-> ps[i].ref], NEW i \in 1..n
  PROVE  Rest(src, i) = Tail(ps[i].bufs) /\ src[i].buffer = ps[i].bufs[1]
<1> DEFINE p == ps[i]
<1>1. src = [j \in 1..n |-> ps[j].ref] /\ src[i] = p.ref /\ Len(src) = n
  OBVIOUS
<1>2. p \in packets
  OBVIOUS
<1> HIDE DEF p
<1>3. IsPacket(p, nextRef) /\ nextRef \in [Memory -> Ref]
  BY <1>2 DEF IInv
<1>4. p.ref.buffer = p.bufs[1] /\ p.bufs[1] \in Memory /\ (p.ref.nextValid <=> Len(p.bufs) > 1)
  BY <1>3, PacketFirst
<1>5. ASSUME p.ref.nextValid PROVE SlowPath(src, i)
  <2> DEFINE first == ((i - 1) \div 4) * 4 + 1
  <2>1. i - 1 \in Nat
    OBVIOUS
  <2>2. i \in first..first + 3 /\ src[i].nextValid
    BY <1>1, <1>5, <2>1
  <2> HIDE DEF first
  <2>3. \E j \in first..first + 3 : src[j].nextValid
    BY <2>2
  <2> QED BY <2>2, <2>3, Zenon DEF SlowPath, first
<1>6. CASE Len(p.bufs) > 1
  <2> DEFINE t == Tail(p.bufs)
             r == nextRef[p.ref.buffer]
  <2>1. IsPacket(Remaining(p), nextRef)
    BY <1>2, <1>6, RemainingPacket
  <2>2. Remaining(p).ref = r /\ Remaining(p).bufs = t
    BY DEF Remaining
  <2>3. IsChain(r, nextRef, t) /\ r \in Ref
    BY <2>1, <2>2 DEF IsPacket
  <2> HIDE DEF t
  <2>4. Follow(r, nextRef) = t
    BY <1>3, <2>3, FollowExact
  <2>5. Rest(src, i) = Follow(r, nextRef)
    BY <1>1, <1>4, <1>5, <1>6 DEF Rest
  <2> QED BY <1>1, <1>4, <2>4, <2>5 DEF t, p
<1>7. CASE ~(Len(p.bufs) > 1)
  <2>1. Tail(p.bufs) = <<>>
    BY <1>2, <1>7, RemainingPacket
  <2>2. Rest(src, i) = <<>>
    BY <1>1, <1>4, <1>7 DEF Rest
  <2> QED BY <1>1, <1>4, <2>1, <2>2 DEF p
<1> QED
  BY <1>6, <1>7

\* The first buffers of several packets, and the others
Firsts(ps, n) == [i \in 1..n |-> ps[i].bufs[1]]
Rests(ps, n) == FlattenSeq([i \in 1..n |-> Tail(ps[i].bufs)])

LEMMA Batch ==
  ASSUME BufferAssumption, IInv, NEW n \in Nat, NEW ps \in [1..n -> packets], IsInjective(ps),
         NEW firsts, firsts = Firsts(ps, n), NEW rests, rests = Rests(ps, n)
  PROVE  /\ firsts \in Seq(Memory) /\ IsInjective(firsts) /\ Range(firsts) = FirstsOf(Range(ps))
         /\ rests \in Seq(Memory) /\ IsInjective(rests) /\ Range(rests) = RestsOf(Range(ps))
         /\ Range(firsts) \cap Range(rests) = {}
<1>0. /\ firsts = [i \in 1..n |-> ps[i].bufs[1]]
      /\ rests = FlattenSeq([i \in 1..n |-> Tail(ps[i].bufs)])
  BY DEF Firsts, Rests
<1> DEFINE first(i) == ps[i].bufs[1]
           rest(i) == Tail(ps[i].bufs)
           F == [i \in 1..n |-> rest(i)]
<1>1. \A i \in 1..n : ps[i] \in packets
  OBVIOUS
<1>2. \A i \in 1..n : /\ rest(i) \in Seq(Memory) /\ IsInjective(rest(i))
                      /\ Range(ps[i].bufs) = {first(i)} \cup Range(rest(i))
                      /\ first(i) \notin Range(rest(i)) /\ first(i) \in Memory
  <2> SUFFICES ASSUME NEW i \in 1..n
               PROVE  /\ rest(i) \in Seq(Memory) /\ IsInjective(rest(i))
                      /\ Range(ps[i].bufs) = {first(i)} \cup Range(rest(i))
                      /\ first(i) \notin Range(rest(i)) /\ first(i) \in Memory
    OBVIOUS
  <2> DEFINE p == ps[i]
  <2>1. p \in packets
    OBVIOUS
  <2> HIDE DEF p
  <2>2. IsPacket(p, nextRef)
    BY <2>1 DEF IInv
  <2>3. p.bufs[1] \in Memory
    BY <2>2, PacketFirst
  <2> QED BY <2>1, <2>3, RemainingPacket, Zenon DEF p
<1>3. \A i, j \in 1..n : i # j => ps[i] # ps[j]
  BY DEF IsInjective
<1>4. \A i, j \in 1..n : i # j => Range(ps[i].bufs) \cap Range(ps[j].bufs) = {}
  BY <1>1, <1>3 DEF IInv, Owned
<1>5. \A i, j \in 1..n : i # j => /\ first(i) # first(j) /\ first(i) \notin Range(rest(j))
                                  /\ Range(rest(i)) \cap Range(rest(j)) = {}
  BY <1>2, <1>4
<1>6. Range(ps) = {ps[i] : i \in 1..n}
  BY DEF Range
<1>7. DOMAIN firsts = 1..n /\ \A i \in 1..n : firsts[i] = first(i)
  BY <1>0
<1>8. /\ firsts \in Seq(Memory) /\ IsInjective(firsts)
      /\ Range(firsts) = FirstsOf(Range(ps))
  <2>1. firsts \in [1..n -> Memory]
    BY <1>0, <1>2
  <2>2. firsts \in Seq(Memory)
    BY <2>1
  <2>3. IsInjective(firsts)
    BY <1>5, <1>7 DEF IsInjective
  <2>4. Range(firsts) = {first(i) : i \in 1..n}
    BY <1>7 DEF Range
  <2>5. {first(i) : i \in 1..n} = FirstsOf(Range(ps))
    BY <1>6 DEF FirstsOf
  <2> QED BY <2>2, <2>3, <2>4, <2>5
<1>9. /\ rests \in Seq(Memory) /\ IsInjective(rests)
      /\ Range(rests) = UNION {Range(F[i]) : i \in 1..n}
  <2>1. /\ F \in [1..n -> Seq(Memory)]
        /\ \A i \in 1..n : F[i] = rest(i)
        /\ rests = FlattenSeq(F)
    BY <1>0, <1>2
  <2>2. /\ \A i \in 1..n : IsInjective(F[i])
        /\ \A i, j \in 1..n : i # j => Range(F[i]) \cap Range(F[j]) = {}
    BY <1>2, <1>5, <2>1
  <2> HIDE DEF F
  <2>3. F \in [1..n -> Seq(Memory)] /\ n \in Nat
    BY <2>1
  <2>4. /\ FlattenSeq(F) \in Seq(Memory) /\ IsInjective(FlattenSeq(F))
        /\ Range(FlattenSeq(F)) = UNION {Range(F[i]) : i \in 1..n}
    BY <2>2, <2>3, FlattenItems, Zenon
  <2> QED BY <2>1, <2>4, Zenon
<1>10. UNION {Range(F[i]) : i \in 1..n} = RestsOf(Range(ps))
  BY <1>6 DEF RestsOf
<1>11. Range(firsts) \cap UNION {Range(F[i]) : i \in 1..n} = {}
  <2>1. \A i, j \in 1..n : first(i) \notin Range(rest(j))
    BY <1>2, <1>5
  <2>2. Range(firsts) = {first(i) : i \in 1..n}
    BY <1>7 DEF Range
  <2> QED BY <2>1, <2>2
<1> QED
  BY <1>8, <1>9, <1>10, <1>11, Zenon

LEMMA FreeKeeps ==
  ASSUME BufferAssumption, IInv, NEW S \in SUBSET packets, NEW ps \in Arrangements(S),
         NEW freeNext \in BOOLEAN, FreeRefs(ps, freeNext)
  PROVE  IInv'
<1> DEFINE n == Cardinality(S)
           src == [i \in DOMAIN ps |-> ps[i].ref]
           heads == [i \in DOMAIN src |-> src[i].buffer]
           others == FlattenSeq([i \in DOMAIN src |-> Rest(src, i)])
           firsts == Firsts(ps, n)
           rests == Rests(ps, n)
           freed == heads \o (IF freeNext THEN others ELSE <<>>)
           kept == {[ref |-> nextRef[p.ref.buffer], bufs |-> Tail(p.bufs)] :
                      p \in {q \in Range(ps) : ~freeNext /\ Len(q.bufs) > 1}}
           Q == Range(ps)
           M == 1..made
           F == Range(refs)
           C == Range(chain.bufs)
<1>1. IsFiniteSet(S)
  BY PacketsFinite, FS_Subset
<1>2. n \in Nat
  BY <1>1, FS_CardinalityType
<1>3. ps \in [1..n -> S] /\ IsInjective(ps)
  BY DEF Arrangements
<1>4. /\ refs' = refs \o freed
      /\ nextRef' = [b \in DOMAIN nextRef |-> IF b \in Range(freed) THEN NoRef ELSE nextRef[b]]
      /\ packets' = (packets \ Q) \cup kept
      /\ UNCHANGED <<made, chain>>
  BY DEF FreeRefs
<1> HIDE DEF n
<1>5. ps \in [1..n -> packets] /\ DOMAIN src = 1..n /\ Q \in SUBSET packets
  BY <1>3 DEF Range
<1>6. \A i \in 1..n : Rest(src, i) = Tail(ps[i].bufs) /\ src[i].buffer = ps[i].bufs[1]
  <2> HIDE DEF src
  <2>1. src = [i \in DOMAIN ps |-> ps[i].ref]
    BY DEF src
  <2> QED BY <1>2, <1>5, <2>1, RestExact
<1>7. heads = firsts /\ others = rests
  <2> HIDE DEF src
  <2>1. heads = firsts
    BY <1>5, <1>6 DEF Firsts
  <2>2. [i \in DOMAIN src |-> Rest(src, i)] = [i \in 1..n |-> Tail(ps[i].bufs)]
    BY <1>5, <1>6
  <2> QED BY <2>1, <2>2, Zenon DEF Rests
<1>8. /\ firsts \in Seq(Memory) /\ IsInjective(firsts) /\ Range(firsts) = FirstsOf(Q)
      /\ rests \in Seq(Memory) /\ IsInjective(rests) /\ Range(rests) = RestsOf(Q)
      /\ Range(firsts) \cap Range(rests) = {}
  BY <1>2, <1>3, <1>5, Batch, Zenon
<1> HIDE DEF src, heads, others, firsts, rests, Q
<1>9. \A p \in packets : /\ Range(p.bufs) = {p.bufs[1]} \cup Range(Tail(p.bufs))
                         /\ p.bufs[1] \notin Range(Tail(p.bufs))
                         /\ Len(p.bufs) > 1 => IsPacket(Remaining(p), nextRef)
                         /\ Remaining(p).bufs = Tail(p.bufs)
                         /\ ~(Len(p.bufs) > 1) => Tail(p.bufs) = <<>>
  BY RemainingPacket
<1>10. Owned(F, C, packets, M) /\ \A p \in packets : IsPacket(p, nextRef)
  BY DEF IInv
<1> HIDE DEF F, C, M
<1>11. CASE freeNext
  <2> DEFINE all == firsts \o rests
  <2>1. freed = all /\ kept = {}
    BY <1>7, <1>11
  <2>2. all \in Seq(Memory) /\ IsInjective(all) /\ Range(all) = Range(firsts) \cup Range(rests)
    BY <1>8, Concatenation, ConcatenationRange
  <2> HIDE DEF all, freed, kept
  <2>3. Range(all) = HeldBy(Q)
    <3>1. \A p \in Q : Range(p.bufs) = {p.bufs[1]} \cup Range(Tail(p.bufs))
      BY <1>5, <1>9
    <3>2. HeldBy(Q) = FirstsOf(Q) \cup RestsOf(Q)
      BY <3>1 DEF HeldBy, FirstsOf, RestsOf
    <3> QED BY <1>8, <2>2, <3>2, Zenon
  <2>4. F \cap HeldBy(Q) = {} /\ Owned(F \cup HeldBy(Q), C, packets \ Q, M)
    BY <1>5, <1>10, AllFreed, Zenon
  <2>5. packets' = packets \ Q
    BY <1>4, <2>1
  <2>6. /\ F \cap Range(all) = {} /\ Owned(F \cup Range(all), C, packets', M)
        /\ \A p \in packets' : IsPacket(p, nextRef)
    <3>1. \A p \in packets' : p \in packets
      BY <2>5
    <3> QED BY <1>10, <2>3, <2>4, <2>5, <3>1, Zenon
  <2>7. /\ refs' = refs \o all
        /\ nextRef' = [b \in DOMAIN nextRef |-> IF b \in Range(all) THEN NoRef ELSE nextRef[b]]
    BY <1>4, <2>1, Zenon
  <2> QED BY <1>4, <2>2, <2>6, <2>7, FreedKeep, Zenon DEF F, C, M
<1>12. CASE ~freeNext
  <2> DEFINE K == RemainingOf(Q)
             G == Range(firsts)
  <2>1. freed = firsts
    <3>1. firsts \o <<>> = firsts
      BY <1>8
    <3> QED BY <1>7, <1>12, <3>1
  <2>2. kept = K
    BY <1>12 DEF Q, Remaining, RemainingOf
  <2> HIDE DEF freed, kept
  <2>4. \A c \in K : IsPacket(c, nextRef)
    BY <1>5, <1>9 DEF RemainingOf
  <2>5. \A p \in Q : /\ Range(p.bufs) = {p.bufs[1]} \cup Range(Tail(p.bufs))
                     /\ p.bufs[1] \notin Range(Tail(p.bufs))
                     /\ Remaining(p).bufs = Tail(p.bufs)
                     /\ ~(Len(p.bufs) > 1) => Tail(p.bufs) = <<>>
    <3>1. \A p \in Q : p \in packets
      BY <1>5
    <3> QED BY <1>9, <3>1, Zenon
  <2>7. F \cap G = {} /\ Owned(F \cup G, C, (packets \ Q) \cup K, M)
    BY <1>5, <1>8, <1>10, <2>5, FirstsFreed, Zenon
  <2>8. packets' = (packets \ Q) \cup K
    BY <1>4, <2>2, Zenon
  <2> HIDE DEF K
  <2>9. \A p \in packets' : IsPacket(p, nextRef)
    BY <1>10, <2>4, <2>8
  <2>10. Owned(F \cup G, C, packets', M)
    BY <2>7, <2>8, Zenon
  <2>11. /\ refs' = refs \o firsts
         /\ nextRef' = [b \in DOMAIN nextRef |-> IF b \in Range(firsts) THEN NoRef ELSE nextRef[b]]
    BY <1>4, <2>1, Zenon
  <2> QED BY <1>4, <1>8, <2>7, <2>9, <2>10, <2>11, FreedKeep, Zenon DEF F, C, M
<1> QED
  BY <1>11, <1>12

-----------------------------------------------------------------------------
(* Chains *)

\* The headers of the buffers in a set X change, and the chain has none of them
LEMMA ChainUntouched ==
  ASSUME IInv, NEW X, \A b \in Memory : b \notin X => nextRef'[b] = nextRef[b],
         Range(chain.bufs) \cap X = {}, UNCHANGED chain
  PROVE  ChainInv'
<1> DEFINE other == nextRef'
<1>1. \A b \in Memory : b \notin X => other[b] = nextRef[b]
  OBVIOUS
<1> HIDE DEF other
<1>2. CASE chain = EmptyChain
  BY <1>2 DEF ChainInv
<1>3. CASE chain # EmptyChain
  <2>1. IsChain(chain.head, nextRef, chain.bufs)
    BY <1>3 DEF IInv, ChainInv
  <2>2. chain.bufs \in Seq(Memory)
    BY <2>1 DEF IsChain
  <2>3. \A i \in 1..Len(chain.bufs) : chain.bufs[i] \in Range(chain.bufs) /\ chain.bufs[i] \in Memory
    BY <2>2, ItemsOfSeq
  <2>4. \A i \in 1..Len(chain.bufs) : other[chain.bufs[i]] = nextRef[chain.bufs[i]]
    BY <1>1, <2>3
  <2>5. IsChain(chain.head, other, chain.bufs)
    BY <2>1, <2>4, ChainKept
  <2>6. IsChain(chain.head, nextRef', chain.bufs)
    BY <2>5 DEF other
  <2> QED BY <1>3, <2>6 DEF IInv, ChainInv
<1> QED
  BY <1>2, <1>3

\* So do the packets that have none of them
LEMMA PacketsUntouched ==
  ASSUME IInv, NEW X, NEW other, \A b \in Memory : b \notin X => other[b] = nextRef[b],
         NEW p \in packets, Range(p.bufs) \cap X = {}
  PROVE  IsPacket(p, other)
<1>1. IsPacket(p, nextRef)
  BY DEF IInv
<1>2. Range(p.bufs) \subseteq Memory
  BY <1>1, ItemsOfSeq DEF IsPacket, IsChain
<1>3. \A b \in Range(p.bufs) : other[b] = nextRef[b]
  BY <1>2
<1> QED
  BY <1>1, <1>3, PacketKept

LEMMA TwoJoined ==
  ASSUME NEW F, NEW C, NEW P, NEW B, Owned(F, C, P, B), NEW p \in P, NEW c \in P, p # c,
         NEW j, Range(j.bufs) = Range(p.bufs) \cup Range(c.bufs)
  PROVE  Owned(F, C, (P \ {p, c}) \cup {j}, B)
<1> DEFINE Q == P \ {p, c}
<1>1. UNION {Range(q.bufs) : q \in P} = Range(j.bufs) \cup UNION {Range(q.bufs) : q \in Q}
  OBVIOUS
<1>2. UNION {Range(q.bufs) : q \in Q \cup {j}} = Range(j.bufs) \cup UNION {Range(q.bufs) : q \in Q}
  OBVIOUS
<1>3. F \cup C \cup UNION {Range(q.bufs) : q \in Q \cup {j}} = B
  BY <1>1, <1>2 DEF Owned
<1>4. \A q \in Q \cup {j} : Range(q.bufs) \cap F = {} /\ Range(q.bufs) \cap C = {}
  BY DEF Owned
<1>5. \A q \in Q : Range(q.bufs) \cap Range(j.bufs) = {}
  BY DEF Owned
<1>6. \A x, y \in Q \cup {j} : x # y => Range(x.bufs) \cap Range(y.bufs) = {}
  BY <1>5 DEF Owned
<1> QED
  BY <1>3, <1>4, <1>6 DEF Owned

LEMMA LinkKeeps ==
  ASSUME BufferAssumption, IInv, NEW p \in packets, NEW c \in packets, LinkRefs(p, c)
  PROVE  IInv'
<1> DEFINE s == p.bufs
           t == c.bufs
           n == Len(s)
           X == Range(s)
           linked == [nextRef EXCEPT ![s[n]] = c.ref]
           other == IF n = 1 THEN linked ELSE [linked EXCEPT ![s[n - 1]].nextValid = TRUE]
           first == [p.ref EXCEPT !.nextValid = TRUE]
           joined == [ref |-> first, bufs |-> s \o t]
<1>1. /\ p # c /\ nextRef' = other /\ packets' = (packets \ {p, c}) \cup {joined}
      /\ UNCHANGED <<refs, made, chain>>
  BY DEF LinkRefs
<1>2. /\ IsPacket(p, nextRef) /\ IsPacket(c, nextRef) /\ nextRef \in [Memory -> Ref]
      /\ Range(s) \cap Range(t) = {} /\ Range(chain.bufs) \cap X = {}
      /\ \A q \in packets \ {p, c} : Range(q.bufs) \cap X = {}
      /\ Owned(Range(refs), Range(chain.bufs), packets, 1..made)
  BY <1>1 DEF IInv, Owned
<1>3. /\ s \in Seq(Memory) /\ t \in Seq(Memory) /\ n \in Nat /\ n > 0
      /\ IsChain(p.ref, nextRef, s) /\ IsChain(c.ref, nextRef, t)
      /\ IsInjective(s) /\ IsInjective(t) /\ p.ref \in Ref /\ c.ref \in Ref
  BY <1>2, PacketFirst DEF IsPacket
<1> HIDE DEF s, t
<1>4. /\ s \o t \in Seq(Memory) /\ Len(s \o t) = n + Len(t)
      /\ IsInjective(s \o t) /\ Range(s \o t) = Range(s) \cup Range(t)
  BY <1>2, <1>3, Concatenation, ConcatenationRange
<1>5. n + Len(t) <= MaxBuffers
  BY <1>4, InjectiveLength
<1>6. /\ \A i \in 1..n : s[i] \in X /\ s[i] \in Memory
      /\ \A i, j \in 1..n : s[i] = s[j] => i = j
  BY <1>3, ItemsOfSeq, InjectiveSeq
<1>7. s[n] \in X /\ s[n] \in Memory
  BY <1>3, <1>6
<1>8. linked \in [Memory -> Ref] /\ linked[s[n]] = c.ref /\ \A b \in Memory : b # s[n] => linked[b] = nextRef[b]
  BY <1>2, <1>3, <1>7
<1> HIDE DEF linked
<1>9. /\ other \in [Memory -> Ref] /\ other[s[n]] = c.ref
      /\ n > 1 => /\ other[s[n - 1]].buffer = nextRef[s[n - 1]].buffer
                  /\ other[s[n - 1]].nextValid = TRUE
      /\ \A b \in Memory : b # s[n] /\ (n > 1 => b # s[n - 1]) => other[b] = nextRef[b]
      /\ \A b \in Memory : b \notin X => other[b] = nextRef[b]
  <2>1. CASE n = 1
    BY <1>7, <1>8, <2>1
  <2>2. CASE n # 1
    <3> DEFINE b1 == s[n - 1]
    <3>0. \A m \in Nat : m > 0 /\ m # 1 => m - 1 \in 1..m /\ m \in 1..m /\ m - 1 # m /\ m > 1
      OBVIOUS
    <3>1. n - 1 \in 1..n /\ n \in 1..n /\ n - 1 # n /\ n > 1
      BY <1>3, <2>2, <3>0, Zenon
    <3>2. b1 \in Memory /\ b1 \in X /\ b1 # s[n]
      BY <1>6, <3>1
    <3>3. linked[b1] = nextRef[b1] /\ linked[b1] \in Ref
      BY <1>8, <3>2
    <3>4. other = [linked EXCEPT ![b1].nextValid = TRUE]
      BY <2>2
    <3> HIDE DEF b1, other
    <3>5. other[b1] = [linked[b1] EXCEPT !.nextValid = TRUE] /\ \A b \in Memory : b # b1 => other[b] = linked[b]
      BY <1>8, <3>2, <3>4
    <3>6. other[b1] \in Ref /\ other[b1].nextValid = TRUE /\ other[b1].buffer = nextRef[b1].buffer
      BY <3>3, <3>5 DEF Ref
    <3>7. other \in [Memory -> Ref]
      BY <1>8, <3>4, <3>5, <3>6
    <3>8. other[s[n]] = c.ref
      BY <1>7, <1>8, <3>2, <3>5
    <3>9. \A b \in Memory : b # s[n] /\ b # b1 => other[b] = nextRef[b]
      BY <1>8, <3>5
    <3>10. n > 1
      BY <3>1, Zenon
    <3>11. \A b \in Memory : b \notin X => other[b] = nextRef[b]
      BY <1>7, <3>2, <3>9
    <3> QED BY <3>6, <3>7, <3>8, <3>9, <3>10, <3>11, Zenon DEF b1
  <2> QED BY <2>1, <2>2
<1>10. first \in Ref /\ first.buffer = p.ref.buffer /\ first.nextValid = TRUE
  BY <1>3 DEF Ref
<1> HIDE DEF other, first
<1>11. IsChain(first, other, s \o t)
  BY <1>2, <1>3, <1>5, <1>9, <1>10, ChainsLinked
<1>12. IsPacket(joined, other)
  BY <1>4, <1>10, <1>11 DEF IsPacket
<1>13. Range(joined.bufs) = Range(p.bufs) \cup Range(c.bufs)
  BY <1>4 DEF s, t
<1> HIDE DEF joined
<1>14. \A q \in packets' : IsPacket(q, other)
  <2> SUFFICES ASSUME NEW q \in packets \ {p, c} PROVE IsPacket(q, other)
    BY <1>1, <1>12
  <2> QED BY <1>2, <1>9, PacketsUntouched
<1>15. ChainInv'
  <2>1. \A b \in Memory : b \notin X => nextRef'[b] = nextRef[b]
    BY <1>1, <1>9, Zenon
  <2> QED BY <1>1, <1>2, <2>1, ChainUntouched
<1>16. Owned(Range(refs), Range(chain.bufs), packets', 1..made)
  <2> DEFINE F == Range(refs)
             C == Range(chain.bufs)
             M == 1..made
  <2>1. Owned(F, C, packets, M)
    BY <1>2
  <2> HIDE DEF F, C, M
  <2>2. Owned(F, C, (packets \ {p, c}) \cup {joined}, M)
    BY <1>1, <1>13, <2>1, TwoJoined
  <2> QED BY <1>1, <2>2, Zenon DEF F, C, M
<1>17. Owned(Range(refs'), Range(chain'.bufs), packets', 1..made')
  BY <1>1, <1>16, Zenon
<1>18. nextRef' \in [Memory -> Ref] /\ \A q \in packets' : IsPacket(q, nextRef')
  BY <1>1, <1>9, <1>14, Zenon
<1> QED
  BY <1>1, <1>15, <1>17, <1>18 DEF IInv

LEMMA AppendKeeps ==
  ASSUME BufferAssumption, ~AppendChains, IInv, NEW p \in packets, Append1(p)
  PROVE  IInv'
<1> DEFINE s == chain.bufs
           m == Len(s)
           t == p.bufs
           linked == Link(chain, p.ref)
           other == linked.next
           X == Range(s)
           added == Follow(p.ref, other)
           new == [len |-> chain.len + Len(added), head |-> linked.head, tail |-> added[Len(added)],
                   prevTail |-> IF chain.len = 0 THEN Head0 ELSE chain.tail, bufs |-> s \o t]
<1>1. /\ Len(t) = 1 /\ nextRef' = other /\ chain' = new /\ packets' = packets \ {p}
      /\ UNCHANGED <<refs, made>>
  BY DEF Append1
<1>2. /\ IsPacket(p, nextRef) /\ nextRef \in [Memory -> Ref] /\ made \in 0..MaxBuffers
      /\ Owned(Range(refs), Range(chain.bufs), packets, 1..made)
      /\ \A q \in packets : Range(q.bufs) \cap X = {}
  BY DEF IInv, Owned
<1>3. t \in Seq(Memory) /\ IsChain(p.ref, nextRef, t) /\ IsInjective(t) /\ p.ref \in Ref
  BY <1>2, PacketFirst DEF IsPacket
<1>4. other = [b \in Memory |->
                 IF b = (IF chain.len = 0 THEN Head0 ELSE chain.tail) THEN p.ref
                 ELSE IF chain.len > 0 /\ b = chain.prevTail THEN [nextRef[b] EXCEPT !.nextValid = TRUE]
                 ELSE nextRef[b]]
  BY <1>2 DEF Link
<1>5. linked.head = IF chain.len = 0 \/ chain.tail = Head0 THEN p.ref
                    ELSE IF chain.len > 0 /\ chain.prevTail = Head0
                    THEN [chain.head EXCEPT !.nextValid = TRUE] ELSE chain.head
  BY DEF Link
<1> DEFINE Grows == /\ s \o t \in Seq(Memory) /\ other \in [Memory -> Ref] /\ linked.head \in Ref
                    /\ \A b \in Memory : b \notin X => other[b] = nextRef[b]
                    /\ IsChain(linked.head, other, s \o t) /\ IsInjective(s \o t)
                    /\ Range(s \o t) = X \cup Range(t)
                    /\ chain.len = m /\ (m # 0 => chain.tail = s[m])
                    /\ m \in Nat /\ Len(s \o t) = m + 1
                    /\ (s \o t)[m + 1] = t[1] /\ (m # 0 => (s \o t)[m] = s[m])
<1> HIDE DEF linked, other, t
<1>6. ASSUME chain = EmptyChain PROVE Grows
  <2>1. s = <<>> /\ m = 0 /\ chain.len = 0 /\ X = {}
    BY <1>6 DEF EmptyChain, Range
  <2>2. \A b \in Memory : b # Head0
    BY DEF Memory, Head0
  <2>3. other = nextRef /\ linked.head = p.ref
    <3>1. other = [b \in Memory |-> nextRef[b]]
      BY <1>4, <2>1, <2>2
    <3> QED BY <1>2, <1>5, <2>1, <3>1
  <2>4. s \o t = t
    BY <1>3, <2>1
  <2>5. Grows
    <3>1. X \cup Range(t) = Range(t)
      BY <2>1
    <3>2. 0 + 1 = 1 /\ 0 \in Nat
      OBVIOUS
    <3> HIDE DEF s, X
    <3> QED BY <1>1, <1>2, <1>3, <2>1, <2>3, <2>4, <3>1, <3>2, Zenon
  <2> QED BY <2>5
<1>7. ASSUME chain # EmptyChain PROVE Grows
  <2>1. /\ chain.len = m /\ chain.tail = s[m]
        /\ chain.prevTail = IF m = 1 THEN Head0 ELSE s[m - 1]
        /\ chain.head \in Ref /\ IsChain(chain.head, nextRef, s) /\ IsInjective(s)
    BY <1>7 DEF IInv, ChainInv
  <2>2. s \in Seq(Memory) /\ m \in Nat /\ m > 0
    BY <2>1 DEF IsChain
  <2>3. /\ \A i \in 1..m : s[i] \in X /\ s[i] \in Memory
        /\ \A i, j \in 1..m : s[i] = s[j] => i = j
    BY <2>1, <2>2, ItemsOfSeq, InjectiveSeq
  <2>4. X \cap Range(t) = {}
    BY <1>2 DEF t
  <2> DEFINE b0 == s[m]
             b1 == s[m - 1]
  <2>5. /\ b0 \in X /\ b0 \in Memory /\ b0 # Head0
        /\ m # 1 => b1 \in X /\ b1 \in Memory /\ b1 # b0 /\ b1 # Head0
    <3>0. \A n \in Nat : n > 0 => n \in 1..n /\ (n # 1 => n - 1 \in 1..n /\ n - 1 # n)
      OBVIOUS
    <3>1. m \in 1..m /\ (m # 1 => m - 1 \in 1..m /\ m - 1 # m)
      BY <2>2, <3>0, Zenon
    <3>2. Head0 \notin Memory
      BY DEF Memory, Head0
    <3> HIDE DEF s, m, X
    <3> QED BY <2>3, <3>1, <3>2, Zenon
  <2> HIDE DEF s, m, X, b0, b1
  <2>6. other = [b \in Memory |->
                   IF b = b0 THEN p.ref
                   ELSE IF m # 1 /\ b = b1 THEN [nextRef[b] EXCEPT !.nextValid = TRUE]
                   ELSE nextRef[b]]
    <3>1. chain.len > 0 /\ chain.len # 0 /\ chain.tail = b0
      BY <2>1, <2>2 DEF b0
    <3>2. \A b \in Memory : b = chain.prevTail <=> m # 1 /\ b = b1
      BY <2>1 DEF b1, Memory, Head0
    <3> QED BY <1>4, <3>1, <3>2
  <2>7. linked.head = IF m = 1 THEN [chain.head EXCEPT !.nextValid = TRUE] ELSE chain.head
    BY <1>5, <2>1, <2>2, <2>5 DEF b0, b1
  <2>8. linked.head \in Ref /\ linked.head.buffer = chain.head.buffer /\ linked.head.nextValid = TRUE
    <3>1. CASE m = 1
      BY <2>1, <2>7, <3>1 DEF Ref
    <3>2. CASE m # 1
      <4>0. \A n \in Nat : n > 0 /\ n # 1 => 1 < n /\ 1 \in 1..n
        OBVIOUS
      <4>1. 1 < m /\ 1 \in 1..m
        BY <2>2, <3>2, <4>0, Zenon
      <4>2. chain.head.nextValid
        BY <2>1, <4>1 DEF IsChain, RefAt, m
      <4> QED BY <2>1, <2>7, <3>2, <4>2 DEF Ref
    <3> QED BY <3>1, <3>2
  <2>9. /\ other \in [Memory -> Ref] /\ other[b0] = p.ref
        /\ m # 1 => other[b1].buffer = nextRef[b1].buffer /\ other[b1].nextValid = TRUE
        /\ \A b \in Memory : b # b0 /\ (m # 1 => b # b1) => other[b] = nextRef[b]
    <3>1. \A b \in Memory : nextRef[b] \in Ref
      BY <1>2
    <3>2. \A r \in Ref : LET u == [r EXCEPT !.nextValid = TRUE]
                         IN  u \in Ref /\ u.buffer = r.buffer /\ u.nextValid = TRUE
      BY DEF Ref
    <3>3. \A b \in Memory : b # b0 /\ (m # 1 => b # b1) => other[b] = nextRef[b]
      BY <2>6
    <3>4. other[b0] = p.ref
      BY <2>5, <2>6
    <3>5. ASSUME m # 1 PROVE other[b1].buffer = nextRef[b1].buffer /\ other[b1].nextValid = TRUE
      <4>1. other[b1] = [nextRef[b1] EXCEPT !.nextValid = TRUE]
        BY <2>5, <2>6, <3>5
      <4> QED BY <2>5, <3>1, <3>2, <3>5, <4>1
    <3>6. other \in [Memory -> Ref]
      <4>1. ASSUME NEW b \in Memory
            PROVE  (IF b = b0 THEN p.ref
                    ELSE IF m # 1 /\ b = b1 THEN [nextRef[b] EXCEPT !.nextValid = TRUE]
                    ELSE nextRef[b]) \in Ref
        BY <1>3, <3>1, <3>2
      <4> QED BY <2>6, <4>1
    <3> QED BY <3>3, <3>4, <3>5, <3>6
  <2>10. /\ s \o t \in Seq(Memory) /\ IsInjective(s \o t) /\ Range(s \o t) = X \cup Range(t)
    BY <1>3, <2>1, <2>2, <2>4, Concatenation, ConcatenationRange DEF X
  <2>11. /\ Len(s \o t) = m + 1 /\ (s \o t)[m + 1] = t[1] /\ (s \o t)[m] = s[m]
    <3>1. /\ Len(s \o t) = Len(s) + Len(t)
          /\ \A i \in 1..Len(s) : (s \o t)[i] = s[i]
          /\ \A i \in 1..Len(t) : (s \o t)[Len(s) + i] = t[i]
      BY <1>3, <2>2, Concatenation
    <3>2. \A n \in Nat : n > 0 => n \in 1..n
      OBVIOUS
    <3>3. m \in 1..m /\ 1 \in 1..1
      BY <2>2, <3>2
    <3> QED BY <1>1, <3>1, <3>3, Zenon DEF m, t
  <2>12. m + Len(t) <= MaxBuffers
    <3>1. Len(s \o t) <= MaxBuffers
      BY <2>10, InjectiveLength
    <3> QED BY <1>1, <2>11, <3>1 DEF t
  <2>13. IsChain(linked.head, other, s \o t)
    <3> DEFINE h == linked.head
    <3>1. h.buffer = chain.head.buffer /\ h.nextValid = TRUE
      BY <2>8
    <3> HIDE DEF h
    <3>2. Range(s) \cap Range(t) = {} /\ Len(s) + Len(t) <= MaxBuffers
      BY <2>4, <2>12 DEF X, m
    <3>3. other[s[Len(s)]] = p.ref
      BY <2>9 DEF b0, m
    <3>4. \A n \in Nat : n > 0 => (n > 1 <=> n # 1)
      OBVIOUS
    <3>5. m > 1 <=> m # 1
      BY <2>2, <3>4, Zenon
    <3>6. /\ Len(s) > 1 => /\ other[s[Len(s) - 1]].buffer = nextRef[s[Len(s) - 1]].buffer
                           /\ other[s[Len(s) - 1]].nextValid = TRUE
          /\ \A b \in Memory : b # s[Len(s)] /\ (Len(s) > 1 => b # s[Len(s) - 1]) => other[b] = nextRef[b]
      BY <2>9, <3>5, Zenon DEF b0, b1, m
    <3>7. IsChain(h, other, s \o t)
      <4> DEFINE r == chain.head
                 q == p.ref
                 next == nextRef
      <4>1. /\ IsChain(r, next, s) /\ IsInjective(s) /\ IsChain(q, next, t)
            /\ h.buffer = r.buffer /\ h.nextValid = TRUE /\ other[s[Len(s)]] = q
        BY <1>3, <2>1, <3>1, <3>3, Zenon
      <4>2. /\ Len(s) > 1 => /\ other[s[Len(s) - 1]].buffer = next[s[Len(s) - 1]].buffer
                             /\ other[s[Len(s) - 1]].nextValid = TRUE
            /\ \A b \in Memory : b # s[Len(s)] /\ (Len(s) > 1 => b # s[Len(s) - 1]) => other[b] = next[b]
        BY <3>6, Zenon
      <4> HIDE DEF r, q, next
      <4> QED BY <3>2, <4>1, <4>2, ChainsLinked
    <3> QED BY <3>7 DEF h
  <2>14. \A b \in Memory : b \notin X => other[b] = nextRef[b]
    BY <2>5, <2>9
  <2> QED BY <2>1, <2>2, <2>8, <2>9, <2>10, <2>11, <2>13, <2>14, Zenon
<1>8. Grows
  BY <1>6, <1>7, Zenon
<1> HIDE DEF s, m, X
<1>9. IsChain(p.ref, other, t)
  <2>1. IsPacket(p, other)
    BY <1>2, <1>8, PacketsUntouched
  <2> QED BY <2>1 DEF IsPacket, t
<1>10. added = t
  BY <1>3, <1>8, <1>9, FollowExact
<1>11. new = [len |-> m + 1, head |-> linked.head, tail |-> t[1],
              prevTail |-> IF m = 0 THEN Head0 ELSE s[m], bufs |-> s \o t]
  <2> HIDE DEF added
  <2>1. chain.len = m /\ (m # 0 => chain.tail = s[m])
    BY <1>8
  <2>2. Len(added) = 1 /\ added[Len(added)] = t[1]
    BY <1>1, <1>10, Zenon DEF t
  <2> QED BY <2>1, <2>2
<1> HIDE DEF new, added
<1> DEFINE u == s \o t
           h == linked.head
<1>12. /\ u \in Seq(Memory) /\ other \in [Memory -> Ref] /\ h \in Ref
       /\ \A b \in Memory : b \notin X => other[b] = nextRef[b]
       /\ IsChain(h, other, u) /\ IsInjective(u) /\ Range(u) = X \cup Range(t)
       /\ m \in Nat /\ Len(u) = m + 1 /\ u[m + 1] = t[1] /\ (m # 0 => u[m] = s[m])
  BY <1>8
<1> HIDE DEF u, h, Grows
<1>13. /\ new = [len |-> Len(u), head |-> h, tail |-> u[Len(u)],
                 prevTail |-> IF Len(u) = 1 THEN Head0 ELSE u[Len(u) - 1], bufs |-> u]
       /\ new.bufs = u /\ new.head = h
  <2>1. new = [len |-> m + 1, head |-> h, tail |-> t[1],
               prevTail |-> IF m = 0 THEN Head0 ELSE s[m], bufs |-> u]
    BY <1>11 DEF u, h
  <2>2. \A n \in Nat : (n + 1) - 1 = n /\ (n + 1 = 1 <=> n = 0)
    OBVIOUS
  <2>3. (m + 1) - 1 = m /\ (m + 1 = 1 <=> m = 0)
    BY <1>12, <2>2
  <2>4. (IF m = 0 THEN Head0 ELSE s[m]) = IF Len(u) = 1 THEN Head0 ELSE u[Len(u) - 1]
    <3>1. CASE m = 0
      BY <1>12, <2>3, <3>1
    <3>2. CASE m # 0
      BY <1>12, <2>3, <3>2
    <3> QED BY <3>1, <3>2
  <2>5. m + 1 = Len(u) /\ t[1] = u[Len(u)]
    BY <1>12
  <2> QED BY <2>1, <2>4, <2>5
<1>14. ChainInv'
  <2>1. /\ new = [len |-> Len(new.bufs), head |-> new.head, tail |-> new.bufs[Len(new.bufs)],
                  prevTail |-> IF Len(new.bufs) = 1 THEN Head0
                               ELSE new.bufs[Len(new.bufs) - 1],
                  bufs |-> new.bufs]
        /\ new.head \in Ref /\ IsChain(new.head, other, new.bufs) /\ IsInjective(new.bufs)
    BY <1>12, <1>13, Zenon
  <2> QED BY <1>1, <2>1, Zenon DEF ChainInv
<1>15. \A q \in packets' : IsPacket(q, other)
  <2> SUFFICES ASSUME NEW q \in packets PROVE IsPacket(q, other)
    BY <1>1
  <2> QED BY <1>2, <1>12, PacketsUntouched
<1>16. Owned(Range(refs), Range(u), packets', 1..made)
  <2> DEFINE F == Range(refs)
             C == X
             Y == Range(t)
             M == 1..made
  <2>1. Owned(F, C, packets, M) /\ Y = Range(p.bufs)
    BY <1>2 DEF X, s, t
  <2> HIDE DEF F, C, M, Y
  <2>2. Owned(F, C \cup Y, packets \ {p}, M)
    <3>1. F \cup (C \cup Y) \cup UNION {Range(q.bufs) : q \in packets \ {p}} = M
      BY <2>1 DEF Owned
    <3>2. /\ F \cap (C \cup Y) = {}
          /\ \A q \in packets \ {p} : Range(q.bufs) \cap F = {} /\ Range(q.bufs) \cap (C \cup Y) = {}
      BY <2>1 DEF Owned
    <3> QED BY <2>1, <3>1, <3>2 DEF Owned
  <2> QED BY <1>1, <1>12, <2>2, Zenon DEF F, C, M, Y
<1>17. Owned(Range(refs'), Range(chain'.bufs), packets', 1..made')
  <2>1. chain'.bufs = u
    BY <1>1, <1>13, Zenon
  <2> QED BY <1>1, <1>16, <2>1, Zenon
<1>18. nextRef' \in [Memory -> Ref] /\ \A q \in packets' : IsPacket(q, nextRef')
  BY <1>1, <1>12, <1>15, Zenon
<1> QED
  BY <1>1, <1>14, <1>17, <1>18 DEF IInv

LEMMA TakeKeeps ==
  ASSUME BufferAssumption, IInv, TakeChain
  PROVE  IInv'
<1> DEFINE new == [ref |-> chain.head, bufs |-> chain.bufs]
<1>1. /\ chain.len > 0 /\ packets' = packets \cup {new} /\ chain' = EmptyChain
      /\ UNCHANGED <<refs, made, nextRef>>
  BY DEF TakeChain
<1>2. chain # EmptyChain
  BY <1>1 DEF EmptyChain
<1>3. IsPacket(new, nextRef)
  BY <1>2 DEF IInv, ChainInv, IsPacket
<1>4. Range(EmptyChain.bufs) = {}
  BY DEF EmptyChain, Range
<1>5. Range(new.bufs) = Range(chain.bufs)
  OBVIOUS
<1> HIDE DEF new
<1>6. Owned(Range(refs), {}, packets \cup {new}, 1..made)
  <2> DEFINE F == Range(refs)
             C == Range(chain.bufs)
             M == 1..made
  <2>1. Owned(F, C, packets, M) /\ Range(new.bufs) = C
    BY <1>5 DEF IInv
  <2> HIDE DEF F, C, M
  <2>2. Owned(F, {}, packets \cup {new}, M)
    <3>1. F \cup {} \cup UNION {Range(q.bufs) : q \in packets \cup {new}} = M
      BY <2>1 DEF Owned
    <3>2. \A q \in packets \cup {new} : Range(q.bufs) \cap F = {} /\ Range(q.bufs) \cap {} = {}
      BY <2>1 DEF Owned
    <3>3. \A q, r \in packets \cup {new} : q # r => Range(q.bufs) \cap Range(r.bufs) = {}
      BY <2>1 DEF Owned
    <3> QED BY <3>1, <3>2, <3>3 DEF Owned
  <2> QED BY <2>2 DEF F, M
<1>7. Owned(Range(refs'), Range(chain'.bufs), packets', 1..made')
  BY <1>1, <1>4, <1>6, Zenon
<1>8. \A q \in packets' : IsPacket(q, nextRef')
  BY <1>1, <1>3 DEF IInv
<1>9. ChainInv'
  BY <1>1 DEF ChainInv
<1> QED
  BY <1>1, <1>7, <1>8, <1>9 DEF IInv

LEMMA NextKeeps ==
  ASSUME BufferAssumption, ~AppendChains, IInv, [BuffersNext]_bufferVars
  PROVE  IInv'
<1>1. ASSUME NEW want \in 1..MaxWant, AllocRefs(want) PROVE IInv'
  BY <1>1, AllocKeeps
<1>2. CASE AllocCachedRefs
  BY <1>2, CachedKeeps
<1>3. ASSUME NEW S \in SUBSET packets \ {{}}, NEW freeNext \in BOOLEAN, NEW ps \in Arrangements(S),
             FreeRefs(ps, freeNext)
      PROVE  IInv'
  <2>1. S \in SUBSET packets
    OBVIOUS
  <2> QED BY <1>3, <2>1, FreeKeeps
<1>4. ASSUME NEW p \in packets, NEW c \in packets, LinkRefs(p, c) PROVE IInv'
  BY <1>4, LinkKeeps
<1>5. ASSUME NEW p \in packets, Append1(p) PROVE IInv'
  BY <1>5, AppendKeeps
<1>6. CASE TakeChain
  BY <1>6, TakeKeeps
<1>7. CASE UNCHANGED bufferVars
  <2>1. UNCHANGED <<refs, made, nextRef, packets, chain>>
    BY <1>7 DEF bufferVars
  <2>2. ChainInv'
    BY <2>1 DEF IInv, ChainInv
  <2> QED BY <2>1, <2>2 DEF IInv
<1> QED
  BY <1>1, <1>2, <1>3, <1>4, <1>5, <1>6, <1>7, Zenon DEF BuffersNext

-----------------------------------------------------------------------------
(* What the invariant says *)

LEMMA IntactFromInv ==
  ASSUME BufferAssumption, IInv
  PROVE  Intact
<1> SUFFICES ASSUME NEW p \in packets PROVE Follow(p.ref, nextRef) = p.bufs
  BY DEF Intact
<1>1. p.ref \in Ref /\ nextRef \in [Memory -> Ref] /\ IsChain(p.ref, nextRef, p.bufs)
  BY DEF IInv, IsPacket
<1> QED
  BY <1>1, FollowExact

\* The chain is the buffers that were put into it
LEMMA ChainFollowed ==
  ASSUME BufferAssumption, IInv, chain # EmptyChain
  PROVE  Follow(chain.head, nextRef) = chain.bufs /\ chain.len = Len(chain.bufs)
         /\ IsInjective(chain.bufs) /\ Len(chain.bufs) > 0
<1>1. /\ chain.head \in Ref /\ nextRef \in [Memory -> Ref]
      /\ IsChain(chain.head, nextRef, chain.bufs)
      /\ IsInjective(chain.bufs) /\ chain.len = Len(chain.bufs)
  BY DEF IInv, ChainInv
<1>2. Len(chain.bufs) > 0
  BY <1>1 DEF IsChain
<1> QED
  BY <1>1, <1>2, FollowExact

LEMMA ChainLengthFromInv ==
  ASSUME BufferAssumption, IInv
  PROVE  ChainLength
<1> SUFFICES ASSUME chain.len > 0 PROVE Len(Follow(chain.head, nextRef)) = chain.len
  BY DEF ChainLength
<1>1. chain # EmptyChain
  BY DEF EmptyChain
<1> QED
  BY <1>1, ChainFollowed

LEMMA ConservedFromInv ==
  ASSUME BufferAssumption, IInv
  PROVE  Conserved
<1> DEFINE heldBy == {Follow(p.ref, nextRef) : p \in packets}
           inChain == IF chain.len = 0 THEN {} ELSE {Follow(chain.head, nextRef)}
           places == heldBy \cup {refs} \cup inChain
           F == Range(refs)
           C == Range(chain.bufs)
           M == 1..made
<1>1. heldBy = {p.bufs : p \in packets}
  BY IntactFromInv DEF Intact
<1>2. /\ \A s \in inChain : s = chain.bufs /\ IsInjective(s)
      /\ inChain = {} => C = {}
      /\ inChain # {} => chain.bufs \in inChain
  <2>1. CASE chain = EmptyChain
    <3>1. chain.len = 0 /\ C = {}
      BY <2>1 DEF EmptyChain, Range
    <3> QED BY <3>1
  <2>2. CASE chain # EmptyChain
    <3>1. /\ Follow(chain.head, nextRef) = chain.bufs /\ chain.len = Len(chain.bufs)
          /\ IsInjective(chain.bufs) /\ Len(chain.bufs) > 0
      BY <2>2, ChainFollowed
    <3>2. chain.len # 0
      BY <3>1
    <3>3. inChain = {chain.bufs}
      BY <3>1, <3>2, Zenon
    <3> QED BY <3>1, <3>3
  <2> QED BY <2>1, <2>2
<1>3. \A p \in packets : IsInjective(p.bufs)
  BY DEF IInv, IsPacket
<1>4. Owned(F, C, packets, M) /\ IsInjective(refs)
  BY DEF IInv
<1> HIDE DEF inChain, heldBy, M
<1>5. UNION {Range(s) : s \in places} = M
  <2>1. ASSUME NEW b \in M PROVE \E s \in places : b \in Range(s)
    <3>1. b \in F \/ b \in C \/ \E p \in packets : b \in Range(p.bufs)
      BY <1>4 DEF Owned
    <3> QED BY <1>1, <1>2, <3>1
  <2>2. ASSUME NEW s \in places PROVE Range(s) \subseteq M
    <3>1. F \subseteq M /\ C \subseteq M /\ \A p \in packets : Range(p.bufs) \subseteq M
      BY <1>4 DEF Owned
    <3> QED BY <1>1, <1>2, <3>1
  <2> QED BY <2>1, <2>2
<1>6. \A s \in places : IsInjective(s)
  BY <1>1, <1>2, <1>3, <1>4
<1>7. ASSUME NEW s \in places, NEW t \in places, s # t PROVE Range(s) \cap Range(t) = {}
  <2>1. /\ F \cap C = {}
        /\ \A p \in packets : Range(p.bufs) \cap F = {} /\ Range(p.bufs) \cap C = {}
        /\ \A p, q \in packets : p # q => Range(p.bufs) \cap Range(q.bufs) = {}
    BY <1>4, Zenon DEF Owned
  <2>2. s \in heldBy \/ s = refs \/ s = chain.bufs
    BY <1>2
  <2>3. t \in heldBy \/ t = refs \/ t = chain.bufs
    BY <1>2
  <2>4. ASSUME s \in heldBy, t \in heldBy PROVE Range(s) \cap Range(t) = {}
    <3>1. PICK p \in packets : s = p.bufs
      BY <1>1, <2>4
    <3>2. PICK q \in packets : t = q.bufs
      BY <1>1, <2>4
    <3> QED BY <1>7, <2>1, <3>1, <3>2
  <2>5. ASSUME NEW u \in heldBy PROVE Range(u) \cap F = {} /\ Range(u) \cap C = {}
    BY <1>1, <2>1
  <2> HIDE DEF F, C, places
  <2>6. Range(refs) = F /\ Range(chain.bufs) = C
    BY DEF F, C
  <2>7. F \cap C = {} /\ C \cap F = {}
    BY <2>1
  <2>8. \A u \in heldBy : F \cap Range(u) = {} /\ C \cap Range(u) = {}
    BY <2>5
  <2>9. CASE s \in heldBy
    BY <2>3, <2>4, <2>5, <2>6, <2>9, Zenon
  <2>10. CASE s = refs
    <3>1. t \in heldBy \/ t = chain.bufs
      BY <1>7, <2>3, <2>10
    <3> QED BY <2>6, <2>7, <2>8, <2>10, <3>1, Zenon
  <2>11. CASE s = chain.bufs
    <3>1. t \in heldBy \/ t = refs
      BY <1>7, <2>3, <2>11
    <3> QED BY <2>6, <2>7, <2>8, <2>11, <3>1, Zenon
  <2> QED BY <2>2, <2>9, <2>10, <2>11
<1> QED
  BY <1>5, <1>6, <1>7, Zenon DEF Conserved, places, heldBy, inChain, Buffers, M

\* A packet leads to the buffers that were put into it, as long as callers append no chains
THEOREM PacketsIntact == BufferAssumption /\ ~AppendChains => (BuffersSpec => []Intact)
<1> SUFFICES ASSUME BufferAssumption, ~AppendChains PROVE BuffersSpec => []Intact
  OBVIOUS
<1>1. BuffersInit => IInv
  BY InitInv
<1>2. IInv /\ [BuffersNext]_bufferVars => IInv'
  BY NextKeeps
<1>3. IInv => Intact
  BY IntactFromInv
<1> QED
  BY <1>1, <1>2, <1>3, PTL DEF BuffersSpec

\* No buffer is lost, and none is in two places
THEOREM BuffersConserved == BufferAssumption /\ ~AppendChains => (BuffersSpec => []Conserved)
<1> SUFFICES ASSUME BufferAssumption, ~AppendChains PROVE BuffersSpec => []Conserved
  OBVIOUS
<1>1. BuffersInit => IInv
  BY InitInv
<1>2. IInv /\ [BuffersNext]_bufferVars => IInv'
  BY NextKeeps
<1>3. IInv => Conserved
  BY ConservedFromInv
<1> QED
  BY <1>1, <1>2, <1>3, PTL DEF BuffersSpec

\* RefChain.len is the number of buffers in the chain
THEOREM ChainLengthExact == BufferAssumption /\ ~AppendChains => (BuffersSpec => []ChainLength)
<1> SUFFICES ASSUME BufferAssumption, ~AppendChains PROVE BuffersSpec => []ChainLength
  OBVIOUS
<1>1. BuffersInit => IInv
  BY InitInv
<1>2. IInv /\ [BuffersNext]_bufferVars => IInv'
  BY NextKeeps
<1>3. IInv => ChainLength
  BY ChainLengthFromInv
<1> QED
  BY <1>1, <1>2, <1>3, PTL DEF BuffersSpec

\* The three of them, of every pool and every chain that callers build (hw/buf.go).
THEOREM BuffersSoundHolds == BufferAssumption /\ ~AppendChains => (BuffersSpec => []BuffersSound)
<1>1. Intact /\ Conserved /\ ChainLength => BuffersSound
  BY DEF BuffersSound
<1> QED
  BY <1>1, PacketsIntact, BuffersConserved, ChainLengthExact, PTL

-----------------------------------------------------------------------------
(* Dma: the inductive invariant *)

Busy == {g \in Threads : alloc[g].pc # "idle"}
Place(b) == [at |-> b.at, cap |-> b.cap]
LineType == [at : Nat, cap : Nat]

DmaTypeInv ==
  /\ lines \subseteq LineType /\ dmaHeld \subseteq [at : Nat, n : Nat \ {0}, cap : Nat]
  /\ free \in Seq(LineType)
  /\ alloc \in [Threads -> [pc : {"idle", "try", "put"}, n : Nat, align : Nat,
                             got : {<<>>} \cup LineType]]
  /\ \A g \in Busy : alloc[g].n > 0

\* Before there is a page table nothing is asked for; its pages make up the memory
PagesInv ==
  IF pages = <<>> THEN lines = {} /\ dmaHeld = {} /\ Busy = {}
  ELSE chunk \in Nat \ {0} /\ pages \in Seq(Nat) /\ chunk * Len(pages) = MemSize

\* n bytes at a are memory, in one page
InPage(a, n) == a + n <= MemSize /\ samePage(a, n)

\* Every line that is lent is held, kept aside or about to be handed over, and is one of these only
LinesInv ==
  /\ \A l, m \in lines : l = m \/ ~Overlap(l, m)
  /\ \A l \in lines : \/ \E b \in dmaHeld : l = Place(b)
                      \/ Busy # {} /\ l \in ToSet(free)
                      \/ \E g \in Busy : alloc[g].pc = "put" /\ l = alloc[g].got
  /\ Busy # {} => ToSet(free) \subseteq lines
  /\ \A b \in dmaHeld : /\ Place(b) \in lines /\ b.n <= b.cap /\ InPage(b.at, b.n)
                        /\ Busy # {} => Place(b) \notin ToSet(free)
                        /\ \A c \in dmaHeld : Place(b) = Place(c) => b = c

OneBusy == \A g, h \in Busy : g = h

GotInv ==
  \A g \in Busy : alloc[g].pc = "put" =>
    LET l == alloc[g].got IN
    /\ l \in lines /\ alloc[g].n <= l.cap /\ InPage(l.at, alloc[g].n)
    /\ l \notin ToSet(free)
    /\ \A b \in dmaHeld : l # Place(b)

DmaInv == DmaTypeInv /\ PagesInv /\ LinesInv /\ OneBusy /\ GotInv

-----------------------------------------------------------------------------
(* Dma: pages and lines *)

\* In a page the distance to the first byte is the distance in the memory
LEMMA SameQuotient ==
  ASSUME NEW c \in Nat \ {0}, NEW a \in Nat, NEW n \in Nat \ {0}, NEW i \in 0..n - 1,
         a \div c = (a + n - 1) \div c
  PROVE  (a + i) \div c = a \div c /\ (a + i) % c = (a % c) + i
<1> DEFINE q == a \div c
           z == a + n - 1
<1>1. z \in Nat /\ a + i \in Nat /\ a + i <= z
  OBVIOUS
<1>2. q \in Nat /\ a % c \in 0..c - 1 /\ a = c * q + (a % c)
  BY Division
<1>3. z \div c = q /\ z % c \in 0..c - 1 /\ z = c * q + (z % c)
  BY <1>1, Division
<1>4. (a + i) \div c \in Nat /\ (a + i) % c \in 0..c - 1 /\ a + i = c * ((a + i) \div c) + ((a + i) % c)
  BY <1>1, Division
<1> HIDE DEF q, z
<1>5. c * q \in Int
  BY <1>2
<1>6. (a % c) + i \in 0..c - 1
  BY <1>1, <1>2, <1>3, <1>5
<1>7. c * q + ((a % c) + i) = c * ((a + i) \div c) + ((a + i) % c)
  <2> DEFINE r == a % c
             t == c * q
  <2>1. r \in Int /\ t \in Int /\ a = t + r
    BY <1>2, <1>5
  <2> HIDE DEF r, t
  <2>2. t + (r + i) = a + i
    BY <2>1
  <2> QED BY <1>4, <2>2 DEF r, t
<1>8. q = (a + i) \div c /\ (a % c) + i = (a + i) % c
  BY <1>2, <1>4, <1>6, <1>7, DivisionUnique
<1> QED
  BY <1>8 DEF q

LEMMA RoundUp ==
  ASSUME DmaAssumption, NEW n \in Nat
  PROVE  roundUp(n) \in Nat /\ roundUp(n) >= n
<1> DEFINE a == n + CacheLine - 1
<1>1. CacheLine \in Nat \ {0} /\ a \in Nat
  BY DEF DmaAssumption
<1>2. a \div CacheLine \in Nat /\ a % CacheLine \in 0..CacheLine - 1 /\ a = CacheLine * (a \div CacheLine) + (a % CacheLine)
  BY <1>1, Division
<1>3. roundUp(n) = (a \div CacheLine) * CacheLine
  BY DEF roundUp
<1> DEFINE q == a \div CacheLine
<1> HIDE DEF q
<1>4. q \in Nat /\ q * CacheLine = CacheLine * q /\ CacheLine * q \in Nat
  BY <1>1, <1>2 DEF q
<1>5. roundUp(n) = CacheLine * q /\ a = CacheLine * q + (a % CacheLine)
  BY <1>2, <1>3, <1>4 DEF q
<1> QED
  BY <1>1, <1>2, <1>4, <1>5

\* A free place is a line that is not lent
LEMMA PlaceType ==
  ASSUME DmaAssumption, NEW n \in Nat \ {0}, NEW align \in Nat, NEW l \in Places(n, align),
         lines \subseteq LineType
  PROVE  /\ l \in LineType /\ l.cap >= n /\ l.at + l.cap <= MemSize
         /\ l \notin lines /\ \A m \in lines : ~Overlap(l, m) /\ ~Overlap(m, l)
<1>1. roundUp(n) \in Nat /\ roundUp(n) >= n /\ CacheLine \in Nat /\ MemSize \in Nat
  BY RoundUp DEF DmaAssumption
<1>2. PICK k \in 0 .. MemSize \div (align * CacheLine) : l = [at |-> k * align * CacheLine, cap |-> roundUp(n)]
  BY DEF Places
<1>3. k \in Nat
  OBVIOUS
<1>4. k * align \in Nat
  BY <1>3
<1>5. k * align * CacheLine \in Nat
  BY <1>1, <1>4
<1>6. l \in LineType /\ l.cap >= n
  BY <1>1, <1>2, <1>5 DEF LineType
<1>7. l.at + l.cap <= MemSize /\ \A m \in lines : ~Overlap(l, m)
  BY DEF Places
<1>8. \A m \in lines : ~Overlap(m, l)
  BY <1>7 DEF Overlap
<1>9. Overlap(l, l)
  BY <1>6 DEF Overlap, LineType
<1> QED
  BY <1>6, <1>7, <1>8, <1>9

LEMMA KeptOfNone == ToSet(<<>>) = {}
BY DEF ToSet

LEMMA KeptAppend ==
  ASSUME NEW S, NEW s \in Seq(S), NEW e \in S
  PROVE  ToSet(Append(s, e)) = ToSet(s) \cup {e}
<1>1. /\ DOMAIN s = 1..Len(s) /\ DOMAIN Append(s, e) = 1..Len(s) + 1 /\ Len(s) \in Nat
      /\ \A i \in 1..Len(s) : Append(s, e)[i] = s[i]
      /\ Append(s, e)[Len(s) + 1] = e
  OBVIOUS
<1> DEFINE t == Append(s, e)
<1> HIDE DEF t
<1>2. /\ DOMAIN s = 1..Len(s) /\ DOMAIN t = 1..Len(s) + 1 /\ Len(s) \in Nat
      /\ \A i \in 1..Len(s) : t[i] = s[i]
      /\ t[Len(s) + 1] = e
  BY <1>1 DEF t
<1>3. ToSet(t) \subseteq ToSet(s) \cup {e}
  <2>1. SUFFICES ASSUME NEW i \in DOMAIN t PROVE t[i] \in ToSet(s) \cup {e}
    BY DEF ToSet
  <2>2. CASE i \in 1..Len(s)
    BY <1>2, <2>2 DEF ToSet
  <2>3. CASE i = Len(s) + 1
    BY <1>2, <2>3
  <2> QED BY <1>2, <2>1, <2>2, <2>3
<1>4. ToSet(s) \subseteq ToSet(t)
  BY <1>2 DEF ToSet
<1>5. e \in ToSet(t)
  BY <1>2 DEF ToSet
<1>6. ToSet(t) = ToSet(s) \cup {e}
  BY <1>3, <1>4, <1>5
<1> QED
  BY <1>6 DEF t

-----------------------------------------------------------------------------
(* Dma: the invariant is kept *)

LEMMA DmaInitInv ==
  ASSUME DmaInit
  PROVE  DmaInv
<1>1. DmaTypeInv /\ Busy = {}
  BY DEF DmaInit, DmaTypeInv, Busy, LineType
<1> QED
  BY <1>1 DEF DmaInit, DmaInv, PagesInv, LinesInv, OneBusy, GotInv

LEMMA DmaUnchanged ==
  ASSUME DmaInv, UNCHANGED <<chunk, pages, lines, free, alloc, dmaHeld>>
  PROVE  DmaInv'
<1>1. DmaTypeInv' /\ PagesInv'
  BY DEF DmaInv, DmaTypeInv, PagesInv, Busy
<1>2. LinesInv'
  BY DEF DmaInv, LinesInv, InPage, samePage, Busy
<1>3. OneBusy' /\ GotInv'
  BY DEF DmaInv, OneBusy, GotInv, InPage, samePage, Busy
<1> QED
  BY <1>1, <1>2, <1>3 DEF DmaInv

LEMMA HeapInitKeeps ==
  ASSUME DmaAssumption, DmaInv, NEW size \in ChunkSizes, NEW reversed \in BOOLEAN,
         DmaHeapInit(size, reversed)
  PROVE  DmaInv'
<1>1. lines = {} /\ dmaHeld = {} /\ Busy = {}
  BY DEF DmaInv, PagesInv, DmaHeapInit
<1>2. UNCHANGED <<lines, free, alloc, dmaHeld>>
  BY DEF DmaHeapInit
<1>3. DmaTypeInv' /\ Busy' = {}
  BY <1>1, <1>2 DEF DmaInv, DmaTypeInv, Busy
<1>4. PagesInv'
  <2>1. CASE UNCHANGED <<chunk, pages>>
    BY <1>1, <1>2, <1>3, <2>1 DEF DmaInv, PagesInv
  <2>2. CASE ~UNCHANGED <<chunk, pages>>
    <3> DEFINE count == MemSize \div size
               place(k) == size * (IF reversed THEN 2 * (count - k) ELSE 2 * k)
    <3>1. size \in Nat \ {0} /\ MemSize \in Nat /\ MemSize % size = 0
      BY DEF DmaAssumption, ChunkSizes
    <3>2. count \in Nat /\ MemSize = size * count
      <4>1. MemSize = size * count + (MemSize % size) /\ count \in Nat
        BY <3>1, Division
      <4> HIDE DEF count
      <4>2. size * count \in Nat
        BY <3>1, <4>1
      <4> QED BY <3>1, <4>1, <4>2
    <3>3. chunk' = size /\ pages' = [k \in 1..count |-> place(k)]
      BY <2>2 DEF DmaHeapInit
    <3> HIDE DEF count
    <3>4. \A k \in 1..count : place(k) \in Nat
      <4> SUFFICES ASSUME NEW k \in 1..count PROVE place(k) \in Nat
        OBVIOUS
      <4> DEFINE m == IF reversed THEN 2 * (count - k) ELSE 2 * k
      <4>1. m \in Nat
        BY <3>2
      <4> HIDE DEF m
      <4>2. size * m \in Nat
        BY <3>1, <4>1
      <4> QED BY <4>2 DEF m
    <3> HIDE DEF place
    <3>5. pages' \in Seq(Nat) /\ Len(pages') = count
      BY <3>2, <3>3, <3>4
    <3> QED
      BY <1>1, <1>2, <1>3, <3>1, <3>2, <3>3, <3>5 DEF PagesInv
  <2> QED BY <2>1, <2>2
<1> QED
  BY <1>1, <1>2, <1>3, <1>4 DEF DmaInv, LinesInv, OneBusy, GotInv

LEMMA StartKeeps ==
  ASSUME DmaAssumption, OneAllocator, DmaInv,
         NEW g \in Threads, NEW n \in Wants, NEW align \in LineAligns, Start(g, n, align)
  PROVE  DmaInv'
<1>1. Busy = {}
  BY DEF Start, Busy
<1>2. n \in Nat \ {0} /\ align \in Nat
  BY DEF DmaAssumption
<1>3. /\ alloc' = [alloc EXCEPT ![g] = [pc |-> "try", n |-> n, align |-> align, got |-> <<>>]]
      /\ free' = <<>> /\ UNCHANGED <<chunk, pages, lines, dmaHeld>> /\ pages # <<>>
  BY DEF Start
<1>4. /\ alloc'[g].pc = "try" /\ alloc'[g].n = n /\ Busy' = {g}
  BY <1>1, <1>3 DEF DmaInv, DmaTypeInv, Busy
<1>5. DmaTypeInv'
  BY <1>2, <1>3, <1>4 DEF DmaInv, DmaTypeInv
<1>6. PagesInv'
  BY <1>3 DEF DmaInv, PagesInv
<1>7. ToSet(free') = {}
  BY <1>3, KeptOfNone
<1>8. LinesInv'
  BY <1>1, <1>3, <1>7 DEF DmaInv, LinesInv, InPage, samePage, ToSet
<1>9. OneBusy' /\ GotInv'
  BY <1>4 DEF OneBusy, GotInv
<1> QED
  BY <1>5, <1>6, <1>8, <1>9 DEF DmaInv

LEMMA TryKeeps ==
  ASSUME DmaAssumption, DmaInv, NEW g \in Threads, Try(g)
  PROVE  DmaInv'
<1> DEFINE a == alloc[g]
<1>1. a.pc = "try" /\ g \in Busy /\ Busy = {g} /\ a.n \in Nat \ {0} /\ a.align \in Nat
  <2>1. a.pc = "try" /\ g \in Busy
    BY DEF Try, Busy
  <2>2. Busy = {g}
    BY <2>1 DEF DmaInv, OneBusy
  <2> QED BY <2>1, <2>2 DEF DmaInv, DmaTypeInv
<1>2. UNCHANGED <<chunk, pages, dmaHeld>>
  BY DEF Try
<1>3. CASE UNCHANGED <<lines, free, alloc>>
  BY <1>2, <1>3, DmaUnchanged
<1>4. ASSUME NEW l \in Places(a.n, a.align), lines' = lines \cup {l},
             IF samePage(l.at, a.n)
             THEN /\ alloc' = [alloc EXCEPT ![g] = [@ EXCEPT !.pc = "put", !.got = l]]
                  /\ UNCHANGED free
             ELSE free' = Append(free, l) /\ UNCHANGED alloc
      PROVE  DmaInv'
  <2>1. /\ l \in LineType /\ l.cap >= a.n /\ l.at + l.cap <= MemSize
        /\ l \notin lines /\ \A m \in lines : ~Overlap(l, m) /\ ~Overlap(m, l)
    BY <1>1, PlaceType DEF DmaInv, DmaTypeInv
  <2>2. \A b \in dmaHeld : l # Place(b)
    BY <2>1 DEF DmaInv, LinesInv
  <2>3. PagesInv'
    <3>1. pages # <<>>
      BY <1>1 DEF DmaInv, PagesInv
    <3> QED BY <1>2, <3>1 DEF DmaInv, PagesInv
  <2>4. \A k, m \in lines' : k = m \/ ~Overlap(k, m)
    BY <1>4, <2>1 DEF DmaInv, LinesInv
  <2>5. CASE samePage(l.at, a.n)
    <3>1. /\ alloc' = [alloc EXCEPT ![g] = [@ EXCEPT !.pc = "put", !.got = l]]
          /\ free' = free
      BY <1>4, <2>5
    <3>2. /\ alloc'[g].pc = "put" /\ alloc'[g].got = l /\ alloc'[g].n = a.n
          /\ Busy' = {g}
      BY <1>1, <3>1 DEF DmaInv, DmaTypeInv, Busy
    <3>3. DmaTypeInv'
      BY <1>1, <1>2, <1>4, <2>1, <3>1, <3>2 DEF DmaInv, DmaTypeInv
    <3>4. ToSet(free') = ToSet(free)
      BY <3>1
    <3>5. l \notin ToSet(free)
      BY <1>1, <2>1 DEF DmaInv, LinesInv
    <3>6. LinesInv'
      <4>1. \A k \in lines' : \/ \E b \in dmaHeld' : k = Place(b)
                              \/ Busy' # {} /\ k \in ToSet(free')
                              \/ \E h \in Busy' : alloc'[h].pc = "put" /\ k = alloc'[h].got
        BY <1>1, <1>2, <1>4, <3>2, <3>4 DEF DmaInv, LinesInv
      <4>2. \A b \in dmaHeld' : /\ Place(b) \in lines' /\ b.n <= b.cap /\ InPage(b.at, b.n)'
                                /\ Place(b) \notin ToSet(free')
                                /\ \A c \in dmaHeld' : Place(b) = Place(c) => b = c
        BY <1>1, <1>2, <1>4, <3>4 DEF DmaInv, LinesInv, InPage, samePage
      <4>3. ToSet(free') \subseteq lines'
        BY <1>1, <1>4, <3>4 DEF DmaInv, LinesInv
      <4> QED BY <2>4, <4>1, <4>2, <4>3 DEF LinesInv
    <3>7. OneBusy' /\ GotInv'
      <4>1. l.at \in Nat /\ l.cap \in Nat /\ MemSize \in Nat
        BY <2>1 DEF LineType, DmaAssumption
      <4>2. l \in lines' /\ a.n <= l.cap /\ l.at + a.n <= MemSize
        BY <1>1, <1>4, <2>1, <4>1
      <4>3. InPage(l.at, a.n)'
        BY <1>2, <2>5, <3>2, <4>2 DEF InPage, samePage
      <4> QED BY <1>2, <2>2, <3>2, <3>4, <3>5, <4>2, <4>3 DEF OneBusy, GotInv
    <3> QED BY <2>3, <3>3, <3>6, <3>7 DEF DmaInv
  <2>6. CASE ~samePage(l.at, a.n)
    <3>1. free' = Append(free, l) /\ alloc' = alloc
      BY <1>4, <2>6
    <3>2. Busy' = {g} /\ alloc'[g].pc = "try"
      BY <1>1, <3>1 DEF Busy
    <3>3. DmaTypeInv'
      BY <1>1, <1>2, <1>4, <2>1, <3>1, <3>2 DEF DmaInv, DmaTypeInv
    <3>4. ToSet(free') = ToSet(free) \cup {l}
      BY <2>1, <3>1, KeptAppend DEF DmaInv, DmaTypeInv
    <3>6. LinesInv'
      <4>1. \A k \in lines' : \/ \E b \in dmaHeld' : k = Place(b)
                              \/ Busy' # {} /\ k \in ToSet(free')
        BY <1>1, <1>2, <1>4, <3>2, <3>4 DEF DmaInv, LinesInv
      <4>2. \A b \in dmaHeld' : /\ Place(b) \in lines' /\ b.n <= b.cap /\ InPage(b.at, b.n)'
                                /\ Place(b) \notin ToSet(free')
                                /\ \A c \in dmaHeld' : Place(b) = Place(c) => b = c
        BY <1>1, <1>2, <1>4, <2>2, <3>4 DEF DmaInv, LinesInv, InPage, samePage
      <4>3. ToSet(free') \subseteq lines'
        BY <1>1, <1>4, <3>4 DEF DmaInv, LinesInv
      <4> QED BY <2>4, <4>1, <4>2, <4>3 DEF LinesInv
    <3>7. OneBusy' /\ GotInv'
      BY <3>2 DEF OneBusy, GotInv
    <3> QED BY <2>3, <3>3, <3>6, <3>7 DEF DmaInv
  <2> QED BY <2>5, <2>6
<1> QED
  BY <1>3, <1>4 DEF Try

LEMMA PutKeptKeeps ==
  ASSUME DmaAssumption, DmaInv, NEW g \in Threads, PutKept(g)
  PROVE  DmaInv'
<1> DEFINE l == alloc[g].got
           b == [at |-> l.at, n |-> alloc[g].n, cap |-> l.cap]
<1>1. /\ alloc[g].pc = "put" /\ g \in Busy
      /\ UNCHANGED <<chunk, pages, free>> /\ lines' = lines \ ToSet(free)
      /\ dmaHeld' = dmaHeld \cup {b} /\ alloc' = [alloc EXCEPT ![g].pc = "idle"]
  BY DEF PutKept, Busy
<1>2. Busy = {g}
  BY <1>1 DEF DmaInv, OneBusy
<1>3. Busy' = {}
  BY <1>1, <1>2 DEF DmaInv, DmaTypeInv, Busy
<1>4. /\ l \in lines /\ l \in LineType /\ alloc[g].n <= l.cap /\ InPage(l.at, alloc[g].n)
      /\ l \notin ToSet(free) /\ \A c \in dmaHeld : l # Place(c)
  BY <1>1 DEF DmaInv, GotInv, DmaTypeInv
<1>5. Place(b) = l /\ b.at = l.at /\ b.n = alloc[g].n /\ b.cap = l.cap
  BY <1>4 DEF LineType, Place
<1>6. DmaTypeInv'
  <2>1. alloc[g].n \in Nat \ {0}
    BY <1>1 DEF DmaInv, DmaTypeInv
  <2>2. b \in [at : Nat, n : Nat \ {0}, cap : Nat]
    BY <1>4, <2>1 DEF LineType
  <2> HIDE DEF b
  <2> QED BY <1>1, <1>3, <2>2 DEF DmaInv, DmaTypeInv
<1> HIDE DEF l, b
<1>7. PagesInv'
  BY <1>1 DEF DmaInv, PagesInv
<1>8. LinesInv'
  <2>1. \A k, m \in lines' : k = m \/ ~Overlap(k, m)
    BY <1>1 DEF DmaInv, LinesInv
  <2>2. \A k \in lines' : \E c \in dmaHeld' : k = Place(c)
    <3> SUFFICES ASSUME NEW k \in lines' PROVE \E c \in dmaHeld' : k = Place(c)
      OBVIOUS
    <3>1. k \in lines /\ k \notin ToSet(free)
      BY <1>1
    <3>2. (\E c \in dmaHeld : k = Place(c)) \/ k = l
      BY <1>2, <3>1 DEF DmaInv, LinesInv, l
    <3> QED BY <1>1, <1>5, <3>2
  <2>3. \A c \in dmaHeld' : Place(c) \in lines' /\ c.n <= c.cap /\ InPage(c.at, c.n)'
    <3> SUFFICES ASSUME NEW c \in dmaHeld'
                 PROVE  Place(c) \in lines' /\ c.n <= c.cap /\ InPage(c.at, c.n)'
      OBVIOUS
    <3>1. CASE c \in dmaHeld
      BY <1>1, <1>2, <3>1 DEF DmaInv, LinesInv, InPage, samePage
    <3>2. CASE c = b
      BY <1>1, <1>4, <1>5, <3>2 DEF InPage, samePage
    <3> QED BY <1>1, <3>1, <3>2
  <2>4. \A c, d \in dmaHeld' : Place(c) = Place(d) => c = d
    BY <1>1, <1>4, <1>5 DEF DmaInv, LinesInv
  <2> QED BY <1>3, <2>1, <2>2, <2>3, <2>4 DEF LinesInv
<1>9. OneBusy' /\ GotInv'
  BY <1>3 DEF OneBusy, GotInv
<1> QED
  BY <1>6, <1>7, <1>8, <1>9 DEF DmaInv

LEMMA LineFreeKeeps ==
  ASSUME DmaInv, NEW b \in dmaHeld, Free(b)
  PROVE  DmaInv'
<1>1. /\ UNCHANGED <<chunk, pages, free, alloc>> /\ dmaHeld' = dmaHeld \ {b}
      /\ lines' = lines \ {Place(b)}
  BY DEF Free, Place
<1>2. Busy' = Busy
  BY <1>1 DEF Busy
<1>3. DmaTypeInv'
  BY <1>1, <1>2 DEF DmaInv, DmaTypeInv
<1>4. PagesInv'
  BY <1>1, <1>2 DEF DmaInv, PagesInv
<1>5. ToSet(free') = ToSet(free)
  BY <1>1
<1>6. LinesInv'
  <2>1. \A k, m \in lines' : k = m \/ ~Overlap(k, m)
    BY <1>1 DEF DmaInv, LinesInv
  <2>2. \A k \in lines' : \/ \E c \in dmaHeld' : k = Place(c)
                          \/ Busy' # {} /\ k \in ToSet(free')
                          \/ \E h \in Busy' : alloc'[h].pc = "put" /\ k = alloc'[h].got
    BY <1>1, <1>2, <1>5 DEF DmaInv, LinesInv
  <2>3. \A c \in dmaHeld' : /\ Place(c) \in lines' /\ c.n <= c.cap /\ InPage(c.at, c.n)'
                            /\ Busy' # {} => Place(c) \notin ToSet(free')
                            /\ \A d \in dmaHeld' : Place(c) = Place(d) => c = d
    BY <1>1, <1>2, <1>5 DEF DmaInv, LinesInv, InPage, samePage
  <2>4. Busy' # {} => ToSet(free') \subseteq lines'
    BY <1>1, <1>2, <1>5 DEF DmaInv, LinesInv
  <2> QED BY <2>1, <2>2, <2>3, <2>4 DEF LinesInv
<1>7. OneBusy' /\ GotInv'
  BY <1>1, <1>2, <1>5 DEF DmaInv, OneBusy, GotInv, InPage, samePage
<1> QED
  BY <1>3, <1>4, <1>6, <1>7 DEF DmaInv

LEMMA DmaNextKeeps ==
  ASSUME DmaAssumption, OneAllocator, DmaInv, [DmaNext]_dmaVars
  PROVE  DmaInv'
<1>1. ASSUME NEW size \in ChunkSizes, NEW reversed \in BOOLEAN, DmaHeapInit(size, reversed)
      PROVE  DmaInv'
  BY <1>1, HeapInitKeeps
<1>2. CASE DmaHeapInitFails
  BY <1>2, DmaUnchanged DEF DmaHeapInitFails
<1>3. ASSUME NEW g \in Threads, NEW n \in Wants, NEW align \in LineAligns, Start(g, n, align)
      PROVE  DmaInv'
  BY <1>3, StartKeeps
<1>4. ASSUME NEW g \in Threads, Try(g) PROVE DmaInv'
  BY <1>4, TryKeeps
<1>5. ASSUME NEW g \in Threads, PutKept(g) PROVE DmaInv'
  BY <1>5, PutKeptKeeps
<1>6. ASSUME NEW b \in dmaHeld, Free(b) PROVE DmaInv'
  BY <1>6, LineFreeKeeps
<1>7. CASE UNCHANGED dmaVars
  BY <1>7, DmaUnchanged DEF dmaVars
<1> QED
  BY <1>1, <1>2, <1>3, <1>4, <1>5, <1>6, <1>7 DEF DmaNext

-----------------------------------------------------------------------------
(* Dma: the theorems *)

\* The bytes that are lent, kept aside and handed over are told apart in every state of
\* DmaAllocAligned and DmaFree, as long as one goroutine allocates at a time.
THEOREM DmaInvHolds == DmaAssumption /\ OneAllocator => (DmaSpec => []DmaInv)
<1> SUFFICES ASSUME DmaAssumption, OneAllocator PROVE DmaSpec => []DmaInv
  OBVIOUS
<1>1. DmaInit => DmaInv
  BY DmaInitInv
<1>2. DmaInv /\ [DmaNext]_dmaVars => DmaInv'
  BY DmaNextKeeps
<1> QED
  BY <1>1, <1>2, PTL DEF DmaSpec

\* The physical addresses of a buffer (DmaPhysAddress) follow one another as its bytes do,
\* and no byte of it is in another buffer.
THEOREM ContiguousHolds == DmaAssumption /\ OneAllocator => (DmaSpec => []Contiguous)
<1> SUFFICES ASSUME DmaAssumption, OneAllocator PROVE DmaSpec => []Contiguous
  OBVIOUS
<1>1. DmaInv => Contiguous
  <2> SUFFICES ASSUME DmaInv, NEW b \in dmaHeld
               PROVE  /\ \A i \in 0 .. b.n - 1 : physAddress(b.at + i) = physAddress(b.at) + i
                      /\ \A c \in dmaHeld : b = c \/ ~Overlap(b, c)
    BY DEF Contiguous
  <2>1. b.at \in Nat /\ b.n \in Nat \ {0} /\ InPage(b.at, b.n)
    BY DEF DmaInv, DmaTypeInv, LinesInv
  <2>2. chunk \in Nat \ {0} /\ pages \in Seq(Nat) /\ chunk * Len(pages) = MemSize
    BY DEF DmaInv, PagesInv
  <2>3. ASSUME NEW i \in 0 .. b.n - 1 PROVE physAddress(b.at + i) = physAddress(b.at) + i
    <3>1. (b.at + i) \div chunk = b.at \div chunk /\ (b.at + i) % chunk = (b.at % chunk) + i
      BY <2>1, <2>2, SameQuotient DEF InPage, samePage
    <3>2. (b.at \div chunk) + 1 \in 1..Len(pages)
      <4>1. b.at < chunk * Len(pages)
        BY <2>1, <2>2 DEF InPage, DmaAssumption
      <4>2. Len(pages) \in Nat
        BY <2>2
      <4> QED BY <2>1, <2>2, <4>1, <4>2, PageExists, Zenon
    <3>3. b.at % chunk \in Nat /\ i \in Nat
      <4>1. b.at % chunk \in 0..chunk - 1
        BY <2>1, <2>2, Division, Zenon
      <4> QED BY <2>1, <2>2, <4>1
    <3> DEFINE q == b.at \div chunk
               r == b.at % chunk
    <3>4. pages[q + 1] \in Nat
      BY <2>2, <3>2
    <3>5. /\ physAddress(b.at + i) = pages[q + 1] + (r + i)
          /\ physAddress(b.at) = pages[q + 1] + r
      BY <3>1 DEF physAddress
    <3> HIDE DEF q, r
    <3> QED BY <3>3, <3>4, <3>5 DEF r
  <2>4. ASSUME NEW c \in dmaHeld, Overlap(b, c) PROVE b = c
    <3>1. Overlap(Place(b), Place(c))
      BY <2>4 DEF Overlap, Place
    <3> QED BY <3>1 DEF DmaInv, LinesInv
  <2> QED BY <2>3, <2>4
<1> QED
  BY <1>1, DmaInvHolds, PTL

\* Nothing that was kept aside is lost, and nothing is lent that no caller holds, when no
\* allocation is on its way.
THEOREM NothingKeptHolds == DmaAssumption /\ OneAllocator => (DmaSpec => []NothingKept)
<1> SUFFICES ASSUME DmaAssumption, OneAllocator PROVE DmaSpec => []NothingKept
  OBVIOUS
<1>1. DmaInv => NothingKept
  BY DEF DmaInv, LinesInv, NothingKept, Busy, Place
<1> QED
  BY <1>1, DmaInvHolds, PTL

\* Both of them: what a device may rely on (hw/physmem_paged.go, hw/pci/kern_uio_pci_dma.go).
THEOREM DmaSoundHolds == DmaAssumption /\ OneAllocator => (DmaSpec => []DmaSound)
<1>1. Contiguous /\ NothingKept => DmaSound
  BY DEF DmaSound
<1> QED
  BY <1>1, ContiguousHolds, NothingKeptHolds, PTL

=============================================================================
