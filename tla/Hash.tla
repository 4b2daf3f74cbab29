-------------------------------- MODULE Hash --------------------------------
(***************************************************************************)
(* The hash table of hash.go with the capacities of cap.go.  A key has a   *)
(* base index, which depends on the seed; it is stored in the bucket of    *)
(* its base index, at a distance (bit difference) from it.  The table says *)
(* for every slot which distance, plus one, its element has; the elements  *)
(* are the caller's (Hasher).                                              *)
(*                                                                         *)
(* Set is one call of the code; here it takes one step per grow, with the  *)
(* call in progress in adding.                                             *)
(***************************************************************************)
EXTENDS Integers, FiniteSets

CONSTANTS
  Keys,
  NoElt,
  Bases,   \* bound: the slots that keys hash to
  MaxCap   \* bound: the largest capacity

\* Assumed where the module is instantiated
HashAssumption == NoElt \notin Keys /\ Bases \subseteq Nat /\ MaxCap \in Nat

VARIABLES
  cap,                \* Hash.cap; 0 before the first grow
  bitDiffs,           \* the distance plus one of the element in a slot, 0 if none
  maxBucketBitDiffs,  \* the largest bitDiff that a bucket has held
  nElts,
  base,               \* the base index of each key under the current seed
  elts,               \* the caller's keys, by slot
  stored,             \* the keys set and not unset: what the table stands for
  adding,             \* the key that Set is growing the table for, or NoElt
  tried               \* the capacity of the last grow; cap if its copy succeeded

hashVars == <<cap, bitDiffs, maxBucketBitDiffs, nElts, base, elts, stored, adding, tried>>

-----------------------------------------------------------------------------
(* Capacities: 2^i or 2^i + 2^j *)

MinLog2(w) == CHOOSE l \in 0..29 : 2 ^ l <= w /\ w < 2 ^ (l + 1)
MaxLog2(w) == IF 2 ^ MinLog2(w) = w THEN MinLog2(w) ELSE MinLog2(w) + 1

Round(n, log2Unit) ==
  LET u == 2 ^ log2Unit
      w == ((n + u - 1) \div u) * u
      l0 == MinLog2(w)
  IN IF w = 0 \/ w = 2 ^ l0 THEN w ELSE 2 ^ l0 + 2 ^ MaxLog2(w - 2 ^ l0)

\* For capacities below 256
NextUnit(c, log2Min, log2Unit) ==
  LET min == 2 ^ log2Min - 1
  IN Round(IF c < min THEN min ELSE (c * 1414214) \div 1000000, log2Unit)

log2Cap0(c) == MinLog2(c)
log2EltsPerBucket(c) == (log2Cap0(c) - 1) \div 2
perBucket(c) == 2 ^ log2EltsPerBucket(c)
eltsPerBucket == perBucket(cap)
bucket(i) == i \div eltsPerBucket
Slots == 0..cap - 1

\* alloc rounds the second table up to a bucket
allocCap(c) ==
  LET first == 2 ^ log2Cap0(c)
      n == perBucket(c)
  IN IF c > first /\ c - first < n THEN first + n ELSE c

\* What the next grow allocates
nextCap(c) == allocCap(NextUnit(c, 4, 3))

\* b ^ diff for a diff within a bucket of n = 2^k slots: both in binary
Xor(b, diff, n) ==
  LET bits == {k \in 0..7 : 2 ^ k < n}
      bit(x, k) == (x \div 2 ^ k) % 2
      v[k \in -1..7] == IF k = -1 THEN 0
                        ELSE v[k - 1] + (IF k \in bits /\ bit(b, k) # bit(diff, k) THEN 2 ^ k ELSE 0)
  IN (b \div n) * n + v[7]

\* A bucket has room for perBucket(c) elements, a slot for every distance
Buckets(c) ==
  LET n == perBucket(c)
  IN /\ n \in Nat \ {0}
     /\ \A b \in 0..c - 1 :
          /\ b \div n < c \div n
          /\ \A d \in 0..n - 1 : /\ Xor(b, d, n) \in 0..c - 1
                               /\ \A e \in 0..n - 1 : Xor(b, d, n) = Xor(b, e, n) => d = e

\* The tables up to MaxCap that a grow may allocate: powers of two and sums of two of them.
\* The arithmetic is exact up to capacities of 256.
BucketsFit ==
  \A t \in 0..MaxCap : nextCap(t) <= MaxCap => nextCap(t) \in Nat \ {0} /\ Buckets(nextCap(t))

-----------------------------------------------------------------------------
(* Search *)

\* searchBase: the distances at which key k is met, as far as the loop goes
searchBase(k) ==
  LET n == eltsPerBucket
      slot(d) == Xor(base[k], d, n)
      match(d) == bitDiffs[slot(d)] = d + 1
      hit(d) == match(d) /\ elts[slot(d)] = k
      stop(d) == hit(d) \/ (~match(d) /\ d + 1 >= maxBucketBitDiffs[bucket(base[k])])
  IN {d \in 0..n - 1 : hit(d) /\ \A e \in 0..d - 1 : ~stop(e)}

Found(k) == cap > 0 /\ searchBase(k) # {}
SlotOf(k) == Xor(base[k], CHOOSE d \in searchBase(k) : TRUE, eltsPerBucket)

\* searchFreeIndex: the least distance from b whose slot is free in diffs
FreeDiffs(diffs, b, n) ==
  LET free == {d \in 0..n - 1 : diffs[Xor(b, d, n)] = 0}
  IN {d \in free : \A e \in free : d <= e}

\* No slot for key k: the table is empty, or the bucket is full
Full(k) == IF cap = 0 THEN TRUE ELSE FreeDiffs(bitDiffs, base[k], eltsPerBucket) = {}

\* Seeded bug: the largest distance of the bucket is not kept up
setMax_Forget(maxs, b, d, n) == maxs

\* bitDiff.set
setMax(maxs, b, d, n) == [maxs EXCEPT ![b \div n] = IF d + 1 > @ THEN d + 1 ELSE @]

-----------------------------------------------------------------------------

HashInit ==
  /\ cap = 0
  /\ bitDiffs = <<>> /\ maxBucketBitDiffs = <<>> /\ elts = <<>>
  /\ nElts = 0
  /\ base \in [Keys -> {0}]
  /\ stored = {}
  /\ adding = NoElt
  /\ tried = 0

\* Set: the key exists, or a free slot is used, or the table has to grow
Insert(k, d) ==
  LET i == Xor(base[k], d, eltsPerBucket)
  IN /\ bitDiffs' = [bitDiffs EXCEPT ![i] = d + 1]
     /\ maxBucketBitDiffs' = setMax(maxBucketBitDiffs, base[k], d, eltsPerBucket)
     /\ elts' = [elts EXCEPT ![i] = k]
     /\ nElts' = nElts + 1
     /\ stored' = stored \cup {k}
     /\ adding' = NoElt
     /\ UNCHANGED <<cap, base, tried>>

Set(k) ==
  /\ adding \in {NoElt, k}
  /\ ~Found(k)
  /\ \/ cap > 0 /\ \E d \in FreeDiffs(bitDiffs, base[k], eltsPerBucket) : Insert(k, d)
     \/ /\ Full(k)
        /\ adding = NoElt
        /\ adding' = k
        /\ UNCHANGED <<cap, bitDiffs, maxBucketBitDiffs, nElts, base, elts, stored, tried>>

NewTable(c) ==
  [ok |-> TRUE, n |-> 0,
   diffs |-> [i \in 0..c - 1 |-> 0],
   maxs |-> [i \in 0..(c \div perBucket(c)) - 1 |-> 0],
   elts |-> [i \in 0..c - 1 |-> NoElt]]

\* Table t with the element of old slot src, if there is one and t has room for it
CopyElt(t, src, c, newBase) ==
  LET n == perBucket(c)
      b == newBase[elts[src]]
      free == FreeDiffs(t.diffs, b, n)
      d == CHOOSE d \in free : TRUE
      i == Xor(b, d, n)
  IN IF ~t.ok \/ bitDiffs[src] = 0 THEN t
     ELSE IF free = {} THEN [t EXCEPT !.ok = FALSE]
     ELSE [ok |-> TRUE, n |-> t.n + 1, diffs |-> [t.diffs EXCEPT ![i] = d + 1],
           maxs |-> setMax(t.maxs, b, d, n), elts |-> [t.elts EXCEPT ![i] = elts[src]]]

\* copy: the elements of the old table, in the order of their slots, go to the
\* new one; ok is false when one finds its bucket full.
Copied(c, newBase) ==
  LET after[src \in -1..cap - 1] ==
        IF src = -1 THEN NewTable(c) ELSE CopyElt(after[src - 1], src, c, newBase)
  IN after[cap - 1]

\* One grow and copy with a new seed.  When the copy fails the old table stays
\* and the next grow starts from the larger capacity.
Grow ==
  /\ adding # NoElt
  /\ Full(adding)
  /\ LET c == nextCap(tried)
     IN /\ c <= MaxCap
        /\ tried' = c
        /\ \E newBase \in [Keys -> {b \in Bases : b < c}] :
             LET t == Copied(c, newBase)
             IN IF t.ok
                THEN /\ cap' = c
                     /\ bitDiffs' = t.diffs
                     /\ maxBucketBitDiffs' = t.maxs
                     /\ elts' = t.elts
                     /\ nElts' = t.n
                     /\ base' = newBase
                ELSE UNCHANGED <<cap, bitDiffs, maxBucketBitDiffs, elts, nElts, base>>
  /\ UNCHANGED <<stored, adding>>

\* The caller clears its own element
Unset(k) ==
  /\ adding = NoElt
  /\ Found(k)
  /\ bitDiffs' = [bitDiffs EXCEPT ![SlotOf(k)] = 0]
  /\ elts' = [elts EXCEPT ![SlotOf(k)] = NoElt]
  /\ nElts' = nElts - 1
  /\ stored' = stored \ {k}
  /\ UNCHANGED <<cap, maxBucketBitDiffs, base, adding, tried>>

Clear ==
  /\ adding = NoElt
  /\ cap > 0
  /\ bitDiffs' = [i \in DOMAIN bitDiffs |-> 0]
  /\ maxBucketBitDiffs' = [b \in DOMAIN maxBucketBitDiffs |-> 0]
  /\ elts' = [i \in DOMAIN elts |-> NoElt]
  /\ nElts' = 0
  /\ stored' = {}
  /\ UNCHANGED <<cap, base, adding, tried>>

HashNext == Grow \/ Clear \/ \E k \in Keys : Set(k) \/ Unset(k)

HashSpec == HashInit /\ [][HashNext]_hashVars

-----------------------------------------------------------------------------
(* Properties *)

\* Get finds exactly the keys that were set and not unset, however keys came,
\* went and moved when the table grew, and each at a slot of its own.
GetFinds ==
  /\ {k \in Keys : Found(k)} = stored
  /\ \A k \in stored : elts[SlotOf(k)] = k
  /\ nElts = Cardinality(stored)
  /\ {i \in Slots : bitDiffs[i] # 0} = {SlotOf(k) : k \in stored}

=============================================================================
