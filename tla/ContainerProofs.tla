-------------------------- MODULE ContainerProofs --------------------------
(***************************************************************************)
(* Theorems about Heap, Sparse, Pool, Hash and Bitmap: for heaps of any    *)
(* length and any sizes and alignments asked for, the chunks tile the      *)
(* heap, each is held by the caller it was given to or free, and the free  *)
(* lists know the free ones; for words of any width, arrays of any length  *)
(* and pools of any size, a dense index is the rank of the sparse one, and *)
(* an index is free once or held once; for any keys, wherever seeds put    *)
(* them, a table finds what was set and not unset; bitmaps with any        *)
(* number of words have the bits that their owners set, and Next finds     *)
(* these in increasing order.                                              *)
(***************************************************************************)
EXTENDS Heap, Hash, Bitmap, FiniteSetTheorems, WellFoundedInduction, TLAPS

-----------------------------------------------------------------------------
(* Heap: the inductive invariant *)

Element == [offset : Int, free : Int, next : Int, prev : Int]

Numbers(r) == {r[i] : i \in 1..Len(r)}
InUse(h) == DOMAIN h.elts \ Numbers(h.removed)
HeldIn(h) == {x \in InUse(h) : h.elts[x].free = MaxIndex}

\* A heap has elements numbered from 0, of which some, all different, are removed
IsHeap(h) ==
  h = [elts |-> h.elts, free |-> h.free, removed |-> h.removed,
       head |-> h.head, tail |-> h.tail, len |-> h.len, maxSize |-> h.maxSize]

Numbered(E, r) ==
  /\ \E n \in Nat : DOMAIN E = 0..n - 1
  /\ E \in [DOMAIN E -> Element]
  /\ r \in Seq(DOMAIN E)
  /\ \A i, j \in 1..Len(r) : r[i] = r[j] => i = j

IsLists(F) ==
  /\ DOMAIN F \subseteq Nat /\ F = [s \in DOMAIN F |-> F[s]]
  /\ \A s \in DOMAIN F : F[s] \in Seq(Nat)
  /\ F = <<>> \/ 0 \in DOMAIN F

Made(h) ==
  /\ IsHeap(h) /\ Numbered(h.elts, h.removed) /\ IsLists(h.free)
  /\ h.head \in Int /\ h.tail \in Int /\ h.len \in Nat /\ h.maxSize \in Nat

\* Chunk x has its place in the list of chunks, with one that ends where the next begins
Placed(h, x) ==
  LET e == h.elts[x]
  IN /\ e.offset >= 0 /\ size(h, x) > 0
     /\ (e.next = MaxIndex <=> x = h.tail) /\ (e.prev = MaxIndex <=> x = h.head)
     /\ x = h.head => e.offset = 0
     /\ e.next # MaxIndex => e.next \in InUse(h) /\ h.elts[e.next].prev = x
     /\ e.prev # MaxIndex => e.prev \in InUse(h) /\ h.elts[e.prev].next = x

Chained(h) ==
  /\ \A x \in InUse(h) : Placed(h, x)
  /\ InUse(h) = {} => h.len = 0 /\ DOMAIN h.elts = {}
  /\ h.len <= maxLen
  /\ InUse(h) # {} => h.head \in InUse(h) /\ h.tail \in InUse(h)

\* No two free chunks are neighbours
Separate(h) ==
  \A x \in InUse(h) \ HeldIn(h) : h.elts[x].next # MaxIndex => h.elts[x].next \in HeldIn(h)

\* Chunk x is number i of list s
Nth(F, s, i, x) == s \in DOMAIN F /\ i \in 1..Len(F[s]) /\ F[s][i] = x
At(h, s, i, x) == Nth(h.free, s, i, x)

\* A free chunk is in one place of one list, which it knows
Listed(h) ==
  /\ \A s, i, x : At(h, s, i, x) =>
       x \in InUse(h) /\ h.elts[x].free = i - 1 /\ s \in {0, size(h, x)}
  /\ \A s, t, i, j, x : At(h, s, i, x) /\ At(h, t, j, x) => s = t
  /\ \A x \in InUse(h) \ HeldIn(h) : \E s, i : At(h, s, i, x)

Sound(h) == Made(h) /\ Chained(h) /\ Separate(h) /\ Listed(h)

\* The chunks of S are in g where they were in h
Kept(h, g, S) == \A x \in S : g.elts[x].offset = h.elts[x].offset /\ size(g, x) = size(h, x)

\* What the operations on a sound heap h do: x was a part of the held chunk ei and is held
\* too; x was free and is held; x was held and is free
Parted(h, g, ei, x) ==
  Sound(g) /\ HeldIn(g) = HeldIn(h) \cup {x} /\ Kept(h, g, InUse(h) \ {ei})
NowHeld(h, g, x) ==
  /\ Sound(g) /\ x \notin HeldIn(h) /\ HeldIn(g) = HeldIn(h) \cup {x}
  /\ Kept(h, g, InUse(h)) /\ DOMAIN g.free = DOMAIN h.free
  /\ \A t, i, z : At(h, t, i, z) /\ z # x => \E j : At(g, t, j, z)
NowFree(h, g, x) ==
  Sound(g) /\ HeldIn(g) = HeldIn(h) \ {x} /\ Kept(h, g, InUse(h))

-----------------------------------------------------------------------------
(* Elements *)

LEMMA MadeFacts ==
  ASSUME NEW h, Made(h)
  PROVE  /\ \A x \in InUse(h) : /\ x \in Nat /\ x # MaxIndex /\ x \in DOMAIN h.elts
                                /\ h.elts[x] \in Element
                                /\ h.elts[x].offset \in Int /\ h.elts[x].free \in Int
                                /\ h.elts[x].next \in Int /\ h.elts[x].prev \in Int
         /\ HeldIn(h) \subseteq InUse(h)
         /\ h.len \in Nat /\ h.head \in Int /\ h.tail \in Int /\ h.maxSize \in Nat
<1>1. PICK n \in Nat : DOMAIN h.elts = 0..n - 1
  BY DEF Made, Numbered
<1>2. \A x \in DOMAIN h.elts : h.elts[x] \in Element
  BY DEF Made, Numbered
<1>3. \A e \in Element : e.offset \in Int /\ e.free \in Int /\ e.next \in Int /\ e.prev \in Int
  BY DEF Element
<1> QED
  BY <1>1, <1>2, <1>3 DEF Made, InUse, HeldIn, MaxIndex

LEMMA Lasts ==
  ASSUME NEW S, NEW r \in Seq(S), r # <<>>
  PROVE  /\ Len(r) \in Nat \ {0} /\ r[Len(r)] \in S
         /\ SubSeq(r, 1, Len(r) - 1) \in Seq(S) /\ Len(SubSeq(r, 1, Len(r) - 1)) = Len(r) - 1
         /\ \A i \in 1..Len(r) - 1 : SubSeq(r, 1, Len(r) - 1)[i] = r[i]
<1>1. Len(r) \in Nat \ {0} /\ r[Len(r)] \in S
  OBVIOUS
<1> DEFINE m == Len(r) - 1
<1>2. m \in Nat /\ m <= Len(r)
  BY <1>1
<1> HIDE DEF m
<1>3. /\ SubSeq(r, 1, m) \in Seq(S) /\ Len(SubSeq(r, 1, m)) = m
      /\ \A i \in 1..m : SubSeq(r, 1, m)[i] = r[i]
  BY <1>2
<1> QED
  BY <1>1, <1>3 DEF m

\* What newElt does to the elements E and the removed ones r
Rest(r) == IF r = <<>> THEN r ELSE SubSeq(r, 1, Len(r) - 1)
NextNumber(E, r) == IF r = <<>> THEN Cardinality(DOMAIN E) ELSE r[Len(r)]

OneMore(E, r, fi, E2, r2) ==
  /\ Numbered(E2, r2) /\ fi \in Nat /\ fi \notin DOMAIN E \ Numbers(r)
  /\ DOMAIN E2 \ Numbers(r2) = (DOMAIN E \ Numbers(r)) \cup {fi}

LEMMA FreshNumber ==
  ASSUME NEW E, NEW r, Numbered(E, r),
         NEW fi, fi = NextNumber(E, r),
         NEW E2, DOMAIN E2 = DOMAIN E \cup {fi}, E2 \in [DOMAIN E2 -> Element],
         NEW r2, r2 = Rest(r)
  PROVE  OneMore(E, r, fi, E2, r2)
<1>1. PICK n \in Nat : DOMAIN E = 0..n - 1
  BY DEF Numbered
<1>2. r \in Seq(DOMAIN E) /\ \A i, j \in 1..Len(r) : r[i] = r[j] => i = j
  BY DEF Numbered
<1> USE DEF NextNumber, Rest
<1>3. CASE r = <<>>
  <2>1. Cardinality(0..n - 1) = n
    <3> DEFINE m == n - 1
    <3>1. m \in Int /\ 0 \in Int /\ n = m + 1 /\ n >= 0
      OBVIOUS
    <3> HIDE DEF m
    <3>2. Cardinality(0..m) = IF 0 > m THEN 0 ELSE m - 0 + 1
      BY <3>1, FS_Interval
    <3>3. Cardinality(0..m) = n
      BY <3>1, <3>2
    <3> QED BY <3>3 DEF m
  <2>2. fi = n /\ r2 = <<>> /\ Numbers(r) = {} /\ Numbers(r2) = {}
    BY <1>1, <1>3, <2>1 DEF Numbers
  <2>3. DOMAIN E2 = 0..(n + 1) - 1 /\ n + 1 \in Nat
    BY <1>1, <2>2
  <2>4. r2 \in Seq(DOMAIN E2) /\ \A i, j \in 1..Len(r2) : r2[i] = r2[j] => i = j
    <3>1. <<>> \in Seq(DOMAIN E2) /\ 1..Len(<<>>) = {}
      OBVIOUS
    <3> QED BY <2>2, <3>1
  <2>5. Numbered(E2, r2)
    BY <2>3, <2>4 DEF Numbered
  <2>6. fi \notin DOMAIN E
    BY <1>1, <2>2
  <2> QED BY <2>2, <2>3, <2>5, <2>6, <1>1 DEF OneMore
<1>4. CASE r # <<>>
  <2>1. /\ Len(r) \in Nat \ {0} /\ fi \in DOMAIN E /\ fi = r[Len(r)]
        /\ r2 \in Seq(DOMAIN E) /\ Len(r2) = Len(r) - 1
        /\ \A i \in 1..Len(r) - 1 : r2[i] = r[i]
    BY <1>2, <1>4, Lasts
  <2>2. DOMAIN E2 = DOMAIN E /\ fi \in Nat
    BY <1>1, <2>1
  <2> DEFINE l == Len(r)
  <2>3. l \in Nat \ {0} /\ Len(r2) = l - 1 /\ Len(r) = l
    BY <2>1
  <2> HIDE DEF l
  <2>4. 1..l - 1 \subseteq 1..l /\ l \in 1..l /\ \A i \in 1..l : i # l => i \in 1..l - 1
    BY <2>3
  <2>5. \A i, j \in 1..l - 1 : r2[i] = r2[j] => i = j
    BY <1>2, <2>1, <2>3, <2>4
  <2>6. Numbered(E2, r2)
    BY <1>1, <2>1, <2>2, <2>3, <2>5 DEF Numbered
  <2>7. Numbers(r) = Numbers(r2) \cup {fi}
    <3>1. \A i \in 1..l - 1 : r2[i] = r[i]
      BY <2>1, <2>3
    <3>2. r[l] = fi
      BY <2>1, <2>3
    <3>3. Numbers(r) = {r[i] : i \in 1..l} /\ Numbers(r2) = {r2[i] : i \in 1..l - 1}
      BY <2>3 DEF Numbers
    <3>4. ASSUME NEW x \in Numbers(r) PROVE x \in Numbers(r2) \cup {fi}
      BY <2>4, <3>1, <3>2, <3>3, <3>4
    <3>5. ASSUME NEW x \in Numbers(r2) PROVE x \in Numbers(r)
      BY <2>4, <3>1, <3>3, <3>5
    <3>6. fi \in Numbers(r)
      BY <2>4, <3>2, <3>3
    <3> QED BY <3>4, <3>5, <3>6
  <2>8. fi \notin Numbers(r2)
    <3>1. \A i \in 1..l - 1 : r2[i] = r[i] /\ i # l
      BY <2>1, <2>3
    <3>2. r[l] = fi
      BY <2>1, <2>3
    <3> QED BY <1>2, <2>3, <2>4, <3>1, <3>2 DEF Numbers
  <2> QED BY <2>1, <2>2, <2>3, <2>6, <2>7, <2>8 DEF OneMore
<1> QED
  BY <1>3, <1>4

LEMMA SameFields ==
  ASSUME NEW h, IsHeap(h), NEW g, DOMAIN g = DOMAIN h, g = [f \in DOMAIN g |-> g[f]]
  PROVE  IsHeap(g)
<1>1. DOMAIN h = {"elts", "free", "removed", "head", "tail", "len", "maxSize"}
  BY DEF IsHeap
<1> QED
  BY <1>1 DEF IsHeap

\* newElt: one more chunk, which nobody had
LEMMA NewEltIs ==
  ASSUME NEW h, Made(h), NEW fi, fi = fresh(h)
  PROVE  /\ Made(newElt(h)) /\ fi \in Nat /\ fi \notin InUse(h)
         /\ InUse(newElt(h)) = InUse(h) \cup {fi}
         /\ DOMAIN newElt(h).elts = DOMAIN h.elts \cup {fi}
         /\ \A x \in DOMAIN h.elts \cup {fi} :
              newElt(h).elts[x] = IF x = fi THEN poison ELSE h.elts[x]
         /\ newElt(h).removed = Rest(h.removed)
         /\ newElt(h).free = h.free /\ newElt(h).head = h.head /\ newElt(h).tail = h.tail
         /\ newElt(h).len = h.len /\ newElt(h).maxSize = h.maxSize
<1> DEFINE g == newElt(h)
           E2 == [x \in DOMAIN h.elts \cup {fi} |-> IF x = fi THEN poison ELSE h.elts[x]]
           r2 == Rest(h.removed)
<1>1. IsHeap(h) /\ g = [h EXCEPT !.elts = E2, !.removed = r2]
  BY DEF newElt, Made, Rest
<1>2. Numbered(h.elts, h.removed)
  BY DEF Made
<1>3. fi = NextNumber(h.elts, h.removed)
  BY DEF fresh, NextNumber
<1>4. E2 \in [DOMAIN E2 -> Element] /\ DOMAIN E2 = DOMAIN h.elts \cup {fi}
  BY <1>2 DEF Numbered, poison, Element, MaxIndex
<1> HIDE DEF E2, r2, g
<1>5. OneMore(h.elts, h.removed, fi, E2, r2)
  <2>1. r2 = Rest(h.removed)
    BY DEF r2
  <2> QED BY <1>2, <1>3, <1>4, <2>1, FreshNumber, Zenon
<1>6. /\ g.elts = E2 /\ g.removed = r2 /\ g.free = h.free /\ g.head = h.head /\ g.tail = h.tail
      /\ g.len = h.len /\ g.maxSize = h.maxSize /\ IsHeap(g)
  <2>1. DOMAIN g = DOMAIN h /\ g = [f \in DOMAIN g |-> g[f]]
    BY <1>1
  <2>2. IsHeap(g)
    BY <1>1, <2>1, SameFields
  <2> QED BY <1>1, <2>2 DEF IsHeap
<1>7. Made(g)
  BY <1>5, <1>6 DEF Made, OneMore
<1>8. InUse(g) = InUse(h) \cup {fi} /\ fi \notin InUse(h)
  BY <1>5, <1>6 DEF InUse, OneMore
<1>9. \A x \in DOMAIN h.elts \cup {fi} : E2[x] = IF x = fi THEN poison ELSE h.elts[x]
  BY DEF E2
<1> QED
  BY <1>4, <1>5, <1>6, <1>7, <1>8, <1>9 DEF g, r2, OneMore

\* A heap with the same elements in use
LEMMA Remade ==
  ASSUME NEW h, Made(h), NEW g, IsHeap(g), DOMAIN g.elts = DOMAIN h.elts,
         g.elts \in [DOMAIN g.elts -> Element], g.removed = h.removed, IsLists(g.free),
         g.head \in Int, g.tail \in Int, g.len \in Nat, g.maxSize \in Nat
  PROVE  Made(g) /\ InUse(g) = InUse(h)
BY DEF Made, Numbered, InUse

LEMMA ElementFields ==
  ASSUME NEW e \in Element, NEW x \in Int
  PROVE  /\ [e EXCEPT !.next = x] \in Element /\ [e EXCEPT !.prev = x] \in Element
         /\ [e EXCEPT !.offset = x] \in Element /\ [e EXCEPT !.free = x] \in Element
         /\ LET f == [e EXCEPT !.next = x]
            IN f.next = x /\ f.offset = e.offset /\ f.free = e.free /\ f.prev = e.prev
         /\ LET f == [e EXCEPT !.prev = x]
            IN f.prev = x /\ f.offset = e.offset /\ f.free = e.free /\ f.next = e.next
         /\ LET f == [e EXCEPT !.offset = x]
            IN f.offset = x /\ f.next = e.next /\ f.free = e.free /\ f.prev = e.prev
         /\ LET f == [e EXCEPT !.free = x]
            IN f.free = x /\ f.next = e.next /\ f.offset = e.offset /\ f.prev = e.prev
BY DEF Element

\* newEltAfter: fi begins at off and ends where ei did
FollowedBy(h, g, ei, fi, off) ==
  /\ Made(g) /\ fi \in Nat /\ fi \notin InUse(h) /\ InUse(g) = InUse(h) \cup {fi}
  /\ g.elts[fi].offset = off /\ g.elts[fi].free = MaxIndex
  /\ g.elts[fi].next = h.elts[ei].next /\ g.elts[fi].prev = ei
  /\ \A x \in InUse(h) :
       /\ g.elts[x].offset = h.elts[x].offset /\ g.elts[x].free = h.elts[x].free
       /\ g.elts[x].next = IF x = ei THEN fi ELSE h.elts[x].next
       /\ g.elts[x].prev = IF x = h.elts[ei].next THEN fi ELSE h.elts[x].prev
  /\ g.free = h.free /\ g.head = h.head /\ g.len = h.len /\ g.maxSize = h.maxSize
  /\ g.tail = IF h.elts[ei].next = MaxIndex THEN fi ELSE h.tail

LEMMA NewEltAfterIs ==
  ASSUME NEW h, Made(h), NEW ei \in InUse(h), h.elts[ei].next # ei, NEW fi, fi = fresh(h), NEW off \in Int
  PROVE  FollowedBy(h, newEltAfter(h, ei, off), ei, fi, off)
<1> DEFINE n == newElt(h)
           nn == h.elts[ei].next
           new == [offset |-> off, free |-> MaxIndex, next |-> nn, prev |-> ei]
           E2 == [x \in DOMAIN n.elts |->
                    IF x = fi THEN new
                    ELSE IF x = ei THEN [n.elts[x] EXCEPT !.next = fi]
                    ELSE IF x = nn THEN [n.elts[x] EXCEPT !.prev = fi] ELSE n.elts[x]]
           tl == IF nn = MaxIndex THEN fi ELSE n.tail
           g == newEltAfter(h, ei, off)
<1>1. /\ Made(n) /\ fi \in Nat /\ fi \notin InUse(h) /\ InUse(n) = InUse(h) \cup {fi}
      /\ DOMAIN n.elts = DOMAIN h.elts \cup {fi}
      /\ \A x \in DOMAIN h.elts \cup {fi} : n.elts[x] = IF x = fi THEN poison ELSE h.elts[x]
      /\ n.free = h.free /\ n.head = h.head /\ n.tail = h.tail /\ n.len = h.len
      /\ n.maxSize = h.maxSize
  BY NewEltIs
<1>2. g = [n EXCEPT !.elts = E2, !.tail = tl]
  BY DEF newEltAfter
<1>3. /\ nn \in Int /\ ei \in Int /\ ei # fi /\ ei \in DOMAIN h.elts /\ h.elts[ei] \in Element
      /\ \A x \in InUse(h) : x \in DOMAIN h.elts /\ x # fi /\ h.elts[x] \in Element
  BY <1>1, MadeFacts
<1>4. /\ \A x \in InUse(h) : n.elts[x] = h.elts[x] /\ x \in DOMAIN n.elts
      /\ fi \in DOMAIN n.elts /\ \A x \in DOMAIN n.elts : n.elts[x] \in Element
  BY <1>1, <1>3 DEF Made, Numbered
<1>5. new \in Element /\ fi \in Int /\ tl \in Int
  BY <1>1, <1>3 DEF Element, MaxIndex, Made
<1>6. E2 \in [DOMAIN E2 -> Element] /\ DOMAIN E2 = DOMAIN n.elts
  <2> HIDE DEF n, new, nn, tl, g
  <2> QED BY <1>4, <1>5, ElementFields
<1>7. /\ E2[fi] = new
      /\ \A x \in InUse(h) :
           E2[x] = IF x = ei THEN [h.elts[x] EXCEPT !.next = fi]
                   ELSE IF x = nn THEN [h.elts[x] EXCEPT !.prev = fi] ELSE h.elts[x]
  <2> HIDE DEF n, new, nn, tl, g
  <2> QED BY <1>3, <1>4
<1>8. /\ new.offset = off /\ new.free = MaxIndex /\ new.next = nn /\ new.prev = ei
  OBVIOUS
<1> HIDE DEF E2, new, n, tl, g
<1>9. /\ g.elts = E2 /\ g.removed = n.removed /\ g.free = n.free /\ g.head = n.head /\ g.tail = tl
      /\ g.len = n.len /\ g.maxSize = n.maxSize /\ IsHeap(g)
  <2>1. IsHeap(n)
    BY <1>1 DEF Made
  <2>2. DOMAIN g = DOMAIN n /\ g = [f \in DOMAIN g |-> g[f]]
    BY <1>2
  <2>3. IsHeap(g)
    BY <2>1, <2>2, SameFields
  <2> QED BY <1>2, <2>1, <2>3 DEF IsHeap
<1>10. Made(g) /\ InUse(g) = InUse(h) \cup {fi}
  <2>1. IsLists(n.free) /\ n.head \in Int /\ n.len \in Nat /\ n.maxSize \in Nat
    BY <1>1 DEF Made
  <2> QED BY <1>1, <1>5, <1>6, <1>9, <2>1, Remade
<1>11. ASSUME NEW x \in InUse(h)
       PROVE  /\ E2[x].offset = h.elts[x].offset /\ E2[x].free = h.elts[x].free
              /\ E2[x].next = IF x = ei THEN fi ELSE h.elts[x].next
              /\ E2[x].prev = IF x = nn THEN fi ELSE h.elts[x].prev
  <2> DEFINE e == h.elts[x]
  <2>1. e \in Element /\ nn # ei /\ fi \in Int
    BY <1>3, <1>5
  <2>2. E2[x] = IF x = ei THEN [e EXCEPT !.next = fi]
                ELSE IF x = nn THEN [e EXCEPT !.prev = fi] ELSE e
    BY <1>7
  <2> HIDE DEF e, nn
  <2>3. CASE x = ei
    BY <2>1, <2>2, <2>3, ElementFields DEF e
  <2>4. CASE x # ei /\ x = nn
    BY <2>1, <2>2, <2>4, ElementFields DEF e
  <2>5. CASE x # ei /\ x # nn
    BY <2>2, <2>5 DEF e
  <2> QED BY <2>3, <2>4, <2>5
<1>12. tl = IF nn = MaxIndex THEN fi ELSE h.tail
  BY <1>1 DEF tl
<1> QED
  BY <1>1, <1>7, <1>8, <1>9, <1>10, <1>11, <1>12 DEF FollowedBy, g

\* The end of a chunk
EndOf(h, x) == IF h.elts[x].next = MaxIndex THEN h.len ELSE h.elts[h.elts[x].next].offset

LEMMA SizeIs ==
  ASSUME NEW h, Made(h), Chained(h), NEW x \in InUse(h)
  PROVE  /\ size(h, x) = EndOf(h, x) - h.elts[x].offset
         /\ EndOf(h, x) \in Int /\ h.elts[x].offset \in Int /\ size(h, x) \in Int
         /\ h.elts[x].offset < EndOf(h, x) /\ h.elts[x].offset >= 0 /\ size(h, x) > 0
<1>1. Placed(h, x)
  BY DEF Chained
<1>2. h.elts[x].next = MaxIndex \/ h.elts[x].next \in InUse(h)
  BY <1>1 DEF Placed
<1>3. h.len \in Int /\ \A y \in InUse(h) : h.elts[y].offset \in Int
  BY MadeFacts
<1>4. size(h, x) = EndOf(h, x) - h.elts[x].offset
  BY DEF size, EndOf
<1>5. EndOf(h, x) \in Int
  BY <1>2, <1>3 DEF EndOf
<1>6. size(h, x) > 0 /\ h.elts[x].offset >= 0
  BY <1>1 DEF Placed
<1> QED
  BY <1>3, <1>4, <1>5, <1>6

\* The lists are as they were, and the free chunks too
LEMMA ListsStay ==
  ASSUME NEW h, Listed(h), NEW g, g.free = h.free,
         InUse(g) \ HeldIn(g) = InUse(h) \ HeldIn(h),
         \A x \in InUse(h) \ HeldIn(h) : g.elts[x].free = h.elts[x].free /\ size(g, x) = size(h, x)
  PROVE  Listed(g)
<1>1. \A s, i, x : At(g, s, i, x) <=> At(h, s, i, x)
  BY DEF At, Nth
<1>2. ASSUME NEW s, NEW i, NEW x, At(g, s, i, x)
      PROVE  x \in InUse(g) /\ g.elts[x].free = i - 1 /\ s \in {0, size(g, x)}
  <2>1. At(h, s, i, x)
    BY <1>1, <1>2
  <2>2. x \in InUse(h) /\ h.elts[x].free = i - 1 /\ s \in {0, size(h, x)}
    BY <2>1 DEF Listed
  <2>3. i - 1 # MaxIndex
    BY <2>1 DEF At, Nth, MaxIndex
  <2>4. x \in InUse(h) \ HeldIn(h)
    BY <2>2, <2>3 DEF HeldIn
  <2> QED BY <2>2, <2>4
<1>3. \A s, t, i, j, x : At(g, s, i, x) /\ At(g, t, j, x) => s = t
  BY <1>1 DEF Listed
<1>4. \A x \in InUse(g) \ HeldIn(g) : \E s, i : At(g, s, i, x)
  BY <1>1 DEF Listed
<1> QED
  BY <1>2, <1>3, <1>4 DEF Listed

LEMMA AfterKeeps ==
  ASSUME NEW h, Sound(h), NEW ei \in HeldIn(h), NEW fi, NEW off \in Int, NEW g,
         FollowedBy(h, g, ei, fi, off), h.elts[ei].offset < off, off < EndOf(h, ei)
  PROVE  /\ Parted(h, g, ei, fi)
         /\ size(g, ei) = off - h.elts[ei].offset /\ g.elts[ei].offset = h.elts[ei].offset
         /\ size(g, fi) = EndOf(h, ei) - off
<1> DEFINE nn == h.elts[ei].next
<1>1. /\ ei \in InUse(h) /\ Made(h) /\ Chained(h) /\ Made(g) /\ Placed(h, ei) /\ fi \in Int /\ fi # MaxIndex
      /\ fi \notin InUse(h) /\ InUse(g) = InUse(h) \cup {fi} /\ nn \in Int
      /\ nn # MaxIndex => nn \in InUse(h) /\ nn # fi
  BY MadeFacts DEF Sound, HeldIn, FollowedBy, Chained, Placed, MaxIndex
<1>2. \A x \in InUse(h) : /\ x \in Nat /\ x # MaxIndex /\ x # fi
                          /\ h.elts[x].offset \in Int /\ h.elts[x].offset < EndOf(h, x)
                          /\ EndOf(h, x) \in Int /\ h.elts[x].offset >= 0
                          /\ h.elts[x].next \in Int /\ h.elts[x].prev \in Int
  BY <1>1, MadeFacts, SizeIs
<1>3. \A x \in InUse(h) : Placed(h, x)
  BY <1>1 DEF Chained
<1>4. /\ nn # ei /\ nn # fi
  BY <1>1, <1>2 DEF EndOf
<1>5. \A x \in InUse(h) : x # ei => EndOf(g, x) = EndOf(h, x)
  BY <1>1, <1>2, <1>3 DEF FollowedBy, EndOf, Placed
<1>6. EndOf(g, ei) = off /\ EndOf(g, fi) = EndOf(h, ei)
  BY <1>1, <1>2, <1>4 DEF FollowedBy, EndOf
<1>7. \A x \in InUse(g) : size(g, x) = EndOf(g, x) - g.elts[x].offset
  BY DEF size, EndOf
<1>8. \A x \in InUse(h) : size(h, x) = EndOf(h, x) - h.elts[x].offset
  BY DEF size, EndOf
<1>9. \A x \in InUse(h) \ {ei} : g.elts[x].offset = h.elts[x].offset /\ size(g, x) = size(h, x)
  BY <1>1, <1>5, <1>7, <1>8 DEF FollowedBy
<1>10. /\ size(g, ei) = off - h.elts[ei].offset /\ g.elts[ei].offset = h.elts[ei].offset
       /\ size(g, fi) = EndOf(h, ei) - off
  BY <1>1, <1>6, <1>7 DEF FollowedBy
<1>11. HeldIn(g) = HeldIn(h) \cup {fi} /\ InUse(g) \ HeldIn(g) = InUse(h) \ HeldIn(h)
  BY <1>1 DEF HeldIn, FollowedBy
<1>12. Chained(g)
  <2>1. ASSUME NEW x \in InUse(g) PROVE Placed(g, x)
    <3>0. h.head \in InUse(h) /\ h.head # fi
      BY <1>1 DEF Chained
    <3>1. CASE x = fi
      <4>1. size(g, fi) > 0 /\ g.elts[fi].offset >= 0 /\ fi # g.head
        BY <1>1, <1>2, <1>10, <3>0 DEF FollowedBy
      <4>2. /\ g.elts[fi].next = nn /\ g.elts[fi].prev = ei /\ ei # MaxIndex
            /\ g.elts[ei].next = fi /\ ei \in InUse(g)
        BY <1>1, <1>2 DEF FollowedBy
      <4>3. nn # MaxIndex => nn \in InUse(g) /\ g.elts[nn].prev = fi
        BY <1>1 DEF FollowedBy
      <4>4. nn = MaxIndex <=> fi = g.tail
        BY <1>1 DEF FollowedBy, Chained
      <4> QED BY <3>1, <4>1, <4>2, <4>3, <4>4 DEF Placed
    <3>2. CASE x = ei
      BY <1>1, <1>2, <1>3, <1>4, <1>6, <1>7, <1>10, <3>2 DEF FollowedBy, Placed
    <3>3. CASE x \in InUse(h) /\ x # ei
      <4>1. size(g, x) > 0 /\ g.elts[x].offset >= 0 /\ g.elts[x].offset = h.elts[x].offset
        BY <1>2, <1>3, <1>9, <3>3 DEF Placed
      <4>2. /\ g.elts[x].next = h.elts[x].next
            /\ g.elts[x].prev = IF x = nn THEN fi ELSE h.elts[x].prev
        BY <3>3 DEF FollowedBy
      <4>3. Placed(h, x)
        BY <1>3, <3>3
      <4>4. g.elts[x].next # MaxIndex =>
              g.elts[x].next \in InUse(g) /\ g.elts[g.elts[x].next].prev = x
        BY <1>1, <1>2, <3>3, <4>2, <4>3 DEF FollowedBy, Placed
      <4>5. g.elts[x].prev # MaxIndex =>
              g.elts[x].prev \in InUse(g) /\ g.elts[g.elts[x].prev].next = x
        BY <1>1, <1>2, <1>4, <3>3, <4>2, <4>3 DEF FollowedBy, Placed
      <4>6. /\ (g.elts[x].next = MaxIndex <=> x = g.tail) /\ (g.elts[x].prev = MaxIndex <=> x = g.head)
            /\ x = g.head => g.elts[x].offset = 0
        BY <1>1, <1>2, <3>3, <4>1, <4>2, <4>3 DEF FollowedBy, Placed
      <4> QED BY <4>1, <4>4, <4>5, <4>6 DEF Placed
    <3> QED BY <1>1, <3>1, <3>2, <3>3
  <2>2. g.head \in InUse(g) /\ g.tail \in InUse(g) /\ InUse(g) # {}
    BY <1>1 DEF FollowedBy, Chained
  <2>3. g.len <= maxLen
    BY <1>1 DEF FollowedBy, Chained
  <2> QED BY <2>1, <2>2, <2>3 DEF Chained
<1>13. Separate(g)
  BY <1>1, <1>11 DEF Sound, Separate, FollowedBy, HeldIn
<1>14. Listed(g)
  <2>1. \A x \in InUse(h) \ HeldIn(h) : g.elts[x].free = h.elts[x].free /\ size(g, x) = size(h, x)
    BY <1>9 DEF FollowedBy
  <2>2. g.free = h.free /\ Listed(h)
    BY DEF FollowedBy, Sound
  <2> QED BY <1>11, <2>1, <2>2, ListsStay
<1> QED
  BY <1>1, <1>9, <1>10, <1>11, <1>12, <1>13, <1>14 DEF Sound, Kept, Parted

\* newEltBefore, and ei moved up to ao: fi begins where ei did and ends at ao
Before(h, g, ei, fi, ao) ==
  /\ Made(g) /\ fi \in Nat /\ fi \notin InUse(h) /\ InUse(g) = InUse(h) \cup {fi}
  /\ g.elts[fi].offset = h.elts[ei].offset /\ g.elts[fi].free = MaxIndex
  /\ g.elts[fi].next = ei /\ g.elts[fi].prev = h.elts[ei].prev
  /\ \A x \in InUse(h) :
       /\ g.elts[x].offset = IF x = ei THEN ao ELSE h.elts[x].offset
       /\ g.elts[x].free = h.elts[x].free
       /\ g.elts[x].next = IF x = h.elts[ei].prev THEN fi ELSE h.elts[x].next
       /\ g.elts[x].prev = IF x = ei THEN fi ELSE h.elts[x].prev
  /\ g.free = h.free /\ g.tail = h.tail /\ g.len = h.len /\ g.maxSize = h.maxSize
  /\ g.head = IF h.elts[ei].prev = MaxIndex THEN fi ELSE h.head

LEMMA NewEltBeforeIs ==
  ASSUME NEW h, Made(h), NEW ei \in InUse(h), h.elts[ei].prev # ei, NEW fi, fi = fresh(h), NEW ao \in Int
  PROVE  Before(h, [newEltBefore(h, ei, h.elts[ei].offset) EXCEPT !.elts[ei].offset = ao], ei, fi, ao)
<1> DEFINE n == newElt(h)
           pp == h.elts[ei].prev
           off == h.elts[ei].offset
           new == [offset |-> off, free |-> MaxIndex, next |-> ei, prev |-> pp]
           E2 == [x \in DOMAIN n.elts |->
                    IF x = fi THEN new
                    ELSE IF x = ei THEN [n.elts[x] EXCEPT !.prev = fi]
                    ELSE IF x = pp THEN [n.elts[x] EXCEPT !.next = fi] ELSE n.elts[x]]
           E3 == [E2 EXCEPT ![ei].offset = ao]
           hd == IF pp = MaxIndex THEN fi ELSE n.head
           b == newEltBefore(h, ei, off)
           g == [b EXCEPT !.elts[ei].offset = ao]
<1>1. /\ Made(n) /\ fi \in Nat /\ fi \notin InUse(h) /\ InUse(n) = InUse(h) \cup {fi}
      /\ DOMAIN n.elts = DOMAIN h.elts \cup {fi}
      /\ \A x \in DOMAIN h.elts \cup {fi} : n.elts[x] = IF x = fi THEN poison ELSE h.elts[x]
      /\ n.free = h.free /\ n.head = h.head /\ n.tail = h.tail /\ n.len = h.len
      /\ n.maxSize = h.maxSize
  BY NewEltIs
<1>2. b = [n EXCEPT !.elts = E2, !.head = hd]
  BY DEF newEltBefore
<1>3. /\ pp \in Int /\ ei \in Int /\ ei # fi /\ ei \in DOMAIN h.elts /\ off \in Int
      /\ \A x \in InUse(h) : x \in DOMAIN h.elts /\ x # fi /\ h.elts[x] \in Element
  BY <1>1, MadeFacts
<1>4. /\ \A x \in InUse(h) : n.elts[x] = h.elts[x] /\ x \in DOMAIN n.elts
      /\ fi \in DOMAIN n.elts /\ \A x \in DOMAIN n.elts : n.elts[x] \in Element
  BY <1>1, <1>3 DEF Made, Numbered
<1>5. new \in Element /\ fi \in Int /\ hd \in Int
  BY <1>1, <1>3 DEF Element, MaxIndex, Made
<1>6. E2 \in [DOMAIN E2 -> Element] /\ DOMAIN E2 = DOMAIN n.elts
  <2> HIDE DEF n, new, pp, hd, g, b, off
  <2> QED BY <1>4, <1>5, ElementFields
<1>7. /\ E2[fi] = new
      /\ \A x \in InUse(h) :
           E2[x] = IF x = ei THEN [h.elts[x] EXCEPT !.prev = fi]
                   ELSE IF x = pp THEN [h.elts[x] EXCEPT !.next = fi] ELSE h.elts[x]
  <2> HIDE DEF n, new, pp, hd, g, b, off
  <2> QED BY <1>3, <1>4
<1>8. /\ new.offset = off /\ new.free = MaxIndex /\ new.next = ei /\ new.prev = pp
  OBVIOUS
<1> HIDE DEF E2, new, n, hd, b
<1>9. /\ E3 \in [DOMAIN E3 -> Element] /\ DOMAIN E3 = DOMAIN n.elts
      /\ \A x \in DOMAIN n.elts : E3[x] = IF x = ei THEN [E2[x] EXCEPT !.offset = ao] ELSE E2[x]
  <2>1. ei \in DOMAIN E2 /\ [E2[ei] EXCEPT !.offset = ao] \in Element
    BY <1>4, <1>6, ElementFields
  <2> QED BY <1>6, <2>1
<1>10. /\ g.elts = E3 /\ g.removed = n.removed /\ g.free = n.free /\ g.head = hd /\ g.tail = n.tail
       /\ g.len = n.len /\ g.maxSize = n.maxSize /\ IsHeap(g)
  <2>1. IsHeap(n)
    BY <1>1 DEF Made
  <2>2. DOMAIN b = DOMAIN n /\ b = [f \in DOMAIN b |-> b[f]]
    BY <1>2
  <2>3. IsHeap(b)
    BY <2>1, <2>2, SameFields
  <2>4. b.elts = E2
    BY <1>2, <2>1 DEF IsHeap
  <2>5. g = [b EXCEPT !.elts = E3]
    BY <2>3, <2>4 DEF IsHeap
  <2> HIDE DEF g, E3
  <2>6. DOMAIN g = DOMAIN b /\ g = [f \in DOMAIN g |-> g[f]]
    BY <2>5
  <2>7. IsHeap(g)
    BY <2>3, <2>6, SameFields
  <2> QED BY <1>2, <2>1, <2>3, <2>5, <2>7 DEF IsHeap
<1> HIDE DEF E3, g
<1>11. Made(g) /\ InUse(g) = InUse(h) \cup {fi}
  <2>1. IsLists(n.free) /\ n.tail \in Int /\ n.len \in Nat /\ n.maxSize \in Nat
    BY <1>1 DEF Made
  <2> QED BY <1>1, <1>5, <1>9, <1>10, <2>1, Remade
<1>12. ASSUME NEW x \in InUse(h)
       PROVE  /\ E3[x].offset = IF x = ei THEN ao ELSE h.elts[x].offset
              /\ E3[x].free = h.elts[x].free
              /\ E3[x].next = IF x = pp THEN fi ELSE h.elts[x].next
              /\ E3[x].prev = IF x = ei THEN fi ELSE h.elts[x].prev
  <2> DEFINE e == h.elts[x]
             d == [e EXCEPT !.prev = fi]
  <2>1. e \in Element /\ pp # ei /\ fi \in Int /\ x \in DOMAIN n.elts
    BY <1>3, <1>4, <1>5
  <2>2. E2[x] = IF x = ei THEN d
                ELSE IF x = pp THEN [e EXCEPT !.next = fi] ELSE e
    BY <1>7
  <2>3. E3[x] = IF x = ei THEN [E2[x] EXCEPT !.offset = ao] ELSE E2[x]
    BY <1>9, <2>1
  <2> HIDE DEF e, pp
  <2>4. d \in Element /\ d.prev = fi /\ d.free = e.free /\ d.next = e.next
    BY <2>1 DEF Element
  <2> HIDE DEF d
  <2>5. CASE x = ei
    <3>1. E3[x] = [d EXCEPT !.offset = ao]
      BY <2>2, <2>3, <2>5
    <3>2. E3[x].offset = ao /\ E3[x].free = d.free /\ E3[x].next = d.next /\ E3[x].prev = d.prev
      BY <2>4, <3>1, ElementFields
    <3> QED BY <2>1, <2>4, <2>5, <3>2 DEF e
  <2>6. CASE x # ei /\ x = pp
    BY <2>1, <2>2, <2>3, <2>6, ElementFields DEF e
  <2>7. CASE x # ei /\ x # pp
    BY <2>2, <2>3, <2>7 DEF e
  <2> QED BY <2>5, <2>6, <2>7
<1>13. E3[fi].offset = off /\ E3[fi].free = MaxIndex /\ E3[fi].next = ei /\ E3[fi].prev = pp
  BY <1>3, <1>4, <1>7, <1>8, <1>9
<1>14. hd = IF pp = MaxIndex THEN fi ELSE h.head
  BY <1>1 DEF hd
<1>15. Before(h, g, ei, fi, ao)
  BY <1>1, <1>10, <1>11, <1>12, <1>13, <1>14 DEF Before
<1> QED
  BY <1>15 DEF g, b

LEMMA BeforeKeeps ==
  ASSUME NEW h, Sound(h), NEW ei \in HeldIn(h), NEW fi, NEW ao \in Int, NEW g,
         Before(h, g, ei, fi, ao), h.elts[ei].offset < ao, ao < EndOf(h, ei)
  PROVE  /\ Parted(h, g, ei, fi)
         /\ size(g, ei) = EndOf(h, ei) - ao /\ g.elts[ei].offset = ao
         /\ size(g, fi) = ao - h.elts[ei].offset
<1> DEFINE pp == h.elts[ei].prev
<1>1. /\ ei \in InUse(h) /\ Made(h) /\ Chained(h) /\ Made(g) /\ Placed(h, ei) /\ fi \in Int /\ fi # MaxIndex
      /\ fi \notin InUse(h) /\ InUse(g) = InUse(h) \cup {fi} /\ pp \in Int
      /\ pp # MaxIndex => pp \in InUse(h) /\ pp # fi
  BY MadeFacts DEF Sound, HeldIn, Before, Chained, Placed, MaxIndex
<1>2. \A x \in InUse(h) : /\ x \in Nat /\ x # MaxIndex /\ x # fi
                          /\ h.elts[x].offset \in Int /\ h.elts[x].offset < EndOf(h, x)
                          /\ EndOf(h, x) \in Int /\ h.elts[x].offset >= 0
                          /\ h.elts[x].next \in Int /\ h.elts[x].prev \in Int
  BY <1>1, MadeFacts, SizeIs
<1>3. \A x \in InUse(h) : Placed(h, x)
  BY <1>1 DEF Chained
<1>4. pp # ei /\ pp # fi /\ h.elts[ei].next # ei /\ h.elts[ei].next # fi
  BY <1>1, <1>2 DEF EndOf, Placed
<1>5. \A x \in InUse(h) : EndOf(g, x) = EndOf(h, x)
  <2> TAKE x \in InUse(h)
  <2>1. CASE x = pp
    <3>1. h.elts[x].next = ei /\ ei # MaxIndex
      BY <1>1, <1>2, <2>1 DEF Placed
    <3>2. g.elts[x].next = fi /\ g.elts[fi].offset = h.elts[ei].offset
      BY <2>1 DEF Before
    <3> QED BY <1>1, <3>1, <3>2 DEF EndOf
  <2>2. CASE x # pp
    <3>1. g.elts[x].next = h.elts[x].next /\ g.len = h.len
      BY <2>2 DEF Before
    <3>2. h.elts[x].next # MaxIndex => h.elts[x].next \in InUse(h) /\ h.elts[h.elts[x].next].prev = x
      BY <1>3 DEF Placed
    <3>3. h.elts[x].next # ei
      BY <1>1, <1>2, <2>2, <3>2
    <3>4. h.elts[x].next # MaxIndex => g.elts[h.elts[x].next].offset = h.elts[h.elts[x].next].offset
      BY <3>2, <3>3 DEF Before
    <3> QED BY <3>1, <3>4 DEF EndOf
  <2> QED BY <2>1, <2>2
<1>6. EndOf(g, fi) = ao
  BY <1>1, <1>2 DEF Before, EndOf
<1>7. \A x \in InUse(g) : size(g, x) = EndOf(g, x) - g.elts[x].offset
  BY DEF size, EndOf
<1>8. \A x \in InUse(h) : size(h, x) = EndOf(h, x) - h.elts[x].offset
  BY DEF size, EndOf
<1>9. \A x \in InUse(h) \ {ei} : g.elts[x].offset = h.elts[x].offset /\ size(g, x) = size(h, x)
  BY <1>1, <1>5, <1>7, <1>8 DEF Before
<1>10. /\ size(g, ei) = EndOf(h, ei) - ao /\ g.elts[ei].offset = ao
       /\ size(g, fi) = ao - h.elts[ei].offset
  BY <1>1, <1>5, <1>6, <1>7 DEF Before
<1>11. HeldIn(g) = HeldIn(h) \cup {fi} /\ InUse(g) \ HeldIn(g) = InUse(h) \ HeldIn(h)
  BY <1>1 DEF HeldIn, Before
<1>12. Chained(g)
  <2>1. ASSUME NEW x \in InUse(g) PROVE Placed(g, x)
    <3>0. h.tail \in InUse(h) /\ h.tail # fi
      BY <1>1 DEF Chained
    <3>1. CASE x = fi
      <4>1. size(g, fi) > 0 /\ g.elts[fi].offset >= 0 /\ fi # g.tail
        BY <1>1, <1>2, <1>10, <3>0 DEF Before
      <4>2. /\ g.elts[fi].next = ei /\ g.elts[fi].prev = pp /\ ei # MaxIndex
            /\ g.elts[ei].prev = fi /\ ei \in InUse(g)
        BY <1>1, <1>2 DEF Before
      <4>3. pp # MaxIndex => pp \in InUse(g) /\ g.elts[pp].next = fi
        BY <1>1 DEF Before
      <4>4. (pp = MaxIndex <=> fi = g.head) /\ (fi = g.head => g.elts[fi].offset = 0)
        BY <1>1 DEF Before, Chained, Placed
      <4> QED BY <3>1, <4>1, <4>2, <4>3, <4>4 DEF Placed
    <3>2. CASE x = ei
      <4>1. size(g, x) > 0 /\ g.elts[x].offset >= 0
        BY <1>1, <1>2, <1>10, <3>2
      <4>2. /\ g.elts[x].next = h.elts[x].next /\ g.elts[x].prev = fi
            /\ fi \in InUse(g) /\ g.elts[fi].next = x
        BY <1>1, <1>4, <3>2 DEF Before
      <4>3. g.elts[x].next # MaxIndex =>
              g.elts[x].next \in InUse(g) /\ g.elts[g.elts[x].next].prev = x
        <5> DEFINE nn == h.elts[ei].next
        <5>1. nn # MaxIndex => nn \in InUse(h) /\ h.elts[nn].prev = ei
          BY <1>1 DEF Placed
        <5>2. nn # ei
          BY <1>4
        <5>3. nn \in InUse(h) => g.elts[nn].prev = h.elts[nn].prev
          BY <5>2 DEF Before
        <5>4. g.elts[x].next = nn
          BY <3>2, <4>2
        <5> HIDE DEF nn
        <5> QED BY <1>1, <3>2, <5>1, <5>3, <5>4
      <4>4. (g.elts[x].next = MaxIndex <=> x = g.tail) /\ x # g.head
        BY <1>1, <1>2, <3>2, <4>2 DEF Before, Placed
      <4> QED BY <1>1, <4>1, <4>2, <4>3, <4>4 DEF Placed
    <3>3. CASE x \in InUse(h) /\ x # ei
      <4>1. size(g, x) > 0 /\ g.elts[x].offset >= 0 /\ g.elts[x].offset = h.elts[x].offset
        BY <1>2, <1>3, <1>9, <3>3 DEF Placed
      <4>2. /\ g.elts[x].prev = h.elts[x].prev
            /\ g.elts[x].next = IF x = pp THEN fi ELSE h.elts[x].next
        BY <3>3 DEF Before
      <4>3. Placed(h, x)
        BY <1>3, <3>3
      <4>4. g.elts[x].prev # MaxIndex =>
              g.elts[x].prev \in InUse(g) /\ g.elts[g.elts[x].prev].next = x
        BY <1>1, <1>2, <3>3, <4>2, <4>3 DEF Before, Placed
      <4>5. g.elts[x].next # MaxIndex =>
              g.elts[x].next \in InUse(g) /\ g.elts[g.elts[x].next].prev = x
        BY <1>1, <1>2, <1>4, <3>3, <4>2, <4>3 DEF Before, Placed
      <4>6. /\ (g.elts[x].next = MaxIndex <=> x = g.tail) /\ (g.elts[x].prev = MaxIndex <=> x = g.head)
            /\ x = g.head => g.elts[x].offset = 0
        BY <1>1, <1>2, <3>3, <4>1, <4>2, <4>3 DEF Before, Placed
      <4> QED BY <4>1, <4>4, <4>5, <4>6 DEF Placed
    <3> QED BY <1>1, <3>1, <3>2, <3>3
  <2>2. g.head \in InUse(g) /\ g.tail \in InUse(g) /\ InUse(g) # {}
    BY <1>1 DEF Before, Chained
  <2>3. g.len <= maxLen
    BY <1>1 DEF Before, Chained
  <2> QED BY <2>1, <2>2, <2>3 DEF Chained
<1>13. Separate(g)
  <2>1. ASSUME NEW x \in InUse(g) \ HeldIn(g), g.elts[x].next # MaxIndex
        PROVE  g.elts[x].next \in HeldIn(g)
    <3>1. x \in InUse(h) \ HeldIn(h)
      BY <1>11, <2>1
    <3>2. g.elts[x].next = IF x = pp THEN fi ELSE h.elts[x].next
      BY <3>1 DEF Before
    <3>3. h.elts[x].next # MaxIndex => h.elts[x].next \in HeldIn(h)
      BY <3>1 DEF Sound, Separate
    <3> QED BY <1>11, <2>1, <3>2, <3>3
  <2> QED BY <2>1 DEF Separate
<1>14. Listed(g)
  <2>1. \A x \in InUse(h) \ HeldIn(h) : g.elts[x].free = h.elts[x].free /\ size(g, x) = size(h, x)
    BY <1>9 DEF Before
  <2>2. g.free = h.free /\ Listed(h)
    BY DEF Before, Sound
  <2> QED BY <1>11, <2>1, <2>2, ListsStay
<1> QED
  BY <1>1, <1>9, <1>10, <1>11, <1>12, <1>13, <1>14 DEF Sound, Kept, Parted

-----------------------------------------------------------------------------
(* Free lists *)

\* Chunk x is given v as its place on a list
FreeSet(E, E2, x, v) ==
  /\ DOMAIN E2 = DOMAIN E /\ E2 \in [DOMAIN E2 -> Element]
  /\ \A y \in DOMAIN E : /\ E2[y].offset = E[y].offset
                         /\ E2[y].next = E[y].next /\ E2[y].prev = E[y].prev
                         /\ E2[y].free = IF y = x THEN v ELSE E[y].free

LEMMA SetFree ==
  ASSUME NEW E, E \in [DOMAIN E -> Element], NEW x \in DOMAIN E, NEW v \in Int
  PROVE  FreeSet(E, [E EXCEPT ![x].free = v], x, v)
<1> DEFINE e == [E[x] EXCEPT !.free = v]
           E2 == [E EXCEPT ![x].free = v]
<1>1. E[x] \in Element
  OBVIOUS
<1>2. /\ e \in Element /\ e.free = v /\ e.next = E[x].next /\ e.offset = E[x].offset
      /\ e.prev = E[x].prev
  BY <1>1, ElementFields
<1>3. E2 = [E EXCEPT ![x] = e]
  OBVIOUS
<1> HIDE DEF e, E2
<1>4. DOMAIN E2 = DOMAIN E /\ E2 \in [DOMAIN E2 -> Element]
  BY <1>2, <1>3
<1>5. ASSUME NEW y \in DOMAIN E
      PROVE  /\ E2[y].offset = E[y].offset
             /\ E2[y].next = E[y].next /\ E2[y].prev = E[y].prev
             /\ E2[y].free = IF y = x THEN v ELSE E[y].free
  BY <1>2, <1>3
<1> QED
  BY <1>4, <1>5 DEF FreeSet, E2

\* The chunks are where they were
SamePlaces(h, g) ==
  /\ Made(g) /\ InUse(g) = InUse(h) /\ DOMAIN g.elts = DOMAIN h.elts
  /\ \A x \in InUse(h) : /\ g.elts[x].offset = h.elts[x].offset
                         /\ g.elts[x].next = h.elts[x].next /\ g.elts[x].prev = h.elts[x].prev
  /\ g.head = h.head /\ g.tail = h.tail /\ g.len = h.len

LEMMA SamePlacesKeep ==
  ASSUME NEW h, Made(h), Chained(h), NEW g, SamePlaces(h, g)
  PROVE  Chained(g) /\ Kept(h, g, InUse(h)) /\ \A x \in InUse(h) : EndOf(g, x) = EndOf(h, x)
<1>1. \A x \in InUse(h) : Placed(h, x)
  BY DEF Chained
<1>2. ASSUME NEW x \in InUse(h) PROVE EndOf(g, x) = EndOf(h, x) /\ size(g, x) = size(h, x)
  BY <1>1 DEF SamePlaces, EndOf, size, Placed
<1>3. ASSUME NEW x \in InUse(h) PROVE Placed(g, x)
  BY <1>1, <1>2 DEF SamePlaces, Placed
<1>4. \A x \in InUse(g) : Placed(g, x)
  BY <1>3 DEF SamePlaces
<1>5. Chained(g)
  BY <1>4 DEF Chained, SamePlaces
<1> QED
  BY <1>2, <1>5 DEF Kept, SamePlaces

\* Chunk ei becomes free, with number k of list s
Freed(h, g, ei, s, k) ==
  /\ SamePlaces(h, g) /\ g.maxSize = h.maxSize /\ k \in Nat
  /\ \A x \in InUse(h) : g.elts[x].free = IF x = ei THEN k ELSE h.elts[x].free
  /\ \A t, i, x : At(g, t, i, x) <=> At(h, t, i, x) \/ (t = s /\ i = k + 1 /\ x = ei)

\* What freeElt does to the lists F
Longer(F, F2, x, s, k) ==
  /\ IsLists(F2) /\ k \in Nat
  /\ \A t, i, y : Nth(F2, t, i, y) <=> Nth(F, t, i, y) \/ (t = s /\ i = k + 1 /\ y = x)

LEMMA ListGrows ==
  ASSUME NEW F, IsLists(F), NEW s \in Nat, NEW x \in Nat, NEW V, V = Validate(F, s),
         NEW k, k = Len(V[s])
  PROVE  Longer(F, [V EXCEPT ![s] = Append(@, x)], x, s, k)
<1> DEFINE F2 == [V EXCEPT ![s] = Append(@, x)]
<1>1. /\ DOMAIN V = DOMAIN F \cup 0..s /\ DOMAIN V \subseteq Nat /\ 0 \in DOMAIN V /\ s \in DOMAIN V
      /\ \A t \in DOMAIN V : V[t] = IF t \in DOMAIN F THEN F[t] ELSE <<>>
      /\ V = [t \in DOMAIN V |-> V[t]]
  BY DEF Validate, IsLists
<1>2. \A t \in DOMAIN V : V[t] \in Seq(Nat)
  <2>1. <<>> \in Seq(Nat)
    OBVIOUS
  <2> QED BY <1>1, <2>1 DEF IsLists
<1>3. \A t, i, y : Nth(V, t, i, y) <=> Nth(F, t, i, y)
  <2>1. 1..Len(<<>>) = {}
    OBVIOUS
  <2> QED BY <1>1, <2>1 DEF Nth
<1> DEFINE L == V[s]
           L2 == Append(L, x)
<1>4. /\ L \in Seq(Nat) /\ L2 \in Seq(Nat) /\ k \in Nat /\ Len(L) = k /\ Len(L2) = k + 1 /\ L2[k + 1] = x
      /\ \A i \in 1..k : L2[i] = L[i]
  BY <1>1, <1>2
<1>5. /\ DOMAIN F2 = DOMAIN V /\ F2 = [t \in DOMAIN F2 |-> F2[t]]
      /\ \A t \in DOMAIN V : F2[t] = IF t = s THEN L2 ELSE V[t]
  BY <1>1
<1> HIDE DEF F2, L, L2
<1>6. IsLists(F2)
  BY <1>1, <1>2, <1>4, <1>5 DEF IsLists
<1>7. ASSUME NEW t, NEW i, NEW y
      PROVE  Nth(F2, t, i, y) <=> Nth(V, t, i, y) \/ (t = s /\ i = k + 1 /\ y = x)
  <2>1. CASE t # s
    BY <1>5, <2>1 DEF Nth
  <2>2. CASE t = s
    <3>1. F2[t] = L2 /\ V[t] = L /\ t \in DOMAIN V /\ t \in DOMAIN F2
      BY <1>1, <1>5, <2>2 DEF L
    <3>2. 1..k + 1 = 1..k \cup {k + 1} /\ k + 1 \notin 1..k
      <4>1. k \in Nat
        BY <1>4
      <4> QED BY <4>1
    <3> QED BY <1>4, <2>2, <3>1, <3>2 DEF Nth
  <2> QED BY <2>1, <2>2
<1>8. \A t, i, y : Nth(F2, t, i, y) <=> Nth(F, t, i, y) \/ (t = s /\ i = k + 1 /\ y = x)
  BY <1>3, <1>7
<1>9. Longer(F, F2, x, s, k)
  BY <1>4, <1>6, <1>8 DEF Longer
<1> QED
  BY <1>9 DEF F2

LEMMA FreeEltIs ==
  ASSUME NEW h, Made(h), NEW ei \in InUse(h), NEW z \in Nat,
         NEW s, s = IF z > h.maxSize THEN 0 ELSE z
  PROVE  \E k \in Nat : Freed(h, freeElt(h, ei, z), ei, s, k)
<1> DEFINE V == Validate(h.free, s)
           k == Len(V[s])
           F2 == [V EXCEPT ![s] = Append(@, ei)]
           E2 == [h.elts EXCEPT ![ei].free = k]
           g == freeElt(h, ei, z)
<1>1. g = [h EXCEPT !.elts = E2, !.free = F2]
  BY DEF freeElt, Made, IsHeap
<1>2. s \in Nat /\ ei \in Nat /\ ei \in DOMAIN h.elts /\ IsLists(h.free) /\ IsHeap(h)
      /\ h.elts \in [DOMAIN h.elts -> Element]
  BY MadeFacts DEF Made, Numbered
<1>3. Longer(h.free, F2, ei, s, k)
  <2> HIDE DEF V
  <2>1. V = Validate(h.free, s)
    BY DEF V
  <2> QED BY <1>2, <2>1, ListGrows
<1>4. k \in Nat
  BY <1>3 DEF Longer
<1> HIDE DEF k, V, F2
<1>5. FreeSet(h.elts, E2, ei, k)
  BY <1>2, <1>4, SetFree
<1> HIDE DEF E2, g
<1>6. /\ g.elts = E2 /\ g.removed = h.removed /\ g.free = F2 /\ g.head = h.head /\ g.tail = h.tail
      /\ g.len = h.len /\ g.maxSize = h.maxSize /\ IsHeap(g)
  <2>1. DOMAIN g = DOMAIN h /\ g = [f \in DOMAIN g |-> g[f]]
    BY <1>1
  <2>2. IsHeap(g)
    BY <1>2, <2>1, SameFields
  <2> QED BY <1>1, <1>2, <2>2 DEF IsHeap
<1>7. Made(g) /\ InUse(g) = InUse(h)
  <2>1. h.head \in Int /\ h.tail \in Int /\ h.len \in Nat /\ h.maxSize \in Nat
    BY DEF Made
  <2>2. DOMAIN E2 = DOMAIN h.elts /\ E2 \in [DOMAIN E2 -> Element] /\ IsLists(F2)
    BY <1>3, <1>5 DEF FreeSet, Longer
  <2> QED BY <1>6, <2>1, <2>2, Remade
<1>8. \A x \in InUse(h) : x \in DOMAIN h.elts
  BY DEF InUse
<1>9. SamePlaces(h, g)
  BY <1>5, <1>6, <1>7, <1>8 DEF SamePlaces, FreeSet
<1>10. \A x \in InUse(h) : g.elts[x].free = IF x = ei THEN k ELSE h.elts[x].free
  BY <1>5, <1>6, <1>8 DEF FreeSet
<1>11. \A t, i, x : At(g, t, i, x) <=> At(h, t, i, x) \/ (t = s /\ i = k + 1 /\ x = ei)
  BY <1>3, <1>6 DEF Longer, At
<1>12. Freed(h, g, ei, s, k)
  BY <1>4, <1>6, <1>9, <1>10, <1>11 DEF Freed
<1> QED
  BY <1>4, <1>12 DEF g

LEMMA FreeKeeps ==
  ASSUME NEW h, Sound(h), NEW ei \in HeldIn(h), NEW k \in Nat, NEW s \in {0, size(h, ei)}, NEW g,
         Freed(h, g, ei, s, k), ~prevFree(h, ei), ~nextFree(h, ei)
  PROVE  NowFree(h, g, ei)
<1>1. Made(h) /\ Chained(h) /\ ei \in InUse(h) /\ Placed(h, ei) /\ h.elts[ei].free = MaxIndex
      /\ Listed(h)
  BY DEF Sound, HeldIn, Chained
<1>2. Chained(g) /\ Kept(h, g, InUse(h)) /\ Made(g) /\ InUse(g) = InUse(h)
  BY <1>1, SamePlacesKeep DEF Freed, SamePlaces
<1>3. HeldIn(g) = HeldIn(h) \ {ei}
  BY <1>2 DEF HeldIn, Freed, MaxIndex
<1>4. Separate(g)
  <2>1. ASSUME NEW x \in InUse(g) \ HeldIn(g), g.elts[x].next # MaxIndex
        PROVE  g.elts[x].next \in HeldIn(g)
    <3>1. x \in InUse(h) /\ g.elts[x].next = h.elts[x].next /\ Placed(h, x)
      BY <1>1, <1>2, <2>1 DEF Freed, SamePlaces, Chained
    <3> DEFINE nx == h.elts[x].next
    <3>2. nx \in InUse(h) /\ h.elts[nx].prev = x /\ x # MaxIndex
      BY <1>1, <2>1, <3>1, MadeFacts DEF Placed
    <3>3. CASE x = ei
      <4>1. nx \in HeldIn(h)
        BY <2>1, <3>1, <3>2, <3>3 DEF nextFree, isFree, HeldIn
      <4>2. nx # ei
        <5>1. EndOf(h, ei) # h.elts[ei].offset
          BY <1>1, SizeIs
        <5> QED BY <2>1, <3>1, <3>3, <5>1 DEF EndOf
      <4> QED BY <1>3, <3>1, <4>1, <4>2
    <3>4. CASE x # ei
      <4>1. x \in InUse(h) \ HeldIn(h)
        BY <1>2, <1>3, <2>1, <3>4
      <4>2. nx \in HeldIn(h)
        BY <2>1, <3>1, <4>1 DEF Sound, Separate
      <4>3. nx # ei
        BY <3>2, <4>1 DEF prevFree, isFree, HeldIn
      <4> QED BY <1>3, <3>1, <4>2, <4>3
    <3> QED BY <3>3, <3>4
  <2> QED BY <2>1 DEF Separate
<1>5. Listed(g)
  <2>1. ASSUME NEW t, NEW i, NEW x, At(h, t, i, x) PROVE x \in InUse(h) /\ x # ei
    <3>1. x \in InUse(h) /\ h.elts[x].free = i - 1 /\ i \in 1..Len(h.free[t])
      BY <1>1, <2>1 DEF Listed, At, Nth
    <3>2. i - 1 # MaxIndex
      BY <3>1 DEF MaxIndex
    <3> QED BY <1>1, <3>1, <3>2
  <2>2. ASSUME NEW t, NEW i, NEW x, At(g, t, i, x)
        PROVE  x \in InUse(g) /\ g.elts[x].free = i - 1 /\ t \in {0, size(g, x)}
    <3>1. CASE At(h, t, i, x)
      BY <1>1, <1>2, <2>1, <3>1 DEF Listed, Freed, Kept
    <3>2. CASE t = s /\ i = k + 1 /\ x = ei
      BY <1>1, <1>2, <3>2 DEF Freed, Kept
    <3> QED BY <2>2, <3>1, <3>2 DEF Freed
  <2>3. \A t, u, i, j, x : At(g, t, i, x) /\ At(g, u, j, x) => t = u
    BY <1>1, <2>1 DEF Listed, Freed
  <2>4. \A x \in InUse(g) \ HeldIn(g) : \E t, i : At(g, t, i, x)
    BY <1>1, <1>2, <1>3 DEF Listed, Freed
  <2> QED BY <2>2, <2>3, <2>4 DEF Listed
<1> QED
  BY <1>2, <1>3, <1>4, <1>5 DEF Sound, NowFree

\* Chunk x, number k of list s, leaves its list, and y, the last one, takes its place
Shorter(F, F2, x, y, s, k) ==
  /\ IsLists(F2) /\ DOMAIN F2 = DOMAIN F /\ \E l : Nth(F, s, l, y)
  /\ \A t, i, z : Nth(F2, t, i, z) <=>
       z # x /\ ((t = s /\ i = k /\ z = y) \/ (Nth(F, t, i, z) /\ (t = s => z # y)))

LEMMA ListShrinks ==
  ASSUME NEW F, IsLists(F), NEW s, NEW k, NEW x, Nth(F, s, k, x),
         \A i, j, z : Nth(F, s, i, z) /\ Nth(F, s, j, z) => i = j,
         \A t, i : Nth(F, t, i, x) => t = s,
         NEW l, l = Len(F[s]), NEW y, y = F[s][l],
         NEW F2, F2 = [F EXCEPT ![s] = SubSeq([@ EXCEPT ![k] = y], 1, l - 1)]
  PROVE  Shorter(F, F2, x, y, s, k)
<1> DEFINE L == F[s]
           M == [L EXCEPT ![k] = y]
           L2 == SubSeq(M, 1, l - 1)
<1>1. L \in Seq(Nat) /\ s \in DOMAIN F /\ k \in 1..l /\ L[k] = x /\ l = Len(L)
  BY DEF IsLists, Nth
<1>2. \A i, j \in 1..l : L[i] = L[j] => i = j
  BY <1>1 DEF Nth
<1>3. l \in Nat \ {0} /\ L[l] = y /\ y \in Nat
  BY <1>1
<1>4. M \in Seq(Nat) /\ Len(M) = l /\ M # <<>> /\ \A i \in 1..l : M[i] = IF i = k THEN y ELSE L[i]
  BY <1>1, <1>3
<1>5. F2 = [F EXCEPT ![s] = L2]
  OBVIOUS
<1> HIDE DEF L, M
<1>6. L2 \in Seq(Nat) /\ Len(L2) = l - 1 /\ \A i \in 1..l - 1 : L2[i] = M[i]
  BY <1>4, Lasts
<1> HIDE DEF L2
<1>7. /\ DOMAIN F2 = DOMAIN F /\ F2 = [t \in DOMAIN F2 |-> F2[t]]
      /\ \A t \in DOMAIN F : F2[t] = IF t = s THEN L2 ELSE F[t]
  <2>1. F = [t \in DOMAIN F |-> F[t]]
    BY DEF IsLists
  <2>2. DOMAIN F2 = DOMAIN F
    BY <1>5
  <2>3. F2 = [t \in DOMAIN F2 |-> F2[t]]
    BY <1>5
  <2>4. \A t \in DOMAIN F : F2[t] = IF t = s THEN L2 ELSE F[t]
    BY <1>5
  <2> QED BY <2>2, <2>3, <2>4
<1>8. IsLists(F2)
  <2>1. DOMAIN <<>> = {}
    OBVIOUS
  <2>2. 0 \in DOMAIN F2
    BY <1>1, <1>7, <2>1 DEF IsLists
  <2> QED BY <1>6, <1>7, <2>2 DEF IsLists
<1>9. Nth(F, s, l, y)
  BY <1>1, <1>3 DEF Nth, L
<1>10. ASSUME NEW t, NEW i, NEW z
       PROVE  Nth(F2, t, i, z) <=>
                z # x /\ ((t = s /\ i = k /\ z = y) \/ (Nth(F, t, i, z) /\ (t = s => z # y)))
  <2>1. CASE t = s
    <3>1. Nth(F2, t, i, z) <=> i \in 1..l - 1 /\ z = M[i]
      BY <1>1, <1>6, <1>7, <2>1 DEF Nth
    <3>2. Nth(F, t, i, z) <=> i \in 1..l /\ z = L[i]
      BY <1>1, <2>1 DEF Nth, L
    <3>3. \A j \in 1..l - 1 : j \in 1..l /\ j # l
      BY <1>3
    <3>4. \A j \in 1..l : j # l => j \in 1..l - 1
      BY <1>3
    <3>5. l \in 1..l
      BY <1>3
    <3>6. ASSUME i \in 1..l - 1, z = M[i]
          PROVE  z # x /\ ((i = k /\ z = y) \/ (i \in 1..l /\ z = L[i] /\ z # y))
      BY <1>1, <1>2, <1>3, <1>4, <3>3, <3>5, <3>6
    <3>7. ASSUME z # x, (i = k /\ z = y) \/ (i \in 1..l /\ z = L[i] /\ z # y)
          PROVE  i \in 1..l - 1 /\ z = M[i]
      BY <1>1, <1>2, <1>3, <1>4, <3>3, <3>4, <3>7
    <3> QED BY <2>1, <3>1, <3>2, <3>6, <3>7
  <2>2. CASE t # s
    <3>1. Nth(F2, t, i, z) <=> Nth(F, t, i, z)
      BY <1>7, <2>2 DEF Nth
    <3> QED BY <2>2, <3>1
  <2> QED BY <2>1, <2>2
<1> QED
  BY <1>7, <1>8, <1>9, <1>10 DEF Shorter

\* The lists F with y, the last of list s, in the place of its number k
TakenFrom(F, y, s, k) == [F EXCEPT ![s] = SubSeq([@ EXCEPT ![k] = y], 1, Len(F[s]) - 1)]

\* Chunk x of list s is held; y, the last of the list, has number k in its place
Taken(h, g, x, y, s, k) ==
  /\ g.free = TakenFrom(h.free, y, s, k)
  /\ SamePlaces(h, g) /\ g.maxSize = h.maxSize /\ Shorter(h.free, g.free, x, y, s, k)
  /\ \A z \in InUse(h) : g.elts[z].free = IF z = x THEN MaxIndex ELSE IF z = y THEN k - 1
                                           ELSE h.elts[z].free

\* Listed chunks are free, and on one list each
LEMMA ListedFacts ==
  ASSUME NEW h, Sound(h)
  PROVE  /\ \A s, i, x : At(h, s, i, x) => x \in InUse(h) \ HeldIn(h) /\ i \in Nat \ {0}
         /\ \A s, i, x : At(h, s, i, x) => h.elts[x].free = i - 1 /\ s \in {0, size(h, x)}
         /\ \A s, i, j, x : At(h, s, i, x) /\ At(h, s, j, x) => i = j
         /\ \A s, t, i, j, x : At(h, s, i, x) /\ At(h, t, j, x) => s = t
         /\ \A x \in InUse(h) \ HeldIn(h) : \E s, i : At(h, s, i, x)
         /\ IsLists(h.free)
<1>1. Listed(h) /\ IsLists(h.free)
  BY DEF Sound, Made
<1>2. ASSUME NEW s, NEW i, NEW x, At(h, s, i, x) PROVE i \in Nat \ {0} /\ i - 1 # MaxIndex
  <2>1. Len(h.free[s]) \in Nat
    BY <1>1, <1>2 DEF IsLists, At, Nth
  <2> QED BY <1>2, <2>1 DEF At, Nth, MaxIndex
<1>3. ASSUME NEW s, NEW i, NEW x, At(h, s, i, x)
      PROVE  x \in InUse(h) \ HeldIn(h) /\ h.elts[x].free = i - 1 /\ s \in {0, size(h, x)}
  BY <1>1, <1>2, <1>3 DEF Listed, HeldIn
<1>4. ASSUME NEW s, NEW i, NEW j, NEW x, At(h, s, i, x), At(h, s, j, x) PROVE i = j
  <2>1. i \in Nat /\ j \in Nat /\ h.elts[x].free = i - 1 /\ h.elts[x].free = j - 1
    BY <1>2, <1>3, <1>4
  <2> QED BY <2>1
<1>5. /\ \A s, t, i, j, x : At(h, s, i, x) /\ At(h, t, j, x) => s = t
      /\ \A x \in InUse(h) \ HeldIn(h) : \E s, i : At(h, s, i, x)
  BY <1>1 DEF Listed
<1> QED
  BY <1>1, <1>2, <1>3, <1>4, <1>5

\* What that does to the elements E
TakenSet(E, E2, x, y, k) ==
  /\ DOMAIN E2 = DOMAIN E /\ E2 \in [DOMAIN E2 -> Element]
  /\ \A z \in DOMAIN E :
       /\ E2[z].offset = E[z].offset /\ E2[z].next = E[z].next /\ E2[z].prev = E[z].prev
       /\ E2[z].free = IF z = x THEN MaxIndex ELSE IF z = y THEN k - 1 ELSE E[z].free

SameEnds(h, g) ==
  /\ IsHeap(g) /\ g.removed = h.removed /\ g.head = h.head /\ g.tail = h.tail
  /\ g.len = h.len /\ g.maxSize = h.maxSize

LEMMA TakenIs ==
  ASSUME NEW h, Sound(h), NEW x, NEW s, NEW k, At(h, s, k, x), NEW y, y = h.free[s][Len(h.free[s])],
         NEW g, SameEnds(h, g), g.free = TakenFrom(h.free, y, s, k),
         TakenSet(h.elts, g.elts, x, y, k)
  PROVE  Taken(h, g, x, y, s, k)
<1>1. Shorter(h.free, g.free, x, y, s, k)
  <2>1. /\ IsLists(h.free) /\ Nth(h.free, s, k, x)
        /\ \A i, j, z : Nth(h.free, s, i, z) /\ Nth(h.free, s, j, z) => i = j
        /\ \A t, i : Nth(h.free, t, i, x) => t = s
    BY ListedFacts DEF At
  <2> QED BY <2>1, ListShrinks, Zenon DEF TakenFrom
<1>2. Made(g) /\ InUse(g) = InUse(h)
  <2>1. Made(h) /\ h.head \in Int /\ h.tail \in Int /\ h.len \in Nat /\ h.maxSize \in Nat
    BY DEF Made, Sound
  <2>2. IsLists(g.free)
    BY <1>1 DEF Shorter
  <2> QED BY <2>1, <2>2, Remade DEF SameEnds, TakenSet
<1>3. \A z \in InUse(h) : z \in DOMAIN h.elts
  BY DEF InUse
<1> QED
  BY <1>1, <1>2, <1>3 DEF Taken, SamePlaces, SameEnds, TakenSet

LEMMA TakeKeeps ==
  ASSUME NEW h, Sound(h), NEW x, NEW y, NEW s, NEW k, At(h, s, k, x), NEW g, Taken(h, g, x, y, s, k)
  PROVE  NowHeld(h, g, x)
<1>1. Made(h) /\ Chained(h) /\ x \in InUse(h) \ HeldIn(h) /\ k \in Nat \ {0}
  BY ListedFacts DEF Sound
<1>2. Chained(g) /\ Kept(h, g, InUse(h)) /\ Made(g) /\ InUse(g) = InUse(h)
  BY <1>1, SamePlacesKeep DEF Taken, SamePlaces
<1>3. DOMAIN g.free = DOMAIN h.free
  BY DEF Taken, Shorter
<1>4. PICK l : At(h, s, l, y)
  BY DEF Taken, Shorter, At
<1>5. y \in InUse(h) \ HeldIn(h) /\ k - 1 # MaxIndex
  BY <1>1, <1>4, ListedFacts DEF MaxIndex
<1>6. HeldIn(g) = HeldIn(h) \cup {x}
  BY <1>1, <1>2, <1>5 DEF HeldIn, Taken
<1>7. \A t, i, z : At(g, t, i, z) <=>
        z # x /\ ((t = s /\ i = k /\ z = y) \/ (At(h, t, i, z) /\ (t = s => z # y)))
  BY DEF Taken, Shorter, At
<1>8. Separate(g)
  BY <1>2, <1>6 DEF Sound, Separate, Taken, SamePlaces
<1>9. ASSUME NEW t, NEW i, NEW z, At(h, t, i, z), z # x PROVE \E j : At(g, t, j, z)
  <2>1. CASE t = s /\ z = y
    BY <1>7, <1>9, <2>1
  <2>2. CASE ~(t = s /\ z = y)
    BY <1>7, <1>9, <2>2
  <2> QED BY <2>1, <2>2
<1>10. Listed(g)
  <2>1. ASSUME NEW t, NEW i, NEW z, At(g, t, i, z)
        PROVE  z \in InUse(g) /\ g.elts[z].free = i - 1 /\ t \in {0, size(g, z)}
    <3>1. z # x
      BY <1>7, <2>1
    <3>2. CASE t = s /\ i = k /\ z = y
      <4>1. g.elts[z].free = k - 1
        BY <1>5, <3>1, <3>2 DEF Taken
      <4>2. s \in {0, size(h, y)}
        BY <1>4, ListedFacts
      <4> QED BY <1>2, <1>5, <3>2, <4>1, <4>2 DEF Kept
    <3>3. CASE At(h, t, i, z) /\ (t = s => z # y)
      <4>1. z \in InUse(h) /\ h.elts[z].free = i - 1 /\ t \in {0, size(h, z)}
        BY <3>3, ListedFacts
      <4>2. z # y
        BY <1>4, <3>3, ListedFacts
      <4> QED BY <1>2, <3>1, <4>1, <4>2 DEF Kept, Taken
    <3> QED BY <1>7, <2>1, <3>2, <3>3
  <2>2. ASSUME NEW t, NEW u, NEW i, NEW j, NEW z, At(g, t, i, z), At(g, u, j, z) PROVE t = u
    <3>1. (t = s /\ z = y) \/ At(h, t, i, z)
      BY <1>7, <2>2
    <3>2. (u = s /\ z = y) \/ At(h, u, j, z)
      BY <1>7, <2>2
    <3> QED BY <1>4, <3>1, <3>2, ListedFacts
  <2>3. ASSUME NEW z \in InUse(g) \ HeldIn(g) PROVE \E t, i : At(g, t, i, z)
    <3>1. z \in InUse(h) \ HeldIn(h) /\ z # x
      BY <1>2, <1>6, <2>3
    <3>2. PICK t, i : At(h, t, i, z)
      BY <3>1, ListedFacts
    <3> QED BY <1>9, <3>1, <3>2
  <2> QED BY <2>1, <2>2, <2>3 DEF Listed
<1> QED
  BY <1>1, <1>2, <1>3, <1>6, <1>8, <1>9, <1>10 DEF Sound, NowHeld

-----------------------------------------------------------------------------
(* Joining neighbours *)

LEMMA OnListIs ==
  ASSUME NEW h, Sound(h), NEW x \in InUse(h) \ HeldIn(h), NEW z
  PROVE  OnList(h, x, z) <=> \E k : At(h, listOf(h, z), k, x)
<1> DEFINE s == listOf(h, z)
           fi == h.elts[x].free
<1>1. PICK t, i : At(h, t, i, x)
  BY ListedFacts
<1> HIDE DEF s, fi
<1>2. /\ i \in Nat \ {0} /\ fi = i - 1 /\ IsLists(h.free) /\ t \in DOMAIN h.free
      /\ \A k : At(h, s, k, x) => k \in Nat \ {0} /\ fi = k - 1
  <2>1. t \in DOMAIN h.free
    BY <1>1 DEF At, Nth
  <2>2. IsLists(h.free)
    BY ListedFacts
  <2>3. i \in Nat \ {0} /\ fi = i - 1
    BY <1>1, ListedFacts DEF fi
  <2>4. ASSUME NEW k, At(h, s, k, x) PROVE k \in Nat \ {0} /\ fi = k - 1
    BY <2>4, ListedFacts DEF fi
  <2> QED BY <2>1, <2>2, <2>3, <2>4
<1>3. s \in DOMAIN h.free
  <2>1. DOMAIN <<>> = {}
    OBVIOUS
  <2> QED BY <1>2, <2>1 DEF IsLists, listOf, s
<1>4. h.free[s] \in Seq(Nat)
  BY <1>2, <1>3 DEF IsLists
<1>5. OnList(h, x, z) <=> fi < Len(h.free[s]) /\ h.free[s][fi + 1] = x
  BY DEF OnList, s, fi
<1>6. Len(h.free[s]) \in Nat
  BY <1>4
<1> DEFINE l == Len(h.free[s])
<1> HIDE DEF l
<1>7. ASSUME fi < l, h.free[s][fi + 1] = x PROVE At(h, s, fi + 1, x)
  <2>1. fi + 1 \in 1..l
    BY <1>2, <1>6, <1>7 DEF l
  <2> QED BY <1>3, <1>7, <2>1 DEF At, Nth, l
<1>8. ASSUME NEW k, At(h, s, k, x) PROVE fi < l /\ h.free[s][fi + 1] = x
  <2>1. k \in Nat \ {0} /\ fi = k - 1 /\ k \in 1..l /\ h.free[s][k] = x
    BY <1>2, <1>8 DEF At, Nth, l
  <2>2. fi + 1 = k /\ fi < l
    BY <1>6, <2>1 DEF l
  <2> QED BY <2>1, <2>2
<1>9. OnList(h, x, z) <=> \E k : At(h, s, k, x)
  BY <1>5, <1>7, <1>8 DEF l
<1> QED
  BY <1>9 DEF s

\* The heap g after TakeOut(h, x, s), where y is the last of list s
Out(h, g, x, y, s) ==
  /\ IsHeap(g) /\ g.removed = h.removed /\ g.head = h.head /\ g.tail = h.tail /\ g.len = h.len
  /\ g.maxSize = h.maxSize /\ FreeSet(h.elts, g.elts, y, h.elts[x].free)
  /\ g.free = TakenFrom(h.free, y, s, h.elts[x].free + 1)

LEMMA TakeOutIs ==
  ASSUME NEW h, IsHeap(h), h.elts \in [DOMAIN h.elts -> Element], NEW x \in DOMAIN h.elts,
         NEW s, NEW y, y = h.free[s][Len(h.free[s])], y \in DOMAIN h.elts
  PROVE  Out(h, TakeOut(h, x, s), x, y, s)
<1> DEFINE fi == h.elts[x].free
           E2 == [h.elts EXCEPT ![y].free = fi]
           F2 == [h.free EXCEPT ![s] = SubSeq([@ EXCEPT ![fi + 1] = y], 1, Len(h.free[s]) - 1)]
           g == TakeOut(h, x, s)
<1>1. g = [h EXCEPT !.free = F2, !.elts = E2]
  BY DEF TakeOut, IsHeap
<1>2. fi \in Int
  BY DEF Element
<1>3. FreeSet(h.elts, E2, y, fi)
  BY <1>2, SetFree
<1> HIDE DEF E2, F2, g
<1>4. IsHeap(g)
  <2>1. DOMAIN g = DOMAIN h /\ g = [f \in DOMAIN g |-> g[f]]
    BY <1>1
  <2> QED BY <2>1, SameFields
<1>5. /\ g.elts = E2 /\ g.removed = h.removed /\ g.free = F2 /\ g.head = h.head /\ g.tail = h.tail
      /\ g.len = h.len /\ g.maxSize = h.maxSize
  BY <1>1, <1>4 DEF IsHeap
<1>6. Out(h, g, x, y, s)
  BY <1>3, <1>4, <1>5 DEF Out, F2, TakenFrom
<1> QED
  BY <1>6 DEF g

\* x taken out of its list, and held
TakeHeld(h, x, s) == [TakeOut(h, x, s) EXCEPT !.elts[x].free = MaxIndex]

LEMMA TakeOutTakes ==
  ASSUME NEW h, Sound(h), NEW x, NEW s, NEW k, At(h, s, k, x), NEW y, y = h.free[s][Len(h.free[s])]
  PROVE  Taken(h, TakeHeld(h, x, s), x, y, s, k)
<1> DEFINE o == TakeOut(h, x, s)
           E2 == [o.elts EXCEPT ![x].free = MaxIndex]
           g == TakeHeld(h, x, s)
           l == Len(h.free[s])
<1>1. /\ x \in InUse(h) /\ k \in Nat /\ h.elts[x].free = k - 1 /\ IsHeap(h)
      /\ h.elts \in [DOMAIN h.elts -> Element] /\ h.free[s] \in Seq(Nat) /\ k \in 1..l
      /\ s \in DOMAIN h.free
  <2>1. /\ x \in InUse(h) /\ k \in Nat /\ h.elts[x].free = k - 1 /\ IsLists(h.free)
    BY ListedFacts
  <2>2. IsHeap(h) /\ h.elts \in [DOMAIN h.elts -> Element]
    BY DEF Sound, Made, Numbered
  <2>3. s \in DOMAIN h.free /\ k \in 1..l
    BY DEF At, Nth
  <2> QED BY <2>1, <2>2, <2>3 DEF IsLists
<1>2. l \in Nat /\ l \in 1..l
  BY <1>1
<1>3. At(h, s, l, y)
  BY <1>1, <1>2 DEF At, Nth
<1>4. x \in DOMAIN h.elts /\ y \in DOMAIN h.elts
  BY <1>1, <1>3, ListedFacts DEF InUse
<1>5. Out(h, o, x, y, s)
  BY <1>1, <1>4, TakeOutIs
<1>0. g = [o EXCEPT !.elts[x].free = MaxIndex]
  BY DEF TakeHeld
<1> HIDE DEF o, l, g
<1>6. h.elts[x].free + 1 = k /\ h.elts[x].free = k - 1
  BY <1>1
<1>7. /\ IsHeap(o) /\ DOMAIN o.elts = DOMAIN h.elts /\ o.elts \in [DOMAIN o.elts -> Element]
      /\ x \in DOMAIN o.elts
  BY <1>4, <1>5 DEF Out, FreeSet
<1>8. FreeSet(o.elts, E2, x, MaxIndex)
  BY <1>7, SetFree DEF MaxIndex
<1>9. g = [o EXCEPT !.elts = E2]
  BY <1>0, <1>7 DEF IsHeap
<1> HIDE DEF E2
<1>10. IsHeap(g)
  <2>1. DOMAIN g = DOMAIN o /\ g = [f \in DOMAIN g |-> g[f]]
    BY <1>9
  <2> QED BY <1>7, <2>1, SameFields
<1>11. /\ g.elts = E2 /\ g.removed = o.removed /\ g.free = o.free /\ g.head = o.head
       /\ g.tail = o.tail /\ g.len = o.len /\ g.maxSize = o.maxSize
  BY <1>7, <1>9, <1>10 DEF IsHeap
<1>12. TakenSet(h.elts, g.elts, x, y, k)
  <2>1. ASSUME NEW z \in DOMAIN h.elts
        PROVE  /\ g.elts[z].offset = h.elts[z].offset
               /\ g.elts[z].next = h.elts[z].next /\ g.elts[z].prev = h.elts[z].prev
               /\ g.elts[z].free = IF z = x THEN MaxIndex ELSE IF z = y THEN k - 1
                                   ELSE h.elts[z].free
    BY <1>5, <1>6, <1>7, <1>8, <1>11 DEF FreeSet, Out
  <2>2. DOMAIN g.elts = DOMAIN h.elts /\ g.elts \in [DOMAIN g.elts -> Element]
    BY <1>7, <1>8, <1>11 DEF FreeSet
  <2> QED BY <2>1, <2>2 DEF TakenSet
<1>13. g.free = TakenFrom(h.free, y, s, k)
  BY <1>5, <1>6, <1>11 DEF Out
<1>14. SameEnds(h, g)
  BY <1>5, <1>10, <1>11 DEF Out, SameEnds
<1>15. Taken(h, g, x, y, s, k)
  BY <1>12, <1>13, <1>14, TakenIs
<1> QED
  BY <1>15 DEF g, o

LEMMA OneLess ==
  ASSUME NEW E, NEW r, Numbered(E, r), NEW x \in DOMAIN E \ Numbers(r),
         NEW E2, DOMAIN E2 = DOMAIN E, E2 \in [DOMAIN E2 -> Element]
  PROVE  /\ Numbered(E2, Append(r, x))
         /\ DOMAIN E2 \ Numbers(Append(r, x)) = (DOMAIN E \ Numbers(r)) \ {x}
<1> DEFINE q == Append(r, x)
           l == Len(r)
<1>1. r \in Seq(DOMAIN E) /\ \A i, j \in 1..l : r[i] = r[j] => i = j
  BY DEF Numbered
<1>2. /\ q \in Seq(DOMAIN E) /\ Len(q) = l + 1 /\ q[l + 1] = x /\ \A i \in 1..l : q[i] = r[i]
      /\ l \in Nat
  BY <1>1
<1>3. /\ 1..l + 1 = 1..l \cup {l + 1} /\ Numbers(r) = {r[i] : i \in 1..l}
      /\ Numbers(q) = {q[i] : i \in 1..l + 1}
  BY <1>2 DEF Numbers
<1> HIDE DEF q, l
<1>4. \A i \in 1..l : q[i] # x
  BY <1>2, <1>3
<1>5. \A i, j \in 1..l + 1 : q[i] = q[j] => i = j
  BY <1>1, <1>2, <1>3, <1>4
<1>6. Numbers(q) = Numbers(r) \cup {x}
  <2>1. ASSUME NEW w \in Numbers(r) PROVE w \in Numbers(q)
    BY <1>2, <1>3, <2>1
  <2>2. ASSUME NEW w \in Numbers(q) PROVE w \in Numbers(r) \cup {x}
    BY <1>2, <1>3, <2>2
  <2>3. x \in Numbers(q)
    BY <1>2, <1>3
  <2> QED BY <2>1, <2>2, <2>3
<1>7. Numbered(E2, q)
  BY <1>2, <1>5 DEF Numbered
<1> QED
  BY <1>6, <1>7 DEF q

\* The heap g after removeFreeElt of x from list s of n
Gone(n, g, x, y, s) ==
  /\ IsHeap(g) /\ g.head = n.head /\ g.tail = n.tail /\ g.len = n.len /\ g.maxSize = n.maxSize
  /\ Numbered(g.elts, g.removed) /\ InUse(g) = InUse(n) \ {x}
  /\ \A w \in DOMAIN n.elts : w # x =>
       /\ g.elts[w].offset = n.elts[w].offset
       /\ g.elts[w].next = n.elts[w].next /\ g.elts[w].prev = n.elts[w].prev
       /\ g.elts[w].free = IF w = y THEN n.elts[x].free ELSE n.elts[w].free
  /\ g.free = TakenFrom(n.free, y, s, n.elts[x].free + 1)

LEMMA RemoveFreeIs ==
  ASSUME NEW n, IsHeap(n), Numbered(n.elts, n.removed), NEW x \in InUse(n), NEW z,
         NEW s, s = listOf(n, z), NEW y, y = n.free[s][Len(n.free[s])], y \in DOMAIN n.elts
  PROVE  Gone(n, removeFreeElt(n, x, z), x, y, s)
<1> DEFINE o == TakeOut(n, x, s)
           E2 == [o.elts EXCEPT ![x] = poison]
           r2 == Append(n.removed, x)
           g == removeFreeElt(n, x, z)
<1>1. x \in DOMAIN n.elts /\ n.elts \in [DOMAIN n.elts -> Element] /\ x \notin Numbers(n.removed)
  BY DEF InUse, Numbered
<1>2. Out(n, o, x, y, s)
  BY <1>1, TakeOutIs
<1>3. g = [o EXCEPT !.elts[x] = poison, !.removed = Append(@, x)]
  BY DEF removeFreeElt
<1> HIDE DEF o, g
<1>4. /\ IsHeap(o) /\ DOMAIN o.elts = DOMAIN n.elts /\ o.elts \in [DOMAIN o.elts -> Element]
      /\ o.removed = n.removed
  BY <1>2 DEF Out, FreeSet
<1>5. g = [o EXCEPT !.elts = E2, !.removed = r2]
  BY <1>3, <1>4 DEF IsHeap
<1>6. /\ DOMAIN E2 = DOMAIN n.elts /\ E2 \in [DOMAIN E2 -> Element]
      /\ \A w \in DOMAIN n.elts : w # x => E2[w] = o.elts[w]
  <2>1. poison \in Element
    BY DEF poison, Element, MaxIndex
  <2> QED BY <1>4, <2>1
<1>7. Numbered(E2, r2) /\ DOMAIN E2 \ Numbers(r2) = (DOMAIN n.elts \ Numbers(n.removed)) \ {x}
  <2> HIDE DEF E2
  <2> QED BY <1>1, <1>6, OneLess
<1> HIDE DEF E2, r2
<1>8. IsHeap(g)
  <2>1. DOMAIN g = DOMAIN o /\ g = [f \in DOMAIN g |-> g[f]]
    BY <1>5
  <2> QED BY <1>4, <2>1, SameFields
<1>9. /\ g.elts = E2 /\ g.removed = r2 /\ g.free = o.free /\ g.head = o.head
      /\ g.tail = o.tail /\ g.len = o.len /\ g.maxSize = o.maxSize
  BY <1>4, <1>5, <1>8 DEF IsHeap
<1>10. InUse(g) = InUse(n) \ {x} /\ Numbered(g.elts, g.removed)
  BY <1>7, <1>9 DEF InUse
<1>11. \A w \in DOMAIN n.elts : w # x =>
         /\ g.elts[w].offset = n.elts[w].offset
         /\ g.elts[w].next = n.elts[w].next /\ g.elts[w].prev = n.elts[w].prev
         /\ g.elts[w].free = IF w = y THEN n.elts[x].free ELSE n.elts[w].free
  BY <1>2, <1>6, <1>9 DEF Out, FreeSet
<1>12. Gone(n, g, x, y, s)
  BY <1>2, <1>8, <1>9, <1>10, <1>11 DEF Gone, Out
<1> QED
  BY <1>12 DEF g

\* ei takes in pi, the chunk before it
MergedPrev(t, g, ei, pi) ==
  /\ Made(g) /\ InUse(g) = InUse(t) \ {pi}
  /\ \A x \in InUse(g) :
       /\ g.elts[x].offset = IF x = ei THEN t.elts[pi].offset ELSE t.elts[x].offset
       /\ g.elts[x].free = t.elts[x].free
       /\ g.elts[x].next = IF x = t.elts[pi].prev THEN ei ELSE t.elts[x].next
       /\ g.elts[x].prev = IF x = ei THEN t.elts[pi].prev ELSE t.elts[x].prev
  /\ g.free = t.free /\ g.tail = t.tail /\ g.len = t.len /\ g.maxSize = t.maxSize
  /\ g.head = IF pi = t.head THEN ei ELSE t.head

\* ei takes in ni, the chunk after it
MergedNext(t, g, ei, ni) ==
  /\ Made(g) /\ InUse(g) = InUse(t) \ {ni}
  /\ \A x \in InUse(g) :
       /\ g.elts[x].offset = t.elts[x].offset /\ g.elts[x].free = t.elts[x].free
       /\ g.elts[x].next = IF x = ei THEN t.elts[ni].next ELSE t.elts[x].next
       /\ g.elts[x].prev = IF x = t.elts[ni].next THEN ei ELSE t.elts[x].prev
  /\ g.free = t.free /\ g.head = t.head /\ g.len = t.len /\ g.maxSize = t.maxSize
  /\ g.tail = IF ni = t.tail THEN ei ELSE t.tail

\* x, which ei takes in, is gone, ei lies between px and nx, and the other chunks are as
\* they were
Merged(t, g, ei, x, nx, px) ==
  /\ Sound(g) /\ HeldIn(g) = HeldIn(t) \ {x} /\ ei # x
  /\ Kept(t, g, InUse(t) \ {ei, x})
  /\ g.elts[ei].next = nx /\ g.elts[ei].prev = px

LEMMA MergePrevKeeps ==
  ASSUME NEW t, Sound(t), NEW ei \in HeldIn(t), NEW pi \in HeldIn(t), t.elts[ei].prev = pi,
         NEW g, MergedPrev(t, g, ei, pi)
  PROVE  Merged(t, g, ei, pi, t.elts[ei].next, t.elts[pi].prev)
<1> DEFINE pp == t.elts[pi].prev
           nn == t.elts[ei].next
<1>1. /\ Made(t) /\ Chained(t) /\ ei \in InUse(t) /\ pi \in InUse(t) /\ Placed(t, ei) /\ Placed(t, pi)
      /\ Made(g) /\ InUse(g) = InUse(t) \ {pi}
  BY DEF Sound, HeldIn, Chained, MergedPrev
<1>2. \A x \in InUse(t) : /\ x \in Nat /\ x # MaxIndex
                          /\ t.elts[x].offset \in Int /\ t.elts[x].offset < EndOf(t, x)
                          /\ EndOf(t, x) \in Int /\ t.elts[x].offset >= 0
                          /\ t.elts[x].next \in Int /\ t.elts[x].prev \in Int
  BY <1>1, MadeFacts, SizeIs
<1>3. \A x \in InUse(t) : Placed(t, x)
  BY <1>1 DEF Chained
<1>4. /\ t.elts[pi].next = ei /\ EndOf(t, pi) = t.elts[ei].offset
      /\ pp # MaxIndex => pp \in InUse(t) /\ t.elts[pp].next = pi
      /\ nn # MaxIndex => nn \in InUse(t) /\ t.elts[nn].prev = ei
  BY <1>1, <1>2 DEF Placed, EndOf
<1>5. ei # pi /\ nn # pi /\ nn # ei
  BY <1>1, <1>2, <1>4 DEF EndOf
<1>6. pp # pi /\ pp # ei
  BY <1>1, <1>2, <1>4, <1>5 DEF EndOf
<1>7. ASSUME NEW x \in InUse(t), x # pi, x # ei, x # pp, NEW y, y = t.elts[x].next, y # MaxIndex
      PROVE  y \in InUse(t) /\ y # ei /\ y # pi /\ t.elts[y].prev = x
  <2>1. y \in InUse(t) /\ t.elts[y].prev = x
    BY <1>3, <1>7 DEF Placed
  <2> QED BY <1>7, <2>1
<1>8. ASSUME NEW x \in InUse(t), x # pi, x # ei, NEW y, y = t.elts[x].prev, y # MaxIndex
      PROVE  y \in InUse(t) /\ y # pi /\ y # pp /\ t.elts[y].next = x
  <2>1. y \in InUse(t) /\ t.elts[y].next = x
    BY <1>3, <1>8 DEF Placed
  <2> QED BY <1>4, <1>8, <2>1
<1> HIDE DEF pp, nn
<1>9. ASSUME NEW x \in InUse(g)
      PROVE  /\ g.elts[x].offset = IF x = ei THEN t.elts[pi].offset ELSE t.elts[x].offset
             /\ g.elts[x].free = t.elts[x].free
             /\ g.elts[x].next = IF x = pp THEN ei ELSE t.elts[x].next
             /\ g.elts[x].prev = IF x = ei THEN pp ELSE t.elts[x].prev
  BY DEF MergedPrev, pp
<1>10. /\ g.free = t.free /\ g.tail = t.tail /\ g.len = t.len
       /\ g.head = IF pi = t.head THEN ei ELSE t.head
  BY DEF MergedPrev
<1>11. ei \in InUse(g) /\ g.elts[ei].next = nn /\ g.elts[ei].prev = pp
  BY <1>1, <1>5, <1>6, <1>9 DEF nn
<1>12. ASSUME NEW x \in InUse(g) PROVE EndOf(g, x) = EndOf(t, x)
  <2>1. CASE x = ei
    <3>1. nn # MaxIndex => nn \in InUse(g) /\ g.elts[nn].offset = t.elts[nn].offset
      BY <1>1, <1>4, <1>5, <1>9
    <3> QED BY <1>10, <1>11, <2>1, <3>1 DEF EndOf, nn
  <2>2. CASE x = pp
    <3>1. g.elts[x].next = ei /\ g.elts[ei].offset = t.elts[pi].offset
      BY <1>9, <1>11, <2>2
    <3>2. t.elts[x].next = pi
      BY <1>1, <1>2, <1>4, <2>2
    <3> QED BY <1>1, <1>2, <3>1, <3>2 DEF EndOf
  <2>3. CASE x # ei /\ x # pp
    <3> DEFINE y == t.elts[x].next
    <3>1. g.elts[x].next = y
      BY <1>9, <2>3
    <3>2. y # MaxIndex => y \in InUse(g) /\ y # ei
      BY <1>1, <1>7, <2>3
    <3>3. y # MaxIndex => g.elts[y].offset = t.elts[y].offset
      BY <1>9, <3>2
    <3> QED BY <1>10, <3>1, <3>3 DEF EndOf
  <2> QED BY <2>1, <2>2, <2>3
<1>13. /\ \A x \in InUse(g) : size(g, x) = EndOf(g, x) - g.elts[x].offset
       /\ \A x \in InUse(t) : size(t, x) = EndOf(t, x) - t.elts[x].offset
  BY DEF size, EndOf
<1>14. \A x \in InUse(t) \ {ei, pi} : g.elts[x].offset = t.elts[x].offset /\ size(g, x) = size(t, x)
  BY <1>1, <1>9, <1>12, <1>13
<1>15. HeldIn(g) = HeldIn(t) \ {pi} /\ InUse(g) \ HeldIn(g) = InUse(t) \ HeldIn(t)
  BY <1>1, <1>9 DEF HeldIn
<1>16. Chained(g)
  <2>1. ASSUME NEW x \in InUse(g) PROVE Placed(g, x)
    <3>0. x \in InUse(t) /\ x # pi /\ Placed(t, x)
      BY <1>1, <1>3
    <3>1. size(g, x) > 0 /\ g.elts[x].offset >= 0
      <4>1. CASE x = ei
        BY <1>1, <1>2, <1>4, <1>9, <1>12, <1>13, <4>1
      <4>2. CASE x # ei
        BY <1>2, <1>9, <1>12, <1>13, <3>0, <4>2
      <4> QED BY <4>1, <4>2
    <3>2. g.elts[x].next # MaxIndex =>
            g.elts[x].next \in InUse(g) /\ g.elts[g.elts[x].next].prev = x
      <4>1. CASE x = ei
        BY <1>1, <1>4, <1>5, <1>9, <1>11, <4>1
      <4>2. CASE x = pp
        BY <1>9, <1>11, <4>2
      <4>3. CASE x # ei /\ x # pp
        <5> DEFINE y == t.elts[x].next
        <5>1. g.elts[x].next = y
          BY <1>9, <4>3
        <5>2. y # MaxIndex => y \in InUse(g) /\ y # ei /\ t.elts[y].prev = x
          BY <1>1, <1>7, <3>0, <4>3
        <5>3. y # MaxIndex => g.elts[y].prev = x
          BY <1>9, <5>2
        <5> QED BY <5>1, <5>2, <5>3
      <4> QED BY <4>1, <4>2, <4>3
    <3>3. g.elts[x].prev # MaxIndex =>
            g.elts[x].prev \in InUse(g) /\ g.elts[g.elts[x].prev].next = x
      <4>1. CASE x = ei
        BY <1>1, <1>4, <1>6, <1>9, <1>11, <4>1
      <4>2. CASE x # ei
        <5> DEFINE y == t.elts[x].prev
        <5>1. g.elts[x].prev = y
          BY <1>9, <4>2
        <5>2. y # MaxIndex => y \in InUse(g) /\ y # pp /\ t.elts[y].next = x
          BY <1>1, <1>8, <3>0, <4>2
        <5>3. y # MaxIndex => g.elts[y].next = x
          BY <1>9, <5>2
        <5> QED BY <5>1, <5>2, <5>3
      <4> QED BY <4>1, <4>2
    <3>4. g.elts[x].next = MaxIndex <=> x = g.tail
      <4>1. CASE x = pp
        BY <1>1, <1>2, <1>4, <1>9, <1>10, <3>0, <4>1 DEF Placed
      <4>2. CASE x # pp
        BY <1>9, <1>10, <3>0, <4>2 DEF Placed
      <4> QED BY <4>1, <4>2
    <3>5. (g.elts[x].prev = MaxIndex <=> x = g.head) /\ (x = g.head => g.elts[x].offset = 0)
      <4>1. pp = MaxIndex <=> pi = t.head
        BY <1>1 DEF Placed, pp
      <4>2. CASE x = ei
        <5>1. ei # t.head
          BY <1>1, <1>2 DEF Placed
        <5>2. pi = t.head => t.elts[pi].offset = 0
          BY <1>1 DEF Placed
        <5>3. g.elts[x].offset = t.elts[pi].offset
          BY <1>9, <4>2
        <5> QED BY <1>10, <1>11, <4>1, <4>2, <5>1, <5>2, <5>3
      <4>3. CASE x # ei
        <5>1. (t.elts[x].prev = MaxIndex <=> x = t.head) /\ (x = t.head => t.elts[x].offset = 0)
          BY <3>0 DEF Placed
        <5>2. g.elts[x].prev = t.elts[x].prev /\ g.elts[x].offset = t.elts[x].offset
          BY <1>9, <4>3
        <5> QED BY <1>10, <3>0, <4>3, <5>1, <5>2
      <4> QED BY <4>2, <4>3
    <3> QED BY <3>1, <3>2, <3>3, <3>4, <3>5 DEF Placed
  <2>2. g.head \in InUse(g) /\ g.tail \in InUse(g) /\ InUse(g) # {}
    <3>1. t.head \in InUse(t) /\ t.tail \in InUse(t)
      BY <1>1 DEF Chained
    <3>2. pi # t.tail
      BY <1>1, <1>2, <1>4 DEF Placed
    <3> QED BY <1>1, <1>10, <1>11, <3>1, <3>2
  <2>3. g.len <= maxLen
    BY <1>1 DEF MergedPrev, Chained
  <2> QED BY <2>1, <2>2, <2>3 DEF Chained
<1>17. Separate(g)
  <2>1. ASSUME NEW x \in InUse(g) \ HeldIn(g), g.elts[x].next # MaxIndex
        PROVE  g.elts[x].next \in HeldIn(g)
    <3>1. x \in InUse(t) \ HeldIn(t) /\ x # ei /\ x # pi
      BY <1>15, <2>1
    <3>2. g.elts[x].next = IF x = pp THEN ei ELSE t.elts[x].next
      BY <1>9, <2>1
    <3>3. t.elts[x].next # MaxIndex => t.elts[x].next \in HeldIn(t)
      BY <3>1 DEF Sound, Separate
    <3>4. x # pp /\ t.elts[x].next # MaxIndex => t.elts[x].next # pi
      BY <1>7, <3>1
    <3> QED BY <1>5, <1>15, <2>1, <3>2, <3>3, <3>4
  <2> QED BY <2>1 DEF Separate
<1>18. Listed(g)
  <2>1. \A x \in InUse(t) \ HeldIn(t) : g.elts[x].free = t.elts[x].free /\ size(g, x) = size(t, x)
    BY <1>9, <1>14, <1>15
  <2>2. Listed(t)
    BY DEF Sound
  <2> QED BY <1>10, <1>15, <2>1, <2>2, ListsStay
<1> QED
  BY <1>1, <1>5, <1>11, <1>14, <1>15, <1>16, <1>17, <1>18 DEF Sound, Kept, Merged, nn, pp

LEMMA MergeNextKeeps ==
  ASSUME NEW t, Sound(t), NEW ei \in HeldIn(t), NEW ni \in HeldIn(t), t.elts[ei].next = ni,
         NEW g, MergedNext(t, g, ei, ni)
  PROVE  Merged(t, g, ei, ni, t.elts[ni].next, t.elts[ei].prev)
<1> DEFINE nn == t.elts[ni].next
           pp == t.elts[ei].prev
<1>1. /\ Made(t) /\ Chained(t) /\ ei \in InUse(t) /\ ni \in InUse(t) /\ Placed(t, ei) /\ Placed(t, ni)
      /\ Made(g) /\ InUse(g) = InUse(t) \ {ni}
  BY DEF Sound, HeldIn, Chained, MergedNext
<1>2. \A x \in InUse(t) : /\ x \in Nat /\ x # MaxIndex
                          /\ t.elts[x].offset \in Int /\ t.elts[x].offset < EndOf(t, x)
                          /\ EndOf(t, x) \in Int /\ t.elts[x].offset >= 0
                          /\ t.elts[x].next \in Int /\ t.elts[x].prev \in Int
  BY <1>1, MadeFacts, SizeIs
<1>3. \A x \in InUse(t) : Placed(t, x)
  BY <1>1 DEF Chained
<1>4. /\ t.elts[ni].prev = ei /\ EndOf(t, ei) = t.elts[ni].offset
      /\ pp # MaxIndex => pp \in InUse(t) /\ t.elts[pp].next = ei
      /\ nn # MaxIndex => nn \in InUse(t) /\ t.elts[nn].prev = ni
  BY <1>1, <1>2 DEF Placed, EndOf
<1>5. ei # ni /\ nn # ei /\ nn # ni
  BY <1>1, <1>2, <1>4 DEF EndOf
<1>6. pp # ni /\ pp # ei
  BY <1>1, <1>2, <1>4, <1>5 DEF EndOf
<1>7. ASSUME NEW x \in InUse(t), x # ni, x # ei, NEW y, y = t.elts[x].next, y # MaxIndex
      PROVE  y \in InUse(t) /\ y # ni /\ y # nn /\ t.elts[y].prev = x
  <2>1. y \in InUse(t) /\ t.elts[y].prev = x
    BY <1>3, <1>7 DEF Placed
  <2> QED BY <1>4, <1>7, <2>1
<1>8. ASSUME NEW x \in InUse(t), x # ni, x # ei, x # nn, NEW y, y = t.elts[x].prev, y # MaxIndex
      PROVE  y \in InUse(t) /\ y # ni /\ y # ei /\ t.elts[y].next = x
  <2>1. y \in InUse(t) /\ t.elts[y].next = x
    BY <1>3, <1>8 DEF Placed
  <2> QED BY <1>8, <2>1
<1> HIDE DEF pp, nn
<1>9. ASSUME NEW x \in InUse(g)
      PROVE  /\ g.elts[x].offset = t.elts[x].offset /\ g.elts[x].free = t.elts[x].free
             /\ g.elts[x].next = IF x = ei THEN nn ELSE t.elts[x].next
             /\ g.elts[x].prev = IF x = nn THEN ei ELSE t.elts[x].prev
  BY DEF MergedNext, nn
<1>10. /\ g.free = t.free /\ g.head = t.head /\ g.len = t.len
       /\ g.tail = IF ni = t.tail THEN ei ELSE t.tail
  BY DEF MergedNext
<1>11. ei \in InUse(g) /\ g.elts[ei].next = nn /\ g.elts[ei].prev = pp
  BY <1>1, <1>5, <1>9 DEF pp
<1>12. ASSUME NEW x \in InUse(g) PROVE EndOf(g, x) = IF x = ei THEN EndOf(t, ni) ELSE EndOf(t, x)
  <2>1. CASE x = ei
    <3>1. nn # MaxIndex => nn \in InUse(g) /\ g.elts[nn].offset = t.elts[nn].offset
      BY <1>1, <1>4, <1>5, <1>9
    <3> QED BY <1>10, <1>11, <2>1, <3>1 DEF EndOf, nn
  <2>2. CASE x # ei
    <3> DEFINE y == t.elts[x].next
    <3>1. g.elts[x].next = y
      BY <1>9, <2>2
    <3>2. y # MaxIndex => y \in InUse(g)
      BY <1>1, <1>7, <2>2
    <3>3. y # MaxIndex => g.elts[y].offset = t.elts[y].offset
      BY <1>9, <3>2
    <3> QED BY <1>10, <2>2, <3>1, <3>3 DEF EndOf
  <2> QED BY <2>1, <2>2
<1>13. /\ \A x \in InUse(g) : size(g, x) = EndOf(g, x) - g.elts[x].offset
       /\ \A x \in InUse(t) : size(t, x) = EndOf(t, x) - t.elts[x].offset
  BY DEF size, EndOf
<1>14. \A x \in InUse(t) \ {ei, ni} : g.elts[x].offset = t.elts[x].offset /\ size(g, x) = size(t, x)
  BY <1>1, <1>9, <1>12, <1>13
<1>15. HeldIn(g) = HeldIn(t) \ {ni} /\ InUse(g) \ HeldIn(g) = InUse(t) \ HeldIn(t)
  BY <1>1, <1>9 DEF HeldIn
<1>16. Chained(g)
  <2>1. ASSUME NEW x \in InUse(g) PROVE Placed(g, x)
    <3>0. x \in InUse(t) /\ x # ni /\ Placed(t, x)
      BY <1>1, <1>3
    <3>1. size(g, x) > 0 /\ g.elts[x].offset >= 0
      <4>1. CASE x = ei
        BY <1>1, <1>2, <1>4, <1>9, <1>12, <1>13, <4>1
      <4>2. CASE x # ei
        BY <1>2, <1>9, <1>12, <1>13, <3>0, <4>2
      <4> QED BY <4>1, <4>2
    <3>2. g.elts[x].next # MaxIndex =>
            g.elts[x].next \in InUse(g) /\ g.elts[g.elts[x].next].prev = x
      <4>1. CASE x = ei
        BY <1>1, <1>4, <1>5, <1>9, <1>11, <4>1
      <4>2. CASE x # ei
        <5> DEFINE y == t.elts[x].next
        <5>1. g.elts[x].next = y
          BY <1>9, <4>2
        <5>2. y # MaxIndex => y \in InUse(g) /\ y # nn /\ t.elts[y].prev = x
          BY <1>1, <1>7, <3>0, <4>2
        <5>3. y # MaxIndex => g.elts[y].prev = x
          BY <1>9, <5>2
        <5> QED BY <5>1, <5>2, <5>3
      <4> QED BY <4>1, <4>2
    <3>3. g.elts[x].prev # MaxIndex =>
            g.elts[x].prev \in InUse(g) /\ g.elts[g.elts[x].prev].next = x
      <4>1. CASE x = ei
        BY <1>1, <1>4, <1>6, <1>9, <1>11, <4>1
      <4>2. CASE x = nn
        BY <1>9, <1>11, <4>2
      <4>3. CASE x # ei /\ x # nn
        <5> DEFINE y == t.elts[x].prev
        <5>1. g.elts[x].prev = y
          BY <1>9, <4>3
        <5>2. y # MaxIndex => y \in InUse(g) /\ y # ei /\ t.elts[y].next = x
          BY <1>1, <1>8, <3>0, <4>3
        <5>3. y # MaxIndex => g.elts[y].next = x
          BY <1>9, <5>2
        <5> QED BY <5>1, <5>2, <5>3
      <4> QED BY <4>1, <4>2, <4>3
    <3>4. g.elts[x].next = MaxIndex <=> x = g.tail
      <4>1. nn = MaxIndex <=> ni = t.tail
        BY <1>1 DEF Placed, nn
      <4>2. CASE x = ei
        <5>1. ei # t.tail
          BY <1>1, <1>2 DEF Placed
        <5> QED BY <1>10, <1>11, <4>1, <4>2, <5>1
      <4>3. CASE x # ei
        <5>1. t.elts[x].next = MaxIndex <=> x = t.tail
          BY <3>0 DEF Placed
        <5>2. g.elts[x].next = t.elts[x].next
          BY <1>9, <4>3
        <5> QED BY <1>10, <3>0, <4>3, <5>1, <5>2
      <4> QED BY <4>2, <4>3
    <3>5. (g.elts[x].prev = MaxIndex <=> x = g.head) /\ (x = g.head => g.elts[x].offset = 0)
      <4>1. CASE x = nn
        <5>1. x # t.head
          BY <1>1, <1>2, <1>4, <3>0, <4>1 DEF Placed
        <5>2. g.elts[x].prev = ei
          BY <1>9, <4>1
        <5> QED BY <1>1, <1>2, <1>10, <5>1, <5>2
      <4>2. CASE x # nn
        BY <1>9, <1>10, <3>0, <4>2 DEF Placed
      <4> QED BY <4>1, <4>2
    <3> QED BY <3>1, <3>2, <3>3, <3>4, <3>5 DEF Placed
  <2>2. g.head \in InUse(g) /\ g.tail \in InUse(g) /\ InUse(g) # {}
    <3>1. t.head \in InUse(t) /\ t.tail \in InUse(t)
      BY <1>1 DEF Chained
    <3>2. ni # t.head
      BY <1>1, <1>2, <1>4 DEF Placed
    <3> QED BY <1>1, <1>10, <1>11, <3>1, <3>2
  <2>3. g.len <= maxLen
    BY <1>1 DEF MergedNext, Chained
  <2> QED BY <2>1, <2>2, <2>3 DEF Chained
<1>17. Separate(g)
  <2>1. ASSUME NEW x \in InUse(g) \ HeldIn(g), g.elts[x].next # MaxIndex
        PROVE  g.elts[x].next \in HeldIn(g)
    <3>1. x \in InUse(t) \ HeldIn(t) /\ x # ei /\ x # ni
      BY <1>15, <2>1
    <3>2. g.elts[x].next = t.elts[x].next
      BY <1>9, <2>1, <3>1
    <3>3. t.elts[x].next # MaxIndex => t.elts[x].next \in HeldIn(t)
      BY <3>1 DEF Sound, Separate
    <3>4. t.elts[x].next # MaxIndex => t.elts[x].next # ni
      BY <1>7, <3>1
    <3> QED BY <1>15, <2>1, <3>2, <3>3, <3>4
  <2> QED BY <2>1 DEF Separate
<1>18. Listed(g)
  <2>1. \A x \in InUse(t) \ HeldIn(t) : g.elts[x].free = t.elts[x].free /\ size(g, x) = size(t, x)
    BY <1>9, <1>14, <1>15
  <2>2. Listed(t)
    BY DEF Sound
  <2> QED BY <1>10, <1>15, <2>1, <2>2, ListsStay
<1> QED
  BY <1>1, <1>5, <1>11, <1>14, <1>15, <1>16, <1>17, <1>18 DEF Sound, Kept, Merged, nn, pp

\* The chunks from lowest to highest
LEMMA Neighbours ==
  ASSUME NEW h, Sound(h), NEW x \in InUse(h)
  PROVE  /\ x \in Nat /\ x # MaxIndex /\ x \in DOMAIN h.elts
         /\ h.elts[x].next \in Int /\ h.elts[x].prev \in Int /\ h.elts[x].offset \in Int
         /\ h.elts[x].next # MaxIndex =>
              /\ h.elts[x].next \in InUse(h) /\ h.elts[h.elts[x].next].prev = x
              /\ h.elts[x].offset < h.elts[h.elts[x].next].offset
         /\ h.elts[x].prev # MaxIndex =>
              /\ h.elts[x].prev \in InUse(h) /\ h.elts[h.elts[x].prev].next = x
              /\ h.elts[h.elts[x].prev].offset < h.elts[x].offset
<1>1. Made(h) /\ Chained(h) /\ Placed(h, x)
  BY DEF Sound, Chained
<1>2. \A y \in InUse(h) : /\ y \in Nat /\ y # MaxIndex /\ y \in DOMAIN h.elts
                          /\ h.elts[y].next \in Int /\ h.elts[y].prev \in Int
                          /\ h.elts[y].offset \in Int /\ h.elts[y].offset < EndOf(h, y)
  BY <1>1, MadeFacts, SizeIs
<1>3. h.elts[x].next # MaxIndex => h.elts[x].offset < h.elts[h.elts[x].next].offset
  BY <1>2 DEF EndOf
<1>4. h.elts[x].prev # MaxIndex =>
        /\ h.elts[x].prev \in InUse(h) /\ h.elts[h.elts[x].prev].next = x
        /\ h.elts[h.elts[x].prev].offset < h.elts[x].offset
  BY <1>1, <1>2 DEF EndOf, Placed
<1> QED
  BY <1>1, <1>2, <1>3, <1>4 DEF Placed

\* The chunk before ei, and the one before that
ChunkBefore(h, ei, pi, pp) ==
  /\ pi \in InUse(h) /\ h.elts[pi].next = ei /\ h.elts[pi].offset < h.elts[ei].offset
  /\ pi # MaxIndex /\ ei # MaxIndex /\ ei \in Int /\ h.elts[pi].offset \in Int
  /\ h.elts[ei].offset \in Int /\ pp \in Int
  /\ pp # MaxIndex => pp \in InUse(h) /\ h.elts[pp].offset < h.elts[pi].offset /\ h.elts[pp].offset \in Int
  /\ pi # ei /\ pp # pi /\ pp # ei

LEMMA PrevIs ==
  ASSUME NEW h, Sound(h), NEW ei \in InUse(h), NEW pi, pi = h.elts[ei].prev, pi # MaxIndex
  PROVE  ChunkBefore(h, ei, pi, h.elts[pi].prev)
<1> DEFINE pp == h.elts[pi].prev
<1>1. /\ pi \in InUse(h) /\ h.elts[pi].next = ei /\ h.elts[pi].offset < h.elts[ei].offset
      /\ ei # MaxIndex /\ ei \in Int /\ h.elts[ei].offset \in Int
  BY Neighbours
<1>2. h.elts[pi].offset \in Int /\ pp \in Int
  BY <1>1, Neighbours
<1>3. pp # MaxIndex => pp \in InUse(h) /\ h.elts[pp].offset < h.elts[pi].offset /\ h.elts[pp].offset \in Int
  BY <1>1, Neighbours
<1> HIDE DEF pp
<1>4. pi # ei /\ pp # pi /\ pp # ei
  BY <1>1, <1>2, <1>3
<1>5. ChunkBefore(h, ei, pi, pp)
  BY <1>1, <1>2, <1>3, <1>4 DEF ChunkBefore
<1> QED
  BY <1>5 DEF pp

\* The chunk after ei, and the one after that
ChunkAfter(h, ei, ni, nn) ==
  /\ ni \in InUse(h) /\ h.elts[ni].prev = ei /\ h.elts[ei].offset < h.elts[ni].offset
  /\ ni # MaxIndex /\ ei # MaxIndex /\ ei \in Int /\ h.elts[ni].offset \in Int
  /\ h.elts[ei].offset \in Int /\ nn \in Int
  /\ nn # MaxIndex => nn \in InUse(h) /\ h.elts[ni].offset < h.elts[nn].offset /\ h.elts[nn].offset \in Int
  /\ ni # ei /\ nn # ni /\ nn # ei

LEMMA NextIs ==
  ASSUME NEW h, Sound(h), NEW ei \in InUse(h), NEW ni, ni = h.elts[ei].next, ni # MaxIndex
  PROVE  ChunkAfter(h, ei, ni, h.elts[ni].next)
<1> DEFINE nn == h.elts[ni].next
<1>1. /\ ni \in InUse(h) /\ h.elts[ni].prev = ei /\ h.elts[ei].offset < h.elts[ni].offset
      /\ ei # MaxIndex /\ ei \in Int /\ h.elts[ei].offset \in Int
  BY Neighbours
<1>2. h.elts[ni].offset \in Int /\ nn \in Int
  BY <1>1, Neighbours
<1>3. nn # MaxIndex => nn \in InUse(h) /\ h.elts[ni].offset < h.elts[nn].offset /\ h.elts[nn].offset \in Int
  BY <1>1, Neighbours
<1> HIDE DEF nn
<1>4. ni # ei /\ nn # ni /\ nn # ei
  BY <1>1, <1>2, <1>3
<1>5. ChunkAfter(h, ei, ni, nn)
  BY <1>1, <1>2, <1>3, <1>4 DEF ChunkAfter
<1> QED
  BY <1>5 DEF nn

\* Chunk x of list s taken, and y, the last of list s
LEMMA Taking ==
  ASSUME NEW h, Sound(h), NEW x, NEW s, NEW k, At(h, s, k, x)
  PROVE  \E t, y : /\ Taken(h, t, x, y, s, k) /\ y = h.free[s][Len(h.free[s])]
                   /\ y \in InUse(h) \ HeldIn(h)
<1> DEFINE y == h.free[s][Len(h.free[s])]
           t == TakeHeld(h, x, s)
<1>1. Taken(h, t, x, y, s, k)
  BY TakeOutTakes
<1>2. \E l : At(h, s, l, y)
  <2> HIDE DEF t
  <2> QED BY <1>1 DEF Taken, Shorter, At
<1>3. y \in InUse(h) \ HeldIn(h)
  BY <1>2, ListedFacts
<1> QED
  BY <1>1, <1>3

LEMMA JoinPrevIs ==
  ASSUME NEW h, Sound(h), NEW ei \in HeldIn(h), prevFree(h, ei), NEW pi, pi = h.elts[ei].prev,
         NEW s, s = listOf(h, prevSize(h, ei)), NEW k, At(h, s, k, pi),
         NEW t, NEW y, Taken(h, t, pi, y, s, k), y = h.free[s][Len(h.free[s])],
         y \in InUse(h) \ HeldIn(h)
  PROVE  MergedPrev(t, JoinPrev(h, ei), ei, pi)
<1> DEFINE pp == h.elts[pi].prev
           e == [h.elts[ei] EXCEPT !.offset = h.elts[pi].offset, !.prev = pp]
           E1 == [x \in DOMAIN h.elts |->
                    IF x = ei THEN e ELSE IF x = pp THEN [h.elts[x] EXCEPT !.next = ei] ELSE h.elts[x]]
           hd == IF pi = h.head THEN ei ELSE h.head
           n == [h EXCEPT !.elts = E1, !.head = hd]
           z == prevSize(h, ei)
           g == JoinPrev(h, ei)
<1>1. g = removeFreeElt(n, pi, z)
  BY DEF JoinPrev
<1>2. /\ IsHeap(h) /\ Numbered(h.elts, h.removed) /\ IsLists(h.free) /\ h.head \in Int /\ h.tail \in Int
      /\ h.len \in Nat /\ h.maxSize \in Nat /\ ei \in InUse(h) /\ Made(h)
      /\ h.elts \in [DOMAIN h.elts -> Element] /\ InUse(h) \subseteq DOMAIN h.elts
  BY DEF Sound, Made, HeldIn, InUse, Numbered
<1>a. ChunkBefore(h, ei, pi, pp)
  <2>1. pi # MaxIndex
    BY DEF prevFree
  <2> QED BY <1>2, <2>1, PrevIs
<1> HIDE DEF E1, pp, hd, e, n, z, g
<1>3. /\ pi \in InUse(h) /\ h.elts[pi].next = ei /\ h.elts[pi].offset < h.elts[ei].offset
      /\ pi # MaxIndex /\ ei # MaxIndex /\ ei \in Int /\ h.elts[pi].offset \in Int
      /\ h.elts[ei].offset \in Int /\ pp \in Int
      /\ pp # MaxIndex => pp \in InUse(h) /\ h.elts[pp].offset < h.elts[pi].offset /\ h.elts[pp].offset \in Int
  BY <1>a DEF ChunkBefore
<1>5. pi # ei /\ pp # pi /\ pp # ei
  BY <1>a DEF ChunkBefore
<1> USE DEF E1, pp, hd, e, n, z, g
<1>6. /\ h.elts[pi].free = k - 1 /\ k \in Nat \ {0}
  BY ListedFacts
<1>7. e \in Element /\ e.offset = h.elts[pi].offset /\ e.prev = pp /\ e.next = h.elts[ei].next
      /\ e.free = h.elts[ei].free
  <2> DEFINE d == h.elts[ei]
             a == h.elts[pi].offset
  <2>1. d \in Element /\ a \in Int /\ pp \in Int
    BY <1>2, <1>3
  <2> HIDE DEF d, a, pp
  <2>2. e = [d EXCEPT !.offset = a, !.prev = pp]
    BY DEF d, a, pp
  <2> HIDE DEF e
  <2>3. e \in Element /\ e.offset = a /\ e.prev = pp /\ e.next = d.next /\ e.free = d.free
    BY <2>1, <2>2 DEF Element
  <2> QED BY <2>3 DEF d, a
<1>8. DOMAIN E1 = DOMAIN h.elts /\ E1 \in [DOMAIN E1 -> Element] /\ E1[pi] = h.elts[pi]
  <2> HIDE DEF e, pp
  <2>1. \A x \in DOMAIN h.elts : [h.elts[x] EXCEPT !.next = ei] \in Element
    BY <1>2, <1>3, ElementFields
  <2> QED BY <1>2, <1>3, <1>5, <1>7, <2>1
<1>9. ASSUME NEW x \in InUse(h)
      PROVE  /\ E1[x].offset = IF x = ei THEN h.elts[pi].offset ELSE h.elts[x].offset
             /\ E1[x].free = h.elts[x].free
             /\ E1[x].next = IF x = pp THEN ei ELSE h.elts[x].next
             /\ E1[x].prev = IF x = ei THEN pp ELSE h.elts[x].prev
  <2> DEFINE d == h.elts[x]
  <2>1. d \in Element /\ x \in DOMAIN h.elts
    BY <1>2
  <2>2. E1[x] = IF x = ei THEN e ELSE IF x = pp THEN [d EXCEPT !.next = ei] ELSE d
    BY <2>1
  <2>3. CASE x = ei
    BY <1>5, <1>7, <2>2, <2>3
  <2>4. CASE x # ei
    <3> HIDE DEF d, pp, e, E1
    <3>1. CASE x = pp
      BY <1>3, <2>1, <2>2, <2>4, <3>1, ElementFields DEF d
    <3>2. CASE x # pp
      BY <2>2, <2>4, <3>2 DEF d
    <3> QED BY <3>1, <3>2
  <2> QED BY <2>3, <2>4
<1> HIDE DEF E1, e, pp, n, hd, g, z
<1>10. /\ IsHeap(n) /\ n.elts = E1 /\ n.head = hd /\ n.free = h.free /\ n.removed = h.removed
       /\ n.tail = h.tail /\ n.len = h.len /\ n.maxSize = h.maxSize
  <2>1. DOMAIN n = DOMAIN h /\ n = [f \in DOMAIN n |-> n[f]]
    BY DEF n
  <2>2. IsHeap(n)
    BY <1>2, <2>1, SameFields
  <2> QED BY <1>2, <2>2 DEF IsHeap, n
<1>11. Numbered(n.elts, n.removed) /\ InUse(n) = InUse(h)
  BY <1>2, <1>8, <1>10 DEF Numbered, InUse
<1>12. s = listOf(n, z) /\ y = n.free[s][Len(n.free[s])] /\ y \in DOMAIN n.elts /\ pi \in InUse(n)
  BY <1>2, <1>3, <1>8, <1>10, <1>11 DEF listOf, z
<1>13. Gone(n, g, pi, y, s)
  BY <1>1, <1>10, <1>11, <1>12, RemoveFreeIs
<1>14. n.elts[pi].free + 1 = k /\ n.elts[pi].free = k - 1
  BY <1>6, <1>8, <1>10
<1>15. g.free = t.free
  BY <1>10, <1>13, <1>14 DEF Gone, Taken
<1>16. hd \in Int
  BY <1>2, <1>3 DEF hd
<1>17. /\ Made(g) /\ InUse(g) = InUse(h) \ {pi}
  <2>1. IsLists(t.free)
    BY DEF Taken, Shorter
  <2> QED BY <1>2, <1>10, <1>11, <1>13, <1>15, <1>16, <2>1 DEF Made, Gone
<1>18. /\ InUse(t) = InUse(h) /\ t.tail = h.tail /\ t.head = h.head /\ t.len = h.len
       /\ t.maxSize = h.maxSize
       /\ \A x \in InUse(h) : /\ t.elts[x].offset = h.elts[x].offset
                              /\ t.elts[x].next = h.elts[x].next /\ t.elts[x].prev = h.elts[x].prev
                              /\ t.elts[x].free = IF x = pi THEN MaxIndex ELSE IF x = y THEN k - 1
                                                  ELSE h.elts[x].free
  BY DEF Taken, SamePlaces
<1>19. ASSUME NEW x \in InUse(g)
       PROVE  /\ g.elts[x].offset = IF x = ei THEN t.elts[pi].offset ELSE t.elts[x].offset
              /\ g.elts[x].free = t.elts[x].free
              /\ g.elts[x].next = IF x = pp THEN ei ELSE t.elts[x].next
              /\ g.elts[x].prev = IF x = ei THEN pp ELSE t.elts[x].prev
  <2>1. x \in InUse(h) /\ x # pi /\ x \in DOMAIN n.elts
    BY <1>2, <1>8, <1>10, <1>17
  <2>2. /\ g.elts[x].offset = E1[x].offset
        /\ g.elts[x].next = E1[x].next /\ g.elts[x].prev = E1[x].prev
        /\ g.elts[x].free = IF x = y THEN k - 1 ELSE E1[x].free
    BY <1>10, <1>13, <1>14, <2>1 DEF Gone
  <2> QED BY <1>3, <1>9, <1>18, <2>1, <2>2
<1>20. t.elts[pi].prev = pp
  BY <1>3, <1>18 DEF pp
<1>21. ASSUME NEW x \in InUse(g)
       PROVE  /\ g.elts[x].offset = IF x = ei THEN t.elts[pi].offset ELSE t.elts[x].offset
              /\ g.elts[x].free = t.elts[x].free
              /\ g.elts[x].next = IF x = t.elts[pi].prev THEN ei ELSE t.elts[x].next
              /\ g.elts[x].prev = IF x = ei THEN t.elts[pi].prev ELSE t.elts[x].prev
  BY <1>19, <1>20
<1>22. /\ g.tail = t.tail /\ g.len = t.len /\ g.maxSize = t.maxSize
       /\ g.head = IF pi = t.head THEN ei ELSE t.head
  <2>1. g.tail = n.tail /\ g.head = n.head /\ g.len = n.len /\ g.maxSize = n.maxSize
    BY <1>13 DEF Gone
  <2> QED BY <1>10, <1>18, <2>1 DEF hd
<1>23. Made(g) /\ InUse(g) = InUse(t) \ {pi}
  BY <1>17, <1>18
<1>24. MergedPrev(t, g, ei, pi)
  BY <1>15, <1>21, <1>22, <1>23 DEF MergedPrev
<1> QED
  BY <1>24 DEF g

LEMMA JoinNextIs ==
  ASSUME NEW h, Sound(h), NEW ei \in HeldIn(h), nextFree(h, ei), NEW ni, ni = h.elts[ei].next,
         NEW s, s = listOf(h, nextSize(h, ei)), NEW k, At(h, s, k, ni),
         NEW t, NEW y, Taken(h, t, ni, y, s, k), y = h.free[s][Len(h.free[s])],
         y \in InUse(h) \ HeldIn(h)
  PROVE  MergedNext(t, JoinNext(h, ei), ei, ni)
<1> DEFINE nn == h.elts[ni].next
           E1 == [x \in DOMAIN h.elts |->
                    IF x = ei THEN [h.elts[x] EXCEPT !.next = nn]
                    ELSE IF x = nn THEN [h.elts[x] EXCEPT !.prev = ei] ELSE h.elts[x]]
           tl == IF ni = h.tail THEN ei ELSE h.tail
           n == [h EXCEPT !.elts = E1, !.tail = tl]
           z == nextSize(h, ei)
           g == JoinNext(h, ei)
<1>1. g = removeFreeElt(n, ni, z)
  BY DEF JoinNext
<1>2. /\ IsHeap(h) /\ Numbered(h.elts, h.removed) /\ IsLists(h.free) /\ h.head \in Int /\ h.tail \in Int
      /\ h.len \in Nat /\ h.maxSize \in Nat /\ ei \in InUse(h) /\ Made(h)
      /\ h.elts \in [DOMAIN h.elts -> Element] /\ InUse(h) \subseteq DOMAIN h.elts
  BY DEF Sound, Made, HeldIn, InUse, Numbered
<1>a. ChunkAfter(h, ei, ni, nn)
  <2>1. ni # MaxIndex
    BY DEF nextFree
  <2> QED BY <1>2, <2>1, NextIs
<1> HIDE DEF E1, nn, tl, n, z, g
<1>3. /\ ni \in InUse(h) /\ h.elts[ni].prev = ei /\ h.elts[ei].offset < h.elts[ni].offset
      /\ ni # MaxIndex /\ ei # MaxIndex /\ ei \in Int /\ h.elts[ni].offset \in Int
      /\ h.elts[ei].offset \in Int /\ nn \in Int
      /\ nn # MaxIndex => nn \in InUse(h) /\ h.elts[ni].offset < h.elts[nn].offset /\ h.elts[nn].offset \in Int
  BY <1>a DEF ChunkAfter
<1>5. ni # ei /\ nn # ni /\ nn # ei
  BY <1>a DEF ChunkAfter
<1> USE DEF E1, nn, tl, n, z, g
<1>6. /\ h.elts[ni].free = k - 1 /\ k \in Nat \ {0}
  BY ListedFacts
<1>7. DOMAIN E1 = DOMAIN h.elts /\ E1 \in [DOMAIN E1 -> Element] /\ E1[ni] = h.elts[ni]
  <2> HIDE DEF nn
  <2>1. \A x \in DOMAIN h.elts : /\ [h.elts[x] EXCEPT !.next = nn] \in Element
                                 /\ [h.elts[x] EXCEPT !.prev = ei] \in Element
    BY <1>2, <1>3, ElementFields
  <2> QED BY <1>2, <1>3, <1>5, <2>1
<1>8. ASSUME NEW x \in InUse(h)
      PROVE  /\ E1[x].offset = h.elts[x].offset /\ E1[x].free = h.elts[x].free
             /\ E1[x].next = IF x = ei THEN nn ELSE h.elts[x].next
             /\ E1[x].prev = IF x = nn THEN ei ELSE h.elts[x].prev
  <2> DEFINE d == h.elts[x]
  <2>1. d \in Element /\ x \in DOMAIN h.elts
    BY <1>2
  <2>2. E1[x] = IF x = ei THEN [d EXCEPT !.next = nn] ELSE IF x = nn THEN [d EXCEPT !.prev = ei] ELSE d
    BY <2>1
  <2> HIDE DEF d, nn, E1
  <2>3. CASE x = ei
    BY <1>3, <1>5, <2>1, <2>2, <2>3, ElementFields DEF d
  <2>4. CASE x # ei /\ x = nn
    BY <1>3, <2>1, <2>2, <2>4, ElementFields DEF d
  <2>5. CASE x # ei /\ x # nn
    BY <2>2, <2>5 DEF d
  <2> QED BY <2>3, <2>4, <2>5
<1> HIDE DEF E1, nn, n, tl, g, z
<1>10. /\ IsHeap(n) /\ n.elts = E1 /\ n.tail = tl /\ n.free = h.free /\ n.removed = h.removed
       /\ n.head = h.head /\ n.len = h.len /\ n.maxSize = h.maxSize
  <2>1. DOMAIN n = DOMAIN h /\ n = [f \in DOMAIN n |-> n[f]]
    BY DEF n
  <2>2. IsHeap(n)
    BY <1>2, <2>1, SameFields
  <2> QED BY <1>2, <2>2 DEF IsHeap, n
<1>11. Numbered(n.elts, n.removed) /\ InUse(n) = InUse(h)
  BY <1>2, <1>7, <1>10 DEF Numbered, InUse
<1>12. s = listOf(n, z) /\ y = n.free[s][Len(n.free[s])] /\ y \in DOMAIN n.elts /\ ni \in InUse(n)
  BY <1>2, <1>3, <1>7, <1>10, <1>11 DEF listOf, z
<1>13. Gone(n, g, ni, y, s)
  BY <1>1, <1>10, <1>11, <1>12, RemoveFreeIs
<1>14. n.elts[ni].free + 1 = k /\ n.elts[ni].free = k - 1
  BY <1>6, <1>7, <1>10
<1>15. g.free = t.free
  BY <1>10, <1>13, <1>14 DEF Gone, Taken
<1>16. tl \in Int
  BY <1>2, <1>3 DEF tl
<1>17. /\ Made(g) /\ InUse(g) = InUse(h) \ {ni}
  <2>1. IsLists(t.free)
    BY DEF Taken, Shorter
  <2> QED BY <1>2, <1>10, <1>11, <1>13, <1>15, <1>16, <2>1 DEF Made, Gone
<1>18. /\ InUse(t) = InUse(h) /\ t.tail = h.tail /\ t.head = h.head /\ t.len = h.len
       /\ t.maxSize = h.maxSize
       /\ \A x \in InUse(h) : /\ t.elts[x].offset = h.elts[x].offset
                              /\ t.elts[x].next = h.elts[x].next /\ t.elts[x].prev = h.elts[x].prev
                              /\ t.elts[x].free = IF x = ni THEN MaxIndex ELSE IF x = y THEN k - 1
                                                  ELSE h.elts[x].free
  BY DEF Taken, SamePlaces
<1>19. ASSUME NEW x \in InUse(g)
       PROVE  /\ g.elts[x].offset = t.elts[x].offset /\ g.elts[x].free = t.elts[x].free
              /\ g.elts[x].next = IF x = ei THEN nn ELSE t.elts[x].next
              /\ g.elts[x].prev = IF x = nn THEN ei ELSE t.elts[x].prev
  <2>1. x \in InUse(h) /\ x # ni /\ x \in DOMAIN n.elts
    BY <1>2, <1>7, <1>10, <1>17
  <2>2. /\ g.elts[x].offset = E1[x].offset
        /\ g.elts[x].next = E1[x].next /\ g.elts[x].prev = E1[x].prev
        /\ g.elts[x].free = IF x = y THEN k - 1 ELSE E1[x].free
    BY <1>10, <1>13, <1>14, <2>1 DEF Gone
  <2> QED BY <1>3, <1>8, <1>18, <2>1, <2>2
<1>20. t.elts[ni].next = nn
  BY <1>3, <1>18 DEF nn
<1>21. ASSUME NEW x \in InUse(g)
       PROVE  /\ g.elts[x].offset = t.elts[x].offset /\ g.elts[x].free = t.elts[x].free
              /\ g.elts[x].next = IF x = ei THEN t.elts[ni].next ELSE t.elts[x].next
              /\ g.elts[x].prev = IF x = t.elts[ni].next THEN ei ELSE t.elts[x].prev
  BY <1>19, <1>20
<1>22. /\ g.head = t.head /\ g.len = t.len /\ g.maxSize = t.maxSize
       /\ g.tail = IF ni = t.tail THEN ei ELSE t.tail
  <2>1. g.head = n.head /\ g.tail = n.tail /\ g.len = n.len /\ g.maxSize = n.maxSize
    BY <1>13 DEF Gone
  <2> QED BY <1>10, <1>18, <2>1 DEF tl
<1>23. Made(g) /\ InUse(g) = InUse(t) \ {ni}
  BY <1>17, <1>18
<1>24. MergedNext(t, g, ei, ni)
  BY <1>15, <1>21, <1>22, <1>23 DEF MergedNext
<1> QED
  BY <1>24 DEF g

\* ei has joined a neighbour, or has none to join: the held chunks are as they were
Joined(h, g, ei) ==
  Sound(g) /\ HeldIn(g) = HeldIn(h) /\ Kept(h, g, HeldIn(h) \ {ei})

LEMMA JoinPrevKeeps ==
  ASSUME NEW h, Sound(h), NEW ei \in HeldIn(h),
         prevFree(h, ei) => OnList(h, h.elts[ei].prev, prevSize(h, ei)),
         nextFree(h, ei) => OnList(h, h.elts[ei].next, nextSize(h, ei)),
         NEW g, g = JoinPrev(h, ei)
  PROVE  /\ Joined(h, g, ei) /\ ~prevFree(g, ei)
         /\ nextFree(g, ei) => OnList(g, g.elts[ei].next, nextSize(g, ei))
<1>1. CASE ~prevFree(h, ei)
  <2>1. g = h
    BY <1>1 DEF JoinPrev
  <2> QED BY <1>1, <2>1 DEF Joined, Kept
<1>2. CASE prevFree(h, ei)
  <2> DEFINE pi == h.elts[ei].prev
             ni == h.elts[ei].next
             z == prevSize(h, ei)
             s == listOf(h, z)
  <2>1. ei \in InUse(h) /\ h.elts[ei].free = MaxIndex
    BY DEF HeldIn
  <2>2. /\ pi # MaxIndex /\ pi \in InUse(h) \ HeldIn(h) /\ h.elts[pi].next = ei
        /\ h.elts[pi].offset < h.elts[ei].offset
    BY <1>2, <2>1, Neighbours DEF prevFree, isFree, HeldIn
  <2>3. PICK k : At(h, s, k, pi)
    BY <1>2, <2>2, OnListIs
  <2>4. PICK t, y : /\ Taken(h, t, pi, y, s, k) /\ y = h.free[s][Len(h.free[s])]
                    /\ y \in InUse(h) \ HeldIn(h)
    BY <2>3, Taking
  <2>5. MergedPrev(t, g, ei, pi)
    BY <1>2, <2>3, <2>4, JoinPrevIs
  <2> HIDE DEF z, s, pi, ni
  <2>6. /\ Sound(t) /\ HeldIn(t) = HeldIn(h) \cup {pi} /\ pi \notin HeldIn(h)
        /\ Kept(h, t, InUse(h)) /\ DOMAIN t.free = DOMAIN h.free
        /\ \A u, i, w : At(h, u, i, w) /\ w # pi => \E j : At(t, u, j, w)
    <3>1. NowHeld(h, t, pi)
      BY <2>3, <2>4, TakeKeeps
    <3> QED BY <3>1 DEF NowHeld
  <2>7. /\ InUse(t) = InUse(h)
        /\ \A x \in InUse(h) : t.elts[x].next = h.elts[x].next /\ t.elts[x].prev = h.elts[x].prev
    BY <2>4 DEF Taken, SamePlaces
  <2>8. t.elts[ei].prev = pi /\ t.elts[ei].next = ni /\ t.elts[pi].prev = h.elts[pi].prev
    BY <2>1, <2>2, <2>7 DEF pi, ni
  <2>9. /\ Sound(g) /\ HeldIn(g) = HeldIn(t) \ {pi} /\ ei # pi
        /\ Kept(t, g, InUse(t) \ {ei, pi})
        /\ g.elts[ei].next = ni /\ g.elts[ei].prev = h.elts[pi].prev
    <3>0. Sound(t) /\ t.elts[ei].prev = pi
      BY <2>6, <2>8
    <3>1. ei \in HeldIn(t) /\ pi \in HeldIn(t)
      BY <2>6
    <3>2. Merged(t, g, ei, pi, t.elts[ei].next, t.elts[pi].prev)
      BY <2>5, <3>0, <3>1, MergePrevKeeps, Zenon
    <3> QED BY <2>8, <3>2 DEF Merged
  <2>10. HeldIn(g) = HeldIn(h)
    BY <2>6, <2>9
  <2>11. Kept(h, g, InUse(h) \ {ei, pi})
    BY <2>6, <2>7, <2>9 DEF Kept
  <2>12. Joined(h, g, ei)
    BY <2>6, <2>9, <2>10, <2>11 DEF Joined, Kept, HeldIn
  <2>13. ~prevFree(g, ei)
    <3> DEFINE pp == h.elts[pi].prev
    <3>1. pp # MaxIndex => pp \in InUse(h) /\ h.elts[pp].next = pi
      BY <2>2, Neighbours
    <3>2. pp # MaxIndex => pp \in HeldIn(h)
      BY <2>2, <3>1 DEF Sound, Separate
    <3> QED BY <2>9, <2>10, <3>2 DEF prevFree, isFree, HeldIn
  <2>14. ASSUME nextFree(g, ei) PROVE OnList(g, g.elts[ei].next, nextSize(g, ei))
    <3>1. ni # MaxIndex /\ g.elts[ni].free # MaxIndex
      BY <2>9, <2>14 DEF nextFree, isFree
    <3>2. /\ ni \in InUse(h) /\ h.elts[ei].offset < h.elts[ni].offset /\ h.elts[ei].offset \in Int
          /\ h.elts[ni].offset \in Int
      BY <2>1, <3>1, Neighbours DEF ni
    <3>3. ni # ei /\ ni # pi
      <4>1. h.elts[pi].offset \in Int
        BY <2>2, Neighbours
      <4> QED BY <2>2, <3>2, <4>1
    <3>4. ni \notin HeldIn(h) /\ ni \in InUse(g)
      BY <2>5, <2>7, <2>10, <3>1, <3>2, <3>3 DEF HeldIn, MergedPrev
    <3>5. nextSize(g, ei) = nextSize(h, ei)
      BY <2>9, <2>11, <3>2, <3>3 DEF nextSize, Kept, ni
    <3>6. nextFree(h, ei)
      BY <3>1, <3>2, <3>4 DEF nextFree, isFree, HeldIn, ni
    <3> DEFINE u == listOf(h, nextSize(h, ei))
    <3>7. OnList(h, ni, nextSize(h, ei))
      BY <3>6 DEF ni
    <3>8. PICK i : At(h, u, i, ni)
      BY <3>2, <3>4, <3>7, OnListIs
    <3>9. g.free = t.free
      BY <2>5 DEF MergedPrev
    <3>10. u = listOf(g, nextSize(g, ei))
      BY <2>6, <3>5, <3>9 DEF listOf
    <3> HIDE DEF u
    <3>11. \E j : At(g, u, j, ni)
      BY <2>6, <3>3, <3>8, <3>9 DEF At
    <3> QED BY <2>9, <2>10, <3>4, <3>10, <3>11, OnListIs
  <2> QED BY <2>12, <2>13, <2>14
<1> QED
  BY <1>1, <1>2

LEMMA JoinNextKeeps ==
  ASSUME NEW h, Sound(h), NEW ei \in HeldIn(h), ~prevFree(h, ei),
         nextFree(h, ei) => OnList(h, h.elts[ei].next, nextSize(h, ei)),
         NEW g, g = JoinNext(h, ei)
  PROVE  Joined(h, g, ei) /\ ~prevFree(g, ei) /\ ~nextFree(g, ei)
<1>1. CASE ~nextFree(h, ei)
  <2>1. g = h
    BY <1>1 DEF JoinNext
  <2> QED BY <1>1, <2>1 DEF Joined, Kept
<1>2. CASE nextFree(h, ei)
  <2> DEFINE pp == h.elts[ei].prev
             ni == h.elts[ei].next
             z == nextSize(h, ei)
             s == listOf(h, z)
  <2>1. ei \in InUse(h) /\ h.elts[ei].free = MaxIndex
    BY DEF HeldIn
  <2>2. ni # MaxIndex /\ ni \in InUse(h) \ HeldIn(h)
    BY <1>2, <2>1, Neighbours DEF nextFree, isFree, HeldIn
  <2>3. PICK k : At(h, s, k, ni)
    BY <1>2, <2>2, OnListIs
  <2>4. PICK t, y : /\ Taken(h, t, ni, y, s, k) /\ y = h.free[s][Len(h.free[s])]
                    /\ y \in InUse(h) \ HeldIn(h)
    BY <2>3, Taking
  <2>5. MergedNext(t, g, ei, ni)
    BY <1>2, <2>3, <2>4, JoinNextIs
  <2> HIDE DEF z, s, pp, ni
  <2>6. /\ Sound(t) /\ HeldIn(t) = HeldIn(h) \cup {ni} /\ ni \notin HeldIn(h) /\ Kept(h, t, InUse(h))
    <3>1. NowHeld(h, t, ni)
      BY <2>3, <2>4, TakeKeeps
    <3> QED BY <3>1 DEF NowHeld
  <2>7. /\ InUse(t) = InUse(h)
        /\ \A x \in InUse(h) : t.elts[x].next = h.elts[x].next /\ t.elts[x].prev = h.elts[x].prev
    BY <2>4 DEF Taken, SamePlaces
  <2>8. t.elts[ei].next = ni /\ t.elts[ei].prev = pp /\ t.elts[ni].next = h.elts[ni].next
    BY <2>1, <2>2, <2>7 DEF pp, ni
  <2>9. /\ Sound(g) /\ HeldIn(g) = HeldIn(t) \ {ni} /\ ei # ni
        /\ Kept(t, g, InUse(t) \ {ei, ni})
        /\ g.elts[ei].next = h.elts[ni].next /\ g.elts[ei].prev = pp
    <3>0. Sound(t) /\ t.elts[ei].next = ni
      BY <2>6, <2>8
    <3>1. ei \in HeldIn(t) /\ ni \in HeldIn(t)
      BY <2>6
    <3>2. Merged(t, g, ei, ni, t.elts[ni].next, t.elts[ei].prev)
      BY <2>5, <3>0, <3>1, MergeNextKeeps, Zenon
    <3> QED BY <2>8, <3>2 DEF Merged
  <2>10. HeldIn(g) = HeldIn(h)
    BY <2>6, <2>9
  <2>11. Kept(h, g, InUse(h) \ {ei, ni})
    BY <2>6, <2>7, <2>9 DEF Kept
  <2>12. Joined(h, g, ei)
    BY <2>6, <2>9, <2>10, <2>11 DEF Joined, Kept, HeldIn
  <2>13. ~prevFree(g, ei)
    <3>1. pp # MaxIndex => pp \in HeldIn(h)
      BY <2>1, Neighbours DEF prevFree, isFree, HeldIn, pp
    <3> QED BY <2>9, <2>10, <3>1 DEF prevFree, isFree, HeldIn
  <2>14. ~nextFree(g, ei)
    <3> DEFINE nn == h.elts[ni].next
    <3>1. nn # MaxIndex => nn \in HeldIn(h)
      BY <2>2 DEF Sound, Separate
    <3> QED BY <2>9, <2>10, <3>1 DEF nextFree, isFree, HeldIn
  <2> QED BY <2>12, <2>13, <2>14
<1> QED
  BY <1>1, <1>2

\* Put returns the chunk, and leaves the others that are held where they are
PutBack(h, g, ei) ==
  Sound(g) /\ HeldIn(g) = HeldIn(h) \ {ei} /\ Kept(h, g, HeldIn(h) \ {ei})

LEMMA PutKeeps ==
  ASSUME NEW h, Sound(h), NEW ei \in HeldIn(h), ~PutPanics(h, ei), NEW g, g = put(h, ei)
  PROVE  PutBack(h, g, ei)
<1> DEFINE p == JoinPrev(h, ei)
           q == JoinNext(p, ei)
           z == size(q, ei)
           s == IF z > q.maxSize THEN 0 ELSE z
<1>1. /\ Joined(h, p, ei) /\ ~prevFree(p, ei)
      /\ nextFree(p, ei) => OnList(p, p.elts[ei].next, nextSize(p, ei))
  <2> HIDE DEF p
  <2>1. p = JoinPrev(h, ei)
    BY DEF p
  <2> QED BY <2>1, JoinPrevKeeps DEF PutPanics
<1>2. Sound(p) /\ ei \in HeldIn(p) /\ HeldIn(p) = HeldIn(h)
  BY <1>1 DEF Joined
<1>3. Joined(p, q, ei) /\ ~prevFree(q, ei) /\ ~nextFree(q, ei)
  <2> HIDE DEF p, q
  <2>1. q = JoinNext(p, ei)
    BY DEF q
  <2> QED BY <1>1, <1>2, <2>1, JoinNextKeeps
<1>4. Sound(q) /\ HeldIn(q) = HeldIn(h) /\ Kept(h, q, HeldIn(h) \ {ei})
  BY <1>1, <1>2, <1>3 DEF Joined, Kept
<1>5. g = freeElt(q, ei, z)
  BY DEF put
<1> HIDE DEF p, q
<1>6. Made(q) /\ Chained(q) /\ ei \in InUse(q) /\ HeldIn(q) \subseteq InUse(q)
  BY <1>2, <1>4 DEF Sound, HeldIn
<1>7. z \in Nat /\ s \in {0, size(q, ei)}
  BY <1>6, SizeIs
<1> HIDE DEF z
<1>8. PICK k \in Nat : Freed(q, g, ei, s, k)
  <2> HIDE DEF s
  <2>1. s = IF z > q.maxSize THEN 0 ELSE z
    BY DEF s
  <2> QED BY <1>5, <1>6, <1>7, <2>1, FreeEltIs
<1> HIDE DEF s
<1>9. Sound(g) /\ HeldIn(g) = HeldIn(q) \ {ei} /\ Kept(q, g, InUse(q))
  <2>1. NowFree(q, g, ei)
    BY <1>2, <1>3, <1>4, <1>7, <1>8, FreeKeeps
  <2> QED BY <2>1 DEF NowFree
<1> QED
  BY <1>4, <1>6, <1>9 DEF Kept, PutBack

LEMMA Least ==
  ASSUME NEW T, T \subseteq Nat, T # {}
  PROVE  \E x \in T : \A y \in T : x <= y
<1> DEFINE R == StrictSubsetOrdering(Nat)
           F == FiniteSubsetsOf(Nat)
           U == {0..x : x \in T}
<1>1. IsWellFoundedOn(R, F)
  BY FS_StrictSubsetOrderingWellFounded
<1>2. U \subseteq F /\ U # {}
  <2>1. \A x \in T : IsFiniteSet(0..x) /\ 0..x \subseteq Nat
    BY FS_Interval
  <2> QED BY <2>1 DEF FiniteSubsetsOf
<1>3. \E u \in U : \A v \in U : <<v, u>> \notin R
  <2> HIDE DEF R, F, U
  <2> QED BY <1>1, <1>2, WFMin
<1>4. PICK x \in T : \A y \in T : <<0..y, 0..x>> \notin R
  BY <1>3
<1>5. ASSUME NEW y \in T, y < x PROVE FALSE
  <2>1. x \in Nat /\ y \in Nat
    OBVIOUS
  <2>2. /\ 0..y \in SUBSET Nat /\ 0..x \in SUBSET Nat /\ 0..y \subseteq 0..x
        /\ x \in 0..x /\ x \notin 0..y
    BY <1>5, <2>1
  <2>3. <<0..y, 0..x>> \in R
    BY <2>2 DEF StrictSubsetOrdering
  <2> QED BY <1>4, <2>3
<1> QED
  BY <1>5

LEMMA Division ==
  ASSUME NEW a \in Nat, NEW c \in Nat \ {0}
  PROVE  a \div c \in Nat /\ a % c \in 0..c - 1 /\ a = c * (a \div c) + (a % c)
OBVIOUS

LEMMA Distribute ==
  ASSUME NEW a \in Int, NEW c \in Int, NEW d \in Int
  PROVE  a * (c - d) = a * c - a * d
OBVIOUS

LEMMA AtLeastOne ==
  ASSUME NEW c \in Nat \ {0}, NEW q \in Int, q > 0
  PROVE  c * q >= c
OBVIOUS

\* A number has one quotient and one remainder
LEMMA DivisionUnique ==
  ASSUME NEW c \in Nat \ {0}, NEW p \in Int, NEW q \in Int, NEW r \in 0..c - 1, NEW s \in 0..c - 1,
         c * p + r = c * q + s
  PROVE  p = q /\ r = s
<1>1. c * p \in Int /\ c * q \in Int
  OBVIOUS
<1>2. c * (p - q) = s - r /\ c * (q - p) = r - s
  BY <1>1, Distribute
<1>3. ~(p - q > 0) /\ ~(q - p > 0)
  BY <1>2, AtLeastOne
<1>4. p = q
  BY <1>3
<1> QED
  BY <1>1, <1>4

-----------------------------------------------------------------------------
(* Get *)

\* The same chunks and the same lists
Like(h, g) ==
  /\ SamePlaces(h, g) /\ g.free = h.free
  /\ \A x \in InUse(h) : g.elts[x].free = h.elts[x].free

LEMMA LikeKeeps ==
  ASSUME NEW h, Sound(h), NEW g, Like(h, g)
  PROVE  Sound(g) /\ HeldIn(g) = HeldIn(h) /\ Kept(h, g, InUse(h))
<1>1. Made(h) /\ Chained(h) /\ SamePlaces(h, g) /\ Listed(h)
  BY DEF Sound, Like
<1>2. Chained(g) /\ Kept(h, g, InUse(h)) /\ Made(g) /\ InUse(g) = InUse(h)
  BY <1>1, SamePlacesKeep DEF SamePlaces
<1>3. HeldIn(g) = HeldIn(h)
  BY <1>2 DEF HeldIn, Like
<1>4. Separate(g)
  BY <1>2, <1>3 DEF Sound, Separate, Like, SamePlaces
<1>5. Listed(g)
  <2>1. \A x \in InUse(h) \ HeldIn(h) : g.elts[x].free = h.elts[x].free /\ size(g, x) = size(h, x)
    BY <1>2 DEF Like, Kept
  <2>2. g.free = h.free /\ InUse(g) \ HeldIn(g) = InUse(h) \ HeldIn(h)
    BY <1>2, <1>3 DEF Like
  <2> QED BY <1>1, <2>1, <2>2, ListsStay
<1> QED
  BY <1>2, <1>3, <1>4, <1>5 DEF Sound

LEMMA MaxSizeKeeps ==
  ASSUME NEW h, Sound(h), NEW m \in Nat, NEW g, g = [h EXCEPT !.maxSize = m]
  PROVE  /\ Sound(g) /\ HeldIn(g) = HeldIn(h) /\ Kept(h, g, InUse(h))
         /\ g.elts = h.elts /\ g.free = h.free /\ g.len = h.len /\ InUse(g) = InUse(h)
<1>1. IsHeap(h) /\ Made(h) /\ Numbered(h.elts, h.removed) /\ IsLists(h.free) /\ h.head \in Int
      /\ h.tail \in Int /\ h.len \in Nat
  BY DEF Sound, Made
<1>2. IsHeap(g)
  <2>1. DOMAIN g = DOMAIN h /\ g = [f \in DOMAIN g |-> g[f]]
    OBVIOUS
  <2> QED BY <1>1, <2>1, SameFields
<1>3. /\ g.elts = h.elts /\ g.free = h.free /\ g.len = h.len /\ g.removed = h.removed
      /\ g.head = h.head /\ g.tail = h.tail /\ g.maxSize = m
  BY <1>1 DEF IsHeap
<1>4. Made(g) /\ InUse(g) = InUse(h)
  BY <1>1, <1>2, <1>3 DEF Made, InUse
<1>5. Like(h, g)
  BY <1>3, <1>4 DEF Like, SamePlaces
<1> QED
  BY <1>3, <1>4, <1>5, LikeKeeps

\* The heap grows by a chunk of size s
Appended(h, g, ei, s) ==
  /\ Made(g) /\ ei \in Nat /\ ei \notin InUse(h) /\ InUse(g) = InUse(h) \cup {ei}
  /\ g.elts[ei].offset = h.len /\ g.elts[ei].free = MaxIndex /\ g.elts[ei].next = MaxIndex
  /\ g.elts[ei].prev = IF InUse(h) = {} THEN MaxIndex ELSE h.tail
  /\ \A x \in InUse(h) :
       /\ g.elts[x].offset = h.elts[x].offset /\ g.elts[x].free = h.elts[x].free
       /\ g.elts[x].prev = h.elts[x].prev
       /\ g.elts[x].next = IF x = h.tail THEN ei ELSE h.elts[x].next
  /\ g.free = h.free /\ g.len = h.len + s /\ g.tail = ei
  /\ g.head = IF InUse(h) = {} THEN ei ELSE h.head

\* The heap g of a chunk x of size s, which nobody held in h
Got(h, g, x, s) ==
  /\ Sound(g) /\ x \notin HeldIn(h) /\ HeldIn(g) = HeldIn(h) \cup {x}
  /\ Kept(h, g, HeldIn(h)) /\ size(g, x) = s

LEMMA AppendKeeps ==
  ASSUME NEW h, Sound(h), NEW s \in Nat \ {0}, NEW ei, NEW g, Appended(h, g, ei, s),
         h.len + s <= maxLen
  PROVE  Got(h, g, ei, s)
<1>1. /\ Made(h) /\ Chained(h) /\ Made(g) /\ ei \in Int /\ ei # MaxIndex
      /\ ei \notin InUse(h) /\ InUse(g) = InUse(h) \cup {ei}
      /\ HeldIn(h) \subseteq InUse(h) /\ h.len \in Nat
  BY MadeFacts DEF Sound, HeldIn, Appended, MaxIndex
<1>2. \A x \in InUse(h) : /\ x \in Nat /\ x # MaxIndex /\ x # ei
                          /\ h.elts[x].offset \in Int /\ h.elts[x].offset < EndOf(h, x)
                          /\ EndOf(h, x) \in Int /\ h.elts[x].offset >= 0
                          /\ h.elts[x].next \in Int /\ h.elts[x].prev \in Int
  BY <1>1, MadeFacts, SizeIs
<1>3. \A x \in InUse(h) : Placed(h, x)
  BY <1>1 DEF Chained
<1>4. InUse(h) # {} => h.head \in InUse(h) /\ h.tail \in InUse(h)
  BY <1>1 DEF Chained
<1>5. ASSUME NEW x \in InUse(h) PROVE EndOf(g, x) = EndOf(h, x)
  <2>1. CASE x = h.tail
    BY <1>1, <1>3, <2>1 DEF Appended, EndOf, Placed
  <2>2. CASE x # h.tail
    BY <1>1, <1>3, <2>2 DEF Appended, EndOf, Placed
  <2> QED BY <2>1, <2>2
<1>6. EndOf(g, ei) = h.len + s
  BY <1>1 DEF Appended, EndOf
<1>7. /\ \A x \in InUse(g) : size(g, x) = EndOf(g, x) - g.elts[x].offset
      /\ \A x \in InUse(h) : size(h, x) = EndOf(h, x) - h.elts[x].offset
  BY DEF size, EndOf
<1>8. \A x \in InUse(h) : g.elts[x].offset = h.elts[x].offset /\ size(g, x) = size(h, x)
  BY <1>1, <1>5, <1>7 DEF Appended
<1>9. size(g, ei) = s
  BY <1>1, <1>6, <1>7 DEF Appended
<1>10. HeldIn(g) = HeldIn(h) \cup {ei} /\ InUse(g) \ HeldIn(g) = InUse(h) \ HeldIn(h)
  BY <1>1 DEF HeldIn, Appended
<1>11. Chained(g)
  <2>1. Placed(g, ei)
    <3>1. size(g, ei) > 0 /\ g.elts[ei].offset >= 0 /\ g.elts[ei].offset = h.len
      BY <1>1, <1>9 DEF Appended
    <3>2. CASE InUse(h) = {}
      BY <1>1, <3>1, <3>2 DEF Appended, Chained, Placed
    <3>3. CASE InUse(h) # {}
      <4>1. /\ g.elts[ei].prev = h.tail /\ h.tail # MaxIndex /\ h.tail \in InUse(g)
            /\ g.elts[h.tail].next = ei /\ g.head = h.head /\ h.head # ei
        BY <1>1, <1>2, <1>4, <3>3 DEF Appended
      <4>2. g.elts[ei].next = MaxIndex /\ g.tail = ei
        BY DEF Appended
      <4> QED BY <3>1, <4>1, <4>2 DEF Placed
    <3> QED BY <3>2, <3>3
  <2>2. ASSUME NEW x \in InUse(h) PROVE Placed(g, x)
    <3>1. /\ size(g, x) > 0 /\ g.elts[x].offset >= 0 /\ g.elts[x].offset = h.elts[x].offset
          /\ Placed(h, x) /\ x # ei /\ x # MaxIndex /\ ei # MaxIndex
      BY <1>1, <1>2, <1>3, <1>8 DEF Placed
    <3>2. /\ g.elts[x].prev = h.elts[x].prev /\ g.head = h.head /\ g.tail = ei
          /\ g.elts[x].next = IF x = h.tail THEN ei ELSE h.elts[x].next
      BY DEF Appended
    <3>3. g.elts[x].next # MaxIndex =>
            g.elts[x].next \in InUse(g) /\ g.elts[g.elts[x].next].prev = x
      <4>1. CASE x = h.tail
        BY <1>1, <3>2, <4>1 DEF Appended
      <4>2. CASE x # h.tail
        BY <1>1, <3>1, <3>2, <4>2 DEF Appended, Placed
      <4> QED BY <4>1, <4>2
    <3>4. g.elts[x].prev # MaxIndex =>
            g.elts[x].prev \in InUse(g) /\ g.elts[g.elts[x].prev].next = x
      <4> DEFINE y == h.elts[x].prev
      <4>1. y # MaxIndex => y \in InUse(h) /\ h.elts[y].next = x
        BY <3>1 DEF Placed
      <4>2. y # MaxIndex => y # h.tail
        BY <1>3, <3>1, <4>1 DEF Placed
      <4>3. y # MaxIndex => g.elts[y].next = x
        BY <4>1, <4>2 DEF Appended
      <4> QED BY <1>1, <3>2, <4>1, <4>3
    <3>5. g.elts[x].next # MaxIndex
      BY <3>1, <3>2 DEF Placed
    <3>6. (g.elts[x].prev = MaxIndex <=> x = g.head) /\ (x = g.head => g.elts[x].offset = 0)
      BY <3>1, <3>2 DEF Placed
    <3> QED BY <3>1, <3>2, <3>3, <3>4, <3>5, <3>6 DEF Placed
  <2>3. g.head \in InUse(g) /\ g.tail \in InUse(g) /\ InUse(g) # {}
    BY <1>1, <1>4 DEF Appended
  <2>4. g.len <= maxLen
    BY DEF Appended
  <2> QED BY <1>1, <2>1, <2>2, <2>3, <2>4 DEF Chained
<1>12. Separate(g)
  <2>1. ASSUME NEW x \in InUse(g) \ HeldIn(g), g.elts[x].next # MaxIndex
        PROVE  g.elts[x].next \in HeldIn(g)
    <3>1. x \in InUse(h) \ HeldIn(h)
      BY <1>10, <2>1
    <3>2. g.elts[x].next = IF x = h.tail THEN ei ELSE h.elts[x].next
      BY <3>1 DEF Appended
    <3>3. h.elts[x].next # MaxIndex => h.elts[x].next \in HeldIn(h)
      BY <3>1 DEF Sound, Separate
    <3> QED BY <1>10, <2>1, <3>2, <3>3
  <2> QED BY <2>1 DEF Separate
<1>13. Listed(g)
  <2>1. \A x \in InUse(h) \ HeldIn(h) : g.elts[x].free = h.elts[x].free /\ size(g, x) = size(h, x)
    BY <1>8 DEF Appended
  <2>2. g.free = h.free /\ Listed(h)
    BY DEF Appended, Sound
  <2> QED BY <1>10, <2>1, <2>2, ListsStay
<1> QED
  BY <1>1, <1>8, <1>9, <1>10, <1>11, <1>12, <1>13 DEF Sound, Kept, Got

LEMMA NoneInUse ==
  ASSUME NEW h, Sound(h)
  PROVE  (h.len = 0 <=> InUse(h) = {}) /\ (InUse(h) = {} => fresh(h) = 0)
<1>1. Made(h) /\ Chained(h)
  BY DEF Sound
<1>2. ASSUME InUse(h) # {} PROVE h.len # 0
  <2>1. h.tail \in InUse(h) /\ Placed(h, h.tail)
    BY <1>1, <1>2 DEF Chained
  <2>2. EndOf(h, h.tail) = h.len
    BY <2>1 DEF EndOf, Placed
  <2>3. h.elts[h.tail].offset \in Int /\ h.elts[h.tail].offset >= 0 /\ h.elts[h.tail].offset < h.len
        /\ h.len \in Int
    BY <1>1, <2>1, <2>2, SizeIs
  <2> QED BY <2>3
<1>3. ASSUME InUse(h) = {} PROVE h.len = 0 /\ fresh(h) = 0
  <2>1. DOMAIN h.elts = {} /\ h.len = 0
    BY <1>1, <1>3 DEF Chained
  <2>2. h.removed = <<>>
    <3>1. h.removed \in Seq({})
      BY <1>1, <2>1 DEF Made, Numbered
    <3> DEFINE r == h.removed
    <3>2. r \in Seq({})
      BY <3>1
    <3> HIDE DEF r
    <3>3. SUFFICES ASSUME r # <<>> PROVE FALSE
      BY DEF r
    <3>4. r[Len(r)] \in {}
      BY <3>2, <3>3, Lasts
    <3> QED BY <3>4
  <2>3. Cardinality({}) = 0
    BY FS_EmptySet
  <2> QED BY <2>1, <2>2, <2>3 DEF fresh
<1> QED
  BY <1>2, <1>3

\* What get does when no free chunk is large enough
AppendTo(h, s) ==
  LET ei == fresh(h)
      tail == IF h.len = 0 THEN MaxIndex ELSE h.tail
      e == [offset |-> h.len, free |-> MaxIndex, next |-> MaxIndex, prev |-> tail]
  IN [newElt(h) EXCEPT !.elts = [x \in DOMAIN @ |->
                          IF x = ei THEN e
                          ELSE IF x = tail THEN [@[x] EXCEPT !.next = ei] ELSE @[x]],
                       !.len = @ + s,
                       !.head = IF h.len = 0 THEN 0 ELSE @,
                       !.tail = ei]

LEMMA AppendIs ==
  ASSUME NEW h, Sound(h), NEW s \in Nat \ {0}, NEW ei, ei = fresh(h), NEW g, g = AppendTo(h, s)
  PROVE  Appended(h, g, ei, s)
<1> DEFINE n == newElt(h)
           tail == IF h.len = 0 THEN MaxIndex ELSE h.tail
           e == [offset |-> h.len, free |-> MaxIndex, next |-> MaxIndex, prev |-> tail]
           E2 == [x \in DOMAIN n.elts |->
                    IF x = ei THEN e
                    ELSE IF x = tail THEN [n.elts[x] EXCEPT !.next = ei] ELSE n.elts[x]]
           ln == n.len + s
           hd == IF h.len = 0 THEN 0 ELSE n.head
<1>0. Made(h) /\ Chained(h)
  BY DEF Sound
<1>1. /\ Made(n) /\ ei \in Nat /\ ei \notin InUse(h) /\ InUse(n) = InUse(h) \cup {ei}
      /\ DOMAIN n.elts = DOMAIN h.elts \cup {ei}
      /\ \A x \in DOMAIN h.elts \cup {ei} : n.elts[x] = IF x = ei THEN poison ELSE h.elts[x]
      /\ n.free = h.free /\ n.head = h.head /\ n.tail = h.tail /\ n.len = h.len
      /\ n.maxSize = h.maxSize
  BY <1>0, NewEltIs
<1>2. g = [n EXCEPT !.elts = E2, !.len = ln, !.head = hd, !.tail = ei]
  BY DEF AppendTo
<1>3. /\ h.len \in Nat /\ h.tail \in Int /\ h.head \in Int /\ tail \in Int
      /\ \A x \in InUse(h) : x \in DOMAIN h.elts /\ x # ei /\ h.elts[x] \in Element /\ x # MaxIndex
  BY <1>0, <1>1, MadeFacts DEF MaxIndex
<1>4. /\ \A x \in InUse(h) : n.elts[x] = h.elts[x] /\ x \in DOMAIN n.elts
      /\ ei \in DOMAIN n.elts /\ \A x \in DOMAIN n.elts : n.elts[x] \in Element
  BY <1>1, <1>3 DEF Made, Numbered
<1>5. /\ e \in Element /\ e.offset = h.len /\ e.free = MaxIndex /\ e.next = MaxIndex /\ e.prev = tail
      /\ ei \in Int /\ hd \in Int /\ ln \in Nat /\ ln = h.len + s
  BY <1>1, <1>3 DEF Element, MaxIndex
<1>6. E2 \in [DOMAIN E2 -> Element] /\ DOMAIN E2 = DOMAIN n.elts
  BY <1>4, <1>5, ElementFields
<1>7. /\ E2[ei] = e
      /\ \A x \in InUse(h) : E2[x] = IF x = tail THEN [h.elts[x] EXCEPT !.next = ei] ELSE h.elts[x]
  BY <1>3, <1>4
<1> HIDE DEF E2, ln, hd, e, tail, n
<1>8. IsHeap(g)
  <2>1. IsHeap(n)
    BY <1>1 DEF Made
  <2>2. DOMAIN g = DOMAIN n /\ g = [f \in DOMAIN g |-> g[f]]
    BY <1>2
  <2> QED BY <2>1, <2>2, SameFields
<1>9. /\ g.elts = E2 /\ g.removed = n.removed /\ g.free = n.free /\ g.head = hd /\ g.tail = ei
      /\ g.len = ln /\ g.maxSize = n.maxSize
  <2>1. IsHeap(n)
    BY <1>1 DEF Made
  <2> QED BY <1>2, <2>1 DEF IsHeap
<1>10. Made(g) /\ InUse(g) = InUse(h) \cup {ei}
  <2>1. IsLists(n.free) /\ n.maxSize \in Nat
    BY <1>1 DEF Made
  <2> QED BY <1>1, <1>5, <1>6, <1>8, <1>9, <2>1, Remade
<1>11. ASSUME NEW x \in InUse(h)
       PROVE  /\ E2[x].offset = h.elts[x].offset /\ E2[x].free = h.elts[x].free
              /\ E2[x].prev = h.elts[x].prev
              /\ E2[x].next = IF x = tail THEN ei ELSE h.elts[x].next
  <2> DEFINE d == h.elts[x]
  <2>1. d \in Element
    BY <1>3
  <2>2. E2[x] = IF x = tail THEN [d EXCEPT !.next = ei] ELSE d
    BY <1>7
  <2> HIDE DEF d
  <2>3. CASE x = tail
    BY <1>5, <2>1, <2>2, <2>3, ElementFields DEF d
  <2>4. CASE x # tail
    BY <2>2, <2>4 DEF d
  <2> QED BY <2>3, <2>4
<1>12. (h.len = 0 <=> InUse(h) = {}) /\ (InUse(h) = {} => ei = 0)
  BY NoneInUse
<1>13. \A x \in InUse(h) : x = tail <=> x = h.tail
  BY <1>3, <1>12 DEF tail
<1>14. /\ hd = IF InUse(h) = {} THEN ei ELSE h.head
       /\ tail = IF InUse(h) = {} THEN MaxIndex ELSE h.tail
  BY <1>1, <1>12 DEF hd, tail
<1> QED
  BY <1>1, <1>5, <1>7, <1>9, <1>10, <1>11, <1>13, <1>14 DEF Appended

\* The last chunk of list s leaves it
QuickFrom(h, s, x) ==
  [h EXCEPT !.free[s] = SubSeq(@, 1, Len(@) - 1), !.elts[x].free = MaxIndex]

LEMMA QuickIs ==
  ASSUME NEW h, Sound(h), NEW s, NEW l, l = Len(h.free[s]), NEW x, At(h, s, l, x), NEW g, g = QuickFrom(h, s, x)
  PROVE  Taken(h, g, x, x, s, l)
<1> DEFINE F2 == [h.free EXCEPT ![s] = SubSeq(@, 1, Len(@) - 1)]
           E2 == [h.elts EXCEPT ![x].free = MaxIndex]
<1>1. /\ x \in InUse(h) /\ l \in Nat /\ IsHeap(h) /\ h.elts \in [DOMAIN h.elts -> Element]
      /\ x \in DOMAIN h.elts /\ s \in DOMAIN h.free /\ h.free[s] \in Seq(Nat) /\ l \in 1..l
      /\ h.free[s][l] = x
  <2>1. x \in InUse(h) /\ l \in Nat /\ IsLists(h.free)
    BY ListedFacts
  <2>2. s \in DOMAIN h.free /\ l \in 1..l /\ h.free[s][l] = x
    BY DEF At, Nth
  <2> QED BY <2>1, <2>2 DEF Sound, Made, Numbered, InUse, IsLists
<1>2. g = [h EXCEPT !.elts = E2, !.free = F2]
  BY <1>1 DEF IsHeap, QuickFrom
<1>3. FreeSet(h.elts, E2, x, MaxIndex)
  <2>1. MaxIndex \in Int
    BY DEF MaxIndex
  <2> QED BY <1>1, <2>1, SetFree
<1>4. F2 = TakenFrom(h.free, x, s, l)
  <2>1. [h.free[s] EXCEPT ![l] = x] = h.free[s]
    BY <1>1
  <2> QED BY <2>1 DEF TakenFrom
<1> HIDE DEF E2, F2
<1>5. IsHeap(g)
  <2>1. DOMAIN g = DOMAIN h /\ g = [f \in DOMAIN g |-> g[f]]
    BY <1>2
  <2> QED BY <1>1, <2>1, SameFields
<1>6. /\ g.elts = E2 /\ g.removed = h.removed /\ g.free = F2 /\ g.head = h.head
      /\ g.tail = h.tail /\ g.len = h.len /\ g.maxSize = h.maxSize
  BY <1>1, <1>2, <1>5 DEF IsHeap
<1>7. TakenSet(h.elts, g.elts, x, x, l)
  BY <1>3, <1>6 DEF FreeSet, TakenSet
<1>8. SameEnds(h, g) /\ g.free = TakenFrom(h.free, x, s, l) /\ x = h.free[s][Len(h.free[s])]
  BY <1>1, <1>4, <1>5, <1>6 DEF SameEnds
<1> QED
  BY <1>7, <1>8, TakenIs

LEMMA FreeAfterIs ==
  ASSUME NEW h, Sound(h), NEW ei \in HeldIn(h), NEW z \in Int, NEW fz \in Int
  PROVE  freeAfter(h, ei, z, fz) =
           freeElt(newEltAfter(h, ei, h.elts[ei].offset + z - fz), fresh(h), fz)
<1>1. Made(h) /\ ei \in InUse(h) /\ Placed(h, ei)
  BY DEF Sound, Chained, HeldIn
<1>2. newElt(h).tail = h.tail
  BY <1>1, NewEltIs
<1>3. newElt(h).tail = ei <=> h.elts[ei].next = MaxIndex
  BY <1>1, <1>2 DEF Placed
<1> QED
  BY <1>3 DEF freeAfter, newEltAfter

\* Of a held chunk x all but the first s is given back, when its next chunk is not free
GivenBack(t, g, x, s) ==
  Sound(g) /\ HeldIn(g) = HeldIn(t) /\ Kept(t, g, HeldIn(t) \ {x}) /\ size(g, x) = s

LEMMA GiveBackKeeps ==
  ASSUME NEW t, Sound(t), NEW x \in HeldIn(t), ~nextFree(t, x), NEW z, z = size(t, x),
         NEW s \in Nat \ {0}, s < z, NEW g, g = freeAfter(t, x, z, z - s)
  PROVE  GivenBack(t, g, x, s)
<1> DEFINE fi == fresh(t)
           off == t.elts[x].offset + s
           c == newEltAfter(t, x, off)
           fz == z - s
           u == IF fz > c.maxSize THEN 0 ELSE fz
<1>1. Made(t) /\ Chained(t) /\ x \in InUse(t) /\ HeldIn(t) \subseteq InUse(t)
  BY DEF Sound, HeldIn
<1>2. /\ size(t, x) = EndOf(t, x) - t.elts[x].offset /\ EndOf(t, x) \in Int
      /\ t.elts[x].offset \in Int /\ z \in Int
  BY <1>1, SizeIs
<1>3. /\ off \in Int /\ t.elts[x].offset < off /\ off < EndOf(t, x) /\ EndOf(t, x) - off = fz
      /\ fz \in Nat /\ off - t.elts[x].offset = s /\ t.elts[x].offset + z - fz = off
  BY <1>2
<1>4. g = freeElt(c, fi, fz)
  <2>1. g = freeElt(newEltAfter(t, x, t.elts[x].offset + z - fz), fi, fz)
    BY <1>2, <1>3, FreeAfterIs
  <2> QED BY <1>3, <2>1
<1>5. t.elts[x].next # x
  BY <1>1, <1>2, <1>3, Neighbours
<1> HIDE DEF off, c, fi, fz
<1>6. FollowedBy(t, c, x, fi, off)
  BY <1>1, <1>3, <1>5, NewEltAfterIs DEF fi, c
<1>7. /\ Sound(c) /\ HeldIn(c) = HeldIn(t) \cup {fi} /\ Kept(t, c, InUse(t) \ {x})
      /\ size(c, x) = off - t.elts[x].offset /\ size(c, fi) = EndOf(t, x) - off
  <2>1. Parted(t, c, x, fi) /\ size(c, x) = off - t.elts[x].offset /\ size(c, fi) = EndOf(t, x) - off
    BY <1>3, <1>6, AfterKeeps
  <2> QED BY <2>1 DEF Parted
<1>8. /\ fi \notin InUse(t) /\ fi \in HeldIn(c) /\ fi \in InUse(c) /\ Made(c)
      /\ size(c, x) = s /\ size(c, fi) = fz /\ InUse(c) = InUse(t) \cup {fi}
  BY <1>3, <1>6, <1>7 DEF FollowedBy
<1>9. ~prevFree(c, fi)
  BY <1>6, <1>7 DEF FollowedBy, prevFree, isFree, HeldIn
<1>10. ~nextFree(c, fi)
  <2> DEFINE nn == t.elts[x].next
  <2>1. c.elts[fi].next = nn
    BY <1>6 DEF FollowedBy
  <2>2. nn # MaxIndex => nn \in InUse(t) /\ t.elts[nn].free = MaxIndex
    BY <1>1, Neighbours DEF nextFree, isFree
  <2>3. nn # MaxIndex => c.elts[nn].free = MaxIndex
    BY <1>6, <2>2 DEF FollowedBy
  <2> QED BY <2>1, <2>3 DEF nextFree, isFree
<1>11. u \in {0, size(c, fi)}
  BY <1>8
<1>12. PICK k \in Nat : Freed(c, g, fi, u, k)
  BY <1>3, <1>4, <1>8, FreeEltIs
<1> HIDE DEF u
<1>13. Sound(g) /\ HeldIn(g) = HeldIn(c) \ {fi} /\ Kept(c, g, InUse(c))
  <2>1. NowFree(c, g, fi)
    BY <1>7, <1>8, <1>9, <1>10, <1>11, <1>12, FreeKeeps
  <2> QED BY <2>1 DEF NowFree
<1>14. HeldIn(g) = HeldIn(t)
  BY <1>1, <1>7, <1>8, <1>13
<1>15. Kept(t, g, HeldIn(t) \ {x}) /\ size(g, x) = s
  BY <1>1, <1>7, <1>8, <1>13 DEF Kept
<1> QED
  BY <1>13, <1>14, <1>15 DEF GivenBack

\* What get returns: a chunk of size s that nobody held, or none
Gets(h0, r, s) ==
  IF r.id = MaxIndex
  THEN Sound(r.h) /\ HeldIn(r.h) = HeldIn(h0) /\ Kept(h0, r.h, HeldIn(h0))
  ELSE Got(h0, r.h, r.id, s)

LEMMA QuickKeeps ==
  ASSUME NEW h, Sound(h), NEW s \in Nat \ {0}, s \in DOMAIN h.free, h.free[s] # <<>>,
         NEW x, x = h.free[s][Len(h.free[s])]
  PROVE  Got(h, QuickFrom(h, s, x), x, s) /\ x # MaxIndex
<1> DEFINE g == QuickFrom(h, s, x)
           l == Len(h.free[s])
<1>1. At(h, s, l, x)
  <2>1. h.free[s] \in Seq(Nat)
    BY ListedFacts DEF IsLists
  <2>2. l \in 1..l
    BY <2>1
  <2> QED BY <2>2 DEF At, Nth
<1>2. Taken(h, g, x, x, s, l)
  <2> HIDE DEF g, l
  <2>1. g = QuickFrom(h, s, x) /\ l = Len(h.free[s])
    BY DEF g, l
  <2> QED BY <1>1, <2>1, QuickIs
<1> HIDE DEF g, l
<1>3. /\ Sound(g) /\ HeldIn(g) = HeldIn(h) \cup {x} /\ x \notin HeldIn(h) /\ Kept(h, g, InUse(h))
  <2>1. NowHeld(h, g, x)
    BY <1>1, <1>2, TakeKeeps
  <2> QED BY <2>1 DEF NowHeld
<1>4. x \in InUse(h) /\ s \in {0, size(h, x)}
  BY <1>1, ListedFacts
<1>5. size(g, x) = s
  BY <1>3, <1>4 DEF Kept
<1>6. x # MaxIndex /\ HeldIn(h) \subseteq InUse(h)
  BY <1>4, Neighbours DEF HeldIn
<1>7. Got(h, g, x, s)
  BY <1>3, <1>5, <1>6 DEF Got, Kept
<1> QED
  BY <1>6, <1>7 DEF g

\* The first chunk of list 0 that is large enough
FirstFit(h, fits) == h.free[0][CHOOSE f \in fits : \A g \in fits : f <= g]

LEMMA FirstFitIs ==
  ASSUME NEW h, Sound(h), h.free # <<>>, NEW s \in Nat, Fitting(h, s) # {},
         NEW x, x = FirstFit(h, Fitting(h, s))
  PROVE  \E m : At(h, 0, m, x) /\ size(h, x) >= s
<1> DEFINE F == Fitting(h, s)
           m == CHOOSE f \in F : \A g \in F : f <= g
<1>1. 0 \in DOMAIN h.free /\ h.free[0] \in Seq(Nat)
  BY ListedFacts DEF IsLists
<1>2. \A f \in F : f \in 1..Len(h.free[0]) /\ size(h, h.free[0][f]) >= s
  BY DEF Fitting
<1> HIDE DEF F
<1>3. F \subseteq Nat /\ F # {}
  BY <1>1, <1>2 DEF F
<1>4. \E f \in F : \A g \in F : f <= g
  BY <1>3, Least
<1>5. m \in F
  BY <1>4
<1>6. x = h.free[0][m]
  BY DEF FirstFit, F
<1> HIDE DEF m
<1>7. At(h, 0, m, x) /\ size(h, x) >= s
  BY <1>1, <1>2, <1>5, <1>6 DEF At, Nth
<1> QED
  BY <1>7

LEMMA FitKeeps ==
  ASSUME NEW h, Sound(h), NEW s \in Nat \ {0}, h.free # <<>>, Fitting(h, s) # {},
         NEW x, x = FirstFit(h, Fitting(h, s)), NEW t, t = TakeHeld(h, x, 0),
         NEW z, z = size(h, x)
  PROVE  Got(h, IF z > s THEN freeAfter(t, x, z, z - s) ELSE t, x, s) /\ x # MaxIndex
<1>4. PICK m : At(h, 0, m, x) /\ z >= s
  BY FirstFitIs
<1> DEFINE y == h.free[0][Len(h.free[0])]
<1>5. Taken(h, t, x, y, 0, m)
  BY <1>4, TakeOutTakes
<1> HIDE DEF y
<1>6. /\ Sound(t) /\ HeldIn(t) = HeldIn(h) \cup {x} /\ x \notin HeldIn(h) /\ Kept(h, t, InUse(h))
  <2>1. NowHeld(h, t, x)
    BY <1>4, <1>5, TakeKeeps
  <2> QED BY <2>1 DEF NowHeld
<1>7. x \in InUse(h) \ HeldIn(h) /\ x # MaxIndex /\ HeldIn(h) \subseteq InUse(h)
  <2>1. x \in InUse(h) \ HeldIn(h)
    BY <1>4, ListedFacts
  <2> QED BY <2>1, Neighbours DEF HeldIn
<1>8. size(t, x) = z /\ z \in Int
  <2>1. size(t, x) = z
    BY <1>6, <1>7 DEF Kept
  <2>2. Made(h) /\ Chained(h)
    BY DEF Sound
  <2> QED BY <1>7, <2>1, <2>2, SizeIs
<1>9. ~nextFree(t, x)
  <2>1. t.elts[x].next = h.elts[x].next
    BY <1>5, <1>7 DEF Taken, SamePlaces
  <2>2. h.elts[x].next # MaxIndex => h.elts[x].next \in HeldIn(h)
    BY <1>7 DEF Sound, Separate
  <2> QED BY <1>6, <2>1, <2>2 DEF nextFree, isFree, HeldIn
<1>10. CASE z > s
  <2> DEFINE g == freeAfter(t, x, z, z - s)
  <2>1. /\ Sound(g) /\ HeldIn(g) = HeldIn(t) /\ Kept(t, g, HeldIn(t) \ {x}) /\ size(g, x) = s
    <3>1. x \in HeldIn(t) /\ s < z
      BY <1>6, <1>8, <1>10
    <3> HIDE DEF g
    <3>2. g = freeAfter(t, x, z, z - s)
      BY DEF g
    <3>3. GivenBack(t, g, x, s)
      BY <1>6, <1>8, <1>9, <3>1, <3>2, GiveBackKeeps
    <3> QED BY <3>3 DEF GivenBack
  <2> HIDE DEF g
  <2>2. Got(h, g, x, s)
    BY <1>6, <1>7, <2>1 DEF Got, Kept
  <2> QED BY <1>7, <1>10, <2>2 DEF g
<1>11. CASE ~(z > s)
  <2>1. z = s
    BY <1>4, <1>8, <1>11
  <2>2. Got(h, t, x, s)
    BY <1>6, <1>7, <1>8, <2>1 DEF Got, Kept
  <2> QED BY <1>7, <1>11, <2>2
<1> QED
  BY <1>10, <1>11

LEMMA GetKeeps ==
  ASSUME NEW h0, Sound(h0), NEW sizeArg \in Nat, NEW s \in Nat \ {0}, maxLen \in Nat,
         NEW r, r = get(h0, sizeArg, s)
  PROVE  Gets(h0, r, s)
<1> DEFINE h == [h0 EXCEPT !.maxSize = IF sizeArg > @ THEN sizeArg ELSE @]
           quick == s \in DOMAIN h.free /\ h.free[s] # <<>>
           fits == IF h.free = <<>> THEN {} ELSE Fitting(h, s)
           last == h.free[s][Len(h.free[s])]
           fit == FirstFit(h, fits)
           z == size(h, fit)
           t == TakeHeld(h, fit, 0)
           cut == IF z > s THEN freeAfter(t, fit, z, z - s) ELSE t
<1>1. r = IF quick THEN [id |-> last, h |-> QuickFrom(h, s, last)]
          ELSE IF fits # {} THEN [id |-> fit, h |-> cut]
          ELSE IF h.len + s > maxLen THEN [id |-> MaxIndex, h |-> h]
          ELSE [id |-> fresh(h), h |-> AppendTo(h, s)]
  BY DEF get, QuickFrom, FirstFit, TakeHeld, AppendTo
<1>2. /\ Sound(h) /\ HeldIn(h) = HeldIn(h0) /\ Kept(h0, h, HeldIn(h0))
  <2> DEFINE m == IF sizeArg > h0.maxSize THEN sizeArg ELSE h0.maxSize
  <2>1. m \in Nat
    BY DEF Sound, Made
  <2>2. h = [h0 EXCEPT !.maxSize = m]
    OBVIOUS
  <2> HIDE DEF h, m
  <2>3. /\ Sound(h) /\ HeldIn(h) = HeldIn(h0) /\ Kept(h0, h, InUse(h0))
    BY <2>1, <2>2, MaxSizeKeeps
  <2> QED BY <2>3 DEF Kept, HeldIn
<1> HIDE DEF h
<1>3. ASSUME NEW g, NEW x, Got(h, g, x, s), x # MaxIndex, r.id = x, r.h = g PROVE Gets(h0, r, s)
  BY <1>2, <1>3 DEF Gets, Got, Kept
<1>4. CASE quick
  <2>1. Got(h, QuickFrom(h, s, last), last, s) /\ last # MaxIndex
    BY <1>2, <1>4, QuickKeeps
  <2> HIDE DEF last
  <2>2. r.id = last /\ r.h = QuickFrom(h, s, last)
    BY <1>1, <1>4
  <2> QED BY <1>3, <2>1, <2>2
<1>5. CASE ~quick /\ fits # {}
  <2>1. h.free # <<>> /\ fits = Fitting(h, s) /\ Fitting(h, s) # {}
    BY <1>5
  <2>2. fit = FirstFit(h, Fitting(h, s)) /\ t = TakeHeld(h, fit, 0) /\ z = size(h, fit)
    BY <2>1
  <2>3. r.id = fit /\ r.h = cut
    <3> HIDE DEF quick, last, fits, fit, cut
    <3> QED BY <1>1, <1>5
  <2> HIDE DEF fit, t, z
  <2>4. Got(h, cut, fit, s) /\ fit # MaxIndex
    BY <1>2, <2>1, <2>2, FitKeeps
  <2> HIDE DEF cut
  <2> QED BY <1>3, <2>3, <2>4
<1> HIDE DEF quick, last, fits, fit, cut
<1>6. CASE ~quick /\ ~(fits # {}) /\ h.len + s > maxLen
  <2>1. r.id = MaxIndex /\ r.h = h
    BY <1>1, <1>6
  <2> QED BY <1>2, <2>1 DEF Gets
<1>7. CASE ~quick /\ ~(fits # {}) /\ ~(h.len + s > maxLen)
  <2> DEFINE x == fresh(h)
             g == AppendTo(h, s)
  <2>1. r.id = x /\ r.h = g
    BY <1>1, <1>7
  <2> HIDE DEF x, g
  <2>2. Appended(h, g, x, s)
    BY <1>2, AppendIs DEF x, g
  <2>3. x # MaxIndex
    BY <2>2 DEF Appended, MaxIndex
  <2>4. h.len + s <= maxLen
    BY <1>2, <1>7 DEF Sound, Made
  <2>5. Got(h, g, x, s)
    BY <1>2, <2>2, <2>4, AppendKeeps
  <2> QED BY <1>3, <2>1, <2>3, <2>5
<1> QED
  BY <1>4, <1>5, <1>6, <1>7

-----------------------------------------------------------------------------
(* GetAligned *)

\* The aligned offset is the first from o on
LEMMA AlignedUp ==
  ASSUME NEW o \in Nat, NEW a \in Nat \ {0}
  PROVE  /\ alignUp(o, a) \in Nat /\ o <= alignUp(o, a) /\ alignUp(o, a) <= o + a - 1
         /\ alignUp(o, a) % a = 0
<1> DEFINE b == o + a - 1
           q == b \div a
           r == b % a
           m == a * q
<1>1. b \in Nat
  OBVIOUS
<1> HIDE DEF b
<1>2. q \in Nat /\ r \in 0..a - 1 /\ b = m + r
  BY <1>1, Division
<1>3. m \in Nat /\ q * a = m
  <2> HIDE DEF q
  <2> QED BY <1>2
<1>4. alignUp(o, a) = m
  <2>1. alignUp(o, a) = q * a
    BY DEF alignUp, b
  <2> QED BY <1>3, <2>1
<1>5. m % a = 0
  <2> DEFINE p == m \div a
             s == m % a
             z == 0
  <2> HIDE DEF r, m
  <2>1. p \in Nat /\ s \in 0..a - 1 /\ m = a * p + s
    BY <1>3, Division
  <2>2. m = a * q + z /\ z \in 0..a - 1
    <3>1. a * q \in Int
      BY <1>2
    <3> QED BY <3>1 DEF m
  <2> HIDE DEF p, s, q, z
  <2>3. p \in Int /\ q \in Int /\ a * p + s = a * q + z
    BY <1>2, <2>1, <2>2
  <2>4. s = z
    BY <2>1, <2>2, <2>3, DivisionUnique
  <2> QED BY <2>4 DEF s, z
<1> HIDE DEF r, m
<1>6. b = o + a - 1 /\ r \in Int /\ r >= 0 /\ r <= a - 1
  BY <1>2 DEF b
<1> QED
  BY <1>2, <1>3, <1>4, <1>5, <1>6

\* Of the held chunk ei, sz from off on are left
CutTo(h, r, ei, off, sz) ==
  r.ok => /\ Sound(r.h) /\ HeldIn(r.h) = HeldIn(h) /\ Kept(h, r.h, HeldIn(h) \ {ei})
          /\ r.h.elts[ei].offset = off /\ size(r.h, ei) = sz

\* The part x of ei is given back
LEMMA PartGoes ==
  ASSUME NEW h, Sound(h), NEW ei \in HeldIn(h), NEW x, x \notin InUse(h),
         NEW c, Parted(h, c, ei, x), ~PutPanics(c, x)
  PROVE  CutTo(h, [ok |-> TRUE, h |-> put(c, x)], ei, c.elts[ei].offset, size(c, ei))
<1> DEFINE g == put(c, x)
<1>1. /\ Sound(c) /\ HeldIn(c) = HeldIn(h) \cup {x} /\ Kept(h, c, InUse(h) \ {ei})
  BY DEF Parted
<1>2. HeldIn(h) \subseteq InUse(h) /\ x \notin HeldIn(h) /\ x # ei
  BY DEF HeldIn
<1>3. g = put(c, x)
  OBVIOUS
<1> HIDE DEF g
<1>4. PutBack(c, g, x)
  BY <1>1, <1>3, PutKeeps
<1>5. Sound(g) /\ HeldIn(g) = HeldIn(h) /\ Kept(c, g, HeldIn(h))
  BY <1>1, <1>2, <1>4 DEF PutBack, Kept
<1>6. Kept(h, g, HeldIn(h) \ {ei})
  BY <1>1, <1>2, <1>5 DEF Kept
<1>7. g.elts[ei].offset = c.elts[ei].offset /\ size(g, ei) = size(c, ei)
  BY <1>5 DEF Kept
<1> QED
  BY <1>3, <1>5, <1>6, <1>7 DEF CutTo

LEMMA NotItself ==
  ASSUME NEW h, Sound(h), NEW ei \in HeldIn(h)
  PROVE  /\ h.elts[ei].prev # ei /\ h.elts[ei].next # ei /\ fresh(h) \notin InUse(h)
         /\ ei \in InUse(h) /\ h.elts[ei].offset \in Nat /\ EndOf(h, ei) \in Int
         /\ size(h, ei) = EndOf(h, ei) - h.elts[ei].offset /\ Made(h)
<1>1. Made(h) /\ Chained(h) /\ ei \in InUse(h) /\ Placed(h, ei)
  BY DEF Sound, HeldIn, Chained
<1>2. /\ size(h, ei) = EndOf(h, ei) - h.elts[ei].offset /\ EndOf(h, ei) \in Int
      /\ h.elts[ei].offset \in Nat /\ h.elts[ei].offset < EndOf(h, ei)
  <2>1. h.elts[ei].offset \in Int /\ h.elts[ei].offset >= 0
    BY <1>1, SizeIs
  <2> QED BY <1>1, <2>1, SizeIs
<1>3. ei \in Nat /\ ei # MaxIndex
  BY <1>1, MadeFacts
<1>4. h.elts[ei].next # ei
  BY <1>2, <1>3 DEF EndOf
<1>5. h.elts[ei].prev # ei
  BY <1>1, <1>3, <1>4 DEF Placed
<1>6. fresh(h) \notin InUse(h)
  BY <1>1, NewEltIs
<1> QED
  BY <1>1, <1>2, <1>4, <1>5, <1>6

LEMMA CutBeforeKeeps ==
  ASSUME NEW h, Sound(h), NEW ei \in HeldIn(h), NEW ao \in Int,
         h.elts[ei].offset <= ao, ao < EndOf(h, ei)
  PROVE  CutTo(h, CutBefore(h, ei, ao), ei, ao, EndOf(h, ei) - ao)
<1> DEFINE o == h.elts[ei].offset
           pi == fresh(h)
           cut == [newEltBefore(h, ei, o) EXCEPT !.elts[ei].offset = ao]
<1>1. /\ h.elts[ei].prev # ei /\ pi \notin InUse(h) /\ ei \in InUse(h) /\ o \in Nat /\ Made(h)
      /\ size(h, ei) = EndOf(h, ei) - o /\ EndOf(h, ei) \in Int
  BY NotItself
<1>2. CutBefore(h, ei, ao) = IF ao = o THEN [ok |-> TRUE, h |-> h]
                             ELSE IF PutPanics(cut, pi) THEN [ok |-> FALSE, h |-> h]
                             ELSE [ok |-> TRUE, h |-> put(cut, pi)]
  BY DEF CutBefore
<1>3. CASE ao = o
  BY <1>1, <1>2, <1>3 DEF CutTo, Kept
<1>4. CASE ao # o
  <2>1. o < ao
    BY <1>1, <1>4
  <2>2. Before(h, cut, ei, pi, ao)
    <3>1. pi = fresh(h)
      OBVIOUS
    <3> HIDE DEF pi
    <3> QED BY <1>1, <3>1, NewEltBeforeIs
  <2> HIDE DEF cut, pi
  <2>3. /\ Parted(h, cut, ei, pi)
        /\ size(cut, ei) = EndOf(h, ei) - ao /\ cut.elts[ei].offset = ao
    BY <2>1, <2>2, BeforeKeeps
  <2>4. CASE PutPanics(cut, pi)
    <3>1. CutBefore(h, ei, ao) = [ok |-> FALSE, h |-> h]
      BY <1>2, <1>4, <2>4
    <3> QED BY <3>1 DEF CutTo
  <2>5. CASE ~PutPanics(cut, pi)
    <3>1. CutBefore(h, ei, ao) = [ok |-> TRUE, h |-> put(cut, pi)]
      BY <1>2, <1>4, <2>5
    <3> QED BY <1>1, <2>3, <2>5, <3>1, PartGoes
  <2> QED BY <2>4, <2>5
<1> QED
  BY <1>3, <1>4

LEMMA CutAfterKeeps ==
  ASSUME NEW h, Sound(h), NEW ei \in HeldIn(h), NEW end \in Int,
         h.elts[ei].offset < end, end <= EndOf(h, ei), NEW rest, rest = EndOf(h, ei) - end
  PROVE  CutTo(h, CutAfter(h, ei, end, rest), ei, h.elts[ei].offset, end - h.elts[ei].offset)
<1> DEFINE o == h.elts[ei].offset
           ni == fresh(h)
           cut == newEltAfter(h, ei, end)
<1>1. /\ h.elts[ei].next # ei /\ ni \notin InUse(h) /\ ei \in InUse(h) /\ o \in Nat /\ Made(h)
      /\ size(h, ei) = EndOf(h, ei) - o /\ EndOf(h, ei) \in Int
  BY NotItself
<1>2. CutAfter(h, ei, end, rest) = IF rest <= 0 THEN [ok |-> TRUE, h |-> h]
                             ELSE IF PutPanics(cut, ni) THEN [ok |-> FALSE, h |-> h]
                             ELSE [ok |-> TRUE, h |-> put(cut, ni)]
  BY DEF CutAfter
<1>3. CASE rest <= 0
  <2>1. end = EndOf(h, ei)
    BY <1>1, <1>3
  <2> QED BY <1>1, <1>2, <1>3, <2>1 DEF CutTo, Kept
<1>4. CASE ~(rest <= 0)
  <2>1. end < EndOf(h, ei)
    BY <1>1, <1>4
  <2>2. FollowedBy(h, cut, ei, ni, end)
    <3>1. ni = fresh(h)
      OBVIOUS
    <3> HIDE DEF ni
    <3> QED BY <1>1, <3>1, NewEltAfterIs
  <2> HIDE DEF cut, ni
  <2>3. /\ Parted(h, cut, ei, ni)
        /\ size(cut, ei) = end - o /\ cut.elts[ei].offset = o
    BY <2>1, <2>2, AfterKeeps
  <2>4. CASE PutPanics(cut, ni)
    <3>1. CutAfter(h, ei, end, rest) = [ok |-> FALSE, h |-> h]
      BY <1>2, <1>4, <2>4
    <3> QED BY <3>1 DEF CutTo
  <2>5. CASE ~PutPanics(cut, ni)
    <3>1. CutAfter(h, ei, end, rest) = [ok |-> TRUE, h |-> put(cut, ni)]
      BY <1>2, <1>4, <2>5
    <3> QED BY <1>1, <2>3, <2>5, <3>1, PartGoes
  <2> QED BY <2>4, <2>5
<1> QED
  BY <1>3, <1>4

\* A chunk of s is cut down to sizeArg from an aligned offset on
LEMMA CutKeeps ==
  ASSUME NEW h, Sound(h), NEW ei \in HeldIn(h), NEW sizeArg \in Nat \ {0}, NEW a \in Nat \ {0},
         NEW s, s = sizeArg + a - 1, size(h, ei) = s, NEW r, r = Cut(h, ei, sizeArg, s, a)
  PROVE  CutTo(h, r, ei, alignUp(h.elts[ei].offset, a), sizeArg)
<1> DEFINE o == h.elts[ei].offset
           ao == alignUp(o, a)
           b == CutBefore(h, ei, ao)
           end == ao + sizeArg
           rest == (o + s) - end
<1>1. o \in Nat /\ EndOf(h, ei) = o + s /\ s \in Nat
  <2>1. o \in Nat /\ size(h, ei) = EndOf(h, ei) - o /\ EndOf(h, ei) \in Int
    BY NotItself
  <2> HIDE DEF o
  <2> QED BY <2>1
<1>2. ao \in Int /\ o <= ao /\ ao < o + s /\ end <= o + s /\ end \in Int /\ ao < end
  <2>1. ao \in Nat /\ o <= ao /\ ao <= o + a - 1
    BY <1>1, AlignedUp
  <2> HIDE DEF o, ao
  <2> QED BY <1>1, <2>1
<1>3. r = IF b.ok THEN CutAfter(b.h, ei, end, rest) ELSE b
  BY DEF Cut
<1>4. CutTo(h, b, ei, ao, EndOf(h, ei) - ao)
  <2> HIDE DEF ao
  <2> QED BY <1>1, <1>2, CutBeforeKeeps
<1>5. CASE ~b.ok
  BY <1>3, <1>5 DEF CutTo
<1>6. CASE b.ok
  <2> DEFINE g == b.h
  <2> HIDE DEF b, o, ao
  <2>1. /\ Sound(g) /\ HeldIn(g) = HeldIn(h) /\ Kept(h, g, HeldIn(h) \ {ei})
        /\ g.elts[ei].offset = ao /\ size(g, ei) = EndOf(h, ei) - ao
    BY <1>4, <1>6 DEF CutTo
  <2> HIDE DEF g
  <2>2. EndOf(g, ei) = o + s
    <3>1. size(g, ei) = EndOf(g, ei) - g.elts[ei].offset /\ EndOf(g, ei) \in Int
      BY <2>1, NotItself
    <3> QED BY <1>1, <1>2, <2>1, <3>1
  <2> DEFINE c == CutAfter(g, ei, end, rest)
  <2>3. rest = EndOf(g, ei) - end
    BY <2>2
  <2>4. r = c
    BY <1>3, <1>6 DEF g
  <2> HIDE DEF end, rest
  <2>5. CutTo(g, c, ei, g.elts[ei].offset, end - g.elts[ei].offset)
    BY <1>2, <2>1, <2>2, <2>3, CutAfterKeeps
  <2>6. end - g.elts[ei].offset = sizeArg
    BY <1>2, <2>1 DEF end
  <2>7. CutTo(g, r, ei, ao, sizeArg)
    BY <2>1, <2>4, <2>5, <2>6
  <2>8. CutTo(h, r, ei, ao, sizeArg)
    BY <2>1, <2>7 DEF CutTo, Kept
  <2> QED BY <2>8 DEF ao, o
<1> QED
  BY <1>5, <1>6

-----------------------------------------------------------------------------
(* The invariant, and what follows from it *)

LentIs(h, l) ==
  /\ DOMAIN l = HeldIn(h) /\ l = [x \in DOMAIN l |-> l[x]]
  /\ \A x \in DOMAIN l : /\ l[x].offset = h.elts[x].offset /\ l[x].size = size(h, x)
                         /\ l[x].offset % l[x].align = 0

HeapInv == Sound(heap) /\ LentIs(heap, lent)

LEMMA HeapStart == HeapAssumption /\ HeapInit => HeapInv
<1> SUFFICES ASSUME HeapAssumption, HeapInit PROVE HeapInv
  OBVIOUS
<1>1. DOMAIN heap.elts = {} /\ heap.elts = <<>> /\ heap.free = <<>> /\ heap.removed = <<>> /\ heap.len = 0
  BY DEF HeapInit, EmptyHeap
<1>2. /\ IsHeap(heap) /\ heap.head \in Int /\ heap.tail \in Int /\ heap.len \in Nat
      /\ heap.maxSize \in Nat
  BY DEF HeapInit, EmptyHeap, IsHeap, MaxIndex
<1>3. Numbered(heap.elts, heap.removed)
  <2>1. DOMAIN heap.elts = 0..0 - 1 /\ heap.removed \in Seq(DOMAIN heap.elts) /\ Len(heap.removed) = 0
    BY <1>1
  <2>2. heap.elts \in [DOMAIN heap.elts -> Element]
    BY <1>1
  <2> QED BY <2>1, <2>2 DEF Numbered
<1>4. IsLists(heap.free)
  BY <1>1 DEF IsLists
<1>5. InUse(heap) = {} /\ HeldIn(heap) = {}
  BY <1>1 DEF InUse, HeldIn
<1>6. \A s, i, x : ~At(heap, s, i, x)
  BY <1>1 DEF At, Nth
<1>7. Sound(heap)
  <2>1. heap.len <= maxLen
    BY <1>1 DEF HeapAssumption
  <2> QED BY <1>1, <1>2, <1>3, <1>4, <1>5, <1>6, <2>1 DEF Sound, Made, Chained, Separate, Listed
<1>8. LentIs(heap, lent)
  BY <1>5 DEF HeapInit, LentIs
<1> QED
  BY <1>7, <1>8 DEF HeapInv

LEMMA AlignedStep ==
  ASSUME HeapInv, NEW sizeArg \in Nat \ {0}, NEW a \in Nat \ {0}, maxLen \in Nat,
         GetAligned(sizeArg, a)
  PROVE  HeapInv'
<1> DEFINE s == sizeArg + a - 1
           g == get(heap, sizeArg, s)
           cut == Cut(g.h, g.id, sizeArg, s, a)
<1>1. s \in Nat \ {0} /\ sizeArg \in Nat
  OBVIOUS
<1>2. Gets(heap, g, s)
  <2>1. g = get(heap, sizeArg, s) /\ Sound(heap)
    BY DEF HeapInv
  <2> HIDE DEF g, s
  <2> QED BY <1>1, <2>1, GetKeeps
<1>3. CASE g.id = MaxIndex
  <2>1. heap' = g.h /\ lent' = lent
    BY <1>3 DEF GetAligned
  <2> HIDE DEF g, s, cut
  <2>2. Sound(g.h) /\ HeldIn(g.h) = HeldIn(heap) /\ Kept(heap, g.h, HeldIn(heap))
    BY <1>2, <1>3 DEF Gets
  <2>3. LentIs(g.h, lent)
    BY <2>2 DEF HeapInv, LentIs, Kept
  <2> QED BY <2>1, <2>2, <2>3 DEF HeapInv
<1>4. CASE g.id # MaxIndex
  <2> DEFINE x == g.id
             ao == alignUp(g.h.elts[x].offset, a)
  <2>1. /\ heap' = IF cut.ok THEN cut.h ELSE heap
        /\ lent' = IF cut.ok
                   THEN [y \in DOMAIN lent \cup {x} |->
                           IF y # x THEN lent[y]
                           ELSE [offset |-> cut.h.elts[y].offset, size |-> sizeArg, align |-> a]]
                   ELSE lent
    BY <1>4 DEF GetAligned
  <2>2. Got(heap, g.h, x, s)
    BY <1>2, <1>4 DEF Gets
  <2>3. cut = Cut(g.h, x, sizeArg, s, a) /\ s = sizeArg + a - 1
    OBVIOUS
  <2> HIDE DEF g, s, cut, x
  <2>4. /\ Sound(g.h) /\ HeldIn(g.h) = HeldIn(heap) \cup {x} /\ x \notin HeldIn(heap)
        /\ Kept(heap, g.h, HeldIn(heap)) /\ size(g.h, x) = s /\ x \in HeldIn(g.h)
    BY <2>2 DEF Got
  <2>5. CutTo(g.h, cut, x, ao, sizeArg)
    BY <2>3, <2>4, CutKeeps
  <2>6. ao % a = 0
    <3>1. g.h.elts[x].offset \in Nat
      BY <2>4, NotItself
    <3> QED BY <3>1, AlignedUp
  <2> HIDE DEF ao
  <2>7. CASE ~cut.ok
    BY <2>1, <2>7 DEF HeapInv
  <2>8. CASE cut.ok
    <3> DEFINE h == cut.h
               l == [y \in DOMAIN lent \cup {x} |->
                      IF y # x THEN lent[y]
                      ELSE [offset |-> h.elts[y].offset, size |-> sizeArg, align |-> a]]
    <3>1. heap' = h /\ lent' = l
      BY <2>1, <2>8
    <3>2. /\ Sound(h) /\ HeldIn(h) = HeldIn(heap) \cup {x} /\ Kept(heap, h, HeldIn(heap))
          /\ h.elts[x].offset = ao /\ size(h, x) = sizeArg
      BY <2>4, <2>5, <2>8 DEF CutTo, Kept
    <3> HIDE DEF h
    <3>3. LentIs(heap, lent)
      BY DEF HeapInv
    <3>4. DOMAIN l = HeldIn(h) /\ l = [y \in DOMAIN l |-> l[y]]
      BY <3>2, <3>3 DEF LentIs
    <3>5. /\ \A y \in HeldIn(heap) : l[y] = lent[y]
          /\ l[x].offset = ao /\ l[x].size = sizeArg /\ l[x].align = a
      BY <2>4, <3>2, <3>3 DEF LentIs
    <3> HIDE DEF l
    <3>6. LentIs(h, l)
      BY <2>6, <3>2, <3>3, <3>4, <3>5 DEF LentIs, Kept
    <3> QED BY <3>1, <3>2, <3>6 DEF HeapInv
  <2> QED BY <2>7, <2>8
<1> QED
  BY <1>3, <1>4

LEMMA PutStep ==
  ASSUME HeapInv, NEW ei \in DOMAIN lent, Put(ei)
  PROVE  HeapInv'
<1>1. Sound(heap) /\ LentIs(heap, lent) /\ ei \in HeldIn(heap)
  BY DEF HeapInv, LentIs
<1>2. CASE PutPanics(heap, ei)
  BY <1>2 DEF Put, HeapInv
<1>3. CASE ~PutPanics(heap, ei)
  <2> DEFINE g == put(heap, ei)
             l == [x \in DOMAIN lent \ {ei} |-> lent[x]]
  <2>1. heap' = g /\ lent' = l
    BY <1>3 DEF Put
  <2>2. g = put(heap, ei)
    OBVIOUS
  <2> HIDE DEF g
  <2>3. PutBack(heap, g, ei)
    BY <1>1, <1>3, <2>2, PutKeeps
  <2>4. DOMAIN l = HeldIn(g) /\ l = [x \in DOMAIN l |-> l[x]] /\ \A x \in DOMAIN l : l[x] = lent[x]
    BY <1>1, <2>3 DEF PutBack, LentIs
  <2> HIDE DEF l
  <2>5. LentIs(g, l)
    BY <1>1, <2>3, <2>4 DEF PutBack, LentIs, Kept
  <2> QED BY <2>1, <2>3, <2>5 DEF HeapInv, PutBack
<1> QED
  BY <1>2, <1>3

\* The chunks, the lists of free ones and what callers hold agree, in every state.
THEOREM HeapInvHolds == HeapAssumption => (HeapSpec => []HeapInv)
<1> SUFFICES ASSUME HeapAssumption PROVE HeapSpec => []HeapInv
  OBVIOUS
<1>1. HeapInv /\ [HeapNext]_heapVars => HeapInv'
  <2> SUFFICES ASSUME HeapInv, [HeapNext]_heapVars PROVE HeapInv'
    OBVIOUS
  <2>1. CASE \E s \in Sizes, a \in Aligns : GetAligned(s, a)
    BY <2>1, AlignedStep DEF HeapAssumption
  <2>2. CASE \E ei \in DOMAIN lent : Put(ei)
    BY <2>2, PutStep
  <2>3. CASE UNCHANGED heapVars
    BY <2>3 DEF heapVars, HeapInv
  <2> QED BY <2>1, <2>2, <2>3 DEF HeapNext
<1> QED
  BY HeapStart, <1>1, PTL DEF HeapSpec

LEMMA InvTiled == HeapInv => Tiled
<1> SUFFICES ASSUME HeapInv PROVE Tiled
  OBVIOUS
<1>1. Made(heap) /\ Chained(heap) /\ Separate(heap) /\ Chunks = InUse(heap)
  BY DEF HeapInv, Sound, Chunks, Elts, Removed, InUse, Numbers
<1>2. \A x \in InUse(heap) : Placed(heap, x)
  BY <1>1 DEF Chained
<1>3. ASSUME NEW x \in Chunks
      PROVE  /\ size(heap, x) > 0
             /\ heap.elts[x].next = MaxIndex <=> x = heap.tail
             /\ heap.elts[x].prev = MaxIndex <=> x = heap.head
             /\ heap.elts[x].next # MaxIndex =>
                  /\ heap.elts[x].next \in Chunks
                  /\ heap.elts[heap.elts[x].next].prev = x
                  /\ ~(isFree(heap.elts[x]) /\ isFree(heap.elts[heap.elts[x].next]))
  <2>1. Placed(heap, x)
    BY <1>1, <1>2
  <2>2. isFree(heap.elts[x]) /\ heap.elts[x].next # MaxIndex => ~isFree(heap.elts[heap.elts[x].next])
    BY <1>1 DEF Separate, HeldIn, isFree
  <2> QED BY <1>1, <2>1, <2>2 DEF Placed
<1>4. Chunks # {} => /\ heap.elts[heap.head].offset = 0 /\ heap.elts[heap.head].prev = MaxIndex
                     /\ heap.elts[heap.tail].next = MaxIndex
  <2> SUFFICES ASSUME Chunks # {} PROVE /\ heap.elts[heap.head].offset = 0
                                        /\ heap.elts[heap.head].prev = MaxIndex
                                        /\ heap.elts[heap.tail].next = MaxIndex
    OBVIOUS
  <2>1. heap.head \in InUse(heap) /\ heap.tail \in InUse(heap)
    BY <1>1 DEF Chained
  <2> QED BY <1>2, <2>1 DEF Placed
<1> QED
  BY <1>3, <1>4 DEF Tiled

LEMMA InvLent == HeapInv => Lent
<1> SUFFICES ASSUME HeapInv PROVE Lent
  OBVIOUS
<1>1. LentIs(heap, lent) /\ Chunks = InUse(heap)
  BY DEF HeapInv, Chunks, Elts, Removed, InUse, Numbers
<1> QED
  BY <1>1 DEF Lent, LentIs, HeldIn, isFree

LEMMA InvFreeLists == HeapInv => FreeLists
<1> SUFFICES ASSUME HeapInv PROVE FreeLists
  OBVIOUS
<1>1. Listed(heap) /\ Chunks = InUse(heap)
  BY DEF HeapInv, Sound, Chunks, Elts, Removed, InUse, Numbers
<1>2. ASSUME NEW s \in DOMAIN heap.free, NEW i \in 1..Len(heap.free[s])
      PROVE  LET ei == heap.free[s][i]
             IN ei \in Chunks /\ heap.elts[ei].free = i - 1 /\ s \in {0, size(heap, ei)}
  <2> DEFINE x == heap.free[s][i]
  <2>1. At(heap, s, i, x)
    BY DEF At, Nth
  <2> HIDE DEF x
  <2>2. x \in InUse(heap) /\ heap.elts[x].free = i - 1 /\ s \in {0, size(heap, x)}
    BY <1>1, <2>1 DEF Listed
  <2> QED BY <1>1, <2>2 DEF x
<1>3. ASSUME NEW ei \in Chunks, isFree(heap.elts[ei])
      PROVE  \E s \in DOMAIN heap.free : \E i \in 1..Len(heap.free[s]) : heap.free[s][i] = ei
  <2>1. ei \in InUse(heap) \ HeldIn(heap)
    BY <1>1, <1>3 DEF HeldIn, isFree
  <2>2. PICK s, i : At(heap, s, i, ei)
    BY <1>1, <2>1 DEF Listed
  <2> QED BY <2>2 DEF At, Nth
<1> QED
  BY <1>2, <1>3 DEF FreeLists

\* Chunks x and y have no place in common
Disjoint(h, x, y) == EndOf(h, x) <= h.elts[y].offset \/ EndOf(h, y) <= h.elts[x].offset

\* x begins before y, and y begins before x ends
Meets(h, x, y) == x # y /\ h.elts[x].offset <= h.elts[y].offset /\ h.elts[y].offset < EndOf(h, x)

LEMMA ChunkFacts ==
  ASSUME NEW h, Sound(h), NEW x \in InUse(h)
  PROVE  /\ h.elts[x].offset \in Nat /\ EndOf(h, x) \in Nat /\ h.elts[x].offset < EndOf(h, x)
         /\ size(h, x) = EndOf(h, x) - h.elts[x].offset
         /\ h.elts[x].offset > 0 => \E p \in InUse(h) : h.elts[p].next = x /\ EndOf(h, p) = h.elts[x].offset
         /\ h.elts[x].offset = 0 => x = h.head
<1>1. Made(h) /\ Chained(h) /\ Placed(h, x)
  BY DEF Sound, Chained
<1>2. /\ size(h, x) = EndOf(h, x) - h.elts[x].offset /\ EndOf(h, x) \in Int
      /\ h.elts[x].offset \in Int /\ h.elts[x].offset < EndOf(h, x) /\ h.elts[x].offset >= 0
  BY <1>1, SizeIs
<1>3. \A p \in InUse(h) : h.elts[p].next = x => EndOf(h, p) = h.elts[x].offset
  BY <1>1, MadeFacts DEF EndOf
<1>4. h.elts[x].prev # MaxIndex =>
        /\ h.elts[x].prev \in InUse(h) /\ h.elts[h.elts[x].prev].next = x
        /\ h.elts[h.elts[x].prev].offset < h.elts[x].offset
  BY Neighbours
<1>5. ASSUME h.elts[x].offset > 0
      PROVE  \E p \in InUse(h) : h.elts[p].next = x /\ EndOf(h, p) = h.elts[x].offset
  <2>1. h.elts[x].prev # MaxIndex
    BY <1>1, <1>2, <1>5 DEF Placed
  <2> QED BY <1>3, <1>4, <2>1
<1>6. ASSUME h.elts[x].offset = 0 PROVE x = h.head
  <2>1. ASSUME h.elts[x].prev # MaxIndex PROVE FALSE
    <3> DEFINE p == h.elts[x].prev
    <3>1. p \in InUse(h) /\ h.elts[p].offset < 0
      BY <1>4, <1>6, <2>1
    <3> HIDE DEF p
    <3>2. Placed(h, p)
      BY <1>1, <3>1 DEF Chained
    <3>3. h.elts[p].offset \in Int
      BY <1>1, <3>1, MadeFacts
    <3> QED BY <3>1, <3>2, <3>3 DEF Placed
  <2> QED BY <1>1, <2>1 DEF Placed
<1> QED
  BY <1>2, <1>5, <1>6

\* No two chunks meet: of two that do, with the least place where the later one begins,
\* the chunks before them meet too
LEMMA NoneMeet ==
  ASSUME NEW h, Sound(h), NEW x \in InUse(h), NEW y \in InUse(h), Meets(h, x, y)
  PROVE  FALSE
<1> DEFINE T == {o \in Nat : \E u, v \in InUse(h) : Meets(h, u, v) /\ h.elts[v].offset = o}
<1>1. PICK o \in T : \A p \in T : o <= p
  <2>1. h.elts[y].offset \in T
    BY ChunkFacts
  <2>2. T \subseteq Nat /\ T # {}
    BY <2>1
  <2> HIDE DEF T
  <2> QED BY <2>2, Least
<1>2. PICK u \in InUse(h), v \in InUse(h) : Meets(h, u, v) /\ h.elts[v].offset = o
  BY <1>1
<1>3. ASSUME NEW p \in InUse(h), NEW q \in InUse(h), Meets(h, p, q), h.elts[q].offset < o PROVE FALSE
  <2>1. h.elts[q].offset \in T
    BY <1>3, ChunkFacts
  <2> HIDE DEF T
  <2>2. o \in Nat /\ h.elts[q].offset \in Nat /\ o <= h.elts[q].offset
    BY <1>1, <1>3, <2>1, ChunkFacts DEF T
  <2> QED BY <1>3, <2>2
<1> HIDE DEF T
<1>4. /\ u # v /\ h.elts[u].offset <= o /\ o < EndOf(h, u) /\ h.elts[v].offset = o
      /\ o \in Nat /\ h.elts[u].offset \in Nat /\ EndOf(h, u) \in Nat
  BY <1>2, ChunkFacts DEF Meets
<1>5. o > 0
  <2>1. SUFFICES ASSUME o = 0 PROVE FALSE
    BY <1>4
  <2>2. h.elts[u].offset = 0 /\ h.elts[v].offset = 0
    BY <1>4, <2>1
  <2>3. u = h.head /\ v = h.head
    BY <2>2, ChunkFacts
  <2> QED BY <1>4, <2>3
<1>6. PICK p \in InUse(h) : h.elts[p].next = v /\ EndOf(h, p) = o
  BY <1>4, <1>5, ChunkFacts
<1>7. h.elts[p].offset \in Nat /\ h.elts[p].offset < o /\ p # u
  BY <1>4, <1>6, ChunkFacts
<1>8. CASE h.elts[u].offset <= h.elts[p].offset
  <2>1. Meets(h, u, p)
    BY <1>4, <1>7, <1>8 DEF Meets
  <2> QED BY <1>3, <1>7, <2>1
<1>9. CASE h.elts[p].offset < h.elts[u].offset /\ h.elts[u].offset < o
  <2>1. Meets(h, p, u)
    BY <1>4, <1>6, <1>7, <1>9 DEF Meets
  <2> QED BY <1>3, <1>9, <2>1
<1>10. CASE h.elts[u].offset = o
  <2>1. PICK q \in InUse(h) : h.elts[q].next = u /\ EndOf(h, q) = o
    BY <1>5, <1>10, ChunkFacts
  <2>2. h.elts[q].offset \in Nat /\ h.elts[q].offset < o /\ q # p
    BY <1>4, <1>6, <2>1, ChunkFacts
  <2>3. Meets(h, p, q) \/ Meets(h, q, p)
    BY <1>6, <1>7, <2>1, <2>2 DEF Meets
  <2> QED BY <1>3, <1>7, <2>2, <2>3
<1> QED
  BY <1>4, <1>7, <1>8, <1>9, <1>10

LEMMA ChunksApart ==
  ASSUME NEW h, Sound(h), NEW x \in InUse(h), NEW y \in InUse(h), x # y
  PROVE  Disjoint(h, x, y)
<1>1. ~Meets(h, x, y) /\ ~Meets(h, y, x)
  BY NoneMeet
<1>2. /\ h.elts[x].offset \in Nat /\ EndOf(h, x) \in Nat
      /\ h.elts[y].offset \in Nat /\ EndOf(h, y) \in Nat
  BY ChunkFacts
<1> QED
  BY <1>1, <1>2 DEF Meets, Disjoint

\* No chunk reaches beyond the heap: it would meet the last one
LEMMA ChunksInside ==
  ASSUME NEW h, Sound(h), NEW x \in InUse(h)
  PROVE  EndOf(h, x) <= h.len /\ h.len <= maxLen
<1>1. /\ h.tail \in InUse(h) /\ h.elts[h.tail].next = MaxIndex /\ h.len \in Nat /\ h.len <= maxLen
  BY DEF Sound, Made, Chained, Placed
<1>2. EndOf(h, h.tail) = h.len /\ h.elts[h.tail].offset \in Nat /\ h.elts[h.tail].offset < h.len
  BY <1>1, ChunkFacts DEF EndOf
<1> DEFINE T == {o \in Nat : \E y \in InUse(h) : h.elts[y].offset = o /\ o >= h.len}
<1>3. T = {}
  <2> SUFFICES ASSUME T # {} PROVE FALSE
    OBVIOUS
  <2>1. PICK o \in T : \A p \in T : o <= p
    <3>1. T \subseteq Nat
      OBVIOUS
    <3> HIDE DEF T
    <3> QED BY <3>1, Least
  <2>2. PICK y \in InUse(h) : h.elts[y].offset = o /\ o >= h.len /\ o \in Nat
    BY <2>1
  <2>3. PICK p \in InUse(h) : h.elts[p].next = y /\ EndOf(h, p) = o
    BY <1>1, <1>2, <2>2, ChunkFacts
  <2>4. h.elts[p].offset \in Nat /\ h.elts[p].offset < o
    BY <2>2, <2>3, ChunkFacts
  <2>5. h.elts[p].offset < h.len
    BY <1>1, <2>1, <2>2, <2>4
  <2>6. p # h.tail
    <3>1. y # MaxIndex
      BY Neighbours
    <3> QED BY <1>1, <2>3, <3>1
  <2>7. Disjoint(h, p, h.tail)
    BY <1>1, <2>6, ChunksApart
  <2> QED BY <1>1, <1>2, <2>2, <2>3, <2>4, <2>5, <2>7 DEF Disjoint
<1>4. h.elts[x].offset \in Nat /\ h.elts[x].offset < h.len /\ EndOf(h, x) \in Nat
  BY <1>1, <1>3, ChunkFacts
<1>5. CASE x = h.tail
  BY <1>1, <1>2, <1>5
<1>6. CASE x # h.tail
  <2>1. Disjoint(h, x, h.tail)
    BY <1>1, <1>6, ChunksApart
  <2> QED BY <1>1, <1>2, <1>4, <2>1 DEF Disjoint
<1> QED
  BY <1>1, <1>5, <1>6

LEMMA InvApart == HeapAssumption /\ HeapInv => Apart
<1> SUFFICES ASSUME HeapAssumption, HeapInv PROVE Apart
  OBVIOUS
<1>1. Sound(heap) /\ LentIs(heap, lent)
  BY DEF HeapInv
<1>2. ASSUME NEW x \in DOMAIN lent
      PROVE  /\ x \in InUse(heap) /\ lent[x].offset = heap.elts[x].offset
             /\ lent[x].offset + lent[x].size = EndOf(heap, x)
             /\ lent[x].offset \in Nat /\ EndOf(heap, x) \in Nat
  <2>1. x \in InUse(heap) /\ lent[x].offset = heap.elts[x].offset /\ lent[x].size = size(heap, x)
    BY <1>1, <1>2 DEF LentIs, HeldIn
  <2>2. /\ heap.elts[x].offset \in Nat /\ EndOf(heap, x) \in Nat
        /\ size(heap, x) = EndOf(heap, x) - heap.elts[x].offset
    BY <1>1, <2>1, ChunkFacts
  <2> QED BY <2>1, <2>2
<1>3. ASSUME NEW x \in DOMAIN lent
      PROVE  lent[x].offset >= 0 /\ lent[x].offset + lent[x].size <= maxLen
  <2>1. EndOf(heap, x) <= heap.len /\ heap.len <= maxLen /\ heap.len \in Nat
    BY <1>1, <1>2, ChunksInside DEF Sound, Made
  <2>2. maxLen \in Int
    BY DEF HeapAssumption
  <2> QED BY <1>2, <2>1, <2>2
<1>4. ASSUME NEW x \in DOMAIN lent, NEW y \in DOMAIN lent, x # y
      PROVE  \/ lent[x].offset + lent[x].size <= lent[y].offset
             \/ lent[y].offset + lent[y].size <= lent[x].offset
  <2>1. Disjoint(heap, x, y)
    BY <1>1, <1>2, <1>4, ChunksApart
  <2> QED BY <1>2, <2>1 DEF Disjoint
<1> QED
  BY <1>3, <1>4 DEF Apart

\* FollowedBy every sequence of Get, GetAligned and Put the chunks tile the heap, in one list
\* from head to tail, no two free chunks are neighbours, each caller holds the chunk it was
\* given, where it was given and as aligned as it asked, within maxLen and apart from what
\* others hold, what nobody holds is free, and a free chunk is on the list that it says it
\* is on (heap.go).
THEOREM HeapSoundHolds == HeapAssumption => (HeapSpec => []HeapSound)
<1> SUFFICES ASSUME HeapAssumption PROVE HeapSpec => []HeapSound
  OBVIOUS
<1>1. HeapInv => HeapSound
  BY InvTiled, InvLent, InvFreeLists, InvApart DEF HeapSound
<1> QED
  BY <1>1, HeapInvHolds, PTL

-----------------------------------------------------------------------------
(* Heap implements Regions *)

Regions == {lent[x] : x \in DOMAIN lent}

\* A caller holds one place or more
LEMMA LentRanges ==
  ASSUME HeapInv
  PROVE  \A x \in DOMAIN lent : lent[x].offset \in Int /\ lent[x].size \in Nat \ {0}
<1> SUFFICES ASSUME NEW x \in DOMAIN lent
             PROVE  lent[x].offset \in Int /\ lent[x].size \in Nat \ {0}
  OBVIOUS
<1>1. Sound(heap) /\ LentIs(heap, lent)
  BY DEF HeapInv
<1>2. x \in InUse(heap) /\ lent[x].offset = heap.elts[x].offset /\ lent[x].size = size(heap, x)
  BY <1>1 DEF LentIs, HeldIn
<1>3. /\ heap.elts[x].offset \in Nat /\ EndOf(heap, x) \in Nat
      /\ heap.elts[x].offset < EndOf(heap, x)
      /\ size(heap, x) = EndOf(heap, x) - heap.elts[x].offset
  BY <1>1, <1>2, ChunkFacts
<1> QED
  BY <1>2, <1>3

\* What is lent next is not what is lent, lies in the heap and meets nothing that is lent
LEMMA GetAlignedLends ==
  ASSUME HeapInv, HeapInv', Apart', HeapAssumption,
         NEW sizeArg \in Sizes, NEW a \in Aligns, GetAligned(sizeArg, a)
  PROVE  Promise!Get(sizeArg, a) \/ UNCHANGED Regions
<1> DEFINE s == sizeArg + a - 1
           g == get(heap, sizeArg, s)
           cut == Cut(g.h, g.id, sizeArg, s, a)
           x == g.id
           l == [y \in DOMAIN lent \cup {x} |->
                  IF y # x THEN lent[y]
                  ELSE [offset |-> cut.h.elts[y].offset, size |-> sizeArg, align |-> a]]
<1>1. /\ sizeArg \in Nat \ {0} /\ a \in Nat \ {0} /\ maxLen \in Nat /\ s \in Nat \ {0}
      /\ s = sizeArg + a - 1
  BY DEF HeapAssumption
<1>2. Gets(heap, g, s)
  <2>1. g = get(heap, sizeArg, s) /\ Sound(heap)
    BY DEF HeapInv
  <2> HIDE DEF g, s
  <2> QED BY <1>1, <2>1, GetKeeps
<1>3. CASE g.id = MaxIndex \/ ~cut.ok
  <2>1. lent' = lent
    BY <1>3 DEF GetAligned
  <2> QED BY <2>1 DEF Regions
<1>4. CASE g.id # MaxIndex /\ cut.ok
  <2>1. lent' = l
    BY <1>4 DEF GetAligned
  <2> DEFINE r == [offset |-> cut.h.elts[x].offset, size |-> sizeArg, align |-> a]
  <2>2. /\ DOMAIN l = DOMAIN lent \cup {x} /\ l[x] = r
        /\ \A y \in DOMAIN lent : y # x => l[y] = lent[y]
    OBVIOUS
  <2>3. r.size = sizeArg /\ r.align = a /\ r = [offset |-> r.offset, size |-> sizeArg, align |-> a]
    OBVIOUS
  <2> HIDE DEF g, s, cut, x, l, r
  <2>4. x \notin DOMAIN lent
    BY <1>2, <1>4 DEF Gets, Got, HeapInv, LentIs, x
  <2>5. /\ Regions' = Regions \cup {r} /\ lent'[x] = r /\ DOMAIN lent' = DOMAIN lent \cup {x}
        /\ \A y \in DOMAIN lent : lent'[y] = lent[y]
    BY <2>1, <2>2, <2>4 DEF Regions
  <2>6. /\ r.offset >= 0 /\ r.offset + r.size <= maxLen /\ r.offset % r.align = 0
        /\ \A y \in DOMAIN lent : \/ r.offset + r.size <= lent[y].offset
                                  \/ lent[y].offset + lent[y].size <= r.offset
    BY <2>4, <2>5 DEF Apart, HeapInv, LentIs
  <2>7. /\ r.offset \in Int
        /\ \A y \in DOMAIN lent : lent[y].offset \in Int /\ lent[y].size \in Int
    <3>1. Made(heap)' /\ x \in InUse(heap)' /\ r.offset = heap'.elts[x].offset
      BY <2>5 DEF HeapInv, Sound, LentIs, HeldIn
    <3>2. heap'.elts[x].offset \in Int
      BY <3>1, MadeFacts
    <3> QED BY <3>1, <3>2, LentRanges
  <2>8. r.offset \in 0 .. maxLen - sizeArg
    BY <1>1, <2>3, <2>6, <2>7
  <2>9. \A q \in Regions : ~Promise!Overlap(r, q)
    BY <1>1, <2>3, <2>6, <2>7 DEF Regions, Promise!Overlap
  <2> QED BY <2>3, <2>5, <2>6, <2>8, <2>9 DEF Promise!Get, Regions
<1> QED
  BY <1>3, <1>4

\* What is put back is no other caller's too
LEMMA PutTakesBack ==
  ASSUME HeapInv, Apart, NEW ei \in DOMAIN lent, Put(ei)
  PROVE  Promise!Put(lent[ei]) \/ UNCHANGED Regions
<1>1. CASE PutPanics(heap, ei)
  BY <1>1 DEF Put, Regions
<1>2. CASE ~PutPanics(heap, ei)
  <2>1. lent' = [x \in DOMAIN lent \ {ei} |-> lent[x]]
    BY <1>2 DEF Put
  <2>2. ASSUME NEW y \in DOMAIN lent, y # ei PROVE lent[y] # lent[ei]
    <3>1. /\ lent[y].offset \in Int /\ lent[y].size \in Nat \ {0}
          /\ lent[ei].offset \in Int /\ lent[ei].size \in Nat \ {0}
      BY LentRanges
    <3> QED BY <2>2, <3>1 DEF Apart
  <2>3. Regions' = Regions \ {lent[ei]}
    BY <2>1, <2>2 DEF Regions
  <2> QED BY <2>3 DEF Promise!Put, Regions
<1> QED
  BY <1>1, <1>2

\* The heap keeps the promise of an allocator: what Get and GetAligned return lies within
\* maxLen, is aligned and is nobody else's, and stays its caller's until Put, for every
\* length of the heap and any sizes and alignments (heap.go).
THEOREM HeapImplementsRegions == HeapAssumption => (HeapSpec => RegionsSpec)
<1> SUFFICES ASSUME HeapAssumption PROVE HeapSpec => RegionsSpec
  OBVIOUS
<1>1. HeapInit => Promise!Init
  BY DEF HeapInit, Promise!Init
<1>2. HeapInv => Apart
  BY InvApart
<1>3. HeapInv /\ HeapInv' /\ Apart /\ Apart' /\ [HeapNext]_heapVars => [Promise!Next]_Regions
  <2> SUFFICES ASSUME HeapInv, HeapInv', Apart, Apart', [HeapNext]_heapVars PROVE [Promise!Next]_Regions
    OBVIOUS
  <2>1. ASSUME NEW s \in Sizes, NEW a \in Aligns, GetAligned(s, a) PROVE [Promise!Next]_Regions
    BY <2>1, GetAlignedLends DEF Promise!Next
  <2>2. ASSUME NEW ei \in DOMAIN lent, Put(ei) PROVE [Promise!Next]_Regions
    <3>1. Promise!Put(lent[ei]) \/ UNCHANGED Regions
      BY <2>2, PutTakesBack
    <3>2. lent[ei] \in Regions
      BY DEF Regions
    <3>3. (\E r \in Regions : Regions' = Regions \ {r}) => Promise!Next
      BY DEF Promise!Next, Promise!Put, Regions
    <3>4. Promise!Put(lent[ei]) => Regions' = Regions \ {lent[ei]}
      BY DEF Promise!Put, Regions
    <3> QED BY <3>1, <3>2, <3>3, <3>4
  <2>3. CASE UNCHANGED heapVars
    BY <2>3 DEF heapVars, Regions
  <2> QED BY <2>1, <2>2, <2>3 DEF HeapNext
<1>4. HeapInv /\ HeapInv' /\ Apart /\ Apart' /\ [HeapNext]_heapVars =>
        [Promise!Next]_{lent[ei] : ei \in DOMAIN lent}
  BY <1>3 DEF Regions
<1> QED
  BY <1>1, <1>2, <1>4, HeapInvHolds, PTL DEF HeapSpec, RegionsSpec, Promise!Spec

-----------------------------------------------------------------------------
(* Sparse: the inductive invariant *)

\* An array has words as wide as those of bitmaps
VARIABLES valid, count, members, dense
Array == INSTANCE Sparse

\* The instance counts as this module does
LEMMA SameCardinality == \A S : Array!Cardinality(S) = Cardinality(S)
BY DEF Array!Cardinality, Cardinality


WordOf(M, i) == {b \in 0..WordBits - 1 : i * WordBits + b \in M}
BeforeWord(M, i) == {y \in M : Array!word(y) < i}
Rank(M, x) == Cardinality({y \in M : y < x})

\* Every word has the bits of the members in it, and the number of members before it
SparseInv ==
  /\ members \subseteq Array!Indices
  /\ \E w \in 0..MaxWords : DOMAIN valid = 0..w - 1 /\ DOMAIN count = 0..w - 1
  /\ \A y \in members : Array!word(y) \in DOMAIN valid
  /\ valid = [i \in DOMAIN valid |-> WordOf(members, i)]
  /\ count = [i \in DOMAIN count |-> Cardinality(BeforeWord(members, i))]
  /\ dense # <<>> => \E x \in Array!Indices : dense = <<x, Rank(members, x)>>

-----------------------------------------------------------------------------
(* Words and bits *)

\* A number has one quotient and one remainder, and numbers are ordered by them
LEMMA DivisionOrder ==
  ASSUME NEW c \in Nat \ {0}, NEW p \in Int, NEW q \in Int, NEW r \in 0..c - 1, NEW s \in 0..c - 1
  PROVE  c * p + r < c * q + s <=> p < q \/ (p = q /\ r < s)
<1>1. c * p \in Int /\ c * q \in Int
  OBVIOUS
<1>2. c * (p - q) = c * p - c * q /\ c * (q - p) = c * q - c * p
  BY <1>1, Distribute
<1>3. CASE p < q
  <2>1. c * (q - p) >= c
    BY <1>3, AtLeastOne
  <2> QED BY <1>1, <1>2, <1>3, <2>1
<1>4. CASE q < p
  <2>1. c * (p - q) >= c
    BY <1>4, AtLeastOne
  <2> QED BY <1>1, <1>2, <1>4, <2>1
<1>5. CASE p = q
  BY <1>1, <1>5
<1> QED
  BY <1>3, <1>4, <1>5

LEMMA IndexParts ==
  ASSUME Array!SparseAssumption, NEW x \in Array!Indices
  PROVE  /\ x \in Nat /\ Array!bit(x) \in 0..WordBits - 1 /\ Array!word(x) \in 0..MaxWords - 1
         /\ x = Array!word(x) * WordBits + Array!bit(x)
<1>1. WordBits \in Nat \ {0} /\ MaxWords \in Nat \ {0}
  BY DEF Array!SparseAssumption
<1>2. x \in Nat /\ x < WordBits * MaxWords
  BY <1>1 DEF Array!Indices
<1>3. Array!word(x) \in Nat /\ Array!bit(x) \in 0..WordBits - 1 /\ x = WordBits * Array!word(x) + Array!bit(x)
  BY <1>1, <1>2, Division DEF Array!word, Array!bit
<1>4. Array!word(x) < MaxWords
  <2>1. WordBits * Array!word(x) + Array!bit(x) < WordBits * MaxWords + 0
    BY <1>1, <1>2, <1>3
  <2>2. 0 \in 0..WordBits - 1 /\ Array!word(x) \in Int /\ MaxWords \in Int
    BY <1>1, <1>3
  <2>3. Array!word(x) < MaxWords \/ (Array!word(x) = MaxWords /\ Array!bit(x) < 0)
    BY <1>1, <1>3, <2>1, <2>2, DivisionOrder
  <2> QED BY <1>3, <2>3
<1>5. WordBits * Array!word(x) = Array!word(x) * WordBits
  BY <1>1, <1>3
<1> QED
  BY <1>1, <1>2, <1>3, <1>4, <1>5

LEMMA PartsIndex ==
  ASSUME Array!SparseAssumption, NEW i \in Nat, NEW b \in 0..WordBits - 1
  PROVE  /\ i * WordBits + b \in Nat
         /\ Array!word(i * WordBits + b) = i /\ Array!bit(i * WordBits + b) = b
<1> DEFINE x == i * WordBits + b
<1>1. WordBits \in Nat \ {0}
  BY DEF Array!SparseAssumption
<1>2. i * WordBits = WordBits * i /\ WordBits * i \in Nat
  BY <1>1
<1>3. x \in Nat /\ x = WordBits * i + b
  BY <1>1, <1>2
<1> HIDE DEF x
<1>4. Array!word(x) \in Nat /\ Array!bit(x) \in 0..WordBits - 1 /\ x = WordBits * Array!word(x) + Array!bit(x)
  BY <1>1, <1>3, Division DEF Array!word, Array!bit
<1>5. Array!word(x) = i /\ Array!bit(x) = b
  BY <1>1, <1>3, <1>4, DivisionUnique
<1> QED
  BY <1>3, <1>5 DEF x

\* Indices are ordered by word, and in a word by bit
LEMMA IndexOrder ==
  ASSUME Array!SparseAssumption, NEW x \in Array!Indices, NEW y \in Array!Indices
  PROVE  y < x <=> Array!word(y) < Array!word(x) \/ (Array!word(y) = Array!word(x) /\ Array!bit(y) < Array!bit(x))
<1>1. WordBits \in Nat \ {0}
  BY DEF Array!SparseAssumption
<1>2. /\ Array!word(x) \in Int /\ Array!bit(x) \in 0..WordBits - 1 /\ x = Array!word(x) * WordBits + Array!bit(x)
      /\ Array!word(y) \in Int /\ Array!bit(y) \in 0..WordBits - 1 /\ y = Array!word(y) * WordBits + Array!bit(y)
  BY IndexParts
<1>3. Array!word(x) * WordBits = WordBits * Array!word(x) /\ Array!word(y) * WordBits = WordBits * Array!word(y)
  BY <1>1, <1>2
<1>4. WordBits * Array!word(y) + Array!bit(y) < WordBits * Array!word(x) + Array!bit(x)
        <=> Array!word(y) < Array!word(x) \/ (Array!word(y) = Array!word(x) /\ Array!bit(y) < Array!bit(x))
  <2>1. Array!word(y) \in Int /\ Array!word(x) \in Int /\ Array!bit(y) \in 0..WordBits - 1 /\ Array!bit(x) \in 0..WordBits - 1
    BY <1>2
  <2> QED BY <1>1, <2>1, DivisionOrder, Zenon
<1> QED
  BY <1>2, <1>3, <1>4

LEMMA IndicesFinite ==
  ASSUME Array!SparseAssumption, NEW M \in SUBSET Array!Indices
  PROVE  IsFiniteSet(M) /\ Cardinality(M) \in Nat
<1>1. WordBits * MaxWords \in Int
  BY DEF Array!SparseAssumption
<1>2. IsFiniteSet(Array!Indices)
  BY <1>1, FS_Interval DEF Array!Indices
<1> QED
  BY <1>2, FS_Subset, FS_CardinalityType

\* The members before bit b of word i
LEMMA MembersBefore ==
  ASSUME Array!SparseAssumption, NEW M \in SUBSET Array!Indices, NEW i \in Nat, NEW b \in Int
  PROVE  Cardinality({y \in M : Array!word(y) < i \/ (Array!word(y) = i /\ Array!bit(y) < b)}) =
           Cardinality(BeforeWord(M, i)) + Cardinality({c \in WordOf(M, i) : c < b})
<1> DEFINE P == BeforeWord(M, i)
           S == {y \in M : Array!word(y) = i /\ Array!bit(y) < b}
           T == {c \in WordOf(M, i) : c < b}
           f == [y \in S |-> Array!bit(y)]
<1>1. IsFiniteSet(P) /\ IsFiniteSet(S) /\ Cardinality(P) \in Nat
  BY IndicesFinite DEF BeforeWord
<1>2. {y \in M : Array!word(y) < i \/ (Array!word(y) = i /\ Array!bit(y) < b)} = P \cup S
  BY DEF BeforeWord
<1>3. P \cap S = {}
  <2> SUFFICES ASSUME NEW y \in M, Array!word(y) < i, Array!word(y) = i PROVE FALSE
    BY DEF BeforeWord
  <2> QED OBVIOUS
<1>4. Cardinality(P \cup S) = Cardinality(P) + Cardinality(S)
  <2> HIDE DEF P, S
  <2>1. Cardinality(S) \in Nat /\ Cardinality({}) = 0
    BY <1>1, FS_CardinalityType, FS_EmptySet
  <2>2. Cardinality(P \cup S) = Cardinality(P) + Cardinality(S) - Cardinality(P \cap S)
    BY <1>1, FS_Union
  <2>3. Cardinality(P \cap S) = 0
    BY <1>3, <2>1, Zenon
  <2> QED BY <1>1, <2>1, <2>2, <2>3
<1>5. f \in Bijection(S, T)
  <2>1. ASSUME NEW y \in S PROVE f[y] \in T /\ y = i * WordBits + f[y]
    <3>1. y \in Array!Indices /\ Array!bit(y) \in 0..WordBits - 1 /\ y = Array!word(y) * WordBits + Array!bit(y)
      BY IndexParts
    <3> QED BY <3>1 DEF WordOf
  <2>2. ASSUME NEW c \in T PROVE \E y \in S : f[y] = c
    <3> DEFINE y == i * WordBits + c
    <3>1. c \in 0..WordBits - 1 /\ y \in M /\ c < b
      BY DEF WordOf
    <3>2. Array!word(y) = i /\ Array!bit(y) = c
      BY <3>1, PartsIndex
    <3> HIDE DEF y
    <3>3. y \in S
      BY <3>1, <3>2
    <3>4. f[y] = c
      BY <3>2, <3>3
    <3> QED BY <3>3, <3>4
  <2>3. \A y, z \in S : f[y] = f[z] => y = z
    <3> HIDE DEF f
    <3> QED BY <2>1
  <2>4. f \in [S -> T]
    <3>1. \A y \in S : f[y] = Array!bit(y)
      OBVIOUS
    <3>2. \A y \in S : Array!bit(y) \in T
      BY <2>1, <3>1
    <3> HIDE DEF S, T
    <3> QED BY <3>2
  <2> HIDE DEF f, S, T
  <2> QED BY <2>2, <2>3, <2>4 DEF Bijection, Injection, Surjection, IsInjective
<1>6. Cardinality(T) = Cardinality(S)
  <2> HIDE DEF f, S, T
  <2> QED BY <1>1, <1>5, FS_Bijection DEF ExistsBijection
<1> QED
  BY <1>2, <1>4, <1>6

\* The rank of an index, from its word and its bit
LEMMA RankSplit ==
  ASSUME Array!SparseAssumption, NEW M \in SUBSET Array!Indices, NEW x \in Array!Indices
  PROVE  Rank(M, x) = Cardinality(BeforeWord(M, Array!word(x))) + Array!Below(WordOf(M, Array!word(x)), Array!bit(x))
<1>1. {y \in M : y < x} = {y \in M : Array!word(y) < Array!word(x) \/ (Array!word(y) = Array!word(x) /\ Array!bit(y) < Array!bit(x))}
  BY IndexOrder
<1>2. Array!word(x) \in Nat /\ Array!bit(x) \in Int
  BY IndexParts
<1> QED
  BY <1>1, <1>2, MembersBefore, SameCardinality DEF Rank, Array!Below

\* All members, when i is the last word
LEMMA CountAll ==
  ASSUME Array!SparseAssumption, NEW M \in SUBSET Array!Indices, NEW i \in Nat, \A y \in M : Array!word(y) <= i
  PROVE  Cardinality(M) = Cardinality(BeforeWord(M, i)) + Cardinality(WordOf(M, i))
<1>0. WordBits \in Nat
  BY DEF Array!SparseAssumption
<1>1. \A y \in M : Array!word(y) < i \/ (Array!word(y) = i /\ Array!bit(y) < WordBits)
  BY <1>0, IndexParts
<1>2. {y \in M : Array!word(y) < i \/ (Array!word(y) = i /\ Array!bit(y) < WordBits)} = M
  BY <1>1
<1>3. {c \in WordOf(M, i) : c < WordBits} = WordOf(M, i)
  BY <1>0 DEF WordOf
<1> QED
  BY <1>0, <1>2, <1>3, MembersBefore

-----------------------------------------------------------------------------
(* Sparse: the invariant is kept *)

\* What a member more changes
LEMMA MemberMore ==
  ASSUME Array!SparseAssumption, NEW M \in SUBSET Array!Indices, NEW x \in Array!Indices \ M
  PROVE  /\ \A j \in Nat : WordOf(M \cup {x}, j) =
                           IF j = Array!word(x) THEN WordOf(M, j) \cup {Array!bit(x)} ELSE WordOf(M, j)
         /\ \A j \in Nat : Cardinality(BeforeWord(M \cup {x}, j)) =
                           Cardinality(BeforeWord(M, j)) + (IF j > Array!word(x) THEN 1 ELSE 0)
<1>1. Array!word(x) \in Nat /\ Array!bit(x) \in 0..WordBits - 1 /\ x = Array!word(x) * WordBits + Array!bit(x)
  BY IndexParts
<1>2. ASSUME NEW j \in Nat
      PROVE  WordOf(M \cup {x}, j) =
               IF j = Array!word(x) THEN WordOf(M, j) \cup {Array!bit(x)} ELSE WordOf(M, j)
  <2>1. \A b \in 0..WordBits - 1 : j * WordBits + b = x <=> j = Array!word(x) /\ b = Array!bit(x)
    BY <1>1, PartsIndex
  <2>2. CASE j = Array!word(x)
    BY <1>1, <2>1, <2>2 DEF WordOf
  <2>3. CASE j # Array!word(x)
    BY <2>1, <2>3 DEF WordOf
  <2> QED BY <2>2, <2>3
<1>3. ASSUME NEW j \in Nat
      PROVE  Cardinality(BeforeWord(M \cup {x}, j)) =
               Cardinality(BeforeWord(M, j)) + (IF j > Array!word(x) THEN 1 ELSE 0)
  <2>1. IsFiniteSet(BeforeWord(M, j)) /\ Cardinality(BeforeWord(M, j)) \in Nat
    BY IndicesFinite DEF BeforeWord
  <2>2. x \notin BeforeWord(M, j)
    BY DEF BeforeWord
  <2>3. CASE j > Array!word(x)
    <3>1. BeforeWord(M \cup {x}, j) = BeforeWord(M, j) \cup {x}
      BY <1>1, <2>3 DEF BeforeWord
    <3> QED BY <2>1, <2>2, <2>3, <3>1, FS_AddElement
  <2>4. CASE ~(j > Array!word(x))
    <3>1. BeforeWord(M \cup {x}, j) = BeforeWord(M, j)
      BY <1>1, <2>4 DEF BeforeWord
    <3> QED BY <2>1, <2>4, <3>1
  <2> QED BY <2>3, <2>4
<1> QED
  BY <1>2, <1>3

\* The number of elements that the last word and its count tell
LEMMA EltsCount ==
  ASSUME Array!SparseAssumption, SparseInv
  PROVE  Array!elts = Cardinality(members)
<1>1. PICK w \in 0..MaxWords : DOMAIN valid = 0..w - 1 /\ DOMAIN count = 0..w - 1
  BY DEF SparseInv
<1>2. w \in Nat /\ Array!SparseAssumption /\ members \in SUBSET Array!Indices
  BY DEF SparseInv, Array!SparseAssumption
<1>3. CASE w = 0
  <2>1. DOMAIN count = {} /\ members = {}
    BY <1>1, <1>3 DEF SparseInv
  <2> QED BY <2>1, FS_EmptySet DEF Array!elts
<1>4. CASE w > 0
  <2>1. w - 1 \in DOMAIN count /\ w - 1 \in DOMAIN valid /\ w - 1 \in Nat
    BY <1>1, <1>2, <1>4
  <2>2. Cardinality(DOMAIN count) = w
    BY <1>1, <1>2, <1>4, FS_Interval
  <2>3. count[w - 1] = Cardinality(BeforeWord(members, w - 1)) /\ valid[w - 1] = WordOf(members, w - 1)
    BY <2>1 DEF SparseInv
  <2>4. \A y \in members : Array!word(y) <= w - 1
    BY <1>1, <1>2 DEF SparseInv
  <2>5. Cardinality(members) = count[w - 1] + Cardinality(valid[w - 1])
    BY <1>2, <2>1, <2>3, <2>4, CountAll
  <2> QED BY <2>1, <2>2, <2>5, SameCardinality DEF Array!elts, Array!eltsBefore
<1> QED
  BY <1>2, <1>3, <1>4

\* Growing the vectors changes nothing that they say
LEMMA GrownExact ==
  ASSUME Array!SparseAssumption, SparseInv, NEW i \in 0..MaxWords - 1
  PROVE  /\ \E w \in 0..MaxWords : DOMAIN Array!GrownValid(i) = 0..w - 1 /\ DOMAIN Array!GrownCount(i) = 0..w - 1
         /\ i \in DOMAIN Array!GrownValid(i) /\ DOMAIN valid \subseteq DOMAIN Array!GrownValid(i)
         /\ Array!GrownValid(i) = [j \in DOMAIN Array!GrownValid(i) |-> WordOf(members, j)]
         /\ Array!GrownCount(i) = [j \in DOMAIN Array!GrownCount(i) |-> Cardinality(BeforeWord(members, j))]
<1>1. PICK w \in 0..MaxWords : DOMAIN valid = 0..w - 1 /\ DOMAIN count = 0..w - 1
  BY DEF SparseInv
<1>2. /\ w \in Nat /\ i \in Nat /\ Array!SparseAssumption /\ members \in SUBSET Array!Indices
      /\ MaxWords \in Nat
  BY DEF SparseInv, Array!SparseAssumption
<1> DEFINE u == IF i < w THEN w ELSE i + 1
<1>3. u \in 0..MaxWords /\ (0..w - 1) \cup (0..i) = 0..u - 1 /\ i \in 0..u - 1
  BY <1>2
<1>4. DOMAIN Array!GrownValid(i) = 0..u - 1 /\ DOMAIN Array!GrownCount(i) = 0..u - 1
  BY <1>1, <1>3 DEF Array!GrownValid, Array!GrownCount
<1> HIDE DEF u
<1>5. ASSUME NEW j \in (0..u - 1) \ (0..w - 1)
      PROVE  WordOf(members, j) = {} /\ BeforeWord(members, j) = members
  <2>1. j \in Nat /\ j >= w
    BY <1>2, <1>3
  <2>2. \A y \in members : Array!word(y) \in 0..w - 1
    BY <1>1 DEF SparseInv
  <2>3. \A b \in 0..WordBits - 1 : j * WordBits + b \notin members
    BY <1>2, <2>1, <2>2, PartsIndex
  <2>4. \A y \in members : Array!word(y) < j
    BY <1>2, <2>1, <2>2
  <2> QED BY <2>3, <2>4 DEF WordOf, BeforeWord
<1>6. ASSUME NEW j \in 0..u - 1
      PROVE  /\ Array!GrownValid(i)[j] = WordOf(members, j)
             /\ Array!GrownCount(i)[j] = Cardinality(BeforeWord(members, j))
  <2>1. CASE j \in 0..w - 1
    BY <1>1, <1>3, <2>1 DEF Array!GrownValid, Array!GrownCount, SparseInv
  <2>2. CASE j \notin 0..w - 1
    BY <1>1, <1>3, <1>5, <2>2, EltsCount DEF Array!GrownValid, Array!GrownCount
  <2> QED BY <2>1, <2>2
<1>7. /\ Array!GrownValid(i) = [j \in 0..u - 1 |-> Array!GrownValid(i)[j]]
      /\ Array!GrownCount(i) = [j \in 0..u - 1 |-> Array!GrownCount(i)[j]]
  BY <1>1, <1>3 DEF Array!GrownValid, Array!GrownCount
<1> QED
  BY <1>1, <1>3, <1>4, <1>6, <1>7

LEMMA InitKeeps ==
  ASSUME Array!SparseAssumption, Array!Init
  PROVE  SparseInv
<1>1. DOMAIN valid = {} /\ DOMAIN count = {} /\ 0..0 - 1 = {} /\ 0 \in 0..MaxWords
  BY DEF Array!Init, Array!SparseAssumption
<1>2. /\ valid = [i \in DOMAIN valid |-> WordOf(members, i)]
      /\ count = [i \in DOMAIN count |-> Cardinality(BeforeWord(members, i))]
  BY <1>1 DEF Array!Init
<1> QED
  BY <1>1, <1>2 DEF SparseInv, Array!Init

LEMMA SetKeeps ==
  ASSUME Array!SparseAssumption, SparseInv, NEW x \in Array!Indices, Array!Set(x)
  PROVE  SparseInv'
<1> DEFINE i == Array!word(x)
           v == Array!GrownValid(i)
           c == Array!GrownCount(i)
           M == members \cup {x}
<1>1. i \in 0..MaxWords - 1 /\ Array!bit(x) \in 0..WordBits - 1 /\ i \in Nat /\ x = i * WordBits + Array!bit(x)
  BY IndexParts
<1>2. PICK w \in 0..MaxWords : DOMAIN v = 0..w - 1 /\ DOMAIN c = 0..w - 1
  BY <1>1, GrownExact
<1>3. /\ i \in DOMAIN v /\ DOMAIN valid \subseteq DOMAIN v
      /\ v = [j \in DOMAIN v |-> WordOf(members, j)]
      /\ c = [j \in DOMAIN c |-> Cardinality(BeforeWord(members, j))]
  BY <1>1, GrownExact
<1>4. /\ members' = M
      /\ IF Array!bit(x) \in v[i]
         THEN valid' = v /\ count' = c /\ dense' = <<>>
         ELSE /\ valid' = [v EXCEPT ![i] = @ \cup {Array!bit(x)}]
              /\ count' = Array!inc(c, i, 1)
              /\ dense' = <<x, c[i] + Array!Below(v[i], Array!bit(x))>>
  BY DEF Array!Set
<1>5. members \in SUBSET Array!Indices /\ M \in SUBSET Array!Indices
  BY DEF SparseInv
<1>6. v[i] = WordOf(members, i) /\ c[i] = Cardinality(BeforeWord(members, i))
  BY <1>2, <1>3
<1>7. Array!bit(x) \in v[i] <=> x \in members
  BY <1>1, <1>6 DEF WordOf
<1>8. \A y \in M : Array!word(y) \in DOMAIN v
  BY <1>3 DEF SparseInv
<1> HIDE DEF v, c, M
<1>9. CASE x \in members
  <2>1. members' = members /\ valid' = v /\ count' = c /\ dense' = <<>>
    BY <1>4, <1>7, <1>9 DEF M
  <2>2. /\ valid' = [j \in DOMAIN valid' |-> WordOf(members', j)]
        /\ count' = [j \in DOMAIN count' |-> Cardinality(BeforeWord(members', j))]
    BY <1>3, <2>1
  <2>3. \A y \in members' : Array!word(y) \in DOMAIN valid'
    BY <1>4, <1>8, <2>1
  <2> QED BY <1>2, <1>5, <2>1, <2>2, <2>3 DEF SparseInv
<1>10. CASE x \notin members
  <2>1. /\ valid' = [v EXCEPT ![i] = @ \cup {Array!bit(x)}] /\ count' = Array!inc(c, i, 1)
        /\ dense' = <<x, c[i] + Array!Below(v[i], Array!bit(x))>>
    BY <1>4, <1>7, <1>10
  <2>2. DOMAIN valid' = 0..w - 1 /\ DOMAIN count' = 0..w - 1
    BY <1>2, <2>1 DEF Array!inc
  <2>3. /\ \A j \in Nat : WordOf(M, j) =
                          IF j = i THEN WordOf(members, j) \cup {Array!bit(x)} ELSE WordOf(members, j)
        /\ \A j \in Nat : Cardinality(BeforeWord(M, j)) =
                          Cardinality(BeforeWord(members, j)) + (IF j > i THEN 1 ELSE 0)
    <3>1. x \in Array!Indices \ members
      BY <1>10
    <3> QED BY <1>5, <3>1, MemberMore DEF M
  <2>4. valid' = [j \in 0..w - 1 |-> WordOf(M, j)]
    <3>1. \A j \in 0..w - 1 : v[j] = WordOf(members, j) /\ j \in Nat
      BY <1>2, <1>3
    <3>2. \A j \in 0..w - 1 : (IF j = i THEN v[i] \cup {Array!bit(x)} ELSE v[j]) = WordOf(M, j)
      BY <2>3, <3>1
    <3> QED BY <1>2, <1>3, <2>1, <3>2
  <2>5. count' = [j \in 0..w - 1 |-> Cardinality(BeforeWord(M, j))]
    <3>1. \A j \in 0..w - 1 : Cardinality(BeforeWord(members, j)) \in Nat
      BY <1>5, IndicesFinite DEF BeforeWord
    <3>2. \A j \in 0..w - 1 : (IF j > i THEN c[j] + 1 ELSE c[j]) = Cardinality(BeforeWord(M, j))
      <4> SUFFICES ASSUME NEW j \in 0..w - 1
                   PROVE  (IF j > i THEN c[j] + 1 ELSE c[j]) = Cardinality(BeforeWord(M, j))
        OBVIOUS
      <4>1. c[j] = Cardinality(BeforeWord(members, j)) /\ j \in Nat /\ c[j] \in Nat
        BY <1>2, <1>3, <3>1
      <4>2. Cardinality(BeforeWord(M, j)) = c[j] + (IF j > i THEN 1 ELSE 0)
        BY <2>3, <4>1
      <4> QED BY <4>1, <4>2
    <3> QED BY <1>2, <2>1, <3>2 DEF Array!inc
  <2>6. dense' = <<x, Rank(M, x)>>
    <3>1. Rank(members, x) = c[i] + Array!Below(v[i], Array!bit(x))
      BY <1>5, <1>6, RankSplit
    <3>2. {y \in M : y < x} = {y \in members : y < x}
      BY <1>5, IndexParts DEF M
    <3> QED BY <2>1, <3>1, <3>2 DEF Rank
  <2>7. members' = M
    BY <1>4
  <2>8. /\ valid' = [j \in DOMAIN valid' |-> WordOf(members', j)]
        /\ count' = [j \in DOMAIN count' |-> Cardinality(BeforeWord(members', j))]
    BY <2>2, <2>4, <2>5, <2>7
  <2>9. \A y \in members' : Array!word(y) \in DOMAIN valid'
    BY <1>2, <1>8, <2>2, <2>7
  <2> QED BY <1>5, <2>2, <2>6, <2>7, <2>8, <2>9 DEF SparseInv
<1> QED
  BY <1>9, <1>10

LEMMA UnsetKeeps ==
  ASSUME Array!SparseAssumption, SparseInv, NEW x \in Array!Indices, Array!Unset(x)
  PROVE  SparseInv'
<1> DEFINE i == Array!word(x)
           M == members \ {x}
<1>1. Array!bit(x) \in 0..WordBits - 1 /\ i \in Nat /\ x = i * WordBits + Array!bit(x)
  BY IndexParts
<1>2. PICK w \in 0..MaxWords : DOMAIN valid = 0..w - 1 /\ DOMAIN count = 0..w - 1
  BY DEF SparseInv
<1>3. /\ i \in DOMAIN valid /\ members' = M /\ dense' = <<>>
      /\ valid' = [valid EXCEPT ![i] = @ \ {Array!bit(x)}]
      /\ count' = IF Array!bit(x) \in valid[i] THEN Array!inc(count, i, -1) ELSE count
  BY DEF Array!Unset
<1>4. members \in SUBSET Array!Indices /\ M \in SUBSET Array!Indices
  BY DEF SparseInv
<1>5. /\ \A j \in 0..w - 1 : valid[j] = WordOf(members, j)
      /\ \A j \in 0..w - 1 : count[j] = Cardinality(BeforeWord(members, j))
      /\ valid = [j \in 0..w - 1 |-> valid[j]] /\ count = [j \in 0..w - 1 |-> count[j]]
  BY <1>2 DEF SparseInv
<1>6. Array!bit(x) \in valid[i] <=> x \in members
  BY <1>1, <1>2, <1>3, <1>5 DEF WordOf
<1>7. DOMAIN valid' = 0..w - 1 /\ DOMAIN count' = 0..w - 1
  BY <1>2, <1>3 DEF Array!inc
<1>8. \A y \in members' : Array!word(y) \in DOMAIN valid'
  BY <1>2, <1>3, <1>7 DEF SparseInv
<1>9. ASSUME NEW j \in 0..w - 1
      PROVE  valid'[j] = WordOf(M, j) /\ count'[j] = Cardinality(BeforeWord(M, j))
  <2>1. CASE x \in members
    <3>1. /\ WordOf(M \cup {x}, j) = IF j = i THEN WordOf(M, j) \cup {Array!bit(x)} ELSE WordOf(M, j)
          /\ Cardinality(BeforeWord(M \cup {x}, j)) =
               Cardinality(BeforeWord(M, j)) + (IF j > i THEN 1 ELSE 0)
      <4>1. x \in Array!Indices \ M /\ j \in Nat
        OBVIOUS
      <4> HIDE DEF M
      <4> QED BY <1>4, <4>1, MemberMore
    <3>2. M \cup {x} = members
      BY <2>1
    <3>3. Array!bit(x) \notin WordOf(M, i)
      BY <1>1 DEF WordOf
    <3>4. Cardinality(BeforeWord(M, j)) \in Nat
      BY <1>4, IndicesFinite DEF BeforeWord
    <3>5. count'[j] = IF j > i THEN count[j] + (-1) ELSE count[j]
      BY <1>2, <1>3, <1>6, <2>1 DEF Array!inc
    <3>6. valid'[j] = IF j = i THEN valid[j] \ {Array!bit(x)} ELSE valid[j]
      BY <1>2, <1>3
    <3> HIDE DEF M
    <3>a. /\ valid[j] = WordOf(M \cup {x}, j)
          /\ count[j] = Cardinality(BeforeWord(M \cup {x}, j))
      BY <1>5, <3>2, Zenon
    <3>7. count'[j] = Cardinality(BeforeWord(M, j))
      BY <1>1, <3>1, <3>4, <3>5, <3>a
    <3>8. valid'[j] = WordOf(M, j)
      <4>1. valid[j] = IF j = i THEN WordOf(M, j) \cup {Array!bit(x)} ELSE WordOf(M, j)
        BY <3>1, <3>a
      <4> QED BY <3>3, <3>6, <4>1
    <3> QED BY <3>7, <3>8
  <2>2. CASE x \notin members
    <3>1. M = members
      BY <2>2
    <3>2. valid'[j] = valid[j] /\ count'[j] = count[j]
      BY <1>2, <1>3, <1>6, <2>2
    <3> HIDE DEF M
    <3> QED BY <1>5, <3>1, <3>2
  <2> QED BY <2>1, <2>2
<1>10. /\ valid' = [j \in 0..w - 1 |-> valid'[j]]
       /\ count' = [j \in 0..w - 1 |-> count'[j]]
  BY <1>2, <1>3, <1>5 DEF Array!inc
<1> HIDE DEF M
<1>11. /\ valid' = [j \in DOMAIN valid' |-> WordOf(members', j)]
       /\ count' = [j \in DOMAIN count' |-> Cardinality(BeforeWord(members', j))]
  BY <1>3, <1>7, <1>9, <1>10
<1> QED
  BY <1>3, <1>4, <1>7, <1>8, <1>11 DEF SparseInv

\* The words and counts of the array say which indices are set, in every state.
THEOREM SparseInvHolds == Array!SparseAssumption => (Array!Spec => []SparseInv)
<1> SUFFICES ASSUME Array!SparseAssumption PROVE Array!Spec => []SparseInv
  OBVIOUS
<1>1. Array!Init => SparseInv
  BY InitKeeps
<1>2. SparseInv /\ [Array!Next]_Array!vars => SparseInv'
  <2> SUFFICES ASSUME SparseInv, [Array!Next]_Array!vars PROVE SparseInv'
    OBVIOUS
  <2>1. ASSUME NEW x \in Array!Indices, Array!Set(x) PROVE SparseInv'
    BY <2>1, SetKeeps
  <2>2. ASSUME NEW x \in Array!Indices, Array!Unset(x) PROVE SparseInv'
    BY <2>2, UnsetKeeps
  <2>3. CASE UNCHANGED Array!vars
    BY <2>3 DEF SparseInv, Array!vars, WordOf, BeforeWord, Rank
  <2> QED BY <2>1, <2>2, <2>3 DEF Array!Next
<1> QED
  BY <1>1, <1>2, PTL DEF Array!Spec

\* Get, Set and elts number the set indices 0, 1, 2, ... in increasing order (sparse.go),
\* whatever was set and unset before and however the array grew.
THEOREM DenseIsRankHolds == Array!SparseAssumption => (Array!Spec => []Array!DenseIsRank)
<1> SUFFICES ASSUME Array!SparseAssumption PROVE Array!Spec => []Array!DenseIsRank
  OBVIOUS
<1>1. SparseInv => Array!DenseIsRank
  <2> SUFFICES ASSUME SparseInv PROVE Array!DenseIsRank
    OBVIOUS
  <2>1. members \in SUBSET Array!Indices
    BY DEF SparseInv
  <2>2. ASSUME NEW x \in Array!Indices
        PROVE  (Array!Get(x).valid <=> x \in members) /\ (x \in members => Array!Get(x).dense = Rank(members, x))
    <3>1. Array!word(x) \in Nat /\ Array!bit(x) \in 0..WordBits - 1 /\ x = Array!word(x) * WordBits + Array!bit(x)
      BY IndexParts
    <3>2. CASE Array!word(x) \notin DOMAIN valid
      BY <3>2 DEF Array!Get, SparseInv
    <3>3. CASE Array!word(x) \in DOMAIN valid
      <4>1. /\ valid[Array!word(x)] = WordOf(members, Array!word(x))
            /\ count[Array!word(x)] = Cardinality(BeforeWord(members, Array!word(x)))
        BY <3>3 DEF SparseInv
      <4>2. Array!bit(x) \in valid[Array!word(x)] <=> x \in members
        BY <3>1, <4>1 DEF WordOf
      <4>3. Rank(members, x) = count[Array!word(x)] + Array!Below(valid[Array!word(x)], Array!bit(x))
        BY <2>1, <4>1, RankSplit
      <4> QED BY <3>3, <4>2, <4>3 DEF Array!Get
    <3> QED BY <3>2, <3>3
  <2>3. dense # <<>> => dense[2] = Rank(members, dense[1])
    BY DEF SparseInv
  <2> QED BY <2>2, <2>3, EltsCount, SameCardinality DEF Array!DenseIsRank, Rank
<1> QED
  BY <1>1, SparseInvHolds, PTL

-----------------------------------------------------------------------------
(* Pool *)

CONSTANTS Types, MaxLens, MaxObjs
\* The stack of free indices is a variable of Bitmap too, which nothing here relies on
VARIABLES freeBitmap, poolLen, types, data, held
Objects == INSTANCE Pool WITH maxLen <- poolLen

Used == DOMAIN types

\* The bitmap has the indices on the stack, which are different
FreeInv ==
  /\ freeIndices \in Seq(Used)
  /\ freeBitmap = {freeIndices[k] : k \in 1..Len(freeIndices)}
  /\ \A j, k \in 1..Len(freeIndices) : j # k => freeIndices[j] # freeIndices[k]

\* The objects have the indices below their number; those that are not free are held
PoolInv ==
  /\ \E n \in Nat : DOMAIN types = 0..n - 1
  /\ types = [i \in Used |-> types[i]] /\ data = [i \in Used |-> data[i]]
  /\ FreeInv
  /\ held = [i \in Used \ freeBitmap |-> [type |-> types[i], data |-> data[i]]]
  /\ \A i \in freeBitmap : data[i] = "poison"

LEMMA LenExact ==
  ASSUME NEW n \in Nat, DOMAIN types = 0..n - 1
  PROVE  Objects!len = n
<1>1. CASE n = 0
  BY <1>1 DEF Objects!len
<1>2. CASE n > 0
  <2> DEFINE P(i) == \A j \in DOMAIN types : j <= i
             m == CHOOSE i \in DOMAIN types : P(i)
  <2>1. n - 1 \in DOMAIN types /\ P(n - 1) /\ DOMAIN types # {}
    BY <1>2
  <2>2. m \in DOMAIN types /\ P(m)
    <3> HIDE DEF P
    <3> QED BY <2>1
  <2>3. n - 1 <= m /\ m <= n - 1 /\ m \in Int
    BY <2>1, <2>2
  <2>4. Objects!len = 1 + m
    BY <2>1 DEF Objects!len
  <2> HIDE DEF m
  <2> QED BY <2>3, <2>4
<1> QED
  BY <1>1, <1>2

LEMMA FreeFacts ==
  ASSUME PoolInv
  PROVE  /\ freeIndices \in Seq(Used) /\ Len(freeIndices) \in Nat
         /\ \A k \in 1..Len(freeIndices) : freeIndices[k] \in Used /\ freeIndices[k] \in freeBitmap
         /\ \A j, k \in 1..Len(freeIndices) : freeIndices[j] = freeIndices[k] => j = k
         /\ \A x \in freeBitmap : x \in Used /\ data[x] = "poison"
<1>1. FreeInv /\ \A x \in freeBitmap : data[x] = "poison"
  BY DEF PoolInv
<1>2. freeIndices \in Seq(Used) /\ Len(freeIndices) \in Nat
  BY <1>1 DEF FreeInv
<1>3. \A k \in 1..Len(freeIndices) : freeIndices[k] \in Used
  BY <1>2
<1> QED
  BY <1>1, <1>2, <1>3 DEF FreeInv

LEMMA PoolInitKeeps ==
  ASSUME Objects!Init
  PROVE  PoolInv
<1>1. types = <<>> /\ data = <<>> /\ held = <<>> /\ freeIndices = <<>> /\ freeBitmap = {}
  BY DEF Objects!Init
<1>2. DOMAIN types = {} /\ DOMAIN data = {} /\ DOMAIN held = {} /\ 0..0 - 1 = {} /\ 0 \in Nat
  BY <1>1
<1> QED
  BY <1>1, <1>2 DEF PoolInv, FreeInv, Used

\* The last free index leaves the stack
Popped(S, s, t) ==
  /\ t \in Seq(S) /\ Len(t) = Len(s) - 1 /\ Len(s) \in Nat \ {0} /\ s[Len(s)] \in S
  /\ \A k \in 1..Len(t) : t[k] = s[k]

LEMMA Pop ==
  ASSUME NEW S, NEW s \in Seq(S), s # <<>>
  PROVE  Popped(S, s, SubSeq(s, 1, Len(s) - 1))
<1>1. Len(s) \in Nat \ {0} /\ s[Len(s)] \in S
  OBVIOUS
<1> DEFINE m == Len(s) - 1
<1>2. m \in Nat /\ m <= Len(s)
  BY <1>1
<1> HIDE DEF m
<1>3. /\ SubSeq(s, 1, m) \in Seq(S) /\ Len(SubSeq(s, 1, m)) = m
      /\ \A k \in 1..m : SubSeq(s, 1, m)[k] = s[k]
  BY <1>2
<1> DEFINE t == SubSeq(s, 1, m)
<1>4. t \in Seq(S) /\ Len(t) = m /\ \A k \in 1..m : t[k] = s[k]
  BY <1>3
<1> HIDE DEF t
<1>5. Popped(S, s, t)
  BY <1>1, <1>4 DEF Popped, m
<1> QED
  BY <1>5 DEF t, m

LEMMA Push ==
  ASSUME NEW S, NEW s \in Seq(S), NEW e \in S, NEW t, t = Append(s, e)
  PROVE  /\ t \in Seq(S) /\ Len(t) = Len(s) + 1 /\ Len(s) \in Nat /\ t[Len(t)] = e
         /\ \A k \in 1..Len(s) : t[k] = s[k]
OBVIOUS

LEMMA GetIndexKeeps ==
  ASSUME PoolInv, NEW typ \in Types, Objects!GetIndex(typ)
  PROVE  PoolInv'
<1> DEFINE i == Objects!poolIndex
<1>1. PICK n \in Nat : DOMAIN types = 0..n - 1
  BY DEF PoolInv
<1>2. /\ freeIndices' = IF freeIndices = <<>> THEN freeIndices
                        ELSE SubSeq(freeIndices, 1, Len(freeIndices) - 1)
      /\ freeBitmap' = freeBitmap \ {i}
      /\ types' = [x \in Used \cup {i} |-> IF x = i THEN typ ELSE types[x]]
      /\ data' = [x \in DOMAIN data \cup {i} |-> IF x = i THEN "zero" ELSE data[x]]
      /\ held' = [x \in DOMAIN held \cup {i} |-> IF x = i THEN [type |-> typ, data |-> "zero"] ELSE held[x]]
  BY DEF Objects!GetIndex, Objects!Extend, Used
<1>3. DOMAIN data = Used /\ DOMAIN held = Used \ freeBitmap /\ Used' = Used \cup {i}
  BY <1>2 DEF PoolInv, Used
<1>4. CASE freeIndices = <<>>
  <2>1. freeBitmap = {} /\ freeIndices' = <<>> /\ freeBitmap' = {} /\ i = n
    BY <1>1, <1>2, <1>4, LenExact DEF PoolInv, FreeInv, Objects!poolIndex
  <2>2. DOMAIN types' = 0..(n + 1) - 1 /\ n + 1 \in Nat
    BY <1>1, <1>2, <2>1 DEF Used
  <2>3. /\ types' = [x \in Used' |-> types'[x]] /\ data' = [x \in Used' |-> data'[x]]
        /\ freeIndices' \in Seq(Used')
        /\ freeBitmap' = {freeIndices'[k] : k \in 1..Len(freeIndices')}
    <3> HIDE DEF i
    <3>1. /\ types' = [x \in Used' |-> types'[x]] /\ data' = [x \in Used' |-> data'[x]]
      BY <1>2, <1>3
    <3>2. freeIndices' \in Seq(Used') /\ {freeIndices'[k] : k \in 1..Len(freeIndices')} = {}
      BY <2>1
    <3> QED BY <2>1, <3>1, <3>2
  <2>4. held' = [x \in Used' \ freeBitmap' |-> [type |-> types'[x], data |-> data'[x]]]
    <3>1. \A x \in Used : held[x] = [type |-> types[x], data |-> data[x]]
      BY <2>1 DEF PoolInv
    <3> HIDE DEF i
    <3>2. DOMAIN held \cup {i} = Used' \ freeBitmap'
      BY <1>3, <2>1
    <3>3. \A x \in DOMAIN held \cup {i} :
             (IF x = i THEN [type |-> typ, data |-> "zero"] ELSE held[x])
               = [type |-> types'[x], data |-> data'[x]]
      BY <1>2, <1>3, <3>1
    <3> QED BY <1>2, <3>2, <3>3
  <2> QED BY <2>1, <2>2, <2>3, <2>4 DEF PoolInv, FreeInv, Used
<1>5. CASE freeIndices # <<>>
  <2>1. /\ i = freeIndices[Len(freeIndices)]
        /\ freeIndices' = SubSeq(freeIndices, 1, Len(freeIndices) - 1)
    BY <1>2, <1>5 DEF Objects!poolIndex
  <2>2. freeIndices \in Seq(Used)
    BY FreeFacts
  <2> HIDE DEF i
  <2>3. /\ freeIndices' \in Seq(Used) /\ Len(freeIndices') = Len(freeIndices) - 1
        /\ Len(freeIndices) \in Nat \ {0} /\ i \in Used
        /\ \A k \in 1..Len(freeIndices') : freeIndices'[k] = freeIndices[k]
    <3> DEFINE t == freeIndices'
    <3>1. Popped(Used, freeIndices, SubSeq(freeIndices, 1, Len(freeIndices) - 1))
      BY <1>5, <2>2, Pop, Zenon
    <3>2. Popped(Used, freeIndices, t)
      BY <2>1, <3>1, Zenon
    <3> HIDE DEF t
    <3>3. /\ t \in Seq(Used) /\ Len(t) = Len(freeIndices) - 1
          /\ Len(freeIndices) \in Nat \ {0} /\ freeIndices[Len(freeIndices)] \in Used
          /\ \A k \in 1..Len(t) : t[k] = freeIndices[k]
      BY <3>2 DEF Popped
    <3> QED BY <2>1, <3>3 DEF t
  <2>4. Used' = Used /\ DOMAIN types' = 0..n - 1
    BY <1>1, <1>3, <2>3 DEF Used
  <2>5. i \in freeBitmap
    BY <2>1, <2>3, FreeFacts
  <2>6. freeBitmap' = {freeIndices'[k] : k \in 1..Len(freeIndices')}
    <3>1. freeBitmap = {freeIndices[k] : k \in 1..Len(freeIndices)}
      BY DEF PoolInv, FreeInv
    <3>2. \A k \in 1..Len(freeIndices) : freeIndices[k] = i <=> k = Len(freeIndices)
      BY <2>1, <2>3, FreeFacts
    <3>3. 1..Len(freeIndices') = 1..Len(freeIndices) \ {Len(freeIndices)}
      BY <2>3
    <3>4. {freeIndices'[k] : k \in 1..Len(freeIndices')} = {freeIndices[k] : k \in 1..Len(freeIndices')}
      BY <2>3
    <3> QED BY <1>2, <3>1, <3>2, <3>3, <3>4
  <2>7. \A j, k \in 1..Len(freeIndices') : j # k => freeIndices'[j] # freeIndices'[k]
    BY <2>3, FreeFacts
  <2>8. /\ types' = [x \in Used' |-> types'[x]] /\ data' = [x \in Used' |-> data'[x]]
    BY <1>2, <1>3
  <2>9. held' = [x \in Used' \ freeBitmap' |-> [type |-> types'[x], data |-> data'[x]]]
    <3>1. \A x \in Used \ freeBitmap : held[x] = [type |-> types[x], data |-> data[x]]
      BY DEF PoolInv
    <3>2. DOMAIN held \cup {i} = Used' \ freeBitmap'
      BY <1>2, <1>3, <2>3, <2>4, <2>5
    <3>3. \A x \in DOMAIN held \cup {i} :
             (IF x = i THEN [type |-> typ, data |-> "zero"] ELSE held[x])
               = [type |-> types'[x], data |-> data'[x]]
      BY <1>2, <1>3, <3>1
    <3> QED BY <1>2, <3>2, <3>3
  <2>10. \A x \in freeBitmap' : data'[x] = "poison"
    <3> SUFFICES ASSUME NEW x \in freeBitmap' PROVE data'[x] = "poison"
      OBVIOUS
    <3>1. x \in freeBitmap /\ x # i
      BY <1>2
    <3>2. x \in Used
      BY <3>1, FreeFacts
    <3> QED BY <1>2, <1>3, <3>1, <3>2, FreeFacts
  <2> QED BY <2>3, <2>4, <2>6, <2>7, <2>8, <2>9, <2>10 DEF PoolInv, FreeInv
<1> QED
  BY <1>4, <1>5

LEMMA PutIndexKeeps ==
  ASSUME PoolInv, NEW t \in Types, NEW i \in DOMAIN types, Objects!PutIndex(t, i)
  PROVE  PoolInv'
<1>1. PICK n \in Nat : DOMAIN types = 0..n - 1
  BY DEF PoolInv
<1>2. /\ types[i] = t /\ i \notin freeBitmap /\ i \in Used
      /\ freeIndices' = Append(freeIndices, i) /\ freeBitmap' = freeBitmap \cup {i}
      /\ types' = [types EXCEPT ![i] = 0] /\ data' = [data EXCEPT ![i] = "poison"]
      /\ held' = IF i \in DOMAIN held /\ held[i].type = t THEN [x \in DOMAIN held \ {i} |-> held[x]]
                 ELSE held
  BY DEF Objects!PutIndex, Objects!PutOk, Objects!Without, Used
<1>3. /\ held = [x \in Used \ freeBitmap |-> [type |-> types[x], data |-> data[x]]]
      /\ data = [x \in Used |-> data[x]] /\ freeIndices \in Seq(Used)
  BY DEF PoolInv, FreeInv
<1>4. held' = [x \in DOMAIN held \ {i} |-> held[x]] /\ DOMAIN held = Used \ freeBitmap
  <2>1. i \in DOMAIN held /\ held[i].type = t
    BY <1>2, <1>3
  <2> QED BY <1>2, <1>3, <2>1
<1>5. DOMAIN types' = 0..n - 1 /\ Used' = Used
  BY <1>1, <1>2 DEF Used
<1>6. /\ types' = [x \in Used' |-> types'[x]] /\ data' = [x \in Used' |-> data'[x]]
  BY <1>2, <1>3, <1>5 DEF PoolInv, Used
<1>7. /\ freeIndices' \in Seq(Used) /\ Len(freeIndices') = Len(freeIndices) + 1
      /\ Len(freeIndices) \in Nat /\ freeIndices'[Len(freeIndices')] = i
      /\ \A k \in 1..Len(freeIndices) : freeIndices'[k] = freeIndices[k]
  BY <1>2, <1>3, Push
<1>8. freeBitmap = {freeIndices[k] : k \in 1..Len(freeIndices)}
  BY DEF PoolInv, FreeInv
<1>9. freeBitmap' = {freeIndices'[k] : k \in 1..Len(freeIndices')}
  <2>1. 1..Len(freeIndices') = (1..Len(freeIndices)) \cup {Len(freeIndices')}
    BY <1>7
  <2> QED BY <1>2, <1>7, <1>8, <2>1
<1>10. \A j, k \in 1..Len(freeIndices') : j # k => freeIndices'[j] # freeIndices'[k]
  <2>1. \A k \in 1..Len(freeIndices) : freeIndices[k] # i
    BY <1>2, FreeFacts
  <2>2. \A j, k \in 1..Len(freeIndices) : j # k => freeIndices[j] # freeIndices[k]
    BY FreeFacts
  <2> QED BY <1>7, <2>1, <2>2
<1>11. held' = [x \in Used' \ freeBitmap' |-> [type |-> types'[x], data |-> data'[x]]]
  <2>1. DOMAIN held \ {i} = Used' \ freeBitmap'
    BY <1>2, <1>4, <1>5
  <2>2. \A x \in DOMAIN held \ {i} : held[x] = [type |-> types'[x], data |-> data'[x]]
    BY <1>2, <1>3, <1>4 DEF Used
  <2> QED BY <1>4, <2>1, <2>2
<1>12. \A x \in freeBitmap' : data'[x] = "poison"
  <2>1. \A x \in freeBitmap : x \in Used /\ data[x] = "poison"
    BY FreeFacts
  <2>2. \A x \in Used : data'[x] = IF x = i THEN "poison" ELSE data[x]
    BY <1>2, <1>3
  <2> QED BY <1>2, <2>1, <2>2
<1> QED
  BY <1>5, <1>6, <1>7, <1>9, <1>10, <1>11, <1>12 DEF PoolInv, FreeInv

LEMMA WriteKeeps ==
  ASSUME PoolInv, NEW i \in DOMAIN held, Objects!Write(i)
  PROVE  PoolInv'
<1>1. /\ data' = [data EXCEPT ![i] = "used"] /\ held' = [held EXCEPT ![i].data = "used"]
      /\ UNCHANGED <<freeIndices, freeBitmap, types>> /\ Used' = Used
  BY DEF Objects!Write, Used
<1>2. /\ held = [x \in Used \ freeBitmap |-> [type |-> types[x], data |-> data[x]]]
      /\ data = [x \in Used |-> data[x]] /\ i \in Used \ freeBitmap
  BY DEF PoolInv
<1>3. /\ \A x \in Used : data'[x] = IF x = i THEN "used" ELSE data[x]
      /\ data' = [x \in Used |-> data'[x]]
  BY <1>1, <1>2
<1>4. held' = [x \in Used \ freeBitmap |-> [type |-> types[x], data |-> data'[x]]]
  <2>1. held[i] = [type |-> types[i], data |-> data[i]]
    BY <1>2
  <2>2. [held[i] EXCEPT !.data = "used"] = [type |-> types[i], data |-> "used"]
    BY <2>1
  <2>3. held' = [held EXCEPT ![i] = [type |-> types[i], data |-> "used"]]
    BY <1>1, <2>2
  <2> QED BY <1>2, <1>3, <2>3
<1>5. \A x \in freeBitmap : x \in Used /\ data[x] = "poison"
  BY FreeFacts
<1>6. FreeInv' /\ \A x \in freeBitmap' : data'[x] = "poison"
  <2>1. FreeInv'
    BY <1>1 DEF PoolInv, FreeInv
  <2>2. \A x \in freeBitmap : data'[x] = "poison"
    BY <1>2, <1>3, <1>5
  <2> QED BY <1>1, <2>1, <2>2
<1>7. (\E n \in Nat : DOMAIN types' = 0..n - 1) /\ types' = [x \in Used' |-> types'[x]]
  BY <1>1 DEF PoolInv
<1> QED
  BY <1>1, <1>3, <1>4, <1>6, <1>7 DEF PoolInv

\* The stack of free indices and the indices that callers hold are what is left of each other.
THEOREM PoolInvHolds == Objects!Spec => []PoolInv
<1>1. Objects!Init => PoolInv
  BY PoolInitKeeps
<1>2. PoolInv /\ [Objects!Next]_Objects!vars => PoolInv'
  <2> SUFFICES ASSUME PoolInv, [Objects!Next]_Objects!vars PROVE PoolInv'
    OBVIOUS
  <2>1. ASSUME NEW t \in Types, Objects!GetIndex(t) PROVE PoolInv'
    BY <2>1, GetIndexKeeps
  <2>2. ASSUME NEW t \in Types, NEW i \in DOMAIN types, Objects!PutIndex(t, i) PROVE PoolInv'
    BY <2>2, PutIndexKeeps
  <2>3. ASSUME NEW i \in DOMAIN held, Objects!Write(i) PROVE PoolInv'
    BY <2>3, WriteKeeps
  <2>4. CASE UNCHANGED Objects!vars
    <3>1. FreeInv' /\ Used' = Used
      BY <2>4 DEF PoolInv, FreeInv, Used, Objects!vars
    <3> QED BY <2>4, <3>1 DEF PoolInv, Objects!vars
  <2> QED BY <2>1, <2>2, <2>3, <2>4 DEF Objects!Next
<1> QED
  BY <1>1, <1>2, PTL DEF Objects!Spec

\* Every index of a pool is on the stack of free indices once, or held once (pool.go), also
\* when callers put an index back again or with another type.
THEOREM FreeOrHeldHolds == Objects!Spec => []Objects!FreeOrHeld
<1>1. PoolInv => Objects!FreeOrHeld
  <2> SUFFICES ASSUME PoolInv PROVE Objects!FreeOrHeld
    OBVIOUS
  <2>1. PICK n \in Nat : DOMAIN types = 0..n - 1
    BY DEF PoolInv
  <2>2. Objects!len = n
    BY <2>1, LenExact
  <2>3. /\ DOMAIN freeIndices = 1..Len(freeIndices)
        /\ \A k \in DOMAIN freeIndices : freeIndices[k] \in Used
    BY FreeFacts
  <2>4. freeBitmap \subseteq Used /\ DOMAIN held = Used \ freeBitmap /\ Used = 0..n - 1
    BY <2>1, FreeFacts DEF PoolInv, Used
  <2>5. Objects!Elements(freeIndices) = freeBitmap
    BY <2>3 DEF PoolInv, FreeInv, Objects!Elements
  <2>6. \A j, k \in DOMAIN freeIndices : j # k => freeIndices[j] # freeIndices[k]
    BY <2>3, FreeFacts
  <2>7. freeBitmap \cap DOMAIN held = {} /\ freeBitmap \cup DOMAIN held = 0..Objects!len - 1
    BY <2>2, <2>4
  <2> QED BY <2>5, <2>6, <2>7 DEF Objects!FreeOrHeld
<1> QED
  BY <1>1, PoolInvHolds, PTL

\* The type and data of an object (typed_pool.go) stay as they are while it is held.
THEOREM ObjectsKeptHolds == Objects!Spec => []Objects!ObjectsKept
<1>1. PoolInv => Objects!ObjectsKept
  BY DEF PoolInv, Used, Objects!ObjectsKept
<1> QED
  BY <1>1, PoolInvHolds, PTL

-----------------------------------------------------------------------------
\* What holds of 0 and of n + 1 when it holds of n, holds of all numbers up to m
LEMMA Induction ==
  ASSUME NEW m \in Nat, NEW T, 0 \in T, \A n \in 0..m - 1 : n \in T => n + 1 \in T
  PROVE  \A n \in 0..m : n \in T
<1> DEFINE S == (0..m) \ T
<1> SUFFICES ASSUME S # {} PROVE FALSE
  OBVIOUS
<1>1. S \subseteq Nat
  OBVIOUS
<1>2. PICK x \in S : \A y \in S : x <= y
  BY <1>1, Least
<1>3. x \in 0..m /\ x # 0
  OBVIOUS
<1>4. x - 1 \in 0..m - 1 /\ (x - 1) + 1 = x
  BY <1>3
<1>5. x - 1 \in T
  BY <1>2, <1>4
<1> QED
  BY <1>4, <1>5

-----------------------------------------------------------------------------
(* Hash: the inductive invariant *)

\* A table of c slots has the keys S, each once, in the bucket of its base index at the
\* distance that its slot says, which is no more than its bucket's maximum
IsTable(c, bases, diffs, maxs, slots, S) ==
  /\ diffs \in [0..c - 1 -> Nat] /\ maxs \in [0..(c \div perBucket(c)) - 1 -> Nat]
  /\ slots \in [0..c - 1 -> Keys \cup {NoElt}]
  /\ \A i \in 0..c - 1 : diffs[i] # 0 =>
       /\ slots[i] \in S /\ diffs[i] - 1 \in 0..perBucket(c) - 1
       /\ i = Xor(bases[slots[i]], diffs[i] - 1, perBucket(c))
       /\ diffs[i] <= maxs[bases[slots[i]] \div perBucket(c)]
  /\ \A k \in S : \E i \in 0..c - 1 : diffs[i] # 0 /\ slots[i] = k
  /\ \A i, j \in 0..c - 1 : diffs[i] # 0 /\ diffs[j] # 0 /\ slots[i] = slots[j] => i = j

IsCap(c) == c \in Nat \ {0} /\ Buckets(c)

TableInv ==
  cap # 0 => /\ IsCap(cap) /\ base \in [Keys -> 0..cap - 1]
             /\ IsTable(cap, base, bitDiffs, maxBucketBitDiffs, elts, stored)

HashInv ==
  /\ stored \subseteq Keys /\ IsFiniteSet(stored) /\ nElts = Cardinality(stored)
  /\ tried \in 0..MaxCap
  /\ cap \in Nat /\ (cap = 0 => stored = {})
  /\ TableInv

LEMMA BucketFacts ==
  ASSUME NEW c, IsCap(c), NEW b \in 0..c - 1
  PROVE  /\ perBucket(c) \in Nat \ {0} /\ b \div perBucket(c) \in 0..(c \div perBucket(c)) - 1
         /\ \A d \in 0..perBucket(c) - 1 : Xor(b, d, perBucket(c)) \in 0..c - 1
         /\ \A d, e \in 0..perBucket(c) - 1 :
              Xor(b, d, perBucket(c)) = Xor(b, e, perBucket(c)) => d = e
<1> DEFINE n == perBucket(c)
<1>1. /\ n \in Nat \ {0} /\ b \div n < c \div n /\ c \in Nat
      /\ \A d \in 0..n - 1 : /\ Xor(b, d, n) \in 0..c - 1
                             /\ \A e \in 0..n - 1 : Xor(b, d, n) = Xor(b, e, n) => d = e
  BY DEF IsCap, Buckets
<1> HIDE DEF n
<1>2. b \div n \in Nat /\ c \div n \in Nat
  BY <1>1
<1>3. b \div n \in 0..(c \div n) - 1
  BY <1>1, <1>2
<1> QED
  BY <1>1, <1>3 DEF n

\* Put a key that is not in the table into a free slot
LEMMA PutKeyKeeps ==
  ASSUME NEW c, IsCap(c), NEW bases \in [Keys -> 0..c - 1], NEW diffs, NEW maxs, NEW slots,
         NEW S \in SUBSET Keys, IsTable(c, bases, diffs, maxs, slots, S),
         NEW k \in Keys \ S, NEW d \in 0..perBucket(c) - 1,
         diffs[Xor(bases[k], d, perBucket(c))] = 0
  PROVE  IsTable(c, bases, [diffs EXCEPT ![Xor(bases[k], d, perBucket(c))] = d + 1],
                 setMax(maxs, bases[k], d, perBucket(c)),
                 [slots EXCEPT ![Xor(bases[k], d, perBucket(c))] = k], S \cup {k})
<1> DEFINE n == perBucket(c)
           I == 0..c - 1
           B == 0..(c \div n) - 1
           i == Xor(bases[k], d, n)
           q == bases[k] \div n
           ds == [diffs EXCEPT ![i] = d + 1]
           ms == [maxs EXCEPT ![q] = IF d + 1 > maxs[q] THEN d + 1 ELSE maxs[q]]
           ss == [slots EXCEPT ![i] = k]
<1>1. /\ diffs \in [I -> Nat] /\ maxs \in [B -> Nat] /\ slots \in [I -> Keys \cup {NoElt}]
      /\ \A j \in I : diffs[j] # 0 =>
           /\ slots[j] \in S /\ diffs[j] - 1 \in 0..n - 1
           /\ j = Xor(bases[slots[j]], diffs[j] - 1, n)
           /\ diffs[j] <= maxs[bases[slots[j]] \div n]
      /\ \A x \in S : \E j \in I : diffs[j] # 0 /\ slots[j] = x
      /\ \A j, l \in I : diffs[j] # 0 /\ diffs[l] # 0 /\ slots[j] = slots[l] => j = l
  BY DEF IsTable
<1>2. n \in Nat \ {0} /\ d \in Nat /\ i \in I /\ diffs[i] = 0
  BY BucketFacts
<1>3. \A x \in Keys : bases[x] \div n \in B
  BY BucketFacts
<1>4. setMax(maxs, bases[k], d, n) = ms
  BY DEF setMax
<1> HIDE DEF n, I, B, i
<1>5. q \in B
  BY <1>3
<1>6. /\ ds \in [I -> Nat] /\ ms \in [B -> Nat] /\ ss \in [I -> Keys \cup {NoElt}]
      /\ ds[i] = d + 1 /\ ss[i] = k /\ \A j \in I \ {i} : ds[j] = diffs[j] /\ ss[j] = slots[j]
      /\ ms[q] >= d + 1 /\ \A x \in B : ms[x] >= maxs[x]
  BY <1>1, <1>2, <1>5
<1> HIDE DEF ds, ms, ss
<1>7. ASSUME NEW j \in I, ds[j] # 0
      PROVE  /\ ss[j] \in S \cup {k} /\ ds[j] - 1 \in 0..n - 1
             /\ j = Xor(bases[ss[j]], ds[j] - 1, n)
             /\ ds[j] <= ms[bases[ss[j]] \div n]
  <2>1. CASE j = i
    <3>1. ds[j] = d + 1 /\ (d + 1) - 1 = d /\ ss[j] = k /\ d + 1 \in Nat
      BY <1>2, <1>6, <2>1
    <3>2. ds[j] <= ms[q]
      BY <1>2, <1>5, <1>6, <3>1
    <3>3. ds[j] - 1 = d
      BY <3>1
    <3>4. j = Xor(bases[ss[j]], ds[j] - 1, n)
      BY <2>1, <3>1, <3>3 DEF i
    <3> QED BY <3>1, <3>2, <3>3, <3>4 DEF n
  <2>2. CASE j # i
    <3>1. /\ ds[j] = diffs[j] /\ ss[j] = slots[j] /\ slots[j] \in S
          /\ diffs[j] - 1 \in 0..n - 1 /\ j = Xor(bases[slots[j]], diffs[j] - 1, n)
          /\ diffs[j] <= maxs[bases[slots[j]] \div n]
      BY <1>1, <1>6, <1>7, <2>2
    <3> DEFINE p == bases[slots[j]] \div n
    <3>2. p \in B
      BY <1>3, <3>1
    <3>3. diffs[j] <= ms[p]
      <4>1. diffs[j] \in Nat /\ maxs[p] \in Nat /\ ms[p] \in Nat /\ ms[p] >= maxs[p] /\ diffs[j] <= maxs[p]
        BY <1>1, <1>6, <3>1, <3>2
      <4> HIDE DEF p
      <4> QED BY <4>1
    <3> QED BY <3>1, <3>3
  <2> QED BY <2>1, <2>2
<1>8. ASSUME NEW x \in S \cup {k} PROVE \E j \in I : ds[j] # 0 /\ ss[j] = x
  <2>1. CASE x = k
    <3>1. ds[i] # 0 /\ ss[i] = k
      BY <1>2, <1>6
    <3> QED BY <1>2, <2>1, <3>1
  <2>2. CASE x # k
    <3>1. PICK j \in I : diffs[j] # 0 /\ slots[j] = x
      BY <1>1, <2>2
    <3>2. j # i
      BY <1>2, <3>1
    <3> QED BY <1>6, <3>1, <3>2
  <2> QED BY <2>1, <2>2
<1>9. ASSUME NEW j \in I, NEW l \in I, ds[j] # 0, ds[l] # 0, ss[j] = ss[l] PROVE j = l
  <2>1. \A m \in I \ {i} : ds[m] # 0 => ss[m] # k
    BY <1>1, <1>6
  <2>2. CASE j = i \/ l = i
    BY <1>6, <1>9, <2>1, <2>2
  <2>3. CASE j # i /\ l # i
    BY <1>1, <1>6, <1>9, <2>3
  <2> QED BY <2>2, <2>3
<1>10. IsTable(c, bases, ds, ms, ss, S \cup {k})
  BY <1>6, <1>7, <1>8, <1>9 DEF IsTable, n, I, B
<1> QED
  BY <1>4, <1>10 DEF n, i, ds, ss

\* Take a key out of the table
LEMMA TakeKeyKeeps ==
  ASSUME NEW c, IsCap(c), NEW bases \in [Keys -> 0..c - 1], NEW diffs, NEW maxs, NEW slots,
         NEW S \in SUBSET Keys, IsTable(c, bases, diffs, maxs, slots, S),
         NEW i \in 0..c - 1, diffs[i] # 0
  PROVE  IsTable(c, bases, [diffs EXCEPT ![i] = 0], maxs, [slots EXCEPT ![i] = NoElt],
                 S \ {slots[i]})
<1> DEFINE n == perBucket(c)
           I == 0..c - 1
           ds == [diffs EXCEPT ![i] = 0]
           ss == [slots EXCEPT ![i] = NoElt]
<1>1. /\ diffs \in [I -> Nat] /\ slots \in [I -> Keys \cup {NoElt}]
      /\ \A j \in I : diffs[j] # 0 => slots[j] \in S
      /\ \A x \in S : \E j \in I : diffs[j] # 0 /\ slots[j] = x
      /\ \A j, l \in I : diffs[j] # 0 /\ diffs[l] # 0 /\ slots[j] = slots[l] => j = l
  BY DEF IsTable
<1> HIDE DEF I
<1>2. /\ ds \in [I -> Nat] /\ ss \in [I -> Keys \cup {NoElt}] /\ ds[i] = 0
      /\ \A j \in I : ds[j] # 0 => j # i /\ ds[j] = diffs[j] /\ ss[j] = slots[j]
      /\ \A j \in I \ {i} : ds[j] = diffs[j] /\ ss[j] = slots[j]
  BY <1>1 DEF I
<1> HIDE DEF ds, ss
<1>3. \A j \in I : ds[j] # 0 => ss[j] \in S \ {slots[i]}
  BY <1>1, <1>2 DEF I
<1>4. \A x \in S \ {slots[i]} : \E j \in I : ds[j] # 0 /\ ss[j] = x
  BY <1>1, <1>2
<1>5. \A j, l \in I : ds[j] # 0 /\ ds[l] # 0 /\ ss[j] = ss[l] => j = l
  BY <1>1, <1>2
<1>6. \A j \in I : ds[j] # 0 =>
        /\ ds[j] - 1 \in 0..n - 1 /\ j = Xor(bases[ss[j]], ds[j] - 1, n)
        /\ ds[j] <= maxs[bases[ss[j]] \div n]
  <2>1. \A j \in I : diffs[j] # 0 =>
          /\ diffs[j] - 1 \in 0..n - 1 /\ j = Xor(bases[slots[j]], diffs[j] - 1, n)
          /\ diffs[j] <= maxs[bases[slots[j]] \div n]
    BY DEF IsTable, I
  <2> QED BY <1>2, <2>1
<1>7. maxs \in [0..(c \div n) - 1 -> Nat]
  BY DEF IsTable
<1> QED
  BY <1>2, <1>3, <1>4, <1>5, <1>6, <1>7 DEF IsTable, I, ds, ss

\* The distances that the search of key k goes through stop at the one it is stored at
LEMMA SearchOf ==
  ASSUME HashInv, cap # 0, NEW k \in Keys
  PROVE  /\ k \notin stored => searchBase(k) = {}
         /\ \A i \in 0..cap - 1 :
              bitDiffs[i] # 0 /\ elts[i] = k => searchBase(k) = {bitDiffs[i] - 1}
<1> DEFINE n == perBucket(cap)
           slot(d) == Xor(base[k], d, n)
           match(d) == bitDiffs[slot(d)] = d + 1
           hit(d) == match(d) /\ elts[slot(d)] = k
           q == maxBucketBitDiffs[base[k] \div n]
           stop(d) == hit(d) \/ (~match(d) /\ d + 1 >= q)
<1>1. searchBase(k) = {d \in 0..n - 1 : hit(d) /\ \A e \in 0..d - 1 : ~stop(e)}
  BY DEF searchBase, eltsPerBucket, bucket
<1>2. /\ IsCap(cap) /\ base \in [Keys -> 0..cap - 1]
      /\ IsTable(cap, base, bitDiffs, maxBucketBitDiffs, elts, stored)
  BY DEF HashInv, TableInv
<1>3. /\ n \in Nat \ {0} /\ \A d \in 0..n - 1 : slot(d) \in 0..cap - 1
      /\ \A d, e \in 0..n - 1 : slot(d) = slot(e) => d = e
      /\ base[k] \div n \in 0..(cap \div n) - 1
  BY <1>2, BucketFacts
<1>4. /\ bitDiffs \in [0..cap - 1 -> Nat]
      /\ maxBucketBitDiffs \in [0..(cap \div n) - 1 -> Nat]
      /\ \A i \in 0..cap - 1 : bitDiffs[i] # 0 =>
           /\ elts[i] \in stored /\ bitDiffs[i] - 1 \in 0..n - 1
           /\ i = Xor(base[elts[i]], bitDiffs[i] - 1, n)
           /\ bitDiffs[i] <= maxBucketBitDiffs[base[elts[i]] \div n]
      /\ \A i, j \in 0..cap - 1 : bitDiffs[i] # 0 /\ bitDiffs[j] # 0 /\ elts[i] = elts[j] => i = j
  BY <1>2 DEF IsTable
<1>5. \A d \in 0..n - 1 : hit(d) => /\ slot(d) \in 0..cap - 1 /\ bitDiffs[slot(d)] = d + 1
                                   /\ bitDiffs[slot(d)] # 0 /\ elts[slot(d)] = k
  BY <1>3
<1>6. ASSUME k \notin stored PROVE searchBase(k) = {}
  BY <1>1, <1>4, <1>5, <1>6
<1>7. ASSUME NEW i \in 0..cap - 1, bitDiffs[i] # 0, elts[i] = k
      PROVE  searchBase(k) = {bitDiffs[i] - 1}
  <2> DEFINE d == bitDiffs[i] - 1
  <2>1. d \in 0..n - 1 /\ i = slot(d) /\ bitDiffs[i] \in Nat /\ d + 1 = bitDiffs[i] /\ d + 1 <= q
    BY <1>4, <1>7
  <2>2. q \in Nat
    BY <1>3, <1>4
  <2>3. hit(d)
    BY <1>7, <2>1
  <2>4. ASSUME NEW e \in 0..n - 1, hit(e) PROVE e = d
    <3>1. slot(e) = i
      BY <1>4, <1>5, <1>7, <2>4
    <3> QED BY <1>3, <2>1, <3>1
  <2> HIDE DEF d
  <2>5. ASSUME NEW e \in 0..d - 1 PROVE ~stop(e)
    <3>1. e \in 0..n - 1 /\ e # d /\ ~(e + 1 >= q)
      BY <1>3, <2>1, <2>2
    <3> QED BY <2>4, <3>1
  <2> HIDE DEF hit, stop
  <2>6. searchBase(k) = {d}
    BY <1>1, <2>1, <2>3, <2>4, <2>5
  <2> QED BY <2>6 DEF d
<1> QED BY <1>6, <1>7

\* What Found and SlotOf answer
LEMMA SearchFinds ==
  ASSUME HashInv, NEW k \in Keys
  PROVE  /\ Found(k) <=> k \in stored
         /\ \A i \in 0..cap - 1 : bitDiffs[i] # 0 /\ elts[i] = k => SlotOf(k) = i
         /\ k \in stored => /\ SlotOf(k) \in 0..cap - 1 /\ bitDiffs[SlotOf(k)] # 0
                            /\ elts[SlotOf(k)] = k
<1>1. CASE cap = 0
  BY <1>1 DEF HashInv, Found
<1>2. CASE cap # 0
  <2>1. /\ IsTable(cap, base, bitDiffs, maxBucketBitDiffs, elts, stored) /\ cap \in Nat
    BY <1>2 DEF HashInv, TableInv
  <2>2. ASSUME NEW i \in 0..cap - 1, bitDiffs[i] # 0, elts[i] = k
        PROVE  SlotOf(k) = i /\ searchBase(k) # {}
    <3>1. searchBase(k) = {bitDiffs[i] - 1}
      BY <1>2, <2>2, SearchOf
    <3>2. (CHOOSE d \in searchBase(k) : TRUE) = bitDiffs[i] - 1
      BY <3>1
    <3>3. i = Xor(base[k], bitDiffs[i] - 1, perBucket(cap))
      BY <2>1, <2>2 DEF IsTable
    <3> QED BY <3>1, <3>2, <3>3 DEF SlotOf, eltsPerBucket
  <2>3. ASSUME k \in stored PROVE \E i \in 0..cap - 1 : bitDiffs[i] # 0 /\ elts[i] = k
    BY <2>1, <2>3 DEF IsTable
  <2>4. k \notin stored => searchBase(k) = {}
    BY <1>2, SearchOf
  <2>5. cap > 0
    BY <1>2, <2>1
  <2>6. Found(k) <=> k \in stored
    BY <2>2, <2>3, <2>4, <2>5 DEF Found
  <2> QED BY <2>2, <2>3, <2>6
<1> QED BY <1>1, <1>2

LEMMA HashInvGetFinds == HashInv => GetFinds
<1> SUFFICES ASSUME HashInv PROVE GetFinds
  OBVIOUS
<1>1. {k \in Keys : Found(k)} = stored
  BY SearchFinds DEF HashInv
<1>2. \A k \in stored : elts[SlotOf(k)] = k
  BY SearchFinds DEF HashInv
<1>3. ASSUME NEW i \in Slots, bitDiffs[i] # 0 PROVE i \in {SlotOf(k) : k \in stored}
  <2>1. cap # 0 /\ i \in 0..cap - 1
    BY DEF Slots, HashInv
  <2>2. elts[i] \in stored
    BY <1>3, <2>1 DEF HashInv, TableInv, IsTable
  <2>3. SlotOf(elts[i]) = i
    BY <1>3, <2>1, <2>2, SearchFinds DEF HashInv
  <2> QED BY <2>2, <2>3
<1>4. ASSUME NEW k \in stored PROVE SlotOf(k) \in Slots /\ bitDiffs[SlotOf(k)] # 0
  BY SearchFinds DEF HashInv, Slots
<1>5. {i \in Slots : bitDiffs[i] # 0} = {SlotOf(k) : k \in stored}
  BY <1>3, <1>4
<1>6. nElts = Cardinality(stored)
  BY DEF HashInv
<1> QED
  BY <1>1, <1>2, <1>5, <1>6 DEF GetFinds

-----------------------------------------------------------------------------
(* Hash: copying to a larger table *)

\* The keys in the slots up to m
Seen(m) == {elts[s] : s \in {j \in 0..m : bitDiffs[j] # 0}}

IsCopy(t, c, bases, m) ==
  /\ t \in [ok : BOOLEAN, n : Nat, diffs : [0..c - 1 -> Nat],
            maxs : [0..(c \div perBucket(c)) - 1 -> Nat], elts : [0..c - 1 -> Keys \cup {NoElt}]]
  /\ t.ok => /\ IsTable(c, bases, t.diffs, t.maxs, t.elts, Seen(m))
             /\ IsFiniteSet(Seen(m)) /\ t.n = Cardinality(Seen(m))

LEMMA NewTableIs ==
  ASSUME NEW c, IsCap(c), NEW bases
  PROVE  IsCopy(NewTable(c), c, bases, -1)
<1>1. Seen(-1) = {}
  BY DEF Seen
<1>2. Cardinality(Seen(-1)) = 0 /\ IsFiniteSet(Seen(-1))
  BY <1>1, FS_EmptySet
<1> QED
  BY <1>1, <1>2 DEF IsCopy, NewTable, IsTable

\* The keys of the old table: none twice
LEMMA SeenStep ==
  ASSUME HashInv, NEW s \in 0..cap - 1
  PROVE  /\ Seen(s - 1) \subseteq stored
         /\ bitDiffs[s] = 0 => Seen(s) = Seen(s - 1)
         /\ bitDiffs[s] # 0 => /\ Seen(s) = Seen(s - 1) \cup {elts[s]}
                               /\ elts[s] \in stored /\ elts[s] \notin Seen(s - 1)
<1>1. cap \in Nat /\ cap # 0
  BY DEF HashInv
<1>2. /\ \A i \in 0..cap - 1 : bitDiffs[i] # 0 => elts[i] \in stored
      /\ \A i, j \in 0..cap - 1 : bitDiffs[i] # 0 /\ bitDiffs[j] # 0 /\ elts[i] = elts[j] => i = j
  BY <1>1 DEF HashInv, TableInv, IsTable
<1>3. /\ 0..s = (0..s - 1) \cup {s} /\ s \notin 0..s - 1
      /\ 0..s - 1 \subseteq 0..cap - 1
  BY <1>1
<1> QED
  BY <1>2, <1>3 DEF Seen

LEMMA SeenAll ==
  ASSUME HashInv
  PROVE  Seen(cap - 1) = stored
<1>1. CASE cap = 0
  <2>1. 0..cap - 1 = {}
    BY <1>1
  <2> QED BY <1>1, <2>1 DEF HashInv, Seen
<1>2. CASE cap # 0
  <2>1. /\ \A i \in 0..cap - 1 : bitDiffs[i] # 0 => elts[i] \in stored
        /\ \A k \in stored : \E i \in 0..cap - 1 : bitDiffs[i] # 0 /\ elts[i] = k
    BY <1>2 DEF HashInv, TableInv, IsTable
  <2> QED BY <2>1 DEF Seen
<1> QED BY <1>1, <1>2

LEMMA CopyEltKeeps ==
  ASSUME HashInv, NEW c, IsCap(c), NEW bases \in [Keys -> 0..c - 1], NEW s \in 0..cap - 1,
         NEW t, IsCopy(t, c, bases, s - 1)
  PROVE  IsCopy(CopyElt(t, s, c, bases), c, bases, s)
<1> DEFINE n == perBucket(c)
           k == elts[s]
           b == bases[k]
           free == FreeDiffs(t.diffs, b, n)
           d == CHOOSE d \in free : TRUE
           i == Xor(b, d, n)
           u == [ok |-> TRUE, n |-> t.n + 1, diffs |-> [t.diffs EXCEPT ![i] = d + 1],
                 maxs |-> setMax(t.maxs, b, d, n), elts |-> [t.elts EXCEPT ![i] = k]]
           r == CopyElt(t, s, c, bases)
<1>1. r = IF ~t.ok \/ bitDiffs[s] = 0 THEN t
          ELSE IF free = {} THEN [t EXCEPT !.ok = FALSE] ELSE u
  BY DEF CopyElt
<1>2. t \in [ok : BOOLEAN, n : Nat, diffs : [0..c - 1 -> Nat],
             maxs : [0..(c \div n) - 1 -> Nat], elts : [0..c - 1 -> Keys \cup {NoElt}]]
  BY DEF IsCopy
<1>3. CASE ~t.ok
  BY <1>1, <1>2, <1>3 DEF IsCopy
<1>4. CASE t.ok /\ bitDiffs[s] = 0
  <2>1. Seen(s) = Seen(s - 1) /\ r = t
    BY <1>1, <1>4, SeenStep
  <2> QED BY <2>1 DEF IsCopy
<1>5. CASE t.ok /\ bitDiffs[s] # 0 /\ free = {}
  <2>1. r = [t EXCEPT !.ok = FALSE]
    BY <1>1, <1>5
  <2>2. r \in [ok : BOOLEAN, n : Nat, diffs : [0..c - 1 -> Nat],
               maxs : [0..(c \div n) - 1 -> Nat], elts : [0..c - 1 -> Keys \cup {NoElt}]] /\ ~r.ok
    BY <1>2, <2>1
  <2> QED BY <2>2 DEF IsCopy
<1>6. CASE t.ok /\ bitDiffs[s] # 0 /\ free # {}
  <2>1. /\ Seen(s) = Seen(s - 1) \cup {k} /\ k \in stored /\ k \notin Seen(s - 1)
        /\ Seen(s - 1) \subseteq stored /\ stored \subseteq Keys
    BY <1>6, SeenStep DEF HashInv
  <2>2. d \in free
    BY <1>6
  <2>3. d \in 0..n - 1 /\ t.diffs[i] = 0
    BY <2>2 DEF FreeDiffs
  <2>4. /\ IsTable(c, bases, t.diffs, t.maxs, t.elts, Seen(s - 1))
        /\ IsFiniteSet(Seen(s - 1)) /\ t.n = Cardinality(Seen(s - 1))
    BY <1>6 DEF IsCopy
  <2>5. IsTable(c, bases, [t.diffs EXCEPT ![i] = d + 1], setMax(t.maxs, b, d, n),
                [t.elts EXCEPT ![i] = k], Seen(s))
    <3> HIDE DEF d, free
    <3>1. Seen(s - 1) \in SUBSET Keys /\ k \in Keys \ Seen(s - 1)
      BY <2>1
    <3>2. IsTable(c, bases, [t.diffs EXCEPT ![Xor(bases[k], d, perBucket(c))] = d + 1],
                  setMax(t.maxs, bases[k], d, perBucket(c)),
                  [t.elts EXCEPT ![Xor(bases[k], d, perBucket(c))] = k], Seen(s - 1) \cup {k})
      <4> HIDE DEF k
      <4> QED BY <2>3, <2>4, <3>1, PutKeyKeeps
    <3> QED BY <2>1, <3>2
  <2>6. IsFiniteSet(Seen(s)) /\ Cardinality(Seen(s)) = t.n + 1
    <3> HIDE DEF k
    <3> QED BY <2>1, <2>4, FS_AddElement
  <2>7. r = u
    BY <1>1, <1>6
  <2>8. /\ u.ok = TRUE /\ u.n = t.n + 1 /\ u.diffs = [t.diffs EXCEPT ![i] = d + 1]
        /\ u.maxs = setMax(t.maxs, b, d, n) /\ u.elts = [t.elts EXCEPT ![i] = k]
        /\ u = [ok |-> u.ok, n |-> u.n, diffs |-> u.diffs, maxs |-> u.maxs, elts |-> u.elts]
    <3> HIDE DEF d, i, free, k, b, n
    <3> QED OBVIOUS
  <2> HIDE DEF u, r, d, free, i, k, b
  <2>9. IsTable(c, bases, u.diffs, u.maxs, u.elts, Seen(s))
    BY <2>5, <2>8
  <2>10. /\ u.ok \in BOOLEAN /\ u.n \in Nat /\ u.diffs \in [0..c - 1 -> Nat]
         /\ u.maxs \in [0..(c \div n) - 1 -> Nat] /\ u.elts \in [0..c - 1 -> Keys \cup {NoElt}]
    <3>1. t.n \in Nat
      BY <1>2
    <3>2. u.n \in Nat
      BY <2>8, <3>1
    <3>3. u.ok = TRUE
      BY <2>8
    <3>4. u.ok \in BOOLEAN
      BY <3>3, Zenon
    <3> QED BY <2>9, <3>2, <3>4 DEF IsTable
  <2>11. u \in [ok : BOOLEAN, n : Nat, diffs : [0..c - 1 -> Nat],
                maxs : [0..(c \div n) - 1 -> Nat], elts : [0..c - 1 -> Keys \cup {NoElt}]]
    BY <2>8, <2>10
  <2>12. u.n = Cardinality(Seen(s))
    BY <2>6, <2>8
  <2> QED BY <2>6, <2>7, <2>9, <2>11, <2>12 DEF IsCopy, n, r
<1> QED
  BY <1>3, <1>4, <1>5, <1>6


\* f is what the after of Copied is, up to old slot m - 1
IsRun(f, m, c, bases) ==
  f = [s \in -1..m - 1 |-> IF s = -1 THEN NewTable(c) ELSE CopyElt(f[s - 1], s, c, bases)]

\* copy, step by step: there is a function that does what after is defined to do
LEMMA CopyRuns ==
  ASSUME NEW c, NEW bases, NEW m \in Nat
  PROVE  \E f : IsRun(f, m, c, bases)
<1> DEFINE T == {l \in 0..m : \E f : IsRun(f, l, c, bases)}
<1>1. 0 \in T
  <2>1. IsRun([s \in -1..0 - 1 |-> NewTable(c)], 0, c, bases)
    <3>1. \A s \in -1..0 - 1 : s = -1
      OBVIOUS
    <3> QED BY <3>1 DEF IsRun
  <2>2. 0 \in 0..m
    OBVIOUS
  <2> QED BY <2>1, <2>2
<1>2. ASSUME NEW l \in 0..m - 1, l \in T PROVE l + 1 \in T
  <2>1. PICK f : IsRun(f, l, c, bases)
    BY <1>2
  <2> DEFINE g == [s \in -1..(l + 1) - 1 |-> IF s < l THEN f[s] ELSE CopyElt(f[s - 1], s, c, bases)]
  <2>2. ASSUME NEW s \in -1..(l + 1) - 1
        PROVE  g[s] = IF s = -1 THEN NewTable(c) ELSE CopyElt(g[s - 1], s, c, bases)
    <3>1. CASE s < l
      <4>1. s \in -1..l - 1 /\ g[s] = f[s] /\ (s # -1 => s - 1 \in -1..(l + 1) - 1 /\ s - 1 < l)
        BY <3>1
      <4>2. s # -1 => g[s - 1] = f[s - 1]
        BY <4>1
      <4>3. f[s] = IF s = -1 THEN NewTable(c) ELSE CopyElt(f[s - 1], s, c, bases)
        BY <2>1, <4>1 DEF IsRun
      <4> HIDE DEF g
      <4> QED BY <4>1, <4>2, <4>3
    <3>2. CASE ~(s < l)
      <4>1. s = l /\ s # -1 /\ s - 1 \in -1..(l + 1) - 1 /\ s - 1 < l
        BY <3>2
      <4>2. g[s] = CopyElt(f[s - 1], s, c, bases) /\ g[s - 1] = f[s - 1]
        BY <3>2, <4>1
      <4> HIDE DEF g
      <4> QED BY <4>1, <4>2
    <3> QED BY <3>1, <3>2
  <2>3. IsRun(g, l + 1, c, bases)
    <3>1. g = [s \in -1..(l + 1) - 1 |-> g[s]]
      OBVIOUS
    <3> HIDE DEF g
    <3> QED BY <2>2, <3>1 DEF IsRun
  <2>4. l + 1 \in 0..m
    OBVIOUS
  <2> HIDE DEF g
  <2> QED BY <2>3, <2>4
<1>3. m \in T
  <2> HIDE DEF T
  <2>1. \A l \in 0..m : l \in T
    BY <1>1, <1>2, Induction
  <2> QED BY <2>1
<1> QED
  BY <1>3

\* What copy leaves, if it ends well: a table with all keys of the old one
LEMMA CopiedIs ==
  ASSUME HashInv, NEW c, IsCap(c), NEW bases \in [Keys -> 0..c - 1]
  PROVE  IsCopy(Copied(c, bases), c, bases, cap - 1)
<1> DEFINE after == CHOOSE f : IsRun(f, cap, c, bases)
           T == {l \in 0..cap : IsCopy(after[l - 1], c, bases, l - 1)}
<1>1. cap \in Nat
  BY DEF HashInv
<1>2. \E f : IsRun(f, cap, c, bases)
  BY <1>1, CopyRuns
<1>3. IsRun(after, cap, c, bases)
  BY <1>2
<1>4. Copied(c, bases) = after[cap - 1]
  BY DEF Copied, IsRun
<1> HIDE DEF after
<1>5. after[-1] = NewTable(c)
  BY <1>1, <1>3 DEF IsRun
<1>6. \A s \in 0..cap - 1 : after[s] = CopyElt(after[s - 1], s, c, bases)
  BY <1>1, <1>3 DEF IsRun
<1>7. 0 \in T
  BY <1>1, <1>5, NewTableIs
<1>8. ASSUME NEW l \in 0..cap - 1, l \in T PROVE l + 1 \in T
  <2>1. IsCopy(after[l - 1], c, bases, l - 1)
    BY <1>8
  <2>2. IsCopy(after[l], c, bases, l)
    BY <1>6, <2>1, CopyEltKeeps
  <2>3. (l + 1) - 1 = l /\ l + 1 \in 0..cap
    BY <1>1
  <2> QED BY <2>2, <2>3
<1>9. cap \in T
  <2> HIDE DEF T
  <2>1. \A l \in 0..cap : l \in T
    BY <1>1, <1>7, <1>8, Induction
  <2> QED BY <1>1, <2>1
<1> QED
  BY <1>4, <1>9

-----------------------------------------------------------------------------
(* Hash: the steps *)

LEMMA HashStart ==
  ASSUME HashAssumption, HashInit
  PROVE  HashInv
<1>1. Cardinality(stored) = 0 /\ IsFiniteSet(stored)
  BY FS_EmptySet DEF HashInit
<1> QED
  BY <1>1 DEF HashInit, HashInv, TableInv, HashAssumption

LEMMA InsertKeeps ==
  ASSUME HashInv, cap # 0, NEW k \in Keys \ stored,
         NEW d \in FreeDiffs(bitDiffs, base[k], eltsPerBucket), Insert(k, d)
  PROVE  HashInv'
<1> DEFINE n == perBucket(cap)
           i == Xor(base[k], d, n)
<1>1. /\ bitDiffs' = [bitDiffs EXCEPT ![i] = d + 1]
      /\ maxBucketBitDiffs' = setMax(maxBucketBitDiffs, base[k], d, n)
      /\ elts' = [elts EXCEPT ![i] = k]
      /\ nElts' = nElts + 1 /\ stored' = stored \cup {k}
      /\ UNCHANGED <<cap, base, tried>>
  BY DEF Insert, eltsPerBucket
<1>2. /\ IsCap(cap) /\ base \in [Keys -> 0..cap - 1] /\ stored \in SUBSET Keys
      /\ IsTable(cap, base, bitDiffs, maxBucketBitDiffs, elts, stored)
  BY DEF HashInv, TableInv
<1>3. d \in 0..n - 1 /\ bitDiffs[i] = 0
  BY DEF FreeDiffs, eltsPerBucket
<1>4. IsTable(cap, base, [bitDiffs EXCEPT ![i] = d + 1],
              setMax(maxBucketBitDiffs, base[k], d, n), [elts EXCEPT ![i] = k], stored \cup {k})
  BY <1>2, <1>3, PutKeyKeeps
<1>5. (cap # 0)' /\ TableInv'
  BY <1>1, <1>2, <1>4 DEF TableInv, IsCap
<1>6. /\ IsFiniteSet(stored \cup {k}) /\ Cardinality(stored \cup {k}) = nElts + 1
      /\ stored \cup {k} \subseteq Keys
  BY <1>2, FS_AddElement DEF HashInv
<1> QED
  BY <1>1, <1>5, <1>6 DEF HashInv

LEMMA GrowKeeps ==
  ASSUME HashAssumption, BucketsFit, HashInv, Grow
  PROVE  HashInv'
<1> DEFINE c == nextCap(tried)
<1>1. PICK bases \in [Keys -> {b \in Bases : b < c}] :
        /\ c <= MaxCap /\ tried' = c /\ UNCHANGED <<stored, adding>>
        /\ IF Copied(c, bases).ok
           THEN /\ cap' = c
                /\ bitDiffs' = Copied(c, bases).diffs
                /\ maxBucketBitDiffs' = Copied(c, bases).maxs
                /\ elts' = Copied(c, bases).elts
                /\ nElts' = Copied(c, bases).n
                /\ base' = bases
           ELSE UNCHANGED <<cap, bitDiffs, maxBucketBitDiffs, elts, nElts, base>>
  BY DEF Grow
<1>2. tried \in 0..MaxCap
  BY DEF HashInv
<1>3. IsCap(c) /\ c \in 0..MaxCap
  <2>1. c \in Nat \ {0} /\ Buckets(c)
    BY <1>1, <1>2 DEF BucketsFit
  <2> HIDE DEF c
  <2> QED BY <1>1, <2>1 DEF IsCap, HashAssumption
<1> HIDE DEF c
<1>4. bases \in [Keys -> 0..c - 1]
  <2>1. \A b \in Bases : b < c => b \in 0..c - 1
    BY <1>3 DEF HashAssumption
  <2> QED BY <2>1
<1>5. CASE ~Copied(c, bases).ok
  <2>1. UNCHANGED <<cap, bitDiffs, maxBucketBitDiffs, elts, nElts, base, stored>>
    BY <1>1, <1>5
  <2> QED BY <1>1, <1>3, <2>1 DEF HashInv, TableInv, IsTable, IsCap
<1>6. CASE Copied(c, bases).ok
  <2> DEFINE t == Copied(c, bases)
  <2>1. IsCopy(t, c, bases, cap - 1) /\ Seen(cap - 1) = stored
    BY <1>3, <1>4, CopiedIs, SeenAll
  <2>2. /\ IsTable(c, bases, t.diffs, t.maxs, t.elts, stored)
        /\ IsFiniteSet(stored) /\ t.n = Cardinality(stored)
    BY <1>6, <2>1 DEF IsCopy
  <2>3. /\ cap' = c /\ bitDiffs' = t.diffs /\ maxBucketBitDiffs' = t.maxs /\ elts' = t.elts
        /\ nElts' = t.n /\ base' = bases /\ stored' = stored
    BY <1>1, <1>6
  <2> HIDE DEF t
  <2>4. TableInv'
    BY <1>3, <1>4, <2>2, <2>3 DEF TableInv, IsCap
  <2>5. cap' \in Nat /\ cap' # 0 /\ tried' \in 0..MaxCap
    BY <1>1, <1>3, <2>3 DEF IsCap
  <2> QED BY <2>2, <2>3, <2>4, <2>5 DEF HashInv
<1> QED
  BY <1>5, <1>6

LEMMA UnsetKeyKeeps ==
  ASSUME HashInv, NEW k \in Keys, Unset(k)
  PROVE  HashInv'
<1> DEFINE i == SlotOf(k)
<1>1. /\ bitDiffs' = [bitDiffs EXCEPT ![i] = 0] /\ elts' = [elts EXCEPT ![i] = NoElt]
      /\ nElts' = nElts - 1 /\ stored' = stored \ {k} /\ Found(k)
      /\ UNCHANGED <<cap, maxBucketBitDiffs, base, tried>>
  BY DEF Unset
<1>2. k \in stored /\ i \in 0..cap - 1 /\ bitDiffs[i] # 0 /\ elts[i] = k
  BY <1>1, SearchFinds
<1> HIDE DEF i
<1>3. cap # 0 /\ stored \in SUBSET Keys
  BY <1>2 DEF HashInv
<1>4. /\ IsCap(cap) /\ base \in [Keys -> 0..cap - 1]
      /\ IsTable(cap, base, bitDiffs, maxBucketBitDiffs, elts, stored)
  BY <1>3 DEF HashInv, TableInv
<1>5. IsTable(cap, base, [bitDiffs EXCEPT ![i] = 0], maxBucketBitDiffs,
              [elts EXCEPT ![i] = NoElt], stored \ {k})
  BY <1>2, <1>3, <1>4, TakeKeyKeeps
<1>6. TableInv'
  BY <1>1, <1>4, <1>5 DEF TableInv, IsCap
<1>7. IsFiniteSet(stored \ {k}) /\ Cardinality(stored \ {k}) = nElts - 1
  BY <1>2, FS_RemoveElement DEF HashInv
<1> QED
  BY <1>1, <1>3, <1>6, <1>7 DEF HashInv

LEMMA ClearKeeps ==
  ASSUME HashInv, Clear
  PROVE  HashInv'
<1>1. /\ cap # 0 /\ cap \in Nat
      /\ bitDiffs' = [i \in DOMAIN bitDiffs |-> 0]
      /\ maxBucketBitDiffs' = [b \in DOMAIN maxBucketBitDiffs |-> 0]
      /\ elts' = [i \in DOMAIN elts |-> NoElt]
      /\ nElts' = 0 /\ stored' = {} /\ UNCHANGED <<cap, base, tried>>
  BY DEF Clear, HashInv
<1>2. /\ IsCap(cap) /\ base \in [Keys -> 0..cap - 1]
      /\ IsTable(cap, base, bitDiffs, maxBucketBitDiffs, elts, stored)
  BY <1>1 DEF HashInv, TableInv
<1>3. IsTable(cap, base, bitDiffs', maxBucketBitDiffs', elts', {})
  BY <1>1, <1>2 DEF IsTable
<1>4. TableInv'
  BY <1>1, <1>2, <1>3 DEF TableInv, IsCap
<1>5. Cardinality({}) = 0 /\ IsFiniteSet({})
  BY FS_EmptySet
<1> QED
  BY <1>1, <1>4, <1>5 DEF HashInv

\* The inductive invariant of the table: every key that was set is in one slot of its bucket,
\* at the distance the slot says, and none is farther than the bucket's maximum, however
\* keys came and went and whichever copies failed when the table grew (Set, Unset, Clear,
\* grow and copy of hash.go).
THEOREM HashInvHolds == HashAssumption /\ BucketsFit => (HashSpec => []HashInv)
<1> SUFFICES ASSUME HashAssumption, BucketsFit PROVE HashSpec => []HashInv
  OBVIOUS
<1>1. HashInv /\ [HashNext]_hashVars => HashInv'
  <2> SUFFICES ASSUME HashInv, [HashNext]_hashVars PROVE HashInv'
    OBVIOUS
  <2>1. CASE Grow
    BY <2>1, GrowKeeps
  <2>2. CASE Clear
    BY <2>2, ClearKeeps
  <2>3. ASSUME NEW k \in Keys, Set(k) PROVE HashInv'
    <3>1. k \notin stored
      BY <2>3, SearchFinds DEF Set
    <3>2. ASSUME cap > 0, NEW d \in FreeDiffs(bitDiffs, base[k], eltsPerBucket), Insert(k, d)
          PROVE  HashInv'
      BY <3>1, <3>2, InsertKeeps DEF HashInv
    <3>3. CASE UNCHANGED <<cap, bitDiffs, maxBucketBitDiffs, nElts, base, elts, stored, tried>>
      BY <3>3 DEF HashInv, TableInv, IsTable, IsCap
    <3> QED BY <2>3, <3>2, <3>3 DEF Set
  <2>4. ASSUME NEW k \in Keys, Unset(k) PROVE HashInv'
    BY <2>4, UnsetKeyKeeps
  <2>5. CASE UNCHANGED hashVars
    BY <2>5 DEF hashVars, HashInv, TableInv, IsTable, IsCap
  <2> QED BY <2>1, <2>2, <2>3, <2>4, <2>5 DEF HashNext
<1> QED
  BY HashStart, <1>1, PTL DEF HashSpec

\* Get finds exactly the keys that were set and not unset, each at a slot of its own, and the
\* count is exact (hash.go), for any keys and wherever the seeds put them, while capacities
\* are those for which exclusive or permutes a bucket (BucketsFit).
THEOREM GetFindsHolds == HashAssumption /\ BucketsFit => (HashSpec => []GetFinds)
BY HashInvHolds, HashInvGetFinds, PTL

-----------------------------------------------------------------------------
(* Bitmap: the inductive invariant *)

Positions == 0..MaxWords - 1
BitIndices == 0..WordBits * MaxWords - 1
Vector == [len : 0..MaxWords, cap : Nat, words : [Positions -> SUBSET Word]]

\* The bits of S in word w
WordIn(S, w) == {k \in Word : w * WordBits + k \in S}

\* Vector v has the bits of S, and words that it may come to hold are empty
HasVec(v, S) ==
  /\ v \in Vector /\ v.len >= 1 /\ v.len <= v.cap
  /\ \A w \in Positions : v.words[w] = WordIn(S, w) /\ (w >= v.len => v.words[w] = {})

\* Vector v was used for no more than a word
SpareVec(v) == v \in Vector /\ v.len <= v.cap /\ \A w \in Positions : w # 0 => v.words[w] = {}

\* Vectors vs with the stack fr of those that are not in U
PoolFits(vs, fr, U) ==
  /\ \E c \in 0..Cardinality(Names) : DOMAIN vs = 0..c - 1
  /\ vs = [i \in DOMAIN vs |-> vs[i]]
  /\ U \subseteq DOMAIN vs
  /\ fr \in Seq(DOMAIN vs)
  /\ \A k, l \in 1..Len(fr) : fr[k] = fr[l] => k = l
  /\ {fr[k] : k \in 1..Len(fr)} = DOMAIN vs \ U
  /\ \A i \in DOMAIN vs \ U : SpareVec(vs[i])

StandsFor(vs, b, S) ==
  /\ b \in SUBSET Word
  /\ isInline(b) => b = S
  /\ isPoolIndex(b) => b = ofIndex(toIndex(b)) /\ HasVec(vs[toIndex(b)], S)

IndexOf(b) == IF isPoolIndex(b) THEN {toIndex(b)} ELSE {}
Others(n) == UNION {IndexOf(value[m]) : m \in Names \ {n}}

\* Each variable stands for the bits that were put there, with a vector of its own
BitmapInv ==
  /\ value = [n \in Names |-> value[n]]
  /\ want \in [Names -> SUBSET BitIndices]
  /\ \A n \in Names : StandsFor(bitmaps, value[n], want[n])
  /\ \A n \in Names : IndexOf(value[n]) \cap Others(n) = {}
  /\ PoolFits(bitmaps, freeIndices, UNION {IndexOf(value[n]) : n \in Names})

\* a is what may become of variable n when its bits are S
Result(n, a, S) ==
  /\ StandsFor(a.p.vecs, a.r, S)
  /\ IndexOf(a.r) \cap Others(n) = {}
  /\ PoolFits(a.p.vecs, a.p.free, IndexOf(a.r) \cup Others(n))
  /\ \A i \in Others(n) : a.p.vecs[i] = bitmaps[i]

-----------------------------------------------------------------------------
(* Bitmap: words and bits *)

LEMMA Widths ==
  ASSUME BitmapAssumption
  PROVE  /\ WordBits \in Nat \ {0, 1} /\ WordBits - 1 \in Word /\ MaxWords \in Nat \ {0}
         /\ 0 \in Positions /\ Positions \subseteq Nat /\ Word \subseteq Nat
         /\ WordBits * MaxWords \in Nat
<1>1. WordBits \in Nat \ {0, 1} /\ MaxWords \in Nat \ {0}
  BY DEF BitmapAssumption
<1> QED
  BY <1>1 DEF Word, Positions

LEMMA BitParts ==
  ASSUME BitmapAssumption, NEW x \in BitIndices
  PROVE  /\ word(x) \in Positions /\ bit(x) \in Word
         /\ x = word(x) * WordBits + bit(x) /\ x \in Nat
<1>1. WordBits \in Nat \ {0} /\ MaxWords \in Nat \ {0}
  BY Widths
<1>2. x \in Nat /\ x < WordBits * MaxWords
  BY <1>1 DEF BitIndices
<1>3. word(x) \in Nat /\ bit(x) \in 0..WordBits - 1 /\ x = WordBits * word(x) + bit(x)
  BY <1>1, <1>2, Division DEF word, bit
<1>4. word(x) < MaxWords
  <2>1. WordBits * word(x) + bit(x) < WordBits * MaxWords + 0
    BY <1>1, <1>2, <1>3
  <2>2. 0 \in 0..WordBits - 1 /\ word(x) \in Int /\ MaxWords \in Int
    BY <1>1, <1>3
  <2>3. word(x) < MaxWords \/ (word(x) = MaxWords /\ bit(x) < 0)
    BY <1>1, <1>3, <2>1, <2>2, DivisionOrder
  <2> QED BY <1>3, <2>3
<1>5. WordBits * word(x) = word(x) * WordBits
  BY <1>1, <1>3
<1> QED
  BY <1>1, <1>2, <1>3, <1>4, <1>5 DEF Positions, Word

LEMMA PartsBit ==
  ASSUME BitmapAssumption, NEW w \in Nat, NEW k \in Word
  PROVE  w * WordBits + k \in Nat /\ word(w * WordBits + k) = w /\ bit(w * WordBits + k) = k
<1> DEFINE x == w * WordBits + k
<1>1. WordBits \in Nat \ {0} /\ k \in 0..WordBits - 1
  BY Widths DEF Word
<1>2. w * WordBits = WordBits * w /\ WordBits * w \in Nat
  BY <1>1
<1>3. x \in Nat /\ x = WordBits * w + k
  BY <1>1, <1>2
<1> HIDE DEF x
<1>4. word(x) \in Nat /\ bit(x) \in 0..WordBits - 1 /\ x = WordBits * word(x) + bit(x)
  BY <1>1, <1>3, Division DEF word, bit
<1>5. word(x) = w /\ bit(x) = k
  <2>1. /\ WordBits * word(x) + bit(x) = WordBits * w + k
        /\ word(x) \in Int /\ w \in Int
    BY <1>3, <1>4
  <2> QED BY <1>1, <1>4, <2>1, DivisionUnique, Zenon
<1> QED
  BY <1>3, <1>5 DEF x

LEMMA WordInIs ==
  ASSUME BitmapAssumption, NEW S \in SUBSET BitIndices, NEW w \in Positions
  PROVE  WordIn(S, w) = {bit(y) : y \in {z \in S : word(z) = w}} /\ WordIn(S, w) \in SUBSET Word
<1>1. ASSUME NEW k \in WordIn(S, w) PROVE k \in {bit(y) : y \in {z \in S : word(z) = w}}
  <2>1. k \in Word /\ w * WordBits + k \in S /\ w \in Nat
    BY Widths DEF WordIn
  <2>2. word(w * WordBits + k) = w /\ bit(w * WordBits + k) = k
    BY <2>1, PartsBit
  <2> QED BY <2>1, <2>2
<1>2. ASSUME NEW y \in S, word(y) = w PROVE bit(y) \in WordIn(S, w)
  BY <1>2, BitParts DEF WordIn
<1> QED
  BY <1>1, <1>2 DEF WordIn

\* One bit of S is changed: one word changes
LEMMA OneBit ==
  ASSUME BitmapAssumption, NEW S \in SUBSET BitIndices, NEW x \in BitIndices, NEW w \in Positions
  PROVE  /\ w = word(x) => /\ WordIn(S \cup {x}, w) = WordIn(S, w) \cup {bit(x)}
                           /\ WordIn(S \ {x}, w) = WordIn(S, w) \ {bit(x)}
         /\ w # word(x) => WordIn(S \cup {x}, w) = WordIn(S, w) /\ WordIn(S \ {x}, w) = WordIn(S, w)
         /\ x \in S <=> bit(x) \in WordIn(S, word(x))
<1>1. ASSUME NEW k \in Word PROVE w * WordBits + k = x <=> w = word(x) /\ k = bit(x)
  <2>1. w \in Nat
    BY Widths
  <2>2. word(w * WordBits + k) = w /\ bit(w * WordBits + k) = k
    BY <2>1, PartsBit
  <2>3. x = word(x) * WordBits + bit(x)
    BY BitParts
  <2> QED BY <2>2, <2>3
<1>2. word(x) \in Positions /\ bit(x) \in Word /\ x = word(x) * WordBits + bit(x)
  BY BitParts
<1>3. \A k \in Word : k \in WordIn(S \cup {x}, w) <=> k \in WordIn(S, w) \/ (w = word(x) /\ k = bit(x))
  BY <1>1 DEF WordIn
<1>4. \A k \in Word : k \in WordIn(S \ {x}, w) <=> k \in WordIn(S, w) /\ ~(w = word(x) /\ k = bit(x))
  BY <1>1 DEF WordIn
<1>5. \A T : WordIn(T, w) \subseteq Word
  BY DEF WordIn
<1>6. x \in S <=> bit(x) \in WordIn(S, word(x))
  BY <1>2 DEF WordIn
<1>7. WordIn(S \cup {x}, w) = IF w = word(x) THEN WordIn(S, w) \cup {bit(x)} ELSE WordIn(S, w)
  BY <1>2, <1>3, <1>5
<1>8. WordIn(S \ {x}, w) = IF w = word(x) THEN WordIn(S, w) \ {bit(x)} ELSE WordIn(S, w)
  BY <1>4, <1>5
<1> QED
  BY <1>6, <1>7, <1>8

\* A set of bits below the width of a word is word 0
LEMMA InlineWord ==
  ASSUME BitmapAssumption, NEW S \in SUBSET Word, NEW w \in Positions
  PROVE  WordIn(S, w) = IF w = 0 THEN S ELSE {}
<1>1. WordBits \in Nat \ {0} /\ w \in Nat /\ \A k \in S : k \in 0..WordBits - 1
  BY Widths DEF Word
<1>2. CASE w = 0
  <2>1. \A k \in Word : 0 * WordBits + k = k
    BY Widths DEF Word
  <2> QED BY <1>2, <2>1 DEF WordIn
<1>3. CASE w # 0
  <2>1. ASSUME NEW k \in Word PROVE w * WordBits + k \notin S
    <3>1. WordBits * w >= WordBits /\ w * WordBits = WordBits * w /\ WordBits * w \in Int
      BY <1>1, <1>3, AtLeastOne
    <3>2. k >= 0 /\ k \in Int
      BY Widths DEF Word
    <3> QED BY <1>1, <3>1, <3>2
  <2> QED BY <1>3, <2>1 DEF WordIn
<1> QED
  BY <1>2, <1>3

LEMMA WordsSmall ==
  ASSUME BitmapAssumption, NEW S \in SUBSET Word
  PROVE  S \in SUBSET BitIndices
<1>1. WordBits \in Nat /\ MaxWords \in Nat \ {0} /\ WordBits * MaxWords \in Nat /\ WordBits # 0
  BY Widths
<1>2. WordBits * MaxWords >= WordBits
  BY <1>1, AtLeastOne
<1> QED
  BY <1>1, <1>2 DEF Word, BitIndices


-----------------------------------------------------------------------------
(* Bitmap: the pool *)

LEMMA SetVecFits ==
  ASSUME NEW vs, NEW fr, NEW U, PoolFits(vs, fr, U), NEW i \in U, NEW v
  PROVE  /\ PoolFits([vs EXCEPT ![i] = v], fr, U) /\ [vs EXCEPT ![i] = v][i] = v
         /\ \A j \in U : j # i => [vs EXCEPT ![i] = v][j] = vs[j]
<1> DEFINE us == [vs EXCEPT ![i] = v]
<1>1. vs = [j \in DOMAIN vs |-> vs[j]] /\ U \subseteq DOMAIN vs
  BY DEF PoolFits
<1>2. us = [j \in DOMAIN vs |-> IF j = i THEN v ELSE vs[j]]
  BY <1>1
<1>3. DOMAIN us = DOMAIN vs /\ us = [j \in DOMAIN us |-> us[j]] /\ us[i] = v
  BY <1>1, <1>2
<1>4. \A j \in DOMAIN vs : j # i => us[j] = vs[j]
  BY <1>2
<1> HIDE DEF us
<1>5. PoolFits(us, fr, U)
  BY <1>3, <1>4 DEF PoolFits
<1> QED
  BY <1>1, <1>3, <1>4, <1>5 DEF us

\* What is in use but for variable n
LEMMA OthersCount ==
  ASSUME BitmapAssumption, NEW n \in Names
  PROVE  IsFiniteSet(Others(n)) /\ Cardinality(Others(n)) <= Cardinality(Names) - 1
         /\ Cardinality(Names) \in Nat /\ Cardinality(Others(n)) \in Nat
<1> DEFINE P == {m \in Names \ {n} : isPoolIndex(value[m])}
           f == [m \in P |-> toIndex(value[m])]
<1>1. IsFiniteSet(Names) /\ Cardinality(Names) \in Nat
  BY FS_CardinalityType DEF BitmapAssumption
<1>2. IsFiniteSet(Names \ {n}) /\ Cardinality(Names \ {n}) = Cardinality(Names) - 1
  BY <1>1, FS_RemoveElement
<1>3. IsFiniteSet(P) /\ Cardinality(P) <= Cardinality(Names \ {n})
  BY <1>2, FS_Subset
<1>4. f \in Surjection(P, Others(n))
  <2>1. \A m \in P : f[m] = toIndex(value[m]) /\ IndexOf(value[m]) = {toIndex(value[m])}
    BY DEF IndexOf
  <2>2. \A m \in Names \ {n} : m \notin P => IndexOf(value[m]) = {}
    BY DEF IndexOf
  <2>3. f = [m \in P |-> f[m]]
    OBVIOUS
  <2>4. Others(n) = {f[m] : m \in P}
    <3> HIDE DEF f
    <3>1. \A m \in P : f[m] \in Others(n)
      BY <2>1 DEF Others
    <3>2. ASSUME NEW y \in Others(n) PROVE \E m \in P : f[m] = y
      <4>1. PICK m \in Names \ {n} : y \in IndexOf(value[m])
        BY DEF Others
      <4>2. m \in P
        BY <2>2, <4>1
      <4>3. y = f[m]
        BY <2>1, <4>1, <4>2
      <4> QED BY <4>2, <4>3
    <3> QED BY <3>1, <3>2
  <2> HIDE DEF f, P
  <2> QED BY <2>3, <2>4 DEF Surjection
<1>5. IsFiniteSet(Others(n)) /\ Cardinality(Others(n)) <= Cardinality(P)
  BY <1>3, <1>4, FS_Surjection
<1>6. Cardinality(Others(n)) \in Nat /\ Cardinality(P) \in Nat
  BY <1>3, <1>5, FS_CardinalityType
<1> QED
  BY <1>1, <1>2, <1>3, <1>5, <1>6

\* Index bi of pool q is new and variable n may have it
Fresh(n, bi, q) ==
  /\ bi \notin Others(n) /\ isPoolIndex(ofIndex(bi)) /\ toIndex(ofIndex(bi)) = bi
  /\ PoolFits(q.vecs, q.free, {bi} \cup Others(n)) /\ SpareVec(q.vecs[bi])
  /\ \A i \in Others(n) : q.vecs[i] = bitmaps[i]

LEMMA InlineUsers ==
  ASSUME NEW n \in Names
  PROVE  UNION {IndexOf(value[m]) : m \in Names} = IndexOf(value[n]) \cup Others(n)
BY DEF Others

LEMMA NewIndexFresh ==
  ASSUME BitmapAssumption, IndexFits, BitmapInv, NEW n \in Names, isInline(value[n])
  PROVE  Fresh(n, newIndex(Pooled), newPool(Pooled))
<1> DEFINE O == Others(n)
           q == newPool(Pooled)
           bi == newIndex(Pooled)
<1>1. PoolFits(bitmaps, freeIndices, O)
  BY InlineUsers DEF BitmapInv, IndexOf, isInline
<1>2. PICK c \in 0..Cardinality(Names) : DOMAIN bitmaps = 0..c - 1
  BY <1>1 DEF PoolFits
<1>3. /\ Cardinality(O) <= Cardinality(Names) - 1 /\ Cardinality(Names) \in Nat
      /\ c \in Nat /\ 0..c - 1 \subseteq Nat /\ bitmaps = [i \in 0..c - 1 |-> bitmaps[i]]
      /\ freeIndices \in Seq(0..c - 1) /\ O \subseteq 0..c - 1
  BY <1>1, <1>2, OthersCount DEF PoolFits
<1>4. CASE freeIndices = <<>>
  <2>1. O = 0..c - 1
    <3>1. {freeIndices[k] : k \in 1..Len(freeIndices)} = (0..c - 1) \ O
      BY <1>1, <1>2 DEF PoolFits
    <3>2. 1..Len(freeIndices) = {}
      BY <1>4
    <3> QED BY <1>3, <3>1, <3>2
  <2>2. Cardinality(0..c - 1) = c
    <3>1. 0 \in Int /\ c - 1 \in Int /\ (IF 0 > c - 1 THEN 0 ELSE c - 1 - 0 + 1) = c
      BY <1>3
    <3> QED BY <3>1, FS_Interval
  <2>3. bi = c /\ c + 1 \in 0..Cardinality(Names) /\ c \notin O
    BY <1>2, <1>3, <1>4, <2>1, <2>2 DEF newIndex, Pooled
  <2> DEFINE none == [len |-> 0, cap |-> 0, words |-> NoWords]
  <2>4. /\ q.vecs = [i \in (0..c - 1) \cup {c} |-> IF i \in 0..c - 1 THEN bitmaps[i] ELSE none]
        /\ q.free = <<>>
    BY <1>2, <1>4, <2>3 DEF newPool, Pooled
  <2>5. (0..c - 1) \cup {c} = 0..(c + 1) - 1
    BY <1>3
  <2>6. SpareVec(none)
    BY Widths DEF SpareVec, Vector, NoWords, Positions
  <2> HIDE DEF q, bi, none
  <2>7. DOMAIN q.vecs = 0..(c + 1) - 1 /\ q.vecs = [i \in DOMAIN q.vecs |-> q.vecs[i]]
    BY <2>4, <2>5
  <2>8. q.vecs[bi] = none /\ \A i \in O : q.vecs[i] = bitmaps[i]
    BY <1>3, <2>1, <2>3, <2>4
  <2>9. DOMAIN q.vecs = {bi} \cup O
    BY <2>1, <2>3, <2>5, <2>7
  <2>10. PoolFits(q.vecs, q.free, {bi} \cup O)
    <3>1. 1..Len(q.free) = {} /\ q.free \in Seq(DOMAIN q.vecs)
      BY <2>4
    <3> QED BY <2>3, <2>7, <2>9, <3>1 DEF PoolFits
  <2>11. isPoolIndex(ofIndex(bi)) /\ toIndex(ofIndex(bi)) = bi
    BY <1>3, <2>3 DEF IndexFits
  <2>12. Fresh(n, bi, q)
    BY <2>3, <2>6, <2>8, <2>10, <2>11 DEF Fresh
  <2> QED BY <2>12 DEF bi, q
<1>5. CASE freeIndices # <<>>
  <2> DEFINE fr == freeIndices
             l == Len(freeIndices)
  <2>1. /\ \A k, m \in 1..l : fr[k] = fr[m] => k = m
        /\ {fr[k] : k \in 1..l} = (0..c - 1) \ O
        /\ \A i \in (0..c - 1) \ O : SpareVec(bitmaps[i])
    BY <1>1, <1>2 DEF PoolFits
  <2>2. l \in Nat \ {0} /\ \A k \in 1..l : fr[k] \in 0..c - 1
    BY <1>3, <1>5
  <2>3. /\ q.vecs = bitmaps /\ q.free = SubSeq(fr, 1, l - 1) /\ bi = fr[l]
    BY <1>5 DEF newPool, newIndex, Pooled
  <2>4. /\ q.free \in Seq(0..c - 1) /\ Len(q.free) = l - 1
        /\ \A k \in 1..l - 1 : q.free[k] = fr[k]
    BY <1>3, <1>5, <2>2, <2>3, Lasts
  <2> HIDE DEF q, bi, l, fr
  <2>5. bi \in (0..c - 1) \ O
    BY <2>1, <2>2, <2>3
  <2>6. {q.free[k] : k \in 1..Len(q.free)} = (0..c - 1) \ ({bi} \cup O)
    <3>1. \A k \in 1..l - 1 : k \in 1..l /\ k # l /\ l \in 1..l
      BY <2>2
    <3>2. ASSUME NEW i \in (0..c - 1) \ O, i # bi PROVE \E k \in 1..l - 1 : fr[k] = i
      <4>1. PICK k \in 1..l : fr[k] = i
        BY <2>1
      <4>2. k # l
        BY <2>3, <3>2, <4>1
      <4>3. k \in 1..l - 1
        BY <2>2, <4>2
      <4> QED BY <4>1, <4>3
    <3>3. \A k \in 1..l - 1 : fr[k] \in (0..c - 1) \ O /\ fr[k] # bi
      BY <2>1, <2>3, <3>1
    <3>4. 1..Len(q.free) = 1..l - 1
      BY <2>4
    <3>5. {q.free[k] : k \in 1..Len(q.free)} = {fr[k] : k \in 1..l - 1}
      BY <2>4, <3>4
    <3> QED BY <3>2, <3>3, <3>5
  <2>7. PoolFits(q.vecs, q.free, {bi} \cup O)
    <3>1. \A k, m \in 1..Len(q.free) : q.free[k] = q.free[m] => k = m
      BY <2>1, <2>2, <2>4
    <3>2. {bi} \cup O \subseteq 0..c - 1
      BY <1>3, <2>5
    <3>3. \A i \in (0..c - 1) \ ({bi} \cup O) : SpareVec(bitmaps[i])
      BY <2>1
    <3> QED BY <1>2, <1>3, <2>3, <2>4, <2>6, <3>1, <3>2, <3>3 DEF PoolFits
  <2>8. isPoolIndex(ofIndex(bi)) /\ toIndex(ofIndex(bi)) = bi
    <3>1. bi \in 0..Cardinality(Names)
      BY <1>3, <2>5
    <3> QED BY <3>1 DEF IndexFits
  <2>9. Fresh(n, bi, q)
    BY <2>1, <2>3, <2>5, <2>7, <2>8 DEF Fresh
  <2> QED BY <2>9 DEF bi, q
<1> QED
  BY <1>4, <1>5


-----------------------------------------------------------------------------
(* Bitmap: the operations *)

\* T differs from S in word i at most
SameBut(S, T, i) == \A w \in Positions \ {i} : WordIn(T, w) = WordIn(S, w)

\* A pool index stands for the set it did, in the pool as it is now
LEMMA ResultOf ==
  ASSUME NEW n \in Names, NEW S, NEW bi, bi \notin Others(n),
         isPoolIndex(ofIndex(bi)), toIndex(ofIndex(bi)) = bi,
         NEW vs, NEW fr, PoolFits(vs, fr, {bi} \cup Others(n)), HasVec(vs[bi], S),
         \A i \in Others(n) : vs[i] = bitmaps[i],
         NEW a, a.r = ofIndex(bi), a.p.vecs = vs, a.p.free = fr
  PROVE  Result(n, a, S) /\ isPoolIndex(a.r)
<1>1. ofIndex(bi) \in SUBSET Word
  BY DEF ofIndex
<1>2. IndexOf(a.r) = {bi}
  BY DEF IndexOf
<1>3. StandsFor(vs, a.r, S)
  BY <1>1 DEF StandsFor, isInline
<1> QED
  BY <1>2, <1>3 DEF Result

LEMMA ResultVec ==
  ASSUME NEW n \in Names, NEW S, NEW m, Result(n, m, S), isPoolIndex(m.r)
  PROVE  /\ toIndex(m.r) \notin Others(n) /\ m.r = ofIndex(toIndex(m.r))
         /\ PoolFits(m.p.vecs, m.p.free, {toIndex(m.r)} \cup Others(n))
         /\ HasVec(m.p.vecs[toIndex(m.r)], S)
         /\ \A i \in Others(n) : m.p.vecs[i] = bitmaps[i]
BY DEF Result, StandsFor, IndexOf

\* The vector of a bitmap is replaced
LEMMA ResultPut ==
  ASSUME NEW n \in Names, NEW S, NEW m, Result(n, m, S), isPoolIndex(m.r),
         NEW v, NEW T, HasVec(v, T),
         NEW a, a = [r |-> m.r, p |-> SetVec(m.p, toIndex(m.r), v)]
  PROVE  Result(n, a, T) /\ isPoolIndex(a.r) /\ a.r = m.r /\ a.p.vecs[toIndex(a.r)] = v
<1> DEFINE bi == toIndex(m.r)
           us == [m.p.vecs EXCEPT ![bi] = v]
<1>1. /\ bi \notin Others(n) /\ m.r = ofIndex(bi)
      /\ PoolFits(m.p.vecs, m.p.free, {bi} \cup Others(n))
      /\ \A i \in Others(n) : m.p.vecs[i] = bitmaps[i]
  BY ResultVec
<1>2. /\ PoolFits(us, m.p.free, {bi} \cup Others(n)) /\ us[bi] = v
      /\ \A i \in {bi} \cup Others(n) : i # bi => us[i] = m.p.vecs[i]
  BY <1>1, SetVecFits
<1>3. a.r = ofIndex(bi) /\ a.p.vecs = us /\ a.p.free = m.p.free
  BY <1>1 DEF SetVec
<1> HIDE DEF bi, us
<1>4. isPoolIndex(ofIndex(bi)) /\ toIndex(ofIndex(bi)) = bi
  BY <1>1 DEF bi
<1>5. \A i \in Others(n) : us[i] = bitmaps[i]
  BY <1>1, <1>2
<1>6. Result(n, a, T) /\ isPoolIndex(a.r)
  BY <1>1, <1>2, <1>3, <1>4, <1>5, ResultOf
<1> QED
  BY <1>1, <1>2, <1>3, <1>4, <1>6

\* inMem
LEMMA InMemIs ==
  ASSUME BitmapAssumption, IndexFits, BitmapInv, NEW n \in Names
  PROVE  Result(n, inMem(value[n]), want[n]) /\ isPoolIndex(inMem(value[n]).r)
<1> DEFINE b == value[n]
           S == want[n]
<1>1. StandsFor(bitmaps, b, S) /\ S \in SUBSET BitIndices /\ IndexOf(b) \cap Others(n) = {}
  BY DEF BitmapInv
<1>2. CASE isPoolIndex(b)
  <2>1. inMem(b).r = b /\ inMem(b).p.vecs = bitmaps /\ inMem(b).p.free = freeIndices
    BY <1>2 DEF inMem, isInline, Pooled
  <2>2. PoolFits(bitmaps, freeIndices, IndexOf(b) \cup Others(n))
    BY InlineUsers DEF BitmapInv
  <2> QED BY <1>1, <1>2, <2>1, <2>2 DEF Result
<1>3. CASE isInline(b)
  <2> DEFINE bi == newIndex(Pooled)
             q == newPool(Pooled)
             v == q.vecs[bi]
             u == [len |-> 1, cap |-> IF v.cap = 0 THEN 1 ELSE v.cap, words |-> [v.words EXCEPT ![0] = b]]
             vs == [q.vecs EXCEPT ![bi] = u]
             a == inMem(b)
  <2>1. Fresh(n, bi, q)
    BY <1>3, NewIndexFresh
  <2>2. a.r = ofIndex(bi) /\ a.p.vecs = vs /\ a.p.free = q.free
    BY <1>3 DEF inMem, toMem, SetVec
  <2>3. SpareVec(v)
    BY <2>1 DEF Fresh
  <2> HIDE DEF bi, q, a
  <2>4. HasVec(u, S)
    <3>1. b = S /\ b \in SUBSET Word
      BY <1>1, <1>3 DEF StandsFor
    <3>2. /\ v.cap \in Nat /\ v.words \in [Positions -> SUBSET Word]
          /\ \A w \in Positions : w # 0 => v.words[w] = {}
      BY <2>3 DEF SpareVec, Vector
    <3>3. /\ 0 \in Positions /\ u.len = 1 /\ u.cap \in Nat /\ u.cap >= 1 /\ 1 \in 0..MaxWords
          /\ u = [len |-> u.len, cap |-> u.cap, words |-> u.words]
          /\ u.words = [w \in Positions |-> IF w = 0 THEN b ELSE {}]
      <4>1. 0 \in Positions /\ 1 \in 0..MaxWords
        BY Widths
      <4>2. u.cap \in Nat /\ u.cap >= 1 /\ u.len = 1
        BY <3>2
      <4>3. u.words = [w \in Positions |-> IF w = 0 THEN b ELSE {}]
        <5>1. u.words = [v.words EXCEPT ![0] = b]
          OBVIOUS
        <5> HIDE DEF u
        <5> QED BY <3>2, <4>1, <5>1
      <4> QED BY <4>1, <4>2, <4>3
    <3>4. \A w \in Positions : u.words[w] = WordIn(S, w)
      BY <3>1, <3>3, InlineWord
    <3>5. \A w \in Positions : w >= 1 => u.words[w] = {}
      BY <3>3
    <3>6. u.words \in [Positions -> SUBSET Word]
      BY <3>1, <3>3
    <3> HIDE DEF u
    <3>7. u \in Vector
      BY <3>3, <3>6 DEF Vector
    <3> QED BY <3>3, <3>4, <3>5, <3>7 DEF HasVec
  <2> HIDE DEF u, v
  <2>5. /\ PoolFits(vs, q.free, {bi} \cup Others(n)) /\ vs[bi] = u
        /\ \A i \in {bi} \cup Others(n) : i # bi => vs[i] = q.vecs[i]
    BY <2>1, SetVecFits DEF Fresh
  <2> HIDE DEF vs
  <2>6. \A i \in Others(n) : vs[i] = bitmaps[i]
    BY <2>1, <2>5 DEF Fresh
  <2>7. Result(n, a, S) /\ isPoolIndex(a.r)
    BY <2>1, <2>2, <2>4, <2>5, <2>6, ResultOf DEF Fresh
  <2> QED BY <2>7 DEF a
<1> QED
  BY <1>2, <1>3 DEF isInline

\* ValidateWord and the change of a word
LEMMA ChangeIs ==
  ASSUME BitmapAssumption, NEW n \in Names, NEW S \in SUBSET BitIndices, NEW m,
         Result(n, m, S), isPoolIndex(m.r),
         NEW i \in Positions, NEW T \in SUBSET BitIndices, SameBut(S, T, i)
  PROVE  /\ wordAt(m, i) = WordIn(S, i)
         /\ Result(n, Change(m, i, WordIn(T, i)), T) /\ isPoolIndex(Change(m, i, WordIn(T, i)).r)
<1> DEFINE v == m.p.vecs[toIndex(m.r)]
           g == ValidateWord(v, i)
           u == [len |-> g.len, cap |-> g.cap, words |-> [g.words EXCEPT ![i] = WordIn(T, i)]]
<1>1. HasVec(v, S)
  BY ResultVec
<1>2. /\ v.len \in 0..MaxWords /\ v.cap \in Nat /\ v.words \in [Positions -> SUBSET Word]
      /\ v.len >= 1 /\ v.len <= v.cap
      /\ \A w \in Positions : v.words[w] = WordIn(S, w) /\ (w >= v.len => v.words[w] = {})
  BY <1>1 DEF HasVec, Vector
<1>3. i \in Nat /\ i + 1 \in 1..MaxWords /\ MaxWords \in Nat
  BY Widths DEF Positions
<1> HIDE DEF v
<1>4. g.words = v.words
  <2>1. CASE i + 1 <= v.cap
    BY <2>1 DEF ValidateWord
  <2>2. CASE ~(i + 1 <= v.cap)
    <3>1. g.words = [w \in Positions |-> IF w < v.len THEN v.words[w] ELSE {}]
      BY <1>2, <2>2 DEF ValidateWord
    <3>2. \A w \in Positions : ~(w < v.len) => v.words[w] = {}
      BY <1>2, Widths
    <3>3. v.words = [w \in Positions |-> v.words[w]]
      BY <1>2
    <3> QED BY <3>1, <3>2, <3>3
  <2> QED BY <2>1, <2>2
<1>5. /\ g.len \in 1..MaxWords /\ g.len >= v.len /\ g.len >= i + 1
      /\ g.cap \in Nat /\ g.len <= g.cap
  <2>1. CASE i + 1 <= v.cap
    BY <1>2, <1>3, <2>1 DEF ValidateWord
  <2>2. CASE ~(i + 1 <= v.cap)
    <3>1. g.len = i + 1 /\ g.cap = NextResizeCap[i + 1]
      BY <2>2 DEF ValidateWord
    <3>2. NextResizeCap[i + 1] \in Nat /\ NextResizeCap[i + 1] >= i + 1
      BY <1>3 DEF BitmapAssumption
    <3> HIDE DEF g
    <3> QED BY <1>2, <1>3, <2>2, <3>1, <3>2
  <2> QED BY <2>1, <2>2
<1> HIDE DEF g
<1>6. HasVec(u, T)
  <2>1. u.words = [w \in Positions |-> IF w = i THEN WordIn(T, i) ELSE v.words[w]]
    BY <1>2, <1>4
  <2>2. \A w \in Positions : u.words[w] = WordIn(T, w)
    BY <1>2, <2>1 DEF SameBut
  <2>3. \A w \in Positions : w >= g.len => u.words[w] = {}
    <3>1. \A w \in Positions : w >= g.len => w # i /\ w >= v.len
      <4>1. \A w \in Positions : w \in Int
        BY Widths
      <4>2. g.len \in Int /\ v.len \in Int /\ i \in Int
        BY <1>2, <1>3, <1>5
      <4> HIDE DEF u
      <4> QED BY <1>5, <4>1, <4>2
    <3> QED BY <1>2, <2>1, <3>1
  <2>4. u.words \in [Positions -> SUBSET Word]
    BY <2>1, <2>2 DEF WordIn
  <2>5. u = [len |-> u.len, cap |-> u.cap, words |-> u.words] /\ u.len = g.len /\ u.cap = g.cap
    OBVIOUS
  <2> HIDE DEF u
  <2>6. u \in Vector
    BY <1>5, <2>4, <2>5 DEF Vector
  <2> QED BY <1>5, <2>2, <2>3, <2>5, <2>6 DEF HasVec
<1>7. Change(m, i, WordIn(T, i)) = [r |-> m.r, p |-> SetVec(m.p, toIndex(m.r), u)]
  BY DEF Change, g, v
<1>8. wordAt(m, i) = WordIn(S, i)
  BY <1>2, <1>4 DEF wordAt, g, v
<1> HIDE DEF u
<1> QED
  BY <1>6, <1>7, <1>8, ResultPut


LEMMA InlineIs ==
  ASSUME BitmapInv, NEW n \in Names, isInline(value[n]), NEW S \in SUBSET Word, isInline(S)
  PROVE  Result(n, Inline(S), S)
<1>1. PoolFits(bitmaps, freeIndices, Others(n))
  BY InlineUsers DEF BitmapInv, IndexOf, isInline
<1>2. Inline(S).r = S /\ Inline(S).p.vecs = bitmaps /\ Inline(S).p.free = freeIndices
  BY DEF Inline, Pooled
<1>3. IndexOf(S) = {}
  BY DEF IndexOf, isInline
<1> QED
  BY <1>1, <1>2, <1>3 DEF Result, StandsFor, isInline

\* What an inline bitmap and one bit of it have to do with its set
LEMMA InlineBits ==
  ASSUME BitmapAssumption, BitmapInv, NEW n \in Names, isInline(value[n])
  PROVE  /\ value[n] = want[n] /\ want[n] \in SUBSET Word
         /\ \A x \in BitIndices : /\ isInline(want[n] \ {x})
                                  /\ x < WordBits - 1 => x \in Word /\ isInline(want[n] \cup {x})
<1>1. value[n] = want[n] /\ want[n] \in SUBSET Word
  BY DEF BitmapInv, StandsFor
<1>2. WordBits - 1 \notin want[n]
  BY <1>1 DEF isInline, isPoolIndex
<1>3. ASSUME NEW x \in BitIndices, x < WordBits - 1 PROVE x \in Word /\ WordBits - 1 # x
  BY <1>3, Widths DEF Word, BitIndices
<1> QED
  BY <1>1, <1>2, <1>3 DEF isInline, isPoolIndex

\* In memory, a bit is changed in its word
LEMMA BitIs ==
  ASSUME BitmapAssumption, IndexFits, BitmapInv, NEW n \in Names, NEW x \in BitIndices,
         NEW T, T \in {want[n] \cup {x}, want[n] \ {x}}
  PROVE  LET m == inMem(value[n])
             a == Change(m, word(x), WordIn(T, word(x)))
         IN /\ Result(n, a, T) /\ isPoolIndex(a.r)
            /\ wordAt(m, word(x)) = WordIn(want[n], word(x))
            /\ T = want[n] \cup {x} => WordIn(T, word(x)) = wordAt(m, word(x)) \cup {bit(x)}
            /\ T = want[n] \ {x} => WordIn(T, word(x)) = wordAt(m, word(x)) \ {bit(x)}
<1> DEFINE S == want[n]
           m == inMem(value[n])
           i == word(x)
<1>1. Result(n, m, S) /\ isPoolIndex(m.r)
  BY InMemIs
<1>2. S \in SUBSET BitIndices /\ T \in SUBSET BitIndices /\ i \in Positions
  BY BitParts DEF BitmapInv
<1> HIDE DEF m, i, S
<1>3. T = S \cup {x} \/ T = S \ {x}
  BY DEF S
<1>4. /\ \A w \in Positions \ {i} : WordIn(S \cup {x}, w) = WordIn(S, w) /\ WordIn(S \ {x}, w) = WordIn(S, w)
      /\ WordIn(S \cup {x}, i) = WordIn(S, i) \cup {bit(x)}
      /\ WordIn(S \ {x}, i) = WordIn(S, i) \ {bit(x)}
  <2>1. ASSUME NEW w \in Positions, w # word(x)
        PROVE  WordIn(S \cup {x}, w) = WordIn(S, w) /\ WordIn(S \ {x}, w) = WordIn(S, w)
    BY <1>2, <2>1, OneBit
  <2>2. word(x) \in Positions
    BY BitParts
  <2>3. /\ WordIn(S \cup {x}, word(x)) = WordIn(S, word(x)) \cup {bit(x)}
        /\ WordIn(S \ {x}, word(x)) = WordIn(S, word(x)) \ {bit(x)}
    BY <1>2, <2>2, OneBit
  <2> QED BY <2>1, <2>3 DEF i
<1>5. SameBut(S, T, i)
  BY <1>3, <1>4 DEF SameBut
<1>6. /\ wordAt(m, i) = WordIn(S, i)
      /\ Result(n, Change(m, i, WordIn(T, i)), T) /\ isPoolIndex(Change(m, i, WordIn(T, i)).r)
  BY <1>1, <1>2, <1>5, ChangeIs
<1>7. /\ T = S \cup {x} => WordIn(T, i) = WordIn(S, i) \cup {bit(x)}
      /\ T = S \ {x} => WordIn(T, i) = WordIn(S, i) \ {bit(x)}
  BY <1>2, <1>4
<1> QED
  BY <1>6, <1>7 DEF m, i, S

LEMMA Set2Is ==
  ASSUME BitmapAssumption, IndexFits, BitmapInv, NEW n \in Names, NEW x \in BitIndices
  PROVE  Result(n, Set2(value[n], x), want[n] \cup {x})
<1>1. CASE isInline(value[n]) /\ x < WordBits - 1
  <2>1. Result(n, Inline(want[n] \cup {x}), want[n] \cup {x})
    BY <1>1, InlineBits, InlineIs
  <2>2. Set2(value[n], x) = Inline(want[n] \cup {x})
    BY <1>1, InlineBits DEF Set2
  <2> QED BY <2>1, <2>2
<1>2. CASE ~(isInline(value[n]) /\ x < WordBits - 1)
  BY <1>2, BitIs DEF Set2
<1> QED
  BY <1>1, <1>2

LEMMA Invert2Is ==
  ASSUME BitmapAssumption, IndexFits, BitmapInv, NEW n \in Names, NEW x \in BitIndices
  PROVE  Result(n, Invert2(value[n], x), (want[n] \ {x}) \cup ({x} \ want[n]))
<1> DEFINE S == want[n]
           T == IF x \in S THEN S \ {x} ELSE S \cup {x}
           m == inMem(value[n])
           i == word(x)
<1>1. (S \ {x}) \cup ({x} \ S) = T
  OBVIOUS
<1>2. CASE isInline(value[n]) /\ x < WordBits - 1
  <2>1. Result(n, Inline(T), T)
    BY <1>2, InlineBits, InlineIs
  <2>2. Invert2(value[n], x) = Inline(T)
    BY <1>2, InlineBits DEF Invert2
  <2> QED BY <1>1, <2>1, <2>2
<1>3. CASE ~(isInline(value[n]) /\ x < WordBits - 1)
  <2>1. x \in S <=> bit(x) \in WordIn(S, i)
    BY BitParts, OneBit DEF BitmapInv
  <2>2. /\ Result(n, Change(m, i, WordIn(T, i)), T)
        /\ wordAt(m, i) = WordIn(S, i)
        /\ T = S \cup {x} => WordIn(T, i) = wordAt(m, i) \cup {bit(x)}
        /\ T = S \ {x} => WordIn(T, i) = wordAt(m, i) \ {bit(x)}
    BY BitIs
  <2> HIDE DEF i, m
  <2>3. WordIn(T, i) = IF bit(x) \in wordAt(m, i) THEN wordAt(m, i) \ {bit(x)} ELSE wordAt(m, i) \cup {bit(x)}
    BY <2>1, <2>2
  <2> HIDE DEF T
  <2>4. Invert2(value[n], x) = Change(m, i, WordIn(T, i))
    BY <1>3, <2>3 DEF Invert2, m, i
  <2> QED BY <1>1, <2>2, <2>4
<1> QED
  BY <1>2, <1>3

LEMMA Unset2Is ==
  ASSUME BitmapAssumption, IndexFits, BitmapInv, NEW n \in Names, NEW x \in BitIndices
  PROVE  Result(n, Unset2(value[n], x), want[n] \ {x})
<1>1. CASE isInline(value[n])
  <2>1. Result(n, Inline(want[n] \ {x}), want[n] \ {x})
    BY <1>1, InlineBits, InlineIs
  <2>2. Unset2(value[n], x) = Inline(want[n] \ {x})
    BY <1>1, InlineBits DEF Unset2
  <2> QED BY <2>1, <2>2
<1>2. CASE ~isInline(value[n])
  BY <1>2, BitIs DEF Unset2
<1> QED
  BY <1>1, <1>2

-----------------------------------------------------------------------------
(* Bitmap: back to a word *)

LEMMA PutIndexFits ==
  ASSUME NEW vs, NEW fr, NEW U, NEW i, i \notin U, PoolFits(vs, fr, {i} \cup U), SpareVec(vs[i])
  PROVE  PoolFits(vs, Append(fr, i), U)
<1> DEFINE gr == Append(fr, i)
           l == Len(fr)
<1>1. /\ fr \in Seq(DOMAIN vs) /\ i \in DOMAIN vs /\ U \subseteq DOMAIN vs
      /\ \A k, m \in 1..l : fr[k] = fr[m] => k = m
      /\ {fr[k] : k \in 1..l} = DOMAIN vs \ ({i} \cup U)
      /\ \A j \in DOMAIN vs \ ({i} \cup U) : SpareVec(vs[j])
  BY DEF PoolFits
<1>2. /\ gr \in Seq(DOMAIN vs) /\ Len(gr) = l + 1 /\ l \in Nat /\ gr[l + 1] = i
      /\ \A k \in 1..l : gr[k] = fr[k]
  BY <1>1
<1> HIDE DEF gr, l
<1>3. \A k \in 1..l : fr[k] # i
  BY <1>1
<1>4. 1..Len(gr) = (1..l) \cup {l + 1}
  BY <1>2
<1>5. \A k, m \in 1..Len(gr) : gr[k] = gr[m] => k = m
  BY <1>1, <1>2, <1>3, <1>4
<1>6. {gr[k] : k \in 1..Len(gr)} = DOMAIN vs \ U
  <2>1. {gr[k] : k \in 1..Len(gr)} = {fr[k] : k \in 1..l} \cup {i}
    BY <1>2, <1>4
  <2> QED BY <1>1, <2>1
<1>7. \A j \in DOMAIN vs \ U : SpareVec(vs[j])
  BY <1>1
<1>8. PoolFits(vs, gr, U)
  BY <1>1, <1>2, <1>5, <1>6, <1>7 DEF PoolFits
<1> QED
  BY <1>8 DEF gr

\* Without bits in later words a set is the first word
LEMMA FirstWord ==
  ASSUME BitmapAssumption, NEW S \in SUBSET BitIndices, \A w \in Positions : w # 0 => WordIn(S, w) = {}
  PROVE  WordIn(S, 0) = S
<1>1. ASSUME NEW x \in S PROVE x \in WordIn(S, 0)
  <2>1. x \in BitIndices
    OBVIOUS
  <2>2. word(x) \in Positions /\ bit(x) \in WordIn(S, word(x))
    BY <2>1, BitParts, OneBit
  <2>3. word(x) = 0
    BY <2>2
  <2>4. x = 0 * WordBits + bit(x) /\ bit(x) \in Word
    BY <2>1, <2>3, BitParts
  <2>5. x = bit(x)
    BY <2>4, Widths
  <2> QED BY <2>4, <2>5 DEF WordIn
<1>2. ASSUME NEW k \in WordIn(S, 0) PROVE k \in S
  <2>1. k \in Word /\ 0 * WordBits + k \in S /\ k \in Nat /\ WordBits \in Nat
    BY Widths DEF WordIn
  <2> QED BY <2>1
<1> QED
  BY <1>1, <1>2

\* A bitmap's vector goes back to the pool, and the bitmap is what its first word is
LEMMA PutBackIs ==
  ASSUME BitmapAssumption, NEW n \in Names, NEW T \in SUBSET Word, isInline(T), NEW bi, bi \notin Others(n),
         NEW vs, NEW fr, PoolFits(vs, fr, {bi} \cup Others(n)), SpareVec(vs[bi]),
         \A i \in Others(n) : vs[i] = bitmaps[i],
         NEW a, a.r = T, a.p.vecs = vs, a.p.free = Append(fr, bi)
  PROVE  Result(n, a, T)
<1>1. PoolFits(vs, Append(fr, bi), Others(n))
  BY PutIndexFits
<1>2. IndexOf(T) = {}
  BY DEF IndexOf, isInline
<1> QED
  BY <1>1, <1>2 DEF Result, StandsFor, isInline


\* A set of positions has a greatest one
LEMMA MaxIs ==
  ASSUME BitmapAssumption, NEW P \in SUBSET Positions, P # {}
  PROVE  Max(P) \in P /\ \A w \in P : w <= Max(P)
<1> DEFINE T == {MaxWords - w : w \in P}
<1>1. MaxWords \in Nat /\ \A w \in P : w \in Nat /\ w < MaxWords
  BY Widths DEF Positions
<1>2. T \subseteq Nat /\ T # {}
  BY <1>1
<1>3. PICK t \in T : \A u \in T : t <= u
  BY <1>2, Least
<1>4. PICK x \in P : t = MaxWords - x
  BY <1>3
<1>5. \A w \in P : MaxWords - x <= MaxWords - w
  BY <1>3, <1>4
<1>6. \A w \in P : x >= w
  BY <1>1, <1>5
<1>7. Max(P) \in P /\ \A w \in P : Max(P) >= w
  BY <1>6 DEF Max
<1> QED
  BY <1>1, <1>7

LEMMA StripIs ==
  ASSUME BitmapAssumption, NEW n \in Names, NEW S \in SUBSET BitIndices, NEW m,
         Result(n, m, S), isPoolIndex(m.r)
  PROVE  Result(n, checkInline(Strip(m)), S)
<1> DEFINE bi == toIndex(m.r)
           v == m.p.vecs[bi]
           used == {w \in 0..v.len - 1 : v.words[w] # {}}
           l == IF used = {} THEN 0 ELSE Max(used) + 1
           u == [len |-> l, cap |-> v.cap, words |-> v.words]
           a == Strip(m)
           us == [m.p.vecs EXCEPT ![bi] = u]
<1>1. /\ bi \notin Others(n) /\ m.r = ofIndex(bi)
      /\ PoolFits(m.p.vecs, m.p.free, {bi} \cup Others(n))
      /\ HasVec(v, S) /\ \A i \in Others(n) : m.p.vecs[i] = bitmaps[i]
  BY ResultVec
<1>2. /\ v.len \in 0..MaxWords /\ v.cap \in Nat /\ v.words \in [Positions -> SUBSET Word]
      /\ v.len >= 1 /\ v.len <= v.cap
      /\ \A w \in Positions : v.words[w] = WordIn(S, w) /\ (w >= v.len => v.words[w] = {})
  BY <1>1 DEF HasVec, Vector
<1>3. a = [r |-> m.r, p |-> SetVec(m.p, bi, u)]
  BY DEF Strip
<1> HIDE DEF v, a, u, bi
<1>4. a.r = m.r /\ a.p.vecs = us /\ a.p.free = m.p.free
  BY <1>3 DEF SetVec
<1> HIDE DEF us
<1>5. /\ MaxWords \in Nat /\ 0 \in Positions /\ \A w \in Positions : w \in Nat /\ w < MaxWords
      /\ 0..v.len - 1 \subseteq Positions
  <2>1. MaxWords \in Nat /\ 0 \in Positions /\ \A w \in Positions : w \in Nat /\ w < MaxWords
    BY Widths DEF Positions
  <2>2. ASSUME NEW w \in 0..v.len - 1 PROVE w \in Positions
    <3>1. v.len \in Nat /\ v.len <= MaxWords
      BY <1>2, <2>1
    <3> QED BY <2>1, <3>1 DEF Positions
  <2> QED BY <2>1, <2>2
<1>6. l \in 0..v.len /\ \A w \in Positions : w >= l => v.words[w] = {}
  <2>1. CASE used = {}
    <3>1. \A w \in Positions : w < v.len => w \in 0..v.len - 1
      BY <1>2, <1>5
    <3> QED BY <1>2, <1>5, <2>1, <3>1
  <2>2. CASE used # {}
    <3>1. used \in SUBSET Positions
      BY <1>5
    <3> HIDE DEF used
    <3>2. Max(used) \in used /\ \A w \in used : w <= Max(used)
      BY <2>2, <3>1, MaxIs
    <3>3. Max(used) \in 0..v.len - 1 /\ l = Max(used) + 1
      BY <2>2, <3>2 DEF used
    <3>4. ASSUME NEW w \in Positions, w >= l PROVE v.words[w] = {}
      <4>1. w \notin used
        BY <1>5, <3>2, <3>3, <3>4
      <4>2. w \in 0..v.len - 1 => v.words[w] = {}
        BY <4>1 DEF used
      <4>3. w \in 0..v.len - 1 \/ w >= v.len
        BY <1>2, <1>5
      <4> QED BY <1>2, <4>2, <4>3
    <3> QED BY <1>2, <3>3, <3>4
  <2> QED BY <2>1, <2>2
<1> HIDE DEF l
<1>7. /\ u.len = l /\ u.words = v.words /\ u.cap = v.cap /\ u \in Vector /\ u.len <= u.cap
  <2>1. u = [len |-> l, cap |-> v.cap, words |-> v.words]
    BY DEF u
  <2>2. l \in 0..MaxWords /\ l <= v.cap
    BY <1>2, <1>5, <1>6
  <2> HIDE DEF l
  <2> QED BY <1>2, <2>1, <2>2 DEF Vector
<1>8. us[bi] = u /\ PoolFits(us, m.p.free, {bi} \cup Others(n)) /\ \A i \in Others(n) : us[i] = bitmaps[i]
  <2>1. /\ PoolFits(us, m.p.free, {bi} \cup Others(n)) /\ us[bi] = u
        /\ \A i \in {bi} \cup Others(n) : i # bi => us[i] = m.p.vecs[i]
    BY <1>1, SetVecFits DEF us
  <2> QED BY <1>1, <2>1
<1>9. a.p.vecs[toIndex(a.r)] = u
  BY <1>4, <1>8 DEF bi
<1>10. CASE l > 1 \/ (l = 1 /\ ~isInline(v.words[0]))
  <2>1. HasVec(u, S)
    BY <1>2, <1>6, <1>7, <1>10 DEF HasVec
  <2>2. Result(n, a, S)
    BY <1>3, <2>1, ResultPut DEF bi
  <2>3. checkInline(a) = a
    BY <1>7, <1>9, <1>10 DEF checkInline
  <2> QED BY <2>2, <2>3 DEF a
<1>11. CASE ~(l > 1 \/ (l = 1 /\ ~isInline(v.words[0])))
  <2> DEFINE T == IF l = 1 THEN v.words[0] ELSE {}
             c == checkInline(a)
  <2>1. /\ c.r = T /\ c.p.vecs = us /\ c.p.free = Append(m.p.free, bi)
    BY <1>4, <1>7, <1>9, <1>11 DEF checkInline, PutIndex, bi
  <2>2. \A w \in Positions : w # 0 => v.words[w] = {} /\ WordIn(S, w) = {}
    BY <1>2, <1>5, <1>6, <1>11
  <2>3. S = WordIn(S, 0)
    BY <2>2, FirstWord
  <2>4. T = S /\ T \in SUBSET Word /\ isInline(T)
    <3>1. l \in {0, 1}
      BY <1>2, <1>6, <1>11
    <3>2. l = 0 => v.words[0] = {}
      BY <1>5, <1>6
    <3>3. v.words[0] = S /\ v.words[0] \in SUBSET Word
      BY <1>2, <1>5, <2>3
    <3> QED BY <1>11, <3>1, <3>2, <3>3 DEF isInline, isPoolIndex
  <2>5. SpareVec(us[bi])
    BY <1>7, <1>8, <2>2 DEF SpareVec
  <2> HIDE DEF T, c
  <2>6. Result(n, c, T)
    BY <1>1, <1>8, <2>1, <2>4, <2>5, PutBackIs
  <2> QED BY <2>4, <2>6 DEF c, a
<1> QED
  BY <1>10, <1>11

LEMMA AndNotxIs ==
  ASSUME BitmapAssumption, IndexFits, BitmapInv, NEW n \in Names, NEW x \in BitIndices
  PROVE  Result(n, AndNotx(value[n], x), want[n] \ {x})
<1> DEFINE T == want[n] \ {x}
           m == Change(inMem(value[n]), word(x), wordAt(inMem(value[n]), word(x)) \ {bit(x)})
           v == m.p.vecs[toIndex(m.r)]
<1>1. CASE isInline(value[n]) /\ x < WordBits - 1
  <2>1. Result(n, Inline(T), T)
    BY <1>1, InlineBits, InlineIs
  <2>2. AndNotx(value[n], x) = Inline(T)
    BY <1>1, InlineBits DEF AndNotx
  <2> QED BY <2>1, <2>2
<1>2. CASE ~(isInline(value[n]) /\ x < WordBits - 1)
  <2>1. Result(n, m, T) /\ isPoolIndex(m.r)
    BY BitIs
  <2>2. T \in SUBSET BitIndices
    BY DEF BitmapInv
  <2>3. AndNotx(value[n], x) = IF word(x) = v.len - 1 /\ v.words[word(x)] = {} THEN checkInline(Strip(m)) ELSE m
    BY <1>2 DEF AndNotx
  <2> HIDE DEF T, m, v
  <2>4. Result(n, checkInline(Strip(m)), T)
    BY <2>1, <2>2, StripIs
  <2> QED BY <2>1, <2>3, <2>4 DEF T
<1> QED
  BY <1>1, <1>2

\* A bitmap without bits past the first word leaves nothing in its vector that a later
\* user would come upon
LEMMA FreeIs ==
  ASSUME BitmapAssumption, BitmapInv, NEW n \in Names, \A x \in want[n] : x < WordBits
  PROVE  Result(n, Free(value[n]), {})
<1> DEFINE b == value[n]
           S == want[n]
           bi == toIndex(b)
<1>1. StandsFor(bitmaps, b, S) /\ S \in SUBSET BitIndices /\ IndexOf(b) \cap Others(n) = {}
  BY DEF BitmapInv
<1>2. PoolFits(bitmaps, freeIndices, IndexOf(b) \cup Others(n))
  BY InlineUsers DEF BitmapInv
<1>3. isInline({})
  BY DEF isInline, isPoolIndex
<1>4. CASE isInline(b)
  <2>1. Free(b) = Inline({})
    BY <1>4 DEF Free, Inline, isInline
  <2> QED BY <1>3, <1>4, <2>1, InlineIs
<1>5. CASE isPoolIndex(b)
  <2>1. /\ Free(b).r = {} /\ Free(b).p.vecs = bitmaps /\ Free(b).p.free = Append(freeIndices, bi)
    BY <1>5 DEF Free, PutIndex, Pooled
  <2>2. bi \notin Others(n) /\ PoolFits(bitmaps, freeIndices, {bi} \cup Others(n)) /\ HasVec(bitmaps[bi], S)
    BY <1>1, <1>2, <1>5 DEF IndexOf, StandsFor
  <2>3. \A w \in Positions : w # 0 => WordIn(S, w) = {}
    <3>1. \A x \in S : x \in Word
      BY <1>1, Widths DEF Word, BitIndices
    <3> QED BY <3>1, InlineWord
  <2>4. SpareVec(bitmaps[bi])
    BY <2>2, <2>3 DEF HasVec, SpareVec
  <2> HIDE DEF bi
  <2> QED BY <1>3, <2>1, <2>2, <2>4, PutBackIs
<1> QED
  BY <1>4, <1>5 DEF isInline

LEMMA DupIs ==
  ASSUME BitmapAssumption, IndexFits, BitmapInv, NEW n \in Names, NEW m \in Names, value[n] = {}
  PROVE  Result(n, Dup(value[m]), want[m])
<1> DEFINE S == want[m]
           b == value[m]
<1>1. isInline(value[n])
  BY DEF isInline, isPoolIndex
<1>2. StandsFor(bitmaps, b, S) /\ S \in SUBSET BitIndices
  BY DEF BitmapInv
<1>3. CASE isInline(b)
  <2>1. Dup(b) = Inline(S) /\ S \in SUBSET Word /\ isInline(S)
    BY <1>2, <1>3 DEF Dup, StandsFor
  <2> QED BY <1>1, <2>1, InlineIs
<1>4. CASE ~isInline(b)
  <2> DEFINE bi == newIndex(Pooled)
             q == newPool(Pooled)
             s == bitmaps[toIndex(b)]
             o == q.vecs[bi]
             v == ValidateWord(o, s.len - 1)
             u == [len |-> s.len, cap |-> v.cap,
                   words |-> [w \in DOMAIN v.words |-> IF w < s.len THEN s.words[w] ELSE v.words[w]]]
             vs == [q.vecs EXCEPT ![bi] = u]
             a == Dup(b)
  <2>1. Fresh(n, bi, q)
    BY <1>1, NewIndexFresh
  <2>2. HasVec(s, S)
    BY <1>2, <1>4 DEF StandsFor, isInline
  <2>3. a.r = ofIndex(bi) /\ a.p.vecs = vs /\ a.p.free = q.free
    BY <1>4 DEF Dup, SetVec
  <2>4. SpareVec(o)
    BY <2>1 DEF Fresh
  <2> HIDE DEF bi, q, a, s, o
  <2>5. HasVec(u, S)
    <3>1. /\ o.len \in Nat /\ o.cap \in Nat /\ o.words \in [Positions -> SUBSET Word] /\ o.len <= o.cap
          /\ \A w \in Positions : w # 0 => o.words[w] = {}
      BY <2>4 DEF SpareVec, Vector
    <3>2. /\ s.len \in 1..MaxWords /\ MaxWords \in Nat /\ s.words \in [Positions -> SUBSET Word]
          /\ \A w \in Positions : s.words[w] = WordIn(S, w) /\ (w >= s.len => s.words[w] = {})
      BY <2>2, Widths DEF HasVec, Vector
    <3>3. /\ v.cap \in Nat /\ v.cap >= s.len /\ v.words \in [Positions -> SUBSET Word]
          /\ \A w \in Positions : w # 0 => v.words[w] = {}
      <4>1. (s.len - 1) + 1 = s.len
        BY <3>2
      <4>2. CASE s.len <= o.cap
        <5>1. v.cap = o.cap /\ v.words = o.words
          BY <4>1, <4>2 DEF ValidateWord
        <5> HIDE DEF v
        <5> QED BY <3>1, <4>2, <5>1
      <4>3. CASE ~(s.len <= o.cap)
        <5>1. v.cap = NextResizeCap[s.len] /\ v.words = [w \in Positions |-> IF w < o.len THEN o.words[w] ELSE {}]
          BY <3>1, <4>1, <4>3 DEF ValidateWord
        <5>2. NextResizeCap[s.len] \in Nat /\ NextResizeCap[s.len] >= s.len
          BY <3>2 DEF BitmapAssumption
        <5> HIDE DEF v
        <5> QED BY <3>1, <5>1, <5>2
      <4> QED BY <4>2, <4>3
    <3> HIDE DEF v
    <3>4. u.words = [w \in Positions |-> IF w < s.len THEN s.words[w] ELSE v.words[w]]
      BY <3>3
    <3>5. u.len = s.len /\ u.cap = v.cap /\ u = [len |-> u.len, cap |-> u.cap, words |-> u.words]
      OBVIOUS
    <3> HIDE DEF u
    <3>6. \A w \in Positions : ~(w < s.len) => w >= s.len /\ w # 0
      BY <3>2, Widths
    <3>7. \A w \in Positions : u.words[w] = s.words[w]
      BY <3>2, <3>3, <3>4, <3>6
    <3>8. u.words \in [Positions -> SUBSET Word]
      BY <3>2, <3>3, <3>4
    <3>9. u \in Vector
      BY <3>2, <3>3, <3>5, <3>8 DEF Vector
    <3> QED BY <3>2, <3>3, <3>5, <3>7, <3>9 DEF HasVec
  <2> HIDE DEF u
  <2>6. /\ PoolFits(vs, q.free, {bi} \cup Others(n)) /\ vs[bi] = u
        /\ \A i \in {bi} \cup Others(n) : i # bi => vs[i] = q.vecs[i]
    BY <2>1, SetVecFits DEF Fresh
  <2> HIDE DEF vs
  <2>7. \A i \in Others(n) : vs[i] = bitmaps[i]
    BY <2>1, <2>6 DEF Fresh
  <2>8. Result(n, a, S)
    BY <2>1, <2>3, <2>5, <2>6, <2>7, ResultOf DEF Fresh
  <2> QED BY <2>8 DEF a
<1> QED
  BY <1>3, <1>4


\* When a variable gets a bitmap that may become of it, the others keep theirs
LEMMA AssignKeeps ==
  ASSUME BitmapInv, NEW n \in Names, NEW S \in SUBSET BitIndices, NEW a,
         Result(n, a, S), Assign(n, a, S)
  PROVE  BitmapInv'
<1>1. /\ bitmaps' = a.p.vecs /\ freeIndices' = a.p.free
      /\ value' = [value EXCEPT ![n] = a.r] /\ want' = [want EXCEPT ![n] = S]
  BY DEF Assign
<1>2. /\ value = [m \in Names |-> value[m]] /\ want \in [Names -> SUBSET BitIndices]
      /\ \A m \in Names : StandsFor(bitmaps, value[m], want[m]) /\ IndexOf(value[m]) \cap Others(m) = {}
  BY DEF BitmapInv
<1>3. /\ value' = [m \in Names |-> value'[m]] /\ value'[n] = a.r
      /\ \A m \in Names : m # n => value'[m] = value[m]
  BY <1>1, <1>2
<1>4. /\ want' \in [Names -> SUBSET BitIndices] /\ want'[n] = S
      /\ \A m \in Names : m # n => want'[m] = want[m]
  BY <1>1, <1>2
<1>5. /\ StandsFor(bitmaps', a.r, S) /\ IndexOf(a.r) \cap Others(n) = {}
      /\ PoolFits(bitmaps', freeIndices', IndexOf(a.r) \cup Others(n))
      /\ \A i \in Others(n) : bitmaps'[i] = bitmaps[i]
  BY <1>1 DEF Result
<1>6. \A m \in Names : m # n => IndexOf(value[m]) \subseteq Others(n)
  BY DEF Others
<1>7. ASSUME NEW m \in Names PROVE StandsFor(bitmaps', value'[m], want'[m])
  <2>1. CASE m = n
    BY <1>3, <1>4, <1>5, <2>1
  <2>2. CASE m # n
    <3>1. StandsFor(bitmaps, value[m], want[m]) /\ value'[m] = value[m] /\ want'[m] = want[m]
      BY <1>2, <1>3, <1>4, <2>2
    <3>2. isPoolIndex(value[m]) => bitmaps'[toIndex(value[m])] = bitmaps[toIndex(value[m])]
      BY <1>5, <1>6, <2>2 DEF IndexOf
    <3> QED BY <3>1, <3>2 DEF StandsFor
  <2> QED BY <2>1, <2>2
<1>8. ASSUME NEW m \in Names PROVE IndexOf(value'[m]) \cap Others(m)' = {}
  <2>1. CASE m = n
    <3>1. Others(n)' = Others(n)
      BY <1>3 DEF Others
    <3> QED BY <1>3, <1>5, <2>1, <3>1
  <2>2. CASE m # n
    <3>1. Others(m)' \subseteq IndexOf(a.r) \cup Others(m)
      BY <1>3 DEF Others
    <3>2. IndexOf(value'[m]) \cap IndexOf(a.r) = {} /\ IndexOf(value'[m]) \cap Others(m) = {}
      BY <1>2, <1>3, <1>5, <1>6, <2>2
    <3> QED BY <3>1, <3>2
  <2> QED BY <2>1, <2>2
<1>9. UNION {IndexOf(value'[m]) : m \in Names} = IndexOf(a.r) \cup Others(n)
  BY <1>3 DEF Others
<1>10. PoolFits(bitmaps', freeIndices', UNION {IndexOf(value'[m]) : m \in Names})
  BY <1>5, <1>9
<1> QED
  BY <1>3, <1>4, <1>7, <1>8, <1>10 DEF BitmapInv

LEMMA BitmapInvInit ==
  ASSUME BitmapAssumption, BitmapInit
  PROVE  BitmapInv
<1>1. /\ bitmaps = <<>> /\ freeIndices = <<>>
      /\ value = [n \in Names |-> {}] /\ want = [n \in Names |-> {}]
  BY DEF BitmapInit
<1>2. isInline({})
  BY DEF isInline, isPoolIndex
<1>3. \A n \in Names : value[n] = {} /\ want[n] = {} /\ IndexOf(value[n]) = {}
  BY <1>1, <1>2 DEF IndexOf, isInline
<1>4. \A n \in Names : StandsFor(bitmaps, value[n], want[n])
  BY <1>2, <1>3 DEF StandsFor, isInline
<1>5. PoolFits(bitmaps, freeIndices, {})
  <2>1. DOMAIN bitmaps = 0..0 - 1 /\ DOMAIN bitmaps = {} /\ bitmaps = [i \in DOMAIN bitmaps |-> bitmaps[i]]
    BY <1>1
  <2>2. 0 \in 0..Cardinality(Names)
    BY FS_CardinalityType DEF BitmapAssumption
  <2>3. freeIndices \in Seq(DOMAIN bitmaps) /\ Len(freeIndices) = 0 /\ 1..Len(freeIndices) = {}
    BY <1>1
  <2> QED BY <2>1, <2>2, <2>3 DEF PoolFits
<1>6. UNION {IndexOf(value[n]) : n \in Names} = {}
  BY <1>3
<1> QED
  BY <1>1, <1>3, <1>4, <1>5, <1>6 DEF BitmapInv

LEMMA BitmapInvStep ==
  ASSUME BitmapAssumption, IndexFits, ~FreeLong, ~Combine, BitmapInv, BitmapNext
  PROVE  BitmapInv'
<1>1. /\ Bits \subseteq BitIndices /\ want \in [Names -> SUBSET BitIndices]
  BY DEF BitmapAssumption, BitIndices, BitmapInv
<1>2. \A n \in Names : want[n] \in SUBSET BitIndices
  BY <1>1
<1>3. ASSUME NEW n \in Names, NEW x \in Bits,
             SetBit(n, x) \/ InvertBit(n, x) \/ ClearBit(n, x) \/ UnsetBit(n, x)
      PROVE  BitmapInv'
  <2>1. x \in BitIndices /\ want[n] \in SUBSET BitIndices
    BY <1>1, <1>2
  <2>2. CASE SetBit(n, x)
    <3>1. Assign(n, Set2(value[n], x), want[n] \cup {x}) /\ want[n] \cup {x} \in SUBSET BitIndices
      BY <2>1, <2>2 DEF SetBit, Orx
    <3> QED BY <2>1, <3>1, Set2Is, AssignKeeps
  <2>3. CASE InvertBit(n, x)
    <3>1. /\ Assign(n, Invert2(value[n], x), (want[n] \ {x}) \cup ({x} \ want[n]))
          /\ (want[n] \ {x}) \cup ({x} \ want[n]) \in SUBSET BitIndices
      BY <2>1, <2>3 DEF InvertBit
    <3> QED BY <2>1, <3>1, Invert2Is, AssignKeeps
  <2>4. CASE ClearBit(n, x)
    <3>1. Assign(n, AndNotx(value[n], x), want[n] \ {x}) /\ want[n] \ {x} \in SUBSET BitIndices
      BY <2>1, <2>4 DEF ClearBit
    <3> QED BY <2>1, <3>1, AndNotxIs, AssignKeeps
  <2>5. CASE UnsetBit(n, x)
    <3>1. Assign(n, Unset2(value[n], x), want[n] \ {x}) /\ want[n] \ {x} \in SUBSET BitIndices
      BY <2>1, <2>5 DEF UnsetBit
    <3> QED BY <2>1, <3>1, Unset2Is, AssignKeeps
  <2> QED BY <1>3, <2>2, <2>3, <2>4, <2>5
<1>4. ASSUME NEW n \in Names, NEW m \in Names, OrBits(n, m) \/ AndNotBits(n, m) \/ DupBits(n, m)
      PROVE  BitmapInv'
  <2>1. want[n] \in SUBSET BitIndices /\ want[m] \in SUBSET BitIndices
    BY <1>2
  <2>2. CASE OrBits(n, m)
    <3>1. isInline(value[n]) /\ isInline(value[m]) /\ Assign(n, Inline(value[n] \cup value[m]), want[n] \cup want[m])
      BY <2>2 DEF OrBits, MayCombine, Or
    <3>2. /\ value[n] = want[n] /\ value[m] = want[m]
          /\ want[n] \in SUBSET Word /\ want[m] \in SUBSET Word
      BY <3>1, InlineBits
    <3>3. isInline(want[n] \cup want[m])
      BY <3>1, <3>2 DEF isInline, isPoolIndex
    <3>4. Result(n, Inline(want[n] \cup want[m]), want[n] \cup want[m])
      BY <3>1, <3>2, <3>3, InlineIs
    <3> QED BY <2>1, <3>1, <3>2, <3>4, AssignKeeps
  <2>3. CASE AndNotBits(n, m)
    <3>1. isInline(value[n]) /\ isInline(value[m]) /\ Assign(n, Inline(value[n] \ value[m]), want[n] \ want[m])
      BY <2>3 DEF AndNotBits, MayCombine, AndNot
    <3>2. value[n] = want[n] /\ value[m] = want[m] /\ want[n] \in SUBSET Word
      BY <3>1, InlineBits
    <3>3. isInline(want[n] \ want[m])
      BY <3>1, <3>2 DEF isInline, isPoolIndex
    <3>4. Result(n, Inline(want[n] \ want[m]), want[n] \ want[m])
      BY <3>1, <3>2, <3>3, InlineIs
    <3> QED BY <2>1, <3>1, <3>2, <3>4, AssignKeeps
  <2>4. CASE DupBits(n, m)
    <3>1. value[n] = {} /\ Assign(n, Dup(value[m]), want[m])
      BY <2>4 DEF DupBits
    <3> QED BY <2>1, <3>1, DupIs, AssignKeeps
  <2> QED BY <1>4, <2>2, <2>3, <2>4
<1>5. ASSUME NEW n \in Names, FreeBits(n) PROVE BitmapInv'
  <2>1. (\A x \in want[n] : x < WordBits) /\ Assign(n, Free(value[n]), {})
    BY <1>5 DEF FreeBits
  <2> QED BY <2>1, FreeIs, AssignKeeps
<1> QED
  BY <1>3, <1>4, <1>5 DEF BitmapNext

-----------------------------------------------------------------------------
(* Bitmap: what a bitmap holds *)

\* The words that the operations see are those of the bits
LEMMA WordsAre ==
  ASSUME BitmapAssumption, BitmapInv, NEW n \in Names
  PROVE  \E l \in 1..MaxWords :
           /\ Words(Pooled, value[n]) = [w \in 0..l - 1 |-> WordIn(want[n], w)]
           /\ \A w \in Positions : w >= l => WordIn(want[n], w) = {}
<1> DEFINE b == value[n]
           S == want[n]
<1>1. StandsFor(bitmaps, b, S) /\ MaxWords \in Nat \ {0} /\ 0 \in Positions
  BY Widths DEF BitmapInv
<1>2. CASE isInline(b)
  <2>1. b = S /\ S \in SUBSET Word
    BY <1>1, <1>2 DEF StandsFor
  <2>2. 1 \in 1..MaxWords /\ 0..1 - 1 = {0} /\ WordIn(S, 0) = S
    BY <1>1, <2>1, InlineWord
  <2>3. \A w \in Positions : w >= 1 => WordIn(S, w) = {}
    BY <2>1, InlineWord
  <2>4. Words(Pooled, b) = [w \in {0} |-> b]
    BY <1>2 DEF Words
  <2>5. Words(Pooled, b) = [w \in 0..1 - 1 |-> WordIn(S, w)]
    BY <2>1, <2>2, <2>4
  <2> QED BY <2>2, <2>3, <2>5
<1>3. CASE ~isInline(b)
  <2> DEFINE v == bitmaps[toIndex(b)]
  <2>1. HasVec(v, S)
    BY <1>1, <1>3 DEF StandsFor, isInline
  <2>2. Words(Pooled, b) = [w \in 0..v.len - 1 |-> v.words[w]]
    BY <1>3 DEF Words, Pooled
  <2> HIDE DEF v
  <2>3. /\ v.len \in 1..MaxWords
        /\ \A w \in Positions : v.words[w] = WordIn(S, w) /\ (w >= v.len => v.words[w] = {})
    BY <1>1, <2>1 DEF HasVec, Vector
  <2>4. ASSUME NEW w \in 0..v.len - 1 PROVE v.words[w] = WordIn(S, w)
    <3>1. w \in Positions
      BY <1>1, <2>3 DEF Positions
    <3> QED BY <2>3, <3>1
  <2>5. Words(Pooled, b) = [w \in 0..v.len - 1 |-> WordIn(S, w)]
    BY <2>2, <2>4
  <2> QED BY <2>3, <2>5
<1> QED
  BY <1>2, <1>3

LEMMA MembersAre ==
  ASSUME BitmapAssumption, BitmapInv, NEW n \in Names
  PROVE  Members(Pooled, value[n]) = want[n]
<1> DEFINE S == want[n]
           s == Words(Pooled, value[n])
<1>1. PICK l \in 1..MaxWords :
        /\ s = [w \in 0..l - 1 |-> WordIn(S, w)]
        /\ \A w \in Positions : w >= l => WordIn(S, w) = {}
  BY WordsAre
<1>2. S \in SUBSET BitIndices /\ MaxWords \in Nat
  BY Widths DEF BitmapInv
<1>3. Members(Pooled, value[n]) = UNION {{w * WordBits + k : k \in s[w]} : w \in DOMAIN s}
  BY DEF Members
<1> HIDE DEF s
<1>4. DOMAIN s = 0..l - 1 /\ \A w \in 0..l - 1 : s[w] = WordIn(S, w)
  BY <1>1
<1>5. ASSUME NEW x \in S PROVE x \in Members(Pooled, value[n])
  <2>9. x \in BitIndices /\ word(x) \in Positions /\ x = word(x) * WordBits + bit(x)
    BY <1>2, BitParts
  <2>1. bit(x) \in WordIn(S, word(x))
    BY <1>2, <2>9, OneBit
  <2>2. word(x) \in Nat /\ ~(word(x) >= l)
    BY <1>1, <2>9, <2>1, Widths
  <2>3. word(x) \in 0..l - 1
    BY <1>2, <2>2
  <2> QED BY <1>3, <1>4, <2>9, <2>1, <2>3
<1>6. ASSUME NEW x \in Members(Pooled, value[n]) PROVE x \in S
  <2>1. PICK w \in 0..l - 1 : x \in {w * WordBits + k : k \in WordIn(S, w)}
    BY <1>3, <1>4
  <2> QED BY <2>1 DEF WordIn
<1> QED
  BY <1>5, <1>6

LEMMA BitOrder ==
  ASSUME BitmapAssumption, NEW x \in BitIndices, NEW y \in BitIndices
  PROVE  x < y <=> word(x) < word(y) \/ (word(x) = word(y) /\ bit(x) < bit(y))
<1>1. WordBits \in Nat \ {0} /\ Positions \subseteq Nat
  BY Widths
<1>2. /\ word(x) \in Int /\ bit(x) \in 0..WordBits - 1 /\ x = word(x) * WordBits + bit(x)
      /\ word(y) \in Int /\ bit(y) \in 0..WordBits - 1 /\ y = word(y) * WordBits + bit(y)
  <2>1. /\ word(x) \in Positions /\ bit(x) \in Word /\ x = word(x) * WordBits + bit(x)
        /\ word(y) \in Positions /\ bit(y) \in Word /\ y = word(y) * WordBits + bit(y)
    BY BitParts
  <2>2. Word = 0..WordBits - 1 /\ Positions \subseteq Int
    BY <1>1 DEF Word
  <2> QED BY <2>1, <2>2, Zenon
<1>3. x = WordBits * word(x) + bit(x) /\ y = WordBits * word(y) + bit(y)
  BY <1>1, <1>2
<1>4. WordBits * word(x) + bit(x) < WordBits * word(y) + bit(y)
        <=> word(x) < word(y) \/ (word(x) = word(y) /\ bit(x) < bit(y))
  BY <1>1, <1>2, DivisionOrder
<1> QED
  BY <1>3, <1>4

LEMMA MinIs ==
  ASSUME NEW T, T \subseteq Nat, NEW x \in T, \A y \in T : x <= y
  PROVE  Min(T) = x
<1>1. Min(T) \in T /\ \A y \in T : Min(T) <= y
  BY DEF Min
<1>2. Min(T) <= x /\ x <= Min(T) /\ Min(T) \in Nat /\ x \in Nat
  BY <1>1
<1> QED
  BY <1>2

LEMMA MinOf ==
  ASSUME NEW T, T \subseteq Nat, T # {}
  PROVE  Min(T) \in T /\ \A y \in T : Min(T) <= y
<1>1. PICK x \in T : \A y \in T : x <= y
  BY Least
<1> QED
  BY <1>1, MinIs

\* The least of the bits after x in the words from that of x on
LEMMA NextBitIs ==
  ASSUME BitmapAssumption, BitmapInv, NEW n \in Names, NEW x \in {-1} \cup want[n]
  PROVE  LET above == {y \in want[n] : y > x}
         IN NextBit(Pooled, value[n], x) = IF above = {} THEN -1 ELSE Min(above)
<1> DEFINE S == want[n]
           s == Words(Pooled, value[n])
           i == IF x = -1 THEN 0 ELSE word(x)
           m == IF x = -1 THEN s[0] ELSE After(s[i], bit(x))
           rest == {w \in DOMAIN s : w > i /\ s[w] # {}}
           above == {y \in S : y > x}
           next == NextBit(Pooled, value[n], x)
<1>1. PICK l \in 1..MaxWords :
        /\ s = [w \in 0..l - 1 |-> WordIn(S, w)]
        /\ \A w \in Positions : w >= l => WordIn(S, w) = {}
  BY WordsAre
<1>2. /\ S \in SUBSET BitIndices /\ l \in Nat \ {0} /\ l <= MaxWords /\ MaxWords \in Nat
      /\ WordBits \in Nat /\ Word \subseteq Nat
  BY <1>1, Widths DEF BitmapInv
<1>3. next = IF m # {} THEN i * WordBits + Min(m)
             ELSE IF rest # {} THEN Min(rest) * WordBits + Min(s[Min(rest)]) ELSE -1
  BY DEF NextBit
<1> HIDE DEF s, next
<1>4. /\ DOMAIN s = 0..l - 1 /\ 0..l - 1 \subseteq Positions /\ 0..l - 1 \subseteq Nat
      /\ \A w \in 0..l - 1 : s[w] = WordIn(S, w)
  BY <1>1, <1>2 DEF Positions
\* the bits, word by word
<1>5. ASSUME NEW y \in S
      PROVE  /\ y \in BitIndices /\ y \in Nat /\ word(y) \in 0..l - 1 /\ bit(y) \in s[word(y)]
             /\ y = word(y) * WordBits + bit(y)
  <2>1. y \in BitIndices /\ y \in Nat /\ word(y) \in Positions /\ y = word(y) * WordBits + bit(y)
    BY <1>2, BitParts
  <2>2. bit(y) \in WordIn(S, word(y))
    BY <1>2, <2>1, OneBit
  <2>3. word(y) \in Nat /\ ~(word(y) >= l)
    BY <1>1, <2>1, <2>2, Widths
  <2>4. word(y) \in 0..l - 1
    BY <1>2, <2>3
  <2> QED BY <1>4, <2>1, <2>2, <2>4
<1>6. ASSUME NEW w \in 0..l - 1, NEW k \in s[w]
      PROVE  /\ w * WordBits + k \in S /\ word(w * WordBits + k) = w /\ bit(w * WordBits + k) = k
             /\ k \in Word /\ k \in Nat
  <2>1. k \in Word /\ w * WordBits + k \in S /\ w \in Nat
    BY <1>4 DEF WordIn
  <2> QED BY <1>2, <2>1, PartsBit
<1>7. i \in 0..l - 1
  BY <1>2, <1>5
<1>8. m = {k \in s[i] : x # -1 => k > bit(x)}
  BY DEF After
<1>9. \A y \in above : word(y) > i \/ (word(y) = i /\ bit(y) \in m)
  <2> SUFFICES ASSUME NEW y \in above PROVE word(y) > i \/ (word(y) = i /\ bit(y) \in m)
    OBVIOUS
  <2>1. y \in S /\ y > x /\ word(y) \in 0..l - 1 /\ bit(y) \in s[word(y)] /\ y \in BitIndices
    BY <1>5
  <2>2. CASE x = -1
    BY <1>2, <1>8, <2>1, <2>2
  <2>3. CASE x # -1
    <3>1. x \in S /\ x \in BitIndices /\ x \in Nat /\ y \in Nat /\ i = word(x)
      BY <1>5, <2>1, <2>3
    <3>2. x < y
      BY <2>1, <3>1
    <3>3. word(x) < word(y) \/ (word(x) = word(y) /\ bit(x) < bit(y))
      BY <2>1, <3>1, <3>2, BitOrder
    <3>4. word(y) \in Nat /\ word(x) \in Nat /\ bit(x) \in Nat /\ bit(y) \in Nat
      BY <1>2, <1>4, <2>1, <3>1, BitParts, Widths
    <3> HIDE DEF m, i
    <3>5. word(x) = word(y) /\ bit(x) < bit(y) => bit(y) \in m
      BY <1>8, <2>1, <3>1, <3>4
    <3> QED BY <3>1, <3>3, <3>4, <3>5
  <2> QED BY <2>2, <2>3
<1>10. \A w \in 0..l - 1 : \A k \in s[w] : w > i \/ (w = i /\ k \in m) => w * WordBits + k \in above
  <2> SUFFICES ASSUME NEW w \in 0..l - 1, NEW k \in s[w], w > i \/ (w = i /\ k \in m)
               PROVE  w * WordBits + k > x
    BY <1>6
  <2> DEFINE y == w * WordBits + k
  <2>1. y \in S /\ y \in BitIndices /\ y \in Nat /\ word(y) = w /\ bit(y) = k
    BY <1>5, <1>6
  <2> HIDE DEF y
  <2>2. CASE x = -1
    BY <2>1, <2>2 DEF y
  <2>3. CASE x # -1
    <3>1. x \in S /\ x \in BitIndices /\ x \in Nat /\ i = word(x)
      BY <1>5, <2>3
    <3>2. w \in Nat /\ k \in Nat /\ word(x) \in Nat /\ bit(x) \in Nat
      BY <1>2, <1>4, <1>6, <3>1, BitParts, Widths
    <3>3. word(x) < word(y) \/ (word(x) = word(y) /\ bit(x) < bit(y))
      <4> HIDE DEF m, i
      <4> QED BY <1>8, <2>1, <2>3, <3>1, <3>2
    <3>4. x < y
      BY <2>1, <3>1, <3>3, BitOrder
    <3> QED BY <3>4, <2>1, <3>1 DEF y
  <2> QED BY <2>2, <2>3
<1> HIDE DEF m, i, rest, above
<1>11. above \subseteq Nat /\ above \subseteq BitIndices /\ \A y \in above : y \in S
  BY <1>5 DEF above
\* the bit found is the least of them
<1>12. ASSUME NEW w \in 0..l - 1, NEW k \in s[w], w * WordBits + k \in above,
              \A y \in above : w < word(y) \/ (w = word(y) /\ k <= bit(y))
       PROVE  Min(above) = w * WordBits + k
  <2> DEFINE z == w * WordBits + k
  <2>1. z \in BitIndices /\ word(z) = w /\ bit(z) = k /\ z \in Nat
    BY <1>5, <1>6
  <2> HIDE DEF z
  <2>2. ASSUME NEW y \in above PROVE z <= y
    <3>1. y \in BitIndices /\ y \in Nat /\ word(y) \in Nat /\ bit(y) \in Nat /\ w \in Nat /\ k \in Nat
      BY <1>2, <1>4, <1>6, <1>11, BitParts, Widths
    <3>2. ~(y < z)
      <4>1. ~(word(y) < word(z) \/ (word(y) = word(z) /\ bit(y) < bit(z)))
        BY <1>12, <2>1, <3>1
      <4> QED BY <2>1, <3>1, <4>1, BitOrder
    <3> QED BY <2>1, <3>1, <3>2
  <2>3. z \in above
    BY <1>12 DEF z
  <2> QED BY <1>11, <2>2, <2>3, MinIs DEF z
<1>13. CASE m # {}
  <2>1. m \subseteq s[i] /\ m \subseteq Nat
    BY <1>6, <1>7, <1>8
  <2>2. Min(m) \in m /\ \A k \in m : Min(m) <= k
    BY <1>13, <2>1, MinOf
  <2>3. Min(m) \in s[i] /\ i * WordBits + Min(m) \in above
    BY <1>7, <1>10, <2>1, <2>2
  <2>4. \A y \in above : i < word(y) \/ (i = word(y) /\ Min(m) <= bit(y))
    <3>1. \A y \in above : word(y) \in Nat /\ i \in Nat
      BY <1>4, <1>5, <1>7, <1>11
    <3> QED BY <1>9, <2>2, <3>1
  <2>5. Min(above) = i * WordBits + Min(m)
    BY <1>7, <1>12, <2>3, <2>4
  <2> QED BY <1>3, <1>13, <2>3, <2>5 DEF above, next, s
<1>14. CASE m = {} /\ rest # {}
  <2> DEFINE w == Min(rest)
             k == Min(s[w])
  <2>1. rest \subseteq 0..l - 1 /\ rest \subseteq Nat
    BY <1>4 DEF rest
  <2>2. w \in rest /\ \A v \in rest : w <= v
    BY <1>14, <2>1, MinOf
  <2> HIDE DEF w
  <2>3. w \in 0..l - 1 /\ w > i /\ s[w] # {} /\ s[w] \subseteq Nat /\ w \in Nat
    BY <1>4, <1>6, <2>1, <2>2 DEF rest
  <2>4. k \in s[w] /\ \A j \in s[w] : k <= j
    BY <2>3, MinOf
  <2> HIDE DEF k
  <2>5. w * WordBits + k \in above
    BY <1>10, <2>3, <2>4
  <2>6. ASSUME NEW y \in above PROVE w < word(y) \/ (w = word(y) /\ k <= bit(y))
    <3>1. word(y) > i /\ word(y) \in 0..l - 1 /\ bit(y) \in s[word(y)]
      BY <1>5, <1>9, <1>11, <1>14
    <3>2. word(y) \in rest /\ word(y) \in Nat
      BY <1>4, <3>1 DEF rest
    <3>3. w <= word(y)
      BY <2>2, <3>2
    <3> QED BY <2>3, <2>4, <3>1, <3>2, <3>3
  <2>7. Min(above) = w * WordBits + k
    BY <1>12, <2>3, <2>4, <2>5, <2>6
  <2>8. next = w * WordBits + k
    BY <1>3, <1>14 DEF w, k
  <2> QED BY <2>5, <2>7, <2>8 DEF above, next
<1>15. CASE m = {} /\ rest = {}
  <2>1. ASSUME NEW y \in above PROVE FALSE
    <3>1. word(y) > i /\ word(y) \in 0..l - 1 /\ bit(y) \in s[word(y)]
      BY <1>5, <1>9, <1>11, <1>15
    <3> QED BY <1>4, <1>15, <3>1 DEF rest
  <2>2. above = {} /\ next = -1
    BY <1>3, <1>15, <2>1
  <2> QED BY <2>2 DEF above, next
<1> QED
  BY <1>13, <1>14, <1>15

-----------------------------------------------------------------------------
(* Bitmap: the theorems *)

\* The invariant
THEOREM BitmapInvHolds ==
  BitmapAssumption /\ IndexFits /\ ~FreeLong /\ ~Combine => (BitmapSpec => []BitmapInv)
<1> SUFFICES ASSUME BitmapAssumption, IndexFits, ~FreeLong, ~Combine PROVE BitmapSpec => []BitmapInv
  OBVIOUS
<1>1. BitmapInit => BitmapInv
  BY BitmapInvInit
<1>2. BitmapInv /\ [BitmapNext]_bitmapVars => BitmapInv'
  <2> SUFFICES ASSUME BitmapInv, [BitmapNext]_bitmapVars PROVE BitmapInv'
    OBVIOUS
  <2>1. CASE BitmapNext
    BY <2>1, BitmapInvStep
  <2>2. CASE UNCHANGED bitmapVars
    <3>1. bitmaps' = bitmaps /\ freeIndices' = freeIndices /\ value' = value /\ want' = want
      BY <2>2 DEF bitmapVars
    <3>2. \A n \in Names : Others(n)' = Others(n)
      BY <3>1 DEF Others
    <3> QED BY <3>1, <3>2 DEF BitmapInv
  <2> QED BY <2>1, <2>2
<1> QED
  BY <1>1, <1>2, PTL DEF BitmapSpec

\* Whatever legal calls its owner makes, a bitmap has the bits that the owner set, and no
\* vector of the pool serves two owners (bitmap.go), for every word width and every number
\* of words and owners
THEOREM HasBitsHolds ==
  BitmapAssumption /\ IndexFits /\ ~FreeLong /\ ~Combine => (BitmapSpec => []HasBits)
<1> SUFFICES ASSUME BitmapAssumption, IndexFits, ~FreeLong, ~Combine PROVE BitmapSpec => []HasBits
  OBVIOUS
<1>1. BitmapInv => HasBits
  <2> SUFFICES ASSUME BitmapInv PROVE HasBits
    OBVIOUS
  <2>1. \A n \in Names : Members(Pooled, value[n]) = want[n]
    BY MembersAre
  <2>2. ASSUME NEW n \in Names, NEW m \in Names, n # m, isPoolIndex(value[n]) PROVE value[n] # value[m]
    <3>1. IndexOf(value[n]) \cap Others(n) = {} /\ IndexOf(value[n]) # {}
      BY <2>2 DEF BitmapInv, IndexOf
    <3>2. IndexOf(value[m]) \subseteq Others(n)
      BY <2>2 DEF Others
    <3> QED BY <3>1, <3>2
  <2> QED BY <2>1, <2>2 DEF HasBits
<1>2. BitmapSpec => []BitmapInv
  BY BitmapInvHolds
<1> QED
  BY <1>1, <1>2, PTL

\* Next visits the bits of a bitmap in increasing order, each once, wherever they are kept
\* (Next and ForeachSetBit of bitmap.go)
THEOREM NextAscendsHolds ==
  BitmapAssumption /\ IndexFits /\ ~FreeLong /\ ~Combine => (BitmapSpec => []NextAscends)
<1> SUFFICES ASSUME BitmapAssumption, IndexFits, ~FreeLong, ~Combine PROVE BitmapSpec => []NextAscends
  OBVIOUS
<1>1. BitmapInv => NextAscends
  BY NextBitIs DEF NextAscends
<1>2. BitmapSpec => []BitmapInv
  BY BitmapInvHolds
<1> QED
  BY <1>1, <1>2, PTL

=============================================================================
