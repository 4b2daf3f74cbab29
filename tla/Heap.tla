-------------------------------- MODULE Heap --------------------------------
(***************************************************************************)
(* The allocator of heap.go.  A heap is a list of chunks, the elements,    *)
(* linked through next and prev in the order of their offsets; free[s]     *)
(* lists the free chunks of size s, and free[0] those that were larger     *)
(* than any size asked for when they became free.                          *)
(*                                                                         *)
(* An operator on heaps takes a heap and returns the heap that the         *)
(* function of the same name leaves behind.                                *)
(***************************************************************************)
EXTENDS Integers, Sequences, FiniteSets

CONSTANTS
  Sizes,   \* bound: the sizes a caller asks for
  Aligns,  \* bound: the alignments a caller asks for, 1 << log2Alignment
  maxLen   \* SetMaxLen

\* Assumed where the module is instantiated
HeapAssumption == Sizes \subseteq Nat \ {0} /\ Aligns \subseteq Nat \ {0} /\ maxLen \in Nat \ {0}

MaxIndex == -1

VARIABLES
  heap,     \* Heap
  lent,     \* what callers hold: the offset and size of each id they were given
  corrupt   \* removeFreeElt has panicked

heapVars == <<heap, lent, corrupt>>

poison == [offset |-> MaxIndex, free |-> MaxIndex, next |-> MaxIndex, prev |-> MaxIndex]

EmptyHeap == [elts |-> <<>>, free |-> <<>>, removed |-> <<>>,
              head |-> MaxIndex, tail |-> MaxIndex, len |-> 0, maxSize |-> 0]

isFree(e) == e.free # MaxIndex

size(h, ei) == (IF h.elts[ei].next = MaxIndex THEN h.len ELSE h.elts[h.elts[ei].next].offset)
               - h.elts[ei].offset

-----------------------------------------------------------------------------
(* Elements and free lists; the elements are numbered from 0 *)

\* The number of the element that newElt hands out, and the heap without it
fresh(h) == IF h.removed = <<>> THEN Cardinality(DOMAIN h.elts) ELSE h.removed[Len(h.removed)]
newElt(h) == [h EXCEPT !.elts = [x \in DOMAIN @ \cup {fresh(h)} |->
                                   IF x = fresh(h) THEN poison ELSE @[x]],
                       !.removed = IF @ = <<>> THEN @ ELSE SubSeq(@, 1, Len(@) - 1)]

\* free, grown to hold a list of number s
Validate(free, s) == [i \in DOMAIN free \cup 0..s |-> IF i \in DOMAIN free THEN free[i] ELSE <<>>]

freeElt(h, ei, eSize) ==
  LET s == IF eSize > h.maxSize THEN 0 ELSE eSize
      free == Validate(h.free, s)
  IN [h EXCEPT !.elts[ei].free = Len(free[s]), !.free = [free EXCEPT ![s] = Append(@, ei)]]

\* Element ei leaves list s: the last of the list takes its place
TakeOut(h, ei, s) ==
  LET l == Len(h.free[s])
      fi == h.elts[ei].free
      gi == h.free[s][l]
  IN [h EXCEPT !.free[s] = SubSeq([@ EXCEPT ![fi + 1] = gi], 1, l - 1),
               !.elts[gi].free = fi]

\* The list removeFreeElt looks into, and whether it finds the element there
listOf(h, eSize) == IF eSize \in DOMAIN h.free THEN eSize ELSE 0
OnList(h, ei, eSize) ==
  LET s == listOf(h, eSize)
      fi == h.elts[ei].free
  IN fi < Len(h.free[s]) /\ h.free[s][fi + 1] = ei

removeFreeElt(h, ei, eSize) ==
  LET out == TakeOut(h, ei, listOf(h, eSize))
  IN [out EXCEPT !.elts[ei] = poison, !.removed = Append(@, ei)]

-----------------------------------------------------------------------------
(* Get *)

\* Element ei of size eSize gives its last freeSize to a new free element
freeAfter(h, ei, eSize, freeSize) ==
  LET fi == fresh(h)
      n == newElt(h)
      ni == h.elts[ei].next
      f == [offset |-> h.elts[ei].offset + eSize - freeSize,
            free |-> MaxIndex, next |-> ni, prev |-> ei]
      linked == [n EXCEPT !.elts = [x \in DOMAIN @ |->
                              IF x = fi THEN f
                              ELSE IF x = ei THEN [@[x] EXCEPT !.next = fi]
                              ELSE IF x = ni THEN [@[x] EXCEPT !.prev = fi] ELSE @[x]],
                          !.tail = IF @ = ei THEN fi ELSE @]
  IN freeElt(linked, fi, freeSize)

\* Seeded bug: the chunk may be one place too short
Fitting_Short(h, s) == {fi \in 1..Len(h.free[0]) : size(h, h.free[0][fi]) >= s - 1}

\* The positions of list 0 whose chunk is large enough
Fitting(h, s) == {fi \in 1..Len(h.free[0]) : size(h, h.free[0][fi]) >= s}

\* get: the element it returns, MaxIndex if the heap overflows, and the heap
get(h0, sizeArg, s) ==
  LET h == [h0 EXCEPT !.maxSize = IF sizeArg > @ THEN sizeArg ELSE @]
      quick == s \in DOMAIN h.free /\ h.free[s] # <<>>
      fits == IF h.free = <<>> THEN {} ELSE Fitting(h, s)
  IN IF quick THEN
       LET ei == h.free[s][Len(h.free[s])]
       IN [id |-> ei, h |-> [h EXCEPT !.free[s] = SubSeq(@, 1, Len(@) - 1),
                                      !.elts[ei].free = MaxIndex]]
     ELSE IF fits # {} THEN
       LET ei == h.free[0][CHOOSE f \in fits : \A g \in fits : f <= g]
           es == size(h, ei)
           taken == [TakeOut(h, ei, 0) EXCEPT !.elts[ei].free = MaxIndex]
       IN [id |-> ei, h |-> IF es > s THEN freeAfter(taken, ei, es, es - s) ELSE taken]
     ELSE IF h.len + s > maxLen THEN [id |-> MaxIndex, h |-> h]
     ELSE
       LET ei == fresh(h)
           n == newElt(h)
           tail == IF h.len = 0 THEN MaxIndex ELSE h.tail
           e == [offset |-> h.len, free |-> MaxIndex, next |-> MaxIndex, prev |-> tail]
       IN [id |-> ei,
           h |-> [n EXCEPT !.elts = [x \in DOMAIN @ |->
                              IF x = ei THEN e
                              ELSE IF x = tail THEN [@[x] EXCEPT !.next = ei] ELSE @[x]],
                           !.len = @ + s,
                           !.head = IF h.len = 0 THEN 0 ELSE @,
                           !.tail = ei]]

-----------------------------------------------------------------------------
(* Put *)

\* The free neighbours that Put joins with element ei
prevFree(h, ei) == h.elts[ei].prev # MaxIndex /\ isFree(h.elts[h.elts[ei].prev])
nextFree(h, ei) == h.elts[ei].next # MaxIndex /\ isFree(h.elts[h.elts[ei].next])

prevSize(h, ei) == h.elts[ei].offset - h.elts[h.elts[ei].prev].offset
nextSize(h, ei) == size(h, h.elts[ei].next)

JoinPrev(h, ei) ==
  LET pi == h.elts[ei].prev
      pp == h.elts[pi].prev
      e == [h.elts[ei] EXCEPT !.offset = h.elts[pi].offset, !.prev = pp]
      linked == [h EXCEPT !.elts = [x \in DOMAIN @ |->
                              IF x = ei THEN e
                              ELSE IF x = pp THEN [@[x] EXCEPT !.next = ei] ELSE @[x]],
                          !.head = IF pi = @ THEN ei ELSE @]
  IN IF prevFree(h, ei) THEN removeFreeElt(linked, pi, prevSize(h, ei)) ELSE h

\* Seeded bug: the tail stays with the element that is gone
JoinNext_KeepTail(h, ei) ==
  LET ni == h.elts[ei].next
      nn == h.elts[ni].next
      linked == [h EXCEPT !.elts = [x \in DOMAIN @ |->
                              IF x = ei THEN [@[x] EXCEPT !.next = nn]
                              ELSE IF x = nn THEN [@[x] EXCEPT !.prev = ei] ELSE @[x]]]
  IN IF nextFree(h, ei) THEN removeFreeElt(linked, ni, nextSize(h, ei)) ELSE h

JoinNext(h, ei) ==
  LET ni == h.elts[ei].next
      nn == h.elts[ni].next
      linked == [h EXCEPT !.elts = [x \in DOMAIN @ |->
                              IF x = ei THEN [@[x] EXCEPT !.next = nn]
                              ELSE IF x = nn THEN [@[x] EXCEPT !.prev = ei] ELSE @[x]],
                          !.tail = IF ni = @ THEN ei ELSE @]
  IN IF nextFree(h, ei) THEN removeFreeElt(linked, ni, nextSize(h, ei)) ELSE h

put(h, ei) == LET joined == JoinNext(JoinPrev(h, ei), ei)
              IN freeElt(joined, ei, size(joined, ei))

\* removeFreeElt does not find a neighbour and panics
PutPanics(h, ei) ==
  \/ prevFree(h, ei) /\ ~OnList(h, h.elts[ei].prev, prevSize(h, ei))
  \/ nextFree(h, ei) /\ ~OnList(h, h.elts[ei].next, nextSize(h, ei))

-----------------------------------------------------------------------------
(* GetAligned *)

newEltBefore(h, ei, offset) ==
  LET pi == fresh(h)
      pp == h.elts[ei].prev
      p == [offset |-> offset, free |-> MaxIndex, next |-> ei, prev |-> pp]
  IN [newElt(h) EXCEPT !.elts = [x \in DOMAIN @ |->
                              IF x = pi THEN p
                              ELSE IF x = ei THEN [@[x] EXCEPT !.prev = pi]
                              ELSE IF x = pp THEN [@[x] EXCEPT !.next = pi] ELSE @[x]],
                       !.head = IF pp = MaxIndex THEN pi ELSE @]

newEltAfter(h, ei, offset) ==
  LET ni == fresh(h)
      nn == h.elts[ei].next
      n == [offset |-> offset, free |-> MaxIndex, next |-> nn, prev |-> ei]
  IN [newElt(h) EXCEPT !.elts = [x \in DOMAIN @ |->
                              IF x = ni THEN n
                              ELSE IF x = ei THEN [@[x] EXCEPT !.next = ni]
                              ELSE IF x = nn THEN [@[x] EXCEPT !.prev = ni] ELSE @[x]],
                       !.tail = IF nn = MaxIndex THEN ni ELSE @]

\* The chunk before the aligned offset ao is given back, then the one after
\* ao + sa.  The first may panic; ok says that neither does.
CutBefore(h, ei, ao) ==
  LET pi == fresh(h)
      o == h.elts[ei].offset
      cut == [newEltBefore(h, ei, o) EXCEPT !.elts[ei].offset = ao]
  IN IF ao = o THEN [ok |-> TRUE, h |-> h]
     ELSE IF PutPanics(cut, pi) THEN [ok |-> FALSE, h |-> h]
     ELSE [ok |-> TRUE, h |-> put(cut, pi)]

CutAfter(h, ei, end, rest) ==
  LET ni == fresh(h)
      cut == newEltAfter(h, ei, end)
  IN IF rest <= 0 THEN [ok |-> TRUE, h |-> h]
     ELSE IF PutPanics(cut, ni) THEN [ok |-> FALSE, h |-> h]
     ELSE [ok |-> TRUE, h |-> put(cut, ni)]

alignUp(o, a) == ((o + a - 1) \div a) * a

\* Of the s from its offset on, element ei keeps sizeArg from an aligned offset on
Cut(h, ei, sizeArg, s, a) ==
  LET o == h.elts[ei].offset
      ao == alignUp(o, a)
      after(r) == IF r.ok THEN CutAfter(r.h, ei, ao + sizeArg, (o + s) - (ao + sizeArg)) ELSE r
  IN after(CutBefore(h, ei, ao))

-----------------------------------------------------------------------------

HeapInit == heap = EmptyHeap /\ lent = <<>> /\ corrupt = FALSE

\* The alignment is a = 1 << log2Alignment; Get(s) is the one with a = 1
GetAligned(sizeArg, a) ==
  LET s == sizeArg + a - 1
  IN /\ ~corrupt
     /\ \E g \in {get(heap, sizeArg, s)} :
          IF g.id = MaxIndex
          THEN heap' = g.h /\ UNCHANGED <<lent, corrupt>>   \* panic: heap overflow
          ELSE \E cut \in {Cut(g.h, g.id, sizeArg, s, a)} :
                 /\ corrupt' = ~cut.ok
                 /\ heap' = IF cut.ok THEN cut.h ELSE heap
                 /\ lent' = IF cut.ok
                            THEN [x \in DOMAIN lent \cup {g.id} |->
                                    IF x # g.id THEN lent[x]
                                    ELSE [offset |-> cut.h.elts[x].offset, size |-> sizeArg,
                                          align |-> a]]
                            ELSE lent

Put(ei) ==
  /\ ~corrupt
  /\ corrupt' = PutPanics(heap, ei)
  /\ IF PutPanics(heap, ei)
     THEN UNCHANGED <<heap, lent>>
     ELSE /\ heap' = put(heap, ei)
          /\ lent' = [x \in DOMAIN lent \ {ei} |-> lent[x]]

HeapNext ==
  \/ \E s \in Sizes, a \in Aligns : GetAligned(s, a)
  \/ \E ei \in DOMAIN lent : Put(ei)

HeapSpec == HeapInit /\ [][HeapNext]_heapVars

-----------------------------------------------------------------------------
(* Properties *)

Elts == DOMAIN heap.elts
Removed == {heap.removed[i] : i \in 1..Len(heap.removed)}
Chunks == Elts \ Removed

\* The heap after every sequence of calls: validate of heap_debug.go and more.
\* The chunks tile the heap, in one list from head to tail, and no two free
\* chunks are neighbours.
Tiled ==
  /\ Chunks # {} => /\ heap.elts[heap.head].offset = 0 /\ heap.elts[heap.head].prev = MaxIndex
                    /\ heap.elts[heap.tail].next = MaxIndex
  /\ \A ei \in Chunks :
       LET e == heap.elts[ei]
       IN /\ size(heap, ei) > 0
          /\ e.next = MaxIndex <=> ei = heap.tail
          /\ e.prev = MaxIndex <=> ei = heap.head
          /\ e.next # MaxIndex =>
               /\ e.next \in Chunks
               /\ heap.elts[e.next].prev = ei
               /\ ~(isFree(e) /\ isFree(heap.elts[e.next]))

\* The heap up to the numbers of its elements (a view for TLC): the chunks in order,
\* each with its owner or its place on a free list
Shape ==
  LET at(o) == CHOOSE ei \in Chunks : heap.elts[ei].offset = o
      place(ei) == {p \in (DOMAIN heap.free) \X (1..Cardinality(Elts)) :
                      p[2] <= Len(heap.free[p[1]]) /\ heap.free[p[1]][p[2]] = ei}
  IN <<[o \in {heap.elts[ei].offset : ei \in Chunks} |->
          <<heap.elts[at(o)].free, place(at(o)), IF at(o) \in DOMAIN lent THEN <<lent[at(o)]>> ELSE <<>> >>],
       heap.len, heap.maxSize, DOMAIN heap.free, corrupt>>

\* Each caller holds exactly the chunk it was given, aligned as it asked, and no
\* chunk is lost: one that nobody holds is free.
Lent ==
  /\ \A ei \in DOMAIN lent :
       /\ ei \in Chunks /\ ~isFree(heap.elts[ei])
       /\ heap.elts[ei].offset = lent[ei].offset /\ size(heap, ei) = lent[ei].size
       /\ lent[ei].offset % lent[ei].align = 0
  /\ \A ei \in Chunks : isFree(heap.elts[ei]) <=> ei \notin DOMAIN lent

\* A free chunk knows its place on a free list, on the list of its size or on
\* list 0, and the lists hold nothing else.
FreeLists ==
  /\ \A s \in DOMAIN heap.free : \A i \in 1..Len(heap.free[s]) :
       LET ei == heap.free[s][i]
       IN ei \in Chunks /\ heap.elts[ei].free = i - 1 /\ s \in {0, size(heap, ei)}
  /\ \A ei \in Chunks : isFree(heap.elts[ei]) =>
       \E s \in DOMAIN heap.free : \E i \in 1..Len(heap.free[s]) : heap.free[s][i] = ei

\* What callers hold lies within the heap, and no two of them hold the same place
Apart ==
  /\ \A ei \in DOMAIN lent : lent[ei].offset >= 0 /\ lent[ei].offset + lent[ei].size <= maxLen
  /\ \A ei, fi \in DOMAIN lent : ei # fi =>
       \/ lent[ei].offset + lent[ei].size <= lent[fi].offset
       \/ lent[fi].offset + lent[fi].size <= lent[ei].offset

\* What holds after every sequence of calls
HeapSound == Tiled /\ Lent /\ FreeLists /\ Apart

\* The heap keeps the promise of an allocator: whatever Get and GetAligned return lies
\* within maxLen, is aligned and is nobody else's, and stays its caller's until Put; a call
\* that panics lends nothing and takes nothing back.
Promise == INSTANCE Regions WITH lent <- {lent[ei] : ei \in DOMAIN lent}
RegionsSpec == Promise!Spec

\* removeFreeElt never panics with "corrupt free list"
NotCorrupt == ~corrupt

=============================================================================
