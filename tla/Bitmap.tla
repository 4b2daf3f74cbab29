------------------------------- MODULE Bitmap -------------------------------
(***************************************************************************)
(* Bitmaps of bitmap.go.  A bitmap is one word.  With its top bit clear it *)
(* holds the bits below the top bit inline; with its top bit set it is the *)
(* complement of the index of a vector of words in a pool.  The pool is    *)
(* that of module Pool, reduced to its stack of free indices.              *)
(*                                                                         *)
(* A word is the set of its bits.                                          *)
(***************************************************************************)
EXTENDS Integers, Sequences, FiniteSets, FiniteSetsExt

CONSTANTS
  WordBits,
  MaxWords,   \* bound: words of a bitmap
  Bits,       \* bound: the bits that callers set and clear
  Names,      \* the variables in which callers keep bitmaps
  FreeLong,   \* whether callers free bitmaps with bits past the first word
  Combine,    \* whether callers use Or and AndNot with bitmaps in the pool
  NextResizeCap  \* of cap.go: the capacity of a vector that grows to a length

\* Assumed where the module is instantiated
BitmapAssumption ==
  /\ WordBits \in Nat \ {0, 1} /\ MaxWords \in Nat \ {0}
  /\ Bits \subseteq 0..WordBits * MaxWords - 1 /\ IsFiniteSet(Names)
  /\ NextResizeCap \in [1..MaxWords -> Nat] /\ \A l \in 1..MaxWords : NextResizeCap[l] >= l
  /\ FreeLong \in BOOLEAN /\ Combine \in BOOLEAN

VARIABLES
  bitmaps,      \* the vectors of the pool: length, capacity and words
  freeIndices,  \* the free indices of the pool
  value,        \* the bitmap in each variable
  want          \* the bits that the variable's owner put there

bitmapVars == <<bitmaps, freeIndices, value, want>>

Word == 0..WordBits - 1
isPoolIndex(b) == WordBits - 1 \in b
isInline(b) == ~isPoolIndex(b)
ofIndex(bi) == {k \in Word : (bi \div 2 ^ k) % 2 = 0}      \* ^Bitmap(bi)
toIndex(b) == MapThenSumSet(LAMBDA k : 2 ^ k, Word \ b)    \* uint(^b)

\* The top bit tells the complement of an index from bits, and the index comes back, as
\* long as a word has room for the numbers of all bitmaps
IndexFits == \A bi \in 0..Cardinality(Names) : isPoolIndex(ofIndex(bi)) /\ toIndex(ofIndex(bi)) = bi

word(x) == x \div WordBits
bit(x) == x % WordBits

-----------------------------------------------------------------------------
(* Vectors and the pool *)

NoWords == [w \in 0..MaxWords - 1 |-> {}]

\* Vector v grown to hold word i; within its capacity it gets back the words that
\* it had there before
ValidateWord(v, i) ==
  IF i + 1 <= v.cap THEN [len |-> IF i + 1 > v.len THEN i + 1 ELSE v.len, cap |-> v.cap, words |-> v.words]
  ELSE [len |-> i + 1, cap |-> NextResizeCap[i + 1],
        words |-> [w \in DOMAIN v.words |-> IF w < v.len THEN v.words[w] ELSE {}]]

Pooled == [vecs |-> bitmaps, free |-> freeIndices]
newIndex(p) == IF p.free = <<>> THEN Cardinality(DOMAIN p.vecs) ELSE p.free[Len(p.free)]
newPool(p) ==
  [vecs |-> IF p.free = <<>>
            THEN [i \in DOMAIN p.vecs \cup {newIndex(p)} |->
                    IF i \in DOMAIN p.vecs THEN p.vecs[i] ELSE [len |-> 0, cap |-> 0, words |-> NoWords]]
            ELSE p.vecs,
   free |-> IF p.free = <<>> THEN p.free ELSE SubSeq(p.free, 1, Len(p.free) - 1)]
PutIndex(p, bi) == [vecs |-> p.vecs, free |-> Append(p.free, bi)]
SetVec(p, bi, v) == [vecs |-> [p.vecs EXCEPT ![bi] = v], free |-> p.free]

\* The words of a bitmap as the operations see them
Words(p, b) == IF isInline(b) THEN [w \in {0} |-> b]
               ELSE LET v == p.vecs[toIndex(b)] IN [w \in 0..v.len - 1 |-> v.words[w]]
Members(p, b) == UNION {{w * WordBits + k : k \in Words(p, b)[w]} : w \in DOMAIN Words(p, b)}

\* An operation's result: the bitmap r and the pool
Inline(r) == [r |-> r, p |-> Pooled]

toMem(p, b) ==
  LET bi == newIndex(p)
      v == newPool(p).vecs[bi]
  IN [r |-> ofIndex(bi),
      p |-> SetVec(newPool(p), bi, [len |-> 1, cap |-> IF v.cap = 0 THEN 1 ELSE v.cap,
                                    words |-> [v.words EXCEPT ![0] = b]])]

inMem(b) == IF isInline(b) THEN toMem(Pooled, b) ELSE [r |-> b, p |-> Pooled]

\* Word i of a bitmap in memory, once that has been grown to hold it
wordAt(m, i) == ValidateWord(m.p.vecs[toIndex(m.r)], i).words[i]

\* A bitmap in memory grown to hold word i, which becomes w
Change(m, i, w) ==
  LET bi == toIndex(m.r)
      v == ValidateWord(m.p.vecs[bi], i)
  IN [r |-> m.r, p |-> SetVec(m.p, bi, [len |-> v.len, cap |-> v.cap,
                                        words |-> [v.words EXCEPT ![i] = w]])]

-----------------------------------------------------------------------------
(* Operations *)

Set2(b, x) ==
  LET m == inMem(b)
  IN IF isInline(b) /\ x < WordBits - 1 THEN Inline(b \cup {x})
     ELSE Change(m, word(x), wordAt(m, word(x)) \cup {bit(x)})
Orx(b, x) == Set2(b, x)

Invert2(b, x) ==
  LET flip(w, k) == IF k \in w THEN w \ {k} ELSE w \cup {k}
      m == inMem(b)
  IN IF isInline(b) /\ x < WordBits - 1 THEN Inline(flip(b, x))
     ELSE Change(m, word(x), flip(wordAt(m, word(x)), bit(x)))

\* Unset2 of a bit past the end of a vector panics
UnsetOk(b, x) == word(x) < (IF isInline(b) THEN MaxWords ELSE bitmaps[toIndex(b)].len)
Unset2(b, x) ==
  LET m == inMem(b)
  IN IF isInline(b) THEN Inline(b \ {x})
     ELSE Change(m, word(x), wordAt(m, word(x)) \ {bit(x)})

checkInline(m) ==
  LET v == m.p.vecs[toIndex(m.r)]
  IN IF v.len > 1 \/ (v.len = 1 /\ ~isInline(v.words[0])) THEN m
     ELSE [r |-> IF v.len = 1 THEN v.words[0] ELSE {}, p |-> PutIndex(m.p, toIndex(m.r))]

\* m, which is in memory, without the trailing words that have no bits
Strip(m) ==
  LET bi == toIndex(m.r)
      v == m.p.vecs[bi]
      used == {w \in 0..v.len - 1 : v.words[w] # {}}
      l == IF used = {} THEN 0 ELSE Max(used) + 1
  IN [r |-> m.r, p |-> SetVec(m.p, bi, [len |-> l, cap |-> v.cap, words |-> v.words])]

\* Trailing words are stripped when the last word becomes empty
AndNotx(b, x) ==
  LET m == Change(inMem(b), word(x), wordAt(inMem(b), word(x)) \ {bit(x)})
      v == m.p.vecs[toIndex(m.r)]
  IN IF isInline(b) /\ x < WordBits - 1 THEN Inline(b \ {x})
     ELSE IF word(x) = v.len - 1 /\ v.words[word(x)] = {} THEN checkInline(Strip(m))
     ELSE m

\* bothInline is true of every two bitmaps: they are unsigned
Or(b, c) == Inline(b \cup c)
AndNot(b, c) == Inline(b \ c)

\* Seeded bug: the copy is the original
Dup_Share(b) == Inline(b)

Dup(b) ==
  IF isInline(b) THEN Inline(b)
  ELSE LET bi == newIndex(Pooled)
           n == newPool(Pooled)
           s == bitmaps[toIndex(b)]
           v == ValidateWord(n.vecs[bi], s.len - 1)
       IN [r |-> ofIndex(bi),
           p |-> SetVec(n, bi, [len |-> s.len, cap |-> v.cap,
                                words |-> [w \in DOMAIN v.words |->
                                             IF w < s.len THEN s.words[w] ELSE v.words[w]]])]

Free(b) == [r |-> {}, p |-> IF isPoolIndex(b) THEN PutIndex(Pooled, toIndex(b)) ELSE Pooled]

\* The bits of a word after bit k
After(w, k) == {j \in w : j > k}

\* Next after x, or from the start if x is -1; -1 at the end
NextBit(p, b, x) ==
  LET s == Words(p, b)
      i == IF x = -1 THEN 0 ELSE word(x)
      m == IF x = -1 THEN s[0] ELSE After(s[i], bit(x))
      rest == {w \in DOMAIN s : w > i /\ s[w] # {}}
  IN IF m # {} THEN i * WordBits + Min(m)
     ELSE IF rest # {} THEN Min(rest) * WordBits + Min(s[Min(rest)]) ELSE -1

-----------------------------------------------------------------------------

BitmapInit == /\ bitmaps = <<>> /\ freeIndices = <<>>
              /\ value = [n \in Names |-> {}] /\ want = [n \in Names |-> {}]

\* A caller replaces the bitmap in variable n by an operation's result
Assign(n, result, members) ==
  /\ bitmaps' = result.p.vecs
  /\ freeIndices' = result.p.free
  /\ value' = [value EXCEPT ![n] = result.r]
  /\ want' = [want EXCEPT ![n] = members]

SetBit(n, x) == Assign(n, Orx(value[n], x), want[n] \cup {x})
InvertBit(n, x) == Assign(n, Invert2(value[n], x), (want[n] \ {x}) \cup ({x} \ want[n]))
ClearBit(n, x) == Assign(n, AndNotx(value[n], x), want[n] \ {x})
UnsetBit(n, x) == /\ UnsetOk(value[n], x)
                  /\ Assign(n, Unset2(value[n], x), want[n] \ {x})
MayCombine(n, m) == Combine \/ (isInline(value[n]) /\ isInline(value[m]))
OrBits(n, m) == MayCombine(n, m) /\ Assign(n, Or(value[n], value[m]), want[n] \cup want[m])
AndNotBits(n, m) == MayCombine(n, m) /\ Assign(n, AndNot(value[n], value[m]), want[n] \ want[m])

\* The owner of a variable frees what is in it before it assigns another bitmap
DupBits(n, m) == value[n] = {} /\ Assign(n, Dup(value[m]), want[m])
FreeBits(n) == /\ FreeLong \/ \A x \in want[n] : x < WordBits
               /\ Assign(n, Free(value[n]), {})

BitmapNext ==
  \/ \E n \in Names, x \in Bits : SetBit(n, x) \/ InvertBit(n, x) \/ ClearBit(n, x) \/ UnsetBit(n, x)
  \/ \E n, m \in Names : OrBits(n, m) \/ AndNotBits(n, m) \/ DupBits(n, m)
  \/ \E n \in Names : FreeBits(n)

BitmapSpec == BitmapInit /\ [][BitmapNext]_bitmapVars

-----------------------------------------------------------------------------
(* Properties *)

\* However bitmaps move between a word and the pool and back, a bitmap has the
\* bits that its owner set, and no vector of the pool serves two owners.
HasBits ==
  /\ \A n \in Names : Members(Pooled, value[n]) = want[n]
  /\ \A n, m \in Names : n # m /\ isPoolIndex(value[n]) => value[n] # value[m]

\* Next visits the bits in increasing order, each once
NextAscends ==
  \A n \in Names : \A x \in {-1} \cup want[n] :
    LET above == {y \in want[n] : y > x}
    IN NextBit(Pooled, value[n], x) = IF above = {} THEN -1 ELSE Min(above)

=============================================================================
