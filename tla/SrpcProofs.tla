------------------------------ MODULE SrpcProofs ------------------------------
(***************************************************************************)
(* Theorems about Srpc, for frames, buffers and channels of any size and   *)
(* readers of any kind: what is written is read, in order and unchanged,   *)
(* and no buffer is used again while a frame that is cut from it is on its *)
(* way to a reader.                                                        *)
(***************************************************************************)
EXTENDS Srpc, FiniteSetTheorems, SequenceTheorems, TLAPS

-----------------------------------------------------------------------------
(* Types *)

Element == [side : Sides, len : Nat, kind : {"more", "header", "byte"}]
Array == [cap : Nat, elts : Seq(Element)]
Buffer == [arr : Arrays, lo : Nat \ {0}, hi : Nat]
Slice == [arr : Arrays, lo : Nat \ {0}, hi : Nat, recycle : BOOLEAN]

SendType ==
  /\ wrote \in [Sides -> Nat] /\ \A i \in Sides : wrote[i] <= MaxBytes[i]
  /\ wlock \in {Free, Server, Client} /\ wb \in Seq(Element) /\ stream \in Seq(Element)
  /\ lost \in Seq(Element)
  /\ wlock = Free => wb = <<>>

\* What a slice names is there
Within(m, s) == s.lo <= s.hi + 1 /\ s.hi <= Len(m[s.arr].elts) /\ s.hi <= m[s.arr].cap

ServeType ==
  /\ mem \in [Arrays -> Array] /\ b \in Buffer /\ Within(mem, b)
  /\ spc \in {"read", "input", "next", "done"}
  /\ n \in Nat /\ lastContentLen \in Nat /\ lastFrameIsClient \in Sides
  /\ lastContentLen <= n /\ n <= b.hi - b.lo + 1
  /\ spc = "read" => n = 0 /\ lastContentLen = 0

QueueType ==
  /\ rx \in [Sides -> Seq(Slice)] /\ recycle \in Seq(Slice)
  /\ \A i \in Sides : Len(rx[i]) <= RxCap
  /\ Len(recycle) <= RecycleCap
  /\ \A i \in Sides : \A k \in DOMAIN rx[i] : Within(mem, rx[i][k]) /\ rx[i][k].lo <= rx[i][k].hi
  /\ \A k \in DOMAIN recycle : Within(mem, recycle[k]) /\ recycle[k].lo <= recycle[k].hi

ReadType ==
  /\ overflow \in [Sides -> Seq(Element)] /\ got \in [Sides -> Seq(Element)]
  /\ rxClosed \in [Sides -> BOOLEAN] /\ panicked \in BOOLEAN /\ clientClosed \in BOOLEAN

-----------------------------------------------------------------------------
(* Who may write behind which element of an array *)

\* Serve's buffer belongs to it from here on
Mine == b.lo + n - lastContentLen

\* Of what refers to one array at most one may be extended: Serve's buffer, a slice in a
\* channel that will be recycled, or a recycled one.  The others end before it begins.
Before(s, arr, lo) == s.arr = arr => ~s.recycle /\ s.hi < lo

OwnersInv ==
  /\ spc # "next" =>
       /\ \A i \in Sides : \A k \in DOMAIN rx[i] : Before(rx[i][k], b.arr, Mine)
       /\ \A r \in DOMAIN recycle : recycle[r].arr # b.arr
  /\ \A r, q \in DOMAIN recycle : recycle[r].arr = recycle[q].arr => r = q
  /\ \A r \in DOMAIN recycle : \A i \in Sides : \A k \in DOMAIN rx[i] :
       Before(rx[i][k], recycle[r].arr, recycle[r].lo)
  /\ \A i, j \in Sides : \A k \in DOMAIN rx[i] : \A q \in DOMAIN rx[j] :
       rx[i][k].recycle => (i = j /\ k = q) \/ Before(rx[j][q], rx[i][k].arr, rx[i][k].lo)

Base == SendType /\ ServeType /\ QueueType /\ ReadType /\ OwnersInv

-----------------------------------------------------------------------------
(* What is in flight is a sequence of frames *)

HeaderSize(l) == IF l > 1 THEN 2 ELSE 1

\* A frame of side i with l bytes begins in u after its first p elements, and its bytes are
\* those that follow the first c of side i
IsFrame(u, p, i, l, c) ==
  /\ p + HeaderSize(l) + l <= Len(u)
  /\ l > 1 => u[p + 1].kind = "more"
  /\ u[p + HeaderSize(l)] = [side |-> i, len |-> l, kind |-> "header"]
  /\ \A k \in 1..l : u[p + HeaderSize(l) + k] = Byte(i, c + k)

\* ends: where a frame of u ends; at[p]: how many bytes each side has written up to p
Framed(u, c, w, ends, at) ==
  /\ ends \subseteq 0..Len(u) /\ 0 \in ends /\ Len(u) \in ends
  /\ at \in [ends -> [Sides -> Nat]] /\ at[0] = c /\ at[Len(u)] = w
  /\ \A p \in ends : \A i \in Sides : at[p][i] <= w[i]
  /\ \A p \in ends : p # Len(u) => \E i \in Sides, l \in Nat :
       /\ IsFrame(u, p, i, l, at[p][i])
       /\ p + HeaderSize(l) + l \in ends
       /\ at[p + HeaderSize(l) + l] = [at[p] EXCEPT ![i] = @ + l]

\* What Write has left to send, or has failed to send
Unsent == lost \o wb

\* The elements that Input has not taken
InFlight == Left \o (stream \o Unsent)

SliceLen(s) == s.hi - s.lo + 1

\* Input has found a frame for the reader of side i and not handed it on
Found(i) == IF spc = "input" /\ Other(lastFrameIsClient) = i THEN lastContentLen ELSE 0

\* The bytes of the writer that its reader i has not been given are in i's channel.
\* start[k]: how many bytes come before frame k
Queued(i, c, start) ==
  /\ start \in [1..Len(rx[i]) + 1 -> Nat]
  /\ start[1] = Len(got[i]) + Len(overflow[i])
  /\ \A k \in 1..Len(rx[i]) :
       /\ start[k + 1] = start[k] + SliceLen(rx[i][k])
       /\ Elts(rx[i][k]) = Bytes(Other(i), start[k] + 1, SliceLen(rx[i][k]))
  /\ \A k \in 1..Len(rx[i]) + 1 : start[k] <= c

\* From what the reader of i has read, over what it has left over and the frames in its
\* channel, to the frame that Input has found, the first c bytes of the writer follow each
\* other
Delivered(i, c, start) ==
  /\ Queued(i, c, start)
  /\ start[Len(rx[i]) + 1] + Found(i) = c
  /\ SubSeq(Elts(b), n - Found(i) + 1, n) = Bytes(Other(i), start[Len(rx[i]) + 1] + 1, Found(i))

ReadInv ==
  \A i \in Sides :
    /\ got[i] = Bytes(Other(i), 1, Len(got[i])) /\ Len(got[i]) + Len(overflow[i]) <= wrote[Other(i)]
    /\ overflow[i] = Bytes(Other(i), Len(got[i]) + 1, Len(overflow[i]))

\* c: how many bytes of each side Input has taken
Flow(c) ==
  /\ c \in [Sides -> Nat]
  /\ \E ends, at : Framed(InFlight, c, wrote, ends, at)
  /\ \A i \in Sides : \E start : Delivered(i, c[Other(i)], start)

FlowInv == ~panicked => \E c : Flow(c)

StreamInv == Base /\ ReadInv /\ FlowInv

-----------------------------------------------------------------------------
(* A client that is closed when nothing more arrives *)

\* Input takes every frame that is there
NothingWhole == spc # "input" => ~FrameValid(Left)

\* Nothing more arrives, unless Serve has ended
Settled == clientClosed /\ spc # "done"

\* Once the client is closed every byte has been taken, or Serve has ended
CloseInv ==
  /\ ~panicked /\ NothingWhole
  /\ \A i \in Sides : rxClosed[i] => clientClosed
  /\ Settled => wrote = MaxBytes /\ (spc = "input" => lastContentLen = 0)
  /\ \E c : Flow(c) /\ (Settled => c = wrote)

-----------------------------------------------------------------------------
(* Bytes *)

LEMMA SidesFacts ==
  /\ \A i \in Sides : Other(i) \in Sides /\ Other(Other(i)) = i
  /\ \A i, j \in Sides : Other(i) = Other(j) => i = j
BY DEF Sides, Server, Client, Other

\* Concatenation under a name, which the provers need not look into
Cat(s, t) == s \o t

LEMMA Concatenated ==
  \A s, t, u \in Seq(Element) : t \o u \in Seq(Element) /\ (s \o t) \o u = s \o (t \o u)
<1> SUFFICES ASSUME NEW s \in Seq(Element), NEW t \in Seq(Element), NEW u \in Seq(Element)
             PROVE  t \o u \in Seq(Element) /\ (s \o t) \o u = s \o (t \o u)
  OBVIOUS
<1>1. t \o u \in Seq(Element)
  BY ConcatProperties
<1>2. (s \o t) \o u = s \o (t \o u)
  BY ConcatAssociative, SMTT(60)
<1> QED
  BY <1>1, <1>2

LEMMA CatAssociative ==
  \A s, t, u \in Seq(Element) : Cat(s, t) \in Seq(Element) /\ Cat(Cat(s, t), u) = Cat(s, Cat(t, u))
BY Concatenated, Zenon DEF Cat

LEMMA BytesFacts ==
  ASSUME NEW i \in Sides, NEW x \in Nat, NEW l \in Nat
  PROVE  /\ Bytes(i, x, l) \in Seq(Element) /\ Len(Bytes(i, x, l)) = l
         /\ \A k \in 1..l : Bytes(i, x, l)[k] = Byte(i, x + k - 1)
<1>1. \A k \in 1..l : Byte(i, x + k - 1) \in Element
  BY DEF Byte, Element
<1> QED
  BY <1>1 DEF Bytes

LEMMA BytesConcat ==
  ASSUME NEW i \in Sides, NEW x \in Nat, NEW l \in Nat, NEW k \in Nat
  PROVE  Bytes(i, x, l) \o Bytes(i, x + l, k) = Bytes(i, x, l + k)
<1> DEFINE s == Bytes(i, x, l)
           t == Bytes(i, x + l, k)
           u == Bytes(i, x, l + k)
<1>1. x + l \in Nat /\ l + k \in Nat
  OBVIOUS
<1>2. /\ s \in Seq(Element) /\ Len(s) = l /\ \A j \in 1..l : s[j] = Byte(i, x + j - 1)
      /\ t \in Seq(Element) /\ Len(t) = k /\ \A j \in 1..k : t[j] = Byte(i, x + l + j - 1)
      /\ u \in Seq(Element) /\ Len(u) = l + k /\ \A j \in 1..l + k : u[j] = Byte(i, x + j - 1)
  BY <1>1, BytesFacts
<1> HIDE DEF s, t, u
<1>3. /\ s \o t \in Seq(Element) /\ Len(s \o t) = l + k
      /\ \A j \in 1..l + k : (s \o t)[j] = IF j <= l THEN s[j] ELSE t[j - l]
  BY <1>2, ConcatProperties
<1>4. ASSUME NEW j \in 1..l + k PROVE (s \o t)[j] = u[j]
  <2>1. CASE j <= l
    BY <1>2, <1>3, <2>1
  <2>2. CASE ~(j <= l)
    <3>1. j - l \in 1..k /\ x + l + (j - l) - 1 = x + j - 1
      BY <2>2
    <3>2. t[j - l] = Byte(i, x + j - 1)
      BY <1>2, <3>1
    <3> QED BY <1>2, <1>3, <2>2, <3>2
  <2> QED BY <2>1, <2>2
<1>5. s \o t = u
  BY <1>2, <1>3, <1>4, SeqEqual
<1> QED
  BY <1>5 DEF s, t, u

\* SubSeq under a name that the provers do not interpret
Part(s, p, q) == SubSeq(s, p, q)

LEMMA BytesPart ==
  ASSUME NEW i \in Sides, NEW x \in Nat, NEW l \in Nat, NEW p \in Nat \ {0}, NEW q \in Nat,
         q <= l, p <= q + 1, NEW y, y = x + p - 1, NEW d, d = q - p + 1
  PROVE  Part(Bytes(i, x, l), p, q) = Bytes(i, y, d)
<1> DEFINE s == Bytes(i, x, l)
           t == Bytes(i, x + p - 1, q - p + 1)
           u == SubSeq(s, p, q)
<1>1. x + p - 1 \in Nat /\ q - p + 1 \in Nat
  OBVIOUS
<1>2. /\ s \in Seq(Element) /\ Len(s) = l /\ \A j \in 1..l : s[j] = Byte(i, x + j - 1)
      /\ t \in Seq(Element) /\ Len(t) = q - p + 1
      /\ \A j \in 1..q - p + 1 : t[j] = Byte(i, x + p - 1 + j - 1)
  BY <1>1, BytesFacts
<1> HIDE DEF s, t
<1>3. \A j \in p..q : s[j] \in Element
  BY <1>2
<1>4. /\ u \in Seq(Element) /\ Len(u) = q - p + 1
      /\ \A j \in 1..q - p + 1 : u[j] = s[p + j - 1]
  BY <1>3, SubSeqProperties
<1> HIDE DEF u
<1>5. \A j \in 1..q - p + 1 : u[j] = t[j]
  <2> TAKE j \in 1..q - p + 1
  <2>1. p + j - 1 \in 1..l /\ x + (p + j - 1) - 1 = x + p - 1 + j - 1
    OBVIOUS
  <2>2. s[p + j - 1] = Byte(i, x + p - 1 + j - 1)
    BY <1>2, <2>1
  <2> QED BY <1>2, <1>4, <2>2
<1>6. u = t
  BY <1>2, <1>4, <1>5, SeqEqual
<1> QED
  BY <1>6 DEF s, t, u, Part

\* Of l bytes of side i, which follow its first g, a Read into a buffer of size p takes m
ReadsBytes(i, g, l, p, m) ==
  /\ m \in 0..l
  /\ Bytes(i, 1, g) \o SubSeq(Bytes(i, g + 1, l), 1, m) = Bytes(i, 1, g + m)
  /\ SubSeq(Bytes(i, g + 1, l), p + 1, l) = Bytes(i, g + m + 1, l - m)

LEMMA ReadSome ==
  ASSUME NEW i \in Sides, NEW g \in Nat, NEW l \in Nat, NEW p \in Nat \ {0}
  PROVE  ReadsBytes(i, g, l, p, Least(p, l))
<1> DEFINE m == Least(p, l)
<1>1. m \in 0..l /\ m = (IF p < l THEN p ELSE l)
  BY DEF Least
<1> HIDE DEF m
<1>2. SubSeq(Bytes(i, g + 1, l), 1, m) = Bytes(i, g + 1, m)
  <2>1. g + 1 \in Nat /\ 1 \in Nat \ {0} /\ m \in Nat /\ m <= l /\ 1 <= m + 1 /\ m = m - 1 + 1
    BY <1>1
  <2> DEFINE x == g + 1
  <2>2. x \in Nat /\ x = x + 1 - 1
    OBVIOUS
  <2> HIDE DEF x
  <2>3. Part(Bytes(i, x, l), 1, m) = Bytes(i, x, m)
    BY <2>1, <2>2, BytesPart
  <2> QED BY <2>3 DEF x, Part
<1>3. Bytes(i, 1, g) \o Bytes(i, g + 1, m) = Bytes(i, 1, g + m)
  <2>1. 1 \in Nat /\ m \in Nat /\ 1 + g = g + 1
    BY <1>1
  <2>2. Bytes(i, 1, g) \o Bytes(i, 1 + g, m) = Bytes(i, 1, g + m)
    <3>1. \A x, k \in Nat : Bytes(i, x, g) \o Bytes(i, x + g, k) = Bytes(i, x, g + k)
      BY BytesConcat, Zenon
    <3> QED BY <2>1, <3>1, Zenon
  <2> QED BY <2>1, <2>2
<1>4. SubSeq(Bytes(i, g + 1, l), p + 1, l) = Bytes(i, g + m + 1, l - m)
  <2>1. CASE p <= l
    <3>1. m = p
      BY <1>1, <2>1
    <3> DEFINE x == g + 1
               q == p + 1
               y == g + m + 1
               d == l - m
    <3>2. x \in Nat /\ q \in Nat \ {0} /\ q <= l + 1 /\ y = x + q - 1 /\ d = l - q + 1 /\ l <= l
      BY <2>1, <3>1
    <3> HIDE DEF x, q, y, d
    <3>3. Part(Bytes(i, x, l), q, l) = Bytes(i, y, d)
      BY <3>2, BytesPart
    <3> QED BY <3>3 DEF x, q, y, d, Part
  <2>2. CASE l < p
    <3>1. m = l /\ l - m = 0 /\ g + m + 1 \in Nat
      BY <1>1, <2>2
    <3>2. SubSeq(Bytes(i, g + 1, l), p + 1, l) = <<>>
      BY <2>2, SubSeqEmpty
    <3>3. Bytes(i, g + m + 1, l - m) = <<>>
      BY <3>1, BytesFacts, EmptySeq
    <3> QED BY <3>2, <3>3
  <2> QED BY <2>1, <2>2
<1> QED
  BY <1>1, <1>2, <1>3, <1>4, Zenon DEF m, ReadsBytes

-----------------------------------------------------------------------------
(* Memory *)

EltsIn(m, s) == SubSeq(m[s.arr].elts, s.lo, s.hi)

LEMMA PartFacts ==
  ASSUME NEW S, NEW u \in Seq(S), NEW p \in Nat \ {0}, NEW q \in Nat, q <= Len(u), p <= q + 1
  PROVE  /\ SubSeq(u, p, q) \in Seq(S) /\ Len(SubSeq(u, p, q)) = q - p + 1
         /\ \A j \in 1..q - p + 1 : SubSeq(u, p, q)[j] = u[p + j - 1]
<1>1. \A j \in p..q : u[j] \in S
  OBVIOUS
<1>2. (IF p <= q THEN q - p + 1 ELSE 0) = q - p + 1
  OBVIOUS
<1> QED
  BY <1>1, <1>2, SubSeqProperties

LEMMA PartSame ==
  ASSUME NEW S, NEW u \in Seq(S), NEW v \in Seq(S), NEW p \in Nat \ {0}, NEW q \in Nat,
         q <= Len(u), q <= Len(v), p <= q + 1, \A j \in p..q : u[j] = v[j]
  PROVE  Part(u, p, q) = Part(v, p, q)
<1> DEFINE s == SubSeq(u, p, q)
           t == SubSeq(v, p, q)
<1>1. /\ s \in Seq(S) /\ Len(s) = q - p + 1 /\ \A j \in 1..q - p + 1 : s[j] = u[p + j - 1]
      /\ t \in Seq(S) /\ Len(t) = q - p + 1 /\ \A j \in 1..q - p + 1 : t[j] = v[p + j - 1]
  BY PartFacts
<1> HIDE DEF s, t
<1>2. \A j \in 1..q - p + 1 : s[j] = t[j]
  <2> TAKE j \in 1..q - p + 1
  <2>1. p + j - 1 \in p..q
    OBVIOUS
  <2> QED BY <1>1, <2>1
<1>3. s = t
  BY <1>1, <1>2, SeqEqual
<1> QED
  BY <1>3 DEF s, t, Part

LEMMA StoredFacts ==
  ASSUME NEW e \in Seq(Element), NEW es \in Seq(Element), NEW k \in Nat \ {0}, k <= Len(e) + 1
  PROVE  /\ Stored(e, k, es) \in Seq(Element)
         /\ Len(Stored(e, k, es)) = (IF k + Len(es) - 1 > Len(e) THEN k + Len(es) - 1 ELSE Len(e))
         /\ \A j \in 1..k - 1 : Stored(e, k, es)[j] = e[j]
         /\ \A j \in 1..Len(es) : Stored(e, k, es)[k + j - 1] = es[j]
<1> DEFINE l == IF k + Len(es) - 1 > Len(e) THEN k + Len(es) - 1 ELSE Len(e)
<1>1. l \in Nat /\ Len(es) \in Nat /\ Len(e) \in Nat
  OBVIOUS
<1>2. Stored(e, k, es) = [j \in 1..l |-> IF j \in k..k + Len(es) - 1 THEN es[j - k + 1] ELSE e[j]]
  BY DEF Stored
<1>3. \A j \in 1..l : (IF j \in k..k + Len(es) - 1 THEN es[j - k + 1] ELSE e[j]) \in Element
  <2> TAKE j \in 1..l
  <2>1. CASE j \in k..k + Len(es) - 1
    <3>1. j - k + 1 \in 1..Len(es)
      BY <1>1, <2>1
    <3> QED BY <2>1, <3>1
  <2>2. CASE j \notin k..k + Len(es) - 1
    <3>1. j \in 1..Len(e)
      BY <1>1, <2>2
    <3> QED BY <2>2, <3>1
  <2> QED BY <2>1, <2>2
<1>4. Stored(e, k, es) \in Seq(Element) /\ Len(Stored(e, k, es)) = l
  BY <1>1, <1>2, <1>3
<1>5. \A j \in 1..k - 1 : Stored(e, k, es)[j] = e[j]
  BY <1>1, <1>2
<1>6. \A j \in 1..Len(es) : Stored(e, k, es)[k + j - 1] = es[j]
  <2> TAKE j \in 1..Len(es)
  <2>1. k + j - 1 \in 1..l /\ k + j - 1 \in k..k + Len(es) - 1 /\ (k + j - 1) - k + 1 = j
    BY <1>1
  <2> QED BY <1>2, <2>1
<1> QED
  BY <1>4, <1>5, <1>6

\* What is stored behind a slice extends it
LEMMA StoredBehind ==
  ASSUME NEW e \in Seq(Element), NEW es \in Seq(Element), NEW lo \in Nat \ {0}, NEW hi \in Nat,
         lo <= hi + 1, hi <= Len(e)
  PROVE  SubSeq(Stored(e, hi + 1, es), lo, hi + Len(es)) = SubSeq(e, lo, hi) \o es
<1> DEFINE u == Stored(e, hi + 1, es)
           s == SubSeq(u, lo, hi + Len(es))
           t == SubSeq(e, lo, hi)
<1>1. hi + 1 \in Nat \ {0} /\ hi + 1 <= Len(e) + 1 /\ Len(es) \in Nat /\ Len(e) \in Nat
      /\ hi + Len(es) \in Nat /\ lo <= hi + Len(es) + 1
  OBVIOUS
<1>2. /\ u \in Seq(Element) /\ Len(u) >= hi + Len(es)
      /\ \A j \in 1..hi : u[j] = e[j]
      /\ \A j \in 1..Len(es) : u[hi + j] = es[j]
  <2> DEFINE k == hi + 1
  <2>1. k \in Nat \ {0} /\ k <= Len(e) + 1 /\ k - 1 = hi
    OBVIOUS
  <2>2. \A j \in 1..Len(es) : k + j - 1 = hi + j
    BY <1>1
  <2> HIDE DEF k
  <2>3. /\ Stored(e, k, es) \in Seq(Element)
        /\ Len(Stored(e, k, es)) = (IF k + Len(es) - 1 > Len(e) THEN k + Len(es) - 1 ELSE Len(e))
        /\ \A j \in 1..k - 1 : Stored(e, k, es)[j] = e[j]
        /\ \A j \in 1..Len(es) : Stored(e, k, es)[k + j - 1] = es[j]
    BY <2>1, StoredFacts
  <2>4. u = Stored(e, k, es)
    BY DEF k
  <2> HIDE DEF u
  <2> QED BY <1>1, <2>1, <2>2, <2>3, <2>4
<1> HIDE DEF u
<1>3. /\ s \in Seq(Element) /\ Len(s) = hi + Len(es) - lo + 1
      /\ \A j \in 1..hi + Len(es) - lo + 1 : s[j] = u[lo + j - 1]
  BY <1>1, <1>2, PartFacts
<1>4. /\ t \in Seq(Element) /\ Len(t) = hi - lo + 1
      /\ \A j \in 1..hi - lo + 1 : t[j] = e[lo + j - 1]
  BY PartFacts
<1> HIDE DEF s, t
<1>5. /\ t \o es \in Seq(Element) /\ Len(t \o es) = Len(t) + Len(es)
      /\ \A j \in 1..Len(t) + Len(es) : (t \o es)[j] = IF j <= Len(t) THEN t[j] ELSE es[j - Len(t)]
  BY <1>4, ConcatProperties
<1> DEFINE d == hi - lo + 1
<1>d. /\ d \in Nat /\ lo + d = hi + 1 /\ Len(t) = d /\ Len(s) = d + Len(es)
      /\ \A j \in 1..d + Len(es) : s[j] = u[lo + j - 1]
      /\ \A j \in 1..d : t[j] = e[lo + j - 1]
      /\ \A j \in 1..d + Len(es) : (t \o es)[j] = IF j <= d THEN t[j] ELSE es[j - d]
  <2>1. hi + Len(es) - lo + 1 = d + Len(es)
    BY <1>1
  <2>2. d \in Nat /\ lo + d = hi + 1
    BY <1>1
  <2>3. Len(t) = d /\ \A j \in 1..d : t[j] = e[lo + j - 1]
    BY <1>4, Zenon
  <2>4. Len(s) = d + Len(es) /\ \A j \in 1..d + Len(es) : s[j] = u[lo + j - 1]
    BY <1>3, <2>1, Zenon
  <2>5. \A j \in 1..d + Len(es) : (t \o es)[j] = IF j <= d THEN t[j] ELSE es[j - d]
    BY <1>5, <2>3, Zenon
  <2> QED BY <2>2, <2>3, <2>4, <2>5
<1> HIDE DEF d
<1>6. \A j \in 1..Len(s) : s[j] = (t \o es)[j]
  <2> SUFFICES ASSUME NEW j \in 1..d + Len(es) PROVE s[j] = (t \o es)[j]
    BY <1>d
  <2>1. CASE j <= d
    <3>1. lo + j - 1 \in 1..hi /\ j \in 1..d
      BY <1>1, <1>d, <2>1
    <3> QED BY <1>2, <1>d, <2>1, <3>1
  <2>2. CASE ~(j <= d)
    <3>1. j - d \in 1..Len(es) /\ hi + (j - d) = lo + j - 1
      BY <1>1, <1>d, <2>2
    <3>2. u[lo + j - 1] = es[j - d]
      BY <1>2, <3>1
    <3> QED BY <1>d, <2>2, <3>2
  <2> QED BY <2>1, <2>2
<1>7. s = t \o es
  <2>1. Len(s) = Len(t \o es)
    BY <1>5, <1>d
  <2> QED BY <1>3, <1>5, <1>6, <2>1, SeqEqual
<1> QED
  BY <1>7 DEF s, t, u

LEMMA ImageFacts ==
  ASSUME NEW s, NEW l \in Nat, NEW T, T = {s[k].arr : k \in 1..l}
  PROVE  IsFiniteSet(T) /\ Cardinality(T) \in Nat /\ Cardinality(T) <= l
<1> DEFINE f == [k \in 1..l |-> s[k].arr]
<1>1. IsFiniteSet(1..l) /\ Cardinality(1..l) = l
  <2>1. 1 \in Int /\ l \in Int
    OBVIOUS
  <2>2. IsFiniteSet(1..l) /\ Cardinality(1..l) = IF 1 > l THEN 0 ELSE l - 1 + 1
    BY <2>1, FS_Interval, Zenon
  <2> QED BY <2>2
<1>2. f \in Surjection(1..l, T)
  BY DEF Surjection
<1>3. IsFiniteSet(T) /\ Cardinality(T) <= Cardinality(1..l)
  BY <1>1, <1>2, FS_Surjection
<1>4. Cardinality(T) \in Nat
  BY <1>3, FS_CardinalityType
<1> QED
  BY <1>1, <1>3, <1>4

LEMMA UnionFacts ==
  ASSUME NEW S, NEW T, IsFiniteSet(S), IsFiniteSet(T)
  PROVE  /\ IsFiniteSet(S \cup T) /\ Cardinality(S \cup T) \in Nat
         /\ Cardinality(S \cup T) <= Cardinality(S) + Cardinality(T)
<1>1. /\ IsFiniteSet(S \cup T)
      /\ Cardinality(S \cup T) = Cardinality(S) + Cardinality(T) - Cardinality(S \cap T)
  BY FS_Union
<1>2. IsFiniteSet(S \cap T)
  BY FS_Intersection
<1>3. Cardinality(S) \in Nat /\ Cardinality(T) \in Nat /\ Cardinality(S \cap T) \in Nat
      /\ Cardinality(S \cup T) \in Nat
  BY <1>1, <1>2, FS_CardinalityType
<1> QED
  BY <1>1, <1>3

LEMMA UsedFacts ==
  /\ b.arr \in Used
  /\ \A k \in DOMAIN recycle : recycle[k].arr \in Used
  /\ \A i \in Sides : \A k \in DOMAIN rx[i] : rx[i][k].arr \in Used
BY DEF Used, Slices

\* There is always an array that nobody refers to
LEMMA UnusedFacts ==
  ASSUME SrpcAssumption, QueueType
  PROVE  Unused \in Arrays /\ Unused \notin Used
<1> DEFINE R == {recycle[k].arr : k \in 1..Len(recycle)}
           X(i) == {rx[i][k].arr : k \in 1..Len(rx[i])}
           A == {b.arr} \cup R
           B == X(Server) \cup X(Client)
<1>1. RxCap \in Nat /\ RecycleCap \in Nat /\ Server \in Sides /\ Client \in Sides /\ Sides = {Server, Client}
  BY DEF SrpcAssumption, Sides
<1>2. /\ Len(recycle) \in Nat /\ Len(recycle) <= RecycleCap /\ DOMAIN recycle = 1..Len(recycle)
      /\ \A i \in Sides : Len(rx[i]) \in Nat /\ Len(rx[i]) <= RxCap /\ DOMAIN rx[i] = 1..Len(rx[i])
  BY DEF QueueType
<1>3. Used = A \cup B
  <2>1. ASSUME NEW a \in Used PROVE a \in A \cup B
    <3>1. PICK s \in Slices : a = s.arr
      BY DEF Used
    <3>2. \/ s = b
          \/ \E k \in DOMAIN recycle : s = recycle[k]
          \/ \E i \in Sides : \E k \in DOMAIN rx[i] : s = rx[i][k]
      BY DEF Slices
    <3>3. CASE s = b
      BY <3>1, <3>3
    <3>4. CASE \E k \in DOMAIN recycle : s = recycle[k]
      BY <1>2, <3>1, <3>4
    <3>5. CASE \E i \in Sides : \E k \in DOMAIN rx[i] : s = rx[i][k]
      BY <1>1, <1>2, <3>1, <3>5
    <3> QED BY <3>2, <3>3, <3>4, <3>5
  <2>2. A \subseteq Used
    BY <1>2, UsedFacts
  <2>3. \A i \in Sides : X(i) \subseteq Used
    BY <1>2, UsedFacts
  <2> QED BY <1>1, <2>1, <2>2, <2>3
<1>4. IsFiniteSet(R) /\ Cardinality(R) \in Nat /\ Cardinality(R) <= RecycleCap
  <2> DEFINE l == Len(recycle)
  <2>1. l \in Nat /\ l <= RecycleCap /\ R = {recycle[k].arr : k \in 1..l}
    BY <1>2
  <2> HIDE DEF l, R
  <2>2. IsFiniteSet(R) /\ Cardinality(R) \in Nat /\ Cardinality(R) <= l
    BY <2>1, ImageFacts, Zenon
  <2> QED BY <1>1, <2>1, <2>2
<1>5. ASSUME NEW i \in Sides
      PROVE  IsFiniteSet(X(i)) /\ Cardinality(X(i)) \in Nat /\ Cardinality(X(i)) <= RxCap
  <2> DEFINE l == Len(rx[i])
             T == X(i)
             s == rx[i]
  <2>1. l \in Nat /\ l <= RxCap /\ T = {s[k].arr : k \in 1..l}
    BY <1>2
  <2> HIDE DEF l, T, s
  <2>2. IsFiniteSet(T) /\ Cardinality(T) \in Nat /\ Cardinality(T) <= l
    BY <2>1, ImageFacts, Zenon
  <2>3. IsFiniteSet(T) /\ Cardinality(T) \in Nat /\ Cardinality(T) <= RxCap
    BY <1>1, <2>1, <2>2
  <2> QED BY <2>3 DEF T
<1>6. IsFiniteSet({b.arr}) /\ Cardinality({b.arr}) = 1
  BY FS_Singleton
<1> HIDE DEF R, X
<1>7. IsFiniteSet(A) /\ Cardinality(A) \in Nat /\ Cardinality(A) <= 1 + RecycleCap
  BY <1>1, <1>4, <1>6, UnionFacts
<1>8. IsFiniteSet(B) /\ Cardinality(B) \in Nat /\ Cardinality(B) <= RxCap + RxCap
  BY <1>1, <1>5, UnionFacts
<1> HIDE DEF A, B
<1>9. IsFiniteSet(Used) /\ Cardinality(Used) \in Nat /\ Cardinality(Used) <= 1 + RecycleCap + RxCap + RxCap
  BY <1>1, <1>3, <1>7, <1>8, UnionFacts
<1>10. Cardinality(Arrays) = 2 * RxCap + RecycleCap + 3
  <2> DEFINE top == 2 * RxCap + RecycleCap + 3
  <2>1. 1 \in Int /\ top \in Int /\ top >= 1
    BY <1>1
  <2>2. Arrays = 1..top
    BY DEF Arrays
  <2> HIDE DEF top
  <2>3. Cardinality(1..top) = IF 1 > top THEN 0 ELSE top - 1 + 1
    BY <2>1, FS_Interval, Zenon
  <2>4. Cardinality(Arrays) = top
    BY <2>1, <2>2, <2>3
  <2> QED BY <2>4 DEF top
<1>11. ~(Arrays \subseteq Used)
  <2>1. Arrays \subseteq Used => Cardinality(Arrays) <= Cardinality(Used)
    BY <1>9, FS_Subset
  <2> QED BY <1>1, <1>9, <1>10, <2>1
<1> QED
  BY <1>11 DEF Unused

\* What append does to the memory: Serve has a buffer with the elements, and every slice
\* that does not reach behind the one extended keeps its elements.
Extended(s, es) ==
  /\ mem' \in [Arrays -> Array] /\ b' \in Buffer /\ Within(mem', b')
  /\ EltsIn(mem', b') = Elts(s) \o es
  /\ b'.hi - b'.lo + 1 = s.hi - s.lo + 1 + Len(es)
  /\ (b'.arr = s.arr /\ b'.lo = s.lo) \/ b'.arr \notin Used
  /\ \A q \in Slice : q.arr \in Used /\ Within(mem, q) /\ (q.arr = s.arr => q.hi <= s.hi) =>
       Within(mem', q) /\ EltsIn(mem', q) = EltsIn(mem, q)

LEMMA AppendInPlace ==
  ASSUME mem \in [Arrays -> Array], NEW s \in Buffer, Within(mem, s), s.arr \in Used,
         NEW es \in Seq(Element), AppendTo(s, es), Fits(s, es)
  PROVE  Extended(s, es)
<1> DEFINE a == s.arr
           e == mem[a].elts
           v == Stored(e, s.hi + 1, es)
<1>1. /\ a \in Arrays /\ s.lo \in Nat \ {0} /\ s.hi \in Nat /\ s.lo <= s.hi + 1 /\ s.hi <= Len(e)
      /\ s.hi <= mem[a].cap /\ e \in Seq(Element) /\ mem[a].cap \in Nat /\ Len(e) \in Nat
      /\ Len(es) \in Nat /\ s.hi + Len(es) <= mem[a].cap
  <2>1. a \in Arrays /\ s.lo \in Nat \ {0} /\ s.hi \in Nat
    BY DEF Buffer
  <2>2. mem[a] \in Array
    BY <2>1
  <2>3. e \in Seq(Element) /\ mem[a].cap \in Nat
    BY <2>2 DEF Array
  <2>4. Len(e) \in Nat /\ Len(es) \in Nat
    BY <2>3
  <2> QED BY <2>1, <2>3, <2>4 DEF Within, Fits
<1>2. /\ b' = [s EXCEPT !.hi = s.hi + Len(es)]
      /\ mem' = [[x \in Arrays |-> IF x \in Used \cup {a} THEN mem[x] ELSE Empty]
                   EXCEPT ![a].elts = Stored(@, s.hi + 1, es)]
  BY DEF AppendTo
<1>3. /\ mem'[a] = [mem[a] EXCEPT !.elts = v]
      /\ \A x \in Arrays \ {a} : mem'[x] = IF x \in Used THEN mem[x] ELSE Empty
      /\ DOMAIN mem' = Arrays /\ mem' = [x \in Arrays |-> mem'[x]]
  BY <1>1, <1>2
<1> DEFINE hi == s.hi
<1>h. hi \in Nat /\ hi <= Len(e) /\ Len(e) \in Nat /\ hi + 1 \in Nat \ {0} /\ hi + 1 <= Len(e) + 1 /\ hi + 1 - 1 = hi
  <2>1. hi \in Nat /\ hi <= Len(e) /\ Len(e) \in Nat
    BY <1>1
  <2> HIDE DEF hi, e
  <2> QED BY <2>1
<1>4. /\ v \in Seq(Element) /\ Len(v) \in Nat /\ Len(v) >= s.hi + Len(es) /\ Len(v) >= Len(e)
      /\ \A j \in 1..s.hi : v[j] = e[j]
  <2> DEFINE k == s.hi + 1
  <2>1. k \in Nat \ {0} /\ k <= Len(e) + 1 /\ k - 1 = s.hi
    BY <1>h
  <2>2. v = Stored(e, k, es)
    OBVIOUS
  <2> HIDE DEF k, v, e
  <2>3. /\ Stored(e, k, es) \in Seq(Element)
        /\ Len(Stored(e, k, es)) = (IF k + Len(es) - 1 > Len(e) THEN k + Len(es) - 1 ELSE Len(e))
        /\ \A j \in 1..k - 1 : Stored(e, k, es)[j] = e[j]
    BY <1>1, <2>1, StoredFacts
  <2>4. Len(v) \in Nat
    BY <2>2, <2>3
  <2>5. v \in Seq(Element) /\ \A j \in 1..s.hi : v[j] = e[j]
    BY <2>1, <2>2, <2>3
  <2>6. Len(v) = (IF s.hi + Len(es) > Len(e) THEN s.hi + Len(es) ELSE Len(e))
    <3>1. k + Len(es) - 1 = s.hi + Len(es)
      BY <1>1, <2>1
    <3> QED BY <2>2, <2>3, <3>1
  <2>7. Len(v) >= s.hi + Len(es) /\ Len(v) >= Len(e)
    BY <1>1, <2>6
  <2> QED BY <2>4, <2>5, <2>7
<1>6. SubSeq(v, s.lo, s.hi + Len(es)) = SubSeq(e, s.lo, s.hi) \o es
  BY <1>1, StoredBehind
<1> HIDE DEF v
<1>7. /\ b'.arr = a /\ b'.lo = s.lo /\ b'.hi = s.hi + Len(es) /\ b' \in Buffer
      /\ mem'[a].elts = v /\ mem'[a].cap = mem[a].cap
  <2>1. mem[a] \in Array
    BY <1>1
  <2>2. mem'[a].elts = v /\ mem'[a].cap = mem[a].cap
    BY <1>3, <2>1 DEF Array
  <2>3. s.hi + Len(es) \in Nat
    BY <1>1
  <2>4. b'.arr = a /\ b'.lo = s.lo /\ b'.hi = s.hi + Len(es) /\ b' \in Buffer
    BY <1>2, <2>3 DEF Buffer
  <2> QED BY <2>2, <2>4
<1>8. mem' \in [Arrays -> Array]
  <2>1. Empty \in Array
    BY EmptySeq DEF Empty, Array
  <2>2. mem'[a] \in Array
    <3>1. mem[a] \in Array
      BY <1>1
    <3> QED BY <1>3, <1>4, <3>1 DEF Array
  <2>3. \A x \in Arrays : mem'[x] \in Array
    BY <1>3, <2>1, <2>2
  <2> QED BY <1>3, <2>3
<1>9. Within(mem', b')
  BY <1>1, <1>4, <1>7 DEF Within
<1>10. EltsIn(mem', b') = Elts(s) \o es
  BY <1>6, <1>7 DEF EltsIn, Elts
<1>11. ASSUME NEW q \in Slice, q.arr \in Used, Within(mem, q), q.arr = s.arr => q.hi <= s.hi
       PROVE  Within(mem', q) /\ EltsIn(mem', q) = EltsIn(mem, q)
  <2>1. q.arr \in Arrays /\ q.lo \in Nat \ {0} /\ q.hi \in Nat
    BY DEF Slice
  <2>2. CASE q.arr # a
    <3>1. mem'[q.arr] = mem[q.arr]
      BY <1>3, <1>11, <2>1, <2>2
    <3> QED BY <1>11, <3>1 DEF Within, EltsIn
  <2>3. CASE q.arr = a
    <3>1. q.hi <= s.hi /\ q.lo <= q.hi + 1 /\ q.hi <= Len(e) /\ q.hi <= mem[a].cap
      BY <1>11, <2>3 DEF Within
    <3>2. q.hi <= Len(v) /\ \A j \in q.lo..q.hi : v[j] = e[j]
      <4> HIDE DEF e
      <4>1. \A j \in q.lo..q.hi : j \in 1..s.hi
        BY <1>1, <2>1, <3>1
      <4>2. q.hi <= Len(v)
        BY <1>1, <1>4, <2>1, <3>1
      <4> QED BY <1>4, <4>1, <4>2
    <3> HIDE DEF e
    <3>3. Part(v, q.lo, q.hi) = Part(e, q.lo, q.hi)
      <4>1. /\ v \in Seq(Element) /\ e \in Seq(Element) /\ q.lo \in Nat \ {0} /\ q.hi \in Nat
            /\ q.hi <= Len(v) /\ q.hi <= Len(e) /\ q.lo <= q.hi + 1
        BY <1>1, <1>4, <2>1, <3>1, <3>2
      <4> QED BY <4>1, <3>2, PartSame, Zenon
    <3>4. SubSeq(v, q.lo, q.hi) = SubSeq(e, q.lo, q.hi)
      BY <3>3 DEF Part
    <3> QED BY <1>7, <2>3, <3>1, <3>2, <3>4 DEF Within, EltsIn, e
  <2> QED BY <2>2, <2>3
<1>12. b'.hi - b'.lo + 1 = s.hi - s.lo + 1 + Len(es)
  BY <1>1, <1>7
<1> QED
  BY <1>7, <1>8, <1>9, <1>10, <1>11, <1>12 DEF Extended

\* A buffer in an array that nobody referred to
LEMMA NewBuffer ==
  ASSUME mem \in [Arrays -> Array], Unused \in Arrays, Unused \notin Used,
         NEW c \in Nat, NEW es \in Seq(Element), c >= Len(es),
         b' = [arr |-> Unused, lo |-> 1, hi |-> Len(es)],
         \A x \in Arrays \ {Unused} : x \in Used => mem'[x] = mem[x],
         \A x \in Arrays \ {Unused} : mem'[x] \in {mem[x], Empty},
         DOMAIN mem' = Arrays, mem' = [x \in Arrays |-> mem'[x]],
         mem'[Unused] = [cap |-> c, elts |-> es]
  PROVE  /\ mem' \in [Arrays -> Array] /\ b' \in Buffer /\ Within(mem', b')
         /\ EltsIn(mem', b') = es /\ b'.hi - b'.lo + 1 = Len(es) /\ b'.arr \notin Used
         /\ \A q \in Slice : q.arr \in Used /\ Within(mem, q) =>
              Within(mem', q) /\ EltsIn(mem', q) = EltsIn(mem, q)
<1>1. Len(es) \in Nat /\ SubSeq(es, 1, Len(es)) = es
  BY SubSeqFull
<1>2. b' \in Buffer /\ b'.arr = Unused /\ b'.lo = 1 /\ b'.hi = Len(es)
  BY <1>1 DEF Buffer
<1>3. mem' \in [Arrays -> Array]
  <2>1. Empty \in Array
    BY EmptySeq DEF Empty, Array
  <2>2. mem'[Unused] \in Array
    BY DEF Array
  <2>3. \A x \in Arrays : mem'[x] \in Array
    BY <2>1, <2>2
  <2> QED BY <2>3
<1>4. mem'[Unused].elts = es /\ mem'[Unused].cap = c
  OBVIOUS
<1>5. Within(mem', b')
  BY <1>1, <1>2, <1>4 DEF Within
<1>6. EltsIn(mem', b') = es /\ b'.hi - b'.lo + 1 = Len(es)
  BY <1>1, <1>2, <1>4 DEF EltsIn
<1>7. ASSUME NEW q \in Slice, q.arr \in Used, Within(mem, q)
      PROVE  Within(mem', q) /\ EltsIn(mem', q) = EltsIn(mem, q)
  <2>1. q.arr \in Arrays \ {Unused}
    BY <1>7 DEF Slice
  <2>2. mem'[q.arr] = mem[q.arr]
    BY <1>7, <2>1
  <2> QED BY <1>7, <2>2 DEF Within, EltsIn
<1> QED
  BY <1>2, <1>3, <1>5, <1>6, <1>7

LEMMA EltsFacts ==
  ASSUME mem \in [Arrays -> Array], NEW s \in Buffer, Within(mem, s)
  PROVE  Elts(s) \in Seq(Element) /\ Len(Elts(s)) = s.hi - s.lo + 1
<1>1. s.arr \in Arrays /\ s.lo \in Nat \ {0} /\ s.hi \in Nat
  BY DEF Buffer
<1>2. mem[s.arr].elts \in Seq(Element)
  BY <1>1 DEF Array
<1> QED
  BY <1>1, <1>2, PartFacts DEF Elts, Within

LEMMA AppendFacts ==
  ASSUME mem \in [Arrays -> Array], Unused \in Arrays, Unused \notin Used,
         NEW s \in Buffer, Within(mem, s), s.arr \in Used, NEW es \in Seq(Element), AppendTo(s, es)
  PROVE  Extended(s, es)
<1>1. CASE Fits(s, es)
  BY <1>1, AppendInPlace
<1>2. CASE ~Fits(s, es)
  <2> DEFINE l == s.hi - s.lo + 1 + Len(es)
             v == Elts(s) \o es
  <2>1. Elts(s) \in Seq(Element) /\ Len(Elts(s)) = s.hi - s.lo + 1 /\ Len(es) \in Nat
    BY EltsFacts
  <2>2. v \in Seq(Element) /\ Len(v) = l
    BY <2>1, ConcatProperties
  <2>3. l \in Nat /\ 2 * l \in Nat /\ 2 * l >= l
    BY <2>1, <2>2
  <2>4. /\ b' = [arr |-> Unused, lo |-> 1, hi |-> l]
        /\ mem' = [[x \in Arrays |-> IF x \in Used \cup {s.arr} THEN mem[x] ELSE Empty]
                     EXCEPT ![Unused] = [cap |-> 2 * l, elts |-> v]]
    BY <1>2 DEF AppendTo
  <2> HIDE DEF l, v
  <2>5. /\ mem'[Unused] = [cap |-> 2 * l, elts |-> v]
        /\ \A x \in Arrays \ {Unused} : x \in Used => mem'[x] = mem[x]
        /\ \A x \in Arrays \ {Unused} : mem'[x] \in {mem[x], Empty}
        /\ DOMAIN mem' = Arrays /\ mem' = [x \in Arrays |-> mem'[x]]
    BY <2>4
  <2>6. /\ mem' \in [Arrays -> Array] /\ b' \in Buffer /\ Within(mem', b')
        /\ EltsIn(mem', b') = v /\ b'.hi - b'.lo + 1 = Len(v) /\ b'.arr \notin Used
        /\ \A q \in Slice : q.arr \in Used /\ Within(mem, q) =>
             Within(mem', q) /\ EltsIn(mem', q) = EltsIn(mem, q)
    BY <2>2, <2>3, <2>4, <2>5, NewBuffer
  <2> QED BY <2>2, <2>6 DEF Extended, l, v
<1> QED
  BY <1>1, <1>2

-----------------------------------------------------------------------------
(* Types, and who may write where *)

\* The frames in the channels keep their elements
FramesKept ==
  \A i \in Sides : \A k \in DOMAIN rx[i] :
    Within(mem', rx[i][k]) /\ EltsIn(mem', rx[i][k]) = EltsIn(mem, rx[i][k])

LEMMA LeftFacts ==
  ASSUME ServeType
  PROVE  /\ Elts(b) \in Seq(Element) /\ Len(Elts(b)) = b.hi - b.lo + 1
         /\ Left \in Seq(Element) /\ Len(Left) = (b.hi - b.lo + 1) - n /\ Len(Left) \in Nat
         /\ \A j \in 1..Len(Left) : Left[j] = Elts(b)[n + j]
<1> DEFINE u == Elts(b)
           l == b.hi - b.lo + 1
           m == n + 1
<1>1. u \in Seq(Element) /\ Len(u) = l
  BY EltsFacts DEF ServeType
<1>2. n \in Nat /\ l \in Nat /\ n <= l
  BY DEF ServeType, Buffer, Within
<1>3. m \in Nat \ {0} /\ m <= l + 1 /\ l - m + 1 = l - n /\ l - n \in Nat /\ \A j \in 1..l - n : m + j - 1 = n + j
  <2> HIDE DEF l
  <2> QED BY <1>2
<1>4. Left = SubSeq(u, m, l)
  BY DEF Left
<1> HIDE DEF u, l, m
<1>5. /\ SubSeq(u, m, l) \in Seq(Element) /\ Len(SubSeq(u, m, l)) = l - m + 1
      /\ \A j \in 1..l - m + 1 : SubSeq(u, m, l)[j] = u[m + j - 1]
  BY <1>1, <1>2, <1>3, PartFacts
<1>6. Left \in Seq(Element) /\ Len(Left) = l - n /\ \A j \in 1..l - n : Left[j] = u[n + j]
  BY <1>3, <1>4, <1>5
<1>7. Len(Left) \in Nat /\ \A j \in 1..Len(Left) : Left[j] = u[n + j]
  BY <1>3, <1>6
<1> QED
  BY <1>1, <1>6, <1>7, Zenon DEF u, l

LEMMA HeaderFacts ==
  ASSUME NEW es \in Seq(Element), FrameValid(es)
  PROVE  /\ HeaderLen(es) \in {1, 2} /\ HeaderLen(es) \in 1..Len(es) /\ es[HeaderLen(es)] \in Element
         /\ es[HeaderLen(es)].len \in Nat /\ es[HeaderLen(es)].side \in Sides
         /\ HeaderLen(es) + es[HeaderLen(es)].len <= Len(es)
<1>1. Len(es) \in Nat /\ (es # <<>> => Len(es) >= 1)
  BY EmptySeq
<1>2. HeaderLen(es) \in {1, 2} /\ HeaderLen(es) \in 1..Len(es)
  BY <1>1 DEF FrameValid, HeaderLen
<1>3. es[HeaderLen(es)] \in Element
  BY <1>2
<1> QED
  BY <1>2, <1>3 DEF FrameValid, Element

LEMMA SlicesTyped ==
  ASSUME QueueType
  PROVE  /\ \A i \in Sides : rx[i] \in Seq(Slice) /\ Len(rx[i]) \in Nat /\ DOMAIN rx[i] = 1..Len(rx[i])
         /\ \A i \in Sides : \A k \in DOMAIN rx[i] : rx[i][k] \in Slice
         /\ Len(recycle) \in Nat /\ DOMAIN recycle = 1..Len(recycle)
         /\ \A k \in DOMAIN recycle : recycle[k] \in Slice
BY DEF QueueType

LEMMA ReadKeeps ==
  ASSUME ServeType, QueueType, OwnersInv, spc = "read", NEW es, Extended(b, es)
  PROVE  FramesKept /\ \A k \in DOMAIN recycle : Within(mem', recycle[k])
<1>1. Mine <= b.hi + 1 /\ Mine \in Nat /\ b.hi \in Nat
  BY DEF Mine, ServeType, Within, Buffer
<1>2. ASSUME NEW i \in Sides, NEW k \in DOMAIN rx[i]
      PROVE  Within(mem', rx[i][k]) /\ EltsIn(mem', rx[i][k]) = EltsIn(mem, rx[i][k])
  <2>1. rx[i][k] \in Slice /\ rx[i][k].arr \in Used /\ Within(mem, rx[i][k])
    BY SlicesTyped, UsedFacts DEF QueueType
  <2>2. rx[i][k].arr = b.arr => rx[i][k].hi < Mine
    BY DEF OwnersInv, Before
  <2>3. rx[i][k].arr = b.arr => rx[i][k].hi <= b.hi
    BY <1>1, <2>1, <2>2 DEF Slice
  <2> QED BY <2>1, <2>3 DEF Extended
<1>3. ASSUME NEW k \in DOMAIN recycle PROVE Within(mem', recycle[k])
  <2>1. recycle[k] \in Slice /\ recycle[k].arr \in Used /\ Within(mem, recycle[k]) /\ recycle[k].arr # b.arr
    BY SlicesTyped, UsedFacts DEF QueueType, OwnersInv
  <2> QED BY <2>1 DEF Extended
<1> QED
  BY <1>2, <1>3 DEF FramesKept

LEMMA ServeReadBase ==
  ASSUME SrpcAssumption, Base, ServeRead
  PROVE  /\ Base' /\ FramesKept
         /\ \E k \in 1..Len(stream) : /\ EltsIn(mem', b') = Elts(b) \o SubSeq(stream, 1, k)
                                      /\ stream' = SubSeq(stream, k + 1, Len(stream))
<1>0. SendType /\ ServeType /\ QueueType /\ ReadType /\ OwnersInv
  BY DEF Base
<1>1. PICK k \in 1..Len(stream) :
        AppendTo(b, SubSeq(stream, 1, k)) /\ stream' = SubSeq(stream, k + 1, Len(stream))
  BY DEF ServeRead
<1> DEFINE es == SubSeq(stream, 1, k)
<1>2. stream \in Seq(Element) /\ Len(stream) \in Nat /\ k \in Nat /\ k <= Len(stream)
  <2>1. stream \in Seq(Element)
    BY <1>0 DEF SendType
  <2> QED BY <2>1
<1>3. es \in Seq(Element) /\ stream' \in Seq(Element)
  <2>1. \A j \in 1..k : stream[j] \in Element
    BY <1>2
  <2>2. \A j \in k + 1..Len(stream) : stream[j] \in Element
    BY <1>2
  <2>3. k + 1 \in Int /\ 1 \in Int /\ k \in Int /\ Len(stream) \in Int
    BY <1>2
  <2>4. es \in Seq(Element)
    BY <2>1, <2>3, SubSeqProperties
  <2>5. SubSeq(stream, k + 1, Len(stream)) \in Seq(Element)
    BY <2>2, <2>3, SubSeqProperties
  <2> QED BY <1>1, <2>4, <2>5
<1>4. AppendTo(b, es)
  BY <1>1
<1> HIDE DEF es
<1>5. Extended(b, es)
  <2>1. mem \in [Arrays -> Array] /\ b \in Buffer /\ Within(mem, b)
    BY <1>0 DEF ServeType
  <2>2. Unused \in Arrays /\ Unused \notin Used /\ b.arr \in Used
    BY <1>0, UnusedFacts, UsedFacts
  <2> QED BY <1>3, <1>4, <2>1, <2>2, AppendFacts
<1>6. /\ spc = "read" /\ spc' = "input" /\ n' = 0 /\ lastContentLen' = 0 /\ lastFrameIsClient' = 0
      /\ UNCHANGED <<sendVars, rx, rxClosed, recycle, readVars, panicked>>
  BY DEF ServeRead
<1>7. FramesKept /\ \A q \in DOMAIN recycle : Within(mem', recycle[q])
  BY <1>0, <1>5, <1>6, ReadKeeps
<1>8. SendType'
  BY <1>0, <1>3, <1>6 DEF SendType, sendVars
<1>9. ServeType'
  <2>1. mem' \in [Arrays -> Array] /\ b' \in Buffer /\ Within(mem', b')
    BY <1>5 DEF Extended
  <2>2. 0 <= b'.hi - b'.lo + 1
    BY <2>1 DEF Buffer, Within
  <2>3. 0 \in Sides /\ 0 \in Nat
    BY DEF Sides, Server
  <2> QED BY <1>6, <2>1, <2>2, <2>3 DEF ServeType
<1>10. QueueType'
  BY <1>0, <1>6, <1>7 DEF QueueType, FramesKept
<1>11. ReadType'
  BY <1>0, <1>6 DEF ReadType, readVars
<1>12. OwnersInv'
  <2>1. (b'.arr = b.arr /\ b'.lo = b.lo) \/ b'.arr \notin Used
    BY <1>5 DEF Extended
  <2>2. Mine = b.lo /\ Mine' = b'.lo
    <3>1. n = 0 /\ lastContentLen = 0 /\ b.lo \in Nat
      BY <1>0, <1>6 DEF ServeType, Buffer
    <3>2. b'.lo \in Nat
      BY <1>5 DEF Extended, Buffer
    <3> QED BY <1>6, <3>1, <3>2 DEF Mine
  <2>3. \A i \in Sides : \A q \in DOMAIN rx[i] : Before(rx[i][q], b'.arr, b'.lo)
    BY <1>0, <1>6, <2>1, <2>2, UsedFacts DEF OwnersInv, Before
  <2>4. \A r \in DOMAIN recycle : recycle[r].arr # b'.arr
    BY <1>0, <1>6, <2>1, UsedFacts DEF OwnersInv
  <2> QED BY <1>0, <1>6, <2>2, <2>3, <2>4 DEF OwnersInv, Before
<1>13. EltsIn(mem', b') = Elts(b) \o SubSeq(stream, 1, k)
  BY <1>5 DEF Extended, es
<1> QED
  BY <1>1, <1>7, <1>8, <1>9, <1>10, <1>11, <1>12, <1>13 DEF Base

\* A frame that Input has found and hands to its reader
SliceOf(v) ==
  [arr |-> b.arr, lo |-> b.lo + n - lastContentLen, hi |-> b.lo + n - 1, recycle |-> Recycled(v)]

To == Other(lastFrameIsClient)

\* What a turn of Input's loop does: a frame that was found goes to the reader it is for
InputSends ==
  \/ lastContentLen = 0 /\ UNCHANGED <<rx, panicked>>
  \/ lastContentLen # 0 /\ rxClosed[To] /\ panicked' = TRUE /\ UNCHANGED rx
  \/ /\ lastContentLen # 0 /\ ~rxClosed[To] /\ Len(rx[To]) < RxCap
     /\ rx' = [rx EXCEPT ![To] = Append(@, SliceOf(FrameValid(Left)))]
     /\ UNCHANGED panicked

InputTakes ==
  \/ /\ FrameValid(Left)
     /\ lastContentLen' = Left[HeaderLen(Left)].len
     /\ lastFrameIsClient' = Left[HeaderLen(Left)].side
     /\ n' = n + HeaderLen(Left) + Left[HeaderLen(Left)].len
     /\ UNCHANGED spc
  \/ ~FrameValid(Left) /\ spc' = "next" /\ UNCHANGED <<lastContentLen, lastFrameIsClient, n>>

LEMMA InputFacts ==
  ASSUME Input
  PROVE  /\ spc = "input" /\ InputSends /\ InputTakes
         /\ UNCHANGED <<sendVars, stream, mem, b, rxClosed, recycle, readVars>>
BY Zenon DEF Input, InputSends, InputTakes, SliceOf, To, Left

\* The channels after a turn of Input's loop
LEMMA InputQueue ==
  ASSUME QueueType, lastFrameIsClient \in Sides, InputSends, rx' # rx, SliceOf(FrameValid(Left)) \in Slice
  PROVE  /\ To \in Sides /\ lastContentLen # 0 /\ Len(rx[To]) < RxCap
         /\ rx' \in [Sides -> Seq(Slice)]
         /\ Len(rx'[To]) = Len(rx[To]) + 1 /\ \A i \in Sides \ {To} : rx'[i] = rx[i]
         /\ \A k \in DOMAIN rx[To] : rx'[To][k] = rx[To][k]
         /\ rx'[To][Len(rx[To]) + 1] = SliceOf(FrameValid(Left))
         /\ DOMAIN rx'[To] = DOMAIN rx[To] \cup {Len(rx[To]) + 1}
<1> DEFINE s == SliceOf(FrameValid(Left))
           q == rx[To]
<1>1. To \in Sides
  BY SidesFacts DEF To
<1>2. /\ lastContentLen # 0 /\ Len(rx[To]) < RxCap
      /\ rx' = [rx EXCEPT ![To] = Append(rx[To], s)]
  BY DEF InputSends
<1>3. q \in Seq(Slice) /\ Len(q) \in Nat /\ DOMAIN q = 1..Len(q)
  BY <1>1, SlicesTyped
<1>4. rx'[To] = Append(q, s) /\ (\A i \in Sides \ {To} : rx'[i] = rx[i])
      /\ rx' = [i \in Sides |-> IF i = To THEN Append(q, s) ELSE rx[i]]
  BY <1>1, <1>2 DEF QueueType
<1> HIDE DEF s, q
<1>5. /\ Append(q, s) \in Seq(Slice) /\ Len(Append(q, s)) = Len(q) + 1
      /\ \A i \in 1..Len(q) : Append(q, s)[i] = q[i]
      /\ Append(q, s)[Len(q) + 1] = s
  BY <1>3, AppendProperties DEF s
<1>6. DOMAIN Append(q, s) = DOMAIN q \cup {Len(q) + 1}
  <2>1. DOMAIN Append(q, s) = 1..Len(q) + 1
    BY <1>3, <1>5, LenProperties
  <2> QED BY <1>3, <2>1
<1>7. rx' \in [Sides -> Seq(Slice)]
  BY <1>4, <1>5 DEF QueueType
<1> QED
  BY <1>1, <1>2, <1>3, <1>4, <1>5, <1>6, <1>7 DEF q, s

LEMMA InputBase ==
  ASSUME SrpcAssumption, Base, Input
  PROVE  Base'
<1>0. SendType /\ ServeType /\ QueueType /\ ReadType /\ OwnersInv
  BY DEF Base
<1>1. /\ spc = "input" /\ InputSends /\ InputTakes
      /\ UNCHANGED <<sendVars, stream, mem, b, rxClosed, recycle, readVars>>
  BY InputFacts
<1> DEFINE v == FrameValid(Left)
           s == SliceOf(v)
           h == HeaderLen(Left)
           L == b.hi - b.lo + 1
<1>2. /\ n \in Nat /\ lastContentLen \in Nat /\ lastFrameIsClient \in Sides /\ lastContentLen <= n /\ n <= L
      /\ b \in Buffer /\ b.arr \in Arrays /\ b.lo \in Nat \ {0} /\ b.hi \in Nat /\ L \in Nat
  <2>1. b \in Buffer /\ b.lo <= b.hi + 1
    BY <1>0 DEF ServeType, Within
  <2>2. b.arr \in Arrays /\ b.lo \in Nat \ {0} /\ b.hi \in Nat
    BY <2>1 DEF Buffer
  <2>3. L \in Nat
    BY <2>1, <2>2
  <2>4. n \in Nat /\ lastContentLen \in Nat /\ lastFrameIsClient \in Sides /\ lastContentLen <= n /\ n <= L
    BY <1>0, Zenon DEF ServeType
  <2> QED BY <2>1, <2>2, <2>3, <2>4
<1>3. Left \in Seq(Element) /\ Len(Left) = L - n
  BY <1>0, LeftFacts
<1>4. v => h \in {1, 2} /\ Left[h].len \in Nat /\ Left[h].side \in Sides /\ h + Left[h].len <= L - n
  BY <1>3, HeaderFacts
<1>5. /\ n' \in Nat /\ lastContentLen' \in Nat /\ lastFrameIsClient' \in Sides
      /\ lastContentLen' <= n' /\ n' <= L /\ spc' \in {"input", "next"}
      /\ (spc' = "input") <=> v
      /\ v => n' - lastContentLen' >= n
  <2> HIDE DEF L, h
  <2>1. CASE v
    <3>1. spc' = "input" /\ lastContentLen' = Left[h].len /\ lastFrameIsClient' = Left[h].side /\ n' = n + h + Left[h].len
      BY <1>1, <2>1 DEF InputTakes, h
    <3> QED BY <1>2, <1>4, <2>1, <3>1
  <2>2. CASE ~v
    BY <1>1, <1>2, <2>2 DEF InputTakes
  <2> QED BY <2>1, <2>2
<1>6. Recycled(v) = ~v
  BY DEF Recycled
<1>7. lastContentLen # 0 =>
        /\ s \in Slice /\ s.arr = b.arr /\ s.lo = Mine /\ s.lo <= s.hi /\ s.hi <= b.hi /\ s.hi = b.lo + n - 1
        /\ s.recycle = ~v
  <2> HIDE DEF v
  <2>1. v \in BOOLEAN
    BY DEF v, FrameValid
  <2>2. /\ s.arr = b.arr /\ s.lo = b.lo + n - lastContentLen /\ s.hi = b.lo + n - 1 /\ s.recycle = ~v
        /\ s = [arr |-> s.arr, lo |-> s.lo, hi |-> s.hi, recycle |-> s.recycle]
    BY <1>6 DEF SliceOf
  <2>3. lastContentLen # 0 => b.lo + n - lastContentLen \in Nat \ {0} /\ b.lo + n - 1 \in Nat
                              /\ b.lo + n - lastContentLen <= b.lo + n - 1 /\ b.lo + n - 1 <= b.hi
    BY <1>2
  <2> HIDE DEF s
  <2> QED BY <1>2, <2>1, <2>2, <2>3 DEF Slice, Mine
<1>8. SendType'
  BY <1>0, <1>1 DEF SendType, sendVars
<1>9. ServeType'
  BY <1>0, <1>1, <1>2, <1>5 DEF ServeType
<1>10. ReadType'
  BY <1>0, <1>1 DEF ReadType, readVars, InputSends
<1> HIDE DEF v, s, h, L
<1>11. Mine \in Nat /\ Mine' \in Nat /\ (v => Mine' > b.lo + n - 1) /\ (v => Mine' >= Mine)
  <2>1. Mine = b.lo + n - lastContentLen /\ Mine' = b.lo + n' - lastContentLen'
    BY <1>1 DEF Mine
  <2>2. /\ b.lo \in Nat \ {0} /\ n \in Nat /\ lastContentLen \in Nat /\ lastContentLen <= n
        /\ n' \in Nat /\ lastContentLen' \in Nat /\ lastContentLen' <= n'
    BY <1>2, <1>5
  <2>3. Mine \in Nat /\ Mine' \in Nat
    BY <2>1, <2>2
  <2>4. ASSUME v PROVE Mine' > b.lo + n - 1 /\ Mine' >= Mine
    <3>1. n' - lastContentLen' >= n
      BY <1>5, <2>4
    <3> DEFINE x == b.lo
               d == n' - lastContentLen'
               m == n
               l == lastContentLen
    <3>2. x \in Int /\ m \in Int /\ l \in Nat /\ d \in Int /\ d >= m
      <4>1. x \in Int
        BY <2>2
      <4>2. m \in Int /\ l \in Nat
        BY <2>2
      <4>3. d \in Int
        BY <2>2
      <4>4. d >= m
        BY <3>1
      <4> QED BY <4>1, <4>2, <4>3, <4>4
    <3>3. Mine = x + m - l /\ Mine' = x + d
      BY <2>1, <2>2
    <3> HIDE DEF x, d, m, l
    <3>4. Mine' > x + m - 1 /\ Mine' >= Mine
      BY <3>2, <3>3
    <3> QED BY <3>4 DEF x, m
  <2> QED BY <2>3, <2>4
<1>12. CASE rx' = rx
  <2>1. QueueType'
    BY <1>0, <1>1, <1>12 DEF QueueType
  <2>2. v => \A i \in Sides : \A k \in DOMAIN rx[i] : Before(rx[i][k], b.arr, Mine')
    <3> SUFFICES ASSUME v, NEW i \in Sides, NEW k \in DOMAIN rx[i] PROVE Before(rx[i][k], b.arr, Mine')
      OBVIOUS
    <3>1. Before(rx[i][k], b.arr, Mine)
      BY <1>0, <1>1 DEF OwnersInv
    <3>2. rx[i][k].hi \in Nat
      BY <1>0, SlicesTyped DEF Slice
    <3> QED BY <1>11, <3>1, <3>2 DEF Before
  <2>3. OwnersInv'
    <3>1. spc' # "next" => v
      BY <1>5
    <3> QED BY <1>0, <1>1, <1>12, <2>2, <3>1 DEF OwnersInv
  <2> QED BY <1>8, <1>9, <1>10, <2>1, <2>3 DEF Base
<1>13. CASE rx' # rx
  <2> DEFINE last == Len(rx[To]) + 1
  <2>1. lastContentLen # 0
    BY <1>1, <1>13 DEF InputSends
  <2>2. /\ To \in Sides /\ Len(rx[To]) < RxCap
        /\ rx' \in [Sides -> Seq(Slice)]
        /\ Len(rx'[To]) = Len(rx[To]) + 1 /\ \A i \in Sides \ {To} : rx'[i] = rx[i]
        /\ \A k \in DOMAIN rx[To] : rx'[To][k] = rx[To][k]
        /\ rx'[To][last] = s
        /\ DOMAIN rx'[To] = DOMAIN rx[To] \cup {last}
    BY <1>0, <1>1, <1>2, <1>7, <1>13, <2>1, InputQueue DEF v, s
  <2>3. \A i \in Sides : \A k \in DOMAIN rx'[i] :
          \/ k \in DOMAIN rx[i] /\ rx'[i][k] = rx[i][k]
          \/ i = To /\ k = last /\ rx'[i][k] = s
    BY <2>2
  <2>4. Within(mem, s) /\ s.lo <= s.hi
    <3>1. b.hi <= Len(mem[b.arr].elts) /\ b.hi <= mem[b.arr].cap
      BY <1>0 DEF ServeType, Within
    <3>2. mem[b.arr].elts \in Seq(Element) /\ mem[b.arr].cap \in Nat
      BY <1>0, <1>2 DEF ServeType, Array
    <3>3. Len(mem[b.arr].elts) \in Nat
      BY <3>2
    <3>4. s.lo \in Nat /\ s.hi \in Nat
      BY <1>7, <2>1 DEF Slice
    <3> QED BY <1>2, <1>7, <2>1, <3>1, <3>2, <3>3, <3>4, SMTT(30) DEF Within
  <2>5. QueueType'
    <3>1. \A i \in Sides : Len(rx'[i]) <= RxCap
      <4>1. RxCap \in Nat /\ Len(rx[To]) \in Nat
        BY <1>0, <2>2, SlicesTyped DEF SrpcAssumption
      <4> QED BY <1>0, <2>2, <4>1 DEF QueueType
    <3>2. \A i \in Sides : \A k \in DOMAIN rx'[i] : Within(mem', rx'[i][k]) /\ rx'[i][k].lo <= rx'[i][k].hi
      BY <1>0, <1>1, <2>3, <2>4 DEF QueueType
    <3> QED BY <1>0, <1>1, <2>2, <3>1, <3>2 DEF QueueType
  <2>6. \A i \in Sides : \A k \in DOMAIN rx[i] : Before(rx[i][k], s.arr, s.lo) /\ rx[i][k].hi \in Nat
    <3>1. \A i \in Sides : \A k \in DOMAIN rx[i] : rx[i][k].hi \in Nat
      BY <1>0, SlicesTyped DEF Slice
    <3> QED BY <1>0, <1>1, <1>7, <2>1, <3>1 DEF OwnersInv
  <2>7. \A r \in DOMAIN recycle : recycle[r].arr # s.arr
    BY <1>0, <1>1, <1>7, <2>1 DEF OwnersInv
  <2>8. v => \A i \in Sides : \A k \in DOMAIN rx'[i] : Before(rx'[i][k], b.arr, Mine')
    <3> SUFFICES ASSUME v, NEW i \in Sides, NEW k \in DOMAIN rx'[i] PROVE Before(rx'[i][k], b.arr, Mine')
      OBVIOUS
    <3>1. CASE k \in DOMAIN rx[i] /\ rx'[i][k] = rx[i][k]
      BY <1>7, <1>11, <2>1, <2>6, <3>1 DEF Before
    <3>2. CASE rx'[i][k] = s
      BY <1>7, <1>11, <2>1, <3>2 DEF Before
    <3> QED BY <2>3, <3>1, <3>2
  <2>9. \A r \in DOMAIN recycle : \A i \in Sides : \A k \in DOMAIN rx'[i] :
          Before(rx'[i][k], recycle[r].arr, recycle[r].lo)
    BY <1>0, <2>3, <2>7 DEF OwnersInv, Before
  <2>10. ASSUME NEW i \in Sides, NEW j \in Sides, NEW k \in DOMAIN rx'[i], NEW q \in DOMAIN rx'[j], rx'[i][k].recycle
         PROVE  (i = j /\ k = q) \/ Before(rx'[j][q], rx'[i][k].arr, rx'[i][k].lo)
    <3>1. CASE /\ k \in DOMAIN rx[i] /\ rx'[i][k] = rx[i][k]
               /\ q \in DOMAIN rx[j] /\ rx'[j][q] = rx[j][q]
      BY <1>0, <2>10, <3>1 DEF OwnersInv
    <3>2. CASE /\ i = To /\ k = last /\ rx'[i][k] = s
               /\ q \in DOMAIN rx[j] /\ rx'[j][q] = rx[j][q]
      BY <2>6, <3>2
    <3>3. CASE /\ k \in DOMAIN rx[i] /\ rx'[i][k] = rx[i][k] /\ rx'[j][q] = s
      BY <2>6, <2>10, <3>3 DEF Before
    <3>4. CASE i = To /\ k = last /\ j = To /\ q = last
      BY <3>4
    <3> QED BY <2>3, <3>1, <3>2, <3>3, <3>4
  <2>11. OwnersInv'
    <3>1. spc' # "next" => v
      BY <1>5
    <3>2. /\ \A r \in DOMAIN recycle : recycle[r].arr # b.arr
          /\ \A r, q \in DOMAIN recycle : recycle[r].arr = recycle[q].arr => r = q
      BY <1>0, <1>1 DEF OwnersInv
    <3> QED BY <1>1, <2>8, <2>9, <2>10, <3>1, <3>2 DEF OwnersInv
  <2> QED BY <1>8, <1>9, <1>10, <2>5, <2>11 DEF Base
<1> QED
  BY <1>12, <1>13

LEMMA TailFacts ==
  ASSUME NEW S, NEW q \in Seq(S), q # <<>>
  PROVE  /\ Tail(q) \in Seq(S) /\ Len(q) \in Nat /\ Len(q) >= 1 /\ Len(Tail(q)) = Len(q) - 1
         /\ 1 \in DOMAIN q /\ Head(q) = q[1] /\ q[1] \in S
         /\ \A k \in DOMAIN Tail(q) : k \in Nat /\ k + 1 \in DOMAIN q /\ Tail(q)[k] = q[k + 1]
<1>1. Tail(q) \in Seq(S) /\ Head(q) = q[1] /\ Len(q) \in Nat /\ Len(Tail(q)) = Len(q) - 1 /\ Len(q) >= 1
      /\ \A k \in 1..Len(Tail(q)) : Tail(q)[k] = q[k + 1]
  BY HeadTailProperties, EmptySeq
<1>2. DOMAIN q = 1..Len(q) /\ DOMAIN Tail(q) = 1..Len(Tail(q))
  BY <1>1
<1>3. 1 \in DOMAIN q /\ q[1] \in S
  BY <1>1, <1>2
<1>4. \A k \in DOMAIN Tail(q) : k \in Nat /\ k + 1 \in DOMAIN q
  BY <1>1, <1>2
<1> QED
  BY <1>1, <1>2, <1>3, <1>4

\* What NextBuf does to the buffer
NewMemory(m) ==
  /\ m \in [Arrays -> Array] /\ b' \in Buffer /\ Within(m, b') /\ EltsIn(m, b') = Left
  /\ b'.hi - b'.lo + 1 = Len(Left)

LEMMA NextRecycled ==
  ASSUME SrpcAssumption, Base, NextBuf, recycle # <<>>
  PROVE  /\ NewMemory(mem') /\ FramesKept
         /\ recycle' = Tail(recycle) /\ \A k \in DOMAIN Tail(recycle) : Within(mem', Tail(recycle)[k])
         /\ \A i \in Sides : \A k \in DOMAIN rx[i] : Before(rx[i][k], b'.arr, b'.lo)
         /\ \A k \in DOMAIN Tail(recycle) : Tail(recycle)[k].arr # b'.arr
<1>0. SendType /\ ServeType /\ QueueType /\ ReadType /\ OwnersInv
  BY DEF Base
<1> DEFINE s == Head(recycle)
           t == [arr |-> s.arr, lo |-> s.lo, hi |-> s.lo - 1]
           q == Tail(recycle)
<1>1. recycle' = q /\ AppendTo(t, Left)
  BY DEF NextBuf
<1>2. /\ s = recycle[1] /\ 1 \in DOMAIN recycle /\ s \in Slice
      /\ \A k \in DOMAIN q : k \in Nat /\ k + 1 \in DOMAIN recycle /\ q[k] = recycle[k + 1]
  <2>1. recycle \in Seq(Slice)
    BY <1>0 DEF QueueType
  <2> QED BY <2>1, TailFacts
<1>3. /\ s.arr \in Arrays /\ s.lo \in Nat \ {0} /\ s.hi \in Nat /\ s.arr \in Used
      /\ Within(mem, s) /\ s.lo <= s.hi
  BY <1>0, <1>2, UsedFacts DEF QueueType, Slice
<1> HIDE DEF s, q
<1>4. t \in Buffer /\ t.arr = s.arr /\ t.lo = s.lo /\ t.hi = s.lo - 1
  BY <1>3 DEF Buffer
<1> HIDE DEF t
<1>5. Within(mem, t)
  <2>1. mem[s.arr].elts \in Seq(Element) /\ mem[s.arr].cap \in Nat
    BY <1>0, <1>3 DEF ServeType, Array
  <2>2. Len(mem[s.arr].elts) \in Nat
    BY <2>1
  <2> QED BY <1>3, <1>4, <2>1, <2>2 DEF Within
<1>6. Left \in Seq(Element) /\ Len(Left) \in Nat
  BY <1>0, LeftFacts
<1>7. Extended(t, Left)
  <2>1. mem \in [Arrays -> Array]
    BY <1>0 DEF ServeType
  <2>2. Unused \in Arrays /\ Unused \notin Used
    BY <1>0, UnusedFacts
  <2> QED BY <1>1, <1>3, <1>4, <1>5, <1>6, <2>1, <2>2, AppendFacts
<1>8. Elts(t) \o Left = Left
  <2>1. Elts(t) = <<>>
    BY <1>3, <1>4, SubSeqEmpty DEF Elts
  <2> QED BY <1>6, <2>1, ConcatEmptySeq
<1>9. NewMemory(mem')
  <2>1. t.hi - t.lo + 1 + Len(Left) = Len(Left)
    BY <1>3, <1>4, <1>6
  <2> QED BY <1>7, <1>8, <2>1 DEF Extended, NewMemory
<1>10. \A i \in Sides : \A k \in DOMAIN rx[i] : Before(rx[i][k], s.arr, s.lo)
  BY <1>0, <1>2 DEF OwnersInv
<1>11. FramesKept
  <2> SUFFICES ASSUME NEW i \in Sides, NEW k \in DOMAIN rx[i]
               PROVE  Within(mem', rx[i][k]) /\ EltsIn(mem', rx[i][k]) = EltsIn(mem, rx[i][k])
    BY DEF FramesKept
  <2>1. rx[i][k] \in Slice /\ rx[i][k].arr \in Used /\ Within(mem, rx[i][k])
    BY <1>0, SlicesTyped, UsedFacts DEF QueueType
  <2>2. rx[i][k].hi \in Nat
    BY <2>1 DEF Slice
  <2>3. rx[i][k].arr = t.arr => rx[i][k].hi <= t.hi
    BY <1>3, <1>4, <1>10, <2>2 DEF Before
  <2> QED BY <1>7, <2>1, <2>3 DEF Extended
<1>12. ASSUME NEW k \in DOMAIN q
       PROVE  Within(mem', q[k]) /\ q[k].arr # b'.arr
  <2>1. q[k] = recycle[k + 1] /\ k + 1 \in DOMAIN recycle /\ k + 1 # 1
    BY <1>2
  <2>2. q[k] \in Slice /\ q[k].arr \in Used /\ Within(mem, q[k])
    BY <1>0, <2>1, SlicesTyped, UsedFacts DEF QueueType
  <2>3. q[k].arr # t.arr
    BY <1>0, <1>2, <1>4, <2>1 DEF OwnersInv
  <2> QED BY <1>7, <2>2, <2>3 DEF Extended
<1>13. \A i \in Sides : \A k \in DOMAIN rx[i] : Before(rx[i][k], b'.arr, b'.lo)
  <2> SUFFICES ASSUME NEW i \in Sides, NEW k \in DOMAIN rx[i] PROVE Before(rx[i][k], b'.arr, b'.lo)
    OBVIOUS
  <2>1. (b'.arr = t.arr /\ b'.lo = t.lo) \/ b'.arr \notin Used
    BY <1>7 DEF Extended
  <2>2. rx[i][k].arr \in Used
    BY UsedFacts
  <2> QED BY <1>4, <1>10, <2>1, <2>2 DEF Before
<1> QED
  BY <1>1, <1>9, <1>11, <1>12, <1>13 DEF q

LEMMA NextFresh ==
  ASSUME SrpcAssumption, Base, NextBuf, recycle = <<>>
  PROVE  /\ NewMemory(mem') /\ FramesKept /\ recycle' = recycle
         /\ \A i \in Sides : \A k \in DOMAIN rx[i] : Before(rx[i][k], b'.arr, b'.lo)
<1>0. SendType /\ ServeType /\ QueueType /\ ReadType /\ OwnersInv
  BY DEF Base
<1> DEFINE c == IF Len(Left) > ArrayCap THEN 2 * Len(Left) ELSE ArrayCap
<1>1. Left \in Seq(Element) /\ Len(Left) \in Nat
  BY <1>0, LeftFacts
<1>2. c \in Nat /\ c >= Len(Left)
  BY <1>1 DEF SrpcAssumption
<1>3. /\ recycle' = recycle
      /\ b' = [arr |-> Unused, lo |-> 1, hi |-> Len(Left)]
      /\ mem' = [a \in Arrays |->
                   IF a = Unused THEN [cap |-> c, elts |-> Left]
                   ELSE IF a \in Used THEN mem[a] ELSE Empty]
  BY Zenon DEF NextBuf
<1>4. mem \in [Arrays -> Array] /\ Unused \in Arrays /\ Unused \notin Used
  BY <1>0, UnusedFacts DEF ServeType
<1> HIDE DEF c
<1>5. /\ mem'[Unused] = [cap |-> c, elts |-> Left]
      /\ \A x \in Arrays \ {Unused} : x \in Used => mem'[x] = mem[x]
      /\ \A x \in Arrays \ {Unused} : mem'[x] \in {mem[x], Empty}
      /\ DOMAIN mem' = Arrays /\ mem' = [x \in Arrays |-> mem'[x]]
  BY <1>3, <1>4
<1>6. /\ mem' \in [Arrays -> Array] /\ b' \in Buffer /\ Within(mem', b')
      /\ EltsIn(mem', b') = Left /\ b'.hi - b'.lo + 1 = Len(Left) /\ b'.arr \notin Used
      /\ \A q \in Slice : q.arr \in Used /\ Within(mem, q) =>
           Within(mem', q) /\ EltsIn(mem', q) = EltsIn(mem, q)
  BY <1>1, <1>2, <1>3, <1>4, <1>5, NewBuffer
<1>7. \A i \in Sides : \A k \in DOMAIN rx[i] : rx[i][k] \in Slice /\ rx[i][k].arr \in Used /\ Within(mem, rx[i][k])
  BY <1>0, SlicesTyped, UsedFacts DEF QueueType
<1> QED
  BY <1>3, <1>6, <1>7 DEF NewMemory, FramesKept, Before

LEMMA NextBufBase ==
  ASSUME SrpcAssumption, Base, NextBuf
  PROVE  Base' /\ FramesKept /\ EltsIn(mem', b') = Left
<1>0. SendType /\ ServeType /\ QueueType /\ ReadType /\ OwnersInv
  BY DEF Base
<1>1. /\ spc = "next" /\ spc' = "read" /\ n' = 0 /\ lastContentLen' = 0 /\ lastFrameIsClient' = 0
      /\ UNCHANGED <<sendVars, stream, rx, rxClosed, readVars, panicked>>
  BY DEF NextBuf
<1>2. NewMemory(mem') /\ FramesKept
  BY NextRecycled, NextFresh
<1>3. \A i \in Sides : \A k \in DOMAIN rx[i] : Before(rx[i][k], b'.arr, b'.lo)
  BY NextRecycled, NextFresh
<1>4. /\ recycle' \in Seq(Slice) /\ Len(recycle') <= RecycleCap
      /\ \A k \in DOMAIN recycle' : k \in Nat /\ Within(mem', recycle'[k]) /\ recycle'[k].arr # b'.arr
      /\ \E d \in {0, 1} : \A k \in DOMAIN recycle' :
           k + d \in DOMAIN recycle /\ recycle'[k] = recycle[k + d]
  <2>1. recycle \in Seq(Slice) /\ Len(recycle) <= RecycleCap /\ RecycleCap \in Nat
    BY <1>0 DEF QueueType, SrpcAssumption
  <2>2. CASE recycle # <<>>
    <3>1. /\ recycle' = Tail(recycle) /\ \A k \in DOMAIN recycle' : Within(mem', recycle'[k])
          /\ \A k \in DOMAIN recycle' : recycle'[k].arr # b'.arr
      BY <2>2, NextRecycled
    <3>2. /\ Tail(recycle) \in Seq(Slice) /\ Len(recycle) \in Nat /\ Len(Tail(recycle)) = Len(recycle) - 1
          /\ \A k \in DOMAIN Tail(recycle) :
               k \in Nat /\ k + 1 \in DOMAIN recycle /\ Tail(recycle)[k] = recycle[k + 1]
      BY <2>1, <2>2, TailFacts
    <3> QED BY <2>1, <3>1, <3>2
  <2>3. CASE recycle = <<>>
    <3>1. recycle' = <<>>
      BY <2>3, NextFresh
    <3> QED BY <2>1, <2>3, <3>1
  <2> QED BY <2>2, <2>3
<1>5. SendType' /\ ReadType'
  BY <1>0, <1>1 DEF SendType, ReadType, sendVars, readVars
<1>6. ServeType'
  <2>1. mem' \in [Arrays -> Array] /\ b' \in Buffer /\ Within(mem', b')
    BY <1>2 DEF NewMemory
  <2>2. 0 <= b'.hi - b'.lo + 1
    BY <2>1 DEF Buffer, Within
  <2>3. 0 \in Sides /\ 0 \in Nat
    BY DEF Sides, Server
  <2> QED BY <1>1, <2>1, <2>2, <2>3 DEF ServeType
<1>7. QueueType'
  <2>1. \A k \in DOMAIN recycle' : recycle'[k].lo <= recycle'[k].hi
    BY <1>0, <1>4 DEF QueueType
  <2> QED BY <1>0, <1>1, <1>2, <1>4, <2>1 DEF QueueType, FramesKept
<1>8. OwnersInv'
  <2>1. Mine' = b'.lo
    <3>1. b'.lo \in Nat
      BY <1>2 DEF NewMemory, Buffer
    <3> QED BY <1>1, <3>1 DEF Mine
  <2> PICK d \in {0, 1} : \A k \in DOMAIN recycle' : k + d \in DOMAIN recycle /\ recycle'[k] = recycle[k + d]
    BY <1>4
  <2>2. \A r, q \in DOMAIN recycle' : recycle'[r].arr = recycle'[q].arr => r = q
    <3> TAKE r, q \in DOMAIN recycle'
    <3>1. recycle[r + d].arr = recycle[q + d].arr => r + d = q + d
      BY <1>0 DEF OwnersInv
    <3>2. r \in Nat /\ q \in Nat
      BY <1>4
    <3> QED BY <3>1, <3>2
  <2>3. \A r \in DOMAIN recycle' : \A i \in Sides : \A k \in DOMAIN rx[i] :
          Before(rx[i][k], recycle'[r].arr, recycle'[r].lo)
    BY <1>0 DEF OwnersInv
  <2> QED BY <1>0, <1>1, <1>3, <1>4, <2>1, <2>2, <2>3 DEF OwnersInv
<1> QED
  BY <1>2, <1>5, <1>6, <1>7, <1>8 DEF Base, NewMemory

-----------------------------------------------------------------------------
(* The sender and the readers: types, and who may write where *)

LEMMA FrameFacts ==
  ASSUME NEW i \in Sides, NEW l \in Nat, NEW x \in Nat,
         NEW f, f = FramePut(i, l) \o Bytes(i, x + 1, l)
  PROVE  /\ f \in Seq(Element) /\ Len(f) = HeaderSize(l) + l /\ IsFrame(f, 0, i, l, x)
<1> DEFINE p == FramePut(i, l)
           d == Bytes(i, x + 1, l)
           h == HeaderSize(l)
           header == [side |-> i, len |-> l, kind |-> "header"]
<1>1. /\ p \in Seq(Element) /\ Len(p) = h /\ h \in {1, 2} /\ p[h] = header
      /\ l > 1 => p[1].kind = "more"
  <2>1. CASE l > 1
    <3> DEFINE more == [side |-> i, len |-> l, kind |-> "more"]
    <3>1. p = <<more, header>> /\ h = 2 /\ more.kind = "more"
      BY <2>1 DEF FramePut, HeaderSize
    <3>2. more \in Element /\ header \in Element
      BY DEF Element
    <3> HIDE DEF more, header
    <3> QED BY <3>1, <3>2
  <2>2. CASE ~(l > 1)
    <3>1. p = <<header>> /\ h = 1
      BY <2>2 DEF FramePut, HeaderSize
    <3>2. header \in Element
      BY DEF Element
    <3> HIDE DEF header
    <3> QED BY <2>2, <3>1, <3>2
  <2> QED BY <2>1, <2>2
<1>2. d \in Seq(Element) /\ Len(d) = l /\ \A k \in 1..l : d[k] = Byte(i, x + 1 + k - 1)
  <2>1. x + 1 \in Nat
    OBVIOUS
  <2> QED BY <2>1, BytesFacts
<1>3. f = p \o d
  OBVIOUS
<1> HIDE DEF p, d, h, header
<1>4. /\ f \in Seq(Element) /\ Len(f) = h + l
      /\ \A k \in 1..h + l : f[k] = IF k <= h THEN p[k] ELSE d[k - h]
  <2>1. /\ p \o d \in Seq(Element) /\ Len(p \o d) = Len(p) + Len(d)
        /\ \A k \in 1..Len(p) + Len(d) : (p \o d)[k] = IF k <= Len(p) THEN p[k] ELSE d[k - Len(p)]
    BY <1>1, <1>2, ConcatProperties
  <2> QED BY <1>1, <1>2, <1>3, <2>1, Zenon
<1>5. f[h] = header /\ (l > 1 => f[1].kind = "more")
  <2>1. 1 \in 1..h + l /\ h \in 1..h + l /\ 1 <= h /\ h <= h
    BY <1>1
  <2>2. f[h] = p[h] /\ f[1] = p[1]
    BY <1>4, <2>1
  <2> QED BY <1>1, <2>2
<1>6. \A k \in 1..l : f[h + k] = Byte(i, x + k)
  <2> TAKE k \in 1..l
  <2>1. h + k \in 1..h + l /\ ~(h + k <= h) /\ (h + k) - h = k /\ x + 1 + k - 1 = x + k
    BY <1>1
  <2> QED BY <1>2, <1>4, <2>1
<1>7. IsFrame(f, 0, i, l, x)
  <2>1. 0 + h = h /\ 0 + 1 = 1
    BY <1>1
  <2>2. 0 + h + l <= Len(f)
    BY <1>1, <1>4
  <2>3. f[0 + h] = header /\ (l > 1 => f[0 + 1].kind = "more") /\ \A k \in 1..l : f[0 + h + k] = Byte(i, x + k)
    BY <1>5, <1>6, <2>1
  <2> QED BY <2>2, <2>3 DEF IsFrame, h, header
<1> QED
  BY <1>4, <1>7 DEF h

LEMMA WriteFacts ==
  ASSUME SrpcAssumption, SendType, NEW i \in Sides, Write(i)
  PROVE  /\ SendType' /\ wb = <<>> /\ wlock = Free
         /\ UNCHANGED <<lost, stream, mem, b, serveVars, rx, rxClosed, recycle, readVars, panicked>>
         /\ \E l \in FrameLens : /\ l \in Nat /\ wrote[i] + l <= MaxBytes[i]
                                 /\ wrote' = [wrote EXCEPT ![i] = wrote[i] + l]
                                 /\ wb' \in Seq(Element) /\ Len(wb') = HeaderSize(l) + l
                                 /\ IsFrame(wb', 0, i, l, wrote[i])
<1>1. PICK l \in FrameLens : /\ wrote[i] + l <= MaxBytes[i]
                             /\ wb' = FramePut(i, l) \o Bytes(i, wrote[i] + 1, l)
                             /\ wrote' = [wrote EXCEPT ![i] = wrote[i] + l]
  BY DEF Write
<1>2. l \in Nat /\ wrote[i] \in Nat
  BY DEF SrpcAssumption, SendType
<1>3. wb' \in Seq(Element) /\ Len(wb') = HeaderSize(l) + l /\ IsFrame(wb', 0, i, l, wrote[i])
  BY <1>1, <1>2, FrameFacts
<1>4. /\ wlock = Free /\ wlock' = i
      /\ UNCHANGED <<lost, stream, mem, b, serveVars, rx, rxClosed, recycle, readVars, panicked>>
  BY DEF Write, WLockFree
<1>5. wrote' \in [Sides -> Nat] /\ \A j \in Sides : wrote'[j] <= MaxBytes[j]
  BY <1>1, <1>2 DEF SendType
<1>6. wlock' \in {Free, Server, Client} /\ wlock' # Free
  BY <1>4 DEF Sides, Free, Server, Client
<1>7. SendType'
  BY <1>3, <1>4, <1>5, <1>6 DEF SendType
<1> QED
  BY <1>1, <1>2, <1>3, <1>4, <1>7 DEF SendType

LEMMA WriteSomeFacts ==
  ASSUME SendType, WriteSome
  PROVE  /\ SendType' /\ stream' \o Unsent' = stream \o Unsent
         /\ UNCHANGED <<wrote, mem, b, serveVars, rx, rxClosed, recycle, readVars, panicked>>
<1>1. PICK k \in 1..Len(wb) : /\ stream' = stream \o SubSeq(wb, 1, k)
                              /\ wb' = SubSeq(wb, k + 1, Len(wb))
                              /\ wlock' = IF k = Len(wb) THEN Free ELSE wlock
  BY DEF WriteSome
<1>2. stream \in Seq(Element) /\ wb \in Seq(Element) /\ Len(wb) \in Nat
  BY DEF SendType
<1> DEFINE s == SubSeq(wb, 1, k)
           t == SubSeq(wb, k + 1, Len(wb))
           m == k + 1
<1>3. 1 \in Nat \ {0} /\ k \in Nat /\ k <= Len(wb) /\ 1 <= k + 1 /\ m \in Nat \ {0} /\ m <= Len(wb) + 1
      /\ m - 1 = k /\ 1 <= m /\ 1 \in 1..Len(wb) + 1 /\ k \in 0..Len(wb)
  BY <1>2
<1>4. s \in Seq(Element)
  BY <1>2, <1>3, PartFacts
<1>5. t \in Seq(Element)
  <2>1. t = SubSeq(wb, m, Len(wb))
    OBVIOUS
  <2> HIDE DEF m, t
  <2> QED BY <1>2, <1>3, <2>1, PartFacts
<1>6. s \o t = wb
  <2> HIDE DEF s, t, m
  <2>1. SubSeq(wb, 1, Len(wb)) = wb
    BY <1>2, SubSeqFull
  <2>2. SubSeq(wb, 1, k) \o SubSeq(wb, k + 1, Len(wb)) = SubSeq(wb, 1, Len(wb))
    BY <1>2, <1>3, ConcatAdjacentSubSeq
  <2> QED BY <2>1, <2>2 DEF s, t
<1>7. stream' = stream \o s /\ wb' = t
  BY <1>1
<1>8. wlock' = Free => wb' = <<>>
  <2>1. wlock # Free
    BY DEF WriteSome, Sides, Free, Server, Client
  <2>2. wlock' = Free => k = Len(wb)
    BY <1>1, <2>1
  <2>3. k = Len(wb) => t = <<>>
    BY <1>3, SubSeqEmpty
  <2> QED BY <1>7, <2>2, <2>3
<1> HIDE DEF s, t
<1>9. stream' \in Seq(Element) /\ stream' \o wb' = stream \o wb
  <2>1. stream \o s \in Seq(Element)
    BY <1>2, <1>4, ConcatProperties
  <2>2. (stream \o s) \o t = stream \o (s \o t)
    <3>1. stream \in Seq(Element) /\ s \in Seq(Element) /\ t \in Seq(Element)
      BY <1>2, <1>4, <1>5
    <3> QED BY <3>1, Concatenated
  <2> QED BY <1>6, <1>7, <2>1, <2>2, Zenon
<1>10. /\ UNCHANGED <<wrote, lost, mem, b, serveVars, rx, rxClosed, recycle, readVars, panicked>>
       /\ lost = <<>>
  BY DEF WriteSome
<1>11. wlock' \in {Free, Server, Client}
  BY <1>1 DEF SendType
<1>12. SendType'
  BY <1>5, <1>7, <1>8, <1>9, <1>10, <1>11 DEF SendType
<1>13. Unsent = wb /\ Unsent' = wb'
  <2>1. <<>> \o wb = wb /\ <<>> \o wb' = wb'
    BY <1>2, <1>5, <1>7, ConcatEmptySeq
  <2> QED BY <1>10, <2>1 DEF Unsent
<1> QED
  BY <1>9, <1>10, <1>12, <1>13

LEMMA WriteFailsFacts ==
  ASSUME SendType, WriteFails
  PROVE  /\ SendType' /\ stream' \o Unsent' = stream \o Unsent
         /\ UNCHANGED <<wrote, mem, b, serveVars, rx, rxClosed, recycle, readVars, panicked>>
<1>1. /\ wlock' = Free /\ wb' = <<>> /\ lost' = lost \o wb
      /\ UNCHANGED <<wrote, stream, mem, b, serveVars, rx, rxClosed, recycle, readVars, panicked>>
  BY DEF WriteFails
<1>2. lost \o wb \in Seq(Element) /\ (lost \o wb) \o <<>> = lost \o wb /\ <<>> \in Seq(Element)
  <2>1. lost \in Seq(Element) /\ wb \in Seq(Element)
    BY DEF SendType
  <2>2. lost \o wb \in Seq(Element)
    BY <2>1, Concatenated
  <2> QED BY <2>2, ConcatEmptySeq, EmptySeq
<1>3. SendType'
  BY <1>1, <1>2 DEF SendType
<1> QED
  BY <1>1, <1>2, <1>3 DEF Unsent

\* What a Read takes and leaves
LEMMA ReadPieces ==
  ASSUME NEW u \in Seq(Element), NEW p \in Nat \ {0}
  PROVE  SubSeq(u, 1, Least(p, Len(u))) \in Seq(Element) /\ SubSeq(u, p + 1, Len(u)) \in Seq(Element)
<1>1. Len(u) \in Nat /\ Least(p, Len(u)) \in 0..Len(u)
  BY DEF Least
<1>2. 1 \in Int /\ Least(p, Len(u)) \in Int /\ p + 1 \in Int /\ Len(u) \in Int
  BY <1>1
<1>3. \A j \in 1..Least(p, Len(u)) : u[j] \in Element
  BY <1>1
<1>4. \A j \in p + 1..Len(u) : u[j] \in Element
  BY <1>1
<1>5. SubSeq(u, 1, Least(p, Len(u))) \in Seq(Element)
  BY <1>2, <1>3, SubSeqProperties
<1>6. SubSeq(u, p + 1, Len(u)) \in Seq(Element)
  BY <1>2, <1>4, SubSeqProperties
<1> QED
  BY <1>5, <1>6

\* Side i reads from u
Takes(i, u, p) ==
  /\ got' = [got EXCEPT ![i] = got[i] \o SubSeq(u, 1, Least(p, Len(u)))]
  /\ overflow' = [overflow EXCEPT ![i] = SubSeq(u, p + 1, Len(u))]

LEMMA TakesFacts ==
  ASSUME ReadType, NEW i \in Sides, NEW u \in Seq(Element), NEW p \in Nat \ {0}, Takes(i, u, p)
  PROVE  /\ got' \in [Sides -> Seq(Element)] /\ overflow' \in [Sides -> Seq(Element)]
         /\ got'[i] = got[i] \o SubSeq(u, 1, Least(p, Len(u))) /\ overflow'[i] = SubSeq(u, p + 1, Len(u))
         /\ \A j \in Sides \ {i} : got'[j] = got[j] /\ overflow'[j] = overflow[j]
<1> DEFINE s == SubSeq(u, 1, Least(p, Len(u)))
           t == SubSeq(u, p + 1, Len(u))
<1>1. s \in Seq(Element) /\ t \in Seq(Element)
  BY ReadPieces
<1>2. got' = [got EXCEPT ![i] = got[i] \o s] /\ overflow' = [overflow EXCEPT ![i] = t]
  BY DEF Takes
<1>3. got \in [Sides -> Seq(Element)] /\ overflow \in [Sides -> Seq(Element)] /\ got[i] \in Seq(Element)
  BY DEF ReadType
<1> HIDE DEF s, t
<1>4. got[i] \o s \in Seq(Element)
  BY <1>1, <1>3, ConcatProperties
<1>5. /\ got' \in [Sides -> Seq(Element)] /\ overflow' \in [Sides -> Seq(Element)]
      /\ got'[i] = got[i] \o s /\ overflow'[i] = t
      /\ \A j \in Sides \ {i} : got'[j] = got[j] /\ overflow'[j] = overflow[j]
  BY <1>1, <1>2, <1>3, <1>4
<1> QED
  BY <1>5 DEF s, t

LEMMA ReadOverflowFacts ==
  ASSUME SrpcAssumption, Base, NEW i \in Sides, ReadOverflow(i)
  PROVE  /\ Base' /\ UNCHANGED <<sendVars, stream, mem, b, serveVars, rx, rxClosed, recycle, clientClosed, panicked>>
         /\ \E p \in Nat \ {0} : Takes(i, overflow[i], p)
<1>0. SendType /\ ServeType /\ QueueType /\ ReadType /\ OwnersInv
  BY DEF Base
<1>1. PICK p \in Reads : Takes(i, overflow[i], p)
  BY Zenon DEF ReadOverflow, Takes
<1>2. p \in Nat \ {0} /\ overflow[i] \in Seq(Element)
  BY <1>0 DEF SrpcAssumption, ReadType
<1>3. UNCHANGED <<sendVars, stream, mem, b, serveVars, rx, rxClosed, recycle, clientClosed, panicked>>
  BY DEF ReadOverflow
<1>4. got' \in [Sides -> Seq(Element)] /\ overflow' \in [Sides -> Seq(Element)]
  BY <1>0, <1>1, <1>2, TakesFacts
<1>5. ReadType'
  BY <1>0, <1>3, <1>4 DEF ReadType
<1>6. SendType'
  BY <1>0, <1>3 DEF SendType, sendVars
<1>7. ServeType'
  BY <1>0, <1>3 DEF ServeType, serveVars
<1>8. QueueType'
  BY <1>0, <1>3 DEF QueueType
<1>9. OwnersInv'
  BY <1>0, <1>3 DEF OwnersInv, serveVars, Mine
<1> QED
  BY <1>1, <1>2, <1>3, <1>5, <1>6, <1>7, <1>8, <1>9 DEF Base

\* The reader of side i takes the frame at the front of its channel
Received(i) ==
  /\ rx' = [rx EXCEPT ![i] = Tail(rx[i])]
  /\ \/ recycle' = recycle
     \/ rx[i][1].recycle /\ Len(recycle) < RecycleCap /\ recycle' = Append(recycle, rx[i][1])

LEMMA ReceivedFacts ==
  ASSUME SrpcAssumption, QueueType, NEW i \in Sides, rx[i] # <<>>, Received(i)
  PROVE  /\ rx' \in [Sides -> Seq(Slice)] /\ recycle' \in Seq(Slice)
         /\ Len(rx[i]) >= 1 /\ Len(rx'[i]) = Len(rx[i]) - 1 /\ Len(recycle') <= RecycleCap
         /\ 1 \in DOMAIN rx[i] /\ rx[i][1] \in Slice
         /\ \A j \in Sides \ {i} : rx'[j] = rx[j]
         /\ \A k \in DOMAIN rx'[i] : k \in Nat /\ k + 1 \in DOMAIN rx[i] /\ rx'[i][k] = rx[i][k + 1]
         /\ \A r \in DOMAIN recycle' :
              \/ r \in DOMAIN recycle /\ recycle'[r] = recycle[r]
              \/ r = Len(recycle) + 1 /\ recycle'[r] = rx[i][1] /\ rx[i][1].recycle
<1> DEFINE q == rx[i]
<1>1. /\ q \in Seq(Slice) /\ q # <<>> /\ recycle \in Seq(Slice) /\ RecycleCap \in Nat /\ Len(recycle) <= RecycleCap
      /\ rx \in [Sides -> Seq(Slice)] /\ Len(recycle) \in Nat
  BY DEF QueueType, SrpcAssumption
<1>2. rx' = [rx EXCEPT ![i] = Tail(q)]
  BY DEF Received
<1>3. rx'[i] = Tail(q) /\ \A j \in Sides \ {i} : rx'[j] = rx[j]
  BY <1>1, <1>2
<1> DEFINE t == Tail(q)
<1> HIDE DEF q
<1>4. /\ t \in Seq(Slice) /\ Len(q) \in Nat /\ Len(q) >= 1 /\ Len(t) = Len(q) - 1
      /\ 1 \in DOMAIN q /\ q[1] \in Slice
      /\ \A k \in DOMAIN t : k \in Nat /\ k + 1 \in DOMAIN q /\ t[k] = q[k + 1]
  BY <1>1, TailFacts
<1>5. rx' \in [Sides -> Seq(Slice)]
  BY <1>1, <1>2, <1>4
<1>6. /\ recycle' \in Seq(Slice) /\ Len(recycle') <= RecycleCap
      /\ \A r \in DOMAIN recycle' :
           \/ r \in DOMAIN recycle /\ recycle'[r] = recycle[r]
           \/ r = Len(recycle) + 1 /\ recycle'[r] = q[1] /\ q[1].recycle
  <2>1. CASE recycle' = recycle
    BY <1>1, <2>1
  <2>2. CASE q[1].recycle /\ Len(recycle) < RecycleCap /\ recycle' = Append(recycle, q[1])
    <3> DEFINE e == q[1]
               u == Append(recycle, e)
    <3>1. e \in Slice
      BY <1>4
    <3> HIDE DEF e
    <3>2. /\ u \in Seq(Slice) /\ Len(u) = Len(recycle) + 1
          /\ \A r \in 1..Len(recycle) : u[r] = recycle[r]
          /\ u[Len(recycle) + 1] = e
      BY <1>1, <3>1, AppendProperties
    <3>3. DOMAIN u = 1..Len(recycle) + 1 /\ DOMAIN recycle = 1..Len(recycle)
      BY <1>1, <3>2, LenProperties
    <3> HIDE DEF u
    <3>4. recycle' = u /\ e = q[1] /\ q[1].recycle /\ Len(recycle) < RecycleCap
      BY <2>2 DEF u, e
    <3>5. \A r \in DOMAIN u : r \in DOMAIN recycle \/ r = Len(recycle) + 1
      BY <1>1, <3>3
    <3>6. Len(u) <= RecycleCap
      BY <1>1, <3>2, <3>4
    <3> QED BY <3>2, <3>3, <3>4, <3>5, <3>6
  <2> QED BY <2>1, <2>2 DEF Received, q
<1> QED
  BY <1>1, <1>3, <1>4, <1>5, <1>6, Zenon DEF q, t

LEMMA ReadFrameFacts ==
  ASSUME SrpcAssumption, Base, NEW i \in Sides, ReadFrame(i)
  PROVE  /\ overflow[i] = <<>> /\ rx[i] # <<>> /\ Received(i)
         /\ UNCHANGED <<sendVars, stream, mem, b, serveVars, rxClosed, clientClosed, panicked>>
         /\ Elts(rx[i][1]) \in Seq(Element)
         /\ \E p \in Nat \ {0} : Takes(i, Elts(rx[i][1]), p)
<1>0. SendType /\ ServeType /\ QueueType /\ ReadType /\ OwnersInv
  BY DEF Base
<1>1. rx[i] # <<>> /\ rx[i] \in Seq(Slice) /\ overflow[i] = <<>>
  BY <1>0 DEF ReadFrame, QueueType
<1>2. Head(rx[i]) = rx[i][1] /\ rx[i][1] \in Slice /\ 1 \in DOMAIN rx[i]
  BY <1>1, TailFacts
<1>3. PICK p \in Reads : Takes(i, Elts(rx[i][1]), p)
  <2>1. \E p \in Reads : Takes(i, Elts(Head(rx[i])), p)
    BY Zenon DEF ReadFrame, Takes
  <2> QED BY <1>2, <2>1
<1>4. p \in Nat \ {0}
  BY DEF SrpcAssumption
<1>5. Received(i)
  BY <1>2, Zenon DEF ReadFrame, Received
<1>6. Elts(rx[i][1]) \in Seq(Element)
  <2>1. Within(mem, rx[i][1])
    BY <1>0, <1>2 DEF QueueType
  <2>2. mem[rx[i][1].arr].elts \in Seq(Element) /\ rx[i][1].lo \in Nat \ {0} /\ rx[i][1].hi \in Nat
    BY <1>0, <1>2 DEF ServeType, Array, Slice
  <2> QED BY <2>1, <2>2, PartFacts DEF Elts, Within
<1>7. UNCHANGED <<sendVars, stream, mem, b, serveVars, rxClosed, clientClosed, panicked>>
  BY DEF ReadFrame
<1> QED
  BY <1>1, <1>3, <1>4, <1>5, <1>6, <1>7

LEMMA ReadFrameBase ==
  ASSUME SrpcAssumption, Base, NEW i \in Sides, ReadFrame(i)
  PROVE  Base'
<1>0. SendType /\ ServeType /\ QueueType /\ ReadType /\ OwnersInv
  BY DEF Base
<1>1. /\ rx[i] # <<>> /\ Received(i)
      /\ UNCHANGED <<sendVars, stream, mem, b, serveVars, rxClosed, clientClosed, panicked>>
  BY ReadFrameFacts
<1>2. PICK p \in Nat \ {0} : Takes(i, Elts(rx[i][1]), p)
  BY ReadFrameFacts
<1>3. Elts(rx[i][1]) \in Seq(Element)
  BY ReadFrameFacts
<1> DEFINE s == rx[i][1]
<1>4. /\ rx' \in [Sides -> Seq(Slice)] /\ recycle' \in Seq(Slice)
      /\ Len(rx[i]) >= 1 /\ Len(rx'[i]) = Len(rx[i]) - 1 /\ Len(recycle') <= RecycleCap
      /\ 1 \in DOMAIN rx[i] /\ s \in Slice
      /\ \A j \in Sides \ {i} : rx'[j] = rx[j]
      /\ \A k \in DOMAIN rx'[i] : k \in Nat /\ k + 1 \in DOMAIN rx[i] /\ rx'[i][k] = rx[i][k + 1]
      /\ \A r \in DOMAIN recycle' :
           \/ r \in DOMAIN recycle /\ recycle'[r] = recycle[r]
           \/ r = Len(recycle) + 1 /\ recycle'[r] = s /\ s.recycle
  BY <1>0, <1>1, ReceivedFacts
<1> HIDE DEF s
<1>5. \A j \in Sides : \A k \in DOMAIN rx'[j] :
        \E q \in DOMAIN rx[j] : /\ rx'[j][k] = rx[j][q] /\ (j = i => q = k + 1 /\ k \in Nat /\ q # 1)
                                /\ (j # i => q = k)
  <2> SUFFICES ASSUME NEW j \in Sides, NEW k \in DOMAIN rx'[j]
               PROVE  \E q \in DOMAIN rx[j] : /\ rx'[j][k] = rx[j][q]
                                              /\ (j = i => q = k + 1 /\ k \in Nat /\ q # 1)
                                              /\ (j # i => q = k)
    OBVIOUS
  <2>1. CASE j = i
    <3>1. k \in Nat /\ k + 1 \in DOMAIN rx[i] /\ rx'[i][k] = rx[i][k + 1]
      BY <1>4, <2>1
    <3>2. k + 1 # 1 \/ k = 0
      BY <3>1
    <3>3. k # 0
      <4>1. rx'[i] \in Seq(Slice)
        BY <1>4
      <4> QED BY <2>1, <4>1
    <3> QED BY <2>1, <3>1, <3>2, <3>3
  <2>2. CASE j # i
    BY <1>4, <2>2
  <2> QED BY <2>1, <2>2
<1>6. /\ got' \in [Sides -> Seq(Element)] /\ overflow' \in [Sides -> Seq(Element)]
  BY <1>0, <1>2, <1>3, TakesFacts
<1>7. ReadType'
  BY <1>0, <1>1, <1>6 DEF ReadType
<1>8. SendType'
  BY <1>0, <1>1 DEF SendType, sendVars
<1>9. ServeType'
  BY <1>0, <1>1 DEF ServeType, serveVars
<1>10. QueueType'
  <2>1. \A j \in Sides : Len(rx'[j]) <= RxCap
    <3>1. Len(rx[i]) \in Nat /\ RxCap \in Nat /\ Len(rx[i]) <= RxCap
      BY <1>0, SlicesTyped DEF SrpcAssumption, QueueType
    <3>2. Len(rx'[i]) <= RxCap
      BY <1>4, <3>1
    <3> QED BY <1>0, <1>4, <3>2 DEF QueueType
  <2>2. \A j \in Sides : \A k \in DOMAIN rx'[j] : Within(mem, rx'[j][k]) /\ rx'[j][k].lo <= rx'[j][k].hi
    BY <1>0, <1>5 DEF QueueType
  <2>3. Within(mem, s) /\ s.lo <= s.hi
    BY <1>0, <1>4 DEF QueueType, s
  <2>4. \A r \in DOMAIN recycle' : Within(mem, recycle'[r]) /\ recycle'[r].lo <= recycle'[r].hi
    BY <1>0, <1>4, <2>3 DEF QueueType
  <2> QED BY <1>1, <1>4, <2>1, <2>2, <2>4 DEF QueueType
<1>11. OwnersInv'
  <2>1. spc # "next" /\ s.recycle => s.arr # b.arr
    BY <1>0, <1>4 DEF OwnersInv, Before, s
  <2>2. \A r \in DOMAIN recycle : s.recycle => recycle[r].arr # s.arr
    BY <1>0, <1>4 DEF OwnersInv, Before, s
  <2>3. s.recycle => \A j \in Sides : \A k \in DOMAIN rx'[j] : Before(rx'[j][k], s.arr, s.lo)
    <3> SUFFICES ASSUME s.recycle, NEW j \in Sides, NEW k \in DOMAIN rx'[j]
                 PROVE  Before(rx'[j][k], s.arr, s.lo)
      OBVIOUS
    <3>1. PICK q \in DOMAIN rx[j] : rx'[j][k] = rx[j][q] /\ (j = i => q # 1)
      BY <1>5
    <3>2. ~(i = j /\ 1 = q)
      BY <3>1
    <3> QED BY <1>0, <1>4, <3>1, <3>2 DEF OwnersInv, s
  <2>4. spc # "next" =>
          /\ \A j \in Sides : \A k \in DOMAIN rx'[j] : Before(rx'[j][k], b.arr, Mine)
          /\ \A r \in DOMAIN recycle' : recycle'[r].arr # b.arr
    <3> SUFFICES ASSUME spc # "next"
                 PROVE  /\ \A j \in Sides : \A k \in DOMAIN rx'[j] : Before(rx'[j][k], b.arr, Mine)
                        /\ \A r \in DOMAIN recycle' : recycle'[r].arr # b.arr
      OBVIOUS
    <3>1. \A j \in Sides : \A k \in DOMAIN rx[j] : Before(rx[j][k], b.arr, Mine)
      BY <1>0 DEF OwnersInv
    <3>2. \A r \in DOMAIN recycle : recycle[r].arr # b.arr
      BY <1>0 DEF OwnersInv
    <3>3. \A j \in Sides : \A k \in DOMAIN rx'[j] : Before(rx'[j][k], b.arr, Mine)
      BY <1>5, <3>1
    <3>4. \A r \in DOMAIN recycle' : recycle'[r].arr # b.arr
      BY <1>4, <2>1, <3>2
    <3> QED BY <3>3, <3>4
  <2>5. \A r, q \in DOMAIN recycle' : recycle'[r].arr = recycle'[q].arr => r = q
    BY <1>0, <1>4, <2>2 DEF OwnersInv
  <2>6. \A r \in DOMAIN recycle' : \A j \in Sides : \A k \in DOMAIN rx'[j] :
          Before(rx'[j][k], recycle'[r].arr, recycle'[r].lo)
    BY <1>0, <1>4, <1>5, <2>3 DEF OwnersInv
  <2>7. ASSUME NEW j \in Sides, NEW g \in Sides, NEW k \in DOMAIN rx'[j], NEW q \in DOMAIN rx'[g], rx'[j][k].recycle
        PROVE  (j = g /\ k = q) \/ Before(rx'[g][q], rx'[j][k].arr, rx'[j][k].lo)
    <3>1. PICK x \in DOMAIN rx[j] : rx'[j][k] = rx[j][x] /\ (j = i => x = k + 1 /\ k \in Nat) /\ (j # i => x = k)
      BY <1>5
    <3>2. PICK y \in DOMAIN rx[g] : rx'[g][q] = rx[g][y] /\ (g = i => y = q + 1 /\ q \in Nat) /\ (g # i => y = q)
      BY <1>5
    <3>3. (j = g /\ x = y) \/ Before(rx[g][y], rx[j][x].arr, rx[j][x].lo)
      BY <1>0, <2>7, <3>1 DEF OwnersInv
    <3>4. j = g /\ x = y => k = q
      BY <3>1, <3>2
    <3> QED BY <3>1, <3>2, <3>3, <3>4
  <2>8. Mine' = Mine /\ UNCHANGED <<b, spc>>
    BY <1>1 DEF Mine, serveVars
  <2> QED BY <2>4, <2>5, <2>6, <2>7, <2>8 DEF OwnersInv
<1> QED
  BY <1>7, <1>8, <1>9, <1>10, <1>11 DEF Base

\* The channels that a Close has closed
Closes ==
  \/ UNCHANGED rxClosed
  \/ \E i \in Sides : rxClosed' = [rxClosed EXCEPT ![i] = TRUE]

LEMMA CloseClientFacts ==
  ASSUME Base, CloseClient
  PROVE  /\ Base' /\ UNCHANGED <<sendVars, stream, mem, b, serveVars, rx, recycle, overflow, got, ended, panicked>>
         /\ clientClosed' = TRUE /\ ~clientClosed /\ rxClosed' = [rxClosed EXCEPT ![Server] = TRUE]
         /\ CloseEarly \/ Quiet \/ spc = "done"
<1>0. SendType /\ ServeType /\ QueueType /\ ReadType /\ OwnersInv
  BY DEF Base
<1>1. /\ UNCHANGED <<sendVars, stream, mem, b, serveVars, rx, recycle, overflow, got, ended, panicked>>
      /\ clientClosed' = TRUE /\ ~clientClosed
      /\ CloseEarly \/ Quiet \/ spc = "done"
  BY DEF CloseClient
<1>2. rxClosed' = [rxClosed EXCEPT ![Server] = TRUE]
  <2>1. Other(Client) = Server
    BY DEF Other, Client, Server
  <2> QED BY <2>1 DEF CloseClient, CloseRx
<1>3. SendType' /\ ServeType' /\ QueueType' /\ OwnersInv'
  <2>1. SendType'
    BY <1>0, <1>1 DEF SendType, sendVars
  <2>2. ServeType'
    BY <1>0, <1>1 DEF ServeType, serveVars
  <2>3. QueueType'
    BY <1>0, <1>1 DEF QueueType
  <2>4. OwnersInv'
    BY <1>0, <1>1 DEF OwnersInv, serveVars, Mine
  <2> QED BY <2>1, <2>2, <2>3, <2>4
<1>4. ReadType'
  BY <1>0, <1>1, <1>2 DEF ReadType
<1> QED
  BY <1>1, <1>2, <1>3, <1>4 DEF Base

LEMMA ReaderEndsFacts ==
  ASSUME Base, NEW i \in Sides, ReaderEnds(i)
  PROVE  /\ Base' /\ UNCHANGED <<sendVars, stream, mem, b, serveVars, rx, recycle, overflow, got, clientClosed, panicked>>
         /\ rxClosed[i]
         /\ rxClosed' = rxClosed \/ rxClosed' = [rxClosed EXCEPT ![Client] = TRUE]
<1>0. SendType /\ ServeType /\ QueueType /\ ReadType /\ OwnersInv
  BY DEF Base
<1>1. /\ UNCHANGED <<sendVars, stream, mem, b, serveVars, rx, recycle, overflow, got, clientClosed, panicked>>
      /\ rxClosed[i]
  BY DEF ReaderEnds
<1>2. rxClosed' = rxClosed \/ rxClosed' = [rxClosed EXCEPT ![Client] = TRUE]
  <2>1. Other(Server) = Client
    BY DEF Other, Client, Server
  <2> QED BY <2>1 DEF ReaderEnds, CloseRx
<1>3. SendType' /\ ServeType' /\ QueueType' /\ OwnersInv'
  <2>1. SendType'
    BY <1>0, <1>1 DEF SendType, sendVars
  <2>2. ServeType'
    BY <1>0, <1>1 DEF ServeType, serveVars
  <2>3. QueueType'
    BY <1>0, <1>1 DEF QueueType
  <2>4. OwnersInv'
    BY <1>0, <1>1 DEF OwnersInv, serveVars, Mine
  <2> QED BY <2>1, <2>2, <2>3, <2>4
<1>4. ReadType'
  BY <1>0, <1>1, <1>2 DEF ReadType
<1> QED
  BY <1>1, <1>2, <1>3, <1>4 DEF Base

LEMMA InitBase ==
  ASSUME SrpcAssumption, SrpcInit
  PROVE  Base
<1> USE DEF SrpcInit
<1>1. Server \in Sides /\ Client \in Sides /\ 0 \in Sides /\ 1 \in Arrays /\ 1 \in Nat \ {0} /\ 0 \in Nat
      /\ 2 = Free
  <2>1. 2 * RxCap + RecycleCap + 3 \in Nat /\ 2 * RxCap + RecycleCap + 3 >= 1
    BY DEF SrpcAssumption
  <2> QED BY <2>1 DEF Sides, Server, Client, Arrays, Free
<1>2. <<>> \in Seq(Element) /\ <<>> \in Seq(Slice) /\ Len(<<>>) = 0 /\ DOMAIN <<>> = {}
  BY EmptySeq
<1>3. SendType
  <2>1. \A i \in Sides : 0 <= MaxBytes[i]
    BY DEF SrpcAssumption, Sides, Server, Client
  <2> QED BY <1>1, <1>2, <2>1 DEF SendType, Sides
<1>4. ServeType
  <2>1. Empty \in Array
    BY <1>2 DEF Empty, Array
  <2>2. b \in Buffer /\ b.arr = 1 /\ b.lo = 1 /\ b.hi = 0
    BY <1>1 DEF Buffer
  <2>3. mem \in [Arrays -> Array] /\ mem[b.arr] = Empty
    BY <1>1, <2>1, <2>2
  <2>4. Within(mem, b)
    BY <1>2, <2>2, <2>3 DEF Within, Empty
  <2>5. 0 <= b.hi - b.lo + 1
    BY <2>2
  <2> QED BY <1>1, <2>2, <2>3, <2>4, <2>5 DEF ServeType
<1>5. \A i \in Sides : rx[i] = <<>>
  OBVIOUS
<1>6. QueueType
  <2>1. 0 <= RxCap /\ 0 <= RecycleCap
    BY DEF SrpcAssumption
  <2>2. rx \in [Sides -> Seq(Slice)] /\ recycle \in Seq(Slice)
    BY <1>2
  <2>3. (\A i \in Sides : Len(rx[i]) <= RxCap) /\ Len(recycle) <= RecycleCap
    BY <1>2, <1>5, <2>1
  <2> QED BY <1>2, <1>5, <2>2, <2>3 DEF QueueType
<1>7. ReadType
  BY <1>2 DEF ReadType
<1>8. OwnersInv
  BY <1>2, <1>5 DEF OwnersInv
<1> QED
  BY <1>3, <1>4, <1>6, <1>7, <1>8 DEF Base

LEMMA WriteBase ==
  ASSUME SrpcAssumption, Base, NEW i \in Sides, Write(i)
  PROVE  Base'
<1>0. SendType /\ ServeType /\ QueueType /\ ReadType /\ OwnersInv
  BY DEF Base
<1>1. SendType' /\ UNCHANGED <<stream, mem, b, serveVars, rx, rxClosed, recycle, readVars, panicked>>
  BY <1>0, WriteFacts
<1>2. ServeType'
  BY <1>0, <1>1 DEF ServeType, serveVars
<1>3. QueueType' /\ ReadType'
  BY <1>0, <1>1 DEF QueueType, ReadType, readVars
<1>4. OwnersInv'
  BY <1>0, <1>1 DEF OwnersInv, serveVars, Mine
<1> QED
  BY <1>1, <1>2, <1>3, <1>4 DEF Base

LEMMA WriteGoesOnBase ==
  ASSUME Base, WriteGoesOn
  PROVE  Base'
<1>0. SendType /\ ServeType /\ QueueType /\ ReadType /\ OwnersInv
  BY DEF Base
<1>1. SendType' /\ UNCHANGED <<wrote, mem, b, serveVars, rx, rxClosed, recycle, readVars, panicked>>
  BY <1>0, WriteSomeFacts, WriteFailsFacts DEF WriteGoesOn
<1>2. ServeType'
  BY <1>0, <1>1 DEF ServeType, serveVars
<1>3. QueueType' /\ ReadType'
  BY <1>0, <1>1 DEF QueueType, ReadType, readVars
<1>4. OwnersInv'
  BY <1>0, <1>1 DEF OwnersInv, serveVars, Mine
<1> QED
  BY <1>1, <1>2, <1>3, <1>4 DEF Base

\* Nothing that an invariant is about changes but that Serve may have ended
LEMMA FailsFacts ==
  ASSUME Base, ConnFail \/ ServeFails
  PROVE  /\ Base'
         /\ UNCHANGED <<sendVars, stream, mem, b, n, lastContentLen, lastFrameIsClient, rx, rxClosed, recycle,
                        overflow, got, clientClosed, panicked>>
         /\ spc' = spc \/ (spc = "read" /\ spc' = "done")
<1>0. SendType /\ ServeType /\ QueueType /\ ReadType /\ OwnersInv
  BY DEF Base
<1>1. /\ UNCHANGED <<sendVars, stream, mem, b, n, lastContentLen, lastFrameIsClient, rx, rxClosed, recycle,
                     overflow, got, clientClosed, panicked>>
      /\ spc' = spc \/ (spc = "read" /\ spc' = "done")
  BY DEF ConnFail, ServeFails, serveVars, readVars
<1>2. SendType'
  BY <1>0, <1>1 DEF SendType, sendVars
<1>3. ServeType'
  BY <1>0, <1>1 DEF ServeType
<1>4. QueueType' /\ ReadType'
  BY <1>0, <1>1 DEF QueueType, ReadType
<1>5. OwnersInv'
  BY <1>0, <1>1 DEF OwnersInv, Mine
<1> QED
  BY <1>1, <1>2, <1>3, <1>4, <1>5 DEF Base

LEMMA NextBase ==
  ASSUME SrpcAssumption, Base, [SrpcNext]_srpcVars
  PROVE  Base'
<1>1. CASE UNCHANGED srpcVars
  <2>1. UNCHANGED <<sendVars, stream, mem, b, serveVars, rx, rxClosed, recycle, readVars, panicked>>
    BY <1>1 DEF srpcVars
  <2>2. SendType' /\ ServeType' /\ QueueType' /\ ReadType' /\ OwnersInv'
    <3>0. SendType /\ ServeType /\ QueueType /\ ReadType /\ OwnersInv
      BY DEF Base
    <3>1. SendType'
      BY <2>1, <3>0 DEF SendType, sendVars
    <3>2. ServeType'
      BY <2>1, <3>0 DEF ServeType, serveVars
    <3>3. QueueType' /\ ReadType'
      BY <2>1, <3>0 DEF QueueType, ReadType, readVars
    <3>4. OwnersInv'
      BY <2>1, <3>0 DEF OwnersInv, serveVars, Mine
    <3> QED BY <3>1, <3>2, <3>3, <3>4
  <2> QED BY <2>2 DEF Base
<1>2. ASSUME NEW i \in Sides, Write(i) PROVE Base'
  BY <1>2, WriteBase
<1>3. ASSUME NEW i \in Sides, Reader(i) PROVE Base'
  BY <1>3, ReadOverflowFacts, ReadFrameBase, ReaderEndsFacts DEF Reader
<1>4. CASE WriteGoesOn
  BY <1>4, WriteGoesOnBase
<1>5. CASE Serve
  BY <1>5, ServeReadBase, FailsFacts, InputBase, NextBufBase DEF Serve
<1>6. CASE CloseClient \/ ConnFail
  BY <1>6, CloseClientFacts, FailsFacts
<1> QED
  BY <1>1, <1>2, <1>3, <1>4, <1>5, <1>6 DEF SrpcNext

LEMMA BaseSafe ==
  ASSUME Base
  PROVE  SrpcTypeOK /\ NoReuseInFlight
<1>0. SendType /\ ServeType /\ QueueType /\ ReadType /\ OwnersInv
  BY DEF Base
<1>1. \A s \in Slices : s.arr \in Arrays /\ s.hi <= mem[s.arr].cap
  <2>1. b.arr \in Arrays /\ b.hi <= mem[b.arr].cap
    BY <1>0 DEF ServeType, Buffer, Within
  <2>2. \A k \in DOMAIN recycle : recycle[k].arr \in Arrays /\ recycle[k].hi <= mem[recycle[k].arr].cap
    BY <1>0, SlicesTyped DEF QueueType, Slice, Within
  <2>3. \A i \in Sides : \A k \in DOMAIN rx[i] : rx[i][k].arr \in Arrays /\ rx[i][k].hi <= mem[rx[i][k].arr].cap
    BY <1>0, SlicesTyped DEF QueueType, Slice, Within
  <2> QED BY <2>1, <2>2, <2>3 DEF Slices
<1>2. SrpcTypeOK
  BY <1>0, <1>1 DEF SrpcTypeOK, SendType, ServeType, QueueType
<1>3. ASSUME NEW i \in Sides, NEW k \in DOMAIN rx[i]
      PROVE  /\ spc = "read" => ~(b.arr = rx[i][k].arr /\ b.lo <= rx[i][k].hi)
             /\ \A r \in DOMAIN recycle : ~(recycle[r].arr = rx[i][k].arr /\ recycle[r].lo <= rx[i][k].hi)
  <2>1. rx[i][k].hi \in Nat /\ b.lo \in Nat /\ \A r \in DOMAIN recycle : recycle[r].lo \in Nat
    BY <1>0, SlicesTyped DEF ServeType, Buffer, Slice
  <2>2. spc = "read" => Mine = b.lo
    BY <1>0, <2>1 DEF ServeType, Mine
  <2>3. spc = "read" => Before(rx[i][k], b.arr, b.lo)
    BY <1>0, <2>2 DEF OwnersInv
  <2>4. \A r \in DOMAIN recycle : Before(rx[i][k], recycle[r].arr, recycle[r].lo)
    BY <1>0 DEF OwnersInv
  <2> QED BY <2>1, <2>3, <2>4 DEF Before
<1> QED
  BY <1>2, <1>3 DEF NoReuseInFlight

-----------------------------------------------------------------------------
(* What is in flight *)

\* A frame is written behind what is in flight
LEMMA FramedAppend ==
  ASSUME NEW u \in Seq(Element), NEW c, NEW w \in [Sides -> Nat], NEW ends, NEW at, Framed(u, c, w, ends, at),
         NEW i \in Sides, NEW l \in Nat, NEW x, x = [w EXCEPT ![i] = w[i] + l],
         NEW f \in Seq(Element), Len(f) = HeaderSize(l) + l, IsFrame(f, 0, i, l, w[i])
  PROVE  \E e, a : Framed(u \o f, c, x, e, a)
<1> DEFINE v == u \o f
           h == HeaderSize(l)
           m == Len(u)
           e == ends \cup {Len(v)}
           a == [p \in e |-> IF p = Len(v) THEN x ELSE at[p]]
<1>1. h \in {1, 2} /\ m \in Nat /\ Len(f) \in Nat
  BY DEF HeaderSize
<1>2. /\ v \in Seq(Element) /\ Len(v) = m + Len(f)
      /\ \A k \in 1..m + Len(f) : v[k] = IF k <= m THEN u[k] ELSE f[k - m]
  BY ConcatProperties
<1>3. Len(v) = m + h + l /\ Len(v) \in Nat /\ Len(v) > m
  BY <1>1, <1>2
<1> HIDE DEF v, h, m
<1>4. /\ ends \subseteq 0..m /\ 0 \in ends /\ m \in ends
      /\ at \in [ends -> [Sides -> Nat]] /\ at[0] = c /\ at[m] = w
      /\ \A p \in ends : \A j \in Sides : at[p][j] <= w[j]
      /\ \A p \in ends : p # m => \E j \in Sides, k \in Nat :
           /\ IsFrame(u, p, j, k, at[p][j])
           /\ p + HeaderSize(k) + k \in ends
           /\ at[p + HeaderSize(k) + k] = [at[p] EXCEPT ![j] = @ + k]
  BY DEF Framed, m
<1>5. x \in [Sides -> Nat] /\ \A j \in Sides : w[j] <= x[j] /\ w[j] \in Nat /\ x[j] \in Nat
  OBVIOUS
<1>6. e \subseteq 0..Len(v) /\ 0 \in e /\ Len(v) \in e /\ \A p \in ends : p \in e /\ p # Len(v) /\ p \in Nat /\ p <= m
  BY <1>1, <1>3, <1>4
<1>7. /\ a \in [e -> [Sides -> Nat]] /\ a[0] = c /\ a[Len(v)] = x
      /\ \A p \in ends : a[p] = at[p]
  BY <1>4, <1>5, <1>6
<1>8. \A p \in e : \A j \in Sides : a[p][j] <= x[j]
  <2> SUFFICES ASSUME NEW p \in e, NEW j \in Sides PROVE a[p][j] <= x[j]
    OBVIOUS
  <2>1. CASE p = Len(v)
    BY <1>5, <1>7, <2>1
  <2>2. CASE p \in ends
    <3>1. at[p][j] \in Nat /\ at[p][j] <= w[j]
      BY <1>4, <2>2
    <3> QED BY <1>5, <1>7, <2>2, <3>1
  <2> QED BY <2>1, <2>2
<1> HIDE DEF e, a
<1>9. ASSUME NEW p \in e, p # Len(v)
      PROVE  \E j \in Sides, k \in Nat :
               /\ IsFrame(v, p, j, k, a[p][j])
               /\ p + HeaderSize(k) + k \in e
               /\ a[p + HeaderSize(k) + k] = [a[p] EXCEPT ![j] = @ + k]
  <2>1. p \in ends /\ p \in Nat /\ p <= m
    BY <1>6, <1>9 DEF e
  <2>2. CASE p = m
    <3>1. /\ l > 1 => f[0 + 1].kind = "more"
          /\ f[0 + h] = [side |-> i, len |-> l, kind |-> "header"]
          /\ \A k \in 1..l : f[0 + h + k] = Byte(i, w[i] + k)
      BY DEF IsFrame, h
    <3>2. f[h] = [side |-> i, len |-> l, kind |-> "header"] /\ (l > 1 => f[1].kind = "more")
      <4>1. 0 + h = h /\ 0 + 1 = 1
        BY <1>1
      <4> QED BY <3>1, <4>1
    <3>3. v[m + h] = f[h] /\ v[m + 1] = f[1]
      <4>1. m + h \in 1..m + Len(f) /\ ~(m + h <= m) /\ (m + h) - m = h
        BY <1>1, <1>2, <1>3
      <4>2. m + 1 \in 1..m + Len(f) /\ ~(m + 1 <= m) /\ (m + 1) - m = 1
        BY <1>1, <1>2, <1>3
      <4> QED BY <1>2, <4>1, <4>2
    <3>4. \A k \in 1..l : v[m + h + k] = Byte(i, w[i] + k)
      <4> TAKE k \in 1..l
      <4>1. m + h + k \in 1..m + Len(f) /\ ~(m + h + k <= m) /\ (m + h + k) - m = 0 + h + k
        BY <1>1, <1>2, <1>3
      <4> QED BY <1>2, <3>1, <4>1
    <3>a. /\ m + h + l <= Len(v) /\ v[m + h] = [side |-> i, len |-> l, kind |-> "header"]
          /\ l > 1 => v[m + 1].kind = "more"
      BY <1>1, <1>3, <3>2, <3>3
    <3>5. IsFrame(v, m, i, l, w[i])
      BY <3>4, <3>a DEF IsFrame, h
    <3>6. a[m] = w /\ a[m + h + l] = x /\ m + h + l \in e
      BY <1>3, <1>4, <1>6, <1>7
    <3>7. p + HeaderSize(l) + l = m + h + l
      BY <2>2 DEF h
    <3>8. IsFrame(v, p, i, l, a[p][i])
      BY <2>2, <3>5, <3>6, Zenon
    <3>9. a[p + HeaderSize(l) + l] = [a[p] EXCEPT ![i] = @ + l]
      BY <2>2, <3>6, <3>7, Zenon
    <3>10. p + HeaderSize(l) + l \in e
      BY <3>6, <3>7, Zenon
    <3> QED BY <3>8, <3>9, <3>10, Zenon
  <2>3. CASE p # m
    <3>1. PICK j \in Sides, k \in Nat :
            /\ IsFrame(u, p, j, k, at[p][j])
            /\ p + HeaderSize(k) + k \in ends
            /\ at[p + HeaderSize(k) + k] = [at[p] EXCEPT ![j] = @ + k]
      BY <1>4, <2>1, <2>3
    <3> DEFINE g == HeaderSize(k)
    <3>2. g \in {1, 2}
      BY DEF HeaderSize
    <3>3. /\ p + g + k <= m
          /\ k > 1 => u[p + 1].kind = "more"
          /\ u[p + g] = [side |-> j, len |-> k, kind |-> "header"]
          /\ \A q \in 1..k : u[p + g + q] = Byte(j, at[p][j] + q)
      BY <3>1 DEF IsFrame, m
    <3> HIDE DEF g
    <3>4. v[p + 1] = u[p + 1] /\ v[p + g] = u[p + g]
      <4>0. p + g + k <= m /\ g \in {1, 2} /\ p \in Nat
        BY <1>1, <2>1, <3>2, <3>3
      <4>1. p + 1 <= m /\ p + g <= m
        BY <1>1, <4>0
      <4>2. p + 1 \in 1..m + Len(f) /\ p + g \in 1..m + Len(f)
        BY <1>1, <2>1, <3>2, <4>1
      <4> QED BY <1>2, <4>1, <4>2
    <3>5. \A q \in 1..k : v[p + g + q] = u[p + g + q]
      <4> TAKE q \in 1..k
      <4>1. p + g + q <= m /\ p + g + q \in Nat \ {0}
        BY <1>1, <2>1, <3>2, <3>3, SMTT(30)
      <4>2. p + g + q \in 1..m + Len(f)
        BY <1>1, <4>1
      <4> QED BY <1>2, <4>1, <4>2
    <3>6. p + g + k <= Len(v)
      BY <1>1, <1>3, <2>1, <3>2, <3>3
    <3>7. IsFrame(v, p, j, k, at[p][j])
      BY <3>3, <3>4, <3>5, <3>6 DEF IsFrame, g
    <3>8. a[p] = at[p] /\ p + g + k \in e /\ a[p + g + k] = at[p + g + k]
      BY <1>6, <1>7, <2>1, <3>1 DEF g
    <3> QED BY <3>1, <3>7, <3>8 DEF g
  <2> QED BY <2>2, <2>3
<1>10. Framed(v, c, x, e, a)
  BY <1>6, <1>7, <1>8, <1>9 DEF Framed
<1> QED
  BY <1>10 DEF v

\* The frame at the front of what is in flight is taken
LEMMA FramedTake ==
  ASSUME NEW u \in Seq(Element), NEW c, NEW w \in [Sides -> Nat], NEW ends, NEW at, Framed(u, c, w, ends, at),
         NEW d \in ends, NEW v \in Seq(Element), Len(v) = Len(u) - d, \A k \in 1..Len(v) : v[k] = u[d + k]
  PROVE  \E e, a : Framed(v, at[d], w, e, a)
<1> DEFINE m == Len(v)
           e == {p \in 0..m : d + p \in ends}
           a == [p \in e |-> at[d + p]]
<1>1. /\ ends \subseteq 0..Len(u) /\ 0 \in ends /\ Len(u) \in ends
      /\ at \in [ends -> [Sides -> Nat]] /\ at[0] = c /\ at[Len(u)] = w
      /\ \A p \in ends : \A j \in Sides : at[p][j] <= w[j]
      /\ \A p \in ends : p # Len(u) => \E j \in Sides, k \in Nat :
           /\ IsFrame(u, p, j, k, at[p][j])
           /\ p + HeaderSize(k) + k \in ends
           /\ at[p + HeaderSize(k) + k] = [at[p] EXCEPT ![j] = @ + k]
  BY DEF Framed
<1>2. d \in Nat /\ m \in Nat /\ d + m = Len(u) /\ Len(u) \in Nat
  BY <1>1
<1> HIDE DEF m
<1>3. 0 \in e /\ m \in e /\ e \subseteq 0..m /\ \A p \in e : d + p \in ends
  <2>1. d + 0 = d
    BY <1>2
  <2> QED BY <1>1, <1>2, <2>1
<1>4. a \in [e -> [Sides -> Nat]] /\ a[0] = at[d] /\ a[m] = w /\ \A p \in e : a[p] = at[d + p]
  <2>1. d + 0 = d
    BY <1>2
  <2> QED BY <1>1, <1>2, <1>3, <2>1
<1>5. \A p \in e : \A j \in Sides : a[p][j] <= w[j]
  BY <1>1, <1>3, <1>4
<1>6. \A p \in 0..m : d + p \in ends => p \in e
  OBVIOUS
<1> HIDE DEF e, a
<1>7. ASSUME NEW p \in e, p # m
      PROVE  \E j \in Sides, k \in Nat :
               /\ IsFrame(v, p, j, k, a[p][j])
               /\ p + HeaderSize(k) + k \in e
               /\ a[p + HeaderSize(k) + k] = [a[p] EXCEPT ![j] = @ + k]
  <2> DEFINE r == d + p
  <2>1. p \in Nat /\ p <= m /\ r \in ends /\ r # Len(u) /\ r \in Nat
    BY <1>1, <1>2, <1>3, <1>7
  <2>2. PICK j \in Sides, k \in Nat :
          /\ IsFrame(u, r, j, k, at[r][j])
          /\ r + HeaderSize(k) + k \in ends
          /\ at[r + HeaderSize(k) + k] = [at[r] EXCEPT ![j] = @ + k]
    BY <1>1, <2>1
  <2> DEFINE g == HeaderSize(k)
  <2>3. g \in {1, 2}
    BY DEF HeaderSize
  <2>4. /\ r + g + k <= Len(u)
        /\ k > 1 => u[r + 1].kind = "more"
        /\ u[r + g] = [side |-> j, len |-> k, kind |-> "header"]
        /\ \A q \in 1..k : u[r + g + q] = Byte(j, at[r][j] + q)
    BY <2>2 DEF IsFrame
  <2>5. r = d + p
    OBVIOUS
  <2> HIDE DEF g, r
  <2>6. p + g + k <= m /\ p + g + k \in 0..m /\ d + (p + g + k) = r + g + k
    BY <1>2, <2>1, <2>3, <2>4, <2>5, SMTT(20)
  <2>7. v[p + 1] = u[r + 1] /\ v[p + g] = u[r + g]
    <3>1. p + 1 \in 1..m /\ p + g \in 1..m /\ d + (p + 1) = r + 1 /\ d + (p + g) = r + g
      BY <1>2, <2>1, <2>3, <2>5, <2>6
    <3>2. v[p + 1] = u[d + (p + 1)] /\ v[p + g] = u[d + (p + g)]
      BY <3>1 DEF m
    <3> QED BY <3>1, <3>2
  <2>8. \A q \in 1..k : v[p + g + q] = Byte(j, at[r][j] + q)
    <3> TAKE q \in 1..k
    <3>1. p + g + q \in 1..m /\ d + (p + g + q) = r + g + q
      BY <1>2, <2>1, <2>3, <2>5, <2>6
    <3>2. v[p + g + q] = u[d + (p + g + q)]
      BY <3>1 DEF m
    <3> QED BY <2>4, <3>1, <3>2
  <2>9. IsFrame(v, p, j, k, at[r][j])
    BY <2>4, <2>6, <2>7, <2>8 DEF IsFrame, g, m
  <2>10. p + g + k \in e /\ a[p + g + k] = at[r + g + k] /\ a[p] = at[r]
    <3> DEFINE x == p + g + k
    <3>1. x \in 0..m /\ d + x = r + g + k
      BY <2>6
    <3>2. r + g + k \in ends
      BY <2>2 DEF g
    <3> HIDE DEF x
    <3>3. x \in e /\ a[x] = at[r + g + k]
      BY <1>4, <1>6, <3>1, <3>2
    <3>4. a[p] = at[r]
      BY <1>4, <2>5
    <3> QED BY <3>3, <3>4, Zenon DEF x
  <2>11. IsFrame(v, p, j, k, a[p][j])
    BY <2>9, <2>10
  <2>12. p + HeaderSize(k) + k \in e
    BY <2>10 DEF g
  <2>13. a[p + HeaderSize(k) + k] = [a[p] EXCEPT ![j] = @ + k]
    <3>1. at[r + g + k] = [at[r] EXCEPT ![j] = at[r][j] + k]
      BY <2>2 DEF g
    <3>2. a[p + g + k] = [a[p] EXCEPT ![j] = a[p][j] + k]
      BY <2>10, <3>1
    <3> QED BY <3>2 DEF g
  <2> QED BY <2>11, <2>12, <2>13
<1>8. Framed(v, at[d], w, e, a)
  BY <1>3, <1>4, <1>5, <1>7 DEF Framed, m
<1> QED
  BY <1>8

\* l elements of u that follow the first p are the bytes of side i after the first x
IsBytes(u, p, i, x, l) == \A k \in 1..l : u[p + k] = Byte(i, x + k)

\* A header of h elements and the l bytes that follow it are the next frame, of side i
IsNext(es, h, i, l, c, ends, at) ==
  /\ h \in Nat /\ i \in Sides /\ l \in Nat /\ h + l <= Len(es) /\ h + l \in ends
  /\ at[h + l] = [c EXCEPT ![i] = c[i] + l]
  /\ IsBytes(es, h, i, c[i], l)

\* What Input finds at the front of what is in flight is the next frame of its side
LEMMA FrontFacts ==
  ASSUME NEW es \in Seq(Element), NEW u \in Seq(Element), Len(es) <= Len(u), \A k \in 1..Len(es) : u[k] = es[k],
         NEW c, NEW w, NEW ends, NEW at, Framed(u, c, w, ends, at), FrameValid(es)
  PROVE  IsNext(es, HeaderLen(es), es[HeaderLen(es)].side, es[HeaderLen(es)].len, c, ends, at)
<1> SUFFICES ASSUME NEW h, h = HeaderLen(es), NEW i, i = es[h].side, NEW l, l = es[h].len
             PROVE  IsNext(es, h, i, l, c, ends, at)
  OBVIOUS
<1>1. h \in {1, 2} /\ h \in 1..Len(es) /\ l \in Nat /\ i \in Sides /\ h + l <= Len(es) /\ Len(es) \in Nat
  BY HeaderFacts
<1>2. Len(u) \in Nat
  OBVIOUS
<1>3. 0 \in ends /\ 0 # Len(u) /\ at[0] = c
  BY <1>1, <1>2 DEF Framed
<1>4. PICK j \in Sides, k \in Nat :
        /\ IsFrame(u, 0, j, k, at[0][j])
        /\ 0 + HeaderSize(k) + k \in ends
        /\ at[0 + HeaderSize(k) + k] = [at[0] EXCEPT ![j] = @ + k]
  BY <1>3 DEF Framed
<1> DEFINE g == HeaderSize(k)
<1>5. g \in {1, 2} /\ (k > 1 => g = 2) /\ (~(k > 1) => g = 1)
  BY DEF HeaderSize
<1>6. /\ k > 1 => u[1].kind = "more"
      /\ u[g] = [side |-> j, len |-> k, kind |-> "header"]
      /\ \A q \in 1..k : u[g + q] = Byte(j, c[j] + q)
      /\ g + k \in ends /\ at[g + k] = [c EXCEPT ![j] = c[j] + k]
  <2>1. 0 + g = g /\ 0 + 1 = 1
    BY <1>5
  <2> HIDE DEF g
  <2>2. /\ k > 1 => u[0 + 1].kind = "more"
        /\ u[0 + g] = [side |-> j, len |-> k, kind |-> "header"]
        /\ \A q \in 1..k : u[0 + g + q] = Byte(j, c[j] + q)
        /\ 0 + g + k \in ends /\ at[0 + g + k] = [c EXCEPT ![j] = c[j] + k]
    BY <1>3, <1>4 DEF IsFrame, g
  <2> QED BY <2>1, <2>2
<1> HIDE DEF g
<1>7. \A q \in 1..Len(es) : u[q] = es[q]
  OBVIOUS
<1>8. h = g
  <2>1. es # <<>> /\ 1 \in 1..Len(es) /\ es[1] = u[1]
    BY <1>1, <1>7, EmptySeq
  <2>2. CASE k > 1
    <3>1. es[1].kind = "more" /\ g = 2
      BY <1>5, <1>6, <2>1, <2>2
    <3>2. HeaderLen(es) \in {0, 2}
      BY <2>1, <3>1 DEF HeaderLen
    <3> QED BY <1>1, <3>1, <3>2
  <2>3. CASE ~(k > 1)
    <3>1. es[1] = [side |-> j, len |-> k, kind |-> "header"] /\ g = 1
      BY <1>5, <1>6, <2>1, <2>3
    <3>2. es[1].kind = "header"
      BY <3>1
    <3>3. HeaderLen(es) = 1
      BY <2>1, <3>2 DEF HeaderLen
    <3> QED BY <3>1, <3>3
  <2> QED BY <2>2, <2>3
<1>9. l = k /\ i = j
  <2>1. es[h] = [side |-> j, len |-> k, kind |-> "header"]
    BY <1>1, <1>6, <1>7, <1>8
  <2> QED BY <2>1
<1>10. \A q \in 1..l : es[h + q] = Byte(i, c[i] + q)
  <2> TAKE q \in 1..l
  <2>1. h + q \in 1..Len(es)
    BY <1>1
  <2> QED BY <1>6, <1>7, <1>8, <1>9, <2>1
<1>11. h + l \in ends /\ at[h + l] = [c EXCEPT ![i] = c[i] + l]
  BY <1>6, <1>8, <1>9, Zenon
<1>12. h \in Nat
  BY <1>1
<1> QED
  BY <1>1, <1>10, <1>11, <1>12, Zenon DEF IsNext, IsBytes

-----------------------------------------------------------------------------
(* What is in flight, found and in the channels continues what has been read *)

LEMMA InFlightFacts ==
  ASSUME SendType, ServeType
  PROVE  /\ Left \in Seq(Element) /\ stream \in Seq(Element) /\ Unsent \in Seq(Element)
         /\ stream \o Unsent \in Seq(Element) /\ InFlight \in Seq(Element)
<1>1. Left \in Seq(Element)
  BY LeftFacts
<1>2. stream \in Seq(Element) /\ Unsent \in Seq(Element)
  <2>1. stream \in Seq(Element) /\ lost \in Seq(Element) /\ wb \in Seq(Element)
    BY DEF SendType
  <2> QED BY <2>1, Concatenated DEF Unsent
<1>3. stream \o Unsent \in Seq(Element)
  BY <1>2, ConcatProperties
<1>4. Left \o (stream \o Unsent) \in Seq(Element)
  BY <1>1, <1>3, ConcatProperties
<1> QED
  BY <1>1, <1>2, <1>3, <1>4 DEF InFlight

LEMMA DeliveredSame ==
  ASSUME NEW i, NEW c, NEW start, Delivered(i, c, start), UNCHANGED <<mem, b, serveVars, rx, got, overflow>>
  PROVE  Delivered(i, c, start)'
BY DEF Delivered, Queued, serveVars, Found, Elts, SliceLen

\* The buffer of Serve changes while nothing is found
LEMMA DeliveredKept ==
  ASSUME QueueType, NEW i \in Sides, NEW c, NEW start, Delivered(i, c, start), FramesKept,
         UNCHANGED <<rx, got, overflow>>, n \in Nat, n' \in Nat, Found(i) = 0, Found(i)' = 0
  PROVE  Delivered(i, c, start)'
<1> DEFINE r == rx[i]
           x == start[Len(r) + 1]
<1>1. rx'[i] = r /\ got'[i] = got[i] /\ overflow'[i] = overflow[i]
  OBVIOUS
<1>2. \A k \in 1..Len(r) : EltsIn(mem', r[k]) = EltsIn(mem, r[k])
  BY SlicesTyped DEF FramesKept
<1>3. /\ start \in [1..Len(r) + 1 -> Nat]
      /\ start[1] = Len(got[i]) + Len(overflow[i])
      /\ \A k \in 1..Len(r) :
           /\ start[k + 1] = start[k] + SliceLen(r[k])
           /\ EltsIn(mem, r[k]) = Bytes(Other(i), start[k] + 1, SliceLen(r[k]))
      /\ \A k \in 1..Len(r) + 1 : start[k] <= c
      /\ x + Found(i) = c
  BY DEF Delivered, Queued, Elts, EltsIn
<1>4. \A s : Elts(s) = EltsIn(mem, s)
  BY DEF Elts, EltsIn
<1>5. SubSeq(EltsIn(mem', b'), n' - Found(i)' + 1, n') = <<>>
  <2> DEFINE m == n'
             f == Found(i)'
  <2>1. m \in Nat /\ f = 0
    OBVIOUS
  <2> HIDE DEF m, f
  <2>2. m - f + 1 \in Int /\ m \in Int /\ m < m - f + 1
    BY <2>1
  <2>3. SubSeq(EltsIn(mem', b'), m - f + 1, m) = <<>>
    BY <2>2, SubSeqEmpty
  <2> QED BY <2>3 DEF m, f
<1>6. Bytes(Other(i), x + 1, Found(i)') = <<>>
  BY DEF Bytes
<1>7. x + Found(i)' = c
  BY <1>3
<1>8. \A k \in 1..Len(r) :
        /\ start[k + 1] = start[k] + SliceLen(r[k])
        /\ EltsIn(mem', r[k]) = Bytes(Other(i), start[k] + 1, SliceLen(r[k]))
  BY <1>2, <1>3
<1>9. (\A s : Elts(s)' = SubSeq(mem'[s.arr].elts, s.lo, s.hi)) /\ Elts(b)' = EltsIn(mem', b')
  BY DEF Elts, EltsIn
<1> QED
  BY <1>1, <1>3, <1>5, <1>6, <1>7, <1>8, Zenon DEF Delivered, Queued, Elts, EltsIn, SliceLen

LEMMA FlowWrite ==
  ASSUME SrpcAssumption, Base, NEW c, Flow(c), NEW i \in Sides, Write(i)
  PROVE  Flow(c)'
<1>0. SendType /\ ServeType
  BY DEF Base
<1>1. /\ wb = <<>>
      /\ UNCHANGED <<lost, stream, mem, b, serveVars, rx, rxClosed, recycle, readVars, panicked>>
  BY <1>0, WriteFacts
<1>2. PICK l \in FrameLens : /\ l \in Nat /\ wrote' = [wrote EXCEPT ![i] = wrote[i] + l]
                             /\ wb' \in Seq(Element) /\ Len(wb') = HeaderSize(l) + l
                             /\ IsFrame(wb', 0, i, l, wrote[i])
  BY <1>0, WriteFacts
<1>3. Left' = Left /\ stream' = stream
  BY <1>1 DEF Left, Elts, serveVars
<1>4. /\ Left \in Seq(Element) /\ stream \in Seq(Element) /\ lost \in Seq(Element) /\ InFlight \in Seq(Element)
      /\ wrote \in [Sides -> Nat]
  BY <1>0, InFlightFacts DEF SendType
<1>5. Unsent = lost /\ Unsent' = lost \o wb'
  <2>1. lost \o <<>> = lost
    BY <1>4, ConcatEmptySeq, Zenon
  <2> QED BY <1>1, <2>1 DEF Unsent
<1>6. InFlight' = InFlight \o wb'
  <2>1. wb' \in Seq(Element)
    BY <1>2
  <2>2. Cat(Cat(stream, lost), wb') = Cat(stream, Cat(lost, wb')) /\ Cat(stream, lost) \in Seq(Element)
    BY <1>4, <2>1, CatAssociative
  <2>3. Cat(Cat(Left, Cat(stream, lost)), wb') = Cat(Left, Cat(Cat(stream, lost), wb'))
    BY <1>4, <2>1, <2>2, CatAssociative
  <2>4. InFlight = Cat(Left, Cat(stream, lost)) /\ InFlight' = Cat(Left, Cat(stream, Cat(lost, wb')))
    BY <1>3, <1>5 DEF InFlight, Cat
  <2>5. InFlight' = Cat(InFlight, wb')
    BY <2>2, <2>3, <2>4, Zenon
  <2> QED BY <2>5, Zenon DEF Cat
<1>7. PICK ends, at : Framed(InFlight, c, wrote, ends, at)
  BY DEF Flow
<1>8. \E e, a : Framed(InFlight', c, wrote', e, a)
  <2> DEFINE u == InFlight
             f == wb'
             w == wrote
             x == wrote'
  <2>1. /\ u \in Seq(Element) /\ w \in [Sides -> Nat] /\ Framed(u, c, w, ends, at)
        /\ f \in Seq(Element) /\ Len(f) = HeaderSize(l) + l /\ IsFrame(f, 0, i, l, w[i])
        /\ x = [w EXCEPT ![i] = w[i] + l] /\ l \in Nat
    BY <1>2, <1>4, <1>7
  <2> HIDE DEF u, f, w, x
  <2>2. \E e, a : Framed(u \o f, c, x, e, a)
    BY <2>1, FramedAppend
  <2> QED BY <1>6, <2>2 DEF u, f, x
<1>9. \A j \in Sides : \E start : Delivered(j, c[Other(j)], start)'
  <2> SUFFICES ASSUME NEW j \in Sides PROVE \E start : Delivered(j, c[Other(j)], start)'
    OBVIOUS
  <2>1. PICK start : Delivered(j, c[Other(j)], start)
    BY DEF Flow
  <2>2. UNCHANGED <<mem, b, serveVars, rx, got, overflow>>
    BY <1>1 DEF readVars
  <2>3. Delivered(j, c[Other(j)], start)'
    BY <2>1, <2>2, DeliveredSame
  <2> QED BY <2>3
<1>10. c \in [Sides -> Nat]
  BY DEF Flow
<1> QED
  BY <1>8, <1>9, <1>10 DEF Flow

\* Steps that leave what is in flight and what is delivered alone
LEMMA FlowSame ==
  ASSUME NEW c, Flow(c), UNCHANGED <<wrote, mem, b, serveVars, rx, got, overflow>>,
         stream' \o Unsent' = stream \o Unsent
  PROVE  Flow(c)'
<1>1. InFlight' = InFlight
  <2>1. Left' = Left
    BY DEF Left, Elts, serveVars
  <2> QED BY <2>1 DEF InFlight
<1>2. \A j \in Sides : \E start : Delivered(j, c[Other(j)], start)'
  <2> SUFFICES ASSUME NEW j \in Sides PROVE \E start : Delivered(j, c[Other(j)], start)'
    OBVIOUS
  <2>1. PICK start : Delivered(j, c[Other(j)], start)
    BY DEF Flow
  <2>2. Delivered(j, c[Other(j)], start)'
    BY <2>1, DeliveredSame
  <2> QED BY <2>2
<1> QED
  BY <1>1, <1>2 DEF Flow

LEMMA EltsInFacts ==
  ASSUME NEW m \in [Arrays -> Array], NEW s \in Buffer, Within(m, s)
  PROVE  EltsIn(m, s) \in Seq(Element) /\ Len(EltsIn(m, s)) = s.hi - s.lo + 1
<1>1. s.arr \in Arrays /\ s.lo \in Nat \ {0} /\ s.hi \in Nat
  BY DEF Buffer
<1>2. m[s.arr].elts \in Seq(Element)
  BY <1>1 DEF Array
<1> QED
  BY <1>1, <1>2, PartFacts DEF EltsIn, Within

\* A buffer from which nothing has been taken
LEMMA NewLeft ==
  ASSUME ServeType', n' = 0
  PROVE  Left' = EltsIn(mem', b')
<1>1. mem' \in [Arrays -> Array] /\ b' \in Buffer /\ Within(mem', b')
  BY DEF ServeType
<1>2. EltsIn(mem', b') \in Seq(Element) /\ Len(EltsIn(mem', b')) = b'.hi - b'.lo + 1
  BY <1>1, EltsInFacts
<1>3. Left' = SubSeq(EltsIn(mem', b'), 0 + 1, b'.hi - b'.lo + 1)
  BY DEF Left, Elts, EltsIn
<1> QED
  BY <1>2, <1>3, SubSeqFull

LEMMA FlowServeRead ==
  ASSUME SrpcAssumption, Base, NEW c, Flow(c), ServeRead
  PROVE  Flow(c)'
<1>0. SendType /\ ServeType /\ QueueType /\ SendType' /\ ServeType'
  BY ServeReadBase DEF Base
<1>1. FramesKept
  BY ServeReadBase
<1>2. PICK k \in 1..Len(stream) : /\ EltsIn(mem', b') = Elts(b) \o SubSeq(stream, 1, k)
                                  /\ stream' = SubSeq(stream, k + 1, Len(stream))
  BY ServeReadBase
<1>3. /\ spc = "read" /\ spc' = "input" /\ n' = 0 /\ lastContentLen' = 0
      /\ UNCHANGED <<sendVars, rx, got, overflow>>
  BY DEF ServeRead, readVars
<1>4. n = 0 /\ n \in Nat /\ n' \in Nat
  BY <1>0, <1>3 DEF ServeType
<1> DEFINE s == SubSeq(stream, 1, k)
           e == Elts(b)
<1>5. /\ stream \in Seq(Element) /\ Len(stream) \in Nat /\ Unsent \in Seq(Element) /\ stream' \in Seq(Element)
      /\ e \in Seq(Element) /\ Len(e) = b.hi - b.lo + 1
  BY <1>0, LeftFacts, InFlightFacts DEF SendType
<1>6. s \in Seq(Element) /\ s \o stream' = stream
  <2>1. 1 \in 1..Len(stream) + 1 /\ k \in 0..Len(stream) /\ Len(stream) \in k..Len(stream) /\ 1 - 1 = 0
        /\ 1 \in Nat \ {0} /\ k \in Nat /\ k <= Len(stream) /\ 1 <= k + 1
    BY <1>5
  <2>2. SubSeq(stream, 1, k) \o SubSeq(stream, k + 1, Len(stream)) = SubSeq(stream, 1, Len(stream))
    BY <1>5, <2>1, ConcatAdjacentSubSeq
  <2>3. SubSeq(stream, 1, Len(stream)) = stream
    BY <1>5, SubSeqFull
  <2>4. s \in Seq(Element)
    BY <1>5, <2>1, PartFacts
  <2> QED BY <1>2, <2>2, <2>3, <2>4, Zenon
<1>7. Left = e
  <2>1. Left = SubSeq(e, 0 + 1, b.hi - b.lo + 1)
    BY <1>4 DEF Left
  <2> HIDE DEF e
  <2> QED BY <1>5, <2>1, SubSeqFull
<1>8. Left' = e \o s
  BY <1>0, <1>2, <1>3, NewLeft
<1> HIDE DEF s, e
<1>9. InFlight' = InFlight
  <2>0. Unsent' = Unsent
    BY <1>3 DEF Unsent, sendVars
  <2>1. InFlight' = (e \o s) \o (stream' \o Unsent)
    BY <1>8, <2>0 DEF InFlight
  <2>2. stream' \o Unsent \in Seq(Element)
    BY <1>5, Concatenated
  <2>3. (e \o s) \o (stream' \o Unsent) = e \o (s \o (stream' \o Unsent))
    <3> DEFINE y == stream' \o Unsent
    <3>1. y \in Seq(Element)
      BY <2>2
    <3> HIDE DEF y
    <3>2. (e \o s) \o y = e \o (s \o y)
      <4>1. e \in Seq(Element) /\ s \in Seq(Element)
        BY <1>5, <1>6
      <4> QED BY <3>1, <4>1, Concatenated
    <3> QED BY <3>2, Zenon DEF y
  <2>4. s \o (stream' \o Unsent) = (s \o stream') \o Unsent
    <3>1. s \in Seq(Element) /\ stream' \in Seq(Element) /\ Unsent \in Seq(Element)
      BY <1>5, <1>6
    <3> QED BY <3>1, Concatenated
  <2>5. InFlight = e \o (stream \o Unsent)
    BY <1>7 DEF InFlight
  <2> QED BY <1>6, <2>1, <2>3, <2>4, <2>5, Zenon
<1>10. \A i \in Sides : \E start : Delivered(i, c[Other(i)], start)'
  <2> SUFFICES ASSUME NEW i \in Sides PROVE \E start : Delivered(i, c[Other(i)], start)'
    OBVIOUS
  <2>1. PICK start : Delivered(i, c[Other(i)], start)
    BY DEF Flow
  <2>2. Found(i) = 0 /\ Found(i)' = 0
    BY <1>3 DEF Found
  <2>3. Delivered(i, c[Other(i)], start)'
    BY <1>0, <1>1, <1>3, <1>4, <2>1, <2>2, DeliveredKept
  <2> QED BY <2>3
<1>11. wrote' = wrote
  BY <1>3 DEF sendVars
<1> QED
  BY <1>9, <1>10, <1>11 DEF Flow

LEMMA FlowNextBuf ==
  ASSUME SrpcAssumption, Base, NEW c, Flow(c), NextBuf
  PROVE  Flow(c)'
<1>0. ServeType /\ QueueType /\ ServeType'
  BY NextBufBase DEF Base
<1>1. FramesKept /\ EltsIn(mem', b') = Left
  BY NextBufBase
<1>2. /\ spc = "next" /\ spc' = "read" /\ n' = 0
      /\ UNCHANGED <<sendVars, stream, rx, got, overflow>>
  BY DEF NextBuf, readVars
<1>3. Left' = Left
  BY <1>0, <1>1, <1>2, NewLeft
<1>4. InFlight' = InFlight /\ wrote' = wrote
  BY <1>2, <1>3 DEF InFlight, Unsent, sendVars
<1>5. \A i \in Sides : \E start : Delivered(i, c[Other(i)], start)'
  <2> SUFFICES ASSUME NEW i \in Sides PROVE \E start : Delivered(i, c[Other(i)], start)'
    OBVIOUS
  <2>1. PICK start : Delivered(i, c[Other(i)], start)
    BY DEF Flow
  <2>2. Found(i) = 0 /\ Found(i)' = 0
    BY <1>2 DEF Found
  <2>3. n \in Nat /\ n' \in Nat
    BY <1>0, <1>2 DEF ServeType
  <2>4. Delivered(i, c[Other(i)], start)'
    BY <1>0, <1>1, <1>2, <2>1, <2>2, <2>3, DeliveredKept
  <2> QED BY <2>4
<1> QED
  BY <1>4, <1>5 DEF Flow

\* The slice of a frame that Input has found, in the buffer that it is cut from
LEMMA SliceElts ==
  ASSUME ServeType, lastContentLen # 0, NEW v, NEW s, s = SliceOf(v)
  PROVE  /\ EltsIn(mem, s) = SubSeq(Elts(b), n - lastContentLen + 1, n)
         /\ SliceLen(s) = lastContentLen
<1> DEFINE e == mem[b.arr].elts
           lo == b.lo
           hi == b.hi
           l == lastContentLen
           m == n - l + 1
<1>1. b \in Buffer /\ Within(mem, b) /\ mem \in [Arrays -> Array] /\ n \in Nat /\ l \in Nat /\ l <= n /\ l # 0
      /\ n <= hi - lo + 1
  BY DEF ServeType
<1>2. b.arr \in Arrays /\ lo \in Nat \ {0} /\ hi \in Nat
  BY <1>1 DEF Buffer
<1>3. e \in Seq(Element) /\ hi <= Len(e) /\ Len(e) \in Nat
  <2>1. e \in Seq(Element)
    BY <1>1, <1>2 DEF Array
  <2> QED BY <1>1, <2>1 DEF Within
<1>4. s.arr = b.arr /\ s.lo = lo + n - l /\ s.hi = lo + n - 1
  BY DEF SliceOf
<1> HIDE DEF e, lo, hi, l
<1>5. /\ lo \in 1..Len(e) /\ hi \in 1..Len(e) /\ m \in 1..hi - lo + 1 /\ n \in 1..hi - lo + 1
      /\ lo + m - 1 = lo + n - l
  BY <1>1, <1>2, <1>3
<1> HIDE DEF m
<1>6. SubSeq(SubSeq(e, lo, hi), m, n) = SubSeq(e, lo + m - 1, lo + n - 1)
  BY <1>3, <1>5, SubSeqOfSubSeq
<1>7. EltsIn(mem, s) = SubSeq(e, lo + n - l, lo + n - 1) /\ Elts(b) = SubSeq(e, lo, hi)
  BY <1>4 DEF EltsIn, Elts, e, lo, hi
<1>8. EltsIn(mem, s) = SubSeq(Elts(b), m, n)
  BY <1>5, <1>6, <1>7, Zenon
<1>9. SliceLen(s) = l
  <2>1. SliceLen(s) = (lo + n - 1) - (lo + n - l) + 1
    BY <1>4, Zenon DEF SliceLen
  <2> QED BY <1>1, <1>2, <2>1
<1> QED
  BY <1>8, <1>9, Zenon DEF m, l

\* A frame that was found is behind the others in its channel
LEMMA InputQueues ==
  ASSUME SrpcAssumption, Base, Input, ~panicked', NEW i \in Sides, NEW c \in Nat, NEW start, Delivered(i, c, start)
  PROVE  \E t : Queued(i, c, t)' /\ t[Len(rx'[i]) + 1] = c
<1>0. ServeType /\ QueueType
  BY DEF Base
<1>1. /\ spc = "input" /\ InputSends
      /\ UNCHANGED <<sendVars, stream, mem, b, rxClosed, recycle, readVars>>
  BY InputFacts
<1> DEFINE r == rx[i]
           x == start[Len(r) + 1]
           s == SliceOf(FrameValid(Left))
<1>2. r \in Seq(Slice) /\ Len(r) \in Nat /\ DOMAIN r = 1..Len(r)
  BY <1>0, SlicesTyped
<1>3. /\ start \in [1..Len(r) + 1 -> Nat]
      /\ start[1] = Len(got[i]) + Len(overflow[i])
      /\ \A k \in 1..Len(r) :
           /\ start[k + 1] = start[k] + SliceLen(r[k])
           /\ EltsIn(mem, r[k]) = Bytes(Other(i), start[k] + 1, SliceLen(r[k]))
      /\ \A k \in 1..Len(r) + 1 : start[k] <= c
      /\ x + Found(i) = c
      /\ SubSeq(Elts(b), n - Found(i) + 1, n) = Bytes(Other(i), x + 1, Found(i))
  BY DEF Delivered, Queued, Elts, EltsIn
<1>4. mem' = mem /\ got' = got /\ overflow' = overflow
  BY <1>1 DEF readVars
<1>5. lastContentLen \in Nat /\ lastFrameIsClient \in Sides /\ b \in Buffer
  BY <1>0 DEF ServeType
<1>6. CASE rx'[i] = rx[i] /\ Found(i) = 0
  <2>1. x = c
    <3>1. x \in Nat
      BY <1>2, <1>3
    <3> QED BY <1>3, <1>6, <3>1
  <2>2. Queued(i, c, start)'
    BY <1>3, <1>4, <1>6 DEF Queued, Elts, EltsIn, SliceLen
  <2> QED BY <1>6, <2>1, <2>2
<1>7. CASE ~(rx'[i] = rx[i] /\ Found(i) = 0)
  <2>1. i = To /\ lastContentLen # 0 /\ rx' = [rx EXCEPT ![To] = Append(@, s)] /\ Found(i) = lastContentLen
    <3>1. Found(i) = IF To = i THEN lastContentLen ELSE 0
      BY <1>1 DEF Found, To
    <3>2. \/ lastContentLen = 0 /\ rx' = rx
          \/ lastContentLen # 0 /\ rx' = [rx EXCEPT ![To] = Append(@, s)]
      BY <1>1 DEF InputSends
    <3>3. rx'[i] = rx[i] \/ i = To
      BY <1>0, <3>2 DEF QueueType
    <3>4. i = To
      BY <1>7, <3>1, <3>3
    <3>5. lastContentLen # 0
      BY <1>7, <3>1, <3>2
    <3> QED BY <3>1, <3>2, <3>4, <3>5
  <2>2. EltsIn(mem, s) = SubSeq(Elts(b), n - lastContentLen + 1, n) /\ SliceLen(s) = lastContentLen
    BY <1>0, <2>1, SliceElts
  <2>3. rx'[i] = Append(r, s)
    BY <1>0, <2>1 DEF QueueType
  <2> DEFINE l == Len(r)
             g == lastContentLen
             q == Append(r, s)
  <2>4. /\ EltsIn(mem, s) = Bytes(Other(i), x + 1, g) /\ SliceLen(s) = g /\ x + g = c
    BY <1>3, <2>1, <2>2
  <2> HIDE DEF s, r, x
  <2>5. /\ Len(q) = l + 1 /\ q[l + 1] = s /\ \A k \in 1..l : q[k] = r[k]
    BY <1>2
  <2>6. l \in Nat
    BY <1>2
  <2>7. x = start[l + 1]
    BY DEF x
  <2> HIDE DEF l, q, g
  <2>8. PICK t : /\ t \in [1..l + 2 -> Nat] /\ t[l + 2] = c /\ \A k \in 1..l + 1 : t[k] = start[k]
    <3> DEFINE f == [k \in 1..l + 2 |-> IF k <= l + 1 THEN start[k] ELSE c]
    <3>1. \A k \in 1..l + 2 : (IF k <= l + 1 THEN start[k] ELSE c) \in Nat
      BY <1>3, <2>6 DEF l
    <3>2. l + 2 \in 1..l + 2 /\ ~(l + 2 <= l + 1) /\ \A k \in 1..l + 1 : k \in 1..l + 2 /\ k <= l + 1
      BY <2>6
    <3>3. f \in [1..l + 2 -> Nat] /\ f[l + 2] = c /\ \A k \in 1..l + 1 : f[k] = start[k]
      BY <3>1, <3>2
    <3> HIDE DEF f
    <3> QED BY <3>3
  <2>9. \A k \in 1..l + 1 : /\ t[k + 1] = t[k] + SliceLen(q[k])
                            /\ EltsIn(mem, q[k]) = Bytes(Other(i), t[k] + 1, SliceLen(q[k]))
    <3> SUFFICES ASSUME NEW k \in 1..l + 1
                 PROVE  /\ t[k + 1] = t[k] + SliceLen(q[k])
                        /\ EltsIn(mem, q[k]) = Bytes(Other(i), t[k] + 1, SliceLen(q[k]))
      OBVIOUS
    <3>1. CASE k = l + 1
      <4>1. k + 1 = l + 2
        BY <2>6, <3>1
      <4>2. t[k + 1] = c /\ t[k] = x /\ q[k] = s
        BY <2>5, <2>7, <2>8, <3>1, <4>1
      <4> QED BY <2>4, <4>2
    <3>2. CASE k # l + 1
      <4>1. k \in 1..l /\ k + 1 \in 1..l + 1
        BY <2>6, <3>2
      <4>2. t[k + 1] = start[k + 1] /\ t[k] = start[k] /\ q[k] = r[k]
        BY <2>5, <2>8, <4>1
      <4>3. start[k + 1] = start[k] + SliceLen(r[k])
            /\ EltsIn(mem, r[k]) = Bytes(Other(i), start[k] + 1, SliceLen(r[k]))
        BY <1>3, <4>1 DEF l
      <4> QED BY <4>2, <4>3
    <3> QED BY <3>1, <3>2
  <2>10. \A k \in 1..l + 2 : t[k] <= c
    <3> SUFFICES ASSUME NEW k \in 1..l + 2 PROVE t[k] <= c
      OBVIOUS
    <3>1. CASE k = l + 2
      BY <2>8, <3>1
    <3>2. CASE k # l + 2
      <4>1. k \in 1..l + 1
        BY <2>6, <3>2
      <4> QED BY <1>3, <2>8, <4>1 DEF l
    <3> QED BY <3>1, <3>2
  <2>11. t[1] = Len(got'[i]) + Len(overflow'[i])
    <3>1. 1 \in 1..l + 1
      BY <2>6
    <3> QED BY <1>3, <1>4, <2>8, <3>1
  <2>12. Len(rx'[i]) + 1 = l + 2 /\ rx'[i] = q /\ 1..Len(rx'[i]) = 1..l + 1
    <3>1. rx'[i] = q
      BY <2>3 DEF q
    <3> QED BY <2>5, <2>6, <3>1
  <2>13. Queued(i, c, t)'
    <3>1. t \in [1..Len(rx'[i]) + 1 -> Nat]
      BY <2>8, <2>12
    <3>2. \A k \in 1..Len(rx'[i]) : /\ t[k + 1] = t[k] + SliceLen(rx'[i][k])
                                    /\ EltsIn(mem', rx'[i][k]) = Bytes(Other(i), t[k] + 1, SliceLen(rx'[i][k]))
      BY <1>4, <2>9, <2>12, Zenon
    <3>3. \A k \in 1..Len(rx'[i]) + 1 : t[k] <= c
      BY <2>10, <2>12
    <3>4. \A k \in 1..Len(rx'[i]) : /\ t[k + 1] = t[k] + SliceLen(rx[i][k])'
                                    /\ Elts(rx[i][k])' = Bytes(Other(i), t[k] + 1, SliceLen(rx[i][k])')
      BY <3>2 DEF Elts, EltsIn, SliceLen
    <3> QED BY <2>11, <3>1, <3>3, <3>4 DEF Queued
  <2>14. t[Len(rx'[i]) + 1] = c
    BY <2>8, <2>12
  <2> QED BY <2>13, <2>14
<1> QED
  BY <1>6, <1>7

LEMMA SuffixFacts ==
  ASSUME NEW u \in Seq(Element), NEW m \in Nat, m <= Len(u), NEW s, s = SubSeq(u, m + 1, Len(u))
  PROVE  /\ s \in Seq(Element) /\ Len(s) = Len(u) - m /\ Len(s) \in Nat
         /\ \A k \in 1..Len(s) : s[k] = u[m + k]
<1> DEFINE p == m + 1
           l == Len(u)
<1>1. p \in Nat \ {0} /\ p <= l + 1 /\ l \in Nat /\ l <= Len(u) /\ l - p + 1 = l - m /\ l - m \in Nat
      /\ \A k \in 1..l - m : p + k - 1 = m + k
  OBVIOUS
<1>2. s = SubSeq(u, p, l)
  OBVIOUS
<1> HIDE DEF p, l
<1>3. /\ SubSeq(u, p, l) \in Seq(Element) /\ Len(SubSeq(u, p, l)) = l - p + 1
      /\ \A k \in 1..l - p + 1 : SubSeq(u, p, l)[k] = u[p + k - 1]
  BY <1>1, PartFacts
<1>4. s \in Seq(Element) /\ Len(s) = l - m /\ \A k \in 1..l - m : s[k] = u[m + k]
  BY <1>1, <1>2, <1>3
<1> QED
  BY <1>1, <1>4 DEF l

\* What is on its way after a step is what was, without its first m elements
Shortens(m) ==
  /\ InFlight' \in Seq(Element)
  /\ Len(InFlight') = Len(InFlight) - m
  /\ \A k \in 1..Len(InFlight') : InFlight'[k] = InFlight[m + k]

\* What Input takes leaves the rest
LEMMA InputLeaves ==
  ASSUME Base, Input, FrameValid(Left), NEW h, h = HeaderLen(Left), NEW l, l = Left[h].len
  PROVE  h \in Nat /\ l \in Nat /\ h + l <= Len(InFlight) /\ Shortens(h + l)
<1>0. SendType /\ ServeType
  BY DEF Base
<1>1. /\ InputTakes /\ UNCHANGED <<sendVars, stream, mem, b, rxClosed, recycle, readVars>>
  BY InputFacts
<1> DEFINE e == Elts(b)
           s == Left
           z == Left'
           q == stream \o Unsent
           d == h + l
           m == n'
<1>2. /\ s \in Seq(Element) /\ q \in Seq(Element) /\ e \in Seq(Element) /\ n \in Nat
      /\ Len(e) = b.hi - b.lo + 1 /\ Len(s) = Len(e) - n
      /\ Len(s) \in Nat /\ Len(e) \in Nat /\ Len(q) \in Nat
      /\ \A j \in 1..Len(s) : s[j] = e[n + j]
  BY <1>0, LeftFacts, InFlightFacts DEF ServeType
<1>3. h \in Nat /\ l \in Nat /\ d <= Len(s)
  BY <1>2, HeaderFacts
<1>4. m = n + h + l
  BY <1>1 DEF InputTakes
<1>5. z = SubSeq(e, m + 1, Len(e))
  BY <1>1, <1>2 DEF Left, Elts
<1>6. InFlight = s \o q /\ InFlight' = z \o q
  BY <1>1 DEF InFlight, Unsent, sendVars
<1> HIDE DEF e, s, z, q, m
<1>d. d \in Nat /\ d <= Len(s) /\ m = n + d
  <2>1. h \in Nat /\ l \in Nat /\ n \in Nat
    BY <1>2, <1>3
  <2>2. d \in Nat /\ m = n + d
    BY <1>4, <2>1
  <2> QED BY <1>3, <2>2
<1> HIDE DEF d
<1>7. m \in Nat /\ m <= Len(e) /\ Len(e) - m = Len(s) - d /\ d \in Nat /\ m = n + d
  <2> DEFINE x == Len(e)
             y == Len(s)
  <2>1. x \in Nat /\ y \in Nat /\ y = x - n /\ n \in Nat
    BY <1>2
  <2> HIDE DEF x, y
  <2>2. y \in Nat /\ d <= y
    BY <1>d, <2>1 DEF y
  <2>3. m \in Nat /\ m <= x /\ x - m = y - d
    BY <1>d, <2>1, <2>2
  <2> QED BY <1>d, <2>3 DEF x, y
<1>8. z \in Seq(Element) /\ Len(z) = Len(e) - m /\ Len(z) \in Nat /\ \A k \in 1..Len(z) : z[k] = e[m + k]
  BY <1>2, <1>5, <1>7, SuffixFacts, SMTT(30)
<1>9. \A k \in 1..Len(z) : z[k] = s[d + k]
  <2> TAKE k \in 1..Len(z)
  <2>1. d + k \in 1..Len(s) /\ n + (d + k) = m + k
    BY <1>2, <1>3, <1>7, <1>8
  <2>2. s[d + k] = e[n + (d + k)]
    BY <1>2, <2>1
  <2> QED BY <1>8, <2>1, <2>2
<1>10. /\ s \o q \in Seq(Element) /\ Len(s \o q) = Len(s) + Len(q)
       /\ \A k \in 1..Len(s) + Len(q) : (s \o q)[k] = IF k <= Len(s) THEN s[k] ELSE q[k - Len(s)]
  BY <1>2, ConcatProperties
<1>11. /\ z \o q \in Seq(Element) /\ Len(z \o q) = Len(z) + Len(q)
       /\ \A k \in 1..Len(z) + Len(q) : (z \o q)[k] = IF k <= Len(z) THEN z[k] ELSE q[k - Len(z)]
  BY <1>2, <1>8, ConcatProperties
<1>12. Len(z) + d = Len(s)
  BY <1>2, <1>7, <1>8
<1>13. \A k \in 1..Len(z) + Len(q) : (z \o q)[k] = (s \o q)[d + k]
  <2> TAKE k \in 1..Len(z) + Len(q)
  <2>1. d + k \in 1..Len(s) + Len(q)
    BY <1>2, <1>7, <1>8, <1>12, SMTT(30)
  <2>2. CASE k <= Len(z)
    <3>1. k \in 1..Len(z) /\ d + k <= Len(s)
      BY <1>2, <1>7, <1>8, <1>12, <2>2
    <3>2. (z \o q)[k] = z[k] /\ (s \o q)[d + k] = s[d + k]
      BY <1>10, <1>11, <2>1, <2>2, <3>1
    <3> QED BY <1>9, <3>1, <3>2
  <2>3. CASE ~(k <= Len(z))
    <3>1. ~(d + k <= Len(s)) /\ (d + k) - Len(s) = k - Len(z)
      BY <1>2, <1>7, <1>8, <1>12, <2>3, SMTT(30)
    <3>2. (z \o q)[k] = q[k - Len(z)]
      BY <1>11, <2>3
    <3>3. (s \o q)[d + k] = q[(d + k) - Len(s)]
      BY <1>10, <2>1, <3>1
    <3> QED BY <3>1, <3>2, <3>3
  <2> QED BY <2>2, <2>3
<1>14. d <= Len(s) + Len(q) /\ Len(z) + Len(q) = (Len(s) + Len(q)) - d
  BY <1>2, <1>d, <1>8, <1>12, SMTT(30)
<1>15. /\ d <= Len(InFlight) /\ InFlight' \in Seq(Element)
       /\ Len(InFlight') = Len(InFlight) - d
       /\ \A k \in 1..Len(InFlight') : InFlight'[k] = InFlight[d + k]
  BY <1>6, <1>10, <1>11, <1>13, <1>14
<1> QED
  BY <1>3, <1>15 DEF d, Shortens

\* The bytes of the frame that Input finds
LEMMA InputFinds ==
  ASSUME ServeType, NEW h \in Nat, NEW l \in Nat, h + l <= Len(Left), NEW i \in Sides, NEW x \in Nat,
         IsBytes(Left, h, i, x, l)
  PROVE  Part(Elts(b), n + h + 1, n + h + l) = Bytes(i, x + 1, l)
<1> DEFINE e == Elts(b)
           p == n + h + 1
           m == n + h + l
           s == SubSeq(e, p, m)
           t == Bytes(i, x + 1, l)
<1>1. /\ e \in Seq(Element) /\ n \in Nat /\ Len(e) \in Nat /\ Len(Left) = Len(e) - n
      /\ \A j \in 1..Len(Left) : Left[j] = e[n + j]
  BY LeftFacts, SMTT(30) DEF ServeType
<1> HIDE DEF e
<1>2. p \in Nat \ {0} /\ m \in Nat /\ m <= Len(e) /\ p <= m + 1 /\ m - p + 1 = l /\ p = n + h + 1
  BY <1>1
<1> HIDE DEF p, m
<1>3. s \in Seq(Element) /\ Len(s) = l /\ \A j \in 1..l : s[j] = e[p + j - 1]
  BY <1>1, <1>2, PartFacts
<1>4. t \in Seq(Element) /\ Len(t) = l /\ \A j \in 1..l : t[j] = Byte(i, x + 1 + j - 1)
  <2>1. x + 1 \in Nat
    OBVIOUS
  <2> QED BY <2>1, BytesFacts
<1> HIDE DEF s, t
<1>5. \A j \in 1..l : s[j] = t[j]
  <2> TAKE j \in 1..l
  <2>1. h + j \in 1..Len(Left) /\ n + (h + j) = p + j - 1 /\ x + 1 + j - 1 = x + j
    BY <1>1, <1>2
  <2>2. e[p + j - 1] = Byte(i, x + j)
    <3>1. Left[h + j] = Byte(i, x + j)
      BY DEF IsBytes
    <3> QED BY <1>1, <2>1, <3>1
  <2> QED BY <1>3, <1>4, <2>1, <2>2
<1>6. s = t
  BY <1>3, <1>4, <1>5, SeqEqual
<1> QED
  BY <1>6 DEF s, t, p, m, e, Part

\* Behind the frames in its channel Input has found nothing for the reader
LEMMA DeliveredNone ==
  ASSUME NEW i \in Sides, NEW c \in Nat, NEW t, Queued(i, c, t)', t[Len(rx'[i]) + 1] = c,
         Found(i)' = 0, n' \in Nat
  PROVE  Delivered(i, c, t)'
<1> DEFINE m == n'
           f == Found(i)'
           x == t[Len(rx'[i]) + 1]
<1>1. m \in Nat /\ f = 0 /\ x = c
  OBVIOUS
<1> HIDE DEF m, f, x
<1>2. m - f + 1 \in Int /\ m \in Int /\ m < m - f + 1 /\ x + f = c
  BY <1>1
<1>3. SubSeq(Elts(b)', m - f + 1, m) = <<>>
  BY <1>2, SubSeqEmpty
<1>4. Bytes(Other(i), x + 1, f) = <<>>
  BY <1>1 DEF Bytes
<1> QED
  BY <1>2, <1>3, <1>4, Zenon DEF Delivered, m, f, x

LEMMA FlowInput ==
  ASSUME SrpcAssumption, Base, NEW c, Flow(c), Input, ~panicked'
  PROVE  \E d : /\ Flow(d)'
                /\ \/ ~FrameValid(Left) /\ d = c
                   \/ \E j \in Sides, l \in Nat : d = [c EXCEPT ![j] = c[j] + l] /\ lastContentLen' = l
<1>0. SendType /\ ServeType /\ QueueType
  BY DEF Base
<1>1. /\ spc = "input" /\ InputTakes
      /\ UNCHANGED <<sendVars, stream, mem, b, rxClosed, recycle, readVars>>
  BY InputFacts
<1>2. c \in [Sides -> Nat] /\ \A i \in Sides : \E start : Delivered(i, c[Other(i)], start)
  BY DEF Flow
<1>3. \A i \in Sides : Other(i) \in Sides /\ c[Other(i)] \in Nat
  BY <1>2, SidesFacts
<1>4. \A i \in Sides : \E t : Queued(i, c[Other(i)], t)' /\ t[Len(rx'[i]) + 1] = c[Other(i)]
  <2> SUFFICES ASSUME NEW i \in Sides
               PROVE  \E t : Queued(i, c[Other(i)], t)' /\ t[Len(rx'[i]) + 1] = c[Other(i)]
    OBVIOUS
  <2>1. PICK x \in Nat : x = c[Other(i)]
    BY <1>3
  <2>2. PICK start : Delivered(i, x, start)
    BY <1>2, <2>1
  <2>3. \E t : Queued(i, x, t)' /\ t[Len(rx'[i]) + 1] = x
    BY <2>2, InputQueues
  <2> QED BY <2>1, <2>3
<1>5. n \in Nat /\ wrote \in [Sides -> Nat] /\ wrote' = wrote
  BY <1>0, <1>1 DEF ServeType, SendType, sendVars
<1>6. PICK ends, at : Framed(InFlight, c, wrote, ends, at)
  BY DEF Flow
<1>7. CASE ~FrameValid(Left)
  <2>1. spc' = "next" /\ n' = n
    BY <1>1, <1>7 DEF InputTakes
  <2>2. InFlight' = InFlight
    BY <1>1, <2>1 DEF InFlight, Unsent, Left, Elts, sendVars
  <2>3. \A i \in Sides : \E start : Delivered(i, c[Other(i)], start)'
    <3> SUFFICES ASSUME NEW i \in Sides PROVE \E start : Delivered(i, c[Other(i)], start)'
      OBVIOUS
    <3>1. PICK x \in Nat : x = c[Other(i)]
      BY <1>3
    <3>2. PICK t : Queued(i, x, t)' /\ t[Len(rx'[i]) + 1] = x
      BY <1>4, <3>1
    <3>3. Found(i)' = 0 /\ n' \in Nat
      BY <1>5, <2>1 DEF Found
    <3>4. Delivered(i, x, t)'
      BY <3>2, <3>3, DeliveredNone
    <3> QED BY <3>1, <3>4
  <2>4. Flow(c)'
    BY <1>2, <1>5, <1>6, <2>2, <2>3 DEF Flow
  <2> QED BY <1>7, <2>4
<1>8. CASE FrameValid(Left)
  <2>1. PICK h : h = HeaderLen(Left)
    OBVIOUS
  <2>2. PICK l : l = Left[h].len
    OBVIOUS
  <2>3. PICK j : j = Left[h].side
    OBVIOUS
  <2>4. PICK d : d = [c EXCEPT ![j] = c[j] + l]
    OBVIOUS
  <2>5. /\ h \in Nat /\ j \in Sides /\ l \in Nat /\ h + l <= Len(Left) /\ h + l \in ends
        /\ at[h + l] = d
        /\ IsBytes(Left, h, j, c[j], l)
    <3> DEFINE es == Left
               rest == stream \o Unsent
               u == InFlight
               w == wrote
    <3>0. es \in Seq(Element) /\ rest \in Seq(Element) /\ u = es \o rest
      BY <1>0, InFlightFacts DEF InFlight
    <3>1. Framed(u, c, w, ends, at) /\ FrameValid(es) /\ h = HeaderLen(es) /\ j = es[h].side /\ l = es[h].len
      BY <1>6, <1>8, <2>1, <2>2, <2>3
    <3> HIDE DEF es, rest, u, w
    <3>2. u \in Seq(Element) /\ Len(es) <= Len(u) /\ \A k \in 1..Len(es) : u[k] = es[k]
      <4>1. /\ es \o rest \in Seq(Element) /\ Len(es \o rest) = Len(es) + Len(rest)
            /\ \A k \in 1..Len(es) + Len(rest) : (es \o rest)[k] = IF k <= Len(es) THEN es[k] ELSE rest[k - Len(es)]
        BY <3>0, ConcatProperties
      <4>2. Len(es) \in Nat /\ Len(rest) \in Nat
        BY <3>0
      <4> QED BY <3>0, <4>1, <4>2
    <3>3. IsNext(es, HeaderLen(es), es[HeaderLen(es)].side, es[HeaderLen(es)].len, c, ends, at)
      BY <3>0, <3>1, <3>2, FrontFacts
    <3>4. IsNext(es, h, j, l, c, ends, at)
      BY <3>1, <3>3
    <3> QED BY <2>4, <3>4 DEF es, IsNext
  <2>6. d \in [Sides -> Nat] /\ d[j] = c[j] + l /\ c[j] \in Nat /\ \A i \in Sides \ {j} : d[i] = c[i]
    BY <1>2, <2>4, <2>5
  <2>a. Shortens(h + l)
    BY <1>8, <2>1, <2>2, InputLeaves
  <2>7. /\ InFlight' \in Seq(Element) /\ Len(InFlight') = Len(InFlight) - (h + l)
        /\ \A k \in 1..Len(InFlight') : InFlight'[k] = InFlight[h + l + k]
    BY <2>a DEF Shortens
  <2>8. \E e, a : Framed(InFlight', d, wrote', e, a)
    <3> DEFINE u == InFlight
               v == InFlight'
               w == wrote
               p == h + l
    <3>1. /\ u \in Seq(Element) /\ v \in Seq(Element) /\ w \in [Sides -> Nat] /\ p \in ends
          /\ Framed(u, c, w, ends, at) /\ Len(v) = Len(u) - p /\ at[p] = d
          /\ \A k \in 1..Len(v) : v[k] = u[p + k]
      BY <1>0, <1>5, <1>6, <2>5, <2>7, InFlightFacts
    <3> HIDE DEF u, v, w, p
    <3>2. \E e, a : Framed(v, at[p], w, e, a)
      BY <3>1, FramedTake
    <3>3. \E e, a : Framed(v, d, w, e, a)
      BY <3>1, <3>2
    <3> QED BY <1>5, <3>3 DEF v, w
  <2>9. spc' = "input" /\ lastContentLen' = l /\ lastFrameIsClient' = j /\ n' = n + h + l
    BY <1>1, <1>8, <2>1, <2>2, <2>3 DEF InputTakes
  <2>10. n' \in Nat
    BY <1>5, <2>5, <2>9
  <2>11. \A i \in Sides : \E start : Delivered(i, d[Other(i)], start)'
    <3> SUFFICES ASSUME NEW i \in Sides PROVE \E start : Delivered(i, d[Other(i)], start)'
      OBVIOUS
    <3>1. PICK x \in Nat : x = c[Other(i)]
      BY <1>3
    <3>2. PICK t : Queued(i, x, t)' /\ t[Len(rx'[i]) + 1] = x
      BY <1>4, <3>1
    <3>3. Found(i)' = IF Other(j) = i THEN l ELSE 0
      BY <2>9 DEF Found
    <3>4. CASE Other(j) # i
      <4>1. Other(i) # j
        BY <2>5, <3>4, SidesFacts
      <4>2. d[Other(i)] = x
        BY <1>3, <2>6, <3>1, <4>1
      <4>3. Found(i)' = 0
        BY <3>3, <3>4
      <4>4. Delivered(i, x, t)'
        BY <2>10, <3>2, <4>3, DeliveredNone
      <4> QED BY <4>2, <4>4
    <3>5. CASE Other(j) = i
      <4>1. Other(i) = j
        BY <2>5, <3>5, SidesFacts
      <4>2. PICK y \in Nat : y = d[Other(i)]
        BY <2>5, <2>6, <4>1
      <4>3. x = c[j] /\ y = x + l /\ Found(i)' = l
        BY <2>6, <3>1, <3>3, <3>5, <4>1, <4>2
      <4>4. SubSeq(Elts(b)', n' - l + 1, n') = Bytes(j, x + 1, l)
        <5>1. Elts(b)' = Elts(b)
          BY <1>1 DEF Elts
        <5> DEFINE m == n'
        <5>2. m = n + h + l /\ IsBytes(Left, h, j, x, l)
          BY <2>5, <2>9, <4>3
        <5> HIDE DEF m
        <5>3. Part(Elts(b), n + h + 1, n + h + l) = Bytes(j, x + 1, l)
          BY <1>0, <2>5, <5>2, InputFinds
        <5>4. m - l + 1 = n + h + 1
          BY <1>5, <2>5, <5>2
        <5>5. Part(Elts(b), m - l + 1, m) = Bytes(j, x + 1, l)
          BY <5>2, <5>3, <5>4, Zenon
        <5> QED BY <5>1, <5>5, Zenon DEF m, Part
      <4>5. Queued(i, y, t)'
        <5>1. x <= y
          BY <2>5, <4>3
        <5>2. /\ t \in [1..Len(rx'[i]) + 1 -> Nat] /\ \A k \in 1..Len(rx'[i]) + 1 : t[k] <= x
          BY <3>2 DEF Queued
        <5>3. \A k \in 1..Len(rx'[i]) + 1 : t[k] <= y
          BY <5>1, <5>2
        <5> QED BY <3>2, <5>3 DEF Queued
      <4>6. Delivered(i, y, t)'
        <5>1. t[Len(rx'[i]) + 1] + Found(i)' = y
          BY <3>2, <4>3
        <5>2. SubSeq(Elts(b)', n' - Found(i)' + 1, n') = Bytes(Other(i), t[Len(rx'[i]) + 1] + 1, Found(i)')
          BY <3>2, <4>1, <4>3, <4>4, Zenon
        <5> QED BY <4>5, <5>1, <5>2, Zenon DEF Delivered
      <4> QED BY <4>2, <4>6
    <3> QED BY <3>4, <3>5
  <2>12. Flow(d)'
    BY <2>6, <2>8, <2>11 DEF Flow
  <2> QED BY <2>4, <2>5, <2>9, <2>12
<1> QED
  BY <1>7, <1>8

-----------------------------------------------------------------------------
(* What has been read *)

LEMMA FramedBound ==
  ASSUME NEW u, NEW c, NEW w, NEW ends, NEW at, Framed(u, c, w, ends, at)
  PROVE  \A i \in Sides : c[i] <= w[i]
<1>1. at[0] = c /\ 0 \in ends /\ \A p \in ends : \A i \in Sides : at[p][i] <= w[i]
  BY DEF Framed
<1> QED
  BY <1>1

LEMMA FlowBound ==
  ASSUME NEW c, Flow(c)
  PROVE  \A i \in Sides : c[i] \in Nat /\ c[i] <= wrote[i]
<1>1. PICK ends, at : Framed(InFlight, c, wrote, ends, at)
  BY DEF Flow
<1>2. \A i \in Sides : c[i] <= wrote[i]
  BY <1>1, FramedBound
<1>3. c \in [Sides -> Nat]
  BY DEF Flow
<1> QED
  BY <1>2, <1>3

\* A Read takes the bytes that follow those which have been read
LEMMA TakesBytes ==
  ASSUME ReadType, NEW i \in Sides, NEW l \in Nat, NEW p \in Nat \ {0}, NEW u,
         u = Bytes(Other(i), Len(got[i]) + 1, l), got[i] = Bytes(Other(i), 1, Len(got[i])), Takes(i, u, p)
  PROVE  /\ got'[i] = Bytes(Other(i), 1, Len(got'[i]))
         /\ overflow'[i] = Bytes(Other(i), Len(got'[i]) + 1, Len(overflow'[i]))
         /\ Len(got'[i]) + Len(overflow'[i]) = Len(got[i]) + l
         /\ \A j \in Sides \ {i} : got'[j] = got[j] /\ overflow'[j] = overflow[j]
<1> DEFINE o == Other(i)
           g == Len(got[i])
           m == Least(p, l)
<1>1. o \in Sides /\ g \in Nat /\ g + 1 \in Nat /\ 1 \in Nat
  <2>1. got[i] \in Seq(Element)
    BY DEF ReadType
  <2> QED BY <2>1, SidesFacts
<1>2. u = Bytes(o, g + 1, l) /\ got[i] = Bytes(o, 1, g)
  OBVIOUS
<1> HIDE DEF o, g
<1>3. u \in Seq(Element) /\ Len(u) = l
  BY <1>1, <1>2, BytesFacts
<1>4. /\ got'[i] = got[i] \o SubSeq(u, 1, Least(p, Len(u))) /\ overflow'[i] = SubSeq(u, p + 1, Len(u))
      /\ \A j \in Sides \ {i} : got'[j] = got[j] /\ overflow'[j] = overflow[j]
  BY <1>3, TakesFacts
<1>5. /\ m \in 0..l
      /\ Bytes(o, 1, g) \o SubSeq(Bytes(o, g + 1, l), 1, m) = Bytes(o, 1, g + m)
      /\ SubSeq(Bytes(o, g + 1, l), p + 1, l) = Bytes(o, g + m + 1, l - m)
  <2>1. ReadsBytes(o, g, l, p, m)
    BY <1>1, ReadSome
  <2> QED BY <2>1, Zenon DEF ReadsBytes
<1>6. got'[i] = Bytes(o, 1, g + m) /\ overflow'[i] = Bytes(o, g + m + 1, l - m)
  BY <1>2, <1>3, <1>4, <1>5, Zenon
<1> HIDE DEF m
<1>7. g + m \in Nat /\ g + m + 1 \in Nat /\ l - m \in Nat /\ (g + m) + (l - m) = g + l
  BY <1>1, <1>5
<1>8. Len(got'[i]) = g + m /\ Len(overflow'[i]) = l - m
  <2> DEFINE x == g + m
             y == g + m + 1
             z == l - m
  <2>1. x \in Nat /\ y \in Nat /\ z \in Nat /\ got'[i] = Bytes(o, 1, x) /\ overflow'[i] = Bytes(o, y, z)
    BY <1>6, <1>7
  <2> HIDE DEF x, y, z
  <2>2. Len(Bytes(o, 1, x)) = x
    BY <1>1, <2>1, BytesFacts
  <2>3. Len(Bytes(o, y, z)) = z
    BY <1>1, <2>1, BytesFacts
  <2>4. Len(got'[i]) = x /\ Len(overflow'[i]) = z
    BY <2>1, <2>2, <2>3, Zenon
  <2> QED BY <2>4 DEF x, z
<1>9. Len(got'[i]) + Len(overflow'[i]) = g + l
  BY <1>7, <1>8
<1> QED
  BY <1>4, <1>6, <1>8, <1>9, Zenon DEF o, g

\* What is left over is read
LEMMA FlowReadOverflow ==
  ASSUME SrpcAssumption, Base, ReadInv, NEW c, Flow(c), NEW i \in Sides, ReadOverflow(i)
  PROVE  ReadInv' /\ Flow(c)'
<1>0. ReadType
  BY DEF Base
<1>1. UNCHANGED <<sendVars, stream, mem, b, serveVars, rx, rxClosed, recycle, clientClosed, panicked>>
  BY ReadOverflowFacts
<1>2. PICK p \in Nat \ {0} : Takes(i, overflow[i], p)
  BY ReadOverflowFacts
<1> DEFINE l == Len(overflow[i])
           u == overflow[i]
<1>3. l \in Nat /\ u = Bytes(Other(i), Len(got[i]) + 1, l) /\ got[i] = Bytes(Other(i), 1, Len(got[i])) /\ Takes(i, u, p)
  <2>1. overflow[i] \in Seq(Element)
    BY <1>0 DEF ReadType
  <2>2. overflow[i] = Bytes(Other(i), Len(got[i]) + 1, Len(overflow[i])) /\ got[i] = Bytes(Other(i), 1, Len(got[i]))
    BY Zenon DEF ReadInv
  <2> QED BY <1>2, <2>1, <2>2
<1> HIDE DEF u, l
<1>4. /\ got'[i] = Bytes(Other(i), 1, Len(got'[i]))
      /\ overflow'[i] = Bytes(Other(i), Len(got'[i]) + 1, Len(overflow'[i]))
      /\ Len(got'[i]) + Len(overflow'[i]) = Len(got[i]) + l
      /\ \A j \in Sides \ {i} : got'[j] = got[j] /\ overflow'[j] = overflow[j]
  BY <1>0, <1>3, TakesBytes
<1>5. \A j \in Sides : Len(got'[j]) + Len(overflow'[j]) = Len(got[j]) + Len(overflow[j])
  BY <1>4 DEF l
<1>6. ReadInv'
  <2>1. wrote' = wrote
    BY <1>1 DEF sendVars
  <2> QED BY <1>4, <1>5, <2>1 DEF ReadInv
<1>7. InFlight' = InFlight /\ wrote' = wrote
  BY <1>1 DEF InFlight, Unsent, Left, Elts, sendVars, serveVars
<1>8. \A j \in Sides : \E start : Delivered(j, c[Other(j)], start)'
  <2> SUFFICES ASSUME NEW j \in Sides PROVE \E start : Delivered(j, c[Other(j)], start)'
    OBVIOUS
  <2>1. PICK start : Delivered(j, c[Other(j)], start)
    BY DEF Flow
  <2>2. Queued(j, c[Other(j)], start)'
    BY <1>1, <1>5, <2>1 DEF Delivered, Queued, Elts, SliceLen
  <2>3. Delivered(j, c[Other(j)], start)'
    BY <1>1, <2>1, <2>2 DEF Delivered, serveVars, Found, Elts
  <2> QED BY <2>3
<1> QED
  BY <1>6, <1>7, <1>8 DEF Flow

\* The frame at the front of a channel is read
LEMMA ReceivedQueue ==
  ASSUME SrpcAssumption, QueueType, NEW i \in Sides, rx[i] # <<>>, Received(i), mem' = mem,
         NEW c, NEW start, Queued(i, c, start), Len(got'[i]) + Len(overflow'[i]) = start[2]
  PROVE  \E t : Queued(i, c, t)' /\ t[Len(rx'[i]) + 1] = start[Len(rx[i]) + 1]
<1>1. /\ Len(rx[i]) >= 1 /\ Len(rx'[i]) = Len(rx[i]) - 1
      /\ \A k \in DOMAIN rx'[i] : k \in Nat /\ k + 1 \in DOMAIN rx[i] /\ rx'[i][k] = rx[i][k + 1]
      /\ rx' \in [Sides -> Seq(Slice)] /\ rx[i] \in Seq(Slice)
  BY ReceivedFacts DEF QueueType
<1> DEFINE l == Len(rx'[i])
<1>2. l \in Nat /\ Len(rx[i]) = l + 1 /\ DOMAIN rx'[i] = 1..l
  BY <1>1
<1>3. /\ start \in [1..Len(rx[i]) + 1 -> Nat]
      /\ \A k \in 1..Len(rx[i]) :
           /\ start[k + 1] = start[k] + SliceLen(rx[i][k])
           /\ EltsIn(mem, rx[i][k]) = Bytes(Other(i), start[k] + 1, SliceLen(rx[i][k]))
      /\ \A k \in 1..Len(rx[i]) + 1 : start[k] <= c
  BY DEF Queued, Elts, EltsIn
<1> HIDE DEF l
<1>4. PICK t : t \in [1..l + 1 -> Nat] /\ \A k \in 1..l + 1 : t[k] = start[k + 1]
  <2> DEFINE f == [k \in 1..l + 1 |-> start[k + 1]]
  <2>1. \A k \in 1..l + 1 : start[k + 1] \in Nat
    BY <1>2, <1>3
  <2>2. f \in [1..l + 1 -> Nat] /\ \A k \in 1..l + 1 : f[k] = start[k + 1]
    BY <2>1
  <2> HIDE DEF f
  <2> QED BY <2>2
<1>5. t[1] = Len(got'[i]) + Len(overflow'[i])
  <2>1. 1 \in 1..l + 1 /\ 1 + 1 = 2
    BY <1>2
  <2> QED BY <1>4, <2>1
<1>6. \A k \in 1..l : /\ t[k + 1] = t[k] + SliceLen(rx'[i][k])
                      /\ EltsIn(mem', rx'[i][k]) = Bytes(Other(i), t[k] + 1, SliceLen(rx'[i][k]))
  <2> SUFFICES ASSUME NEW k \in 1..l
               PROVE  /\ t[k + 1] = t[k] + SliceLen(rx'[i][k])
                      /\ EltsIn(mem', rx'[i][k]) = Bytes(Other(i), t[k] + 1, SliceLen(rx'[i][k]))
    OBVIOUS
  <2>1. k \in 1..l + 1 /\ k + 1 \in 1..l + 1 /\ k + 1 \in 1..Len(rx[i])
    BY <1>2
  <2>2. t[k] = start[k + 1] /\ t[k + 1] = start[k + 1 + 1] /\ rx'[i][k] = rx[i][k + 1]
    BY <1>1, <1>2, <1>4, <2>1
  <2>3. /\ start[k + 1 + 1] = start[k + 1] + SliceLen(rx[i][k + 1])
        /\ EltsIn(mem, rx[i][k + 1]) = Bytes(Other(i), start[k + 1] + 1, SliceLen(rx[i][k + 1]))
    BY <1>3, <2>1
  <2> QED BY <2>2, <2>3
<1>7. \A k \in 1..l + 1 : t[k] <= c
  <2> TAKE k \in 1..l + 1
  <2>1. k + 1 \in 1..Len(rx[i]) + 1
    BY <1>2
  <2> QED BY <1>3, <1>4, <2>1
<1>8. Queued(i, c, t)'
  <2>1. \A k \in 1..Len(rx'[i]) : /\ t[k + 1] = t[k] + SliceLen(rx[i][k])'
                                  /\ Elts(rx[i][k])' = Bytes(Other(i), t[k] + 1, SliceLen(rx[i][k])')
    BY <1>6 DEF Elts, EltsIn, SliceLen, l
  <2>2. t \in [1..Len(rx'[i]) + 1 -> Nat] /\ \A k \in 1..Len(rx'[i]) + 1 : t[k] <= c
    BY <1>4, <1>7 DEF l
  <2> QED BY <1>5, <2>1, <2>2 DEF Queued
<1>9. t[Len(rx'[i]) + 1] = start[Len(rx[i]) + 1]
  <2>1. l + 1 \in 1..l + 1 /\ l + 1 + 1 = Len(rx[i]) + 1
    BY <1>2
  <2>2. t[l + 1] = start[Len(rx[i]) + 1]
    BY <1>4, <2>1
  <2> QED BY <2>2 DEF l
<1> QED
  BY <1>8, <1>9

LEMMA FlowReadFrame ==
  ASSUME SrpcAssumption, Base, ReadInv, NEW c, Flow(c), NEW i \in Sides, ReadFrame(i)
  PROVE  ReadInv' /\ Flow(c)'
<1>0. ReadType /\ QueueType
  BY DEF Base
<1>1. /\ overflow[i] = <<>> /\ rx[i] # <<>> /\ Received(i)
      /\ UNCHANGED <<sendVars, stream, mem, b, serveVars, rxClosed, clientClosed, panicked>>
  BY ReadFrameFacts
<1>2. PICK p \in Nat \ {0} : Takes(i, Elts(rx[i][1]), p)
  BY ReadFrameFacts
<1>3. PICK start : Delivered(i, c[Other(i)], start)
  BY DEF Flow
<1>4. /\ rx[i][1] \in Slice /\ 1 \in 1..Len(rx[i]) /\ rx[i][1].lo <= rx[i][1].hi
      /\ \A j \in Sides \ {i} : rx'[j] = rx[j]
  <2>1. 1 \in DOMAIN rx[i] /\ rx[i][1] \in Slice /\ \A j \in Sides \ {i} : rx'[j] = rx[j]
    BY <1>0, <1>1, ReceivedFacts
  <2> QED BY <1>0, <2>1, SlicesTyped DEF QueueType
<1> DEFINE l == SliceLen(rx[i][1])
           g == Len(got[i])
           u == Elts(rx[i][1])
<1>5. l \in Nat /\ g \in Nat
  <2>1. got[i] \in Seq(Element)
    BY <1>0 DEF ReadType
  <2> QED BY <1>4, <2>1 DEF SliceLen, Slice
<1>6. u = Bytes(Other(i), g + 1, l) /\ start[2] = g + l
  <2>1. start[1] = g
    BY <1>1, <1>3, <1>5 DEF Delivered, Queued
  <2>2. start[1 + 1] = start[1] + l /\ u = Bytes(Other(i), start[1] + 1, l)
    BY <1>3, <1>4 DEF Delivered, Queued
  <2> QED BY <2>1, <2>2
<1>7. got[i] = Bytes(Other(i), 1, g) /\ Takes(i, u, p)
  BY <1>2 DEF ReadInv
<1> HIDE DEF l, u
<1>8. /\ got'[i] = Bytes(Other(i), 1, Len(got'[i]))
      /\ overflow'[i] = Bytes(Other(i), Len(got'[i]) + 1, Len(overflow'[i]))
      /\ Len(got'[i]) + Len(overflow'[i]) = g + l
      /\ \A j \in Sides \ {i} : got'[j] = got[j] /\ overflow'[j] = overflow[j]
  BY <1>0, <1>5, <1>6, <1>7, TakesBytes
<1>9. Len(got'[i]) + Len(overflow'[i]) <= wrote[Other(i)]
  <2>1. Other(i) \in Sides
    BY SidesFacts
  <2>2. c[Other(i)] \in Nat /\ c[Other(i)] <= wrote[Other(i)]
    BY <2>1, FlowBound
  <2>3. start[2] <= c[Other(i)] /\ start[2] \in Nat
    <3>1. 2 \in 1..Len(rx[i]) + 1
      BY <1>4
    <3> QED BY <1>3, <3>1 DEF Delivered, Queued
  <2>4. wrote[Other(i)] \in Nat
    BY <2>1 DEF Base, SendType
  <2>5. Len(got'[i]) + Len(overflow'[i]) = start[2]
    BY <1>6, <1>8
  <2> DEFINE x == Len(got'[i]) + Len(overflow'[i])
             y == c[Other(i)]
             z == wrote[Other(i)]
  <2>6. x \in Nat /\ x <= y /\ y \in Nat /\ y <= z /\ z \in Nat
    BY <2>2, <2>3, <2>4, <2>5
  <2> HIDE DEF x, y, z
  <2>7. x <= z
    BY <2>6
  <2> QED BY <2>7 DEF x, z
<1>10. ReadInv'
  <2>1. wrote' = wrote
    BY <1>1 DEF sendVars
  <2> QED BY <1>8, <1>9, <2>1 DEF ReadInv
<1>11. InFlight' = InFlight /\ wrote' = wrote
  BY <1>1 DEF InFlight, Unsent, Left, Elts, sendVars, serveVars
<1>12. \A j \in Sides : \E t : Delivered(j, c[Other(j)], t)'
  <2> SUFFICES ASSUME NEW j \in Sides PROVE \E t : Delivered(j, c[Other(j)], t)'
    OBVIOUS
  <2>1. CASE j = i
    <3>1. Queued(i, c[Other(i)], start)
      BY <1>3 DEF Delivered
    <3>2. mem' = mem /\ Len(got'[i]) + Len(overflow'[i]) = start[2]
      BY <1>1, <1>6, <1>8
    <3>3. PICK t : Queued(i, c[Other(i)], t)' /\ t[Len(rx'[i]) + 1] = start[Len(rx[i]) + 1]
      BY <1>0, <1>1, <3>1, <3>2, ReceivedQueue
    <3>4. Found(i)' = Found(i) /\ Elts(b)' = Elts(b) /\ n' = n
      BY <1>1 DEF serveVars, Found, Elts
    <3>5. Delivered(i, c[Other(i)], t)'
      BY <1>3, <3>3, <3>4 DEF Delivered
    <3> QED BY <2>1, <3>5
  <2>2. CASE j # i
    <3>1. PICK t : Delivered(j, c[Other(j)], t)
      BY DEF Flow
    <3>2. rx'[j] = rx[j] /\ got'[j] = got[j] /\ overflow'[j] = overflow[j]
      BY <1>4, <1>8, <2>2
    <3>3. Queued(j, c[Other(j)], t)'
      BY <1>1, <3>1, <3>2 DEF Delivered, Queued, Elts, SliceLen
    <3>4. Delivered(j, c[Other(j)], t)'
      BY <1>1, <3>1, <3>2, <3>3 DEF Delivered, serveVars, Found, Elts
    <3> QED BY <3>4
  <2> QED BY <2>1, <2>2
<1> QED
  BY <1>10, <1>11, <1>12 DEF Flow

LEMMA InitFlow ==
  ASSUME SrpcAssumption, SrpcInit
  PROVE  ReadInv /\ Flow(wrote)
<1> USE DEF SrpcInit
<1>1. <<>> \in Seq(Element) /\ Len(<<>>) = 0 /\ \A i \in Sides : got[i] = <<>> /\ overflow[i] = <<>> /\ rx[i] = <<>>
  BY EmptySeq
<1>2. wrote \in [Sides -> Nat] /\ \A i \in Sides : wrote[i] = 0
  OBVIOUS
<1>3. \A i, x : Bytes(i, x, 0) = <<>>
  BY DEF Bytes
<1>4. ReadInv
  <2> SUFFICES ASSUME NEW i \in Sides
               PROVE  /\ got[i] = Bytes(Other(i), 1, Len(got[i])) /\ Len(got[i]) + Len(overflow[i]) <= wrote[Other(i)]
                      /\ overflow[i] = Bytes(Other(i), Len(got[i]) + 1, Len(overflow[i]))
    BY DEF ReadInv
  <2>1. Other(i) \in Sides
    BY SidesFacts
  <2> QED BY <1>1, <1>2, <1>3, <2>1
<1>5. InFlight = <<>>
  <2>1. Left = <<>>
    <3>1. n + 1 \in Int /\ b.hi - b.lo + 1 \in Int /\ b.hi - b.lo + 1 < n + 1
      OBVIOUS
    <3> QED BY <3>1, SubSeqEmpty DEF Left
  <2>2. Unsent = <<>>
    BY <1>1, ConcatEmptySeq DEF Unsent
  <2> QED BY <1>1, <2>1, <2>2, ConcatEmptySeq DEF InFlight
<1>6. \E ends, at : Framed(InFlight, wrote, wrote, ends, at)
  <2> DEFINE e == {0}
             a == [p \in e |-> wrote]
  <2>1. Framed(<<>>, wrote, wrote, e, a)
    BY <1>1, <1>2 DEF Framed
  <2> QED BY <1>5, <2>1
<1>7. \A i \in Sides : \E start : Delivered(i, wrote[Other(i)], start)
  <2> SUFFICES ASSUME NEW i \in Sides PROVE \E start : Delivered(i, wrote[Other(i)], start)
    OBVIOUS
  <2> DEFINE s == [k \in 1..1 |-> 0]
  <2>1. Len(rx[i]) = 0 /\ Len(got[i]) = 0 /\ Len(overflow[i]) = 0 /\ wrote[Other(i)] = 0 /\ Found(i) = 0
    BY <1>1, <1>2, SidesFacts DEF Found
  <2>2. Queued(i, 0, s)
    BY <2>1 DEF Queued
  <2>3. SubSeq(Elts(b), n - 0 + 1, n) = <<>>
    <3>1. n - 0 + 1 \in Int /\ n \in Int /\ n < n - 0 + 1
      OBVIOUS
    <3> QED BY <3>1, SubSeqEmpty
  <2>4. s[Len(rx[i]) + 1] = 0 /\ s[1] = 0
    BY <2>1
  <2>5. Bytes(Other(i), 0 + 1, 0) = <<>>
    BY <1>3
  <2> HIDE DEF s
  <2>6. SubSeq(Elts(b), n - Found(i) + 1, n) = <<>>
    <3>1. n - Found(i) + 1 = n - 0 + 1
      BY <2>1
    <3> QED BY <2>3, <3>1, Zenon
  <2>7. Bytes(Other(i), s[Len(rx[i]) + 1] + 1, Found(i)) = <<>>
    BY <2>1, <2>4, <2>5, Zenon
  <2>8. s[Len(rx[i]) + 1] + Found(i) = 0
    BY <2>1, <2>4
  <2>9. Delivered(i, 0, s)
    BY <2>2, <2>6, <2>7, <2>8, Zenon DEF Delivered
  <2> QED BY <2>1, <2>9
<1> QED
  BY <1>2, <1>4, <1>6, <1>7 DEF Flow

LEMMA ReadSame ==
  ASSUME ReadInv, UNCHANGED <<wrote, got, overflow>>
  PROVE  ReadInv'
BY DEF ReadInv

LEMMA WriteReads ==
  ASSUME SrpcAssumption, Base, ReadInv, NEW i \in Sides, Write(i)
  PROVE  ReadInv'
<1>0. SendType /\ ReadType
  BY DEF Base
<1>1. PICK l \in FrameLens : l \in Nat /\ wrote' = [wrote EXCEPT ![i] = wrote[i] + l]
  BY <1>0, WriteFacts
<1>2. got' = got /\ overflow' = overflow
  BY <1>0, WriteFacts DEF readVars
<1>3. \A j \in Sides : wrote[j] \in Nat /\ wrote'[j] \in Nat /\ wrote[j] <= wrote'[j]
  BY <1>0, <1>1 DEF SendType
<1>4. ASSUME NEW j \in Sides PROVE Len(got[j]) + Len(overflow[j]) <= wrote'[Other(j)]
  <2>1. Other(j) \in Sides
    BY SidesFacts
  <2>2. got[j] \in Seq(Element) /\ overflow[j] \in Seq(Element)
    BY <1>0 DEF ReadType
  <2> DEFINE x == Len(got[j]) + Len(overflow[j])
  <2>3. Len(got[j]) \in Nat /\ Len(overflow[j]) \in Nat
    BY <2>2
  <2>4. x \in Nat
    <3>1. \A p, q \in Nat : p + q \in Nat
      OBVIOUS
    <3> QED BY <2>3, <3>1, Zenon
  <2>5. x <= wrote[Other(j)]
    BY Zenon DEF ReadInv
  <2>6. wrote[Other(j)] \in Nat /\ wrote'[Other(j)] \in Nat /\ wrote[Other(j)] <= wrote'[Other(j)]
    BY <1>3, <2>1
  <2> HIDE DEF x
  <2>7. x <= wrote'[Other(j)]
    BY <2>4, <2>5, <2>6
  <2> QED BY <2>7 DEF x
<1> QED
  BY <1>2, <1>4 DEF ReadInv

\* Input has found no frame where Serve ends
LEMMA FlowFails ==
  ASSUME Base, NEW c, Flow(c), ConnFail \/ ServeFails
  PROVE  Flow(c)'
<1>1. /\ UNCHANGED <<wrote, stream, Unsent, mem, b, n, lastContentLen, lastFrameIsClient, rx, overflow, got>>
      /\ spc' = spc \/ (spc = "read" /\ spc' = "done")
  BY FailsFacts DEF sendVars, Unsent
<1>2. InFlight' = InFlight
  BY <1>1 DEF InFlight, Left, Elts
<1>3. \A j \in Sides : \E start : Delivered(j, c[Other(j)], start)'
  <2> SUFFICES ASSUME NEW j \in Sides PROVE \E start : Delivered(j, c[Other(j)], start)'
    OBVIOUS
  <2>1. PICK start : Delivered(j, c[Other(j)], start)
    BY DEF Flow
  <2>2. Found(j)' = Found(j)
    BY <1>1 DEF Found
  <2>3. Delivered(j, c[Other(j)], start)'
    BY <1>1, <2>1, <2>2 DEF Delivered, Queued, Elts
  <2> QED BY <2>3
<1> QED
  BY <1>1, <1>2, <1>3 DEF Flow

\* A step keeps what has been read exact, and what is on its way as long as nobody panics
LEMMA NextStream ==
  ASSUME SrpcAssumption, StreamInv, [SrpcNext]_srpcVars
  PROVE  StreamInv'
<1>0. Base /\ ReadInv /\ Base'
  BY NextBase DEF StreamInv
<1>1. CASE UNCHANGED srpcVars
  <2>1. UNCHANGED <<wrote, mem, b, serveVars, rx, got, overflow, stream, Unsent, panicked>>
    BY <1>1 DEF srpcVars, sendVars, readVars, Unsent
  <2>2. ReadInv'
    BY <1>0, <2>1, ReadSame
  <2>3. FlowInv'
    <3> SUFFICES ASSUME ~panicked PROVE \E c : Flow(c)'
      BY <2>1 DEF FlowInv
    <3>1. PICK c : Flow(c)
      BY DEF StreamInv, FlowInv
    <3>2. Flow(c)'
      BY <2>1, <3>1, FlowSame
    <3> QED BY <3>2
  <2> QED BY <1>0, <2>2, <2>3 DEF StreamInv
<1>2. CASE SrpcNext
  <2>1. ~panicked
    BY <1>2 DEF SrpcNext
  <2>2. PICK c : Flow(c)
    BY <2>1 DEF StreamInv, FlowInv
  <2>3. SUFFICES ReadInv' /\ (~panicked' => \E d : Flow(d)')
    BY <1>0 DEF StreamInv, FlowInv
  <2>4. ASSUME NEW i \in Sides, Write(i) PROVE ReadInv' /\ Flow(c)'
    BY <1>0, <2>2, <2>4, FlowWrite, WriteReads
  <2>5. ASSUME NEW i \in Sides, Reader(i) PROVE ReadInv' /\ Flow(c)'
    <3>1. CASE ReadOverflow(i)
      BY <1>0, <2>2, <3>1, FlowReadOverflow
    <3>2. CASE ReadFrame(i)
      BY <1>0, <2>2, <3>2, FlowReadFrame
    <3>3. CASE ReaderEnds(i)
      <4>1. UNCHANGED <<wrote, mem, b, serveVars, rx, got, overflow, stream, Unsent>>
        BY <1>0, <3>3, ReaderEndsFacts DEF sendVars, Unsent
      <4> QED BY <1>0, <2>2, <4>1, FlowSame, ReadSame
    <3> QED BY <2>5, <3>1, <3>2, <3>3 DEF Reader
  <2>6. CASE WriteGoesOn
    <3>1. /\ stream' \o Unsent' = stream \o Unsent
          /\ UNCHANGED <<wrote, mem, b, serveVars, rx, got, overflow>>
      BY <1>0, <2>6, WriteSomeFacts, WriteFailsFacts DEF WriteGoesOn, Base, readVars
    <3> QED BY <1>0, <2>2, <3>1, FlowSame, ReadSame
  <2>7. CASE ServeRead
    <3>1. UNCHANGED <<wrote, got, overflow>>
      BY <2>7 DEF ServeRead, sendVars, readVars
    <3> QED BY <1>0, <2>2, <2>7, <3>1, FlowServeRead, ReadSame
  <2>8. CASE Input
    <3>1. UNCHANGED <<wrote, got, overflow>>
      BY <2>8, InputFacts DEF sendVars, readVars
    <3> QED BY <1>0, <2>2, <2>8, <3>1, FlowInput, ReadSame
  <2>9. CASE NextBuf
    <3>1. UNCHANGED <<wrote, got, overflow>>
      BY <2>9 DEF NextBuf, sendVars, readVars
    <3> QED BY <1>0, <2>2, <2>9, <3>1, FlowNextBuf, ReadSame
  <2>10. CASE CloseClient
    <3>1. UNCHANGED <<wrote, mem, b, serveVars, rx, got, overflow, stream, Unsent>>
      BY <1>0, <2>10, CloseClientFacts DEF sendVars, Unsent
    <3> QED BY <1>0, <2>2, <3>1, FlowSame, ReadSame
  <2>11. CASE ConnFail \/ ServeFails
    <3>1. UNCHANGED <<wrote, got, overflow>>
      BY <1>0, <2>11, FailsFacts DEF sendVars
    <3> QED BY <1>0, <2>2, <2>11, <3>1, FlowFails, ReadSame
  <2> QED BY <1>2, <2>4, <2>5, <2>6, <2>7, <2>8, <2>9, <2>10, <2>11 DEF SrpcNext, Serve
<1> QED
  BY <1>1, <1>2

\* Whatever buffers are recycled and wherever the client is closed: what has been read is
\* what was written, every frame on its way keeps its bytes, and of the slices that refer to
\* one array at most one may still be written behind (conn.Read, Input, Serve, Close).
THEOREM StreamInvHolds == SrpcAssumption => (SrpcSpec => []StreamInv)
<1> SUFFICES ASSUME SrpcAssumption PROVE SrpcSpec => []StreamInv
  OBVIOUS
<1>1. SrpcInit => StreamInv
  BY InitBase, InitFlow DEF StreamInv, FlowInv
<1>2. StreamInv /\ [SrpcNext]_srpcVars => StreamInv'
  BY NextStream
<1> QED
  BY <1>1, <1>2, PTL DEF SrpcSpec

LEMMA StreamSafe ==
  ASSUME StreamInv
  PROVE  SrpcTypeOK /\ StreamsExact /\ NoReuseInFlight
<1>1. SrpcTypeOK /\ NoReuseInFlight
  BY BaseSafe DEF StreamInv
<1>2. ASSUME NEW i \in Sides
      PROVE  got[i] = Bytes(Other(i), 1, Len(got[i])) /\ Len(got[i]) <= wrote[Other(i)]
  <2>1. got[i] \in Seq(Element) /\ overflow[i] \in Seq(Element)
    BY DEF StreamInv, Base, ReadType
  <2>2. wrote[Other(i)] \in Nat
    BY SidesFacts DEF StreamInv, Base, SendType
  <2>3. Len(got[i]) + Len(overflow[i]) <= wrote[Other(i)] /\ got[i] = Bytes(Other(i), 1, Len(got[i]))
    BY DEF StreamInv, ReadInv
  <2>4. Len(got[i]) \in Nat /\ Len(overflow[i]) \in Nat
    BY <2>1
  <2> DEFINE x == Len(got[i])
             y == Len(overflow[i])
             w == wrote[Other(i)]
  <2>5. x \in Nat /\ y \in Nat /\ w \in Nat /\ x + y <= w
    BY <2>2, <2>3, <2>4
  <2> HIDE DEF x, y, w
  <2>6. x <= w
    BY <2>5
  <2> QED BY <2>3, <2>6 DEF x, w
<1> QED
  BY <1>1, <1>2 DEF StreamsExact

\* What the client of one host reads is what the server of the other wrote, and the other
\* way round, and no buffer is used again while a frame cut from it waits for its reader,
\* wherever the client is closed (conn.Read, Input, Serve, getBuf).
THEOREM StreamsExactHolds ==
  SrpcAssumption => (SrpcSpec => [](SrpcTypeOK /\ StreamsExact /\ NoReuseInFlight))
<1>1. StreamInv => SrpcTypeOK /\ StreamsExact /\ NoReuseInFlight
  BY StreamSafe
<1> QED
  BY <1>1, StreamInvHolds, PTL

-----------------------------------------------------------------------------
(* Nobody sends on a closed channel *)

\* A whole frame is found, whatever follows it
LEMMA WholeFront ==
  ASSUME NEW u \in Seq(Element), NEW c, NEW w, NEW ends, NEW at, Framed(u, c, w, ends, at), Len(u) # 0
  PROVE  FrameValid(u)
<1>1. Len(u) \in Nat /\ 0 \in ends /\ at[0] = c
  BY DEF Framed
<1>2. PICK j \in Sides, k \in Nat : IsFrame(u, 0, j, k, at[0][j])
  BY <1>1 DEF Framed
<1> DEFINE g == HeaderSize(k)
<1>3. g \in {1, 2} /\ (k > 1 => g = 2) /\ (~(k > 1) => g = 1)
  BY DEF HeaderSize
<1>4. 0 + g = g /\ 0 + 1 = 1
  BY <1>3
<1> HIDE DEF g
<1>5. /\ 0 + g + k <= Len(u) /\ (k > 1 => u[0 + 1].kind = "more")
      /\ u[0 + g] = [side |-> j, len |-> k, kind |-> "header"]
  BY <1>2 DEF IsFrame, g
<1>6. /\ g + k <= Len(u) /\ (k > 1 => u[1].kind = "more")
      /\ u[g] = [side |-> j, len |-> k, kind |-> "header"]
  BY <1>4, <1>5
<1>7. u[g].len = k /\ u[g].kind = "header"
  BY <1>6
<1>8. u # <<>>
  BY EmptySeq
<1>9. HeaderLen(u) = g
  <2>1. CASE k > 1
    <3>1. u[1].kind = "more" /\ g = 2 /\ Len(u) > 1
      BY <1>1, <1>3, <1>6, <2>1
    <3> QED BY <1>8, <3>1 DEF HeaderLen
  <2>2. CASE ~(k > 1)
    <3>1. g = 1 /\ u[1].kind = "header"
      BY <1>3, <1>7, <2>2
    <3> QED BY <1>8, <3>1 DEF HeaderLen
  <2> QED BY <2>1, <2>2
<1> QED
  BY <1>3, <1>6, <1>7, <1>9 DEF FrameValid

\* When the stream is empty and Input has found all it can, every byte has been taken
LEMMA AllTaken ==
  ASSUME SendType, ServeType, NEW c, Flow(c), ~FrameValid(Left), stream = <<>>, Unsent = <<>>
  PROVE  c = wrote
<1>1. Left \in Seq(Element)
  BY InFlightFacts
<1>2. InFlight = Left
  <2>1. stream \o Unsent = <<>>
    BY ConcatEmptySeq, EmptySeq
  <2> QED BY <1>1, <2>1, ConcatEmptySeq DEF InFlight
<1>3. PICK ends, at : Framed(Left, c, wrote, ends, at)
  BY <1>2 DEF Flow
<1>4. Len(Left) = 0
  BY <1>1, <1>3, WholeFront
<1> QED
  BY <1>3, <1>4 DEF Framed

\* A step that leaves what the sender wrote and what Input looks at as it is
LEMMA CloseSame ==
  ASSUME CloseInv, UNCHANGED <<wrote, mem, b, serveVars, panicked, clientClosed>>,
         \A i \in Sides : rxClosed'[i] => clientClosed,
         NEW c, Flow(c)', Settled => c = wrote
  PROVE  CloseInv'
<1>1. Left' = Left /\ spc' = spc /\ lastContentLen' = lastContentLen
  BY DEF Left, Elts, serveVars
<1>2. ~panicked' /\ NothingWhole'
  BY <1>1 DEF CloseInv, NothingWhole
<1>3. Settled' => wrote' = MaxBytes /\ (spc' = "input" => lastContentLen' = 0)
  BY <1>1 DEF CloseInv, Settled
<1>4. \A i \in Sides : rxClosed'[i] => clientClosed'
  OBVIOUS
<1>5. \E d : Flow(d)' /\ (Settled' => d = wrote')
  BY <1>1 DEF Settled
<1> QED
  BY <1>2, <1>3, <1>4, <1>5 DEF CloseInv

\* Who has written all it may writes no more than frames without contents
LEMMA CloseWrite ==
  ASSUME SrpcAssumption, Base, CloseInv, NEW i \in Sides, Write(i)
  PROVE  CloseInv'
<1>0. SendType
  BY DEF Base
<1>1. PICK c : Flow(c) /\ (Settled => c = wrote)
  BY DEF CloseInv
<1>2. Flow(c)'
  BY <1>1, FlowWrite
<1>3. UNCHANGED <<stream, mem, b, serveVars, rx, rxClosed, recycle, readVars, panicked>>
  BY <1>0, WriteFacts
<1>4. PICK l \in Nat : wrote[i] + l <= MaxBytes[i] /\ wrote' = [wrote EXCEPT ![i] = wrote[i] + l]
  BY <1>0, WriteFacts
<1>5. Settled => wrote' = wrote
  <2> SUFFICES ASSUME Settled PROVE wrote' = wrote
    OBVIOUS
  <2>1. wrote = MaxBytes
    BY DEF CloseInv
  <2>2. wrote \in [Sides -> Nat]
    BY <1>0 DEF SendType
  <2>3. l = 0 /\ wrote[i] + l = wrote[i]
    BY <1>4, <2>1, <2>2
  <2> QED BY <1>4, <2>2, <2>3
<1>6. /\ Left' = Left /\ spc' = spc /\ lastContentLen' = lastContentLen
      /\ panicked' = panicked /\ rxClosed' = rxClosed /\ clientClosed' = clientClosed
  BY <1>3 DEF Left, Elts, serveVars, readVars
<1>7. ~panicked' /\ NothingWhole'
  BY <1>6 DEF CloseInv, NothingWhole
<1>8. Settled' => wrote' = MaxBytes /\ (spc' = "input" => lastContentLen' = 0)
  BY <1>5, <1>6 DEF CloseInv, Settled
<1>9. \A j \in Sides : rxClosed'[j] => clientClosed'
  BY <1>6 DEF CloseInv
<1>10. \E d : Flow(d)' /\ (Settled' => d = wrote')
  BY <1>1, <1>2, <1>5, <1>6 DEF Settled
<1> QED
  BY <1>7, <1>8, <1>9, <1>10 DEF CloseInv

LEMMA CloseServeRead ==
  ASSUME SrpcAssumption, Base, CloseInv, ServeRead
  PROVE  CloseInv'
<1>1. PICK c : Flow(c) /\ (Settled => c = wrote)
  BY DEF CloseInv
<1>2. Flow(c)'
  BY <1>1, FlowServeRead
<1>3. /\ spc = "read" /\ spc' = "input" /\ lastContentLen' = 0
      /\ UNCHANGED <<wrote, rxClosed, clientClosed, panicked>>
  BY DEF ServeRead, sendVars, readVars
<1>4. NothingWhole'
  BY <1>3 DEF NothingWhole
<1> QED
  BY <1>1, <1>2, <1>3, <1>4 DEF CloseInv, Settled

LEMMA CloseNextBuf ==
  ASSUME SrpcAssumption, Base, CloseInv, NextBuf
  PROVE  CloseInv'
<1>1. PICK c : Flow(c) /\ (Settled => c = wrote)
  BY DEF CloseInv
<1>2. Flow(c)'
  BY <1>1, FlowNextBuf
<1>3. /\ spc = "next" /\ spc' = "read" /\ n' = 0 /\ lastContentLen' = 0
      /\ UNCHANGED <<wrote, rxClosed, clientClosed, panicked>>
  BY DEF NextBuf, sendVars, readVars
<1>4. NothingWhole'
  <2>1. ServeType' /\ EltsIn(mem', b') = Left
    BY NextBufBase DEF Base
  <2>2. Left' = Left
    BY <1>3, <2>1, NewLeft
  <2> QED BY <1>3, <2>2 DEF CloseInv, NothingWhole
<1> QED
  BY <1>1, <1>2, <1>3, <1>4 DEF CloseInv, Settled

\* Once the client is closed Input finds no frame with contents
LEMMA CloseInput ==
  ASSUME SrpcAssumption, Base, CloseInv, Input
  PROVE  CloseInv'
<1>0. SendType /\ ServeType
  BY DEF Base
<1>1. PICK c : Flow(c) /\ (Settled => c = wrote)
  BY DEF CloseInv
<1>2. /\ spc = "input" /\ InputSends /\ InputTakes
      /\ UNCHANGED <<sendVars, stream, mem, b, rxClosed, recycle, readVars>>
  BY InputFacts
<1>3. UNCHANGED <<wrote, mem, b, rxClosed, clientClosed>>
  BY <1>2 DEF sendVars, readVars
<1>4. ~panicked'
  <2>1. To \in Sides
    BY <1>0, SidesFacts DEF To, ServeType
  <2>2. lastContentLen = 0 \/ ~rxClosed[To]
    BY <1>2, <2>1 DEF CloseInv, Settled
  <2> QED BY <1>2, <2>2 DEF InputSends, CloseInv
<1>5. PICK d : /\ Flow(d)'
               /\ \/ ~FrameValid(Left) /\ d = c
                  \/ \E j \in Sides, l \in Nat : d = [c EXCEPT ![j] = c[j] + l] /\ lastContentLen' = l
  BY <1>1, <1>4, FlowInput
<1>6. NothingWhole'
  <2>1. CASE FrameValid(Left)
    <3>1. spc' = "input"
      BY <1>2, <2>1 DEF InputTakes
    <3> QED BY <3>1 DEF NothingWhole
  <2>2. CASE ~FrameValid(Left)
    <3>1. n' = n
      BY <1>2, <2>2 DEF InputTakes
    <3>2. Left' = Left
      BY <1>3, <3>1 DEF Left, Elts
    <3> QED BY <2>2, <3>2 DEF NothingWhole
  <2> QED BY <2>1, <2>2
<1>7. Settled => d = wrote /\ (spc' = "input" => lastContentLen' = 0)
  <2> SUFFICES ASSUME Settled PROVE d = wrote /\ (spc' = "input" => lastContentLen' = 0)
    OBVIOUS
  <2>1. c = wrote /\ wrote \in [Sides -> Nat]
    BY <1>0, <1>1 DEF SendType
  <2>2. CASE ~FrameValid(Left) /\ d = c
    <3>1. spc' = "next"
      BY <1>2, <2>2 DEF InputTakes
    <3> QED BY <2>1, <2>2, <3>1
  <2>3. CASE \E j \in Sides, l \in Nat : d = [c EXCEPT ![j] = c[j] + l] /\ lastContentLen' = l
    <3>1. PICK j \in Sides, l \in Nat : d = [wrote EXCEPT ![j] = wrote[j] + l] /\ lastContentLen' = l
      BY <2>1, <2>3
    <3>2. PICK ends, at : Framed(InFlight', d, wrote', ends, at)
      BY <1>5 DEF Flow
    <3>3. d[j] <= wrote'[j]
      BY <3>2, FramedBound
    <3>4. d[j] = wrote[j] + l /\ wrote[j] \in Nat /\ wrote'[j] = wrote[j]
      BY <1>3, <2>1, <3>1
    <3>5. l = 0 /\ wrote[j] + l = wrote[j]
      BY <3>3, <3>4
    <3> QED BY <2>1, <3>1, <3>5
  <2> QED BY <1>5, <2>2, <2>3
<1>s. Settled' => Settled
  BY <1>2, <1>3 DEF Settled
<1>8. \E e : Flow(e)' /\ (Settled' => e = wrote')
  BY <1>3, <1>5, <1>7, <1>s
<1>9. Settled' => wrote' = MaxBytes /\ (spc' = "input" => lastContentLen' = 0)
  BY <1>3, <1>7, <1>s DEF CloseInv
<1>10. \A i \in Sides : rxClosed'[i] => clientClosed'
  BY <1>3 DEF CloseInv
<1> QED
  BY <1>4, <1>6, <1>8, <1>9, <1>10 DEF CloseInv

LEMMA CloseReader ==
  ASSUME SrpcAssumption, Base, ReadInv, CloseInv, NEW i \in Sides, Reader(i)
  PROVE  CloseInv'
<1>1. PICK c : Flow(c) /\ (Settled => c = wrote)
  BY DEF CloseInv
<1>2. CASE ReadOverflow(i)
  <2>1. Flow(c)'
    BY <1>1, <1>2, FlowReadOverflow
  <2>2. UNCHANGED <<wrote, mem, b, serveVars, rxClosed, panicked, clientClosed>>
    BY <1>2, ReadOverflowFacts DEF sendVars
  <2>3. \A j \in Sides : rxClosed'[j] => clientClosed
    BY <2>2 DEF CloseInv
  <2> QED BY <1>1, <2>1, <2>2, <2>3, CloseSame
<1>3. CASE ReadFrame(i)
  <2>1. Flow(c)'
    BY <1>1, <1>3, FlowReadFrame
  <2>2. UNCHANGED <<wrote, mem, b, serveVars, rxClosed, panicked, clientClosed>>
    BY <1>3, ReadFrameFacts DEF sendVars
  <2>3. \A j \in Sides : rxClosed'[j] => clientClosed
    BY <2>2 DEF CloseInv
  <2> QED BY <1>1, <2>1, <2>2, <2>3, CloseSame
<1>4. CASE ReaderEnds(i)
  <2>1. /\ UNCHANGED <<wrote, mem, b, serveVars, rx, got, overflow, stream, Unsent, panicked, clientClosed>>
        /\ rxClosed[i]
    BY <1>4, ReaderEndsFacts DEF sendVars, Unsent
  <2>2. Flow(c)'
    BY <1>1, <2>1, FlowSame
  <2>3. clientClosed
    BY <2>1 DEF CloseInv
  <2> QED BY <1>1, <2>1, <2>2, <2>3, CloseSame
<1> QED
  BY <1>2, <1>3, <1>4 DEF Reader

LEMMA CloseCloseClient ==
  ASSUME SrpcAssumption, ~CloseEarly, Base, CloseInv, CloseClient
  PROVE  CloseInv'
<1>0. SendType /\ ServeType
  BY DEF Base
<1>1. PICK c : Flow(c)
  BY DEF CloseInv
<1>2. /\ UNCHANGED <<wrote, mem, b, serveVars, rx, got, overflow, stream, Unsent, panicked>>
      /\ clientClosed' = TRUE
      /\ Quiet \/ spc = "done"
  BY CloseClientFacts DEF sendVars, Unsent
<1>3. Flow(c)'
  BY <1>1, <1>2, FlowSame
<1>4. NothingWhole' /\ spc' = spc
  <2>1. Left' = Left /\ spc' = spc
    BY <1>2 DEF Left, Elts, serveVars
  <2> QED BY <2>1 DEF CloseInv, NothingWhole
<1>5. Settled' => wrote = MaxBytes /\ spc = "read" /\ c = wrote
  <2> SUFFICES ASSUME Settled' PROVE wrote = MaxBytes /\ spc = "read" /\ c = wrote
    OBVIOUS
  <2>1. stream = <<>> /\ wlock = Free /\ lost = <<>> /\ wrote = MaxBytes /\ spc = "read"
    BY <1>2, <1>4 DEF Settled, Quiet
  <2>2. Unsent = <<>>
    <3>1. wb = <<>>
      BY <1>0, <2>1 DEF SendType
    <3> QED BY <2>1, <3>1, ConcatEmptySeq, EmptySeq DEF Unsent
  <2>3. ~FrameValid(Left)
    BY <2>1 DEF CloseInv, NothingWhole
  <2> QED BY <1>0, <1>1, <2>1, <2>2, <2>3, AllTaken
<1>6. ~panicked'
  BY <1>2 DEF CloseInv
<1>7. Settled' => wrote' = MaxBytes /\ spc' # "input"
  BY <1>2, <1>4, <1>5
<1>8. \E d : Flow(d)' /\ (Settled' => d = wrote')
  BY <1>2, <1>3, <1>5
<1> QED
  BY <1>2, <1>4, <1>6, <1>7, <1>8 DEF CloseInv

\* Where Serve ends nothing more is sent on
LEMMA CloseFails ==
  ASSUME Base, CloseInv, ConnFail \/ ServeFails
  PROVE  CloseInv'
<1>1. PICK c : Flow(c) /\ (Settled => c = wrote)
  BY DEF CloseInv
<1>2. Flow(c)'
  BY <1>1, FlowFails
<1>3. /\ UNCHANGED <<wrote, mem, b, n, lastContentLen, rxClosed, clientClosed, panicked>>
      /\ spc' = spc \/ (spc = "read" /\ spc' = "done")
  BY FailsFacts DEF sendVars
<1>4. Left' = Left
  BY <1>3 DEF Left, Elts
<1>5. ~panicked' /\ NothingWhole'
  BY <1>3, <1>4 DEF CloseInv, NothingWhole
<1>6. Settled' => Settled
  BY <1>3 DEF Settled
<1> QED
  BY <1>1, <1>2, <1>3, <1>5, <1>6 DEF CloseInv

LEMMA CloseStep ==
  ASSUME SrpcAssumption, ~CloseEarly, StreamInv, CloseInv, [SrpcNext]_srpcVars
  PROVE  CloseInv'
<1>0. Base /\ ReadInv
  BY DEF StreamInv
<1>1. PICK c : Flow(c) /\ (Settled => c = wrote)
  BY DEF CloseInv
<1>2. ASSUME UNCHANGED <<wrote, mem, b, serveVars, rx, rxClosed, got, overflow, panicked, clientClosed>>,
             stream' \o Unsent' = stream \o Unsent
      PROVE  CloseInv'
  <2>1. Flow(c)'
    BY <1>1, <1>2, FlowSame
  <2>2. \A j \in Sides : rxClosed'[j] => clientClosed
    BY <1>2 DEF CloseInv
  <2> QED BY <1>1, <1>2, <2>1, <2>2, CloseSame
<1>3. CASE UNCHANGED srpcVars
  BY <1>2, <1>3 DEF srpcVars, sendVars, readVars, Unsent
<1>4. CASE WriteGoesOn
  BY <1>0, <1>2, <1>4, WriteSomeFacts, WriteFailsFacts DEF WriteGoesOn, Base, readVars
<1>5. ASSUME NEW i \in Sides, Write(i) PROVE CloseInv'
  BY <1>0, <1>5, CloseWrite
<1>6. ASSUME NEW i \in Sides, Reader(i) PROVE CloseInv'
  BY <1>0, <1>6, CloseReader
<1>7. CASE ServeRead
  BY <1>0, <1>7, CloseServeRead
<1>8. CASE Input
  BY <1>0, <1>8, CloseInput
<1>9. CASE NextBuf
  BY <1>0, <1>9, CloseNextBuf
<1>10. CASE CloseClient
  BY <1>0, <1>10, CloseCloseClient
<1>11. CASE ConnFail \/ ServeFails
  BY <1>0, <1>11, CloseFails
<1> QED
  BY <1>3, <1>4, <1>5, <1>6, <1>7, <1>8, <1>9, <1>10, <1>11 DEF SrpcNext, Serve

LEMMA CloseInit ==
  ASSUME SrpcAssumption, SrpcInit
  PROVE  CloseInv
<1>1. Flow(wrote) /\ Base
  BY InitFlow, InitBase
<1>2. ~panicked /\ ~clientClosed /\ \A i \in Sides : ~rxClosed[i]
  BY DEF SrpcInit
<1>3. NothingWhole
  <2>1. Left = <<>>
    <3>1. n = 0 /\ b.hi - b.lo + 1 = 0
      BY DEF SrpcInit
    <3>2. Left \in Seq(Element) /\ Len(Left) = (b.hi - b.lo + 1) - n
      BY <1>1, LeftFacts DEF Base
    <3> QED BY <3>1, <3>2, EmptySeq
  <2> QED BY <2>1 DEF NothingWhole, FrameValid, HeaderLen
<1> QED
  BY <1>1, <1>2, <1>3 DEF CloseInv, Settled

\* What the client of one host writes the server of the other reads, and the other way
\* round, whatever buffers are recycled in between and wherever the connection fails; and if
\* the client is closed only when nothing more arrives or after Serve has ended, nobody sends
\* on a channel that Close has closed (conn.Read, Input, Serve, Close).
THEOREM SrpcSafeHolds == SrpcAssumption /\ ~CloseEarly => (SrpcSpec => []SrpcSafe)
<1> SUFFICES ASSUME SrpcAssumption, ~CloseEarly PROVE SrpcSpec => []SrpcSafe
  OBVIOUS
<1>1. SrpcInit => StreamInv /\ CloseInv
  BY InitBase, InitFlow, CloseInit DEF StreamInv, FlowInv
<1>2. StreamInv /\ CloseInv /\ [SrpcNext]_srpcVars => StreamInv' /\ CloseInv'
  BY NextStream, CloseStep
<1>3. StreamInv /\ CloseInv => SrpcSafe
  BY StreamSafe DEF SrpcSafe, CloseInv, NoPanic
<1> QED
  BY <1>1, <1>2, <1>3, PTL DEF SrpcSpec

===============================================================================
