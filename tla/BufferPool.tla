----------------------------- MODULE BufferPool -----------------------------
(***************************************************************************)
(* Packet buffers of hw/buf.go: a pool of references to free buffers, and  *)
(* packets, which are chains of buffers.  A reference names a buffer and   *)
(* says whether another follows it; which one, the header of the buffer    *)
(* says (nextRef).  Every call of the pool runs under its lock.            *)
(***************************************************************************)
EXTENDS Integers, Sequences, FiniteSets, SequencesExt

CONSTANTS
  MaxBuffers,    \* bound: how many buffers the DMA memory holds
  Chunk,         \* bound: buffers made at a time
  MaxWant,       \* bound: buffers asked for at a time
  AppendChains   \* whether callers append chains of several buffers

\* Assumed where the module is instantiated
BufferAssumption ==
  /\ MaxBuffers \in Nat /\ Chunk \in Nat \ {0} /\ MaxWant \in Nat
  /\ AppendChains \in BOOLEAN

None == 0
NoRef == [buffer |-> None, nextValid |-> FALSE]

VARIABLES
  refs,      \* BufferPool.refs: the free buffers, allocated from the end
  made,      \* how many buffers have been made so far: 1..made
  nextRef,   \* BufferHeader.nextRef of every buffer
  packets,   \* what callers hold: the reference to the first buffer, and
             \* the buffers as the caller knows them
  chain      \* the RefChain under construction, and the buffers put into it

bufferVars == <<refs, made, nextRef, packets, chain>>

Buffers == 1..made
Single(b) == [ref |-> [buffer |-> b, nextValid |-> FALSE], bufs |-> <<b>>]
EmptyChain == [len |-> 0, head |-> NoRef, tail |-> None, prevTail |-> None, bufs |-> <<>>]

BuffersInit ==
  /\ refs = <<>>
  /\ made = 0
  /\ nextRef = [b \in 1..MaxBuffers |-> NoRef]
  /\ packets = {}
  /\ chain = EmptyChain

\* The buffers that a reference leads to (NextRef, at most MaxBuffers of them)
Follow(r, next) ==
  LET at[i \in 0..MaxBuffers] ==
        IF i = 0 THEN r
        ELSE IF at[i - 1].nextValid THEN next[at[i - 1].buffer] ELSE NoRef
      last == CHOOSE i \in 0..MaxBuffers :
                ~at[i].nextValid /\ \A j \in 0..i - 1 : at[j].nextValid
  IN [i \in 1..last + 1 |-> at[i - 1].buffer]

-----------------------------------------------------------------------------
(* Allocation *)

\* refs after Chunk buffers at a time were made, the smallest offset last
Grown(want) ==
  LET k == CHOOSE n \in 0..want : /\ Len(refs) + n * Chunk >= want
                                  /\ \A m \in 0..n - 1 : Len(refs) + m * Chunk < want
      new == [i \in 1..k * Chunk |-> made + ((i - 1) \div Chunk + 1) * Chunk - ((i - 1) % Chunk)]
  IN refs \o new

AllocRefs(want) ==
  LET all == Grown(want)
      n == Len(all) - want
  IN /\ made + Len(all) - Len(refs) <= MaxBuffers
     /\ made' = made + Len(all) - Len(refs)
     /\ refs' = SubSeq(all, 1, n)
     /\ packets' = packets \cup {Single(all[i]) : i \in n + 1..Len(all)}
     /\ UNCHANGED <<nextRef, chain>>

AllocCachedRefs ==
  /\ refs # <<>>
  /\ packets' = packets \cup {Single(refs[i]) : i \in 1..Len(refs)}
  /\ refs' = <<>>
  /\ UNCHANGED <<made, nextRef, chain>>

-----------------------------------------------------------------------------
(* Free *)

\* Seeded bug: only the first reference of four decides
SlowPath_First(src, i) ==
  LET n == Len(src)
      first == ((i - 1) \div 4) * 4 + 1
  IN IF first + 3 <= n THEN src[first].nextValid ELSE src[i].nextValid

\* freeRefsNext takes references four at a time and then one by one; it looks at
\* the rest of the chains of four if one of them has a rest.
SlowPath(src, i) ==
  LET n == Len(src)
      first == ((i - 1) \div 4) * 4 + 1
  IN IF first + 3 <= n THEN \E j \in first..first + 3 : src[j].nextValid ELSE src[i].nextValid

\* freeNext: what add collects for src[i], whose buffer free1 or free4 has reset
Rest(src, i) == IF SlowPath(src, i) /\ src[i].nextValid
                THEN Follow(nextRef[src[i].buffer], nextRef) ELSE <<>>

\* FreeRefs of the first references of the packets ps, with or without the rest
\* of the chains.  A caller that keeps the rest holds it as a packet.
FreeRefs(ps, freeNext) ==
  LET src == [i \in DOMAIN ps |-> ps[i].ref]
      firsts == [i \in DOMAIN src |-> src[i].buffer]
      rests == IF freeNext THEN FlattenSeq([i \in DOMAIN src |-> Rest(src, i)]) ELSE <<>>
      freed == firsts \o rests
      kept == {[ref |-> nextRef[p.ref.buffer], bufs |-> Tail(p.bufs)] :
                 p \in {q \in Range(ps) : ~freeNext /\ Len(q.bufs) > 1}}
  IN /\ refs' = refs \o freed
     /\ nextRef' = [b \in DOMAIN nextRef |-> IF b \in Range(freed) THEN NoRef ELSE nextRef[b]]
     /\ packets' = (packets \ Range(ps)) \cup kept
     /\ UNCHANGED <<made, chain>>

-----------------------------------------------------------------------------
(* Chains *)

\* LinkRefs(as, bs, cs): c becomes the successor of the last buffer of p.  The
\* flag that says so is in the reference to that buffer: in p's own reference if
\* it is the first (as is nil), else in the header of the buffer before it.
LinkRefs(p, c) ==
  LET n == Len(p.bufs)
      linked == [nextRef EXCEPT ![p.bufs[n]] = c.ref]
  IN /\ p # c
     /\ nextRef' = IF n = 1 THEN linked ELSE [linked EXCEPT ![p.bufs[n - 1]].nextValid = TRUE]
     /\ packets' = (packets \ {p, c}) \cup
                     {[ref |-> [p.ref EXCEPT !.nextValid = TRUE], bufs |-> p.bufs \o c.bufs]}
     /\ UNCHANGED <<refs, made, chain>>

\* A slot of a chain is 0 for c.head, or the buffer whose nextRef it is
Head0 == 0
NoBuffer == -1

\* Append: r goes to the slot c.tail, and the reference in c.prev_tail is marked
Link(c, r) ==
  LET tail == IF c.len = 0 THEN Head0 ELSE c.tail
      marked == c.len > 0
  IN [head |-> IF tail = Head0 THEN r
               ELSE IF marked /\ c.prevTail = Head0 THEN [c.head EXCEPT !.nextValid = TRUE]
               ELSE c.head,
      next |-> [b \in DOMAIN nextRef |->
                  IF b = tail THEN r
                  ELSE IF marked /\ b = c.prevTail THEN [nextRef[b] EXCEPT !.nextValid = TRUE]
                  ELSE nextRef[b]]]

Append1(p) ==
  LET linked == Link(chain, p.ref)
      added == Follow(p.ref, linked.next)
  IN /\ AppendChains \/ Len(p.bufs) = 1
     /\ nextRef' = linked.next
     /\ chain' = [len |-> chain.len + Len(added),
                  head |-> linked.head,
                  tail |-> added[Len(added)],
                  prevTail |-> IF chain.len = 0 THEN Head0 ELSE chain.tail,
                  bufs |-> chain.bufs \o p.bufs]
     /\ packets' = packets \ {p}
     /\ UNCHANGED <<refs, made>>

\* The caller takes Head() of the chain as a packet and starts another
TakeChain ==
  /\ chain.len > 0
  /\ packets' = packets \cup {[ref |-> chain.head, bufs |-> chain.bufs]}
  /\ chain' = EmptyChain
  /\ UNCHANGED <<refs, made, nextRef>>

Arrangements(S) == {s \in [1..Cardinality(S) -> S] : IsInjective(s)}

BuffersNext ==
  \/ \E want \in 1..MaxWant : AllocRefs(want)
  \/ AllocCachedRefs
  \/ \E S \in SUBSET packets \ {{}}, freeNext \in BOOLEAN : \E ps \in Arrangements(S) : FreeRefs(ps, freeNext)
  \/ \E p, c \in packets : LinkRefs(p, c)
  \/ \E p \in packets : Append1(p)
  \/ TakeChain

BuffersSpec == BuffersInit /\ [][BuffersNext]_bufferVars

-----------------------------------------------------------------------------
(* Properties *)

\* A packet leads to exactly the buffers that were put into it
Intact == \A p \in packets : Follow(p.ref, nextRef) = p.bufs

\* No buffer is lost and none is in two places: in the pool twice, in the pool
\* and in a packet, or in two packets.
Conserved ==
  LET heldBy == {Follow(p.ref, nextRef) : p \in packets}
      places == heldBy \cup {refs} \cup (IF chain.len = 0 THEN {} ELSE {Follow(chain.head, nextRef)})
  IN /\ UNION {Range(s) : s \in places} = Buffers
     /\ \A s \in places : IsInjective(s)
     /\ \A s, t \in places : s # t => Range(s) \cap Range(t) = {}

\* RefChain.Validate: "length mismatch", for buffers with one byte of data
ChainLength == chain.len > 0 => Len(Follow(chain.head, nextRef)) = chain.len

\* What holds of the buffers in every state
BuffersSound == Intact /\ Conserved /\ ChainLength

=============================================================================
