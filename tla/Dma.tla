-------------------------------- MODULE Dma --------------------------------
(***************************************************************************)
(* Memory for devices: the kernel maps it in chunks that are contiguous    *)
(* only each for itself (hw/pci/kern_uio_pci_dma.go), a heap of cache      *)
(* lines (mem_heap.go) is put on it, and an allocation that would cross    *)
(* from one chunk to another is kept aside until there is one that does    *)
(* not (hw/physmem_paged.go).  The list of those kept aside is one for all *)
(* goroutines and has no lock.  Any free place that fits may be the one    *)
(* that the heap takes: of the heap this has what Regions promises, which  *)
(* module Heap implements.  Sizes are in bytes.                            *)
(***************************************************************************)
EXTENDS Naturals, Sequences, FiniteSets, SequencesExt

CONSTANTS
  Threads,
  MemSize,      \* of the memory, 64M in the program
  MinChunk,     \* the least chunk that is asked for, 4K in the program
  MaxPages,     \* addresses in the answer of the kernel, 256 in the program
  CacheLine,    \* of the cache
  Wants,        \* sizes that are asked for
  LineAligns,   \* alignments, in lines
  OneAllocator  \* only one goroutine allocates at a time

\* alloc_and_map asks for one chunk, and then for chunks of half the size as long as the
\* kernel refuses, down to MinChunk
ChunkSizes == {c \in MinChunk..MemSize : \E k \in 0..MemSize : c = MemSize \div 2^k}

DmaAssumption ==
  /\ MemSize \in Nat /\ MinChunk \in ChunkSizes \ {0} /\ MinChunk \in Nat /\ MaxPages \in Nat
  /\ CacheLine \in Nat \ {0} /\ Wants \subseteq Nat \ {0} /\ LineAligns \subseteq Nat \ {0}
  /\ \A c \in ChunkSizes : MemSize % c = 0

VARIABLES
  chunk, pages,  \* PageTable: bytes of a page, physical address of each
  lines,         \* what the heap has lent: [at, cap]
  free,          \* PageTable.free: allocations kept aside
  alloc,         \* of each goroutine: [pc, n, align, got]
  dmaHeld,       \* the buffers that callers hold: [at, n, cap]
  failed         \* "no", "error", "panic"

dmaVars == <<chunk, pages, lines, free, alloc, dmaHeld, failed>>

-----------------------------------------------------------------------------
(* The page table *)

\* heapInit, of the first device that is opened; the kernel grants chunks of a size and
\* places them where it likes
DmaHeapInit(size, reversed) ==
  /\ pages = <<>> /\ failed = "no"
  /\ LET count == MemSize \div size
     IN IF count > MaxPages THEN failed' = "panic" /\ UNCHANGED <<chunk, pages>>
        ELSE /\ chunk' = size
             /\ pages' = [k \in 1..count |-> size * (IF reversed THEN 2 * (count - k) ELSE 2 * k)]
             /\ UNCHANGED failed
  /\ UNCHANGED <<lines, free, alloc, dmaHeld>>

\* The kernel refuses every size
DmaHeapInitFails ==
  /\ pages = <<>> /\ failed = "no"
  /\ failed' = "error"
  /\ UNCHANGED <<chunk, pages, lines, free, alloc, dmaHeld>>

physAddress(a) == pages[(a \div chunk) + 1] + (a % chunk)

\* Seeded bug: the last byte may be in the next page
samePage_Short(o, n) == o \div chunk = (o + n - 2) \div chunk
samePage(o, n) == o \div chunk = (o + n - 1) \div chunk

-----------------------------------------------------------------------------
(* Allocation *)

roundUp(n) == ((n + CacheLine - 1) \div CacheLine) * CacheLine
Overlap(a, b) == a.at < b.at + b.cap /\ b.at < a.at + a.cap
Places(n, align) ==
  {l \in [at : {k * align * CacheLine : k \in 0 .. MemSize \div (align * CacheLine)}, cap : {roundUp(n)}] :
     l.at + l.cap <= MemSize /\ \A m \in lines : ~Overlap(l, m)}

\* DmaAllocAligned empties the list of what is kept aside
Start(g, n, align) ==
  /\ pages # <<>> /\ failed = "no" /\ alloc[g].pc = "idle"
  /\ OneAllocator => \A h \in Threads : alloc[h].pc = "idle"
  /\ free' = <<>>
  /\ alloc' = [alloc EXCEPT ![g] = [pc |-> "try", n |-> n, align |-> align, got |-> <<>>]]
  /\ UNCHANGED <<chunk, pages, lines, dmaHeld, failed>>

\* MemHeap.GetAligned, with its lock: a heap without a place panics
Try(g) ==
  LET a == alloc[g]
      places == Places(a.n, a.align)
  IN /\ a.pc = "try" /\ failed = "no"
     /\ IF places = {} THEN failed' = "panic" /\ UNCHANGED <<lines, free, alloc>>
        ELSE \E l \in places :
               /\ lines' = lines \cup {l}
               /\ IF samePage(l.at, a.n)
                  THEN /\ alloc' = [alloc EXCEPT ![g] = [@ EXCEPT !.pc = "put", !.got = l]]
                       /\ UNCHANGED free
                  ELSE free' = Append(free, l) /\ UNCHANGED alloc
               /\ UNCHANGED failed
     /\ UNCHANGED <<chunk, pages, dmaHeld>>

\* What was kept aside goes back to the heap, and the caller has its buffer
PutKept(g) ==
  /\ alloc[g].pc = "put" /\ failed = "no"
  /\ lines' = lines \ ToSet(free)
  /\ dmaHeld' = dmaHeld \cup {[at |-> alloc[g].got.at, n |-> alloc[g].n, cap |-> alloc[g].got.cap]}
  /\ alloc' = [alloc EXCEPT ![g].pc = "idle"]
  /\ UNCHANGED <<chunk, pages, free, failed>>

\* DmaFree
Free(b) ==
  /\ failed = "no" /\ b \in dmaHeld
  /\ dmaHeld' = dmaHeld \ {b}
  /\ lines' = lines \ {[at |-> b.at, cap |-> b.cap]}
  /\ UNCHANGED <<chunk, pages, free, alloc, failed>>

DmaInit ==
  /\ chunk = 0 /\ pages = <<>> /\ lines = {} /\ free = <<>> /\ dmaHeld = {} /\ failed = "no"
  /\ alloc = [g \in Threads |-> [pc |-> "idle", n |-> 0, align |-> 1, got |-> <<>>]]

DmaNext == \/ \E size \in ChunkSizes, reversed \in BOOLEAN : DmaHeapInit(size, reversed)
           \/ DmaHeapInitFails
           \/ \E g \in Threads, n \in Wants, align \in LineAligns : Start(g, n, align)
           \/ \E g \in Threads : Try(g) \/ PutKept(g)
           \/ \E b \in dmaHeld : Free(b)

DmaSpec == DmaInit /\ [][DmaNext]_dmaVars

-----------------------------------------------------------------------------
\* A buffer is as contiguous for the device as it is for the program, and is nobody else's
\* (DmaAllocAligned, DmaPhysAddress).
Contiguous ==
  \A b \in dmaHeld : /\ \A i \in 0 .. b.n - 1 : physAddress(b.at + i) = physAddress(b.at) + i
                     /\ \A c \in dmaHeld : b = c \/ ~Overlap(b, c)

\* When nobody allocates the heap has lent what callers hold and nothing else: what was
\* kept aside is all back.
NothingKept ==
  failed = "no" /\ (\A g \in Threads : alloc[g].pc = "idle") =>
    lines = {[at |-> b.at, cap |-> b.cap] : b \in dmaHeld}

\* Both
DmaSound == Contiguous /\ NothingKept
=============================================================================
