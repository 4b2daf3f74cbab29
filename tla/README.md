# elib: specifications, model checking and proofs

elib is a Go library of data structures (bitmaps, pools, heaps, hashes, sparse
vectors), an event log, an I/O multiplexer with sockets and a symmetric RPC on
top of it, packet buffers, a multiway compare tree for flow lookup, drivers and
register descriptions for PCI devices, and an event/polling loop (`loop`) that
drives all of it.  This directory holds TLA+ modules for its stateful parts,
TLC configurations, and theorems checked by TLAPS.  `PROJECT.json` lists
components, runs, mutants (seeded bugs that show that a property can fail), the
source lines of each definition, findings, hazards and theorems.

## 1. Inventory

| Part | State | Operations | What is hard, and what must hold | Modules |
|---|---|---|---|---|
| loop, pollers (`loop/loop.go`) | per node: flag word, `toLoop`, `fromLoop`, pool index; `nActivePollers`, `waitingForEvent` | `Activate`, `ActivateAfterTime`, `Suspend`, `Resume`, `Interrupt`, `dataPoll`, `doPollers`, `disableInterrupts` | flags change by CAS from any goroutine; main reads them unlocked. No poller runs while main handles events; no hand-over is lost, doubled or blocks | LoopPollers, PollTurns, LoopPollersProofs |
| loop, events (`loop/event.go`) | `events`, `rxEvents`, `toLoop` channels, timed event pool, recycled `loopEvent`s, active bits | `AddEvent`, `AddTimedEvent`, `Quit`, `Interrupt`, `eventHandler`, `doEvents`, `Wait` | bounded channels in both directions; objects recycled by another goroutine. Every event runs once; main does not wait for nothing; handlers are idle while pollers run | LoopEvents, LoopEventsProofs |
| loop, call graph (`loop/call.go`) | nodes and names of next nodes, frames with their lengths, pending queue of a poller | `AddNextWithIndex`, `graphInit`, `call`, `Len`, `SetLen` | links made before and after start; a length of eight bits | CallGraph, CallGraphProofs |
| event pool (`event/event.go`) | index pool + Fibonacci heap | `Add`, `Del`, `Advance`, `AdvanceAdd`, `NextTime` | events leave in time order, and only when due | EventPool, TimedQueue |
| Fibonacci heap (`fibheap.go`) | index-linked sibling lists, marks, cached minimum | `Add`, `Del`, `Update`, `Min` | link surgery over long sequences of calls | FibHeap |
| heap allocator (`heap.go`, `mem_heap.go`) | chunk list, free lists by size, recycled elements | `Get`, `GetAligned`, `Put` | split and coalesce; free lists agree with the chunks; nobody gets what another holds | Heap, Regions, ContainerProofs |
| pool, bitmap (`pool.go`, `typed_pool.go`, `bitmap.go`) | stack and bitmap of free indices; inline word or pooled vector | `GetIndex`, `PutIndex`, `Set`, `Unset`, `Dup`, `NextSet`, binary operations | two representations of one set; stale words on reuse | Pool, Bitmap, ContainerProofs |
| hash (`hash.go`, `cap.go`), sparse (`sparse.go`) | bucket differences; counts per word | `Get`, `Set`, `Unset`, grow | relocation while growing; rank of an index | Hash, Sparse, ContainerProofs |
| event log (`elog/*.go`) | ring of events, index with a lock bit; saved views | `Add`, `Enable`, `DisableAfter`, `Clear`, `NewView`; `Save`, `Restore` | lock-free writers against callers that lock the index only; a reader with other event types | Elog, ElogProofs, ElogCodec |
| iomux (`iomux/*.go`), socket (`socket/*.go`) | file pool, epoll set, tx/rx buffers, locks, flags | `Add`, `Del`, `Update`, `EventPoll`, `Write`, `ReadReady`, `WriteReady`, `Close` | the epoll goroutine reads without the lock; events of files that are gone; interest against buffers; errors | FileIO, FileIOProofs |
| srpc (`srpc/srpc.go`) | two streams over one connection, frame queues, recycled buffers | `Input`, `Read`, `Write`, `Close`, `Serve` | frames are slices of a buffer that is reused; the connection may fail | Srpc, SrpcProofs |
| hw buffers (`hw/buf.go`) | stack of free references, chains | `AllocRefs`, `FreeRefs` | every buffer of a chain is freed once | BufferPool, MemoryProofs |
| mctree (`mctree/*.go`) | tree, shared vectors of offsets with counts, cost | split, join, clone, `Step`, restart | reference counts and incremental cost across annealing | McTree |
| dep (`dep/dep.go`) | hooks with dependencies | `Add`, `Index`, `sort` | order respects dependencies both ways | Dep, CallGraphProofs |
| cli (`cli/*.go`) | tree of commands; a file per session | `AddCommand`, lookup; read, prompt, quit, close | abbreviations as commands are added | Commands, FileIO |
| parse (`parse/parse.go`) | input buffer, saved positions | `Parse` with formats, alternatives, numbers | a failed alternative restores the input, however the reader cuts it | ParseInput |
| register generator (`hw/hwgen/*.go`) | tokens, scopes, layouts | `ParseFile`; sizes, offsets, getters, setters | recovery from errors; bit positions | HwGenParser, HwGen |
| pci (`hw/pci/*.go`) | drivers, devices, resources | `SetDriver`, discovery, capability walk | address registers of one or two halves; who opens a device | Pci |
| dma memory (`hw/physmem_paged.go`, `hw/pci/kern_uio_pci_dma.go`) | page table, heap of lines, chunks kept aside | `DmaAllocAligned`, `DmaFree` | physical contiguity across pages | Dma, MemoryProofs |
| loop statistics and commands, templates, tools, examples, formatting | | | not modelled (section 7) | |

Interactions: `loop` owns an `event.Pool` (which owns a `FibHeap` and a
`Pool`); nodes run in the goroutine of a data poller or of an event handler;
`iomux` calls `Filer`s (`FileBuf`, `socket`, the files of `cli`) from its own
goroutine; `srpc` reads and writes such a connection; `hw` buffers lie in DMA
memory, which is a `MemHeap` over mapped pages; the data structures are used by
one goroutine at a time except where a lock is listed.

## 2. What is modelled

An operator is named after the function it stands for, a variable after its
field.  Where a module works on linked structures it has one operator per
function, from the structure to the one the call leaves, and one action per
exported call.  Words are sets of bits, and integers that wrap are counted
modulo a constant.

### The loop

**LoopPollers** has main (`mpc`), the goroutine of every data poller (`ppc`) and
outside callers.  `flags[n]` is the set of bits of `Node.flags`,
`toLoop`/`fromLoop` the nodes whose channel (capacity one) holds its token,
`pool`/`activePollerIndex` the active poller pool, `timers` and `due` the
activate events in `eventPool` and `eventVec`.  A CAS loop is one action, as
only the successful CAS changes anything; each other access to shared state is
an action of its own: main's two reads of the flag word in `doPollers`, its read
of `nActivePollers` and its later store to `waitingForEvent`, the three steps of
`Activate`, the two of `Interrupt`, the four of `Suspend`.  Go's data races on
`waitingForEvent` and `nActivePollers` are taken as sequentially consistent.
Vector rates (when interrupts are turned off) and which timers have expired are
nondeterministic.  `freeActivePoller` is not reached: its call is disabled by
`if false`.

**PollTurns** is the promise: rounds, in which main starts pollers, each at most
once, and waits for each to yield; a held poller runs again only after a
Resume.  `LoopPollers` refines it through `phase`, `started` and `stage`.

**LoopEvents.**  Event objects have an identity, since `loopEvent`s are recycled
through a `sync.Pool`; `Owners(e)` is where an object is.  Handlers (`hpc`),
main (`mpc`) and the environment (outside callers, pollers in their turn,
interrupts) each move objects.  `addEventBlocking` and `addEventNonBlocking` are
the two modes of `addEvent`; `Deliver` and `SetActive` are the two statements of
`EventAction`, apart because the handler may run, signal and recycle in between.
`PoolReuse = FALSE` restricts `sync.Pool.Get` to the case that the pool has been
emptied.  `Sources` says who adds events in a run.

**CallGraph** has the registration of next nodes by name and index, `graphInit`,
and the walk of one poller over its pending frames.  `RoutesAgree` says that the
graph of a poller sends what a node puts on a next index to the node that was
named for it; `VectorsKept` that a frame with vectors is queued exactly once and
hands on as many as were put in, with a length of a byte in which a full frame
looks empty.

### Data structures

**FibHeap** has `linkAfter`, `unlink`, `HeapAdd`, `HeapDel` with `cutChildren`
and the cascading cuts (`AdjustParent`), `HeapMin` with consolidation.  The
actions call them in any order; `key` is the caller's data and `live` the set
that the heap stands for.  An `Update` may change a key either way.  `Merge` is
left out: it has no caller, and its loop follows links that `Add` has just
overwritten.  The comment of `fibNode` that roots are never marked does not hold
(`Del` marks a parent before it looks whether it is a root), harmlessly: a root
is not cut, and its mark is cleared when it becomes a child.  `FibSound` says
that lists and children are closed rings in which every live element is once,
that a child's key is not less than its parent's, and that the cached minimum is one.

**EventPool** composes the heap with the index pool, and refines **TimedQueue**:
a set of timed events, of which `Advance` takes those that are due, in the
order of their times, and of which `NextTime` is the earliest.

**Heap** has chunks in a linked list, free lists per size with list 0 for what
was larger than every size asked for, and recycled elements.  Split, coalesce,
alignment and the growth of `maxSize` are there with the panics of the code
(`corrupt`); an alignment is any positive number, of which the code's powers of
two are some.  `HeapSound`: the chunks tile the heap (`Tiled`), callers hold
chunks as they were given (`Lent`) and apart from each other (`Apart`), and the
free lists hold exactly the free chunks (`FreeLists`).  **Regions** is what a
caller relies on, without chunks and lists: a region in the heap, aligned, and
nobody else's until it is put back.  `Heap` implements it (`RegionsSpec`), and
`Dma` assumes of its heap what Regions promises.

**BufferPool** has the references of `hw/buf.go`, chains through `nextRef`, the
path that frees four at a time and the one that frees the rest.

**Pool**, **Bitmap**, **Sparse**, **Hash** are each checked against the value
they stand for, which is kept beside them (`heldObjs`, `value`, `members`,
`stored`).  `Bitmap` keeps what an earlier user left in pooled vectors.  `Hash`
takes one step per grow inside a `Set`; a hash function is any choice of base
indices, for each seed, and a capacity is 2^i or 2^i + 2^j, as `cap.go` has it.

**McTree** has nodes, vectors of offsets with reference counts, the incremental
cost, clones of the best tree and annealing steps with restarts; a random draw
is a choice.  `CostExact` compares the incremental cost with the cost computed
from the leaves; `BestImproves` is an action property.

**Dep** makes the order in steps: `sort.Sort` moves one element a step, and the
recursion of `orderHelper` is the sequence of its calls under way, `helperCalls`, to
which each step adds one or from which it takes the last.

### Formats, descriptions and devices

**ElogCodec**: a view is written by one program and read by another, whose
event types are in another order or missing, from bytes that may end early: the
8 bytes of the time unit, the cpu time, the start time with its length, the
names of types and the events, in the order of `MarshalBinary`, with every error
return of `UnmarshalBinary` and its panic on a stream without the first 8 bytes.
Either side's package time may refuse a start time.  Time differences wrap at
`TimeModulus`.

**Commands** and **ParseInput**: the words of commands and their abbreviations;
the input buffer that the reader fills in pieces, saved positions, and formats
with alternatives, options and numbers.  `ParseExact` compares the result on
every way to cut the text with a definition on the whole text; `ParseAtomic`
says that a failed `Parse` leaves the input where it was.

**HwGenParser** and **HwGen**: the recursive descent parser on tokens with its
errors, synchronisation, bailout, scopes and unresolved identifiers, and the
generator's sizes and offsets.  `ParseFileExact` compares with a grammar,
`TreesBind` with precedences and declarations.  What a bit field says is read
from its syntax (`Written`), apart from the generator's counting:
`PlacedAsWritten` compares each member's place and the size with it, and
`GetReadsSet` evaluates the getters after a setter, for every bit of every field.

**Pci** has drivers, the discovery of devices and their resources, and the walk
over capability lists in the bytes of a configuration that were read, with the
tests of its bounds.  The address registers are compared with what they mean by
the PCI standard (`Wide`, `IsUpper`, `HasAddress`).  **Dma** has the choice of the chunk size, and the allocations that
are kept aside because they cross a page.

**ParseSamples**, **HwGenSamples**, **PciSamples** hold the inputs of the runs.

### Concurrent I/O

**Elog**: a writer claims a slot by compare-and-swap and then writes the event
piece by piece, while controllers set the lock bit of the index, wait, copy or
clear, and store the index back.  `LockExcludes` and `DisableStops` are the
promises; `QuietViewExact` says that a view made while nobody writes has
exactly the last events.

**FileIO** puts together the multiplexer, `FileBuf`, connected sockets and the
file layer of `cli`: the poller (`ppc`) with a batch of epoll events, one user
goroutine per file (`upc`), the peer and the kernel.  The lock of the transmit
buffer is held over the same statements as in the code; what runs after its
release, and the read of the file pool without its lock, are steps of their
own.  A descriptor may fail (`PeerFails`): reads, writes and a pending connection
return errors then, which panic in `do`, and so does every `ErrorReady`.  An event
in the batch knows the file that it was reported for (`of`, which the code does
not have), and the pool may give its index to another file before `do` gets to
it: the code drops such an event or has the wrong file handle it.  `FilesSafe`
joins: bytes in order both ways (`InOrder`, `ReadExact`); epoll entries and file
pool agree (`EventsFindFile`); an event meets another file than its own only when
its own has been deleted since (`EventsOfFile`); interest in writing exactly while
there is something to write; nothing left when a file closes on request; and
no failure of the poller where it is the only reader, no descriptor fails and
peers close last (`EndOfFileClean`).

**Srpc** has one host's end of a connection: frames of client and server written
under `wlock`, a stream read in pieces of any size, slices of a buffer handed to
each reader and recycled.  `NoReuseInFlight` says that a recycled array is not
under a frame that is still to be read.  The connection may fail at any time
(`conn`): a `Write` then ends half-way, `lost` is what it and those after it did
not send, and `Serve` returns from its next read.

## 3. Runs

| Run | Instance | Shows |
|---|---|---|
| `pollers_safety` | 2 pollers, 1 caller, 1 timer | the inductive invariant, exclusion, hand-over, Suspend, refinement of `PollTurns` |
| `loop_liveness` | 1 poller with interrupts and a timer, or 1 handler with 3 events; fair | rounds end; Resume and timed activation are not lost; events run; Quit ends the loop |
| `events` | three instances of LoopEvents | one owner per object; main never waits for a handler that has nothing to report; without timed events handlers are idle when pollers run |
| `structures` | seventeen parts of one goroutine each | every sequence of calls within the bounds |
| `concurrent` | Elog, FileIO in six instances, Srpc; fair | safety of each in every interleaving, with events of files that are gone and with failures; calls return, bytes arrive |
| `lost_wakeup` | 1 poller | violated: `Activate` can miss the wakeup |
| `handler_two_events` | 1 handler, 2 events | violated: pollers run beside a handler |
| `handler_add_deadlock` | `l.events` of capacity 1 | violated: deadlock of main and a handler |
| `event_left_behind` | 5 events added by pollers | violated: an event is never run |
| `recycled_event` | 3 objects, recycling | violated: use of an event after it was handed over |
| `heap_corrupt` | heap of 6, sizes 1 and 2 | violated: `Put` panics with "corrupt" after legal calls |
| `quit_panics` | one file, one byte | violated: quit races `WriteReady`, and `Update` panics on a closed descriptor |

### How the runs are put together

Modules that do not interact share a run: `MCStructures`, `MCConcurrent`,
`MCLoopLiveness` and `MCLoopEvents` give each module its instance, choose one by
the variable `part` in the initial state, and leave the variables of the others
at their initial values.  The state space is the sum of the parts', and a
property of a part is guarded by its name.

Three means keep TLC's work down without leaving behaviours out.
`MCStructures!MCView` identifies states that differ only in what is overwritten
before it is read: the links of indices outside a heap, the events of free
slots, and the numbering of elements, nodes and chunks in structures that are
well formed (a malformed one is kept as it is, so that an invariant still sees
it).  `MCLoopPollers!MCView` hides main's loop variable outside its loops, and
`interruptsDisabled` when no node has interrupts.  In `ParseInput`,
`HwGenParser` and `HwGen` the operator `Then` passes the result of one call to
the rest of the function, so that it is evaluated once.

### Bounds

*Loop.*  `pollers_safety`: two pollers let one start, suspend or finish while
main is at the other; `CounterModulus = 2` makes `nActivePollers` wrap; an
event queue of one makes the diversion of interrupts happen; `MaxActivations`
and `MaxTimers` bound calls, and while an activate event is pending no other
poller is active (`MCNext`).  `events`: `ownership` has one handler, queues of one and
recycling; `wait` two handlers and queues of two; `exclusion` two handlers and
queues of three; three objects in each, which is enough for one to be run, one
queued and one diverted.  In the fair instance at most three events exist, which
is what one handler can take in one iteration without being left with one:
`event_left_behind` shows the fourth.

*Structures.* Call graph: 4 nodes (a diamond), frames of 3, 2 rounds. FibHeap has two
parts. `fib`: 5 indices, 2 keys, every order of calls, the lowest free index first:
trees of degree two, equal keys, consolidation. A child that lost a child and is cut
again needs more elements than these: `cuts` starts from 16 elements of which one
`Min` has made a tree of degree four, and takes any three away, or any two and updates
a third, before another `Min`, so that the marks of one and of two levels are met and
cut (`MaxCuts`). EventPool: 4 slots, 2 times, without cascading cuts. Heap: 6 units,
sizes 1 and 3, alignment: split on both sides and joins on both sides; the sizes that
lead to `heap_corrupt` are that run's. BufferPool: 5 buffers, so that the path of four
and the rest both run. Hash: 4 keys on 2 bases, so that all collide, up to two grows.
Sparse: words of 2 bits, 4 words. Pool: 3 types, limits none and 2, 4 objects. Bitmap:
words of 3 bits, up to 3 words, 2 bitmaps. Dep: 3 hooks, 2 orders, all dependencies
without a cycle, up to the names of hooks (`DepsLeadDown`). McTree: 3 keys of 3 bits,
a restart after 2 steps. Commands: one-letter words, their extensions and groups, 3
commands. ElogCodec: 2 types, 2 events, times that wrap modulo 4, a view with and
without a time unit, start times of which one cannot be written and one cannot be read
(these vary with one order of the reader's types only). ParseInput: words modulo 64,
integers below 32, 2 calls on sample texts that reach and pass the limits. HwGen:
sample descriptions, each of them also with one token removed, inserted or replaced at
every place, and register files; ranges of one bit are among them. `OddFields =
FALSE`: the properties do not speak of the two kinds of bit fields that the code
misplaces (section 4). Pci: 2 drivers, 3 address registers of each kind, with upper
and lower halves of zero but for the cases of `OddBars` (section 4); configurations
that end before, inside and after a capability, with lists that are absent, short,
circular, or lead out of it; configurations vary with one bus only. Dma: pages that
differ in contiguity, requests of 2 and 3 lines.

*Concurrent.*  Elog: 2 writers, 2 controllers, a ring of 2 that wraps with 3
events.  FileIO: a FileBuf and a socket with one byte each way at once (`both`), and
each alone with two bytes and a kernel buffer of one (`file`, `socket`), so that
writes are cut short.  In `stale` the FileBuf is sent lines in two sends while its user
takes them and quits, and may fail, and a socket is added meanwhile: an event of the
FileBuf waits in the batch while the user closes it, and is dropped or meets the
socket; the socket is quiet (`OneBusy`).  In `badFile` and `badSocket` the peer may
fail, or close before it has read everything.  `AllSent` is for the first three:
bytes for a peer that is gone do not arrive.  Srpc: frames of 1 and 2 bytes, channels of
one, arrays of 4, reads of up to 4 bytes: frames are cut, joined, and wait for their
readers; the connection may fail in every state (`ConnFails`).

A few branches are not reached by the instances: a copy into a larger table that
fails half way (`Hash`, with four keys), and the panic of Srpc on a closed channel
(`CloseEarly = FALSE`).  The panics of FileIO are reached where a descriptor fails
or users read lines, and end the behaviour, as the process ends.

Deadlock checking is off where the system may stop: `ErrQuit` ends the program,
callers stop at their bounds, and an input, a bus or a log is finished.  It is on
in `heap_corrupt`.

### Fairness

Go runs every runnable goroutine: weak fairness of main, of each handler, of each call
in progress and of a poller's own steps. An action or `LoopInput` returns (strong,
since it may make calls first, and a call in progress disables the return); time
passes (an event that stays in the timed pool expires). In `concurrent`: weak fairness
of writers and controllers inside a call, of the poller of the first three parts of
FileIO, of a user that has begun, of the peer's reading, and of `Serve`, its readers
and writers; strong fairness of `WriteReady`, which waits for the lock of the transmit
buffer and for epoll, each of them taken and given again and again. Nothing is assumed
of new calls by anybody.

`loop_liveness` has two disjoint parts, and a behaviour is of one of them only;
fairness of an action of one part or an action of the other is therefore
fairness of both, and TLC has half as many conditions to carry.

## 4. Findings

Seven disagreements between the code and what the repository says of it have a
run of their own (section 3, and `findings` with the quoted lines).  While
modelling, these were seen as well.  Some can be reached by setting a constant
of the module, and the property named then fails; no source text promises the
contrary, so no run is about them.

* **CallGraph**: with `AnyIndex = TRUE` (next indices given out of order)
  `RoutesAgree` fails; the code panics with "inconsistent next" in `graphInit`.
  `SetLen(0)` after a positive length leaves the frame pending as one of 256.  A
  node that fills a frame from its start loses vectors where two paths meet.
  `AddNext` after a poller's graph is allocated, or nodes registered after
  `initNodes`, index out of range.
* **Loop**: a Resume of a node that was deactivated while suspended does nothing
  (`loop.go:258`).  `nActivePollers` only grows (`loop.go:157`).  `doEventWait`
  reads `NextTime` without `eventPoolLock` (`event.go:179`).  Turning
  `disableInterrupts` off enables a node's interrupts before it deactivates it
  and loses an `Activate` made by an interrupt in between.
* **EventPool**: the slot of an expired event never returns to the index pool
  (`event/event.go:61`).
* **Bitmap**: freeing or reusing long vectors leaves bits behind
  (`FreeLong = TRUE`, `bitmap.go:361`, `108`), and so does a binary operation of
  an inline with a long bitmap (`Combine = TRUE`, `bitmap.go:34`); `HasBits`
  fails.
* **BufferPool**: appending chains to chains (`AppendChains = TRUE`) breaks
  `ChainLength`, `Intact` and `Conserved`.  `RefHeader.Restore` computes its difference after the
  assignment.  A pool with a name already in use keeps index 0.
* **Hash**: `Unset` on a table never filled panics; `NextIndex(^0)` skips the
  first element; `MixPointer` multiplies an offset that is already in bytes.
* **Dep**: `Less` keeps the order of the array reversed (`dep.go:45`); a
  dependency named after the hook was ordered (`AddLater = TRUE`) is not seen.
* **FileIO**: with `LineSends = 2` (more input while the user takes the first)
  poller and user change the receive buffer without a lock, and bytes are lost
  or repeated (`ReadExact`); with `PeerEndsEarly = TRUE` a write to a peer that
  has closed panics in the poller (`EndOfFileClean`).  When a file is closed and
  a new one takes its index between `EventPoll` and `do` (`epoll.go:136`), the
  event of the old one makes the new one read or write, and that of an error makes the
  process panic for a file that has none; `socket.ReadReady` keeps the room
  it has made when there is nothing to read.  An `ErrorReady` of any file panics, and
  so does every error of a read, a write or a connection (`epoll.go:140-154`): a peer
  that resets its connection ends the process.
  `ClientWriteReady` returns with `txBufLock` held when the
  socket is closed (`socket.go:145`).  `Close` of a socket does not `Del` it.
  `do` reads `m.files[fi]` again after its checks.
* **Srpc**: closing a connection while the peer's replies are on the way
  (`CloseEarly = TRUE`) sends on a closed channel (`srpc.go:126`, `186`).  When the
  connection fails, `Serve` returns and closes nothing (`srpc.go:206`): both readers wait
  until somebody closes the client, and calls that wait for a reply do not return.
* **McTree**: a key added twice (`ReAdd = TRUE`) breaks `CostExact`.  `Step`
  does not return when the root is a leaf that cannot be split
  (`mctree.go:815`).  `Save` follows nodes that may have been freed.
* **ParseInput**: `parseInt` negates before its range check, so that "-1" is an
  overflow (`parse.go:321`); the check of overflow misses numbers that wrap
  twice; a panic inside a number leaves a saved position; a read error other
  than the end of the file is retried forever.
* **Commands**: a unique prefix of a sub-command, or a group of the same name,
  hides a command.
* **ElogCodec**: missing data of the last event is not noticed; after an error
  the view is partly overwritten; a stream of less than 8 bytes panics instead of
  being refused (`encoding.go:162`).
* **HwGenParser**: a second field `_` is "redeclared" (`parse.go:516`); further
  errors on a line are dropped.
* **HwGen**: bit fields are placed wrongly in two cases, which `OddFields = TRUE` includes
  and `PlacedAsWritten` and `GetReadsSet` then fail for.  A member without a position
  after one that skips to its own starts too low (`{c[2:1]; d}` has `d` at bit 2, which is
  of `c`, `hwgen.go:290`); a range of one bit that is at the next bit anyway is not
  counted (`{a; b[1:1]}`, or `[0:0]` at the start), so that the size is one short and a
  member after it shares its bit.  A bit placed below those before it (`{a(3); b(1)}`)
  makes the size one more.  In a bit field `...` counts in addresses, of which nothing is
  claimed.  The test for `hi < lo` says "hi <= lo" (`hwgen.go:286`).  Every name
  of a declaration gets its first value (`hwgen.go:25`); circular types and
  constants exhaust the stack; a register size of 0 divides by zero.
* **Pci**: a 64-bit address register in the last place indexes out of range
  (`linux_pci.go:175`); one with a zero low half has its upper half read as
  a register, and an I/O port whose address has bit 2 set is taken for 64 bits wide
  (`linux_pci.go:173`): with `OddBars = TRUE` `ResourcesExact` fails.  The walk over
  capabilities (`pci.go:359-375`) takes the vendor id of a device that has none for a
  header, reads past the end when a header is cut in two, and does not end when
  the list is circular; `CapFound` says which configurations do what.  An
  error of one device ends the discovery of the rest.
* **Dma**: more than 256 chunks index out of range; `PageTable.free` is shared
  without a lock (`OneAllocator = FALSE` violates `NothingKept`); a request
  larger than a page takes the whole heap aside before it fails.

## 5. Proofs

A component's theorems are in a module of their own.  They hold for every value
of the constants that the assumption of the component's module admits, unless a
condition is named below.  Each has the same form: an inductive invariant, that
holds initially, is kept by every action (one lemma per action or group of
actions) and implies the property.  The invariants were first checked by TLC on
instances at least as large as those of the runs.

| Module | Proved | Conditions |
|---|---|---|
| LoopPollersProofs | `IInv`, `TypeOK`, `EventsExcludePolling`, `NeverBlockWhenPolling`, `HandoverHasRoom`, `SuspendHonoured`; `LoopPollers` implements `PollTurns` | |
| LoopEventsProofs | `TypeOK`, `OneOwner` | |
| | `WaitHasSource` | one handler, where objects are used again |
| | `HandlersExcludePolling` | the same; no timed events; room in `l.events` for all |
| CallGraphProofs | `CallsSound` (`VectorsKept`) | |
| | `RoutesAgree` | `~AnyIndex` |
| | `OrderRespectsDeps` of Dep | `~AddLater` |
| ElogProofs | `ElogSafe` (`LockExcludes`, `DisableStops`), `QuietViewExact` | |
| SrpcProofs | `StreamsExact`, `NoReuseInFlight` | |
| | `SrpcSafe`, with `NoPanic` | `~CloseEarly` |
| FileIOProofs | `FilesSafe`, all of its parts | in the property: `ReadExact` with `~lines` or `LineSends <= 1`; `EndOfFileClean` with `~lines`, `~PeerEndsEarly` and no descriptor that failed |
| MemoryProofs | `BuffersSound` (`Intact`, `Conserved`, `ChainLength`) of BufferPool | `~AppendChains` |
| | `DmaSound` (`Contiguous`, `NothingKept`) of Dma | `OneAllocator` |
| ContainerProofs | `HeapSound`; `Heap` implements `Regions` | |
| | `DenseIsRank` of Sparse; `FreeOrHeld`, `ObjectsKept` of Pool | |
| | `GetFinds` of Hash | `BucketsFit` |
| | `HasBits`, `NextAscends` of Bitmap | `~FreeLong`, `~Combine`, `IndexFits` |

But for two, no condition is there for the prover's sake: without it the property
fails, and a run or section 4 shows how.  The two are arithmetic on powers of two, of
which the prover knows nothing, and TLC evaluates them at the start of `structures`.
`BucketsFit` says that the capacities that a grow of the table may allocate have
buckets in which exclusive or takes the distances to slots of their own; the run has a
`MaxCap` of 40, and it was evaluated for 200 too.  `IndexFits` says that a word is wide
enough for the complement of an index to have its top bit set and to give the index
back, for as many indices as there are bitmaps; a word of 64 bits is.  `recycled_event` has two handlers and reuse;
`handler_two_events` has a timed event; `AnyIndex`, `AddLater`,
`CloseEarly`, `PeerEndsEarly`, `AppendChains` and `LineSends = 2` are the borders of section 4.  A full `l.events`
makes a timed event of what a poller adds, so it is the same case as
`handler_two_events`.  `OneAllocator` is that of `PageTable.free` in section 4:
without it `NothingKept` fails, and the code can return an index to the heap
twice, after which it means another allocation.  The model names what is kept
aside by its place, so that it does not show this second part, and `Contiguous`
is claimed only where the list is safe.

### The inductive invariants, and why they are needed

*LoopPollers.*  `IInv` is `TypeOK` with three parts that say who holds the turn
of a poller.  `TurnInv`: exactly one of main, the token in `fromLoop`, the
running goroutine and the token in `toLoop` does whenever `node_polling` is set,
and a suspended bit belongs to a poller inside `Suspend`.  `PhaseInv` ties the
polling bits to main's loop variable, which shows that a round leaves nobody
behind.  `PoolInv`: pool and indices are inverse to each other.

*LoopEvents.*  `OneOwner` counts over all places where an object may be, which
no step can be followed through.  `OwnerInv` has instead a function from
objects to places such that what is found at a place belongs there; a step moves
one object (`Placed`, one lemma per kind of move).  `SourceInv` adds to
`WaitHasSource` that the handler whose active bit main is about to set has an
event or has reported.  `TurnInv` adds that from delivery until main has waited,
one handler has one job, and all others are parked.

*CallGraph.*  Counting vectors needs to know which is where: `VectorsInv` says
that there is an owner for each of a frame's worth of vectors, such that as many
lie in each frame as it holds.  A frame has room for what a node puts into it
because the vectors of all frames together are those of one round, and this is
why a length of one byte is enough.  `QueueInv` has the queue and the flags of
frames agree, `FrameInv` the byte and the length it stands for; `NamesInv` and
`TablesInv` have names, indices and the tables of the poller agree.

*Elog.*  `StopInv` counts the writers that have passed the test of
`disableIndex` and not yet claimed a slot; each of them may log once more.
`OneWriter` and `BufferInv`: a slot that was not lapped by a slow writer has one
writer at most and holds the event its index says or one that is being written.
`ViewInv`: what a quiet view has copied is still what the slots hold.

*Srpc.*  `OwnersInv` is the reason why a buffer is not reused too early: of the
slices of one array at most one, Serve's own, a recycled one, or one in a
channel that will be recycled, may be written behind, and the others end before
it begins.  `Flow` cuts what is in flight into frames, and says that the bytes
that a reader has read, has left over, finds in its channel, and gets next
from `Input` follow one another.  When the connection fails the frames go on with what
`Write` has not sent (`Unsent`), so that a frame that was cut in two is still one, of which
the rest never comes.  `CloseInv`: with `~CloseEarly` nothing is left to
send when the client is closed, unless `Serve` has returned (`Settled`), and `Serve` has
taken every whole frame.

*FileIO.*  `MuxInv`: a file that epoll knows is in the pool, under the index that
epoll has, and an index is in use or free, once.  `EventsInv`: an event's file, if it is
still in the pool, is under the event's index; this is `EventsOfFile`, and that only a
file that was registered has events.  `WriteInv`: who has quit has
done all it does with the file, and only with users who take lines is a file
closed by them.  `ReadInv` needs a definition of what is unread while the poller
is between making room and cutting the buffer (`Unread`), and that a read event,
in the batch or in hand, is for a file that has something to read.
`CleanInv`, without lines, failures and peers that leave early: what the poller has in
hand is still registered, which holds because then only the poller deletes files.

*BufferPool.*  The properties follow references through memory; the invariant has
the buffers of each packet, and of the chain, in a sequence of which the references
and headers are the links (`IsChain`), and says that the sequences and the free
references share no buffer (`Owned`).  A call changes headers only of buffers in the
packets it is given, so that all other chains stay as they are.  That
following a chain returns its sequence (`FollowExact`), and what a loop over several
packets frees (`FlattenItems`), takes an induction over a length; it rests on the
library's theorem on the finite subsets of a set, by which a set of numbers that is
not empty has a least one (`Least`).

*Dma.*  `LinesInv`: each line that the heap has lent is held by a caller, kept aside
or about to be handed over, and only one of these; `PagesInv`: the pages make up the
memory, each of the same size, so that an address has one page and one offset;
`OneBusy` and `GotInv`: nobody but the one who allocates has anything under way, and
what it is about to hand over lies in one page.

*Heap.*  `HeapInv` says of the heap that it is `Made` (elements numbered from 0,
the recycled ones all different), `Chained` (each chunk ends where its successor
begins, and predecessors and successors are inverse to each other), that no two
free chunks are neighbours (`Separate`) and that a free chunk is in one place of one
list, which it knows (`Listed`); and of what callers hold that it is what the held
chunks are (`LentIs`).  `HeapSound` is not inductive: it does not say that a
predecessor's successor is the chunk itself, nor that a chunk is on one list only,
and Put relies on both.  Between the steps of one call the heap is not sound:
`Separate` fails while Put has joined one side only, and `Listed` while a chunk is
neither held nor listed.  The lemmas of the steps (`Parted`, `NowHeld`, `NowFree`)
therefore say which chunk is the exception.  `Put` may panic and the theorem claims nothing
of a program that goes on after that; `heap_corrupt` shows that legal calls lead
there.  That two chunks never overlap (`NoneMeet`) does not follow from
neighbours alone: of two that did, those with the least place where the later one begins
would have predecessors that overlap before it.

*Sparse.*  A word has the bits of the members in it, and its count is the number of
members in the words before.  That a rank is the sum of such a count and of the
bits below an index rests on the division of an index into word and bit, and an
insertion moves the counts of the words behind it only.

*Pool.*  `FreeInv`: the stack of free indices has none of them twice and has those of
the bitmap; `PoolInv` adds that all others are held, with what was last written to
them, and that a free object is poisoned.

*Hash.*  `HashInv`: every key that was set is in one slot of the bucket of its base
index, at the distance that the slot says, which is no more than the bucket's
maximum, and nothing else is in the table (`IsTable`).  `GetFinds` does not say
why a search gets as far as the key: it goes on at a slot that does not match only
while the distance is below that maximum, which an `Unset` does not lower.  A grow
copies slot after slot; that the table under construction has the keys of the slots
copied so far (`IsCopy`) is an induction over slots, and a copy that fails leaves
the old table and the larger capacity to start from.

*Bitmap.*  `BitmapInv`: a bitmap is the bits that its owner set, or the complement of
the index of a vector that has these bits word by word; each vector has one owner or is
once on the stack of free indices (`PoolFits`).  `HasBits` looks only at the words within
a vector's length, and a vector that grows within its capacity gets back words from
behind it.  The invariant has them empty in a vector in use (`HasVec`), and in one out of
use all but the first (`SpareVec`), which the next user overwrites; that only trailing
empty words are cut off (`Strip`), and `~FreeLong`, are the reasons that this lasts.  An
operation is good for a variable if the bitmap and the pool that it returns would be,
with the vectors of all others as they were (`Result`), so that each operation has one
lemma and `AssignKeeps` does the rest.  `NextAscends` compares indices by word and bit
(`BitOrder`).

*Dep.*  Recursion is no obstacle where its calls are steps.  `DepInv`: elements are
numbered as they were added, also after the sort has moved them (`Entered`);
`deps` are the dependencies both ways (`Resolved`); each call of `orderHelper` under
way is for a dependency of the one before it and has not returned, and the bitmap has
these and those that returned (`CallsInv`); what returned has its dependencies
before it (`OrderInv`).  When a call returns, its dependencies have all been visited;
that none of them is still under way needs the dependencies to have no cycle
(`DepsReturned`): otherwise the calls from that one on would be a set of hooks each of
which depends on another one in it.

TLC has these invariants hold in the following numbers of states: Elog 30,102;
`OwnerInv` 414,328, `SourceInv` 2,703, `TurnInv` 65,913; `WalkInv` 7,591 and 15,156
with other nodes; `StreamInv` with `CloseInv` and a connection that may fail 46,805,
and with `CloseEarly` 78,225; FileIO with a file and a socket, for bytes written,
bytes sent and `LineSends` of (1, 1, 1) 102,942, with `Errors` 794,379 and with
`PeerEndsEarly` 237,719, for (0, 2, 2) 2,151,618, and for (0, 1, 1) with both 63,270;
BufferPool with buffers made three at a time 37,707; Dma 33,871; `HeapInv` with sizes
1 to 3 in a heap of 5, 237,953; Sparse 3,093; Pool 206; `HashInv` 6,933; `BitmapInv`
9,452; `DepInv` 246,032.

### Only model-checked

* Liveness, in every module: it is out of the prover's reach.
* Modules whose loops are recursive operators over linked lists, graphs or syntax:
  FibHeap, EventPool, ElogCodec, ParseInput, Commands, HwGenParser, HwGen and Pci.
  What a recursion computes for every input would take an induction over data.
* McTree: its operations are folds over the leaves of a tree, and a fold is a recursion
  with an operator as a parameter.

## 6. Plan

All parts with state of their own that section 1 lists have a module, and every module
but those just named has its theorems.  What could be added: a proof about `McTree`,
with the sums of `CostExact` as numbers that a split or a join changes, and the
recursions of the link surgery in FibHeap taken in steps, as Dep has that of `orderHelper`.

Runs that once were separate (`events_ownership`, `events_wait`,
`events_exclusion`; `pollers_liveness`, `events_liveness`; `fibheap`) are now
parts of `events`, `loop_liveness` and `structures`.

## 7. Not modelled, and why

* Loop statistics and commands, templates, tools, examples, formatting of any
  kind: no state that other code depends on.
* Event pollers (`RegisterEventPoller`) run user code in a loop and share no
  state with main.  Initialisation of the loop (`callInitNode`, hooks other than
  through `Dep`) runs before it.
* `iomux/kevent.go` is `epoll.go` for BSD.  Addresses, configuration and `accept`
  of sockets are system calls.
* Hash functions and the seeds they are mixed from; search over hashed pairs in
  mctree and the restore of a saved tree.
* UTF-8, reflection over argument types and strict matching of spaces in
  `parse`; help and history in `cli`.
* Comments, tracing and the text that `hwgen` prints; the meaning of PCI
  capabilities; extended capabilities, which are walked like the others.
* `Merge` of the Fibonacci heap (no caller), and the limit of its degree table:
  to pass it takes millions of elements.
* A composition of `LoopPollers` with `LoopEvents`: they meet only in
  `doEvents` returning before `doPollers` starts, which both have.
