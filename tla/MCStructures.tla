---------------------------- MODULE MCStructures ----------------------------
(***************************************************************************)
(* Small instances of the modules whose programs run in one goroutine: the *)
(* call graph, the containers, the match tree, the text and event formats, *)
(* the register generator and the devices.  A behaviour is one of one      *)
(* module, named by part, and the variables of the others keep their       *)
(* initial values.                                                         *)
(***************************************************************************)
EXTENDS CallGraph, Heap, BufferPool, Dma, Hash, Dep, TLC

CONSTANTS absent, t1, t2, bits1, bits2, d1, d2

VARIABLES
  part,
  fibNodes, key, live,                                         \* FibHeap
  timedEvents, slotsFree, fibheap, inHeap, expired,            \* EventPool
  valid, count, members, dense,                                \* Sparse
  freeIndices, freeBitmap, poolLen, types, data, heldObjs,     \* Pool
  bitmaps, bitmapsFree, value, want,                           \* Bitmap
  nodes, vecs, pairs, root, cost, nSteps, cur, panicked,       \* McTree
  cmds, ran,                                                   \* Commands
  writer, reader, view, wire, cut, got,                        \* ElogCodec
  text, in, whole, last, calls,                                \* ParseInput
  hwInput, hwParser, hwDecls, hwPhase, hwUnit, hwTodo,         \* HwGen
  drivers, asked, nCalls, bus, pciTodo, resources, opened, dmaHeap, result,
  capChain, answer                                             \* Pci

fibVars == <<fibNodes, key, live>>
timedVars == <<timedEvents, slotsFree, fibheap, inHeap, expired>>
sparseVars == <<valid, count, members, dense>>
poolVars == <<freeIndices, freeBitmap, poolLen, types, data, heldObjs>>
bitmapVars == <<bitmaps, bitmapsFree, value, want>>
treeVars == <<nodes, vecs, pairs, root, cost, nSteps, cur, panicked>>
cliVars == <<cmds, ran>>
savedVars == <<writer, reader, view, wire, cut, got>>
parseVars == <<text, in, whole, last, calls>>
hwVars == <<hwInput, hwParser, hwDecls, hwPhase, hwUnit, hwTodo>>
pciVars == <<drivers, asked, nCalls, bus, pciTodo, resources, opened, dmaHeap, result,
             capChain, answer>>

MatchKeys == LET X == 2 IN {<<0, X, 1>>, <<X, 0, X>>, <<1, 1, X>>}
CommandWords == {<<1>>, <<1, 1>>, <<1, 2>>, <<2>>}
Samples == INSTANCE ParseSamples
HwSamples == INSTANCE HwGenSamples
PciSamples == INSTANCE PciSamples

Fib == INSTANCE FibHeap WITH Nodes <- 1..5, Keys <- {1, 2}, heap <- fibNodes
BigFib == INSTANCE FibHeap WITH Nodes <- 1..16, Keys <- {1, 2}, heap <- fibNodes
Timed == INSTANCE EventPool WITH MaxSlots <- 4, Times <- {1, 2},
           events <- timedEvents, freeIndices <- slotsFree, out <- expired
SparseArray == INSTANCE Sparse WITH WordBits <- 2, MaxWords <- 4
Objects == INSTANCE Pool WITH Types <- {0, 1, 2}, MaxLens <- {0, 2}, MaxObjs <- 4, held <- heldObjs,
             maxLen <- poolLen
Bits == INSTANCE Bitmap WITH WordBits <- 3, MaxWords <- 3, Bits <- {1, 2, 3, 8}, Names <- {bits1, bits2},
          FreeLong <- FALSE, Combine <- FALSE, NextResizeCap <- [l \in 1..3 |-> 8], freeIndices <- bitmapsFree
Tree == INSTANCE McTree WITH Keys <- MatchKeys, W <- 3, MaxLeafs <- 3, MinPairs <- 1,
          RestartAfter <- 2, ReAdd <- FALSE
Cli == INSTANCE Commands WITH Words <- CommandWords, MaxWords <- 2, MaxCmds <- 3
Saved == INSTANCE ElogCodec WITH Types <- {t1, t2}, TimeModulus <- 4, Times <- {1, 3},
           Tracks <- {0, 1}, MaxEvents <- 2, Units <- {0, 2}, CpuUnit <- 1,
           StartTimes <- {1, 2, 3}, Unwritable <- {2}, Unreadable <- {3}
Input == INSTANCE ParseInput WITH Texts <- Samples!SampleTexts, Formats <- Samples!SampleFormats,
           Word <- 64, IntLimit <- 32, MaxCalls <- 2

Hw == INSTANCE HwGen WITH
        Idents <- HwSamples!SampleIdents, UintNames <- DOMAIN HwSamples!SampleUints,
        Ints <- DOMAIN HwSamples!SampleInts, IntValue <- HwSamples!SampleInts,
        UintSize <- HwSamples!SampleUints, Word <- 1024, OddFields <- FALSE,
        Inputs <- HwSamples!SampleFiles \cup HwSamples!RegisterFiles,
        input <- hwInput, p <- hwParser, decls <- hwDecls, phase <- hwPhase, m <- hwUnit,
        todo <- hwTodo
Devices == INSTANCE Pci WITH
        Vendors <- {"v", "w"}, Products <- {"p", "q"}, Drivers <- {d1, d2}, None <- absent,
        Buses <- PciSamples!SampleBuses, NumBars <- 3, OddBars <- FALSE,
        FirstCap <- 4, Ones <- 15,
        Chains <- PciSamples!SampleChains, Calls <- PciSamples!SampleCalls, MaxCalls <- 2,
        todo <- pciTodo, dma <- dmaHeap, chain <- capChain

ASSUME Assumptions ==
  /\ Fib!NodesAssumption /\ Fib!KeysAssumption /\ Timed!EventPoolAssumption
  /\ HeapAssumption /\ BufferAssumption /\ HashAssumption /\ BucketsFit
  /\ SparseArray!SparseAssumption /\ Objects!PoolAssumption /\ Bits!BitmapAssumption
  /\ Bits!IndexFits
  /\ DepAssumption /\ Tree!McTreeAssumption /\ Input!LimitAssumption
  /\ Hw!HwGenParserAssumption /\ Hw!HwGenAssumption /\ Devices!PciAssumption
  /\ DmaAssumption

-----------------------------------------------------------------------------

Parts == {"calls", "fib", "cuts", "timed", "heap", "buffers", "hash", "sparse", "pool", "bitmap",
          "dep", "tree", "cli", "saved", "parse", "hwgen", "pci", "dma"}

\* Where Init leaves a choice, the other parts take one of its states
Idle(p, state) == part # p => state

NoHooks == /\ Deps = {} /\ AntiDeps = {} /\ Order = [h \in Hooks |-> 0]
           /\ index = [h \in Hooks |-> 0] /\ deps = [h \in Hooks |-> {}]
           /\ hooks = <<>> /\ order = <<>> /\ isOrdered = FALSE
           /\ doing = "idle" /\ placed = 0 /\ seen = {} /\ helperCalls = <<>>

\* Hooks are only names: dependencies, which have no cycle, lead down one order of them
Rank == CHOOSE r \in [Hooks -> 1..Cardinality(Hooks)] : IsInjective(r)
Down == {p \in Hooks \X Hooks : Rank[p[1]] > Rank[p[2]]}
DepsLeadDown == Deps \in SUBSET Down /\ AntiDeps \in SUBSET {<<p[2], p[1]>> : p \in Down}

NoFile == hwInput = <<>> /\ hwParser = absent /\ hwDecls = <<>> /\ hwPhase = "none"
          /\ hwUnit = absent /\ hwTodo = <<>>
FirstBus == CHOOSE b \in PciSamples!SampleBuses : \A k \in DOMAIN b : ~Devices!Odd(b[k].bars)
FirstChain == CHOOSE c \in PciSamples!SampleChains : TRUE

\* What is left of 16 calls of Add and one of Min: a tree in which a node two levels down
\* has two children to lose, and its parent two as well
CutsInit ==
  LET added[i \in 0..16] == IF i = 0 THEN BigFib!Empty ELSE BigFib!HeapAdd(added[i - 1], i)
  IN /\ live = 1..16 /\ key = [x \in 1..16 |-> 2]
     /\ fibNodes = BigFib!HeapMin(added[16], key)

MCInit ==
  /\ part \in Parts
  /\ Init /\ Timed!Init /\ HeapInit /\ BuffersInit /\ HashInit
  /\ SparseArray!Init /\ Bits!BitmapInit /\ Cli!Init
  /\ Objects!Init /\ Idle("pool", poolLen = 0)
  /\ Tree!Init /\ Idle("tree", nodes[0].bit = 0)
  /\ Saved!Init
  /\ (view.unit = 0 /\ view.startTime = 1) \/ reader = <<t2, t1>>  \* bound
  /\ Idle("saved", /\ writer = <<t1, t2>> /\ reader = <<>> /\ view.cpuStartTime = 1
                              /\ view.unit = 0 /\ view.startTime = 1)
  /\ Input!Init /\ Idle("parse", text = <<>>)
  /\ Devices!Init
  /\ bus = FirstBus \/ capChain = FirstChain  \* bound
  /\ Idle("pci", bus = FirstBus /\ capChain = FirstChain)
  /\ DmaInit
  /\ IF part = "cuts" THEN CutsInit ELSE Fib!Init
  /\ IF part = "dep" THEN DepsLeadDown /\ DepInit ELSE NoHooks
  /\ IF part = "hwgen" THEN Hw!HwInit ELSE NoFile

\* The indices of a heap are only names: a caller takes the lowest that is free
FibNext == /\ Fib!Next
           /\ \A x \in live' \ live : \A y \in 1..x : y \in live'

\* Bound: three elements are taken out, or the third is updated, and then Min is called
MaxCuts == 3
CutsNext ==
  LET cuts == 16 - Cardinality(live) + Cardinality({x \in live : key[x] = 1})
  IN \/ cuts < MaxCuts /\ \E x \in 1..16 : BigFib!Del(x)
     \/ cuts = MaxCuts - 1 /\ \E x \in 1..16 : BigFib!Update(x, 1)
     \/ cuts = MaxCuts /\ BigFib!Min

MCNext ==
  /\ UNCHANGED part
  /\ IF part = "calls" THEN Next ELSE UNCHANGED vars
  /\ CASE part = "fib" -> FibNext
       [] part = "cuts" -> CutsNext
       [] OTHER -> UNCHANGED fibVars
  /\ IF part = "timed" THEN Timed!Next ELSE UNCHANGED timedVars
  /\ IF part = "heap" THEN HeapNext ELSE UNCHANGED heapVars
  /\ IF part = "buffers" THEN BuffersNext ELSE UNCHANGED bufferVars
  /\ IF part = "hash" THEN HashNext ELSE UNCHANGED hashVars
  /\ IF part = "sparse" THEN SparseArray!Next ELSE UNCHANGED sparseVars
  /\ IF part = "pool" THEN Objects!Next ELSE UNCHANGED poolVars
  /\ IF part = "bitmap" THEN Bits!BitmapNext ELSE UNCHANGED bitmapVars
  /\ IF part = "dep" THEN DepNext ELSE UNCHANGED depVars
  /\ IF part = "tree" THEN Tree!Next ELSE UNCHANGED treeVars
  /\ IF part = "cli" THEN Cli!Next ELSE UNCHANGED cliVars
  /\ IF part = "saved" THEN Saved!Next ELSE UNCHANGED savedVars
  /\ IF part = "parse" THEN Input!Next ELSE UNCHANGED parseVars
  /\ IF part = "hwgen" THEN Hw!HwNext ELSE UNCHANGED hwVars
  /\ IF part = "pci" THEN Devices!Next ELSE UNCHANGED pciVars
  /\ IF part = "dma" THEN DmaNext ELSE UNCHANGED dmaVars

allVars == <<part, vars, fibVars, timedVars, heapVars, bufferVars, hashVars, sparseVars, poolVars,
             bitmapVars, depVars, treeVars, cliVars, savedVars, parseVars, hwVars, pciVars,
             dmaVars>>

MCSpec == MCInit /\ [][MCNext]_allVars

-----------------------------------------------------------------------------
(* Two states are the same if they differ only in what the part does not    *)
(* read before it writes it: links of an index that is not in a heap, the   *)
(* minimum of one without a valid minimum, and the events of free slots.    *)

Linked(h, in_) ==
  LET of(f, S) == [x \in S |-> f[x]]
      linked == in_ \cup {Fib!Root}
  IN <<in_, of(h.next, linked), of(h.prev, linked), of(h.sup, in_), of(h.sub, in_),
       of(h.nSub, in_), of(h.isMarked, in_), h.minValid, IF h.minValid THEN h.minIndex ELSE Nil>>

\* allVars = allVars has TLC evaluate every function of the state before it stores it
MCView ==
  <<part, allVars = allVars,
    CASE part = "calls" -> vars
      [] part = "fib" -> IF Fib!WellFormed THEN Fib!Shape(Fib!Root) ELSE Linked(fibNodes, live)
      [] part = "cuts" -> IF BigFib!WellFormed THEN BigFib!Shape(BigFib!Root) ELSE Linked(fibNodes, live)
      [] part = "timed" -> <<Linked(fibheap, inHeap), [x \in inHeap |-> timedEvents[x]],
                             Len(timedEvents), slotsFree, expired>>
      [] part = "heap" -> IF Tiled /\ Lent THEN Shape ELSE heapVars
      [] part = "buffers" -> bufferVars
      [] part = "hash" -> hashVars
      [] part = "sparse" -> sparseVars
      [] part = "pool" -> poolVars
      [] part = "bitmap" -> bitmapVars
      [] part = "dep" -> depVars
      [] part = "tree" -> Tree!Shape
      [] part = "cli" -> cliVars
      [] part = "saved" -> savedVars
      [] part = "parse" -> parseVars
      [] part = "hwgen" -> hwVars
      [] part = "pci" -> pciVars
      [] part = "dma" -> dmaVars>>

-----------------------------------------------------------------------------
(* The properties, each of them of one module *)

\* CallsSound and RoutesAgree are those of CallGraph, HeapSound and RegionsSpec of Heap,
\* BuffersSound of BufferPool, DmaSound of Dma, GetFinds of Hash and OrderRespectsDeps of Dep

\* WellFormed and MinCorrect of FibHeap: the links of the Fibonacci heap are those of
\* its trees, and Min answers with a least element (fibheap.go).
FibSound == /\ part = "fib" => Fib!TypeOK /\ Fib!WellFormed /\ Fib!MinCorrect
            /\ part = "cuts" => BigFib!TypeOK /\ BigFib!WellFormed /\ BigFib!MinCorrect

\* QueueSpec of EventPool: event/event.go implements the abstract TimedQueue.
TimedQueueSpec == Timed!QueueSpec

\* DenseIsRank of Sparse, FreeOrHeld and ObjectsKept of Pool, HasBits and NextAscends of
\* Bitmap: a dense index is the rank of the sparse one, an index of a pool is either free
\* once or held once, an object keeps its type and data while it is held, and a bitmap has
\* the bits that were put there, inline or in the pool (sparse.go, pool.go, typed_pool.go,
\* bitmap.go).
IndexesSound == /\ part = "sparse" => SparseArray!DenseIsRank
                /\ part = "pool" => Objects!FreeOrHeld /\ Objects!ObjectsKept
                /\ part = "bitmap" => Bits!HasBits /\ Bits!NextAscends

\* LeavesExact, ReferencesExact, CostExact and NoPanic of McTree (mctree.go).
McTreeSound ==
  part = "tree" => Tree!LeavesExact /\ Tree!ReferencesExact /\ Tree!CostExact /\ Tree!NoPanic

\* BestImproves of McTree: annealing never makes the tree in use worse (mctree.go).
McTreeBest == Tree!BestImproves

\* AbbreviationsAgree of Commands: the command that an abbreviation runs (cli/cli.go).
CommandsAgree == part = "cli" => Cli!TypeOK /\ Cli!AbbreviationsAgree


\* ParseAtomic of ParseInput: a Parse that fails leaves the input where it was
\* (parse/parse.go).
ParseAtomic == Input!ParseAtomic

\* ParseFileExact, TreesBind and ParseProgress of HwGenParser: a register description
\* without errors is one of the language, with the trees that precedence asks for and every
\* name bound to its declaration; any other has errors, and the parser never stays where it
\* is (hw/hwgen/parse.go).
HwParseExact ==
  part = "hwgen" => Hw!ParseFileExact /\ Hw!TreesBind /\ Hw!ParseProgress

\* PlacedAsWritten, GetReadsSet and StructsPlaced of HwGen: the members of a bit field are at
\* the bits that its declaration says, what the generated Set of one writes its Get reads and
\* that of no other does, and the Go struct has its fields at the offsets of the registers
\* (hw/hwgen/hwgen.go).
HwLayout == part = "hwgen" => Hw!PlacedAsWritten /\ Hw!GetReadsSet /\ Hw!StructsPlaced

\* FirstDriverOpens, ResourcesExact and CapFound of Pci: a device is opened by the driver
\* that was first to ask for it, with the resources its base address registers name, and a
\* capability is found if the list that was read of the device has it (hw/pci).
PciSound ==
  part = "pci" => Devices!FirstDriverOpens /\ Devices!ResourcesExact /\ Devices!CapFound

=============================================================================
