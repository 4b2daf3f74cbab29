CONSTANTS
  N = 4
  MaxVectorLen = 3
  MaxRounds = 2
  AnyIndex = FALSE
  Sizes = {1, 3}
  Aligns = {1, 2}
  maxLen = 6
  MaxBuffers = 5
  Chunk = 5
  MaxWant = 2
  AppendChains = FALSE
  Threads = {thread1}
  MemSize = 8
  MinChunk = 2
  MaxPages = 3
  CacheLine = 1
  Wants = {2, 3}
  LineAligns = {1, 2}
  OneAllocator = TRUE
  Keys = {k1, k2, k3, k4}
  NoElt = absent
  Bases = {0, 1}
  MaxCap = 40
  Hooks = {h1, h2, h3}
  OrderValues = {0, 1}
  AddLater = FALSE
  absent = absent
  t1 = t1
  t2 = t2
  bits1 = bits1
  bits2 = bits2
  d1 = d1
  d2 = d2

SPECIFICATION MCSpec

\* The call graph stops after MaxRounds rounds, a log after MaxEvents events, an
\* input after MaxCalls calls, a register description and a bus when they are done.
CHECK_DEADLOCK FALSE

VIEW MCView

INVARIANTS
  CallsSound
  RoutesAgree
  FibSound
  HeapSound
  BuffersSound
  GetFinds
  IndexesSound
  OrderRespectsDeps
  McTreeSound
  CommandsAgree
  
  HwParseExact
  HwLayout
  PciSound
  DmaSound

PROPERTIES
  TimedQueueSpec
  RegionsSpec
  McTreeBest
  ParseAtomic
