CONSTANTS
  Writers = {w1, w2}
  Controllers = {c1, c2}
  Cap = 2
  MaxEvents = 3
  MaxCalls = 2
  FrameLens = {1, 2}
  MaxBytes <- StreamBytes
  ReadMax = 4
  ArrayCap = 4
  RxCap = 1
  RecycleCap = 1
  Reads = {1}
  CloseEarly = FALSE
  ConnFails = TRUE
  file = file
  socket = socket
  Nil = Nil

SPECIFICATION MCFairSpec

\* Writers, callers and peers stop after a bounded number of events, calls and bytes.
CHECK_DEADLOCK FALSE

INVARIANTS
  ElogSafe
  QuietViewExact
  FilesSafe
  SrpcSafe

PROPERTIES
  CallsReturn
  AllSent
  AllRead
