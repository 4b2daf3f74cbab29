CONSTANTS
  Files = {f}
  Sockets = {}
  Nil = Nil
  MaxWritten = 1
  MaxSent = 1
  SockCap = 1
  LineSends = 1
  PeerEndsEarly = FALSE
  Errors = FALSE

SPECIFICATION Spec

\* Files, callers and the peer stop after a bounded number of bytes.
CHECK_DEADLOCK FALSE

INVARIANT NoPanic
