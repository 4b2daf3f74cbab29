CONSTANTS
  H = 1
  MaxEvents = 3
  EventsCap = 1
  RxCap = 1
  PoolReuse = TRUE
  Sources = {"outside", "timed", "interrupt", "handler", "panic", "main", "poller", "quit"}

SPECIFICATION MCSpec

INVARIANTS
  OneOwner
  WaitHasSource
  UntimedExcludePolling

\* ErrQuit ends the program, and the bound on events ends the run.
CHECK_DEADLOCK FALSE
