CONSTANTS
  H = 1
  MaxEvents = 2
  EventsCap = 2
  RxCap = 2
  PoolReuse = FALSE
  Sources = {"timed", "outside"}

SPECIFICATION Spec

INVARIANTS
  HandlersExcludePolling

\* ErrQuit ends the program, and the bound on events ends the run.
CHECK_DEADLOCK FALSE
