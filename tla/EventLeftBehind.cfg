CONSTANTS
  H = 1
  MaxEvents = 5
  EventsCap = 1
  RxCap = 5
  PoolReuse = FALSE
  Sources = {"poller"}

SPECIFICATION FairSpec

PROPERTIES
  AddedEventRuns

\* ErrQuit ends the program, and the bound on events ends the run.
CHECK_DEADLOCK FALSE
