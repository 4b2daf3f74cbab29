CONSTANTS
  H = 1
  MaxEvents = 3
  EventsCap = 1
  RxCap = 3
  PoolReuse = FALSE
  Sources = {"outside", "handler"}

SPECIFICATION FairSpec

PROPERTIES
  AddedEventRuns

\* ErrQuit ends the program, and the bound on events ends the run.
CHECK_DEADLOCK FALSE
