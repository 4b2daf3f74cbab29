CONSTANTS
  H = 1
  MaxEvents = 3
  EventsCap = 3
  RxCap = 3
  PoolReuse = TRUE
  Sources = {"outside"}

SPECIFICATION FairSpec

PROPERTIES
  AddedEventRuns

\* ErrQuit ends the program, and the bound on events ends the run.
CHECK_DEADLOCK FALSE
