CONSTANTS
  c1 = c1
  main = main
  N = 1
  Callers <- MCCallers
  Main = main
  InterruptNodes <- MCInterruptNodes
  EventCap = 1
  CounterModulus = 16
  MaxActivations = 2
  MaxTimers = 1

SPECIFICATION FairSpec

PROPERTY ActivateWakesMain


\* ErrQuit ends the program.
CHECK_DEADLOCK FALSE
