CONSTANTS
  c1 = c1
  main = main
  N = 1
  Callers <- MCCallers
  Main = main
  InterruptNodes <- MCInterruptNodes
  EventCap = 1
  CounterModulus = 16
  MaxActivations = 2
  MaxTimers = 1

SPECIFICATION MCFairSpec

PROPERTIES
  RoundsEnd
  ResumeContinues
  TimerActivates
  AddedEventRuns
  QuitEnds

\* ErrQuit ends the program, and the bounds on activations and events end the run.
CHECK_DEADLOCK FALSE
