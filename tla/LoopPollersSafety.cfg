CONSTANTS
  c1 = c1
  main = main
  N = 2
  Callers <- MCCallers
  Main = main
  InterruptNodes = {}
  EventCap = 1
  CounterModulus = 2
  MaxActivations = 2
  MaxTimers = 1

SPECIFICATION MCSpec

VIEW MCView

INVARIANTS
  IInv
  EventsExcludePolling
  NeverBlockWhenPolling
  HandoverHasRoom
  SuspendHonoured

PROPERTY TurnsSpec

\* ErrQuit ends the program.
CHECK_DEADLOCK FALSE
