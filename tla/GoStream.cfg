SPECIFICATION MCSpec
CONSTANTS
  OutCap = 1
  Silence = 1
  Min = 1
  Max = 2
  MaxAttempt = 2
  MaxStrays = 1
  Conn = {c1}
  MaxPoints = 4
  ReplayCap = 1
  ReplayJoin = 2
  QueueCap = 2
  WritesCap = 2
CHECK_DEADLOCK FALSE
INVARIANTS ChildIsWatched NoHole
PROPERTIES ImplementsSource SilentIsEnded EveryPointArrives
