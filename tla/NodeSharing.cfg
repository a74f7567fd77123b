SPECIFICATION MCSpec
CONSTANTS
  Key = {k1, k2}
  NoKey = NoKey
  Session = {x1, x2, x3}
  NoSession = NoSession
  Client = {c1, c2}
  d1 = d1
  d2 = d2
  w1 = w1
  Entry = {e1, e2}
  None = None
  Idle = 1
  Socket = {s1, s2, s3, s4, s5}
  Holder <- MCHolder
  Desk <- MCDesk
  NoSocket = NoSocket
  MaxFaults = 3
CHECK_DEADLOCK FALSE
INVARIANTS ProcessIsOwned SilentForAReason DeskIsReachable
PROPERTIES UnwatchedIsReleased UnusedIsStopped WantedIsFed LeftIsLeft
