SPECIFICATION HubSpec
CONSTANTS
  Key = {k1}
  NoKey = NoKey
  Session = {x1}
  NoSession = NoSession
  Sub = {s1, s2}
  NoSub = NoSub
  SendQueue = 1
  MaxCasts = 1
  NStrikes = 2
  Band = 1
  Price = {1}
  Metered <- MCMetered
  Interval = 1
  MaxTime = 1
  MaxVolume = 1
  MaxPoints = 2
CHECK_DEADLOCK FALSE
INVARIANT LeavingIsSafe
