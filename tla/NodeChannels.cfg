SPECIFICATION MCSpec
CONSTANTS
  NFeeds = 2
  c1 = c1
  c2 = c2
  k1 = k1
  k2 = k2
  w1 = w1
  w2 = w2
  v1 = v1
  r1 = r1
  r2 = r2
  Silent = Silent
  LeadIn = 1
  MinGap = 0
  LastBar = 4
  Nowhere = Nowhere
  MaxCrashes = 1
  NoStream = NoStream
  Consumer <- MCConsumer
  Contract <- MCContract
  Covers <- MCCovers
  Replacing <- MCReplacing
  Stream <- MCStream
  Key <- MCKey
  Conv <- MCConv
  Call <- MCCall
  Request <- MCCall
  Strike <- MCStrike
  Ticks <- MCTicks
  Forward <- MCForward
  Band = 1
  Wing = 1
CHECK_DEADLOCK FALSE
SYMMETRY MCSymmetry
INVARIANTS NoStreamLeak InLine WantedIsHeld EveryHandleIsOwned CaughtUpIsComputed EveryRollIsMarked
PROPERTIES MakeBeforeBreak
