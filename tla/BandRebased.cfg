SPECIFICATION HistorySpec
CONSTANTS
  Strike <- MCStrike
  Ticks <- MCTicks
  Forward <- MCForward
  Band = 1
  Wing = 1
  Silent = Silent
  Request = {r1}
  LeadIn = 1
  MinGap = 0
  LastBar = 4
CHECK_DEADLOCK FALSE
INVARIANT ReplayIsHarmless
