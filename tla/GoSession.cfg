SPECIFICATION MCSpec
CONSTANTS
  NStrikes = 3
  RearmDrift = 1
  RearmMin = 2
  EventsCap = 2
  Key = {k1}
  NoKey = NoKey
  Session = {x1}
  NoSession = NoSession
  Sub = {s1, s2}
  NoSub = NoSub
  SendQueue = 1
  MaxCasts = 0
CHECK_DEADLOCK FALSE
INVARIANTS OneRouter QuoteHasATimer OnlyATakenAnswerHangs
PROPERTIES RearmResumes GraceEnds TeardownClosesSubscribers
