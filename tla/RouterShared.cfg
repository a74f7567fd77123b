SPECIFICATION FairSpec
CONSTANTS
  Session = {r1, r2}
  NFeeds = 2
  Base = 1
  MaxCooldown = 1
  MaxFailures = 2
  RawCap = 1
CHECK_DEADLOCK FALSE
INVARIANTS OneSubscription
PROPERTIES OnlyFailuresPark CancelEndsTheRun
