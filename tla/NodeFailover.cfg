SPECIFICATION MCSpec
CONSTANTS
  NFeeds = 2
  c1 = c1
  p1 = p1
  l1 = l1
  l2 = l2
  l3 = l3
  NoLogin = NoLogin
  Caller <- MCCaller
  Prober <- MCProber
  Code <- MCCode
  Needs <- MCNeeds
  Login <- MCLogin
  Threshold = 1
  Cooldown = 1
  CooldownMax = 1
  Ladder <- MCLadder
  Streams = {1}
  MaxOuts = 1
  Kind = {"angel", "kotak", "zerodha", "orders"}
  Socket = {s1, s2, s3}
  NoSocket = NoSocket
  ReauthAfter = 2
  Tab = {t1, t2}
  Key = {k1, k2}
  NoKey = NoKey
  Topic = {1, 2}
  MaxSubscribes = 3
INVARIANTS SlotHasAHolder OneLogin OneWayForward TopicsAreCurrent
PROPERTIES ParkedIsProbed RefusedIsRenewed
CHECK_DEADLOCK FALSE
