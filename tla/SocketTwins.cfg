SPECIFICATION Spec
CONSTANTS
  Key = {k1}
  NoKey = NoKey
  Session = {x1, x2, x3}
  NoSession = NoSession
  Client = {c1, c2}
CHECK_DEADLOCK FALSE
INVARIANT OneEnginePerContract
