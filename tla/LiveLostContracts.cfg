SPECIFICATION Spec
CONSTANTS
  NFeeds = 2
  c1 = c1
  c2 = c2
  k1 = k1
  k2 = k2
  NoStream = NoStream
  Consumer <- MCConsumer
  Contract <- MCContract
  Covers <- MCCovers
  Replacing <- MCReplacing
  Stream <- MCStream
INVARIANT ContractsPickedUp
CHECK_DEADLOCK FALSE
