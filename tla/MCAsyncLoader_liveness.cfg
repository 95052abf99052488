CONSTANTS
  Objects = {o1, o2}
  Urgent = {o1}
  Workers = {w1, w2}
  Clients = {c1, c2}
  Required = {o1}
  Fallible = {}
  MaxCreated = 3
  Priority <- MCPriority
  NoThread = NoThread
  NoObject = NoObject
SPECIFICATION FairSpec
PROPERTIES
  QueueDrains
  BlockedWaitersReturn
  EnsureReturns
  ShutdownJoins
CHECK_DEADLOCK FALSE
