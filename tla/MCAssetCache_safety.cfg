CONSTANTS
  Objects = {o1, o2}
  Urgent = {o1}
  Workers = {w1, w2}
  Clients = {c1, c2}
  Required = {}
  Fallible = {o1}
  MaxCreated = 4
  Priority <- MCPriority
  NoThread = NoThread
  NoObject = NoObject
  Keys = {k1, k2}
  Handles = {h1, h2, h3}
  NoKey = NoKey
SPECIFICATION FairCacheSpec
INVARIANTS
  CacheIInv
  ReferencesAreAlive
PROPERTIES
  UsesContract
  AssetsLoad
CHECK_DEADLOCK FALSE
