CONSTANTS
  Objects = {o1, o2, o3}
  Urgent = {o1}
  Workers = {w1, w2}
  Clients = {c1, c2}
  Required = {o1}
  Fallible = {o1}
  MaxCreated = 4
  Priority <- MCPriority
  NoThread = NoThread
  NoObject = NoObject
SPECIFICATION Spec
SYMMETRY ThreadSymmetry
INVARIANTS
  IInv
  DeletableIsReleased
PROPERTIES
  KeepsContract
CHECK_DEADLOCK FALSE
