CONSTANTS
  f1 = f1
  index = index
  dbc = dbc
  Files = {f1, index, dbc}
  DBCs = {dbc}
  Indexes = {index}
  MaxSaves = 3
SPECIFICATION FairSpec
INVARIANTS IInv ConfirmedIsOnDisk
PROPERTIES Atomic FailuresAreShown
