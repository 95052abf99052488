SPECIFICATION FairSpec
CONSTANTS
    t1 = t1
    t2 = t2
    o = o
    r = r
    Tiles = {t1, t2}
    Objects = {o, r}
    Rows <- MCRows
    Touches <- MCTouches
    Renumbered = {r}
    MaxQueue = 2
    None = None
    Calls <- AllCalls
INVARIANTS IInv NobodyOversleeps DeletedIsGone RemovedIsGone
PROPERTIES WaitReturns
CHECK_DEADLOCK FALSE
