SPECIFICATION FairSpec
CONSTANTS
    Tiles = {t1, m}
    Missing = {m}
    NoTile = NoTile
    MaxPending = 2
    Calls <- AllCalls
PROPERTIES SaveReturns
