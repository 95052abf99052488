SPECIFICATION Spec
CONSTANTS
    Tiles = {t1, t2}
    Missing = {}
    NoTile = NoTile
    MaxPending = 1
    Calls <- AllCalls
SYMMETRY TileSymmetry
INVARIANTS IInv ScopeIsAlive OnDiscHasFile
PROPERTIES EditsKept SavedMeansOnDisk
