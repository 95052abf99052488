SPECIFICATION Spec
CONSTANTS
    terrain = terrain
    layers = layers
    here = here
    there = there
    low = low
    high = high
    None = None
    Cells = {terrain, layers}
    NoRedo = {layers}
    Values = {low, high}
    Spots = {here, there}
    Loaded <- MCLoaded
    Limit = 2
    MaxUid = 3
    MaxEdits = 3
SYMMETRY Symmetry
INVARIANTS IInv CellsAreRestored ObjectsAreRestored
