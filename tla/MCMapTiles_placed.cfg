SPECIFICATION Spec
CONSTANTS
    Tiles = {t1, t2}
    Missing = {}
    NoTile = NoTile
    MaxPending = 1
    Calls = {"stream", "place"}
PROPERTIES UserEditKept
