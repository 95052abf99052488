SPECIFICATION Spec
CONSTANTS
    A = A
    B = B
    s = s
    x = x
    y = y
    n = n
    onA = onA
    onB = onB
    across = across
    across2 = across2
    None = None
    Tiles <- MCTiles
    Objects <- MCObjects
    Model <- MCModel
    Places <- MCPlaces
    Touch <- MCTouch
    Centre <- MCCentre
    FirstRows <- MCFirstRows
    Calls <- AllCalls
    StartupCheck = TRUE
    MaxUid = 3
    MaxEdits = 1
    MaxQueue = 1
INVARIANTS TypeOK UidsBelowHighest CountIsListed StoredOnce NothingIsLost
