CONSTANTS
  guard = guard
  chest = chest
  wolf = wolf
  rat = rat
  here = here
  there = there
  away = away
  near = near
  far = far
  None = None
  Spawns = {guard, chest, wolf, rat}
  KindOf <- MCKindOf
  Theirs <- MCTheirs
  Placeable <- MCPlaceable
  Places = {here, there, away}
  TileOf <- MCTileOf
  Tiles = {near}
  FirstRows <- MCFirstRows
  FirstAddons = {1}
  Base = 1
  MaxGuid = 3
  MaxSaves = 1
SPECIFICATION Spec
INVARIANTS NamesAreUnique AppliedIsComplete
PROPERTIES Reapplicable OthersSurvive PosesSurvive NothingIsLost
CHECK_DEADLOCK FALSE
