SPECIFICATION Spec
CONSTANTS
  a1 = a1
  t1 = t1
  home = home
  Public = Public
  NoSystem = NoSystem
  NoRequest = NoRequest
  NoItem = NoItem
  Requests = {r1, r2}
  Items <- MCItems
  Tiles <- MCTiles
  Systems <- MCSystems
  ProjectSystem = home
  StartRows <- AllRows
  Serial = TRUE
  MayDeleteProject = TRUE
  MaxCrashes = 1
  MaxDeletes = 1
SYMMETRY RequestSymmetry
CHECK_DEADLOCK FALSE
INVARIANTS
  MovesAreWhole
  FlagMatchesSystem
  CountsAddUp
PROPERTIES
  PublicSticks
  RefreshesTakeTurns
