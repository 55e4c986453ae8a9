SPECIFICATION FairSpec
CONSTANTS
  a1 = a1
  t1 = t1
  home = home
  Public = Public
  NoSystem = NoSystem
  NoRequest = NoRequest
  NoItem = NoItem
  Requests = {r1, r2}
  Items <- OneItem
  Tiles <- NoTiles
  Systems <- MCSystems
  ProjectSystem = home
  StartRows <- OneRow
  Serial = FALSE
  MayDeleteProject = TRUE
  MaxCrashes = 1
  MaxDeletes = 1
CHECK_DEADLOCK FALSE
INVARIANTS
  PublicMeansPublished
  OpenCheckIsExplained
PROPERTIES
  CheckCloses
