SPECIFICATION Spec
CONSTANTS
  p1 = p1
  p2 = p2
  plain = plain
  many = many
  photo = photo
  NoProject = NoProject
  NoFile = NoFile
  Workers = {w1, w2}
  Projects = {p1}
  Files <- TwoFiles
  Owner <- OwnTwo
  Rapp = {photo}
  Collections = {many}
  Poison = {photo}
  Overlap = TRUE
  MayDelete = TRUE
  MaxCrashes = 1
  MaxStranded = 1
SYMMETRY WorkerSymmetry
CHECK_DEADLOCK FALSE
INVARIANTS
  FeaturesAccounted
  PlaceholdersExplained
