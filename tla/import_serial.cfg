SPECIFICATION FairSpec
CONSTANTS
  p1 = p1
  p2 = p2
  plain = plain
  many = many
  photo = photo
  NoProject = NoProject
  NoFile = NoFile
  Workers = {w1}
  Projects = {p1, p2}
  Files <- ThreeFiles
  Owner <- OwnAll
  Rapp = {photo}
  Collections = {many}
  Poison = {photo}
  Overlap = FALSE
  MayDelete = TRUE
  MaxCrashes = 0
  MaxStranded = 1
CHECK_DEADLOCK FALSE
PROPERTIES
  
  ImportsOnce
  
