SPECIFICATION Spec
CONSTANTS
  p1 = p1
  p2 = p2
  plain = plain
  many = many
  photo = photo
  NoProject = NoProject
  NoFile = NoFile
  Workers = {w1}
  Projects = {p1, p2}
  Files <- PlainFiles
  Owner <- OwnBoth
  Rapp = {}
  Collections = {many}
  Poison = {many}
  Overlap = FALSE
  MayDelete = FALSE
  MaxCrashes = 0
  MaxStranded = 1
CHECK_DEADLOCK FALSE
PROPERTIES
  PassGoesOn
