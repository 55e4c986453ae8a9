SPECIFICATION FairSpec
CONSTANTS
    Items = {i1, i2, i3}
    Deleters = {d1, d2}
    Nothing = Nothing
    Early = {i1}
    MaxFailures = 1
CHECK_DEADLOCK FALSE
INVARIANTS FilesMatchRows
PROPERTIES ProjectFilesGo
