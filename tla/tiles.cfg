SPECIFICATION FairSpec
CONSTANTS
    Adders = {a1}
    Importers = {i1}
    Updaters = {u1, u2}
    Deleters = {d1}
    Plain = plain
    Styles = {plain, faint}
    None = None
    MaxAsked = 0
    MaxLosses = 1
CHECK_DEADLOCK FALSE
INVARIANTS TypeOK 
PROPERTIES NewLayerOnTop UpdateMerges TasksSettle
