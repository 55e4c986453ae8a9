SPECIFICATION FairSpec
CONSTANTS
    Visits = {v1, v2}
    Conversions = {c1, c2}
    Old = Old
    Nothing = Nothing
    MaxUpsets = 1
CHECK_DEADLOCK FALSE
INVARIANTS StreetviewConsistent
PROPERTIES ReadersSpareTokens ConversionsSettle
