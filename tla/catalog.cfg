SPECIFICATION FairSpec
CONSTANTS
    Maps = {m1, m2}
    home = home
    away = away
    dir = dir
    den = den
    Spots <- TwoSpots
    DirOf <- TwoDirs
    Asks <- Asked
    m1 = m1
    m2 = m2
    Designsafe = {dir}
    Nobody = Nobody
    MaxFailures = 1
CHECK_DEADLOCK FALSE
INVARIANTS CatalogConsistent WatchersAreAlone
PROPERTIES DeletionEnds
