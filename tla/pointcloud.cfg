SPECIFICATION FairSpec
CONSTANTS
    Requests = {r1, r2}
    f1 = f1
    f2 = f2
    p1 = p1
    p2 = p2
    las = las
    Files = {f1, f2}
    Name <- SameName
    Params = {p1, p2}
    Default = p1
    None = None
    Torn = Torn
    MaxCrashes = 1
CHECK_DEADLOCK FALSE
INVARIANTS TypeOK BlockedIsExplained CompletedIsPublished
PROPERTIES ListGrows ProcessingEnds
