SPECIFICATION FairSpec
CONSTANTS
    Tasks = {t1}
    Pages = {g1}
    Logins = {l1}
    Visits = {v1}
    Nobody = Nobody
    MaxTokens = 3
    MaxLosses = 1
CHECK_DEADLOCK FALSE
INVARIANTS TokensConsistent RefreshGoesForward
PROPERTIES RefreshIsAtomic PagesRefreshOnce LockReleased
