SPECIFICATION FairSpec
CONSTANTS
    L = 2
    MaxRelations = 2
    MaxRestarts = 2
    MaxOutages = 1
    MaxScalings = 1
    MaxMoves = 2
    MayCorrupt = FALSE
    MayDepartEarly = FALSE
    N = 2
    MaxToggles = 2
    MaxRefreshes = 1
    MaxIncidents = 1
    MayRelateBoth = FALSE
    MayOverlap = FALSE
    None = None
INVARIANT Inv
PROPERTY Delivers
\* all but update_config is bounded
CHECK_DEADLOCK FALSE
