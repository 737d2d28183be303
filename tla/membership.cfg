SPECIFICATION FairSpec
CONSTANTS
    N = 2
    Start = 1
    Policy = Majority
    All = All
    Majority = Majority
    MaxFailures = 0
    MaxCrashes = 0
    MaxElections = 0
    MaxScalings = 2
    MaxDeaths = 1
    MayElectEarly = FALSE
    MayRelease = TRUE
INVARIANT Inv
PROPERTIES
    SyncFits
    Converges
\* the scalings and deaths are bounded
CHECK_DEADLOCK FALSE
