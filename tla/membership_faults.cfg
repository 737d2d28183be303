SPECIFICATION Spec
CONSTANTS
    N = 2
    Start = 2
    Policy = All
    All = All
    Majority = Majority
    MaxFailures = 0
    MaxCrashes = 1
    MaxElections = 1
    MaxScalings = 0
    MaxDeaths = 1
    MayElectEarly = FALSE
    MayRelease = TRUE
INVARIANT OneSystem
\* the elections, deaths and crashes are bounded
CHECK_DEADLOCK FALSE
