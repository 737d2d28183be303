SPECIFICATION FairSpec
CONSTANTS
    N = 3
    MaxRefreshes = 2
    MaxFailures = 1
    MaxRestarts = 1
    MaxElections = 1
    MayRepeat = FALSE
    MayDefer = TRUE
INVARIANTS
    TypeOK
PROPERTIES
    PodsInTurn
    PrimaryLast
    IdleAgain
    UpgradeEnds
\* the upgrades are bounded
CHECK_DEADLOCK FALSE
