SPECIFICATION FairSpec
CONSTANTS
    K = 2
    MaxRounds = 2
    MaxChanges = 3
    MaxBackups = 1
    MaxIncidents = 1
    MayRush = FALSE
    MayLinger = TRUE
INVARIANTS
    Inv
    RoundOutcome
    NoNewDatabase
PROPERTIES
    TimelineOfTarget
    BothEnd
\* what may happen is bounded
CHECK_DEADLOCK FALSE
