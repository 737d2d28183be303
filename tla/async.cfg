SPECIFICATION FairSpec
CONSTANTS
    K = 2
    MaxPromotions = 2
    MaxChanges = 1
    MaxFailures = 1
    MayRace = FALSE
INVARIANTS
    Inv
    AgreeOnPrimary
    ReadOnlyMarked
PROPERTIES
    DiscardsForAPrimary
    Settles
\* what may happen is bounded
CHECK_DEADLOCK FALSE
