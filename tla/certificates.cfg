SPECIFICATION FairSpec
CONSTANTS
    MaxRequests = 5
    MaxIncidents = 3
    MayBoth = FALSE
    MayOvertake = FALSE
    MayRevokeMidway = FALSE
    MayRestartMidway = FALSE
INVARIANTS
    Inv
PROPERTIES
    Settles
    StaysOn
\* what may happen is bounded
CHECK_DEADLOCK FALSE
