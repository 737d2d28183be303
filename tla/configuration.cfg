SPECIFICATION FairSpec
CONSTANTS
    N = 2
    MaxChanges = 2
    MaxIncidents = 1
    Faults = {}
INVARIANTS
    Inv
PROPERTIES
    AppliedInTheEnd
    ExtensionsInTheEnd
CHECK_DEADLOCK FALSE
