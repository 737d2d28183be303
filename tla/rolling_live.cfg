SPECIFICATION FairSpec
CONSTANTS
    N = 3
    MaxRequests = 2
    MaxCrashes = 1
    MaxElections = 0
    MaxScalings = 0
    MayDefer = FALSE
    MidHookElection = FALSE
    MayAskAgain = FALSE
PROPERTIES
    RestartHappens
    RestartsAsLocked
\* every request served: nothing left to do
CHECK_DEADLOCK FALSE
