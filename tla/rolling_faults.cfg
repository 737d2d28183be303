SPECIFICATION Spec
CONSTANTS
    N = 2
    MaxRequests = 2
    MaxCrashes = 1
    MaxElections = 1
    MaxScalings = 2
    MayDefer = TRUE
    MidHookElection = FALSE
    MayAskAgain = TRUE
INVARIANTS TypeOK GrantInv NoRestartForgotten
\* every request served: nothing left to do
CHECK_DEADLOCK FALSE
