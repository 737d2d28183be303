SPECIFICATION FairSpec
CONSTANTS
    N = 2
    R = 2
    MaxIncidents = 2
    MayMix = TRUE
    MayStayUnready = FALSE
    MayMissRules = FALSE
INVARIANTS
    Inv
    CredentialsWork
    LetInEverywhere
PROPERTIES
    Settles
\* what may happen is bounded
CHECK_DEADLOCK FALSE
