SPECIFICATION Spec
CONSTANTS
    Values = {v1, v2}
    Absent = absent
    Deleted = deleted
    MaxOperations = 4
    MayRemoveOld = FALSE
INVARIANTS
    Inv
PROPERTIES
    ImplementsStore
    WritesTake
    KeptUntilWrite
\* what may happen is bounded
CHECK_DEADLOCK FALSE
