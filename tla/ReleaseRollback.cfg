CONSTANTS
    OldTools <- MCOldTools
    NewTools <- MCNewTools
    From = 7
    Promos = TRUE
    MaxPayments = 1
CHECK_DEADLOCK FALSE
SPECIFICATION ReleaseSpec
INVARIANTS
    ServesItsSchema
    RollbackRestores
    SalesResume
