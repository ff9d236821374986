CONSTANTS
    Admins = {a1, a2}
    Strangers = {s1}
    Keys = {"per_domain_concurrency", "circuit_failure_threshold", "global_paid_concurrency"}
    Values = {4}
    Names = {"safe"}
    Tokens = {k1, k2, k3}
    Undos = {u1}
    None = None
    Overlap = FALSE
    Lifetime = 1
    UndoWindow = 1
    MaxClock = 1
    MaxRestarts = 1
CHECK_DEADLOCK FALSE
SPECIFICATION Spec
INVARIANTS
    LogTellsValue
    EveryChangeHasItsVersion
    AppliedAsShown
    TwoPressesForRed
    JobsTakeTurns
SYMMETRY Symmetry
