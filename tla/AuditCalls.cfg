CONSTANTS
    Calls <- TwoCalls
    Payments <- TwoPayments
    OwnersPayments <- Owners
    Kinds <- Mixed
    c1 = c1
    c2 = c2
    p1 = p1
    p2 = p2
CHECK_DEADLOCK FALSE
SPECIFICATION Spec
INVARIANTS
    Linked
    SettledCountedOnce
    OwnersSales
SYMMETRY Symmetry
