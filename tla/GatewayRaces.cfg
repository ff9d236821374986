CONSTANTS
    Calls = {c1, c2, c3}
    PaymentIds = {p1, p2}
    Fingerprints = {f1, f2}
    Auths = {a1, a2}
    None = None
    p1 = p1
    p2 = p2
    a1 = a1
    a2 = a2
    AuthsOf <- AnyAuth
    AmountOf <- OnePrice
    Overlap = TRUE
    Mainnet = TRUE
    SettlementQuota = FALSE
    RevenueQuota = FALSE
    SettlementLimit = 0
    RevenueLimit = 0
    MaxDay = 0
    MaxPauses = 1
CHECK_DEADLOCK FALSE
SPECIFICATION Spec
INVARIANTS
    RevenueBacked
    PaidDelivery
PROPERTIES
    IdBoundForever
SYMMETRY RaceSymmetry
