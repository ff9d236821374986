CONSTANTS
    Calls = {c1, c2, c3}
    PaymentIds = {p1, p2}
    Fingerprints = {f1}
    Auths = {a1, a2}
    None = None
    p1 = p1
    p2 = p2
    a1 = a1
    a2 = a2
    AuthsOf <- SignOnce
    AmountOf <- TwoPrices
    Overlap = FALSE
    Mainnet = TRUE
    SettlementQuota = TRUE
    RevenueQuota = TRUE
    SettlementLimit = 1
    RevenueLimit = 2
    MaxDay = 1
    MaxPauses = 0
CHECK_DEADLOCK FALSE
SPECIFICATION FairSpec
INVARIANTS
    QuotasHeld
    PaidIsReplayable
PROPERTIES
    ImplementsBook
    EveryCallAnswered
