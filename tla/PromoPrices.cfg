CONSTANTS
    Tools = {t1, t2}
    LegacyTools = {t1}
    Requests = {r1, b1}
    Pages = {g1}
    Operator = operator
    None = None
    t1 = t1
    t2 = t2
    b1 = b1
    ToolOf <- OneTool
    UnitsOf <- Units
    Batches = {b1}
    Base <- BasePrices
    FloorOf <- Floors
    FloorApproved = FALSE
    OwnerPrices = {3}
    PromoPrice = 1
    Term = 1
    Ttl = 1
    MaxClock = 1
    MaxPromos = 1
    MaxChanges = 1
CHECK_DEADLOCK FALSE
SPECIFICATION Spec
INVARIANTS
    PromoPriceEndsWithPromo
    NoPromoPageAfterExpiry
PROPERTIES
    CacheMovesForward
