CONSTANTS
    Requests = {r1}
    Prices = {1, 2, 3}
    Entries = {e1, e2, e3}
    None = None
    DailyLimit = 2
    TTL = 1
    DayLength = 4
    MaxLockWait = 1
    MaxClock = 1
    PaidCalls = {c1, c2, c3}
    c1 = c1
    ModeOf <- OneAuto
    PerCallCap = 2
CHECK_DEADLOCK FALSE
SPECIFICATION Spec
INVARIANTS
    TypeOK
    OneLiveEntry
    OneUnresolvedEntry
    OneCallPerEntry
    ChargedWhatWasApproved
    ChargedStaysOnTheBooks
    DailyCapHeld
PROPERTIES
    ImplementsPromise
