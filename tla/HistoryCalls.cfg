CONSTANTS
    Urls = {u1}
    Calls = {c1, c2, c3}
    u1 = u1
    c1 = c1
    c2 = c2
    c3 = c3
    OpOf <- Mixed
    UrlsOf <- TwoSpellings
    Fresh = {c2}
    SameText = FALSE
    Ttl = 1
    Delay = 1
    PerDomain = 2
    MaxVersion = 2
    MaxClock = 2
CHECK_DEADLOCK FALSE
SPECIFICATION Spec
INVARIANTS
    AnswerAge
    ChangesAreTold
