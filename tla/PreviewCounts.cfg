CONSTANTS
    a = a
    b = b
    t1 = t1
    t2 = t2
    t3 = t3
    Clients = {a, b}
    Live = {l1, l2}
    Trial = {t1, t2, t3}
    ClientOf <- TwoClients
    LiveLimit = 1
    TrialLimit = 1
    HourLength = 1
    DayLength = 2
    MaxTime = 2
CHECK_DEADLOCK FALSE
SPECIFICATION PreviewSpec
INVARIANTS
    LimitPerWindow
    RefusedWhenUsedUp
SYMMETRY Symmetry
