CONSTANTS
    Requests = {r1, r2, r3, r4, r5}
    Size = 2
    Ways = {"replay"}
CHECK_DEADLOCK FALSE
SPECIFICATION Spec
INVARIANTS
    Available
