SPECIFICATION Spec
CONSTANTS
    c1 = c1
    c2 = c2
    c3 = c3
    c4 = c4
    Calls <- MCCalls
    MaxParses = 2
INVARIANTS
    PermitsConserved
    CountersBalance
PROPERTIES
    RejectedOnlyWhenFull
CHECK_DEADLOCK FALSE
