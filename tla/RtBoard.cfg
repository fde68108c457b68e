SPECIFICATION Spec
CONSTANTS
    Size = 2
    Modulus = 8
    Addr = {"list", "table"}
    MaxJobs = 8
    MaxEarly = 0
    MaxLate = 2
INVARIANTS
    OkIsOwnAlone
CHECK_DEADLOCK FALSE
