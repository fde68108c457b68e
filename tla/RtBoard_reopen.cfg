SPECIFICATION Spec
CONSTANTS
    Size = 2
    Modulus = 8
    Addr = {"list", "table"}
    MaxJobs = 6
    MaxEarly = 1
    MaxLate = 2
INVARIANT
    OkIsOwn
CHECK_DEADLOCK FALSE
