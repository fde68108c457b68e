SPECIFICATION FairSpec
CONSTANTS
    Size = 2
    Modulus = 8
    MaxEntries = 4
    Addr = {"a", "b"}
INVARIANTS
    RunsOwnList
PROPERTIES
    QueueSemantics
    SubmitEnds
CHECK_DEADLOCK FALSE
