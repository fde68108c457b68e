SPECIFICATION DmaSpec
CONSTANTS
    NPORTS = 2
    BL = 2
    QD = 2
    SD = 2
    MaxBeats = 2
    Page = 8
    Programs <- MCPrograms
    CanFail = {FALSE, TRUE}
INVARIANTS
    BurstsLegal
    InStep
    InPlace
    DoneTrue
