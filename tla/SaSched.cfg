SPECIFICATION OSpec
CONSTANTS
    QIN = 1
    QENG = 2
    QMSK = 2
    Bank <- MCBank
    NoCmd = NoCmd
    Cmd <- MCCmd
INVARIANTS TypeOK Bounded MasksCoverQueue BankExclusion FenceMeansDone
PROPERTY InOrderProgram
