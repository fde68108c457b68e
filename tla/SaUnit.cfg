SPECIFICATION UnitSpec
CONSTANTS
    QIN = 2
    QENG = 1
    QMSK = 2
    Bank <- MCBank
    Cmd <- IsaCmd
    NoCmd = NoCmd
    World <- MCWorlds
    List <- MCList
    BadDesc = BadDesc
    NoList = NoList
    Job <- MCJob
    JobDesc <- MCJobDesc
INVARIANTS
    FenceTrue
    JobTrue
    ErrorContained
    FencesFirst
