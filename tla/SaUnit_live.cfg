SPECIFICATION UnitFairSpec
CONSTANTS
    QIN = 3
    QENG = 1
    QMSK = 2
    Bank <- MCBank
    Cmd <- IsaCmd
    NoCmd = NoCmd
    World <- LiveWorlds
    List <- MCList
    BadDesc = BadDesc
    NoList = NoList
    Job <- MCJob
    JobDesc <- MCJobDesc
PROPERTY
    InsnEnds
