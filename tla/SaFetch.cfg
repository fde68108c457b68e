SPECIFICATION FairSpec
CONSTANTS
    Eng <- MCEng
    Reg <- MCReg
    Step = 4
    Modulus = 64
    Loops = 2
    Calls = 1
    MaxOut = 2
    Words = 2
    Pipe = 1
    Images <- MCImages
    Resp = {"OKAY", "SLVERR"}
    EngErr = {FALSE, TRUE}
    Reset = {FALSE, TRUE}
    NoPkt = NoPkt
    NoAddr = NoAddr
INVARIANTS SpaceReserved InStep
PROPERTIES ListSemantics ListEnds
