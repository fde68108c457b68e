SPECIFICATION CompilerSpec
CONSTANTS
  Eng = {"LD", "GEMV", "ST", "EX", "VE"}
  Step = 1
  Modulus = 1024
  Loops = 2
  Calls = 4
  Region = 16
  D = 1
  Params = 4
  Bases = 3
  NaN = NaN
  Old = 9
  Carried = TRUE
  Reg <- Reg0
  Bind <- MCBind
  Const <- MCConst
  Word <- MCWord
  Exports <- MCExports
INVARIANTS ListMeans
CHECK_DEADLOCK FALSE
