SPECIFICATION HalSpec
CONSTANTS
  Dispatch <- MCDispatch
  EntryCap = 4
  DescCap = 47
  SetCap = 4
  Export <- MCExport
  World <- MCWorld
  Client = {c1, c2, c3}
  HeapSize = 12
  Sizes = {1, 4}
  MaxPad = 1
INVARIANTS ListFits NextInOrder OwnWeights ProgramOrder RecordExact Intact RefusedFull
CHECK_DEADLOCK FALSE
