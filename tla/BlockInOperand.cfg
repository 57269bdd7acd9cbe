SPECIFICATION Spec
CONSTANTS
  Width = 16
  MaxSize = 100
  Asts <- OperandAsts
  Methods = {TRUE, FALSE}
  Programs <- MCPrograms
  Shapes <- MCShapes
  Stdins <- NoInput
  Clock = {900}
  Randoms = {0}
  Selects <- NoSelects
  Writes = {}
INVARIANTS
  MeetsMeaning
CHECK_DEADLOCK FALSE
