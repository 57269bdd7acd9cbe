SPECIFICATION Spec
CONSTANTS
  Width = 16
  MaxSize = 100
  Asts <- MCAsts
  Methods = {TRUE, FALSE}
  Programs <- MCPrograms
  Shapes <- MCShapes
  Stdins <- MCStdins
  Clock = {900, 901}
  Randoms = {0}
  Selects <- NoSelects
  Writes = {}
INVARIANTS
  KeepsToShapes
  NoFailure
  MeetsMeaning
  NothingLeftBehind
  LoopStackMatchesCode
  CallersIntact
PROPERTIES
  Terminates
CHECK_DEADLOCK FALSE
