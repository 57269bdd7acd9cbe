SPECIFICATION DbSpec
CONSTANTS
  Width = 16
  MaxSize = 16
  Asts <- NullAsts
  Methods = {TRUE}
  Programs <- MCPrograms
  Stdins <- NullStdins
  Clock = {900}
  Randoms = {0}
  Selects <- MCNullSelects
  Writes <- MCWrites
  Failing <- NoAsts
INVARIANTS
  SameOutcome
CHECK_DEADLOCK FALSE
