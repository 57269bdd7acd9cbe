SPECIFICATION DbSpec
CONSTANTS
  Width = 16
  MaxSize = 16
  Asts <- BranchAsts
  Methods = {TRUE}
  Programs <- MCPrograms
  Stdins <- MCStdins
  Clock = {900}
  Randoms = {0}
  Selects <- MCSelects
  Writes <- MCWrites
  Failing <- NoAsts
INVARIANTS
  Completes
CHECK_DEADLOCK FALSE
