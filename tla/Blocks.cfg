SPECIFICATION DbSpec
CONSTANTS
  Width = 16
  MaxSize = 16
  Asts <- MCAsts
  Methods = {TRUE}
  Programs <- MCPrograms
  Stdins <- MCStdins
  Clock = {900}
  Randoms = {0}
  Selects <- MCSelects
  Writes <- MCWrites
  Failing <- Broken
INVARIANTS
  SameOutcome
  Completes
  BlocksAreAtomic
PROPERTIES
  RunsEnd
CHECK_DEADLOCK FALSE
