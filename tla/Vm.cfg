SPECIFICATION Spec
CONSTANTS
  Width = 7
  MaxSize = 12
  Programs <- MCPrograms
  Stdins <- MCStdins
  Clock = {9}
  Randoms = {0, 5}
INVARIANTS
  TypeOK
  KeysUnique
PROPERTIES
  Trimmed
CHECK_DEADLOCK FALSE
