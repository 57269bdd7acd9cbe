SPECIFICATION Spec
CONSTANTS
  Width = 16
  Ids <- MCIds
  Constants <- MCConstants
  Numbers <- MCNumbers
  Ops <- MCOps
  MaxItems = 4
INVARIANTS
  NamesUnique
  BlocksNest
  ReadsBack
  CompleteIsRead
PROPERTIES
  SlotsStable
CHECK_DEADLOCK FALSE
