SPECIFICATION DeploySpec
CONSTANTS
  Sessions = {s1, s2}
  Versions = {v1, v2, v3, v4, v5}
  v1 = v1
  v2 = v2
  v3 = v3
  v4 = v4
  v5 = v5
  Malformed = {v5}
  SigOf <- MCSigOf
  NamesOf <- MCNamesOf
INVARIANTS
  NothingVanishes
  RefusedOnlyWhenDisturbed
  RunsOwnBody
SYMMETRY MCSymmetry
CHECK_DEADLOCK FALSE
