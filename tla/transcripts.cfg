SPECIFICATION Spec
CONSTANTS
  Null = Null
  Requests = {r1, r2, r3, r4}
  Readers = {p1}
  Operations = {"create", "upload", "select", "delete"}
  Serial = FALSE
  Reselect = TRUE
  Mortal = {r1, r2, r3, r4}
SYMMETRY RequestSymmetry
INVARIANTS
  NewChoiceShown
  AtMostOneActive
  SoloChoiceHeals
  ReadsAreAsked
PROPERTIES
  VersionsKept
CHECK_DEADLOCK FALSE
