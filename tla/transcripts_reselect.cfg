SPECIFICATION Spec
CONSTANTS
  Null = Null
  Requests = {r1, r2, r3, r4, r5}
  Readers = {}
  Operations = {"create", "upload", "select"}
  Serial = TRUE
  Reselect = TRUE
  Mortal = {}
SYMMETRY RequestSymmetry
INVARIANTS
  LastChoiceShown
CHECK_DEADLOCK FALSE
