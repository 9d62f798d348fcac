SPECIFICATION Spec
CONSTANTS
  Owned = {m1, m2, m3}
  m4 = m4
  Theirs <- MCTheirs
  Dates = {1, 2, 3}
  Inputs <- MCInputs
  MaxChanges = 2
  NotRead = NotRead
INVARIANTS
  NothingSkipped
  NothingRepeated
  WalkIsWhole
CHECK_DEADLOCK FALSE
SYMMETRY MCSymmetry
