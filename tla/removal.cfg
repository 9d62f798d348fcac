SPECIFICATION Spec
CONSTANTS
  Users = {u1, u2}
  Meetings = {m1}
  Images = {i1, i2, i3}
  Uploaders = {u1}
  Slots = {r1, r2}
  AddedKinds = {"item"}
  Mortal = {r1, r2}
  StorageFails = TRUE
  External = External
  Null = Null
SYMMETRY Symmetry
INVARIANTS
  AvatarStored
  NoOrphanImages
  RemovalIsComplete
  UserGoesLast
PROPERTIES
  OthersUntouched
CHECK_DEADLOCK FALSE
