SPECIFICATION RecordsSpec
CONSTANTS
  m1 = m1
  m2 = m2
  u1 = u1
  u2 = u2
  x1 = x1
  x2 = x2
  x3 = x3
  e1 = e1
  seed = seed
  Null = Null
  Owner <- MCOwner
  UserEmail <- MCUserEmail
  Lower <- MCLower
  Linked <- MCLinked
  AssigneeIds <- MCAssigneeIds
  FirstAttendees <- MCAttendees
  FirstItems <- MCItems
  Meetings = {m1, m2}
  Users = {u1, u2}
  Emails = {x1, x2}
  Edits = {e1, e2}
  Writers = {seed, e1, e2}
  EditKinds = {"addAttendee", "updateAttendee", "deleteAttendee", "createActionItem", "updateActionItem", "deleteActionItem", "setTranscript", "deleteMeeting"}
  Flags = {FALSE, TRUE}
  SoloEdits = FALSE
  Mortal = {e1}
INVARIANTS
  ListsAreScoped
  MineAgree
PROPERTIES
  OwnerScoped
  SavesNeverInsert
CHECK_DEADLOCK FALSE
