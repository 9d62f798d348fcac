SPECIFICATION Spec
CONSTANTS
  m1 = m1
  m2 = m2
  u1 = u1
  x1 = x1
  x2 = x2
  seed = seed
  p = p
  Null = Null
  Owner <- MCOwner
  FirstAttendees <- MCAttendees
  AssigneeIds <- MCAssigneeIds
  FirstItems <- MCItems
  Responses <- RichAnswers
  Meetings = {m1}
  Users = {u1}
  Emails = {x1, x2}
  Requests = {p, q}
  Edits = {e1}
  Writers = {seed, p, q, e1}
  EditKinds = {"updateActionItem"}
  Flags = {FALSE}
  Faults = {}
  SoloRuns = TRUE
  SoloEdits = TRUE
  Mortal = {}
PROPERTIES
  ReassignedItemsKept
CHECK_DEADLOCK FALSE
