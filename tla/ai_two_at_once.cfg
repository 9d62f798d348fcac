SPECIFICATION Spec
CONSTANTS
  m1 = m1
  m2 = m2
  u1 = u1
  x1 = x1
  x2 = x2
  seed = seed
  p = p
  Null = Null
  Owner <- MCOwner
  FirstAttendees <- MCAttendees
  AssigneeIds <- MCAssigneeIds
  FirstItems <- MCItems
  Responses <- PlainAnswers
  Meetings = {m1}
  Users = {u1}
  Emails = {x1, x2}
  Requests = {p, q}
  Edits = {}
  Writers = {seed, p, q}
  EditKinds = {}
  Flags = {FALSE}
  Faults = {}
  SoloRuns = FALSE
  SoloEdits = FALSE
  Mortal = {}
INVARIANTS
  OneGenerationAtATime
CHECK_DEADLOCK FALSE
