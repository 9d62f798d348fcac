SPECIFICATION Spec
CONSTANTS
  m1 = m1
  m2 = m2
  u1 = u1
  x1 = x1
  x2 = x2
  seed = seed
  p = p
  Null = Null
  Owner <- MCOwner
  FirstAttendees <- MCAttendees
  AssigneeIds <- MCMadeOrNobody
  FirstItems <- MCItems
  Responses <- VariedAnswers
  Meetings = {m1}
  Users = {u1}
  Emails = {x1, x2}
  Requests = {p, q}
  Edits = {e1, e2}
  Writers = {seed, p, q, e1, e2}
  EditKinds = {"addAttendee", "updateAttendee", "createActionItem", "updateActionItem", "deleteMeeting"}
  Flags = {FALSE}
  Faults = {"item"}
  SoloRuns = TRUE
  SoloEdits = TRUE
  Mortal = {}
INVARIANTS
  UniqueEmails
  CompletedIsWhole
  FailsOnlyOnFault
  TranscriptsGoWithMeeting
PROPERTIES
  ManualAssigneesKept
CHECK_DEADLOCK FALSE
