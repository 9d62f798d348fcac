SPECIFICATION Spec
CONSTANTS
  m1 = m1
  m2 = m2
  u1 = u1
  x1 = x1
  x2 = x2
  seed = seed
  p = p
  Null = Null
  Owner <- MCOwner
  FirstAttendees <- MCForeign
  AssigneeIds <- MCAssigneeIds
  FirstItems <- NoDocuments
  Responses <- PlainAnswers
  Meetings = {m1, m2}
  Users = {u1}
  Emails = {x2}
  Requests = {p, q}
  Edits = {e1, e2}
  Writers = {seed, p, q, e1, e2}
  EditKinds = {"deleteMeeting", "setTranscript", "updateActionItem"}
  Flags = {FALSE}
  Faults = {"item", "status"}
  SoloRuns = TRUE
  SoloEdits = FALSE
  Mortal = {p}
INVARIANTS
  FiledWithinMeeting
PROPERTIES
  LifecycleSpec
CHECK_DEADLOCK FALSE
