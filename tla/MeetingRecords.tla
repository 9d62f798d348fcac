---------------------------- MODULE MeetingRecords ----------------------------
(***************************************************************************)
(* The records of a meeting and the requests by which users edit them:     *)
(* meetings.service.ts, attendees.service.ts and action-items.service.ts.  *)
(*                                                                         *)
(* Every request is an async handler.  Between two of its awaits other     *)
(* requests run, so each awaited database call is an action of its own and *)
(* what a handler read earlier is kept in edit[e] until it is used.        *)
(* Nothing in the code spans two calls: no transaction, no unique index.   *)
(***************************************************************************)
EXTENDS Naturals, FiniteSets

CONSTANTS
  Meetings,         \* meetings that exist when the model starts
  Users,            \* accounts that send requests
  Owner,            \* [Meetings -> Users]
  Emails,           \* e-mail addresses of attendees
  Writers,          \* whatever creates documents; a document's id is <<writer, n>>
  Edits,            \* edit requests; each is sent at most once
  EditKinds,        \* the operations the edit requests may ask for
  Flags,            \* values clients send as aiGenerated
  AssigneeIds,      \* values clients send as assigneeId: ids of attendees of any
                    \* meeting, of attendees made later or deleted, of none at all
  FirstAttendees,   \* documents already stored when the model starts
  FirstItems,
  SoloEdits,        \* TRUE: a request is sent only when all others have ended
  Mortal,           \* requests whose process may die between two awaits
  Null              \* an absent field

(***************************************************************************)
(* Documents                                                               *)
(***************************************************************************)
DocId == Writers \X Nat
Status == {"PENDING", "PROCESSING", "COMPLETED", "FAILED", "GONE"}

Attendee == [id : DocId, meeting : Meetings, email : Emails \cup {Null}, ai : BOOLEAN]
ActionItem == [id : DocId, meeting : Meetings, assignee : DocId \cup {Null}, ai : BOOLEAN]

Operations == {"addAttendee", "updateAttendee", "deleteAttendee", "createActionItem",
               "updateActionItem", "deleteActionItem", "setTranscript", "deleteMeeting"}

\* What a handler holds across its awaits.  `at' is the call it awaits.
Edit == [op : Operations \cup {Null},
         at : {"idle", "scoping", "finding", "checking", "writing", "trimming",
               "done", "refused", "lost"},
         user : Users \cup {Null}, meeting : Meetings \cup {Null},
         doc : DocId \cup {Null},                    \* the document being edited
         value : Emails \cup DocId \cup {Null},      \* new e-mail or assignee
         was : Emails \cup DocId \cup {Null},        \* its value when it was loaded
         ai : BOOLEAN]

ASSUME RecordsAssumption ==
  /\ Owner \in [Meetings -> Users]
  /\ Edits \subseteq Writers
  /\ EditKinds \subseteq Operations
  /\ Flags \subseteq BOOLEAN
  /\ AssigneeIds \subseteq DocId \cup {Null}
  /\ SoloEdits \in BOOLEAN
  /\ FirstAttendees \subseteq Attendee
  /\ FirstItems \subseteq ActionItem
  /\ Null \notin Meetings \cup Emails \cup Users \cup DocId \cup Operations
  \* What is stored already was made by none of the requests and has an id of
  \* its own.
  /\ IsFiniteSet(FirstAttendees)
  /\ \A d \in FirstAttendees \cup FirstItems : d.id[1] \notin Edits
  /\ \A a, b \in FirstAttendees : a.id = b.id => a = b
  /\ \A i, j \in FirstItems : i.id = j.id => i = j

VARIABLES
  meetingStatus,    \* Meeting.status, "GONE" once the document is deleted
  transcribed,      \* meetings that have a transcript document
  attendees,        \* the attendees collection
  actionItems,      \* the actionitems collection
  edit              \* the edit requests in flight

records == <<meetingStatus, transcribed, attendees, actionItems>>
recordVars == <<records, edit>>

Blank == [op |-> Null, at |-> "idle", user |-> Null, meeting |-> Null,
          doc |-> Null, value |-> Null, was |-> Null, ai |-> FALSE]

RecordsInit ==
  /\ meetingStatus = [m \in Meetings |-> "PENDING"]
  /\ transcribed \in SUBSET Meetings
  /\ attendees = FirstAttendees
  /\ actionItems = FirstItems
  /\ edit = [e \in Edits |-> Blank]

(***************************************************************************)
(* Queries                                                                 *)
(***************************************************************************)

\* Mutant: a meeting is found whoever owns it.
FindsMeeting_AnyOwner(u, m) == meetingStatus[m] # "GONE"

\* findMeeting is scoped by owner: another user's meeting is "not found".
FindsMeeting(u, m) == meetingStatus[m] # "GONE" /\ Owner[m] = u

\* Mutant: the lookup ignores the meeting.
WithEmail_AnyMeeting(m, x) == {a \in attendees : a.email = x}

WithEmail(m, x) == {a \in attendees : a.meeting = m /\ a.email = x}

\* Mutant: the item is found by its id alone.
ItemsFound_AnyMeeting(m, d) == {i \in actionItems : i.id = d}

ItemsFound(m, d) == {i \in actionItems : i.meeting = m /\ i.id = d}

\* Documents of collection C after $set of one field on the document with id d.
Patched(C, d, field, x) ==
  {IF c.id = d THEN [c EXCEPT ![field] = x] ELSE c : c \in C}
Without(C, d) == {c \in C : c.id # d}

(***************************************************************************)
(* Requests                                                                *)
(***************************************************************************)
EditOpen(e) == edit[e].at \notin {"idle", "done", "refused", "lost"}
MaySend(e, op) ==
  /\ edit[e].at = "idle"
  /\ op \in EditKinds
  /\ SoloEdits => \A f \in Edits : ~EditOpen(f)

Goto(e, where) == edit' = [edit EXCEPT ![e].at = where]

\* The first await of a request that names its meeting is findMeeting.
ScopedRequest(e, u, m, where, op, d, x, f) ==
  /\ MaySend(e, op)
  /\ edit' = [edit EXCEPT ![e] =
       [op |-> op, at |-> IF FindsMeeting(u, m) THEN where ELSE "refused",
        user |-> u, meeting |-> m, doc |-> d, value |-> x, was |-> Null, ai |-> f]]
  /\ UNCHANGED records

\* An e-mail, when the request has one, is looked up before the insert.
AddAttendee(e, u, m) ==
  \E x \in Emails \cup {Null}, f \in Flags :
    ScopedRequest(e, u, m, IF x = Null THEN "writing" ELSE "checking", "addAttendee", Null, x, f)

\* assigneeId is stored as it comes: no handler looks for the attendee.
CreateActionItem(e, u, m) ==
  \E x \in AssigneeIds, f \in Flags :
    ScopedRequest(e, u, m, "writing", "createActionItem", Null, x, f)

UpdateActionItem(e, u, m) ==
  \E i \in actionItems, x \in AssigneeIds :
    ScopedRequest(e, u, m, "finding", "updateActionItem", i.id, x, FALSE)

DeleteActionItem(e, u, m) ==
  \E i \in actionItems :
    ScopedRequest(e, u, m, "finding", "deleteActionItem", i.id, Null, FALSE)

SetTranscript(e, u, m) ==
  ScopedRequest(e, u, m, "writing", "setTranscript", Null, Null, FALSE)

DeleteMeeting(e, u, m) ==
  ScopedRequest(e, u, m, "writing", "deleteMeeting", Null, Null, FALSE)

\* Attendee edits name the attendee only: it is loaded first and findMeeting
\* then runs on the meeting it was found in.
LoadAttendee(e, u, op, a, x) ==
  /\ MaySend(e, op)
  /\ edit' = [edit EXCEPT ![e] =
       [op |-> op, at |-> "scoping", user |-> u, meeting |-> a.meeting,
        doc |-> a.id, value |-> x, was |-> a.email, ai |-> FALSE]]
  /\ UNCHANGED records

\* With Null the client clears the e-mail; other fields are abstracted.
UpdateAttendee(e, u) ==
  \E a \in attendees, x \in Emails \cup {Null} : LoadAttendee(e, u, "updateAttendee", a, x)

DeleteAttendee(e, u) ==
  \E a \in attendees : LoadAttendee(e, u, "deleteAttendee", a, Null)

ScopeAttendee(e) ==
  LET r == edit[e] IN
  /\ r.at = "scoping"
  /\ Goto(e, IF ~FindsMeeting(r.user, r.meeting) THEN "refused"
             ELSE IF r.op = "updateAttendee" /\ r.value # Null THEN "checking"
             ELSE "writing")
  /\ UNCHANGED records

\* Mutant: a change of e-mail is not checked.
CheckEmail_AddOnly(e) ==
  LET r == edit[e] IN
  /\ r.at = "checking"
  /\ Goto(e, IF r.op = "updateAttendee" \/ WithEmail(r.meeting, r.value) = {}
             THEN "writing" ELSE "refused")
  /\ UNCHANGED records

\* The duplicate check; an update does not count the attendee it edits.
CheckEmail(e) ==
  LET r == edit[e]
      others == {a \in WithEmail(r.meeting, r.value) : a.id # r.doc}
  IN
  /\ r.at = "checking"
  /\ Goto(e, IF others = {} THEN "writing" ELSE "refused")
  /\ UNCHANGED records

FindActionItem(e) ==
  LET r == edit[e]
      found == ItemsFound(r.meeting, r.doc)
  IN
  /\ r.at = "finding"
  /\ \/ /\ found = {}
        /\ Goto(e, "refused")
     \/ \E i \in found :
          edit' = [edit EXCEPT ![e].at = "writing", ![e].was = i.assignee]
  /\ UNCHANGED records

(***************************************************************************)
(* Writes                                                                  *)
(***************************************************************************)
Writes(e, op) == edit[e].at = "writing" /\ edit[e].op = op

InsertAttendee(e) ==
  LET r == edit[e] IN
  /\ Writes(e, "addAttendee")
  /\ attendees' = attendees \cup
       {[id |-> <<e, 1>>, meeting |-> r.meeting, email |-> r.value, ai |-> r.ai]}
  /\ Goto(e, "done")
  /\ UNCHANGED <<meetingStatus, transcribed, actionItems>>

\* Mutant: the save inserts the attendee when it was deleted meanwhile.
SaveAttendee_Upsert(e) ==
  LET r == edit[e] IN
  /\ Writes(e, "updateAttendee")
  /\ attendees' = Without(attendees, r.doc) \cup
       {[id |-> r.doc, meeting |-> r.meeting, email |-> r.value, ai |-> r.ai]}
  /\ Goto(e, "done")
  /\ UNCHANGED <<meetingStatus, transcribed, actionItems>>

\* save() sends the fields that differ from what was loaded, to the document
\* with that id if it still exists, and never inserts.
SaveAttendee(e) ==
  LET r == edit[e] IN
  /\ Writes(e, "updateAttendee")
  /\ attendees' = IF r.value = r.was THEN attendees
                  ELSE Patched(attendees, r.doc, "email", r.value)
  /\ Goto(e, IF \E a \in attendees : a.id = r.doc THEN "done" ELSE "refused")
  /\ UNCHANGED <<meetingStatus, transcribed, actionItems>>

RemoveAttendee(e) ==
  /\ Writes(e, "deleteAttendee")
  /\ attendees' = Without(attendees, edit[e].doc)
  /\ Goto(e, "done")
  /\ UNCHANGED <<meetingStatus, transcribed, actionItems>>

InsertActionItem(e) ==
  LET r == edit[e] IN
  /\ Writes(e, "createActionItem")
  /\ actionItems' = actionItems \cup
       {[id |-> <<e, 1>>, meeting |-> r.meeting, assignee |-> r.value, ai |-> r.ai]}
  /\ Goto(e, "done")
  /\ UNCHANGED <<meetingStatus, transcribed, attendees>>

\* aiGenerated is not touched: an item reassigned by hand stays AI-generated.
SaveActionItem(e) ==
  LET r == edit[e] IN
  /\ Writes(e, "updateActionItem")
  /\ actionItems' = IF r.value = r.was THEN actionItems
                    ELSE Patched(actionItems, r.doc, "assignee", r.value)
  /\ Goto(e, IF \E i \in actionItems : i.id = r.doc THEN "done" ELSE "refused")
  /\ UNCHANGED <<meetingStatus, transcribed, attendees>>

RemoveActionItem(e) ==
  /\ Writes(e, "deleteActionItem")
  /\ actionItems' = Without(actionItems, edit[e].doc)
  /\ Goto(e, "done")
  /\ UNCHANGED <<meetingStatus, transcribed, attendees>>

\* Versions are the subject of Transcripts; here a meeting has a transcript
\* or it has none.
StoreTranscript(e) ==
  /\ Writes(e, "setTranscript")
  /\ transcribed' = transcribed \cup {edit[e].meeting}
  /\ Goto(e, "done")
  /\ UNCHANGED <<meetingStatus, attendees, actionItems>>

\* Mutant: the transcripts are forgotten.
RemoveMeeting_Only(e) ==
  /\ Writes(e, "deleteMeeting")
  /\ meetingStatus' = [meetingStatus EXCEPT ![edit[e].meeting] = "GONE"]
  /\ Goto(e, "done")
  /\ UNCHANGED <<transcribed, attendees, actionItems>>

\* deleteMeeting: the meeting first, then its transcripts, and nothing else.
RemoveMeeting(e) ==
  /\ Writes(e, "deleteMeeting")
  /\ meetingStatus' = [meetingStatus EXCEPT ![edit[e].meeting] = "GONE"]
  /\ Goto(e, "trimming")
  /\ UNCHANGED <<transcribed, attendees, actionItems>>

RemoveTranscripts(e) ==
  /\ edit[e].at = "trimming"
  /\ transcribed' = transcribed \ {edit[e].meeting}
  /\ Goto(e, "done")
  /\ UNCHANGED <<meetingStatus, attendees, actionItems>>

\* The process dies (a restart, a serverless freeze): nothing is undone.
LoseEdit(e) ==
  /\ e \in Mortal /\ EditOpen(e)
  /\ Goto(e, "lost")
  /\ UNCHANGED records

SendEdit(e) ==
  \E u \in Users :
    \/ UpdateAttendee(e, u)
    \/ DeleteAttendee(e, u)
    \/ \E m \in Meetings :
         \/ AddAttendee(e, u, m)
         \/ CreateActionItem(e, u, m)
         \/ UpdateActionItem(e, u, m)
         \/ DeleteActionItem(e, u, m)
         \/ SetTranscript(e, u, m)
         \/ DeleteMeeting(e, u, m)

RunEdit(e) ==
  \/ ScopeAttendee(e) \/ CheckEmail(e) \/ FindActionItem(e)
  \/ InsertAttendee(e) \/ SaveAttendee(e) \/ RemoveAttendee(e)
  \/ InsertActionItem(e) \/ SaveActionItem(e) \/ RemoveActionItem(e)
  \/ StoreTranscript(e) \/ RemoveMeeting(e) \/ RemoveTranscripts(e)

EditStep(e) == SendEdit(e) \/ RunEdit(e) \/ LoseEdit(e)
RecordsNext == \E e \in Edits : EditStep(e)
RecordsSpec == RecordsInit /\ [][RecordsNext]_recordVars

-------------------------------------------------------------------------------
(***************************************************************************)
(* Properties                                                              *)
(***************************************************************************)
\* Type invariant of the collections and of the requests.
RecordsTypeOK ==
  /\ meetingStatus \in [Meetings -> Status]
  /\ transcribed \subseteq Meetings
  /\ attendees \subseteq Attendee
  /\ actionItems \subseteq ActionItem
  /\ edit \in [Edits -> Edit]

\* Two attendees of a meeting never share an e-mail: what the lookup before
\* each insert and each change of e-mail is for (attendees.service.ts:34, 61).
UniqueEmails ==
  \A a, b \in attendees :
    a.meeting = b.meeting /\ a.email = b.email /\ a.email # Null => a.id = b.id

\* A request changes what belongs to a meeting only if its sender owns that
\* meeting, whatever ids the request named and whatever happened since it was
\* checked: every handler reaches a document through findMeeting.
Belongings(m) ==
  <<meetingStatus[m], m \in transcribed,
    {a \in attendees : a.meeting = m}, {i \in actionItems : i.meeting = m}>>

OwnerScoped ==
  [][\A m \in Meetings : Belongings(m)' # Belongings(m) =>
       \E e \in Edits : edit'[e] # edit[e] /\ edit[e].user = Owner[m]]_recordVars

\* A document deleted while another request holds it loaded stays deleted:
\* save() updates by id and does not insert, so a new id can only come from
\* an insert of the request that made it (attendees.service.ts:75,
\* action-items.service.ts:151).
Ids(C) == {c.id : c \in C}
SavesNeverInsert ==
  [][/\ \A d \in Ids(attendees)' \ Ids(attendees) :
          \E e \in Edits : d = <<e, 1>> /\ Writes(e, "addAttendee")
     /\ \A d \in Ids(actionItems)' \ Ids(actionItems) :
          \E e \in Edits : d = <<e, 1>> /\ Writes(e, "createActionItem")]_recordVars

\* Once a deletion has ended, with no other request in flight, the deleted
\* meeting has no transcript left (meetings.service.ts:135).
Quiet == \A e \in Edits : ~EditOpen(e)
TranscriptsGoWithMeeting ==
  Quiet => \A m \in transcribed : meetingStatus[m] # "GONE"

===============================================================================
