------------------------- MODULE MeetingRecordsProofs -------------------------
(***************************************************************************)
(* Proofs about the edit requests of MeetingRecords, for every set of      *)
(* meetings, users, e-mails and requests.                                  *)
(***************************************************************************)
EXTENDS MeetingRecords, TLAPS

\* What a request carries fits the operation it is for.
EditShape ==
  \A e \in Edits : edit[e].op # Null =>
    /\ edit[e].meeting \in Meetings
    /\ edit[e].op \in {"addAttendee", "updateAttendee"} => edit[e].value \in Emails \cup {Null}
    /\ edit[e].op \in {"createActionItem", "updateActionItem"} => edit[e].value \in DocId \cup {Null}

RecordsInv == RecordsTypeOK /\ EditShape

Stages == {"idle", "scoping", "finding", "checking", "writing", "trimming",
           "done", "refused", "lost"}

\* Moving a request to another stage keeps the requests well-formed.
LEMMA GotoShape ==
  ASSUME RecordsInv, NEW e \in Edits, NEW s \in Stages, Goto(e, s)
  PROVE  edit' \in [Edits -> Edit] /\ EditShape'
BY DEF RecordsInv, RecordsTypeOK, EditShape, Goto, Edit, Stages

LEMMA InitShape == RecordsInit => RecordsInv
BY RecordsAssumption
   DEF RecordsInit, RecordsInv, RecordsTypeOK, EditShape, Blank, Edit, Status, Operations

\* Sending a request, whichever it is, leaves the records alone.
LEMMA ScopedShape ==
  ASSUME RecordsInv, NEW e \in Edits, NEW u \in Users, NEW m \in Meetings,
         NEW s \in Stages, NEW op \in Operations, NEW d \in DocId \cup {Null},
         NEW x \in Emails \cup DocId \cup {Null}, NEW f \in BOOLEAN,
         op \in {"addAttendee", "updateAttendee"} => x \in Emails \cup {Null},
         op \in {"createActionItem", "updateActionItem"} => x \in DocId \cup {Null},
         ScopedRequest(e, u, m, s, op, d, x, f)
  PROVE  RecordsInv'
<1> DEFINE t == IF FindsMeeting(u, m) THEN s ELSE "refused"
           q == [op |-> op, at |-> t, user |-> u, meeting |-> m,
                 doc |-> d, value |-> x, was |-> Null, ai |-> f]
<1>1. t \in Stages  BY DEF Stages
<1>2. edit' = [edit EXCEPT ![e] = q] /\ UNCHANGED records  BY DEF ScopedRequest
<1> HIDE DEF t
<1>3. q \in Edit  BY <1>1 DEF Edit, Stages
<1>4. edit' \in [Edits -> Edit]  BY <1>2, <1>3 DEF RecordsInv, RecordsTypeOK
<1>5. EditShape'  BY <1>2 DEF RecordsInv, RecordsTypeOK, EditShape
<1> QED  BY <1>2, <1>4, <1>5 DEF RecordsInv, RecordsTypeOK, records

LEMMA LoadShape ==
  ASSUME RecordsInv, NEW e \in Edits, NEW u \in Users, NEW a \in attendees,
         NEW op \in {"updateAttendee", "deleteAttendee"}, NEW x \in Emails \cup {Null},
         LoadAttendee(e, u, op, a, x)
  PROVE  RecordsInv'
<1> DEFINE q == [op |-> op, at |-> "scoping", user |-> u, meeting |-> a.meeting,
                 doc |-> a.id, value |-> x, was |-> a.email, ai |-> FALSE]
<1>1. a \in Attendee  BY DEF RecordsInv, RecordsTypeOK
<1>2. edit' = [edit EXCEPT ![e] = q] /\ UNCHANGED records  BY DEF LoadAttendee
<1>3. q \in Edit  BY <1>1 DEF Edit, Attendee, Operations
<1>4. q.meeting \in Meetings /\ q.op = op /\ q.value = x  BY <1>1 DEF Attendee
<1> HIDE DEF q
<1>5. edit' \in [Edits -> Edit]  BY <1>2, <1>3 DEF RecordsInv, RecordsTypeOK
<1>6. EditShape'  BY <1>2, <1>4 DEF RecordsInv, RecordsTypeOK, EditShape
<1> QED  BY <1>2, <1>5, <1>6 DEF RecordsInv, RecordsTypeOK, records

LEMMA SendShape ==
  ASSUME RecordsInv, NEW e \in Edits, SendEdit(e)
  PROVE  RecordsInv'
<1>1. Flags \subseteq BOOLEAN  BY RecordsAssumption
<1>2. \A i \in actionItems : i.id \in DocId
  BY DEF RecordsInv, RecordsTypeOK, ActionItem
<1>3. AssigneeIds \subseteq DocId \cup {Null}  BY RecordsAssumption
<1>4. PICK u \in Users :
        \/ UpdateAttendee(e, u) \/ DeleteAttendee(e, u)
        \/ \E m \in Meetings :
             \/ AddAttendee(e, u, m) \/ CreateActionItem(e, u, m) \/ UpdateActionItem(e, u, m)
             \/ DeleteActionItem(e, u, m) \/ SetTranscript(e, u, m) \/ DeleteMeeting(e, u, m)
  BY DEF SendEdit
<1>5. CASE UpdateAttendee(e, u)  BY <1>5, LoadShape DEF UpdateAttendee
<1>6. CASE DeleteAttendee(e, u)  BY <1>6, LoadShape DEF DeleteAttendee
<1>7. ASSUME NEW m \in Meetings,
             \/ AddAttendee(e, u, m) \/ CreateActionItem(e, u, m) \/ UpdateActionItem(e, u, m)
             \/ DeleteActionItem(e, u, m) \/ SetTranscript(e, u, m) \/ DeleteMeeting(e, u, m)
      PROVE  RecordsInv'
  <2>1. CASE AddAttendee(e, u, m)
    <3>1. PICK x \in Emails \cup {Null}, f \in Flags :
            ScopedRequest(e, u, m, IF x = Null THEN "writing" ELSE "checking",
                          "addAttendee", Null, x, f)
      BY <2>1 DEF AddAttendee
    <3> QED  BY <3>1, <1>1, ScopedShape DEF Stages, Operations
  <2>2. CASE CreateActionItem(e, u, m)
    <3>1. PICK x \in AssigneeIds, f \in Flags :
            ScopedRequest(e, u, m, "writing", "createActionItem", Null, x, f)
      BY <2>2 DEF CreateActionItem
    <3> QED  BY <3>1, <1>1, <1>3, ScopedShape DEF Stages, Operations
  <2>3. CASE UpdateActionItem(e, u, m)
    <3>1. PICK i \in actionItems, x \in AssigneeIds :
            ScopedRequest(e, u, m, "finding", "updateActionItem", i.id, x, FALSE)
      BY <2>3 DEF UpdateActionItem
    <3> QED  BY <3>1, <1>2, <1>3, ScopedShape DEF Stages, Operations
  <2>4. CASE DeleteActionItem(e, u, m)
    <3>1. PICK i \in actionItems :
            ScopedRequest(e, u, m, "finding", "deleteActionItem", i.id, Null, FALSE)
      BY <2>4 DEF DeleteActionItem
    <3> QED  BY <3>1, <1>2, ScopedShape DEF Stages, Operations
  <2>5. CASE SetTranscript(e, u, m)
    BY <2>5, ScopedShape DEF SetTranscript, Stages, Operations
  <2>6. CASE DeleteMeeting(e, u, m)
    BY <2>6, ScopedShape DEF DeleteMeeting, Stages, Operations
  <2> QED  BY <1>7, <2>1, <2>2, <2>3, <2>4, <2>5, <2>6
<1> QED  BY <1>4, <1>5, <1>6, <1>7

\* Setting one field of the documents with an id keeps a collection typed.
LEMMA PatchedAttendees ==
  ASSUME NEW C \in SUBSET Attendee, NEW d, NEW x \in Emails \cup {Null}
  PROVE  Patched(C, d, "email", x) \subseteq Attendee
BY DEF Patched, Attendee

LEMMA PatchedItems ==
  ASSUME NEW C \in SUBSET ActionItem, NEW d, NEW x \in DocId \cup {Null}
  PROVE  Patched(C, d, "assignee", x) \subseteq ActionItem
BY DEF Patched, ActionItem

LEMMA EditRunShape ==
  ASSUME RecordsInv, NEW e \in Edits, RunEdit(e)
  PROVE  RecordsInv'
<1>1. ASSUME NEW s \in Stages, Goto(e, s)  PROVE edit' \in [Edits -> Edit] /\ EditShape'
  BY <1>1, GotoShape
<1>2. e \in Writers /\ <<e, 1>> \in DocId  BY RecordsAssumption DEF DocId
<1>3. edit[e] \in Edit /\ (edit[e].op \in Operations => edit[e].meeting \in Meetings)
  BY RecordsAssumption DEF RecordsInv, RecordsTypeOK, EditShape
<1>4. ASSUME NEW s \in Stages, Goto(e, s), UNCHANGED records  PROVE RecordsInv'
  BY <1>1, <1>4 DEF RecordsInv, RecordsTypeOK, records
<1>5. CASE ScopeAttendee(e)  BY <1>4, <1>5 DEF ScopeAttendee, Stages
<1>6. CASE CheckEmail(e)  BY <1>4, <1>6 DEF CheckEmail, Stages
<1>7. CASE FindActionItem(e)
  <2>1. CASE Goto(e, "refused")  BY <1>4, <1>7, <2>1 DEF FindActionItem, Stages
  <2>2. CASE \E i \in actionItems : edit' = [edit EXCEPT ![e].at = "writing", ![e].was = i.assignee]
    <3>1. PICK i \in actionItems :
            edit' = [edit EXCEPT ![e].at = "writing", ![e].was = i.assignee]
      BY <2>2
    <3>2. i.assignee \in DocId \cup {Null}  BY DEF RecordsInv, RecordsTypeOK, ActionItem
    <3> DEFINE n == [edit EXCEPT ![e].at = "writing"]
    <3>a. edit' = [n EXCEPT ![e].was = i.assignee]  BY <3>1
    <3>b. n \in [Edits -> Edit]  BY DEF RecordsInv, RecordsTypeOK, Edit
    <3>c. \A f \in Edits : /\ n[f].op = edit[f].op /\ n[f].meeting = edit[f].meeting
                           /\ n[f].value = edit[f].value
      BY DEF RecordsInv, RecordsTypeOK, Edit
    <3> HIDE DEF n
    <3>3. edit' \in [Edits -> Edit] /\ EditShape'
      BY <3>a, <3>b, <3>c, <3>2 DEF RecordsInv, EditShape, Edit
    <3> QED  BY <1>7, <3>3 DEF FindActionItem, RecordsInv, RecordsTypeOK, records
  <2> QED  BY <1>7, <2>1, <2>2 DEF FindActionItem, ItemsFound
<1>8. CASE InsertAttendee(e)
  <2>1. attendees' \subseteq Attendee
    BY <1>2, <1>3, <1>8, RecordsAssumption
       DEF InsertAttendee, Writes, RecordsInv, RecordsTypeOK, EditShape, Attendee, Edit, Operations
  <2> QED  BY <1>1, <1>8, <2>1 DEF InsertAttendee, Stages, RecordsInv, RecordsTypeOK
<1>9. CASE SaveAttendee(e)
  <2>1. edit[e].value \in Emails \cup {Null}
    BY <1>9, RecordsAssumption DEF SaveAttendee, Writes, RecordsInv, EditShape, Operations
  <2>2. attendees' \subseteq Attendee
    BY <1>9, <2>1, PatchedAttendees DEF SaveAttendee, RecordsInv, RecordsTypeOK
  <2> QED  BY <1>1, <1>9, <2>2 DEF SaveAttendee, Stages, RecordsInv, RecordsTypeOK
<1>10. CASE RemoveAttendee(e)
  BY <1>1, <1>10 DEF RemoveAttendee, Without, Stages, RecordsInv, RecordsTypeOK
<1>11. CASE InsertActionItem(e)
  <2>1. actionItems' \subseteq ActionItem
    BY <1>2, <1>3, <1>11, RecordsAssumption
       DEF InsertActionItem, Writes, RecordsInv, RecordsTypeOK, EditShape, ActionItem, Edit, Operations
  <2> QED  BY <1>1, <1>11, <2>1 DEF InsertActionItem, Stages, RecordsInv, RecordsTypeOK
<1>12. CASE SaveActionItem(e)
  <2>1. edit[e].value \in DocId \cup {Null}
    BY <1>12, RecordsAssumption DEF SaveActionItem, Writes, RecordsInv, EditShape, Operations
  <2>2. actionItems' \subseteq ActionItem
    BY <1>12, <2>1, PatchedItems DEF SaveActionItem, RecordsInv, RecordsTypeOK
  <2> QED  BY <1>1, <1>12, <2>2 DEF SaveActionItem, Stages, RecordsInv, RecordsTypeOK
<1>13. CASE RemoveActionItem(e)
  BY <1>1, <1>13 DEF RemoveActionItem, Without, Stages, RecordsInv, RecordsTypeOK
<1>14. CASE StoreTranscript(e)
  BY <1>1, <1>3, <1>14
     DEF StoreTranscript, Writes, Operations, Stages, RecordsInv, RecordsTypeOK
<1>15. CASE RemoveMeeting(e)
  BY <1>1, <1>15 DEF RemoveMeeting, Stages, Status, RecordsInv, RecordsTypeOK
<1>16. CASE RemoveTranscripts(e)
  BY <1>1, <1>16 DEF RemoveTranscripts, Stages, RecordsInv, RecordsTypeOK
<1> QED
  BY <1>5, <1>6, <1>7, <1>8, <1>9, <1>10, <1>11, <1>12, <1>13, <1>14, <1>15, <1>16 DEF RunEdit

\* One step of one edit request, alone or among generations.
LEMMA EditKeepsShape ==
  ASSUME RecordsInv, NEW e \in Edits, EditStep(e)
  PROVE  RecordsInv'
<1>1. CASE LoseEdit(e)
  BY <1>1, GotoShape DEF LoseEdit, Stages, RecordsInv, RecordsTypeOK, records
<1> QED  BY <1>1, SendShape, EditRunShape DEF EditStep

\* Every reachable state of the edit requests is well-formed.
THEOREM RecordsTyped == RecordsSpec => []RecordsTypeOK
<1>1. RecordsInv /\ [RecordsNext]_recordVars => RecordsInv'
  <2>1. CASE UNCHANGED recordVars
    BY <2>1 DEF recordVars, records, RecordsInv, RecordsTypeOK, EditShape
  <2> QED  BY <2>1, EditKeepsShape DEF RecordsNext
<1>2. RecordsInv => RecordsTypeOK  BY DEF RecordsInv
<1> QED  BY <1>1, <1>2, InitShape, PTL DEF RecordsSpec
-------------------------------------------------------------------------------
(***************************************************************************)
(* Identities: who made a document, and that whatever a request holds of a *)
(* document is of the meeting the request was checked against.             *)
(***************************************************************************)
EditMade(d) == d # Null => (d[1] \in Edits => edit[d[1]].at = "done")
AttendeeEdit(e) == edit[e].op \in {"updateAttendee", "deleteAttendee"}
ItemEdit(e) == edit[e].op \in {"updateActionItem", "deleteActionItem"}

Identities ==
  /\ \A a \in attendees : EditMade(a.id)
  /\ \A i \in actionItems : EditMade(i.id)
  /\ \A e \in Edits : EditMade(edit[e].doc)
  /\ \A a, b \in attendees : a.id = b.id => a = b
  /\ \A i, j \in actionItems : i.id = j.id => i = j

ScopedEdit(e) ==
  /\ edit[e].at = "scoping" => AttendeeEdit(e)
  /\ edit[e].at = "checking" => edit[e].op \in {"addAttendee", "updateAttendee"}
  /\ edit[e].at \in {"finding", "checking", "writing", "trimming"}
       => edit[e].user = Owner[edit[e].meeting]
  /\ AttendeeEdit(e) => \A a \in attendees : a.id = edit[e].doc => a.meeting = edit[e].meeting
  /\ ItemEdit(e) /\ edit[e].at = "writing" =>
       \A i \in actionItems : i.id = edit[e].doc => i.meeting = edit[e].meeting

Integrity == Identities /\ (\A e \in Edits : ScopedEdit(e))

\* Sending a request holds on to documents that are stored then.
LEMMA SendEffect ==
  ASSUME RecordsInv, NEW e \in Edits, SendEdit(e)
  PROVE  /\ UNCHANGED records /\ edit[e].at = "idle"
         /\ \A f \in Edits \ {e} : edit'[f] = edit[f]
         /\ edit'[e].at \in {"scoping", "checking", "writing", "finding", "refused"}
         /\ AttendeeEdit(e)' =>
              /\ edit'[e].at = "scoping"
              /\ \E a \in attendees : edit'[e].doc = a.id /\ edit'[e].meeting = a.meeting
         /\ ItemEdit(e)' =>
              /\ edit'[e].at \in {"finding", "refused"}
              /\ \E i \in actionItems : edit'[e].doc = i.id
         /\ ~AttendeeEdit(e)' =>
              /\ edit'[e].at # "scoping"
              /\ edit'[e].at # "refused" =>
                   /\ FindsMeeting(edit'[e].user, edit'[e].meeting)
                   /\ edit'[e].user = Owner[edit'[e].meeting]
              /\ edit'[e].at = "checking" => edit'[e].op = "addAttendee"
         /\ ~AttendeeEdit(e)' /\ ~ItemEdit(e)' => edit'[e].doc = Null
<1>1. edit \in [Edits -> Edit]  BY DEF RecordsInv, RecordsTypeOK
<1> DEFINE Req(u, m, s, op, d, x) ==
             /\ UNCHANGED records /\ edit[e].at = "idle"
             /\ \A g \in Edits \ {e} : edit'[g] = edit[g]
             /\ edit'[e].at = IF FindsMeeting(u, m) THEN s ELSE "refused"
             /\ edit'[e].op = op /\ edit'[e].user = u /\ edit'[e].meeting = m
             /\ edit'[e].doc = d /\ edit'[e].value = x
<1>2. ASSUME NEW u, NEW m, NEW s, NEW op, NEW d, NEW x, NEW f, ScopedRequest(e, u, m, s, op, d, x, f)
      PROVE  Req(u, m, s, op, d, x)
  BY <1>1, <1>2 DEF ScopedRequest, MaySend
<1> HIDE DEF Req
<1>3. ASSUME NEW u, NEW op, NEW a, NEW x, LoadAttendee(e, u, op, a, x)
      PROVE  /\ UNCHANGED records /\ edit[e].at = "idle"
             /\ \A g \in Edits \ {e} : edit'[g] = edit[g]
             /\ edit'[e].at = "scoping" /\ edit'[e].op = op
             /\ edit'[e].meeting = a.meeting /\ edit'[e].doc = a.id
  BY <1>1, <1>3 DEF LoadAttendee, MaySend
<1>4. PICK u \in Users :
        \/ UpdateAttendee(e, u) \/ DeleteAttendee(e, u)
        \/ \E m \in Meetings :
             \/ AddAttendee(e, u, m) \/ CreateActionItem(e, u, m) \/ UpdateActionItem(e, u, m)
             \/ DeleteActionItem(e, u, m) \/ SetTranscript(e, u, m) \/ DeleteMeeting(e, u, m)
  BY DEF SendEdit
<1> USE DEF AttendeeEdit, ItemEdit, FindsMeeting
<1>5. CASE UpdateAttendee(e, u) \/ DeleteAttendee(e, u)
  <2>1. PICK a \in attendees, op \in {"updateAttendee", "deleteAttendee"}, x \in Emails \cup {Null} :
          LoadAttendee(e, u, op, a, x)
    BY <1>5 DEF UpdateAttendee, DeleteAttendee
  <2> QED  BY <2>1, <1>3
<1>7. CASE \E m \in Meetings : AddAttendee(e, u, m)
  <2>1. PICK m \in Meetings, x \in Emails \cup {Null}, f \in Flags :
          ScopedRequest(e, u, m, IF x = Null THEN "writing" ELSE "checking", "addAttendee", Null, x, f)
    BY <1>7 DEF AddAttendee
  <2> DEFINE s == IF x = Null THEN "writing" ELSE "checking"
  <2>2. Req(u, m, s, "addAttendee", Null, x)  BY <2>1, <1>2
  <2>3. s \in {"writing", "checking"}  OBVIOUS
  <2> HIDE DEF s
  <2> QED  BY <2>2, <2>3 DEF Req
<1>8. CASE \E m \in Meetings : CreateActionItem(e, u, m)
  <2>1. PICK m \in Meetings : CreateActionItem(e, u, m)  BY <1>8
  <2>2. PICK x \in AssigneeIds, f \in Flags :
          ScopedRequest(e, u, m, "writing", "createActionItem", Null, x, f)
    BY <2>1 DEF CreateActionItem
  <2>3. Req(u, m, "writing", "createActionItem", Null, x)  BY <2>2, <1>2
  <2> QED  BY <2>3 DEF Req
<1>9. CASE \E m \in Meetings : UpdateActionItem(e, u, m)
  <2>1. PICK m \in Meetings : UpdateActionItem(e, u, m)  BY <1>9
  <2>2. PICK i \in actionItems, x \in AssigneeIds :
          ScopedRequest(e, u, m, "finding", "updateActionItem", i.id, x, FALSE)
    BY <2>1 DEF UpdateActionItem
  <2>3. Req(u, m, "finding", "updateActionItem", i.id, x)  BY <2>2, <1>2
  <2> QED  BY <2>3 DEF Req
<1>10. CASE \E m \in Meetings : DeleteActionItem(e, u, m)
  <2>1. PICK m \in Meetings, i \in actionItems :
          ScopedRequest(e, u, m, "finding", "deleteActionItem", i.id, Null, FALSE)
    BY <1>10 DEF DeleteActionItem
  <2>2. Req(u, m, "finding", "deleteActionItem", i.id, Null)  BY <2>1, <1>2
  <2> QED  BY <2>2 DEF Req
<1>11. CASE \E m \in Meetings : SetTranscript(e, u, m) \/ DeleteMeeting(e, u, m)
  <2>1. PICK m \in Meetings, op \in {"setTranscript", "deleteMeeting"} :
          ScopedRequest(e, u, m, "writing", op, Null, Null, FALSE)
    BY <1>11 DEF SetTranscript, DeleteMeeting
  <2>2. Req(u, m, "writing", op, Null, Null)  BY <2>1, <1>2
  <2> QED  BY <2>2 DEF Req
<1> QED  BY <1>4, <1>5, <1>7, <1>8, <1>9, <1>10, <1>11

\* A request that goes on carries what it was sent with.
Carries(e) ==
  /\ edit'[e].op = edit[e].op /\ edit'[e].user = edit[e].user
  /\ edit'[e].meeting = edit[e].meeting /\ edit'[e].doc = edit[e].doc
  /\ edit'[e].value = edit[e].value
  /\ \A f \in Edits \ {e} : edit'[f] = edit[f]

LEMMA GotoCarries ==
  ASSUME RecordsInv, NEW e \in Edits, NEW s, Goto(e, s)
  PROVE  Carries(e) /\ edit'[e].at = s /\ edit'[e].was = edit[e].was
BY DEF RecordsInv, RecordsTypeOK, Edit, Goto, Carries

LEMMA PatchedAttendee ==
  ASSUME NEW C \in SUBSET Attendee, NEW d, NEW x, NEW c \in Patched(C, d, "email", x)
  PROVE  \E k \in C : /\ c = IF k.id = d THEN [k EXCEPT !.email = x] ELSE k
                      /\ c.id = k.id /\ c.meeting = k.meeting /\ c.ai = k.ai
                      /\ c.email = IF k.id = d THEN x ELSE k.email
BY DEF Patched, Attendee

LEMMA PatchedItem ==
  ASSUME NEW C \in SUBSET ActionItem, NEW d, NEW x, NEW c \in Patched(C, d, "assignee", x)
  PROVE  \E k \in C : /\ c = IF k.id = d THEN [k EXCEPT !.assignee = x] ELSE k
                      /\ c.id = k.id /\ c.meeting = k.meeting /\ c.ai = k.ai
                      /\ c.assignee = IF k.id = d THEN x ELSE k.assignee
BY DEF Patched, ActionItem

\* Where the documents stored after a step of a request come from.
AttendeeFrom(e, a) ==
  \/ \E k \in attendees : k.id = a.id /\ k.meeting = a.meeting
  \/ /\ Writes(e, "addAttendee") /\ a.id = <<e, 1>> /\ a.meeting = edit[e].meeting
     /\ UNCHANGED actionItems /\ edit'[e].at = "done"
ItemFrom(e, i) ==
  \/ \E k \in actionItems : /\ k.id = i.id /\ k.meeting = i.meeting
                            /\ \/ k.assignee = i.assignee
                               \/ /\ Writes(e, "updateActionItem") /\ i.id = edit[e].doc
                                  /\ i.assignee = edit[e].value
  \/ /\ Writes(e, "createActionItem") /\ i.id = <<e, 1>> /\ i.meeting = edit[e].meeting
     /\ i.assignee = edit[e].value /\ edit'[e].at = "done"

LEMMA RunEffect ==
  ASSUME RecordsInv, NEW e \in Edits, RunEdit(e) \/ LoseEdit(e)
  PROVE  /\ Carries(e) /\ edit[e].at \notin {"idle", "done"} /\ edit'[e].at # "idle"
         /\ edit'[e].at \in {"checking", "writing"} =>
              \/ ScopeAttendee(e) /\ FindsMeeting(edit[e].user, edit[e].meeting)
              \/ edit[e].at = "checking" /\ edit'[e].at = "writing"
              \/ FindActionItem(e)
         /\ edit'[e].at \notin {"scoping", "finding"}
         /\ edit'[e].at = "trimming" => edit[e].at = "writing"
         /\ \A a \in attendees' : AttendeeFrom(e, a)
         /\ \A i \in actionItems' : ItemFrom(e, i)
<1>1. attendees \subseteq Attendee /\ actionItems \subseteq ActionItem /\ edit \in [Edits -> Edit]
  BY DEF RecordsInv, RecordsTypeOK
<1>2. UNCHANGED attendees => \A a \in attendees' : AttendeeFrom(e, a)  BY DEF AttendeeFrom
<1>3. UNCHANGED actionItems => \A i \in actionItems' : ItemFrom(e, i)  BY DEF ItemFrom
<1>4. CASE ScopeAttendee(e)
  BY <1>2, <1>3, <1>4, GotoCarries DEF ScopeAttendee, records
<1>5. CASE CheckEmail(e)
  BY <1>2, <1>3, <1>5, GotoCarries DEF CheckEmail, records
<1>6. CASE FindActionItem(e)
  <2>1. ASSUME NEW i, edit' = [edit EXCEPT ![e].at = "writing", ![e].was = i.assignee]
        PROVE  Carries(e) /\ edit'[e].at = "writing"
    <3>1. edit'[e] = [edit[e] EXCEPT !.at = "writing", !.was = i.assignee]
          /\ \A f \in Edits \ {e} : edit'[f] = edit[f]
      BY <1>1, <2>1
    <3> QED  BY <1>1, <3>1 DEF Carries, Edit
  <2> QED  BY <1>2, <1>3, <1>6, <2>1, GotoCarries DEF FindActionItem, records
<1>7. CASE InsertAttendee(e)
  <2> DEFINE n == [id |-> <<e, 1>>, meeting |-> edit[e].meeting, email |-> edit[e].value, ai |-> edit[e].ai]
  <2>1. /\ attendees' = attendees \cup {n} /\ n.id = <<e, 1>> /\ n.meeting = edit[e].meeting
        /\ Writes(e, "addAttendee") /\ Goto(e, "done") /\ UNCHANGED actionItems
    BY <1>7 DEF InsertAttendee
  <2> HIDE DEF n
  <2>2. Carries(e) /\ edit'[e].at = "done"  BY <2>1, GotoCarries
  <2>3. \A a \in attendees' : AttendeeFrom(e, a)  BY <2>1, <2>2 DEF AttendeeFrom
  <2> QED  BY <1>3, <2>1, <2>2, <2>3 DEF Writes
<1>8. CASE SaveAttendee(e)
  <2>1. \A a \in attendees' : AttendeeFrom(e, a)
    BY <1>1, <1>8, PatchedAttendee DEF SaveAttendee, AttendeeFrom
  <2> QED  BY <1>3, <1>8, <2>1, GotoCarries DEF SaveAttendee, Writes
<1>9. CASE RemoveAttendee(e)
  <2>1. \A a \in attendees' : AttendeeFrom(e, a)  BY <1>9 DEF RemoveAttendee, Without, AttendeeFrom
  <2> QED  BY <1>3, <1>9, <2>1, GotoCarries DEF RemoveAttendee, Writes
<1>10. CASE InsertActionItem(e)
  <2> DEFINE n == [id |-> <<e, 1>>, meeting |-> edit[e].meeting, assignee |-> edit[e].value, ai |-> edit[e].ai]
  <2>1. /\ actionItems' = actionItems \cup {n} /\ n.id = <<e, 1>> /\ n.meeting = edit[e].meeting
        /\ n.assignee = edit[e].value
        /\ Writes(e, "createActionItem") /\ Goto(e, "done") /\ UNCHANGED attendees
    BY <1>10 DEF InsertActionItem
  <2> HIDE DEF n
  <2>2. Carries(e) /\ edit'[e].at = "done"  BY <2>1, GotoCarries
  <2>3. \A i \in actionItems' : ItemFrom(e, i)  BY <2>1, <2>2 DEF ItemFrom
  <2> QED  BY <1>2, <2>1, <2>2, <2>3 DEF Writes
<1>11. CASE SaveActionItem(e)
  <2>1. \A i \in actionItems' : ItemFrom(e, i)
    BY <1>1, <1>11, PatchedItem DEF SaveActionItem, ItemFrom
  <2> QED  BY <1>2, <1>11, <2>1, GotoCarries DEF SaveActionItem, Writes
<1>12. CASE RemoveActionItem(e)
  <2>1. \A i \in actionItems' : ItemFrom(e, i)  BY <1>12 DEF RemoveActionItem, Without, ItemFrom
  <2> QED  BY <1>2, <1>12, <2>1, GotoCarries DEF RemoveActionItem, Writes
<1>13. CASE StoreTranscript(e) \/ RemoveMeeting(e) \/ RemoveTranscripts(e)
  BY <1>2, <1>3, <1>13, GotoCarries DEF StoreTranscript, RemoveMeeting, RemoveTranscripts, Writes
<1>14. CASE LoseEdit(e)
  BY <1>2, <1>3, <1>14, GotoCarries DEF LoseEdit, EditOpen, records
<1> QED
  BY <1>4, <1>5, <1>6, <1>7, <1>8, <1>9, <1>10, <1>11, <1>12, <1>13, <1>14 DEF RunEdit

\* Who made a document stays made, and a document not made yet is named by
\* nobody.
LEMMA MadeKept ==
  ASSUME NEW e \in Edits, edit[e].at # "done", \A f \in Edits \ {e} : edit'[f] = edit[f], NEW d,
         EditMade(d)
  PROVE  EditMade(d)' /\ d # <<e, 1>>
<1>1. <<e, 1>> \in DocId /\ <<e, 1>>[1] = e /\ <<e, 1>> # Null
  BY RecordsAssumption DEF DocId
<1> QED  BY <1>1 DEF EditMade

\* The ids stay unique.
LEMMA UniqueStep ==
  ASSUME RecordsInv, Identities, NEW e \in Edits, EditStep(e)
  PROVE  /\ \A a, b \in attendees' : a.id = b.id => a = b
         /\ \A i, j \in actionItems' : i.id = j.id => i = j
<1>1. attendees \subseteq Attendee /\ actionItems \subseteq ActionItem
  BY DEF RecordsInv, RecordsTypeOK
<1>2. /\ \A a, b \in attendees : a.id = b.id => a = b
      /\ \A i, j \in actionItems : i.id = j.id => i = j
  BY DEF Identities
<1>3. edit[e].at # "done" =>
        (\A a \in attendees : a.id # <<e, 1>>) /\ (\A i \in actionItems : i.id # <<e, 1>>)
  <2>1. <<e, 1>>[1] = e /\ <<e, 1>> # Null  BY RecordsAssumption DEF DocId
  <2> QED  BY <2>1 DEF Identities, EditMade
<1>4. CASE UNCHANGED records  BY <1>2, <1>4 DEF records
<1>5. CASE InsertAttendee(e)
  <2> DEFINE n == [id |-> <<e, 1>>, meeting |-> edit[e].meeting, email |-> edit[e].value, ai |-> edit[e].ai]
  <2>1. attendees' = attendees \cup {n} /\ n.id = <<e, 1>> /\ UNCHANGED actionItems
    BY <1>5 DEF InsertAttendee
  <2>2. edit[e].at # "done"  BY <1>5 DEF InsertAttendee, Writes
  <2> HIDE DEF n
  <2> QED  BY <1>2, <1>3, <2>1, <2>2
<1>6. CASE InsertActionItem(e)
  <2> DEFINE n == [id |-> <<e, 1>>, meeting |-> edit[e].meeting, assignee |-> edit[e].value, ai |-> edit[e].ai]
  <2>1. actionItems' = actionItems \cup {n} /\ n.id = <<e, 1>> /\ UNCHANGED attendees
    BY <1>6 DEF InsertActionItem
  <2>2. edit[e].at # "done"  BY <1>6 DEF InsertActionItem, Writes
  <2> HIDE DEF n
  <2> QED  BY <1>2, <1>3, <2>1, <2>2
<1>7. CASE SaveAttendee(e)
  <2>1. ASSUME NEW d, NEW x, NEW a \in Patched(attendees, d, "email", x),
               NEW b \in Patched(attendees, d, "email", x), a.id = b.id
        PROVE  a = b
    <3> DEFINE on(k) == IF k.id = d THEN [k EXCEPT !.email = x] ELSE k
    <3>a. \A k \in attendees : on(k).id = k.id  BY <1>1 DEF Attendee
    <3>b. Patched(attendees, d, "email", x) = {on(k) : k \in attendees}  BY DEF Patched
    <3> HIDE DEF on
    <3>1. PICK k \in attendees : a = on(k) /\ a.id = k.id  BY <3>a, <3>b
    <3>2. PICK l \in attendees : b = on(l) /\ b.id = l.id  BY <3>a, <3>b
    <3>3. k = l  BY <1>2, <2>1, <3>1, <3>2
    <3> QED  BY <3>1, <3>2, <3>3
  <2> QED  BY <1>2, <1>7, <2>1 DEF SaveAttendee
<1>8. CASE SaveActionItem(e)
  <2>1. ASSUME NEW d, NEW x, NEW a \in Patched(actionItems, d, "assignee", x),
               NEW b \in Patched(actionItems, d, "assignee", x), a.id = b.id
        PROVE  a = b
    <3> DEFINE on(k) == IF k.id = d THEN [k EXCEPT !.assignee = x] ELSE k
    <3>a. \A k \in actionItems : on(k).id = k.id  BY <1>1 DEF ActionItem
    <3>b. Patched(actionItems, d, "assignee", x) = {on(k) : k \in actionItems}  BY DEF Patched
    <3> HIDE DEF on
    <3>1. PICK k \in actionItems : a = on(k) /\ a.id = k.id  BY <3>a, <3>b
    <3>2. PICK l \in actionItems : b = on(l) /\ b.id = l.id  BY <3>a, <3>b
    <3>3. k = l  BY <1>2, <2>1, <3>1, <3>2
    <3> QED  BY <3>1, <3>2, <3>3
  <2> QED  BY <1>2, <1>8, <2>1 DEF SaveActionItem
<1>9. CASE RemoveAttendee(e) \/ RemoveActionItem(e)
  BY <1>2, <1>9 DEF RemoveAttendee, RemoveActionItem, Without
<1>10. CASE StoreTranscript(e) \/ RemoveMeeting(e) \/ RemoveTranscripts(e)
  BY <1>2, <1>10 DEF StoreTranscript, RemoveMeeting, RemoveTranscripts
<1>11. ScopeAttendee(e) \/ CheckEmail(e) \/ FindActionItem(e) \/ LoseEdit(e) => UNCHANGED records
  BY DEF ScopeAttendee, CheckEmail, FindActionItem, LoseEdit
<1>12. SendEdit(e) => UNCHANGED records  BY SendEffect
<1> QED  BY <1>4, <1>5, <1>6, <1>7, <1>8, <1>9, <1>10, <1>11, <1>12 DEF EditStep, RunEdit

LEMMA IntegritySent ==
  ASSUME RecordsInv, Integrity, NEW e \in Edits, SendEdit(e)
  PROVE  Integrity'
<1>1. /\ UNCHANGED <<attendees, actionItems>> /\ edit[e].at = "idle"
      /\ \A f \in Edits \ {e} : edit'[f] = edit[f]
  BY SendEffect DEF records
<1>2. \A d : EditMade(d) => EditMade(d)'  BY <1>1, MadeKept
<1>3. EditMade(Null)'  BY DEF EditMade
<1>4. /\ (\A a \in attendees : EditMade(a.id))'
      /\ (\A i \in actionItems : EditMade(i.id))'
      /\ \A a \in attendees : EditMade(a.id)'
      /\ \A i \in actionItems : EditMade(i.id)'
  BY <1>1, <1>2 DEF Integrity, Identities
<1>5. EditMade(edit[e].doc)'
  <2>1. edit'[e].doc = Null \/ (\E a \in attendees : edit'[e].doc = a.id)
          \/ \E i \in actionItems : edit'[e].doc = i.id
    BY SendEffect
  <2> QED  BY <1>3, <1>4, <2>1
<1>6. ASSUME NEW f \in Edits PROVE EditMade(edit[f].doc)'
  <2>1. CASE f = e  BY <1>5, <2>1
  <2>2. CASE f # e
    <3>1. edit'[f] = edit[f]  BY <1>1, <2>2
    <3>2. EditMade(edit[f].doc)  BY DEF Integrity, Identities
    <3> QED  BY <1>2, <3>1, <3>2
  <2> QED  BY <2>1, <2>2
<1>7. Identities'
  BY <1>1, <1>4, <1>6, UniqueStep DEF Integrity, Identities, EditStep
<1>8. ASSUME NEW f \in Edits PROVE ScopedEdit(f)'
  <2>1. CASE f # e
    <3>1. edit'[f] = edit[f]  BY <1>1, <2>1
    <3> QED  BY <1>1, <3>1 DEF Integrity, ScopedEdit, AttendeeEdit, ItemEdit
  <2>2. CASE f = e
    <3>1. \A a, b \in attendees : a.id = b.id => a = b  BY DEF Integrity, Identities
    <3>2. AttendeeEdit(e)' =>
            \A a \in attendees' : a.id = edit'[e].doc => a.meeting = edit'[e].meeting
      BY <1>1, <3>1, SendEffect
    <3>3. /\ edit'[e].at = "scoping" => AttendeeEdit(e)'
          /\ edit'[e].at = "checking" => edit'[e].op \in {"addAttendee", "updateAttendee"}
          /\ edit'[e].at \in {"finding", "checking", "writing", "trimming"}
               => edit'[e].user = Owner[edit'[e].meeting]
          /\ ItemEdit(e)' => edit'[e].at # "writing"
      BY SendEffect
    <3> QED  BY <2>2, <3>2, <3>3 DEF ScopedEdit
  <2> QED  BY <2>1, <2>2
<1> QED  BY <1>7, <1>8 DEF Integrity

LEMMA IntegrityRun ==
  ASSUME RecordsInv, Integrity, NEW e \in Edits, RunEdit(e) \/ LoseEdit(e)
  PROVE  Integrity'
<1>1. /\ Carries(e) /\ edit[e].at \notin {"idle", "done"}
      /\ \A a \in attendees' : AttendeeFrom(e, a)
      /\ \A i \in actionItems' : ItemFrom(e, i)
  BY RunEffect
<1>2. \A f \in Edits \ {e} : edit'[f] = edit[f]  BY <1>1 DEF Carries
<1>3. \A d : EditMade(d) => EditMade(d)' /\ d # <<e, 1>>  BY <1>1, <1>2, MadeKept
<1>4. edit'[e].at = "done" => EditMade(<<e, 1>>)'  BY DEF EditMade
<1>5. \A a \in attendees' : EditMade(a.id)'
  BY <1>1, <1>3, <1>4 DEF AttendeeFrom, Integrity, Identities
<1>6. \A i \in actionItems' : EditMade(i.id)'
  BY <1>1, <1>3, <1>4 DEF ItemFrom, Integrity, Identities
<1>7. ASSUME NEW f \in Edits PROVE EditMade(edit[f].doc)'
  <2>1. edit'[f].doc = edit[f].doc  BY <1>1 DEF Carries
  <2>2. EditMade(edit[f].doc)  BY DEF Integrity, Identities
  <2> QED  BY <1>3, <2>1, <2>2
<1>8. Identities'
  BY <1>5, <1>6, <1>7, UniqueStep DEF Integrity, Identities, EditStep
<1>9. ASSUME NEW f \in Edits PROVE ScopedEdit(f)'
  <2>1. /\ edit'[f].doc = edit[f].doc
        /\ edit'[f].op = edit[f].op /\ edit'[f].meeting = edit[f].meeting
        /\ edit'[f].user = edit[f].user
    BY <1>1 DEF Carries
  <2>2. ScopedEdit(f)  BY DEF Integrity
  <2>3. EditMade(edit[f].doc)  BY DEF Integrity, Identities
  <2>4. AttendeeEdit(f)' => \A a \in attendees' : a.id = edit'[f].doc => a.meeting = edit'[f].meeting
    BY <1>1, <1>3, <2>1, <2>2, <2>3 DEF AttendeeFrom, ScopedEdit, AttendeeEdit
  <2>5. /\ edit'[f].at = "scoping" => AttendeeEdit(f)'
        /\ edit'[f].at = "checking" => edit'[f].op \in {"addAttendee", "updateAttendee"}
        /\ edit'[f].at \in {"finding", "checking", "writing", "trimming"}
             => edit'[f].user = Owner[edit'[f].meeting]
    <3>1. CASE f # e  BY <1>2, <2>2, <3>1 DEF ScopedEdit, AttendeeEdit
    <3>2. CASE f = e
      <4>1. FindActionItem(e) => edit[e].at = "finding" /\ edit'[e].at # "checking"
        <5>1. CASE FindActionItem(e) /\ Goto(e, "refused")  BY <5>1, GotoCarries DEF FindActionItem
        <5>2. CASE \E i \in ItemsFound(edit[e].meeting, edit[e].doc) :
                     edit' = [edit EXCEPT ![e].at = "writing", ![e].was = i.assignee]
          <6>1. edit'[e].at = "writing"
            BY <5>2 DEF RecordsInv, RecordsTypeOK, Edit
          <6> QED  BY <6>1 DEF FindActionItem
        <5> QED  BY <5>1, <5>2 DEF FindActionItem
      <4>2. edit'[e].at = "checking" => edit'[e].op \in {"addAttendee", "updateAttendee"}
        <5>1. ScopeAttendee(e) /\ edit'[e].at = "checking" => edit[e].op = "updateAttendee"
          BY GotoCarries DEF ScopeAttendee
        <5> QED  BY <2>1, <3>2, <4>1, <5>1, RunEffect
      <4>3. edit'[e].at \in {"checking", "writing", "trimming"} => edit[e].user = Owner[edit[e].meeting]
        BY <2>2, <3>2, <4>1, RunEffect DEF ScopedEdit, FindsMeeting
      <4> QED  BY <2>1, <3>2, <4>2, <4>3, RunEffect
    <3> QED  BY <3>1, <3>2
  <2>6. ItemEdit(f)' /\ edit'[f].at = "writing" =>
          \A i \in actionItems' : i.id = edit'[f].doc => i.meeting = edit'[f].meeting
    <3>1. CASE edit[f].at = "writing"
      BY <1>1, <1>3, <2>1, <2>2, <2>3, <3>1 DEF ItemFrom, ScopedEdit, ItemEdit
    <3>2. CASE f # e
      BY <1>1, <1>2, <1>3, <2>2, <2>3, <3>2 DEF ItemFrom, ScopedEdit, ItemEdit
    <3>3. CASE f = e /\ edit[f].at # "writing"
      <4> SUFFICES ASSUME ItemEdit(e)', edit'[e].at = "writing"
                   PROVE  \A i \in actionItems' : i.id = edit'[e].doc => i.meeting = edit'[e].meeting
        BY <3>3
      <4>1. FindActionItem(e)
        <5>1. ItemEdit(e)  BY <2>1, <3>3 DEF ItemEdit
        <5> QED  BY <2>2, <3>3, <5>1, RunEffect DEF ScopedEdit, ItemEdit, AttendeeEdit, ScopeAttendee
      <4>2. UNCHANGED actionItems  BY <4>1 DEF FindActionItem, records
      <4>3. ItemsFound(edit[e].meeting, edit[e].doc) # {}
        <5>1. Goto(e, "refused") => edit'[e].at = "refused"  BY GotoCarries
        <5> QED  BY <4>1, <5>1 DEF FindActionItem
      <4>4. \A i, j \in actionItems : i.id = j.id => i = j  BY DEF Integrity, Identities
      <4> QED  BY <2>1, <3>3, <4>2, <4>3, <4>4 DEF ItemsFound
    <3> QED  BY <3>1, <3>2, <3>3
  <2> QED  BY <2>4, <2>5, <2>6 DEF ScopedEdit
<1> QED  BY <1>8, <1>9 DEF Integrity

LEMMA InitIntegrity == RecordsInit => Integrity
<1> SUFFICES ASSUME RecordsInit PROVE Integrity  OBVIOUS
<1>1. /\ attendees = FirstAttendees /\ actionItems = FirstItems
      /\ \A e \in Edits : edit[e].op = Null /\ edit[e].at = "idle" /\ edit[e].doc = Null
  BY DEF RecordsInit, Blank
<1>2. \A e \in Edits : ~AttendeeEdit(e) /\ ~ItemEdit(e)
  BY <1>1, RecordsAssumption DEF AttendeeEdit, ItemEdit, Operations
<1>3. /\ \A a \in attendees : a.id[1] \notin Edits
      /\ \A i \in actionItems : i.id[1] \notin Edits
  BY <1>1, RecordsAssumption
<1>4. Identities  BY <1>1, <1>2, <1>3, RecordsAssumption DEF Identities, EditMade
<1>5. \A e \in Edits : ScopedEdit(e)  BY <1>1, <1>2 DEF ScopedEdit
<1> QED  BY <1>4, <1>5 DEF Integrity

SoundRecords == RecordsInv /\ Integrity

LEMMA NextIntegrity == SoundRecords /\ [RecordsNext]_recordVars => SoundRecords'
<1>1. SoundRecords /\ UNCHANGED recordVars => SoundRecords'
  BY DEF SoundRecords, recordVars, records, RecordsInv, RecordsTypeOK, EditShape, Integrity,
         Identities, EditMade, ScopedEdit, AttendeeEdit, ItemEdit
<1>2. ASSUME SoundRecords, NEW e \in Edits, EditStep(e) PROVE SoundRecords'
  BY <1>2, EditKeepsShape, IntegritySent, IntegrityRun DEF SoundRecords, EditStep
<1> QED  BY <1>1, <1>2 DEF RecordsNext

LEMMA InitSound == RecordsInit => SoundRecords
BY InitShape, InitIntegrity DEF SoundRecords
-------------------------------------------------------------------------------
(***************************************************************************)
(* Action properties of the edits.                                         *)
(***************************************************************************)
\* A step of a request changes nothing but what belongs to the meeting the
\* request was checked against.
LEMMA OnlyItsMeeting ==
  ASSUME SoundRecords, NEW e \in Edits, EditStep(e), NEW m \in Meetings, Belongings(m)' # Belongings(m)
  PROVE  /\ m = edit[e].meeting /\ edit[e].user = Owner[m] /\ edit'[e] # edit[e]
<1> USE DEF SoundRecords
<1>1. /\ attendees \subseteq Attendee /\ actionItems \subseteq ActionItem
      /\ edit \in [Edits -> Edit] /\ meetingStatus \in [Meetings -> Status]
  BY DEF RecordsInv, RecordsTypeOK
<1>2. UNCHANGED records => Belongings(m)' = Belongings(m)  BY DEF Belongings, records
<1>3. edit[e].at \in {"writing", "trimming"} /\ ~SendEdit(e)
  <2>1. ~UNCHANGED records  BY <1>2
  <2> QED
    BY <2>1, SendEffect
       DEF EditStep, RunEdit, ScopeAttendee, CheckEmail, FindActionItem, LoseEdit, InsertAttendee,
           SaveAttendee, RemoveAttendee, InsertActionItem, SaveActionItem, RemoveActionItem,
           StoreTranscript, RemoveMeeting, RemoveTranscripts, Writes
<1>4. edit[e].user = Owner[edit[e].meeting]  BY <1>3 DEF Integrity, ScopedEdit
<1>5. edit'[e] # edit[e]
  <2>1. CASE RunEdit(e)
    <3>1. edit'[e].at \in {"done", "refused", "trimming"}
      BY <1>2, <2>1, GotoCarries
         DEF RunEdit, ScopeAttendee, CheckEmail, FindActionItem, InsertAttendee,
             SaveAttendee, RemoveAttendee, InsertActionItem, SaveActionItem, RemoveActionItem,
             StoreTranscript, RemoveMeeting, RemoveTranscripts
    <3>2. edit[e].at = "trimming" => edit'[e].at = "done"
      BY <2>1, GotoCarries
         DEF RunEdit, ScopeAttendee, CheckEmail, FindActionItem, InsertAttendee,
             SaveAttendee, RemoveAttendee, InsertActionItem, SaveActionItem, RemoveActionItem,
             StoreTranscript, RemoveMeeting, RemoveTranscripts, Writes
    <3> QED  BY <1>3, <3>1, <3>2
  <2> QED  BY <1>2, <1>3, <2>1 DEF EditStep, LoseEdit
<1>6. ASSUME m # edit[e].meeting PROVE Belongings(m)' = Belongings(m)
  <2> DEFINE A == {a \in attendees : a.meeting = m}
             I == {i \in actionItems : i.meeting = m}
  <2>1. CASE InsertAttendee(e)
    <3> DEFINE n == [id |-> <<e, 1>>, meeting |-> edit[e].meeting, email |-> edit[e].value, ai |-> edit[e].ai]
    <3>1. attendees' = attendees \cup {n} /\ n.meeting # m
          /\ UNCHANGED <<meetingStatus, transcribed, actionItems>>
      BY <1>6, <2>1 DEF InsertAttendee
    <3> HIDE DEF n
    <3>2. A' = A  BY <3>1
    <3> QED  BY <3>1, <3>2 DEF Belongings
  <2>2. CASE InsertActionItem(e)
    <3> DEFINE n == [id |-> <<e, 1>>, meeting |-> edit[e].meeting, assignee |-> edit[e].value, ai |-> edit[e].ai]
    <3>1. actionItems' = actionItems \cup {n} /\ n.meeting # m
          /\ UNCHANGED <<meetingStatus, transcribed, attendees>>
      BY <1>6, <2>2 DEF InsertActionItem
    <3> HIDE DEF n
    <3>2. I' = I  BY <3>1
    <3> QED  BY <3>1, <3>2 DEF Belongings
  <2>3. CASE SaveAttendee(e)
    <3>1. UNCHANGED <<meetingStatus, transcribed, actionItems>>  BY <2>3 DEF SaveAttendee
    <3>2. \A a \in attendees : a.id = edit[e].doc => a.meeting # m
      BY <1>6, <2>3 DEF SaveAttendee, Writes, Integrity, ScopedEdit, AttendeeEdit
    <3>3. ASSUME NEW d, NEW x, \A a \in attendees : a.id = d => a.meeting # m
          PROVE  {a \in Patched(attendees, d, "email", x) : a.meeting = m} = A
      <4> DEFINE on(k) == IF k.id = d THEN [k EXCEPT !.email = x] ELSE k
      <4>1. \A k \in attendees : on(k).meeting = k.meeting /\ (k.id # d => on(k) = k)
        BY <1>1 DEF Attendee
      <4>2. Patched(attendees, d, "email", x) = {on(k) : k \in attendees}  BY DEF Patched
      <4> HIDE DEF on
      <4> QED  BY <3>3, <4>1, <4>2
    <3>4. A' = A  BY <2>3, <3>2, <3>3 DEF SaveAttendee
    <3> QED  BY <3>1, <3>4 DEF Belongings
  <2>4. CASE SaveActionItem(e)
    <3>1. UNCHANGED <<meetingStatus, transcribed, attendees>>  BY <2>4 DEF SaveActionItem
    <3>2. \A i \in actionItems : i.id = edit[e].doc => i.meeting # m
      BY <1>6, <2>4 DEF SaveActionItem, Writes, Integrity, ScopedEdit, ItemEdit
    <3>3. ASSUME NEW d, NEW x, \A i \in actionItems : i.id = d => i.meeting # m
          PROVE  {i \in Patched(actionItems, d, "assignee", x) : i.meeting = m} = I
      <4> DEFINE on(k) == IF k.id = d THEN [k EXCEPT !.assignee = x] ELSE k
      <4>1. \A k \in actionItems : on(k).meeting = k.meeting /\ (k.id # d => on(k) = k)
        BY <1>1 DEF ActionItem
      <4>2. Patched(actionItems, d, "assignee", x) = {on(k) : k \in actionItems}  BY DEF Patched
      <4> HIDE DEF on
      <4> QED  BY <3>3, <4>1, <4>2
    <3>4. I' = I  BY <2>4, <3>2, <3>3 DEF SaveActionItem
    <3> QED  BY <3>1, <3>4 DEF Belongings
  <2>5. CASE RemoveAttendee(e)
    <3>1. \A a \in attendees : a.id = edit[e].doc => a.meeting # m
      BY <1>6, <2>5 DEF RemoveAttendee, Writes, Integrity, ScopedEdit, AttendeeEdit
    <3>2. A' = A  BY <2>5, <3>1 DEF RemoveAttendee, Without
    <3> QED  BY <2>5, <3>2 DEF RemoveAttendee, Belongings
  <2>6. CASE RemoveActionItem(e)
    <3>1. \A i \in actionItems : i.id = edit[e].doc => i.meeting # m
      BY <1>6, <2>6 DEF RemoveActionItem, Writes, Integrity, ScopedEdit, ItemEdit
    <3>2. I' = I  BY <2>6, <3>1 DEF RemoveActionItem, Without
    <3> QED  BY <2>6, <3>2 DEF RemoveActionItem, Belongings
  <2>7. CASE StoreTranscript(e) \/ RemoveTranscripts(e)
    <3>1. (m \in transcribed)' = (m \in transcribed)
      BY <1>6, <2>7 DEF StoreTranscript, RemoveTranscripts
    <3> QED  BY <2>7, <3>1 DEF StoreTranscript, RemoveTranscripts, Belongings
  <2>8. CASE RemoveMeeting(e)
    <3>1. meetingStatus'[m] = meetingStatus[m]  BY <1>1, <1>6, <2>8 DEF RemoveMeeting
    <3> QED  BY <2>8, <3>1 DEF RemoveMeeting, Belongings
  <2> QED
    BY <1>2, <1>3, <2>1, <2>2, <2>3, <2>4, <2>5, <2>6, <2>7, <2>8
       DEF EditStep, RunEdit, ScopeAttendee, CheckEmail, FindActionItem, LoseEdit
<1> QED  BY <1>4, <1>5, <1>6

\* Whatever ids requests name and however they overlap, what belongs to a
\* meeting is changed by requests of its owner only.
THEOREM OwnerScopedHolds == RecordsSpec => OwnerScoped
<1>1. SoundRecords /\ [RecordsNext]_recordVars =>
        [\A m \in Meetings : Belongings(m)' # Belongings(m) =>
           \E e \in Edits : edit'[e] # edit[e] /\ edit[e].user = Owner[m]]_recordVars
  BY OnlyItsMeeting DEF RecordsNext
<1> QED  BY <1>1, InitSound, NextIntegrity, PTL DEF RecordsSpec, OwnerScoped

\* An id that appears in a collection is that of the document its request inserts.
LEMMA NewIds ==
  ASSUME RecordsInv, NEW e \in Edits, EditStep(e)
  PROVE  /\ \A d \in Ids(attendees)' \ Ids(attendees) : d = <<e, 1>> /\ Writes(e, "addAttendee")
         /\ \A d \in Ids(actionItems)' \ Ids(actionItems) : d = <<e, 1>> /\ Writes(e, "createActionItem")
<1>1. CASE SendEdit(e)  BY <1>1, SendEffect DEF records, Ids
<1>2. CASE RunEdit(e) \/ LoseEdit(e)
  <2>1. /\ \A a \in attendees' : AttendeeFrom(e, a)
        /\ \A i \in actionItems' : ItemFrom(e, i)
    BY <1>2, RunEffect
  <2>2. \A a \in attendees' : a.id \in Ids(attendees) \/ (a.id = <<e, 1>> /\ Writes(e, "addAttendee"))
    BY <2>1 DEF AttendeeFrom, Ids
  <2>3. \A i \in actionItems' :
          i.id \in Ids(actionItems) \/ (i.id = <<e, 1>> /\ Writes(e, "createActionItem"))
    BY <2>1 DEF ItemFrom, Ids
  <2>4. \A d \in Ids(attendees)' : \E a \in attendees' : d = a.id  BY DEF Ids
  <2>5. \A d \in Ids(actionItems)' : \E i \in actionItems' : d = i.id  BY DEF Ids
  <2> QED  BY <2>2, <2>3, <2>4, <2>5
<1> QED  BY <1>1, <1>2 DEF EditStep

\* A document deleted while a request holds it is not inserted again.
THEOREM SavesInsertNothing == RecordsSpec => SavesNeverInsert
<1>1. RecordsInv /\ [RecordsNext]_recordVars =>
        [/\ \A d \in Ids(attendees)' \ Ids(attendees) :
              \E e \in Edits : d = <<e, 1>> /\ Writes(e, "addAttendee")
         /\ \A d \in Ids(actionItems)' \ Ids(actionItems) :
              \E e \in Edits : d = <<e, 1>> /\ Writes(e, "createActionItem")]_recordVars
  BY NewIds DEF RecordsNext
<1>2. SoundRecords => RecordsInv  BY DEF SoundRecords
<1> QED  BY <1>1, <1>2, InitSound, NextIntegrity, PTL DEF RecordsSpec, SavesNeverInsert
===============================================================================
