------------------------------ MODULE SoloProofs ------------------------------
(***************************************************************************)
(* Proofs about AiProcessing that follow a document from the task that     *)
(* makes it to the requests that name it, and proofs of what holds for     *)
(* clients that await the answer of a request before they send the next.   *)
(***************************************************************************)
EXTENDS AiProcessingProofs

(***************************************************************************)
(* Identities: a document of a generation is the one its task stored.      *)
(***************************************************************************)
RunMade(d) ==
  d # Null /\ d[1] \in Requests =>
    d[2] \in DOMAIN upsert[d[1]] /\ upsert[d[1]][d[2]].step = "ok"
RunFiled(d) ==
  d # Null /\ d[1] \in Requests =>
    d[2] \in DOMAIN filed[d[1]] /\ filed[d[1]][d[2]] = "filed"

\* What a task returned is an attendee of the meeting, while it exists.
TaskSound(p, i) ==
  LET d == upsert[p][i].doc IN
  /\ EditMade(d) /\ RunMade(d)
  /\ \A a \in attendees : a.id = d => a.meeting = target[p]

RunIdentities ==
  /\ \A a \in attendees : RunMade(a.id)
  /\ \A i \in actionItems : RunFiled(i.id)
  /\ \A e \in Edits :
       /\ AttendeeEdit(e) => RunMade(edit[e].doc)
       /\ ItemEdit(e) => RunFiled(edit[e].doc)
  /\ \A p \in Requests : \A i \in DOMAIN upsert[p] : TaskSound(p, i)

FiledLater == \A p \in Requests : at[p] = "upserting" => filed[p] = <<>>

SoundRuns == TypeInv /\ FiledLater /\ Integrity /\ RunIdentities

\* Advancing one task leaves the other tasks as they are.
LEMMA TaskSet ==
  ASSUME TypeOK, NEW p \in Requests, NEW i \in DOMAIN upsert[p], NEW s, NEW d,
         SetTask(p, i, s, d)
  PROVE  /\ upsert'[p][i].step = s /\ upsert'[p][i].doc = d
         /\ \A q \in Requests : DOMAIN upsert'[q] = DOMAIN upsert[q]
         /\ \A q \in Requests : \A j \in DOMAIN upsert[q] :
              q # p \/ j # i => upsert'[q][j] = upsert[q][j]
<1> DEFINE t == [step |-> s, doc |-> d]
<1>1. upsert \in [Requests -> Seq(Task)]  BY DEF TypeOK
<1>2. upsert' = [upsert EXCEPT ![p] = [upsert[p] EXCEPT ![i] = t]]  BY <1>1 DEF SetTask
<1>3. t.step = s /\ t.doc = d  OBVIOUS
<1> HIDE DEF t
<1>4. upsert'[p] = [upsert[p] EXCEPT ![i] = t] /\ \A q \in Requests : q # p => upsert'[q] = upsert[q]
  BY <1>1, <1>2
<1>5. DOMAIN upsert'[p] = DOMAIN upsert[p] /\ upsert'[p][i] = t
      /\ \A j \in DOMAIN upsert[p] : j # i => upsert'[p][j] = upsert[p][j]
  BY <1>4
<1> QED  BY <1>3, <1>4, <1>5

LEMMA FiledSet ==
  ASSUME TypeOK, NEW p \in Requests, NEW j \in DOMAIN filed[p], NEW s, SetFiled(p, j, s)
  PROVE  /\ filed'[p][j] = s
         /\ \A q \in Requests : DOMAIN filed'[q] = DOMAIN filed[q]
         /\ \A q \in Requests : \A k \in DOMAIN filed[q] :
              q # p \/ k # j => filed'[q][k] = filed[q][k]
<1>1. filed \in [Requests -> Seq({"filing", "filed", "failed"})]  BY DEF TypeOK
<1>2. filed' = [filed EXCEPT ![p] = [filed[p] EXCEPT ![j] = s]]  BY <1>1 DEF SetFiled
<1>3. filed'[p] = [filed[p] EXCEPT ![j] = s] /\ \A q \in Requests : q # p => filed'[q] = filed[q]
  BY <1>1, <1>2
<1> QED  BY <1>3

\* The tasks of a generation change only in these steps.
LEMMA TasksChange ==
  ASSUME TypeInv, NEW p \in Requests, RunStep(p) \/ Crash(p)
  PROVE  /\ upsert' = upsert \/ ModelAnswers(p) \/ AttendeeTask(p)
         /\ filed' = filed \/ AttendeesReady(p) \/ ItemTask(p)
         /\ attendees' = attendees \/ ClearAttendees(p) \/ \E i \in DOMAIN upsert[p] : CreateAttendee(p, i)
         /\ actionItems' = actionItems \/ ClearItems(p) \/ \E j \in DOMAIN filed[p] : FileItem(p, j)
         /\ edit' = edit /\ target' = target /\ transcribed' = transcribed
         /\ answer' = answer \/ ModelAnswers(p)
         /\ keep' = keep \/ FindManualAssignees(p)
BY DEF RunStep, LoadTranscript, FindManualAssignees, ClearItems, ClearAttendees,
       MarkProcessing, ModelAnswers, ModelFails, AttendeeTask, FindByEmail, CheckDuplicate,
       CreateAttendee, CreateAttendeeFails, AttendeesReady, AttendeesRejected, ItemTask,
       FileItem, FileItemFails, ItemsFiled, ItemsRejected, SaveResults, SaveFails, CompleteFails, FailFails,
       Complete, Fail, Crash, recordVars, records

LEMMA FiledLaterStep ==
  ASSUME TypeInv, FiledLater, [Next]_vars
  PROVE  FiledLater'
<1> SUFFICES ASSUME NEW p \in Requests, at'[p] = "upserting" PROVE filed'[p] = <<>>
  BY DEF FiledLater
<1>1. at \in [Requests -> RunStages] /\ (at[p] = "upserting" => filed[p] = <<>>)
  BY DEF TypeInv, TypeOK, RunStages, FiledLater
<1>2. CASE UNCHANGED vars  BY <1>1, <1>2 DEF vars, runVars
<1>3. ASSUME NEW q \in Requests, NEW u \in Users, NEW m \in Meetings, Generate(q, u, m)
      PROVE  filed'[p] = <<>>
  BY <1>1, <1>3 DEF Generate, Move
<1>4. ASSUME NEW q \in Requests, RunStep(q) \/ Crash(q), q # p  PROVE filed'[p] = <<>>
  BY <1>1, <1>4, TaskFrame
<1>5. CASE RunStep(p) \/ Crash(p)
  <2>1. CASE ModelAnswers(p)
    <3>1. at[p] = "asking" /\ filed' = filed  BY <2>1 DEF ModelAnswers, Move
    <3> QED  BY <3>1 DEF TypeInv, RunsShape
  <2>2. CASE AttendeeTask(p)
    BY <1>1, <2>2
       DEF AttendeeTask, FindByEmail, CheckDuplicate, CreateAttendee, CreateAttendeeFails
  <2>3. CASE ItemTask(p)
    <3>1. at' = at /\ filed[p] # <<>>
      <4>1. PICK j \in DOMAIN filed[p] : FileItem(p, j) \/ FileItemFails(p, j)
        BY <2>3 DEF ItemTask
      <4> QED  BY <4>1 DEF FileItem, FileItemFails
    <3> QED  BY <1>1, <3>1
  <2>4. CASE \/ LoadTranscript(p) \/ FindManualAssignees(p) \/ ClearItems(p) \/ ClearAttendees(p)
             \/ MarkProcessing(p) \/ ModelFails(p) \/ AttendeesReady(p) \/ AttendeesRejected(p)
             \/ ItemsFiled(p) \/ ItemsRejected(p) \/ SaveResults(p) \/ SaveFails(p)
             \/ CompleteFails(p) \/ Complete(p) \/ Fail(p) \/ FailFails(p) \/ Crash(p)
    <3>1. at'[p] # "upserting"
      BY <1>1, <2>4
         DEF LoadTranscript, FindManualAssignees, ClearItems, ClearAttendees, MarkProcessing,
             ModelFails, AttendeesReady, AttendeesRejected, ItemsFiled, ItemsRejected, SaveResults,
             SaveFails, CompleteFails, FailFails, Complete, Fail, Crash, Move
    <3> QED  BY <3>1
  <2> QED  BY <1>5, <2>1, <2>2, <2>3, <2>4 DEF RunStep
<1>6. ASSUME NEW e \in Edits, UserEdit(e)  PROVE filed'[p] = <<>>
  BY <1>1, <1>6 DEF UserEdit, runVars
<1> QED  BY <1>2, <1>3, <1>4, <1>5, <1>6 DEF Next

\* What a generation stored stays stored under that name.
LEMMA RunMadeKept ==
  ASSUME TypeInv, FiledLater, NEW p \in Requests, RunStep(p) \/ Crash(p), NEW d
  PROVE  /\ RunMade(d) => RunMade(d)'
         /\ RunFiled(d) => RunFiled(d)'
<1>1. ASSUME RunMade(d), d # Null, d[1] \in Requests
      PROVE  d[2] \in DOMAIN upsert'[d[1]] /\ upsert'[d[1]][d[2]].step = "ok"
  <2>1. d[2] \in DOMAIN upsert[d[1]] /\ upsert[d[1]][d[2]].step = "ok"  BY <1>1 DEF RunMade
  <2>2. CASE ModelAnswers(p)
    <3>1. at[p] = "asking"  BY <2>2 DEF ModelAnswers, Move
    <3>2. upsert[p] = <<>>  BY <3>1 DEF TypeInv, RunsShape
    <3>3. d[1] # p  BY <2>1, <3>2
    <3> QED  BY <1>1, <2>1, <3>3, TaskFrame
  <2>3. CASE AttendeeTask(p)
    <3>1. PICK i \in DOMAIN upsert[p] :
            FindByEmail(p, i) \/ CheckDuplicate(p, i) \/ CreateAttendee(p, i) \/ CreateAttendeeFails(p, i)
      BY <2>3 DEF AttendeeTask
    <3>2. \E s, x : SetTask(p, i, s, x)
      BY <3>1 DEF FindByEmail, CheckDuplicate, CreateAttendee, CreateAttendeeFails
    <3>3. upsert[p][i].step # "ok"
      BY <3>1 DEF FindByEmail, CheckDuplicate, CreateAttendee, CreateAttendeeFails, Upserting
    <3>4. d[1] # p \/ d[2] # i  BY <2>1, <3>3
    <3> QED  BY <1>1, <2>1, <3>2, <3>4, TaskSet DEF TypeInv
  <2>4. CASE upsert' = upsert  BY <2>1, <2>4
  <2> QED  BY <2>2, <2>3, <2>4, TasksChange
<1>2. ASSUME RunFiled(d), d # Null, d[1] \in Requests
      PROVE  d[2] \in DOMAIN filed'[d[1]] /\ filed'[d[1]][d[2]] = "filed"
  <2>1. d[2] \in DOMAIN filed[d[1]] /\ filed[d[1]][d[2]] = "filed"  BY <1>2 DEF RunFiled
  <2>2. CASE AttendeesReady(p)
    <3>1. filed[p] = <<>>  BY <2>2 DEF AttendeesReady, Move, FiledLater
    <3>2. d[1] # p  BY <2>1, <3>1
    <3> QED  BY <1>2, <2>1, <3>2, TaskFrame
  <2>3. CASE ItemTask(p)
    <3>1. PICK j \in DOMAIN filed[p] : FileItem(p, j) \/ FileItemFails(p, j)
      BY <2>3 DEF ItemTask
    <3>2. filed[p][j] # "filed" /\ \E s : SetFiled(p, j, s)
      BY <3>1 DEF FileItem, FileItemFails, Filing
    <3>3. d[1] # p \/ d[2] # j  BY <2>1, <3>2
    <3> QED  BY <1>2, <2>1, <3>2, <3>3, FiledSet DEF TypeInv
  <2>4. CASE filed' = filed  BY <2>1, <2>4
  <2> QED  BY <2>2, <2>3, <2>4, TasksChange
<1> QED  BY <1>1, <1>2 DEF RunMade, RunFiled

\* An item is filed under an attendee that a task of its generation returned.
LEMMA MatchedByTask ==
  ASSUME TypeInv, NEW p \in Requests, NEW j \in DOMAIN filed[p]
  PROVE  \/ MatchedAttendee(p, j) = Null
         \/ \E k \in DOMAIN upsert[p] : MatchedAttendee(p, j) = upsert[p][k].doc
<1>1. /\ upsert[p] \in Seq(Task)
      /\ answer[p].attendees \in Seq(Emails \cup {Null}) /\ answer[p].items \in Seq(Nat)
      /\ filed[p] \in Seq({"filing", "filed", "failed"})
  BY DEF TypeInv, TypeOK, Response
<1>2. /\ Len(upsert[p]) = Len(answer[p].attendees)
      /\ Len(filed[p]) \in {0, Len(answer[p].items)}
      /\ \A i \in DOMAIN answer[p].items : answer[p].items[i] <= Len(answer[p].attendees)
  BY DEF TypeInv, RunsShape
<1>3. j \in 1..Len(filed[p])  BY <1>1, LenProperties
<1>4. j \in 1..Len(answer[p].items)  BY <1>1, <1>2, <1>3, LenProperties
<1> DEFINE k == answer[p].items[j]
<1>5. k \in Nat /\ k <= Len(upsert[p])  BY <1>1, <1>2, <1>4, ElementOfSeq, LenProperties
<1>6. k # 0 => k \in DOMAIN upsert[p]  BY <1>1, <1>5, LenProperties
<1> QED  BY <1>6 DEF MatchedAttendee

\* A step of a generation stores one document at most, under a name that no
\* document and no request has used.
Stores(p, i, a) ==
  /\ upsert[p][i].step = "creating" /\ upsert'[p][i].step = "ok"
  /\ a.id = <<p, i>> /\ a.meeting = target[p] /\ a.email = EmailOf(p, i)
  /\ ~RunMade(<<p, i>>)
  /\ attendees' = attendees \cup {a} /\ actionItems' = actionItems
Files(p, j, k) ==
  /\ filed[p][j] = "filing" /\ filed'[p][j] = "filed"
  /\ k.id = <<p, j>> /\ k.meeting = target[p] /\ k.assignee = MatchedAttendee(p, j)
  /\ ~RunFiled(<<p, j>>)
  /\ actionItems' = actionItems \cup {k} /\ attendees' = attendees

LEMMA RunStores ==
  ASSUME TypeInv, NEW p \in Requests, RunStep(p) \/ Crash(p)
  PROVE  /\ \A a \in attendees' : a \in attendees \/ \E i \in DOMAIN upsert[p] : Stores(p, i, a)
         /\ \A k \in actionItems' : k \in actionItems \/ \E j \in DOMAIN filed[p] : Files(p, j, k)
<1>1. \A i : <<p, i>>[1] = p /\ <<p, i>>[2] = i  OBVIOUS
<1>2. ASSUME NEW i \in DOMAIN upsert[p], CreateAttendee(p, i)
      PROVE  \A a \in attendees' : a \in attendees \/ Stores(p, i, a)
  <2> DEFINE n == [id |-> <<p, i>>, meeting |-> target[p], email |-> EmailOf(p, i), ai |-> TRUE]
  <2>1. n.id = <<p, i>> /\ n.meeting = target[p] /\ n.email = EmailOf(p, i)  OBVIOUS
  <2>2. /\ attendees' = attendees \cup {n} /\ actionItems' = actionItems
        /\ upsert[p][i].step = "creating" /\ SetTask(p, i, "ok", <<p, i>>)
    BY <1>2 DEF CreateAttendee, Upserting
  <2> HIDE DEF n
  <2>3. upsert'[p][i].step = "ok"  BY <2>2, TaskSet DEF TypeInv
  <2>4. ~RunMade(<<p, i>>)
    <3>1. <<p, i>> # Null  BY TaskKnown, RecordsAssumption, AiAssumption DEF DocId
    <3> QED  BY <1>1, <2>2, <3>1 DEF RunMade
  <2> QED  BY <2>1, <2>2, <2>3, <2>4 DEF Stores
<1>3. ASSUME NEW j \in DOMAIN filed[p], FileItem(p, j)
      PROVE  \A k \in actionItems' : k \in actionItems \/ Files(p, j, k)
  <2> DEFINE n == [id |-> <<p, j>>, meeting |-> target[p], assignee |-> MatchedAttendee(p, j), ai |-> TRUE]
  <2>1. n.id = <<p, j>> /\ n.meeting = target[p] /\ n.assignee = MatchedAttendee(p, j)  OBVIOUS
  <2>2. /\ actionItems' = actionItems \cup {n} /\ attendees' = attendees
        /\ filed[p][j] = "filing" /\ SetFiled(p, j, "filed")
    BY <1>3 DEF FileItem, Filing
  <2> HIDE DEF n
  <2>3. filed'[p][j] = "filed"  BY <2>2, FiledSet DEF TypeInv
  <2>4. ~RunFiled(<<p, j>>)
    <3>1. <<p, j>> # Null  BY TaskKnown, RecordsAssumption, AiAssumption DEF DocId
    <3> QED  BY <1>1, <2>2, <3>1 DEF RunFiled
  <2> QED  BY <2>1, <2>2, <2>3, <2>4 DEF Files
<1>4. ClearAttendees(p) => attendees' \subseteq attendees  BY DEF ClearAttendees
<1>5. ClearItems(p) => actionItems' \subseteq actionItems  BY DEF ClearItems
<1> QED  BY <1>2, <1>3, <1>4, <1>5, TasksChange

LEMMA RunKeepsIntegrity ==
  ASSUME SoundRuns, NEW p \in Requests, RunStep(p) \/ Crash(p)
  PROVE  Integrity'
<1> USE DEF SoundRuns
<1>1. edit' = edit  BY TasksChange
<1>2. /\ \A a \in attendees' : a \in attendees \/ \E i \in DOMAIN upsert[p] : Stores(p, i, a)
      /\ \A k \in actionItems' : k \in actionItems \/ \E j \in DOMAIN filed[p] : Files(p, j, k)
  BY RunStores
<1>3. \A d : EditMade(d)' <=> EditMade(d)  BY <1>1 DEF EditMade
<1>4. \A i : EditMade(<<p, i>>)  BY AiAssumption DEF EditMade
\* The name of a new document is held by nobody.
<1>6. ASSUME NEW i \in DOMAIN upsert[p], NEW a \in attendees', Stores(p, i, a)
      PROVE  /\ \A b \in attendees : b.id # a.id
             /\ \A e \in Edits : AttendeeEdit(e) => edit[e].doc # a.id
  BY <1>6 DEF Stores, RunIdentities
<1>7. ASSUME NEW j \in DOMAIN filed[p], NEW k \in actionItems', Files(p, j, k)
      PROVE  /\ \A l \in actionItems : l.id # k.id
             /\ \A e \in Edits : ItemEdit(e) => edit[e].doc # k.id
  BY <1>7 DEF Files, RunIdentities
<1>8. Identities'
  <2>1. \A a \in attendees' : EditMade(a.id)'
    <3>1. \A a \in attendees : EditMade(a.id)  BY DEF Integrity, Identities
    <3>2. \A a, i : Stores(p, i, a) => EditMade(a.id)  BY <1>4 DEF Stores
    <3> QED  BY <1>2, <1>3, <3>1, <3>2
  <2>2. \A i \in actionItems' : EditMade(i.id)'
    <3>1. \A i \in actionItems : EditMade(i.id)  BY DEF Integrity, Identities
    <3>2. \A i : \A j \in DOMAIN filed[p] : Files(p, j, i) => EditMade(i.id)
      BY <1>4 DEF Files
    <3> QED  BY <1>2, <1>3, <3>1, <3>2
  <2>3. \A e \in Edits : EditMade(edit[e].doc)'
    BY <1>1, <1>3 DEF Integrity, Identities
  <2>4. \A a, b \in attendees' : a.id = b.id => a = b
    <3>1. \A a, b \in attendees : a.id = b.id => a = b  BY DEF Integrity, Identities
    <3>2. ASSUME NEW a \in attendees', NEW b \in attendees', a.id = b.id, a \notin attendees
          PROVE  a = b
      <4>1. PICK i \in DOMAIN upsert[p] : Stores(p, i, a)  BY <1>2, <3>2
      <4>2. attendees' = attendees \cup {a}  BY <4>1 DEF Stores
      <4> QED  BY <1>6, <3>2, <4>1, <4>2
    <3> QED  BY <3>1, <3>2
  <2>5. \A i, j \in actionItems' : i.id = j.id => i = j
    <3>1. \A i, j \in actionItems : i.id = j.id => i = j  BY DEF Integrity, Identities
    <3>2. ASSUME NEW i \in actionItems', NEW j \in actionItems', i.id = j.id, i \notin actionItems
          PROVE  i = j
      <4>1. PICK k \in DOMAIN filed[p] : Files(p, k, i)  BY <1>2, <3>2
      <4>2. actionItems' = actionItems \cup {i}  BY <4>1 DEF Files
      <4> QED  BY <1>7, <3>2, <4>1, <4>2
    <3> QED  BY <3>1, <3>2
  <2> QED  BY <1>1, <2>1, <2>2, <2>3, <2>4, <2>5 DEF Identities
<1>9. ASSUME NEW e \in Edits PROVE ScopedEdit(e)'
  <2>1. ScopedEdit(e)  BY DEF Integrity
  <2>2. /\ AttendeeEdit(e) => \A a \in attendees' : a.id = edit[e].doc => a.meeting = edit[e].meeting
        /\ ItemEdit(e) /\ edit[e].at = "writing" =>
             \A i \in actionItems' : i.id = edit[e].doc => i.meeting = edit[e].meeting
    BY <1>2, <1>6, <1>7, <2>1 DEF ScopedEdit
  <2> QED  BY <1>1, <2>1, <2>2 DEF ScopedEdit, AttendeeEdit, ItemEdit
<1> QED  BY <1>8, <1>9 DEF Integrity

LEMMA RunKeepsIdentities ==
  ASSUME SoundRuns, NEW p \in Requests, RunStep(p) \/ Crash(p)
  PROVE  RunIdentities'
<1> USE DEF SoundRuns
<1>1. edit' = edit /\ target' = target  BY TasksChange
<1>2. /\ \A a \in attendees' : a \in attendees \/ \E i \in DOMAIN upsert[p] : Stores(p, i, a)
      /\ \A k \in actionItems' : k \in actionItems \/ \E j \in DOMAIN filed[p] : Files(p, j, k)
  BY RunStores
<1>3. \A d : (RunMade(d) => RunMade(d)') /\ (RunFiled(d) => RunFiled(d)')  BY RunMadeKept
<1>4. \A d : EditMade(d) => EditMade(d)'  BY <1>1 DEF EditMade
<1>5. /\ DOMAIN upsert'[p] = DOMAIN upsert[p] \/ ModelAnswers(p)
      /\ DOMAIN filed'[p] = DOMAIN filed[p] \/ AttendeesReady(p)
  <2>1. AttendeeTask(p) => DOMAIN upsert'[p] = DOMAIN upsert[p]
    BY TaskSet
       DEF AttendeeTask, FindByEmail, CheckDuplicate, CreateAttendee, CreateAttendeeFails, TypeInv
  <2>2. ItemTask(p) => DOMAIN filed'[p] = DOMAIN filed[p]
    BY FiledSet DEF ItemTask, FileItem, FileItemFails, TypeInv
  <2> QED  BY <2>1, <2>2, TasksChange
<1>6. ASSUME NEW i \in DOMAIN upsert[p], NEW a, Stores(p, i, a)
      PROVE  RunMade(a.id)'
  <2>1. <<p, i>>[1] = p /\ <<p, i>>[2] = i  OBVIOUS
  <2>2. DOMAIN upsert'[p] = DOMAIN upsert[p]
    <3>1. ModelAnswers(p) => upsert[p] = <<>>
      BY DEF ModelAnswers, Move, TypeInv, RunsShape
    <3> QED  BY <1>5, <3>1
  <2> QED  BY <1>6, <2>1, <2>2 DEF Stores, RunMade
<1>7. ASSUME NEW j \in DOMAIN filed[p], NEW k, Files(p, j, k)
      PROVE  RunFiled(k.id)'
  <2>1. <<p, j>>[1] = p /\ <<p, j>>[2] = j  OBVIOUS
  <2>2. DOMAIN filed'[p] = DOMAIN filed[p]
    <3>1. AttendeesReady(p) => filed[p] = <<>>
      BY DEF AttendeesReady, Move, FiledLater
    <3> QED  BY <1>5, <3>1
  <2> QED  BY <1>7, <2>1, <2>2 DEF Files, RunFiled
<1>8. \A a \in attendees' : RunMade(a.id)'
  <2>1. \A a \in attendees : RunMade(a.id)  BY DEF RunIdentities
  <2> QED  BY <1>2, <1>3, <1>6, <2>1
<1>9. \A i \in actionItems' : RunFiled(i.id)'
  <2>1. \A i \in actionItems : RunFiled(i.id)  BY DEF RunIdentities
  <2> QED  BY <1>2, <1>3, <1>7, <2>1
<1>10. ASSUME NEW e \in Edits
       PROVE  (/\ AttendeeEdit(e) => RunMade(edit[e].doc)
               /\ ItemEdit(e) => RunFiled(edit[e].doc))'
  <2>1. /\ AttendeeEdit(e) => RunMade(edit[e].doc)
        /\ ItemEdit(e) => RunFiled(edit[e].doc)
    BY DEF RunIdentities
  <2>2. (AttendeeEdit(e)' <=> AttendeeEdit(e)) /\ (ItemEdit(e)' <=> ItemEdit(e))
    BY <1>1 DEF AttendeeEdit, ItemEdit
  <2>3. /\ RunMade(edit[e].doc) => RunMade(edit[e].doc)'
        /\ RunFiled(edit[e].doc) => RunFiled(edit[e].doc)'
    <3> DEFINE d == edit[e].doc
    <3>1. d = d'  BY <1>1
    <3> HIDE DEF d
    <3>2. (RunMade(d) => RunMade(d)') /\ (RunFiled(d) => RunFiled(d)')
      BY <1>3, <3>1 DEF RunMade, RunFiled
    <3> QED  BY <3>2 DEF d
  <2> QED  BY <2>1, <2>2, <2>3
<1>11. ASSUME NEW q \in Requests, NEW i \in DOMAIN upsert'[q]
       PROVE  TaskSound(q, i)'
  <2>1. CASE i \in DOMAIN upsert[q] /\ upsert'[q][i].doc = upsert[q][i].doc
    <3>1. TaskSound(q, i)  BY <2>1 DEF RunIdentities
    <3>2. \A a \in attendees' : a.id = upsert[q][i].doc => a.meeting = target[q]
      <4>1. RunMade(upsert[q][i].doc)
            /\ \A a \in attendees : a.id = upsert[q][i].doc => a.meeting = target[q]
        BY <3>1 DEF TaskSound
      <4>2. \A a : \A k \in DOMAIN upsert[p] : Stores(p, k, a) => ~RunMade(a.id)
        BY DEF Stores
      <4> QED  BY <1>2, <4>1, <4>2
    <3> QED  BY <1>1, <1>3, <1>4, <2>1, <3>1, <3>2 DEF TaskSound
  <2>2. CASE upsert'[q][i].doc = Null
    <3>1. \A a \in attendees' : a.id # Null
      <4>1. TypeInv'  BY RunStepTyped, PlainStepTyped
      <4> QED
        BY <4>1, RecordsAssumption DEF TypeInv, TypeOK, RecordsTypeOK, Attendee
    <3>2. RunMade(Null)' /\ EditMade(Null)'  BY DEF RunMade, EditMade
    <3> QED  BY <2>2, <3>1, <3>2 DEF TaskSound
  <2>3. CASE q = p /\ attendees' = attendees
             /\ \E a \in attendees : a.meeting = target[p] /\ upsert'[q][i].doc = a.id
    <3>1. PICK a \in attendees : a.meeting = target[p] /\ upsert'[q][i].doc = a.id  BY <2>3
    <3>2. EditMade(a.id) /\ RunMade(a.id)  BY DEF Integrity, Identities, RunIdentities
    <3>3. \A b \in attendees : b.id = a.id => b.meeting = target[p]
      BY <3>1 DEF Integrity, Identities
    <3> QED  BY <1>1, <1>3, <1>4, <2>3, <3>1, <3>2, <3>3 DEF TaskSound
  <2>4. CASE q = p /\ upsert'[q][i].doc = <<p, i>> /\ i \in DOMAIN upsert[p]
             /\ \E a \in attendees' : Stores(p, i, a)
    <3>1. PICK a \in attendees' : Stores(p, i, a)  BY <2>4
    <3>2. RunMade(<<p, i>>)'  BY <1>6, <2>4, <3>1 DEF Stores
    <3>3. EditMade(<<p, i>>)'  BY AiAssumption DEF EditMade
    <3>4. \A b \in attendees : b.id # <<p, i>>  BY <3>1 DEF Stores, RunIdentities
    <3>5. \A b \in attendees' : b.id = <<p, i>> => b.meeting = target[p]
      BY <3>1, <3>4 DEF Stores
    <3> QED  BY <1>1, <2>4, <3>2, <3>3, <3>5 DEF TaskSound
  <2>5. CASE q # p \/ upsert' = upsert  BY <2>1, <2>5, TaskFrame
  <2>6. CASE q = p /\ ModelAnswers(p)
    <3>1. PICK r \in Responses : upsert' = [upsert EXCEPT ![p] =
             [k \in 1..Len(r.attendees) |-> [step |-> FirstStep(r.attendees[k]), doc |-> Null]]]
      BY <2>6 DEF ModelAnswers
    <3>2. upsert'[p] = [k \in 1..Len(r.attendees) |-> [step |-> FirstStep(r.attendees[k]), doc |-> Null]]
      BY <3>1 DEF TypeInv, TypeOK
    <3>3. upsert'[p][i].doc = Null  BY <2>6, <3>2
    <3> QED  BY <2>2, <2>6, <3>3
  <2>7. CASE q = p /\ AttendeeTask(p)
    <3>1. PICK k \in DOMAIN upsert[p] :
            FindByEmail(p, k) \/ CheckDuplicate(p, k) \/ CreateAttendee(p, k) \/ CreateAttendeeFails(p, k)
      BY <2>7 DEF AttendeeTask
    <3>2. \E s, d : SetTask(p, k, s, d)
      BY <3>1 DEF FindByEmail, CheckDuplicate, CreateAttendee, CreateAttendeeFails
    <3>3. i \in DOMAIN upsert[p] /\ (i # k => upsert'[p][i] = upsert[p][i])
      BY <2>7, <3>2, TaskSet DEF TypeInv
    <3>4. CASE i # k  BY <2>1, <2>7, <3>3, <3>4
    <3>5. CASE i = k /\ FindByEmail(p, k)
      <4>1. attendees' = attendees  BY <3>5 DEF FindByEmail, recordVars, records
      <4>2. CASE SetTask(p, k, "checking", Null)
        BY <2>2, <2>7, <3>5, <4>2, TaskSet DEF TypeInv
      <4>3. CASE \E a \in WithEmail(target[p], EmailOf(p, k)) : SetTask(p, k, "ok", a.id)
        <5>1. PICK a \in WithEmail(target[p], EmailOf(p, k)) : SetTask(p, k, "ok", a.id)  BY <4>3
        <5>2. upsert'[p][k].doc = a.id  BY <5>1, TaskSet DEF TypeInv
        <5>3. a \in attendees /\ a.meeting = target[p]  BY <5>1 DEF WithEmail
        <5> QED  BY <2>3, <2>7, <3>5, <4>1, <5>2, <5>3
      <4> QED  BY <3>5, <4>2, <4>3 DEF FindByEmail
    <3>6. CASE i = k /\ (CheckDuplicate(p, k) \/ CreateAttendeeFails(p, k))
      <4>1. \E s : SetTask(p, k, s, Null)  BY <3>6 DEF CheckDuplicate, CreateAttendeeFails
      <4> QED  BY <2>2, <2>7, <3>6, <4>1, TaskSet DEF TypeInv
    <3>7. CASE i = k /\ CreateAttendee(p, k)
      <4>1. upsert'[p][k].doc = <<p, k>>  BY <3>7, TaskSet DEF CreateAttendee, TypeInv
      <4> DEFINE a == [id |-> <<p, k>>, meeting |-> target[p], email |-> EmailOf(p, k), ai |-> TRUE]
      <4>2. attendees' = attendees \cup {a} /\ a.id = <<p, k>>  BY <3>7 DEF CreateAttendee
      <4>a. ~RunMade(<<p, k>>)
        <5>1. upsert[p][k].step # "ok"  BY <3>7 DEF CreateAttendee, Upserting
        <5>2. <<p, k>> # Null  BY TaskKnown, RecordsAssumption, AiAssumption DEF DocId
        <5>3. <<p, k>>[1] = p /\ <<p, k>>[2] = k  OBVIOUS
        <5> QED  BY <5>1, <5>2, <5>3 DEF RunMade
      <4> HIDE DEF a
      <4>3. a \notin attendees  BY <4>2, <4>a DEF RunIdentities
      <4>4. PICK l \in DOMAIN upsert[p] : Stores(p, l, a)  BY <1>2, <4>2, <4>3
      <4>5. l = k
        <5>1. <<p, l>> = <<p, k>>  BY <4>2, <4>4 DEF Stores
        <5> QED  BY <5>1
      <4> QED  BY <2>4, <2>7, <3>7, <4>1, <4>2, <4>4, <4>5
    <3> QED  BY <3>1, <3>4, <3>5, <3>6, <3>7
  <2> QED  BY <2>5, <2>6, <2>7, TasksChange
<1> QED  BY <1>1, <1>8, <1>9, <1>10, <1>11 DEF RunIdentities

LEMMA EditKeepsIdentities ==
  ASSUME SoundRuns, NEW e \in Edits, UserEdit(e)
  PROVE  RunIdentities'
<1> USE DEF SoundRuns
<1>1. RecordsInv /\ EditStep(e) /\ upsert' = upsert /\ filed' = filed /\ target' = target
  BY DEF UserEdit, runVars, TypeInv, TypeOK, RecordsInv
<1>2. \A d : (RunMade(d)' <=> RunMade(d)) /\ (RunFiled(d)' <=> RunFiled(d))
  BY <1>1 DEF RunMade, RunFiled
<1>3. RunMade(Null) /\ RunFiled(Null) /\ RunMade(<<e, 1>>) /\ RunFiled(<<e, 1>>)
  BY AiAssumption DEF RunMade, RunFiled
<1>4. /\ edit[e].at # "done" /\ \A f \in Edits \ {e} : edit'[f] = edit[f]
      /\ \A a \in attendees' : \/ \E k \in attendees : k.id = a.id /\ k.meeting = a.meeting
                               \/ a.id = <<e, 1>>
      /\ \A i \in actionItems' : i.id = <<e, 1>> \/ \E k \in actionItems : k.id = i.id
  <2>1. CASE SendEdit(e)
    BY <1>1, <2>1, SendEffect DEF records
  <2>2. CASE RunEdit(e) \/ LoseEdit(e)
    <3>1. /\ Carries(e) /\ edit[e].at # "done"
          /\ \A a \in attendees' : AttendeeFrom(e, a)
          /\ \A i \in actionItems' : ItemFrom(e, i)
      BY <1>1, <2>2, RunEffect
    <3> QED  BY <3>1 DEF Carries, AttendeeFrom, ItemFrom
  <2> QED  BY <1>1, <2>1, <2>2 DEF EditStep
<1>5. /\ \A a \in attendees : RunMade(a.id)
      /\ \A i \in actionItems : RunFiled(i.id)
  BY DEF RunIdentities
<1>6. \A a \in attendees' : RunMade(a.id)'  BY <1>2, <1>3, <1>4, <1>5
<1>7. \A i \in actionItems' : RunFiled(i.id)'  BY <1>2, <1>3, <1>4, <1>5
<1>8. ASSUME NEW f \in Edits
      PROVE  (/\ AttendeeEdit(f) => RunMade(edit[f].doc)
              /\ ItemEdit(f) => RunFiled(edit[f].doc))'
  <2>1. /\ AttendeeEdit(f)' => RunMade(edit'[f].doc)
        /\ ItemEdit(f)' => RunFiled(edit'[f].doc)
    <3>1. CASE f = e /\ SendEdit(e)
      <4>1. /\ AttendeeEdit(e)' => \E a \in attendees : edit'[e].doc = a.id
            /\ ItemEdit(e)' => \E i \in actionItems : edit'[e].doc = i.id
        BY <1>1, <3>1, SendEffect
      <4> QED  BY <1>3, <1>5, <3>1, <4>1
    <3>2. CASE f # e \/ RunEdit(e) \/ LoseEdit(e)
      <4>1. edit'[f].op = edit[f].op /\ edit'[f].doc = edit[f].doc
        BY <1>1, <1>4, <3>2, RunEffect DEF Carries
      <4> QED  BY <4>1 DEF RunIdentities, AttendeeEdit, ItemEdit
    <3> QED  BY <1>1, <3>1, <3>2 DEF EditStep
  <2>2. /\ RunMade(edit'[f].doc) => RunMade(edit[f].doc)'
        /\ RunFiled(edit'[f].doc) => RunFiled(edit[f].doc)'
    BY <1>1 DEF RunMade, RunFiled
  <2> QED  BY <2>1, <2>2
<1>9. ASSUME NEW q \in Requests, NEW i \in DOMAIN upsert'[q]
      PROVE  TaskSound(q, i)'
  <2> DEFINE d == upsert[q][i].doc
  <2>1. TaskSound(q, i)  BY <1>1, <1>9 DEF RunIdentities
  <2>2. d' = d  BY <1>1
  <2>3. EditMade(d) /\ RunMade(d) /\ \A a \in attendees : a.id = d => a.meeting = target[q]
    BY <2>1 DEF TaskSound
  <2> HIDE DEF d
  <2>4. EditMade(d)' /\ d # <<e, 1>>
    <3>1. (d # Null => (d[1] \in Edits => edit'[d[1]].at = "done")) /\ d # <<e, 1>>
      BY <1>4, <2>3, MadeKept DEF EditMade
    <3> QED  BY <2>2, <3>1 DEF EditMade
  <2>5. \A a \in attendees' : a.id = d => a.meeting = target[q]
    BY <1>4, <2>3, <2>4
  <2>6. RunMade(d)'  BY <1>1, <2>2, <2>3 DEF RunMade
  <2> QED  BY <1>1, <2>2, <2>4, <2>5, <2>6 DEF TaskSound, d
<1> QED  BY <1>6, <1>7, <1>8, <1>9 DEF RunIdentities

LEMMA SoundStep ==
  ASSUME SoundRuns, [Next]_vars
  PROVE  SoundRuns'
<1>1. TypeInv' /\ FiledLater'  BY NextTyped, FiledLaterStep DEF SoundRuns
<1>2. ASSUME UNCHANGED recordVars, upsert' = upsert, filed' = filed,
             \A p \in Requests : at[p] # "idle" => target'[p] = target[p]
      PROVE  Integrity' /\ RunIdentities'
  <2>1. Integrity'
    BY <1>2
       DEF SoundRuns, recordVars, records, Integrity, Identities, EditMade, ScopedEdit,
           AttendeeEdit, ItemEdit
  <2>2. \A d : (RunMade(d)' <=> RunMade(d)) /\ (RunFiled(d)' <=> RunFiled(d))
    BY <1>2 DEF RunMade, RunFiled
  <2>3. \A p \in Requests : \A i \in DOMAIN upsert'[p] : TaskSound(p, i)'
    <3> SUFFICES ASSUME NEW p \in Requests, NEW i \in DOMAIN upsert[p]  PROVE TaskSound(p, i)'
      BY <1>2
    <3>1. target'[p] = target[p]
      <4>1. upsert[p] # <<>>  OBVIOUS
      <4> QED  BY <1>2, <4>1 DEF SoundRuns, TypeInv, RunsShape
    <3>2. TaskSound(p, i)  BY DEF SoundRuns, RunIdentities
    <3> QED
      BY <1>2, <3>1, <3>2 DEF TaskSound, EditMade, RunMade, recordVars, records
  <2>4. RunIdentities'
    BY <1>2, <2>3
       DEF SoundRuns, RunIdentities, RunMade, RunFiled, AttendeeEdit, ItemEdit, recordVars,
           records
  <2> QED  BY <2>1, <2>4
<1>3. CASE UNCHANGED vars
  BY <1>1, <1>2, <1>3 DEF vars, runVars, SoundRuns
<1>4. ASSUME NEW p \in Requests, NEW u \in Users, NEW m \in Meetings, Generate(p, u, m)
      PROVE  Integrity' /\ RunIdentities'
  <2>1. \A q \in Requests : at[q] # "idle" => target'[q] = target[q]
    BY <1>4 DEF Generate, Move, SoundRuns, TypeInv, TypeOK
  <2> QED  BY <1>2, <1>4, <2>1 DEF Generate
<1>5. ASSUME NEW p \in Requests, RunStep(p) \/ Crash(p)
      PROVE  Integrity' /\ RunIdentities'
  BY <1>5, RunKeepsIntegrity, RunKeepsIdentities
<1>6. ASSUME NEW e \in Edits, UserEdit(e)
      PROVE  Integrity' /\ RunIdentities'
  <2>1. RecordsInv /\ Integrity /\ EditStep(e)
    BY <1>6 DEF UserEdit, SoundRuns, TypeInv, TypeOK, RecordsInv
  <2> QED  BY <1>6, <2>1, IntegritySent, IntegrityRun, EditKeepsIdentities DEF EditStep
<1> QED  BY <1>1, <1>3, <1>4, <1>5, <1>6 DEF Next, SoundRuns

LEMMA InitSoundRuns == Init => SoundRuns
<1> SUFFICES ASSUME Init PROVE SoundRuns  OBVIOUS
<1>1. TypeInv /\ Integrity  BY InitTyped, InitIntegrity DEF Init
<1>2. \A e \in Edits : ~AttendeeEdit(e) /\ ~ItemEdit(e)
  BY RecordsAssumption
     DEF Init, RecordsInit, Blank, AttendeeEdit, ItemEdit, Operations
<1>3. /\ \A a \in attendees : RunMade(a.id)
      /\ \A i \in actionItems : RunFiled(i.id)
  BY AiAssumption DEF Init, RecordsInit, RunMade, RunFiled
<1>4. \A p \in Requests : upsert[p] = <<>> /\ filed[p] = <<>>  BY DEF Init
<1> QED  BY <1>1, <1>2, <1>3, <1>4 DEF SoundRuns, FiledLater, RunIdentities

(***************************************************************************)
(* What a generation files is assigned within its meeting.                 *)
(***************************************************************************)
\* No later document takes the name of the assignee, and no user has chosen it.
ItemSound(i) ==
  /\ EditMade(i.assignee) /\ RunMade(i.assignee)
  /\ \A a \in attendees : a.id = i.assignee => a.meeting = i.meeting

FiledSound ==
  \A i \in actionItems : i.id[1] \in Requests /\ ~Reassigned(i.id) => ItemSound(i)

IdleBlank == \A e \in Edits : edit[e].at = "idle" => edit[e].op = Null

FiledInv == SoundRuns /\ IdleBlank /\ FiledSound

LEMMA FiledSoundRun ==
  ASSUME FiledInv, NEW p \in Requests, RunStep(p) \/ Crash(p)
  PROVE  FiledSound'
<1> USE DEF FiledInv
<1>1. edit' = edit  BY TasksChange DEF SoundRuns
<1>2. /\ \A a \in attendees' : a \in attendees \/ \E i \in DOMAIN upsert[p] : Stores(p, i, a)
      /\ \A k \in actionItems' : k \in actionItems \/ \E j \in DOMAIN filed[p] : Files(p, j, k)
  BY RunStores DEF SoundRuns
<1>3. \A d : (RunMade(d) => RunMade(d)') /\ (EditMade(d) => EditMade(d)')
  BY <1>1, RunMadeKept DEF EditMade, SoundRuns
<1>4. \A d : RunMade(d) => \A a \in attendees' : a.id = d => a \in attendees
  <2>1. \A a : \A i \in DOMAIN upsert[p] : Stores(p, i, a) => ~RunMade(a.id)  BY DEF Stores
  <2> QED  BY <1>2, <2>1
<1> SUFFICES ASSUME NEW i \in actionItems', i.id[1] \in Requests, ~Reassigned(i.id)'
             PROVE  ItemSound(i)'
  BY DEF FiledSound
<1>5. ~Reassigned(i.id)  BY <1>1 DEF Reassigned
<1>6. ItemSound(i)
  <2>1. CASE i \in actionItems  BY <1>5, <2>1 DEF FiledSound
  <2>2. CASE \E j \in DOMAIN filed[p] : Files(p, j, i)
    <3>1. PICK j \in DOMAIN filed[p] : Files(p, j, i)  BY <2>2
    <3>2. i.assignee = Null \/ \E k \in DOMAIN upsert[p] : i.assignee = upsert[p][k].doc
      BY <3>1, MatchedByTask DEF Files, SoundRuns
    <3>3. \A k \in DOMAIN upsert[p] : TaskSound(p, k)  BY DEF SoundRuns, RunIdentities
    <3>4. EditMade(Null) /\ RunMade(Null) /\ \A a \in attendees : a.id # Null
      BY RecordsAssumption
         DEF EditMade, RunMade, SoundRuns, TypeInv, TypeOK, RecordsTypeOK, Attendee
    <3> QED  BY <3>1, <3>2, <3>3, <3>4 DEF Files, TaskSound, ItemSound
  <2> QED  BY <1>2, <2>1, <2>2
<1> QED  BY <1>3, <1>4, <1>6 DEF ItemSound

LEMMA ReassignedKept ==
  ASSUME FiledInv, NEW e \in Edits, UserEdit(e), NEW d, Reassigned(d)
  PROVE  Reassigned(d)'
<1>1. RecordsInv /\ EditStep(e)  BY DEF UserEdit, FiledInv, SoundRuns, TypeInv, TypeOK, RecordsInv
<1>2. PICK f \in Edits : edit[f].op = "updateActionItem" /\ edit[f].doc = d  BY DEF Reassigned
<1>3. edit'[f].op = edit[f].op /\ edit'[f].doc = edit[f].doc
  <2>1. CASE SendEdit(e)
    <3>1. edit[e].at = "idle" /\ \A g \in Edits \ {e} : edit'[g] = edit[g]  BY <1>1, <2>1, SendEffect
    <3>2. f # e
      BY <1>2, <3>1, RecordsAssumption DEF FiledInv, IdleBlank, Operations
    <3> QED  BY <3>1, <3>2
  <2>2. CASE RunEdit(e) \/ LoseEdit(e)  BY <1>1, <2>2, RunEffect DEF Carries
  <2> QED  BY <1>1, <2>1, <2>2 DEF EditStep
<1> QED  BY <1>2, <1>3 DEF Reassigned

LEMMA FiledSoundEdit ==
  ASSUME FiledInv, NEW e \in Edits, UserEdit(e)
  PROVE  IdleBlank' /\ FiledSound'
<1> USE DEF FiledInv
<1>1. RecordsInv /\ EditStep(e) /\ upsert' = upsert
  BY DEF UserEdit, runVars, SoundRuns, TypeInv, TypeOK, RecordsInv
<1>2. \A d : RunMade(d) => RunMade(d)'  BY <1>1 DEF RunMade
<1>3. <<e, 1>>[1] \notin Requests  BY AiAssumption
<1>4. CASE SendEdit(e)
  <2>1. /\ attendees' = attendees /\ actionItems' = actionItems /\ edit[e].at = "idle"
        /\ \A f \in Edits \ {e} : edit'[f] = edit[f]
        /\ edit'[e].at # "idle"
    BY <1>1, <1>4, SendEffect DEF records
  <2>2. \A d : EditMade(d) => EditMade(d)'  BY <2>1, MadeKept
  <2>3. \A i \in actionItems : ItemSound(i) => ItemSound(i)'  BY <1>2, <2>1, <2>2 DEF ItemSound
  <2>4. IdleBlank'  BY <2>1 DEF IdleBlank
  <2> QED  BY <2>1, <2>3, <2>4, ReassignedKept DEF FiledSound
<1>5. CASE RunEdit(e) \/ LoseEdit(e)
  <2>1. /\ Carries(e) /\ edit[e].at # "done" /\ edit'[e].at # "idle"
        /\ \A a \in attendees' : AttendeeFrom(e, a)
        /\ \A i \in actionItems' : ItemFrom(e, i)
    BY <1>1, <1>5, RunEffect
  <2>2. \A d : EditMade(d) => EditMade(d)' /\ d # <<e, 1>>  BY <2>1, MadeKept DEF Carries
  <2>3. IdleBlank'  BY <2>1 DEF IdleBlank, Carries
  <2> SUFFICES ASSUME NEW i \in actionItems', i.id[1] \in Requests, ~Reassigned(i.id)'
               PROVE  ItemSound(i)'
    BY <2>3 DEF FiledSound
  <2>4. ~Reassigned(i.id) /\ i.id # <<e, 1>>  BY <1>3, ReassignedKept
  <2>5. ~(Writes(e, "updateActionItem") /\ i.id = edit[e].doc)
    BY <2>4 DEF Writes, Reassigned
  <2>6. PICK k \in actionItems : k.id = i.id /\ k.meeting = i.meeting /\ k.assignee = i.assignee
    BY <2>1, <2>4, <2>5 DEF ItemFrom
  <2>7. ItemSound(k)  BY <2>4, <2>6 DEF FiledSound
  <2>8. \A a \in attendees' : a.id = i.assignee => a.meeting = i.meeting
    BY <2>1, <2>2, <2>6, <2>7 DEF AttendeeFrom, ItemSound
  <2> QED  BY <1>2, <2>2, <2>6, <2>7, <2>8 DEF ItemSound
<1> QED  BY <1>1, <1>4, <1>5 DEF EditStep

LEMMA FiledInvStep ==
  ASSUME FiledInv, [Next]_vars
  PROVE  FiledInv'
<1>1. SoundRuns'  BY SoundStep DEF FiledInv
<1>2. ASSUME UNCHANGED recordVars, upsert' = upsert  PROVE IdleBlank' /\ FiledSound'
  BY <1>2
     DEF FiledInv, IdleBlank, FiledSound, ItemSound, EditMade, RunMade, Reassigned, recordVars, records
<1>3. ASSUME NEW p \in Requests, NEW u \in Users, NEW m \in Meetings, Generate(p, u, m)
      PROVE  IdleBlank' /\ FiledSound'
  BY <1>2, <1>3 DEF Generate
<1>4. ASSUME NEW p \in Requests, RunStep(p) \/ Crash(p)  PROVE IdleBlank' /\ FiledSound'
  <2>1. edit' = edit  BY <1>4, TasksChange DEF FiledInv, SoundRuns
  <2> QED  BY <1>4, <2>1, FiledSoundRun DEF FiledInv, IdleBlank
<1>5. UNCHANGED vars => IdleBlank' /\ FiledSound'  BY <1>2 DEF vars, runVars
<1> QED  BY <1>1, <1>3, <1>4, <1>5, FiledSoundEdit DEF Next, FiledInv

LEMMA InitFiled == Init => FiledInv
<1> SUFFICES ASSUME Init PROVE FiledInv  OBVIOUS
<1>1. SoundRuns  BY InitSoundRuns
<1>2. \A e \in Edits : edit[e].op = Null  BY DEF Init, RecordsInit, Blank
<1>3. \A i \in actionItems : i.id[1] \notin Requests  BY AiAssumption DEF Init, RecordsInit
<1> QED  BY <1>1, <1>2, <1>3 DEF FiledInv, IdleBlank, FiledSound

\* What generations file is assigned within the meeting until a user reassigns
\* it, whatever requests and generations overlap, fail and die, and whatever ids
\* clients send.
THEOREM FiledWithin == Spec => []FiledWithinMeeting
<1>1. FiledInv => FiledWithinMeeting
  BY DEF FiledInv, FiledSound, ItemSound, FiledWithinMeeting
<1>2. FiledInv /\ [Next]_vars => FiledInv'  BY FiledInvStep
<1> QED  BY <1>1, <1>2, InitFiled, PTL DEF Spec

(***************************************************************************)
(* Clients that await each answer: who is in flight.                       *)
(***************************************************************************)
EditTurns ==
  /\ \A e, f \in Edits : EditOpen(e) /\ EditOpen(f) => e = f
  /\ \A p \in Requests, e \in Edits : ~(Open(p) /\ EditOpen(e))
RunTurns == \A p, q \in Requests : Open(p) /\ Open(q) => p = q

LEMMA SendAlone ==
  ASSUME NEW e \in Edits, SendEdit(e)
  PROVE  edit[e].at = "idle" /\ (SoloEdits => \A f \in Edits : ~EditOpen(f))
BY DEF SendEdit, UpdateAttendee, DeleteAttendee, AddAttendee, CreateActionItem, UpdateActionItem,
       DeleteActionItem, SetTranscript, DeleteMeeting, LoadAttendee, ScopedRequest, MaySend

LEMMA RunsWhenOpen ==
  ASSUME NEW e \in Edits, RunEdit(e) \/ LoseEdit(e)
  PROVE  EditOpen(e)
BY DEF RunEdit, ScopeAttendee, CheckEmail, FindActionItem, InsertAttendee, SaveAttendee,
       RemoveAttendee, InsertActionItem, SaveActionItem, RemoveActionItem, StoreTranscript,
       RemoveMeeting, RemoveTranscripts, Writes, LoseEdit, EditOpen

\* A step of a generation opens none.
LEMMA RunOpensNone ==
  ASSUME TypeInv, NEW p \in Requests, RunStep(p) \/ Crash(p), NEW q \in Requests, Open(q)'
  PROVE  Open(q)
<1>1. at \in [Requests -> RunStages]  BY DEF TypeInv, TypeOK, RunStages
<1>2. CASE q # p  BY <1>2, RunStatus DEF Open
<1>3. CASE q = p /\ Crash(p)  BY <1>1, <1>3 DEF Crash, Open, Ended
<1>4. CASE q = p /\ RunStep(p)
  BY <1>1, <1>4
     DEF RunStep, LoadTranscript, FindManualAssignees, ClearItems, ClearAttendees, MarkProcessing,
         ModelAnswers, ModelFails, AttendeeTask, FindByEmail, CheckDuplicate, CreateAttendee,
         CreateAttendeeFails, AttendeesReady, AttendeesRejected, ItemTask, FileItem, FileItemFails,
         ItemsFiled, ItemsRejected, SaveResults, SaveFails, CompleteFails, FailFails, Complete,
         Fail, Move, Open, Ended
<1> QED  BY <1>2, <1>3, <1>4

LEMMA EditTurnsStep ==
  ASSUME SoloEdits, TypeInv, EditTurns, [Next]_vars
  PROVE  EditTurns'
<1>1. CASE UNCHANGED vars
  BY <1>1 DEF vars, recordVars, runVars, EditTurns, EditOpen, Open
<1>2. ASSUME NEW p \in Requests, NEW u \in Users, NEW m \in Meetings, Generate(p, u, m)
      PROVE  EditTurns'
  <2>1. \A e \in Edits : ~EditOpen(e)'
    BY <1>2 DEF Generate, Quiet, EditOpen, recordVars
  <2> QED  BY <2>1 DEF EditTurns
<1>3. ASSUME NEW p \in Requests, RunStep(p) \/ Crash(p)
      PROVE  EditTurns'
  <2>1. \A e \in Edits : EditOpen(e)' <=> EditOpen(e)  BY <1>3, TasksChange DEF EditOpen
  <2>2. \A q \in Requests : Open(q)' => Open(q)  BY <1>3, RunOpensNone
  <2> QED  BY <2>1, <2>2 DEF EditTurns
<1>4. ASSUME NEW e \in Edits, UserEdit(e)
      PROVE  EditTurns'
  <2>1. /\ RecordsInv /\ EditStep(e) /\ (edit[e].at = "idle" => \A p \in Requests : ~Open(p))
        /\ \A p \in Requests : Open(p)' <=> Open(p)
    BY <1>4 DEF UserEdit, runVars, Open, TypeInv, TypeOK, RecordsInv
  <2>2. CASE SendEdit(e)
    <3>1. \A f \in Edits : f # e => ~EditOpen(f)'
      BY <2>1, <2>2, SendAlone, SendEffect DEF EditOpen
    <3>2. \A p \in Requests : ~Open(p)'  BY <2>1, <2>2, SendAlone
    <3> QED  BY <3>1, <3>2 DEF EditTurns
  <2>3. CASE RunEdit(e) \/ LoseEdit(e)
    <3>1. EditOpen(e) /\ \A f \in Edits : f # e => (EditOpen(f)' <=> EditOpen(f))
      BY <2>1, <2>3, RunsWhenOpen, RunEffect DEF Carries, EditOpen
    <3>2. \A f \in Edits : EditOpen(f)' => EditOpen(f)  BY <3>1
    <3> QED  BY <2>1, <3>2 DEF EditTurns
  <2> QED  BY <2>1, <2>2, <2>3 DEF EditStep
<1> QED  BY <1>1, <1>2, <1>3, <1>4 DEF Next

LEMMA RunTurnsStep ==
  ASSUME SoloRuns, TypeInv, RunTurns, [Next]_vars
  PROVE  RunTurns'
<1>1. CASE UNCHANGED vars  BY <1>1 DEF vars, runVars, RunTurns, Open
<1>2. ASSUME NEW p \in Requests, NEW u \in Users, NEW m \in Meetings, Generate(p, u, m)
      PROVE  RunTurns'
  <2>1. \A q \in Requests : q # p => ~Open(q)'
    BY <1>2 DEF Generate, Move, Open, TypeInv, TypeOK
  <2> QED  BY <2>1 DEF RunTurns
<1>3. ASSUME NEW p \in Requests, RunStep(p) \/ Crash(p)
      PROVE  RunTurns'
  BY <1>3, RunOpensNone DEF RunTurns
<1>4. ASSUME NEW e \in Edits, UserEdit(e)
      PROVE  RunTurns'
  BY <1>4 DEF UserEdit, runVars, RunTurns, Open
<1> QED  BY <1>1, <1>2, <1>3, <1>4 DEF Next

LEMMA InitTurns == Init => EditTurns /\ RunTurns
BY DEF Init, RecordsInit, Blank, EditTurns, RunTurns, EditOpen, Open

(***************************************************************************)
(* What keepIds is for.                                                    *)
(***************************************************************************)
\* While nobody edits, the manual assignees found are all there are.
KeptInside ==
  \A p \in Requests : at[p] \in {"kept", "itemsCleared"} =>
    ManualAssignees(target[p]) \subseteq keep[p]

KeptInv == SoundRuns /\ EditTurns /\ KeptInside

LEMMA KeptStep ==
  ASSUME KeptInv, [Next]_vars
  PROVE  KeptInside'
<1> SUFFICES ASSUME NEW p \in Requests, at'[p] \in {"kept", "itemsCleared"}
             PROVE  (ManualAssignees(target[p]) \subseteq keep[p])'
  BY DEF KeptInside
<1>1. /\ at \in [Requests -> RunStages] /\ keep \in [Requests -> SUBSET DocId]
      /\ at[p] \in {"kept", "itemsCleared"} => ManualAssignees(target[p]) \subseteq keep[p]
  BY DEF KeptInv, SoundRuns, TypeInv, TypeOK, RunStages, KeptInside
<1>2. CASE UNCHANGED vars
  BY <1>1, <1>2 DEF vars, runVars, recordVars, records, ManualAssignees
<1>3. ASSUME NEW q \in Requests, NEW u \in Users, NEW m \in Meetings, Generate(q, u, m)
      PROVE  (ManualAssignees(target[p]) \subseteq keep[p])'
  <2>1. q # p /\ at'[p] = at[p]  BY <1>1, <1>3 DEF Generate, Move
  <2>2. target'[p] = target[p] /\ keep' = keep /\ actionItems' = actionItems
    BY <1>3, <2>1 DEF Generate, recordVars, records, KeptInv, SoundRuns, TypeInv, TypeOK
  <2> QED  BY <1>1, <2>1, <2>2 DEF ManualAssignees
<1>4. ASSUME NEW q \in Requests, RunStep(q) \/ Crash(q)
      PROVE  (ManualAssignees(target[p]) \subseteq keep[p])'
  <2>1. target' = target  BY <1>4, TasksChange DEF KeptInv, SoundRuns
  <2>2. ManualAssignees(target[p])' \subseteq ManualAssignees(target[p])
    <3>1. \A i \in actionItems' : ~i.ai => i \in actionItems
      BY <1>4, RunSources DEF KeptInv, SoundRuns
    <3> QED  BY <2>1, <3>1 DEF ManualAssignees
  <2>3. CASE q # p
    <3>1. at'[p] = at[p] /\ keep'[p] = keep[p]
      BY <1>1, <1>4, <2>3, TasksChange, RunStatus DEF FindManualAssignees, KeptInv, SoundRuns
    <3> QED  BY <1>1, <2>2, <3>1
  <2>4. CASE q = p /\ FindManualAssignees(p)
    <3>1. keep'[p] = ManualAssignees(target[p])  BY <1>1, <2>4 DEF FindManualAssignees
    <3> QED  BY <2>2, <3>1
  <2>5. CASE q = p /\ ~FindManualAssignees(p)
    <3>1. keep' = keep  BY <1>4, <2>5, TasksChange DEF KeptInv, SoundRuns
    <3>2. at[p] \in {"kept", "itemsCleared"}
      BY <1>1, <1>4, <2>5
         DEF RunStep, LoadTranscript, ClearItems, ClearAttendees, MarkProcessing, ModelAnswers,
             ModelFails, AttendeeTask, FindByEmail, CheckDuplicate, CreateAttendee,
             CreateAttendeeFails, AttendeesReady, AttendeesRejected, ItemTask, FileItem,
             FileItemFails, ItemsFiled, ItemsRejected, SaveResults, SaveFails, CompleteFails,
             FailFails, Complete, Fail, Crash, Move
    <3> QED  BY <1>1, <2>2, <3>1, <3>2
  <2> QED  BY <2>3, <2>4, <2>5
<1>5. ASSUME NEW e \in Edits, UserEdit(e)
      PROVE  (ManualAssignees(target[p]) \subseteq keep[p])'
  <2>1. at' = at /\ target' = target /\ keep' = keep /\ EditStep(e)
    BY <1>5 DEF UserEdit, runVars
  <2>2. Open(p)  BY <2>1 DEF Open, Ended
  <2>3. ~EditOpen(e)  BY <2>2 DEF KeptInv, EditTurns
  <2>4. SendEdit(e)  BY <2>1, <2>3, RunsWhenOpen DEF EditStep
  <2>5. actionItems' = actionItems
    BY <2>4, SendEffect DEF records, KeptInv, SoundRuns, TypeInv, TypeOK, RecordsInv
  <2> QED  BY <1>1, <2>1, <2>5 DEF ManualAssignees
<1> QED  BY <1>2, <1>3, <1>4, <1>5 DEF Next

\* No step of a generation removes the attendee a manual item of its meeting is
\* assigned to, when no edit runs during a generation: however generations
\* overlap, and whatever ids clients sent before.
THEOREM AssigneesKept == SoloEdits => (Spec => ManualAssigneesKept)
<1> SUFFICES ASSUME SoloEdits PROVE Spec => ManualAssigneesKept  OBVIOUS
<1>1. Init => KeptInv
  BY InitSoundRuns, InitTurns DEF KeptInv, KeptInside, Init
<1>2. KeptInv /\ [Next]_vars => KeptInv'
  BY SoundStep, EditTurnsStep, KeptStep DEF KeptInv, SoundRuns
<1>3. ASSUME KeptInv, [Next]_vars
      PROVE  [edit' = edit =>
                \A i \in actionItems, a \in attendees :
                  ~i.ai /\ i.assignee = a.id /\ i.meeting = a.meeting
                    => a.id \in Ids(attendees)']_vars
  <2>1. CASE UNCHANGED vars  BY <2>1
  <2>2. ASSUME NEW p \in Requests, NEW u \in Users, NEW m \in Meetings, Generate(p, u, m)
        PROVE  attendees' = attendees
    BY <2>2 DEF Generate, recordVars, records
  <2>3. ASSUME NEW p \in Requests, RunStep(p) \/ Crash(p), ~ClearAttendees(p)
        PROVE  attendees \subseteq attendees'
    BY <1>3, <2>3, TasksChange DEF CreateAttendee, KeptInv, SoundRuns
  <2>4. ASSUME NEW p \in Requests, ClearAttendees(p), NEW i \in actionItems, ~i.ai,
               NEW a \in attendees, i.assignee = a.id, i.meeting = a.meeting
        PROVE  a \in attendees'
    <3>2. a.id # Null
      BY <1>3, RecordsAssumption DEF KeptInv, SoundRuns, TypeInv, TypeOK, RecordsTypeOK, Attendee
    <3>3. a.meeting = target[p] => a.id \in ManualAssignees(target[p])
      BY <2>4, <3>2 DEF ManualAssignees
    <3>4. ManualAssignees(target[p]) \subseteq keep[p]
      BY <1>3, <2>4 DEF KeptInv, KeptInside, ClearAttendees, Move
    <3> QED  BY <2>4, <3>3, <3>4 DEF ClearAttendees, AiGenerated
  <2>5. ASSUME NEW e \in Edits, UserEdit(e)  PROVE edit' # edit
    BY <1>3, <2>5, EditMoves DEF KeptInv, SoundRuns
  <2> QED  BY <1>3, <2>1, <2>2, <2>3, <2>4, <2>5 DEF Next, Ids
<1> QED  BY <1>1, <1>2, <1>3, PTL DEF Spec, ManualAssigneesKept

(***************************************************************************)
(* Transcripts go with their meeting.                                      *)
(***************************************************************************)
\* A transcript of a deleted meeting has its deletion under way, and none is
\* about to be stored for a deleted meeting.
TrimmedLater ==
  /\ \A m \in transcribed : meetingStatus[m] = "GONE" =>
       \E e \in Edits : edit[e].at = "trimming" /\ edit[e].meeting = m
  /\ \A e \in Edits : edit[e].op = "setTranscript" /\ EditOpen(e) =>
       edit[e].at = "writing" /\ meetingStatus[edit[e].meeting] # "GONE"

TrimInv == TypeInv /\ EditTurns /\ TrimmedLater

\* What a request that is sent starts with.
LEMMA SentScoped ==
  ASSUME RecordsInv, NEW e \in Edits, NEW u, NEW m, NEW s, NEW op, NEW d, NEW x, NEW f,
         ScopedRequest(e, u, m, s, op, d, x, f)
  PROVE  /\ edit'[e].op = op /\ edit'[e].meeting = m /\ edit'[e].doc = d /\ edit'[e].value = x
         /\ edit'[e].at = IF FindsMeeting(u, m) THEN s ELSE "refused"
BY DEF ScopedRequest, RecordsInv, RecordsTypeOK

LEMMA SentLoaded ==
  ASSUME RecordsInv, NEW e \in Edits, NEW u, NEW op, NEW a, NEW x, LoadAttendee(e, u, op, a, x)
  PROVE  edit'[e].op = op /\ edit'[e].at = "scoping"
BY DEF LoadAttendee, RecordsInv, RecordsTypeOK

LEMMA SentOp ==
  ASSUME RecordsInv, NEW e \in Edits, SendEdit(e)
  PROVE  /\ edit'[e].op = "setTranscript" => \E u \in Users, m \in Meetings : SetTranscript(e, u, m)
         /\ edit'[e].op = "addAttendee" => \E u \in Users, m \in Meetings : AddAttendee(e, u, m)
         /\ edit'[e].op = "updateAttendee" => \E u \in Users : UpdateAttendee(e, u)
<1>1. \A u, m : AddAttendee(e, u, m) => edit'[e].op = "addAttendee"
  <2> TAKE u, m
  <2> SUFFICES ASSUME AddAttendee(e, u, m) PROVE edit'[e].op = "addAttendee"  OBVIOUS
  <2>1. PICK x, f, s : ScopedRequest(e, u, m, s, "addAttendee", Null, x, f)  BY DEF AddAttendee
  <2> QED  BY <2>1, SentScoped
<1>2. \A u, m : CreateActionItem(e, u, m) => edit'[e].op = "createActionItem"
  BY SentScoped DEF CreateActionItem
<1>3. \A u, m : UpdateActionItem(e, u, m) => edit'[e].op = "updateActionItem"
  BY SentScoped DEF UpdateActionItem
<1>4. \A u, m : DeleteActionItem(e, u, m) => edit'[e].op = "deleteActionItem"
  BY SentScoped DEF DeleteActionItem
<1>5. \A u, m : DeleteMeeting(e, u, m) => edit'[e].op = "deleteMeeting"
  BY SentScoped DEF DeleteMeeting
<1>6. \A u, m : SetTranscript(e, u, m) => edit'[e].op = "setTranscript"
  BY SentScoped DEF SetTranscript
<1>7. \A u : UpdateAttendee(e, u) => edit'[e].op = "updateAttendee"
  BY SentLoaded DEF UpdateAttendee
<1>8. \A u : DeleteAttendee(e, u) => edit'[e].op = "deleteAttendee"
  BY SentLoaded DEF DeleteAttendee
<1> QED  BY <1>1, <1>2, <1>3, <1>4, <1>5, <1>6, <1>7, <1>8 DEF SendEdit

LEMMA SentTranscript ==
  ASSUME RecordsInv, NEW e \in Edits, SendEdit(e), edit'[e].op = "setTranscript"
  PROVE  /\ edit'[e].at \in {"writing", "refused"}
         /\ edit'[e].at = "writing" => meetingStatus[edit'[e].meeting] # "GONE"
<1>1. PICK u \in Users, m \in Meetings :
        ScopedRequest(e, u, m, "writing", "setTranscript", Null, Null, FALSE)
  BY SentOp DEF SetTranscript
<1>2. edit'[e].meeting = m /\ edit'[e].at = IF FindsMeeting(u, m) THEN "writing" ELSE "refused"
  BY <1>1, SentScoped
<1> QED  BY <1>2 DEF FindsMeeting

LEMMA SentEmail ==
  ASSUME RecordsInv, NEW e \in Edits, SendEdit(e)
  PROVE  /\ edit'[e].op = "updateAttendee" => edit'[e].at = "scoping"
         /\ edit'[e].op = "addAttendee" =>
              /\ edit'[e].at \in {"writing", "checking", "refused"} /\ edit'[e].doc = Null
              /\ edit'[e].at = "writing" => edit'[e].value = Null
<1>1. CASE edit'[e].op = "updateAttendee"  BY <1>1, SentOp, SentLoaded DEF UpdateAttendee
<1>2. CASE edit'[e].op = "addAttendee"
  <2>1. PICK u \in Users, m \in Meetings, x \in Emails \cup {Null}, f \in Flags :
          ScopedRequest(e, u, m, IF x = Null THEN "writing" ELSE "checking", "addAttendee", Null, x, f)
    BY <1>2, SentOp DEF AddAttendee
  <2> DEFINE s == IF x = Null THEN "writing" ELSE "checking"
  <2>2. s \in {"writing", "checking"} /\ (s = "writing" => x = Null)  OBVIOUS
  <2>3. /\ edit'[e].doc = Null /\ edit'[e].value = x
        /\ edit'[e].at = IF FindsMeeting(u, m) THEN s ELSE "refused"
    BY <2>1, SentScoped
  <2> HIDE DEF s
  <2> QED  BY <1>2, <2>2, <2>3
<1> QED  BY <1>1, <1>2

\* Only deleteMeeting marks a meeting as gone, and nothing brings it back.
LEMMA GoneKept ==
  ASSUME TypeInv, NEW p \in Requests, RunStep(p) \/ Crash(p), NEW m \in Meetings
  PROVE  meetingStatus'[m] = "GONE" <=> meetingStatus[m] = "GONE"
BY RunStatus DEF SetStatus, TypeInv, TypeOK, RecordsTypeOK

LEMMA TrimmedStep ==
  ASSUME SoloEdits, Mortal \cap Edits = {}, TrimInv, [Next]_vars
  PROVE  TrimmedLater'
<1> USE DEF TrimInv
<1>0. /\ RecordsInv /\ transcribed \subseteq Meetings /\ edit \in [Edits -> Edit]
      /\ meetingStatus \in [Meetings -> Status]
  BY DEF TypeInv, TypeOK, RecordsInv, RecordsTypeOK
<1>1. CASE UNCHANGED recordVars
  BY <1>1 DEF recordVars, records, TrimmedLater, EditOpen
<1>2. (\E p \in Requests, u \in Users, m \in Meetings : Generate(p, u, m)) => UNCHANGED recordVars
  BY DEF Generate
<1>3. ASSUME NEW p \in Requests, RunStep(p) \/ Crash(p)
      PROVE  TrimmedLater'
  <2>1. edit' = edit /\ transcribed' = transcribed  BY <1>3, TasksChange
  <2>2. \A m \in Meetings : meetingStatus'[m] = "GONE" <=> meetingStatus[m] = "GONE"
    BY <1>3, GoneKept
  <2>3. \A e \in Edits : edit[e].op = "setTranscript" => edit[e].meeting \in Meetings
    BY <1>0, RecordsAssumption DEF RecordsInv, EditShape, Operations
  <2> QED  BY <1>0, <2>1, <2>2, <2>3 DEF TrimmedLater, EditOpen
<1>4. ASSUME NEW e \in Edits, SendEdit(e)
      PROVE  TrimmedLater'
  <2>1. UNCHANGED records /\ edit[e].at = "idle" /\ \A f \in Edits \ {e} : edit'[f] = edit[f]
    BY <1>0, <1>4, SendEffect
  <2>2. edit'[e].op = "setTranscript" =>
          /\ edit'[e].at \in {"writing", "refused"}
          /\ edit'[e].at = "writing" => meetingStatus[edit'[e].meeting] # "GONE"
    BY <1>0, <1>4, SentTranscript
  <2> QED  BY <2>1, <2>2 DEF TrimmedLater, EditOpen, records
<1>5. ASSUME NEW e \in Edits, RunEdit(e)
      PROVE  TrimmedLater'
  <2>1. Carries(e) /\ EditOpen(e)  BY <1>0, <1>5, RunEffect, RunsWhenOpen
  <2>2. \A f \in Edits : f # e => edit'[f] = edit[f] /\ ~EditOpen(f) /\ edit[f].at # "trimming"
    BY <2>1 DEF Carries, EditTurns, EditOpen
  <2>3. edit'[e].op = "setTranscript" => ~EditOpen(e)'
    <3>1. edit[e].op = "setTranscript" => edit[e].at = "writing"
      BY <2>1 DEF TrimmedLater
    <3>2. edit[e].op = "setTranscript" => StoreTranscript(e)
      BY <1>5, <3>1
         DEF RunEdit, ScopeAttendee, CheckEmail, FindActionItem, InsertAttendee, SaveAttendee,
             RemoveAttendee, InsertActionItem, SaveActionItem, RemoveActionItem, RemoveMeeting,
             RemoveTranscripts, Writes
    <3>3. StoreTranscript(e) => edit'[e].at = "done"  BY <1>0, GotoCarries DEF StoreTranscript
    <3> QED  BY <2>1, <3>2, <3>3 DEF Carries, EditOpen
  <2>4. \A m \in transcribed : meetingStatus[m] = "GONE" => edit[e].at = "trimming" /\ edit[e].meeting = m
    BY <2>2 DEF TrimmedLater
  <2>5. \A m \in transcribed' : meetingStatus'[m] = "GONE" =>
          edit'[e].at = "trimming" /\ edit'[e].meeting = m
    <3>1. CASE StoreTranscript(e)
      BY <2>1, <2>4, <3>1 DEF StoreTranscript, Writes, TrimmedLater
    <3>2. CASE RemoveMeeting(e)
      <4>1. edit[e].at = "writing" /\ edit'[e].at = "trimming" /\ edit'[e].meeting = edit[e].meeting
        BY <1>0, <3>2, GotoCarries DEF RemoveMeeting, Writes, Carries
      <4> QED  BY <1>0, <2>4, <3>2, <4>1 DEF RemoveMeeting
    <3>3. CASE RemoveTranscripts(e)
      BY <2>4, <3>3 DEF RemoveTranscripts
    <3>4. CASE UNCHANGED <<meetingStatus, transcribed>> /\ edit[e].at # "trimming"
      BY <2>4, <3>4
    <3> QED
      BY <1>5, <3>1, <3>2, <3>3, <3>4
         DEF RunEdit, ScopeAttendee, CheckEmail, FindActionItem, InsertAttendee, SaveAttendee,
             RemoveAttendee, InsertActionItem, SaveActionItem, RemoveActionItem, Writes, records
  <2>6. \A f \in Edits : edit'[f].op = "setTranscript" => ~EditOpen(f)'
    BY <2>2, <2>3 DEF EditOpen
  <2> QED  BY <2>5, <2>6 DEF TrimmedLater
<1>6. ASSUME NEW e \in Edits  PROVE ~LoseEdit(e)  BY DEF LoseEdit
<1> QED
  BY <1>1, <1>2, <1>3, <1>4, <1>5, <1>6 DEF Next, UserEdit, EditStep, vars

\* A deleted meeting has no transcript left once its deletion has ended, when
\* edits are awaited and none of them dies.
THEOREM TranscriptsGo ==
  SoloEdits /\ Mortal \cap Edits = {} => (Spec => []TranscriptsGoWithMeeting)
<1> SUFFICES ASSUME SoloEdits, Mortal \cap Edits = {}
             PROVE  Spec => []TranscriptsGoWithMeeting
  OBVIOUS
<1>1. Init => TrimInv
  <2> SUFFICES ASSUME Init PROVE TrimInv  OBVIOUS
  <2>1. \A m \in transcribed : meetingStatus[m] # "GONE"  BY DEF Init, RecordsInit
  <2>2. \A e \in Edits : ~EditOpen(e)  BY DEF Init, RecordsInit, Blank, EditOpen
  <2> QED  BY <2>1, <2>2, InitTyped, InitTurns DEF TrimInv, TrimmedLater
<1>2. TrimInv /\ [Next]_vars => TrimInv'
  BY NextTyped, EditTurnsStep, TrimmedStep DEF TrimInv
<1>3. TrimInv => TranscriptsGoWithMeeting
  BY DEF TrimInv, TrimmedLater, TranscriptsGoWithMeeting, Quiet, EditOpen
<1> QED  BY <1>1, <1>2, <1>3, PTL DEF Spec

(***************************************************************************)
(* E-mails stay unique, and what is found fails no task.                   *)
(***************************************************************************)
\* The model names no attendee twice; what is stored first is unique.
DistinctAnswers ==
  \A r \in Responses : \A i, j \in DOMAIN r.attendees :
    r.attendees[i] = r.attendees[j] /\ r.attendees[i] # Null => i = j
FirstUnique ==
  \A a, b \in FirstAttendees :
    a.meeting = b.meeting /\ a.email = b.email /\ a.email # Null => a.id = b.id

AnswersDistinct ==
  \A p \in Requests : \A i, j \in DOMAIN answer[p].attendees :
    answer[p].attendees[i] = answer[p].attendees[j] /\ answer[p].attendees[i] # Null => i = j

\* Tasks run only while their generation awaits them, and an e-mail that was
\* not found is still not there when its attendee is inserted.
TaskInside(p, i) ==
  LET s == upsert[p][i].step IN
  /\ s # "failed"
  /\ s \in {"finding", "checking", "creating"} /\ Alive(p) => at[p] = "upserting"
  /\ s \in {"checking", "creating"} /\ Alive(p) /\ EmailOf(p, i) # Null
       => WithEmail(target[p], EmailOf(p, i)) = {}
  /\ s \in {"finding", "checking"} => EmailOf(p, i) # Null
TasksInside == \A p \in Requests : \A i \in DOMAIN upsert[p] : TaskInside(p, i)

\* The same for the edits that set an e-mail.
EmailEdit(e) == edit[e].op \in {"addAttendee", "updateAttendee"}
EmailFree(e) ==
  EmailEdit(e) =>
    /\ edit[e].at # "finding"
    /\ edit[e].op = "addAttendee" => edit[e].doc = Null
    /\ edit[e].at = "writing" /\ edit[e].value # Null =>
         \A a \in WithEmail(edit[e].meeting, edit[e].value) : a.id = edit[e].doc
EmailsFree == \A e \in Edits : EmailFree(e)

MergeInv ==
  /\ SoundRuns /\ EditTurns /\ RunTurns
  /\ AnswersDistinct /\ TasksInside /\ EmailsFree /\ UniqueEmails

MergeAssumed ==
  /\ SoloRuns /\ SoloEdits
  /\ "attendee" \notin Faults
  /\ DistinctAnswers /\ FirstUnique

LEMMA DistinctStep ==
  ASSUME DistinctAnswers, TypeInv, AnswersDistinct, [Next]_vars
  PROVE  AnswersDistinct'
<1>1. CASE answer' = answer  BY <1>1 DEF AnswersDistinct
<1>2. ASSUME NEW p \in Requests, ModelAnswers(p)
      PROVE  AnswersDistinct'
  <2>1. PICK r \in Responses : answer' = [answer EXCEPT ![p] = r]  BY <1>2 DEF ModelAnswers
  <2>2. answer'[p] = r /\ \A q \in Requests : q # p => answer'[q] = answer[q]
    BY <2>1 DEF TypeInv, TypeOK
  <2> QED  BY <2>2 DEF AnswersDistinct, DistinctAnswers
<1>3. ASSUME NEW p \in Requests, RunStep(p) \/ Crash(p)
      PROVE  answer' = answer \/ ModelAnswers(p)
  BY <1>3, TasksChange
<1> QED  BY <1>1, <1>2, <1>3 DEF Next, Generate, UserEdit, vars, runVars

\* Only a generation that awaits its tasks stores attendees.
LEMMA StoresInside ==
  ASSUME TypeInv, TasksInside, NEW p \in Requests, RunStep(p) \/ Crash(p)
  PROVE  \A a \in attendees' \ attendees : at[p] = "upserting"
BY RunSources DEF TasksInside, TaskInside

LEMMA TasksInsideRun ==
  ASSUME MergeAssumed, MergeInv, NEW p \in Requests, RunStep(p) \/ Crash(p)
  PROVE  TasksInside'
<1> USE DEF MergeInv, SoundRuns
<1> SUFFICES ASSUME NEW q \in Requests, NEW i \in DOMAIN upsert'[q]  PROVE TaskInside(q, i)'
  BY DEF TasksInside
<1>1. /\ at \in [Requests -> RunStages] /\ upsert \in [Requests -> Seq(Task)]
      /\ answer \in [Requests -> Response]
  BY DEF TypeInv, TypeOK, RunStages
<1>2. target' = target /\ edit' = edit  BY TasksChange
<1>3. CASE q # p
  <2>1. upsert'[q] = upsert[q] /\ at'[q] = at[q]  BY <1>3, TaskFrame
  <2>2. answer'[q] = answer[q]
    BY <1>1, <1>3, TasksChange DEF ModelAnswers
  <2>3. TaskInside(q, i)  BY <2>1 DEF TasksInside
  <2>4. at[q] = "upserting" => attendees' \subseteq attendees
    <3>1. at[q] = "upserting" => Open(q)  BY DEF Open, Ended
    <3>2. at[p] = "upserting" => Open(p)  BY DEF Open, Ended
    <3> QED  BY <1>3, <3>1, <3>2, StoresInside DEF RunTurns
  <2> QED  BY <1>2, <2>1, <2>2, <2>3, <2>4 DEF TaskInside, Alive, EmailOf, WithEmail
<1>4. CASE q = p /\ ModelAnswers(p)
  <2>1. PICK r \in Responses :
          /\ Move(p, "asking", "upserting")
          /\ answer' = [answer EXCEPT ![p] = r]
          /\ upsert' = [upsert EXCEPT ![p] =
               [k \in 1..Len(r.attendees) |-> [step |-> FirstStep(r.attendees[k]), doc |-> Null]]]
    BY <1>4 DEF ModelAnswers
  <2>2. upsert'[p] = [k \in 1..Len(r.attendees) |-> [step |-> FirstStep(r.attendees[k]), doc |-> Null]]
    BY <1>1, <2>1
  <2>3. upsert'[p][i].step = FirstStep(r.attendees[i])  BY <1>4, <2>2
  <2>4. answer'[p].attendees = r.attendees /\ at'[p] = "upserting"  BY <1>1, <2>1 DEF Move
  <2> QED  BY <1>4, <2>3, <2>4 DEF TaskInside, FirstStep, EmailOf
<1>5. CASE q = p /\ upsert' = upsert
  <2>1. TaskInside(p, i)  BY <1>5 DEF TasksInside
  <2>2. answer'[p] = answer[p]
    <3>1. ModelAnswers(p) => upsert[p] = <<>>  BY DEF ModelAnswers, Move, TypeInv, RunsShape
    <3> QED  BY <1>5, <3>1, TasksChange
  <2>3. Alive(p)' => Alive(p)  BY <1>1 DEF RunStep, Alive, LoadTranscript, FindManualAssignees,
     ClearItems, ClearAttendees, MarkProcessing, ModelAnswers, ModelFails, AttendeeTask, FindByEmail,
     CheckDuplicate, CreateAttendee, CreateAttendeeFails, AttendeesReady, AttendeesRejected, ItemTask,
     FileItem, FileItemFails, ItemsFiled, ItemsRejected, SaveResults, SaveFails, CompleteFails,
     FailFails, Complete, Fail, Crash, Move
  <2>4. attendees' \subseteq attendees
    <3>1. \A k \in DOMAIN upsert[p] : CreateAttendee(p, k) => upsert'[p][k].step # upsert[p][k].step
      BY TaskSet DEF CreateAttendee, Upserting, TypeInv
    <3> QED  BY <1>5, <3>1, TasksChange DEF ClearAttendees
  <2>5. upsert[p][i].step \in {"finding", "checking", "creating"} /\ Alive(p)' => at'[p] = "upserting"
    <3>1. CASE ItemTask(p)
      BY <1>2, <2>1, <2>3, <3>1 DEF ItemTask, FileItem, FileItemFails, TaskInside
    <3>2. CASE AttendeesReady(p) \/ AttendeesRejected(p)
      <4>1. \A k \in DOMAIN upsert[p] : upsert[p][k].step # "failed"
        BY DEF TasksInside, TaskInside
      <4> QED  BY <1>5, <3>2, <4>1 DEF AttendeesReady, AttendeesRejected
    <3>3. CASE AttendeeTask(p)
      BY <2>1, <2>3, <3>3
         DEF AttendeeTask, FindByEmail, CheckDuplicate, CreateAttendee, CreateAttendeeFails, TaskInside
    <3>4. CASE Crash(p)  BY <1>1, <3>4 DEF Crash, Alive
    <3>5. CASE at[p] # "upserting" /\ Alive(p)  BY <2>1, <3>5 DEF TaskInside
    <3> QED
      BY <1>4, <1>5, <2>3, <3>1, <3>2, <3>3, <3>4, <3>5
         DEF RunStep, LoadTranscript, FindManualAssignees, ClearItems, ClearAttendees, MarkProcessing,
             ModelAnswers, ModelFails, ItemsFiled, ItemsRejected, SaveResults, SaveFails,
             CompleteFails, FailFails, Complete, Fail, Move
  <2> QED  BY <1>2, <1>5, <2>1, <2>2, <2>3, <2>4, <2>5 DEF TaskInside, EmailOf, WithEmail
<1>6. CASE q = p /\ AttendeeTask(p)
  <2>1. PICK k \in DOMAIN upsert[p] :
          FindByEmail(p, k) \/ CheckDuplicate(p, k) \/ CreateAttendee(p, k)
    BY <1>6 DEF AttendeeTask, CreateAttendeeFails, MergeAssumed
  <2>2. /\ at' = at /\ answer' = answer
        /\ Alive(p) /\ upsert[p][k].step \in {"finding", "checking", "creating"}
    BY <2>1 DEF FindByEmail, CheckDuplicate, CreateAttendee, Upserting
  <2>3. TaskInside(p, k) /\ at[p] = "upserting"  BY <2>2 DEF TasksInside, TaskInside
  <2>4. PICK s, d : SetTask(p, k, s, d)  BY <2>1 DEF FindByEmail, CheckDuplicate, CreateAttendee
  <2>5. /\ i \in DOMAIN upsert[p] /\ upsert'[p][k].step = s
        /\ i # k => upsert'[p][i] = upsert[p][i]
    BY <1>6, <2>4, TaskSet DEF TypeInv
  <2>6. CASE i # k
    <3>1. TaskInside(p, i)  BY <2>5 DEF TasksInside
    <3>2. EmailOf(p, i) # Null /\ WithEmail(target[p], EmailOf(p, i)) = {}
            => WithEmail(target[p], EmailOf(p, i))' = {}
      <4>1. CASE attendees' = attendees  BY <1>2, <2>2, <4>1 DEF WithEmail, EmailOf
      <4>2. CASE CreateAttendee(p, k)
        <5> DEFINE a == [id |-> <<p, k>>, meeting |-> target[p], email |-> EmailOf(p, k), ai |-> TRUE]
        <5>1. attendees' = attendees \cup {a} /\ a.email = EmailOf(p, k)
          BY <4>2 DEF CreateAttendee
        <5> HIDE DEF a
        <5>2. i \in DOMAIN answer[p].attendees /\ k \in DOMAIN answer[p].attendees
          <6>1. answer[p].attendees \in Seq(Emails \cup {Null}) /\ upsert[p] \in Seq(Task)
            BY <1>1 DEF Response
          <6>2. Len(upsert[p]) = Len(answer[p].attendees)  BY DEF TypeInv, RunsShape
          <6> QED  BY <2>5, <6>1, <6>2, LenProperties
        <5>3. EmailOf(p, i) # Null => EmailOf(p, i) # EmailOf(p, k)
          BY <2>6, <5>2 DEF AnswersDistinct, EmailOf
        <5> QED  BY <1>2, <2>2, <5>1, <5>3 DEF WithEmail, EmailOf
      <4> QED
        BY <2>1, <4>1, <4>2 DEF FindByEmail, CheckDuplicate, recordVars, records
    <3> QED  BY <1>2, <1>6, <2>2, <2>3, <2>5, <2>6, <3>1, <3>2 DEF TaskInside, Alive, EmailOf
  <2>7. CASE i = k
    <3>1. CASE FindByEmail(p, k)
      <4>1. attendees' = attendees  BY <3>1 DEF FindByEmail, recordVars, records
      <4>2. EmailOf(p, k) # Null  BY <2>3, <3>1 DEF TaskInside, FindByEmail, Upserting
      <4>3. CASE WithEmail(target[p], EmailOf(p, k)) = {} /\ SetTask(p, k, "checking", Null)
        <5>1. upsert'[p][k].step = "checking"  BY <4>3, TaskSet DEF TypeInv
        <5>2. WithEmail(target[p], EmailOf(p, k))' = {}
          BY <1>2, <2>2, <4>1, <4>3 DEF WithEmail, EmailOf
        <5>3. EmailOf(p, k)' # Null  BY <2>2, <4>2 DEF EmailOf
        <5> QED  BY <1>6, <2>2, <2>3, <2>7, <5>1, <5>2, <5>3 DEF TaskInside
      <4>4. CASE \E a \in WithEmail(target[p], EmailOf(p, k)) : SetTask(p, k, "ok", a.id)
        <5>1. upsert'[p][k].step = "ok"  BY <4>4, TaskSet DEF TypeInv
        <5> QED  BY <1>6, <2>7, <5>1 DEF TaskInside
      <4> QED  BY <3>1, <4>3, <4>4 DEF FindByEmail
    <3>2. CASE CheckDuplicate(p, k)
      <4>1. WithEmail(target[p], EmailOf(p, k)) = {}
        BY <2>2, <2>3, <3>2 DEF TaskInside, CheckDuplicate, Upserting
      <4>2. SetTask(p, k, "creating", Null) /\ attendees' = attendees
        BY <3>2, <4>1 DEF CheckDuplicate, recordVars, records
      <4>3. upsert'[p][k].step = "creating"  BY <4>2, TaskSet DEF TypeInv
      <4>4. WithEmail(target[p], EmailOf(p, k))' = {}
        BY <1>2, <2>2, <4>1, <4>2 DEF WithEmail, EmailOf
      <4> QED  BY <1>6, <2>2, <2>3, <2>7, <4>3, <4>4 DEF TaskInside
    <3>3. CASE CreateAttendee(p, k)
      <4>1. upsert'[p][k].step = "ok"  BY <3>3, TaskSet DEF CreateAttendee, TypeInv
      <4> QED  BY <1>6, <2>7, <4>1 DEF TaskInside
    <3> QED  BY <2>1, <3>1, <3>2, <3>3
  <2> QED  BY <2>6, <2>7
<1> QED  BY <1>3, <1>4, <1>5, <1>6, TasksChange

LEMMA TasksInsideStep ==
  ASSUME MergeAssumed, MergeInv, [Next]_vars
  PROVE  TasksInside'
<1>1. CASE UNCHANGED vars
  BY <1>1
     DEF vars, runVars, recordVars, records, MergeInv, TasksInside, TaskInside, Alive, EmailOf, WithEmail
<1>2. ASSUME NEW p \in Requests, NEW u \in Users, NEW m \in Meetings, Generate(p, u, m)
      PROVE  TasksInside'
  <2>1. /\ upsert' = upsert /\ answer' = answer /\ attendees' = attendees
        /\ \A q \in Requests : q # p => at'[q] = at[q] /\ target'[q] = target[q]
        /\ upsert[p] = <<>>
    BY <1>2
       DEF Generate, Move, recordVars, records, MergeInv, SoundRuns, TypeInv, TypeOK, RunsShape
  <2> QED
    BY <2>1 DEF MergeInv, TasksInside, TaskInside, Alive, EmailOf, WithEmail
<1>3. ASSUME NEW e \in Edits, UserEdit(e)
      PROVE  TasksInside'
  <2> SUFFICES ASSUME NEW p \in Requests, NEW i \in DOMAIN upsert'[p]  PROVE TaskInside(p, i)'
    BY DEF TasksInside
  <2>1. EditStep(e) /\ UNCHANGED <<at, target, answer, upsert>>  BY <1>3 DEF UserEdit, runVars
  <2>2. TaskInside(p, i)  BY <2>1 DEF MergeInv, TasksInside
  <2>3. at[p] = "upserting" => attendees' = attendees
    <3>1. at[p] = "upserting" => ~EditOpen(e)  BY DEF MergeInv, EditTurns, Open, Ended
    <3>2. SendEdit(e) => attendees' = attendees
      BY SendEffect DEF MergeInv, SoundRuns, TypeInv, TypeOK, RecordsInv, records
    <3> QED  BY <2>1, <3>1, <3>2, RunsWhenOpen DEF EditStep
  <2> QED  BY <2>1, <2>2, <2>3 DEF TaskInside, Alive, EmailOf, WithEmail
<1> QED  BY <1>1, <1>2, <1>3, TasksInsideRun DEF Next

LEMMA EmailsFreeStep ==
  ASSUME MergeAssumed, MergeInv, [Next]_vars
  PROVE  EmailsFree'
<1> USE DEF MergeInv, SoundRuns
<1> SUFFICES ASSUME NEW e \in Edits  PROVE EmailFree(e)'
  BY DEF EmailsFree
<1>1. RecordsInv /\ EmailFree(e)  BY DEF TypeInv, TypeOK, RecordsInv, EmailsFree
<1>2. CASE UNCHANGED recordVars
  BY <1>1, <1>2 DEF recordVars, records, EmailFree, EmailEdit, WithEmail
<1>3. ASSUME NEW p \in Requests, RunStep(p) \/ Crash(p)
      PROVE  EmailFree(e)'
  <2>1. edit' = edit  BY <1>3, TasksChange
  <2>2. edit[e].at = "writing" => attendees' \subseteq attendees
    <3>1. edit[e].at = "writing" => EditOpen(e)  BY DEF EditOpen
    <3>2. at[p] = "upserting" => Open(p)  BY DEF Open, Ended
    <3> QED  BY <1>3, <3>1, <3>2, StoresInside DEF EditTurns
  <2> QED  BY <1>1, <2>1, <2>2 DEF EmailFree, EmailEdit, WithEmail
<1>4. ASSUME NEW f \in Edits, EditStep(f), f # e
      PROVE  EmailFree(e)'
  <2>1. edit'[e] = edit[e]
    BY <1>1, <1>4, SendEffect, RunEffect DEF EditStep, Carries
  <2>2. edit[e].at = "writing" => FALSE
    <3>1. edit[e].at = "writing" => EditOpen(e)  BY DEF EditOpen
    <3> QED  BY <1>4, <3>1, SendAlone, RunsWhenOpen DEF EditStep, EditTurns, MergeAssumed
  <2> QED  BY <1>1, <2>1, <2>2 DEF EmailFree, EmailEdit
<1>5. CASE SendEdit(e)
  BY <1>1, <1>5, SentEmail DEF EmailFree, EmailEdit
<1>6. CASE RunEdit(e) \/ LoseEdit(e)
  <2>1. /\ Carries(e) /\ edit'[e].at \notin {"scoping", "finding"}
        /\ edit'[e].at = "writing" =>
              \/ ScopeAttendee(e)
              \/ edit[e].at = "checking" /\ edit'[e].at = "writing"
              \/ FindActionItem(e)
    BY <1>1, <1>6, RunEffect
  <2>2. EmailEdit(e)' <=> EmailEdit(e)  BY <2>1 DEF EmailEdit, Carries
  <2>3. ASSUME EmailEdit(e), edit'[e].at = "writing", edit[e].value # Null,
               NEW a \in WithEmail(edit[e].meeting, edit[e].value)'
        PROVE  a.id = edit[e].doc
    <3>1. ~FindActionItem(e)  BY <1>1, <2>3 DEF FindActionItem, EmailFree
    <3>2. ~ScopeAttendee(e)
      <4>1. ScopeAttendee(e) => edit[e].op = "updateAttendee"
        BY <2>3 DEF ScopeAttendee, EmailEdit, ScopedEdit, AttendeeEdit, Integrity
      <4> QED  BY <1>1, <2>3, <4>1, GotoCarries DEF ScopeAttendee
    <3>3. CheckEmail(e)
      BY <1>6, <2>1, <2>3, <3>1, <3>2, GotoCarries, <1>1
         DEF RunEdit, FindActionItem, InsertAttendee, SaveAttendee, RemoveAttendee, InsertActionItem,
             SaveActionItem, RemoveActionItem, StoreTranscript, RemoveMeeting, RemoveTranscripts, Writes,
             LoseEdit
    <3>4. \A b \in WithEmail(edit[e].meeting, edit[e].value) : b.id = edit[e].doc
      BY <1>1, <2>3, <3>3, GotoCarries DEF CheckEmail
    <3>5. attendees' = attendees /\ edit'[e].meeting = edit[e].meeting /\ edit'[e].value = edit[e].value
      BY <2>1, <3>3 DEF CheckEmail, records, Carries
    <3> QED  BY <2>3, <3>4, <3>5 DEF WithEmail
  <2> QED  BY <1>1, <2>1, <2>2, <2>3 DEF EmailFree, EmailEdit, Carries
<1> QED
  BY <1>2, <1>3, <1>4, <1>5, <1>6 DEF Next, UserEdit, EditStep, Generate, vars

LEMMA UniqueEmailsStep ==
  ASSUME MergeAssumed, MergeInv, [Next]_vars
  PROVE  UniqueEmails'
<1> USE DEF MergeInv, SoundRuns
<1>0. RecordsInv /\ attendees \subseteq Attendee
  BY DEF TypeInv, TypeOK, RecordsInv, RecordsTypeOK
<1>1. CASE attendees' \subseteq attendees  BY <1>1 DEF UniqueEmails
<1>2. ASSUME NEW n, attendees' = attendees \cup {n},
             n.email # Null => WithEmail(n.meeting, n.email) = {}
      PROVE  UniqueEmails'
  BY <1>2 DEF UniqueEmails, WithEmail
<1>3. ASSUME NEW p \in Requests, RunStep(p) \/ Crash(p), ~(attendees' \subseteq attendees)
      PROVE  UniqueEmails'
  <2>1. PICK a \in attendees', i \in DOMAIN upsert[p] : a \notin attendees /\ Stores(p, i, a)
    BY <1>3, RunStores
  <2>2. Alive(p)  BY <1>3, <2>1, RunSources
  <2>3. TaskInside(p, i)  BY DEF TasksInside
  <2>4. a.email # Null => WithEmail(a.meeting, a.email) = {}
    BY <2>1, <2>2, <2>3 DEF TaskInside, Stores
  <2> QED  BY <1>2, <2>1, <2>4 DEF Stores
<1>4. ASSUME NEW e \in Edits, EditStep(e)
      PROVE  UniqueEmails'
  <2>1. EmailFree(e) /\ ScopedEdit(e)  BY DEF EmailsFree, Integrity
  <2>2. CASE InsertAttendee(e)
    <3> DEFINE n == [id |-> <<e, 1>>, meeting |-> edit[e].meeting, email |-> edit[e].value, ai |-> edit[e].ai]
    <3>1. attendees' = attendees \cup {n} /\ n.meeting = edit[e].meeting /\ n.email = edit[e].value
      BY <2>2 DEF InsertAttendee
    <3> HIDE DEF n
    <3>2. \A a \in attendees : a.id # Null  BY <1>0, RecordsAssumption DEF Attendee
    <3>3. n.email # Null => WithEmail(n.meeting, n.email) = {}
      BY <2>1, <2>2, <3>1, <3>2 DEF InsertAttendee, Writes, EmailFree, EmailEdit, WithEmail
    <3> QED  BY <1>2, <3>1, <3>3
  <2>3. CASE SaveAttendee(e) /\ attendees' = Patched(attendees, edit[e].doc, "email", edit[e].value)
    <3> SUFFICES ASSUME NEW a \in attendees', NEW b \in attendees', a.meeting = b.meeting,
                        a.email = b.email, a.email # Null
                 PROVE  a.id = b.id
      BY DEF UniqueEmails
    <3>0. ASSUME NEW c \in attendees'
          PROVE  \E k \in attendees : /\ c.id = k.id /\ c.meeting = k.meeting
                                      /\ c.email = IF k.id = edit[e].doc THEN edit[e].value ELSE k.email
      BY <1>0, <2>3, PatchedAttendee
    <3>1. PICK k \in attendees : /\ a.id = k.id /\ a.meeting = k.meeting
                                 /\ a.email = IF k.id = edit[e].doc THEN edit[e].value ELSE k.email
      BY <3>0
    <3>2. PICK l \in attendees : /\ b.id = l.id /\ b.meeting = l.meeting
                                 /\ b.email = IF l.id = edit[e].doc THEN edit[e].value ELSE l.email
      BY <3>0
    <3>3. /\ \A c \in attendees : c.id = edit[e].doc => c.meeting = edit[e].meeting
          /\ edit[e].value # Null => \A c \in WithEmail(edit[e].meeting, edit[e].value) : c.id = edit[e].doc
      BY <2>1, <2>3 DEF SaveAttendee, Writes, ScopedEdit, AttendeeEdit, EmailFree, EmailEdit
    <3>4. CASE k.id = edit[e].doc /\ l.id # edit[e].doc  BY <3>1, <3>2, <3>3, <3>4 DEF WithEmail
    <3>5. CASE k.id # edit[e].doc /\ l.id = edit[e].doc  BY <3>1, <3>2, <3>3, <3>5 DEF WithEmail
    <3>6. CASE k.id = edit[e].doc /\ l.id = edit[e].doc  BY <3>1, <3>2, <3>6
    <3>7. CASE k.id # edit[e].doc /\ l.id # edit[e].doc
      BY <3>1, <3>2, <3>7 DEF UniqueEmails
    <3> QED  BY <3>4, <3>5, <3>6, <3>7
  <2>4. CASE RemoveAttendee(e)  BY <1>1, <2>4 DEF RemoveAttendee, Without
  <2>5. CASE attendees' = attendees  BY <1>1, <2>5
  <2>6. SendEdit(e) => attendees' = attendees  BY <1>0, SendEffect DEF records
  <2> QED
    BY <1>4, <2>2, <2>3, <2>4, <2>5, <2>6
       DEF EditStep, RunEdit, ScopeAttendee, CheckEmail, FindActionItem, SaveAttendee,
           InsertActionItem, SaveActionItem, RemoveActionItem, StoreTranscript, RemoveMeeting,
           RemoveTranscripts, LoseEdit, records
<1>5. UNCHANGED recordVars => attendees' = attendees  BY DEF recordVars, records
<1> QED  BY <1>1, <1>3, <1>4, <1>5 DEF Next, UserEdit, Generate, vars

LEMMA InitMerge == MergeAssumed /\ Init => MergeInv
<1> SUFFICES ASSUME MergeAssumed, Init PROVE MergeInv  OBVIOUS
<1>1. SoundRuns /\ EditTurns /\ RunTurns  BY InitSoundRuns, InitTurns
<1>2. UniqueEmails
  BY DEF Init, RecordsInit, UniqueEmails, MergeAssumed, FirstUnique
<1>3. TasksInside  BY DEF Init, TasksInside
<1>4. AnswersDistinct  BY DEF Init, AnswersDistinct, NoResponse
<1>5. EmailsFree
  BY RecordsAssumption DEF Init, RecordsInit, Blank, EmailsFree, EmailFree, EmailEdit, Operations
<1> QED  BY <1>1, <1>2, <1>3, <1>4, <1>5 DEF MergeInv

LEMMA MergeStep ==
  ASSUME MergeAssumed, MergeInv, [Next]_vars
  PROVE  MergeInv'
<1>1. SoundRuns' /\ EditTurns' /\ RunTurns' /\ AnswersDistinct'
  BY SoundStep, EditTurnsStep, RunTurnsStep, DistinctStep DEF MergeInv, SoundRuns, MergeAssumed
<1> QED  BY <1>1, TasksInsideStep, EmailsFreeStep, UniqueEmailsStep DEF MergeInv

\* Two attendees of a meeting never share an e-mail, for clients that await
\* each answer and a model that names no attendee twice.
THEOREM EmailsStayUnique == MergeAssumed => (Spec => []UniqueEmails)
<1> SUFFICES ASSUME MergeAssumed PROVE Spec => []UniqueEmails  OBVIOUS
<1>1. Init => MergeInv  BY InitMerge
<1>2. MergeInv /\ [Next]_vars => MergeInv'  BY MergeStep
<1>3. MergeInv => UniqueEmails  BY DEF MergeInv
<1> QED  BY <1>1, <1>2, <1>3, PTL DEF Spec

\* What a generation finds in the database does not fail it.
THEOREM NoFaultNoFailure == MergeAssumed => (Spec => []FailsOnlyOnFault)
<1> SUFFICES ASSUME MergeAssumed PROVE Spec => []FailsOnlyOnFault  OBVIOUS
<1>1. Init => MergeInv  BY InitMerge
<1>2. MergeInv /\ [Next]_vars => MergeInv'  BY MergeStep
<1>3. MergeInv => FailsOnlyOnFault
  BY DEF MergeInv, TasksInside, TaskInside, FailsOnlyOnFault
<1> QED  BY <1>1, <1>2, <1>3, PTL DEF Spec

(***************************************************************************)
(* The lifecycle of the status                                             *)
(***************************************************************************)
\* What makes the status the trace of one job: a meeting that exists is
\* PROCESSING while a generation works on it, one at most works on it, and one
\* that has been admitted and not yet marked it finds it not PROCESSING.
Working == Window \cup {"stranded", "stuck"}
ClaimedAt(m) ==
  /\ \A p \in WorkingOn(m) : meetingStatus[m] = "PROCESSING"
  /\ \A p, q \in WorkingOn(m) : p = q
  /\ \A p \in Requests : target[p] = m /\ at[p] \in Clearing => meetingStatus[m] # "PROCESSING"
Claimed == \A m \in Meetings : meetingStatus[m] # "GONE" => ClaimedAt(m)

ClaimInv == TypeInv /\ StatusExplained /\ RunTurns /\ Claimed

\* A generation starts to work with the write of PROCESSING and stops with the
\* write of COMPLETED or FAILED.
MarksStatus(p, s) == SetStatus(target[p], s) /\ target[p] \in Meetings
Moved(p) ==
  \/ /\ meetingStatus' = meetingStatus
     /\ at'[p] \in Working <=> at[p] \in Working
     /\ at'[p] \in Clearing => at[p] \in Clearing
  \/ at[p] = "cleared" /\ at'[p] = "asking" /\ MarksStatus(p, "PROCESSING")
  \/ /\ at[p] \in Window /\ at'[p] \in {"completed", "failed"}
     /\ \E s \in {"COMPLETED", "FAILED"} : MarksStatus(p, s)

LEMMA RunMoved ==
  ASSUME TypeInv, NEW p \in Requests, RunStep(p) \/ Crash(p)
  PROVE  Moved(p) /\ target' = target /\ \A q \in Requests : q # p => at'[q] = at[q]
<1>1. at \in [Requests -> RunStages]  BY DEF TypeInv, TypeOK, RunStages
<1>2. target[p] \in Meetings \/ at[p] = "idle"  BY DEF TypeInv, RunsShape
<1>3. target' = target /\ \A q \in Requests : q # p => at'[q] = at[q]  BY RunStatus
<1> USE DEF Clearing, Window, Working
<1>4. CASE LoadTranscript(p) \/ FindManualAssignees(p) \/ ClearItems(p) \/ ClearAttendees(p)
  BY <1>1, <1>4
     DEF LoadTranscript, FindManualAssignees, ClearItems, ClearAttendees, Move, Moved,
         recordVars, records
<1>5. CASE MarkProcessing(p) \/ Complete(p) \/ Fail(p)
  BY <1>1, <1>2, <1>5 DEF MarkProcessing, Complete, Fail, Move, Moved, MarksStatus
<1>6. CASE ModelAnswers(p) \/ ModelFails(p) \/ AttendeesReady(p) \/ AttendeesRejected(p)
           \/ ItemsFiled(p) \/ ItemsRejected(p) \/ SaveResults(p) \/ SaveFails(p) \/ CompleteFails(p)
           \/ FailFails(p)
  BY <1>1, <1>6
     DEF ModelAnswers, ModelFails, AttendeesReady, AttendeesRejected, ItemsFiled, ItemsRejected,
         SaveResults, SaveFails, CompleteFails, FailFails, Move, Moved, recordVars, records
<1>7. CASE AttendeeTask(p)
  BY <1>7
     DEF AttendeeTask, FindByEmail, CheckDuplicate, CreateAttendee, CreateAttendeeFails, Moved,
         recordVars, records
<1>8. CASE ItemTask(p)
  BY <1>8 DEF ItemTask, FileItem, FileItemFails, Moved, recordVars, records
<1>9. CASE Crash(p)
  <2>1. at[p] # "stranded"
    BY <1>9 DEF Crash, Running, Open, Alive, Ended
  <2> QED  BY <1>1, <1>9, <2>1 DEF Crash, Moved, recordVars, records
<1> QED  BY <1>3, <1>4, <1>5, <1>6, <1>7, <1>8, <1>9 DEF RunStep

\* Of the edits only the deletion of the meeting writes its status.
LEMMA EditWritesStatus ==
  ASSUME TypeInv, NEW e \in Edits, UserEdit(e)
  PROVE  \/ meetingStatus' = meetingStatus
         \/ \E m \in Meetings : meetingStatus' = [meetingStatus EXCEPT ![m] = "GONE"]
<1>1. meetingStatus \in [Meetings -> Status] /\ EditStep(e)
  BY DEF TypeInv, TypeOK, RecordsTypeOK, UserEdit
<1>2. CASE RemoveMeeting(e)
  BY <1>1, <1>2 DEF RemoveMeeting
<1>3. CASE SendEdit(e) \/ LoseEdit(e)
  BY <1>3
     DEF SendEdit, UpdateAttendee, DeleteAttendee, AddAttendee, CreateActionItem,
         UpdateActionItem, DeleteActionItem, SetTranscript, DeleteMeeting, LoadAttendee,
         ScopedRequest, LoseEdit, records
<1>4. CASE RunEdit(e) /\ ~RemoveMeeting(e)
  BY <1>4
     DEF RunEdit, ScopeAttendee, CheckEmail, FindActionItem, InsertAttendee, SaveAttendee,
         RemoveAttendee, InsertActionItem, SaveActionItem, RemoveActionItem, StoreTranscript,
         RemoveTranscripts, records
<1> QED  BY <1>1, <1>2, <1>3, <1>4 DEF EditStep

\* The generation that marks a meeting is alone on it, and one that ends it was.
LEMMA MarkedAlone ==
  ASSUME ClaimInv, NEW p \in Requests, RunStep(p) \/ Crash(p),
         target[p] \in Meetings, meetingStatus[target[p]] # "GONE"
  PROVE  /\ at[p] = "cleared" => WorkingOn(target[p]) = {} /\ meetingStatus[target[p]] # "PROCESSING"
         /\ at[p] \in Window => WorkingOn(target[p]) = {p} /\ meetingStatus[target[p]] = "PROCESSING"
<1>1. ClaimedAt(target[p])  BY DEF ClaimInv, Claimed
<1>2. CASE at[p] = "cleared"
  <2>1. meetingStatus[target[p]] # "PROCESSING"  BY <1>1, <1>2 DEF ClaimedAt, Clearing
  <2> QED  BY <1>1, <1>2, <2>1 DEF ClaimedAt, Window
<1>3. CASE at[p] \in Window
  <2>1. p \in WorkingOn(target[p])  BY <1>3 DEF WorkingOn
  <2> QED  BY <1>1, <1>3, <2>1 DEF ClaimedAt, Window
<1> QED  BY <1>2, <1>3

LEMMA ClaimedStep ==
  ASSUME SoloRuns, ClaimInv, [Next]_vars
  PROVE  Claimed'
<1> SUFFICES ASSUME NEW m \in Meetings, meetingStatus'[m] # "GONE"
             PROVE  ClaimedAt(m)'
  BY DEF Claimed
<1> USE DEF ClaimInv
<1>1. /\ at \in [Requests -> RunStages] /\ target \in [Requests -> Meetings \cup {Null}]
      /\ meetingStatus \in [Meetings -> Status]
  BY DEF TypeInv, TypeOK, RecordsTypeOK, RunStages
<1>2. meetingStatus[m] # "GONE" => ClaimedAt(m)  BY DEF Claimed
<1>3. CASE UNCHANGED vars
  BY <1>2, <1>3 DEF vars, recordVars, records, runVars, ClaimedAt, WorkingOn
<1>4. ASSUME NEW p \in Requests, NEW u \in Users, NEW n \in Meetings, Generate(p, u, n)
      PROVE  ClaimedAt(m)'
  <2>1. /\ meetingStatus' = meetingStatus /\ at[p] = "idle"
        /\ at' = [at EXCEPT ![p] = IF Refuses(u, n) THEN "refused" ELSE "accepted"]
        /\ target' = [target EXCEPT ![p] = n]
    BY <1>4 DEF Generate, Move, recordVars, records
  <2>2. WorkingOn(m)' = WorkingOn(m)  BY <1>1, <2>1 DEF WorkingOn, Window
  <2>3. at'[p] \in Clearing => meetingStatus[target'[p]] # "PROCESSING"
    BY <1>1, <2>1 DEF Refuses, Clearing
  <2>4. \A q \in Requests : q # p => at'[q] = at[q] /\ target'[q] = target[q]  BY <1>1, <2>1
  <2> QED  BY <1>2, <2>1, <2>2, <2>3, <2>4 DEF ClaimedAt
<1>5. ASSUME NEW p \in Requests, RunStep(p) \/ Crash(p)
      PROVE  ClaimedAt(m)'
  <2>1. Moved(p) /\ target' = target /\ \A q \in Requests : q # p => at'[q] = at[q]
    BY <1>5, RunMoved
  <2>2. meetingStatus[m] # "GONE"  BY <1>5, GoneKept
  <2>3. CASE /\ meetingStatus' = meetingStatus
             /\ at'[p] \in Working <=> at[p] \in Working
             /\ at'[p] \in Clearing => at[p] \in Clearing
    <3>1. WorkingOn(m)' = WorkingOn(m)  BY <2>1, <2>3 DEF WorkingOn, Working
    <3> QED  BY <1>2, <2>1, <2>2, <2>3, <3>1 DEF ClaimedAt
  <2>4. CASE target[p] # m
    <3>1. meetingStatus'[m] = meetingStatus[m]
      BY <1>1, <2>1, <2>4 DEF Moved, MarksStatus, SetStatus
    <3>2. WorkingOn(m)' = WorkingOn(m)  BY <2>1, <2>4 DEF WorkingOn
    <3> QED  BY <1>2, <2>1, <2>2, <2>4, <3>1, <3>2 DEF ClaimedAt
  <2>5. CASE target[p] = m /\ at[p] = "cleared" /\ at'[p] = "asking" /\ MarksStatus(p, "PROCESSING")
    <3>1. WorkingOn(m) = {}  BY <1>5, <2>2, <2>5, MarkedAlone DEF MarksStatus
    <3>2. WorkingOn(m)' = {p}  BY <2>1, <2>5, <3>1 DEF WorkingOn, Window
    <3>3. meetingStatus'[m] = "PROCESSING"  BY <1>1, <2>2, <2>5 DEF MarksStatus, SetStatus
    <3>4. \A q \in Requests : ~(at'[q] \in Clearing)
      <4>1. Open(p)  BY <2>5 DEF Open, Ended
      <4>2. \A q \in Requests : q # p => ~Open(q)  BY <4>1 DEF RunTurns
      <4>3. \A q \in Requests : at[q] \in Clearing => Open(q)  BY DEF Open, Clearing, Ended
      <4> QED  BY <2>1, <2>5, <4>2, <4>3 DEF Clearing
    <3> QED  BY <3>2, <3>3, <3>4 DEF ClaimedAt
  <2>6. CASE /\ target[p] = m /\ at[p] \in Window /\ at'[p] \in {"completed", "failed"}
             /\ \E s \in {"COMPLETED", "FAILED"} : MarksStatus(p, s)
    <3>1. WorkingOn(m) = {p}  BY <1>5, <2>2, <2>6, MarkedAlone DEF MarksStatus
    <3>2. WorkingOn(m)' = {}  BY <2>1, <2>6, <3>1 DEF WorkingOn, Window
    <3>3. meetingStatus'[m] # "PROCESSING"  BY <1>1, <2>2, <2>6 DEF MarksStatus, SetStatus
    <3> QED  BY <3>2, <3>3 DEF ClaimedAt
  <2> QED  BY <2>1, <2>3, <2>4, <2>5, <2>6 DEF Moved
<1>6. ASSUME NEW e \in Edits, UserEdit(e)
      PROVE  ClaimedAt(m)'
  <2>1. meetingStatus'[m] = meetingStatus[m] /\ at' = at /\ target' = target
    BY <1>6, EditStatus DEF UserEdit, runVars
  <2> QED  BY <1>2, <2>1 DEF ClaimedAt, WorkingOn
<1> QED  BY <1>3, <1>4, <1>5, <1>6 DEF Next

\* The job of a meeting is what its status and the generations on it make it.
JobFor(s, W) == IF s = "GONE" \/ W = {} THEN Null ELSE CHOOSE p \in W : TRUE

JobsFor == JobOf = [m \in Meetings |-> JobFor(meetingStatus[m], WorkingOn(m))]

LEMMA JobsNow == JobsFor /\ JobsFor'
<1>1. JobsFor  BY DEF JobsFor, JobOf, JobFor
<1> QED  BY <1>1, PTL

LEMMA JobAlone == \A s, p : s # "GONE" => JobFor(s, {p}) = p
<1>1. \A p : (CHOOSE q \in {p} : TRUE) = p  OBVIOUS
<1> QED  BY <1>1 DEF JobFor

\* Every step is a step of the lifecycle or leaves status and job alone.
LEMMA StepOfLifecycle ==
  ASSUME SoloRuns, ClaimInv, Claimed', [Next]_vars
  PROVE  [Lifecycle!Next]_(Lifecycle!lifecycleVars)
<1> USE DEF ClaimInv
<1>1. /\ at \in [Requests -> RunStages] /\ target \in [Requests -> Meetings \cup {Null}]
      /\ meetingStatus \in [Meetings -> Status]
      /\ JobOf = [m \in Meetings |-> JobOf[m]] /\ JobOf' = [m \in Meetings |-> JobOf'[m]]
  BY DEF TypeInv, TypeOK, RecordsTypeOK, RunStages, JobOf
<1>2. ASSUME NEW m \in Meetings, meetingStatus'[m] = meetingStatus[m],
             WorkingOn(m)' = WorkingOn(m) \/ meetingStatus[m] = "GONE"
      PROVE  JobOf'[m] = JobOf[m]
  <2>1. meetingStatus[m] = "GONE" => \A W, V : JobFor(meetingStatus[m], W) = JobFor(meetingStatus[m], V)
    BY DEF JobFor
  <2>2. JobFor(meetingStatus'[m], WorkingOn(m)') = JobFor(meetingStatus[m], WorkingOn(m))
    BY <1>2, <2>1
  <2> QED  BY <2>2, JobsNow DEF JobsFor
<1>3. ASSUME meetingStatus' = meetingStatus, \A m \in Meetings : WorkingOn(m)' = WorkingOn(m)
      PROVE  UNCHANGED Lifecycle!lifecycleVars
  <2>1. \A m \in Meetings : JobOf'[m] = JobOf[m]  BY <1>2, <1>3
  <2> QED  BY <1>1, <1>3, <2>1 DEF Lifecycle!lifecycleVars
<1>4. CASE UNCHANGED vars
  BY <1>3, <1>4 DEF vars, recordVars, records, runVars, WorkingOn
<1>5. ASSUME NEW p \in Requests, NEW u \in Users, NEW n \in Meetings, Generate(p, u, n)
      PROVE  UNCHANGED Lifecycle!lifecycleVars
  <2>1. \A m \in Meetings : WorkingOn(m)' = WorkingOn(m)
    BY <1>1, <1>5 DEF Generate, Move, WorkingOn, Window
  <2> QED  BY <1>3, <1>5, <2>1 DEF Generate, recordVars, records
<1>6. ASSUME NEW p \in Requests, RunStep(p) \/ Crash(p)
      PROVE  [Lifecycle!Next]_(Lifecycle!lifecycleVars)
  <2>m. PICK m : m = target[p]  OBVIOUS
  <2>1. Moved(p) /\ target' = target /\ \A q \in Requests : q # p => at'[q] = at[q]
    BY <1>6, RunMoved
  <2>2. \A n \in Meetings : n # m => WorkingOn(n)' = WorkingOn(n)  BY <2>m, <2>1 DEF WorkingOn
  <2>3. CASE /\ meetingStatus' = meetingStatus
             /\ at'[p] \in Working <=> at[p] \in Working
    <3>1. \A n \in Meetings : WorkingOn(n)' = WorkingOn(n)  BY <2>1, <2>3 DEF WorkingOn, Working
    <3> QED  BY <1>3, <2>3, <3>1
  <2>4. CASE m \in Meetings /\ meetingStatus[m] = "GONE" /\ \E s : MarksStatus(p, s)
    <3>1. meetingStatus' = meetingStatus  BY <2>m, <2>4 DEF MarksStatus, SetStatus
    <3>2. \A n \in Meetings : JobOf'[n] = JobOf[n]  BY <1>2, <2>2, <2>4, <3>1
    <3> QED  BY <1>1, <3>1, <3>2 DEF Lifecycle!lifecycleVars
  <2>5. CASE /\ m \in Meetings /\ meetingStatus[m] # "GONE"
             /\ at[p] = "cleared" /\ at'[p] = "asking" /\ MarksStatus(p, "PROCESSING")
    <3>1. WorkingOn(m) = {} /\ meetingStatus[m] # "PROCESSING"  BY <1>6, <2>m, <2>5, MarkedAlone
    <3>2. meetingStatus' = [meetingStatus EXCEPT ![m] = "PROCESSING"]
      BY <2>m, <2>5 DEF MarksStatus, SetStatus
    <3>3. WorkingOn(m)' = {p} /\ meetingStatus'[m] # "GONE"
      BY <1>1, <2>m, <2>1, <2>5, <3>1, <3>2 DEF WorkingOn, Window
    <3>4. JobOf'[m] = p  BY <2>5, <3>3, JobsNow, JobAlone DEF JobsFor
    <3>5. \A n \in Meetings : n # m => JobOf'[n] = JobOf[n]  BY <1>1, <1>2, <2>2, <3>2
    <3>6. JobOf' = [JobOf EXCEPT ![m] = p]  BY <1>1, <2>5, <3>4, <3>5
    <3>7. meetingStatus[m] \in {"PENDING", "COMPLETED", "FAILED"}
      BY <1>1, <2>5, <3>1 DEF Status
    <3> QED  BY <2>5, <3>2, <3>6, <3>7 DEF Lifecycle!Next, Lifecycle!Begin
  <2>6. CASE /\ m \in Meetings /\ meetingStatus[m] # "GONE" /\ at[p] \in Window
             /\ at'[p] \in {"completed", "failed"} /\ \E s \in {"COMPLETED", "FAILED"} : MarksStatus(p, s)
    <3>1. WorkingOn(m) = {p} /\ meetingStatus[m] = "PROCESSING"  BY <1>6, <2>m, <2>6, MarkedAlone
    <3>2. PICK s \in {"COMPLETED", "FAILED"} : meetingStatus' = [meetingStatus EXCEPT ![m] = s]
      BY <2>m, <2>6 DEF MarksStatus, SetStatus
    <3>3. WorkingOn(m)' = {}  BY <2>1, <2>6, <3>1 DEF WorkingOn, Window
    <3>4. JobOf'[m] = Null  BY <2>6, <3>3, JobsNow DEF JobsFor, JobFor
    <3>5. \A n \in Meetings : n # m => JobOf'[n] = JobOf[n]  BY <1>1, <1>2, <2>2, <3>2
    <3>6. JobOf' = [JobOf EXCEPT ![m] = Null]  BY <1>1, <2>6, <3>4, <3>5
    <3> QED  BY <2>6, <3>1, <3>2, <3>6 DEF Lifecycle!Next, Lifecycle!End
  <2> QED  BY <2>m, <2>1, <2>3, <2>4, <2>5, <2>6 DEF Moved, MarksStatus
<1>7. ASSUME NEW e \in Edits, UserEdit(e)
      PROVE  [Lifecycle!Next]_(Lifecycle!lifecycleVars)
  <2>1. \A n \in Meetings : WorkingOn(n)' = WorkingOn(n)
    BY <1>7 DEF UserEdit, runVars, WorkingOn
  <2>2. CASE meetingStatus' = meetingStatus  BY <1>3, <2>1, <2>2
  <2>3. ASSUME NEW m \in Meetings, meetingStatus' = [meetingStatus EXCEPT ![m] = "GONE"]
        PROVE  Lifecycle!Next
    <3>1. JobOf'[m] = Null  BY <1>1, <2>3, JobsNow DEF JobsFor, JobFor
    <3>2. \A n \in Meetings : n # m => JobOf'[n] = JobOf[n]  BY <1>1, <1>2, <2>1, <2>3
    <3>3. JobOf' = [JobOf EXCEPT ![m] = Null]  BY <1>1, <3>1, <3>2
    <3> QED  BY <2>3, <3>3 DEF Lifecycle!Next, Lifecycle!Delete
  <2> QED  BY <1>7, <2>2, <2>3, EditWritesStatus
<1> QED  BY <1>4, <1>5, <1>6, <1>7 DEF Next

\* For clients that await their generation the meetings follow the lifecycle,
\* whatever fails or dies and whoever edits or deletes meanwhile.
THEOREM FollowsLifecycle == SoloRuns => (Spec => LifecycleSpec)
<1> SUFFICES ASSUME SoloRuns PROVE Spec => LifecycleSpec  OBVIOUS
<1>1. ASSUME Init PROVE ClaimInv /\ Lifecycle!Init
  <2>1. \A m \in Meetings : WorkingOn(m) = {}  BY <1>1 DEF Init, WorkingOn, Window
  <2>2. Claimed  BY <1>1, <2>1 DEF Init, Claimed, ClaimedAt, Clearing
  <2>3. StatusExplained  BY <1>1 DEF Init, RecordsInit, StatusExplained
  <2>4. Lifecycle!Init
    <3>1. JobOf = [m \in Meetings |-> Null]  BY <2>1 DEF JobOf
    <3> QED  BY <1>1, <3>1 DEF Init, RecordsInit, Lifecycle!Init
  <2> QED  BY <1>1, <2>2, <2>3, <2>4, InitTyped, InitTurns DEF ClaimInv
<1>2. ClaimInv /\ [Next]_vars => ClaimInv'
  BY NextTyped, StatusStep, RunTurnsStep, ClaimedStep DEF ClaimInv
<1>3. ClaimInv /\ ClaimInv' /\ [Next]_vars => [Lifecycle!Next]_(Lifecycle!lifecycleVars)
  BY StepOfLifecycle DEF ClaimInv
<1> QED  BY <1>1, <1>2, <1>3, PTL DEF Spec, LifecycleSpec, Lifecycle!Spec

(***************************************************************************)
(* A COMPLETED meeting shows one whole generation.                          *)
(***************************************************************************)
\* Of users it is assumed that they await each answer and delete no attendee and
\* no item, whatever ids they send; every call but the process may fail.
WholeAssumed ==
  /\ SoloRuns /\ SoloEdits
  /\ Mortal \cap Requests = {}
  /\ EditKinds \cap {"deleteAttendee", "deleteActionItem"} = {}

Kinds == \A e \in Edits : edit[e].op \in EditKinds \cup {Null}

\* A generation in flight knows those that completed before.
Preceded ==
  \A p, q \in Requests :
    /\ Open(p) /\ at[q] = "completed" /\ target[q] = target[p] => q \in before[p]
    /\ at[p] \notin {"aborted", "stranded"}

\* What a generation in flight has stored is there, and nobody takes it away
\* before it ends.
Known(d) == d \in Ids(attendees) \cup {Null}
StoredAt(p) ==
  at[p] \in Window =>
    /\ \A i \in DOMAIN upsert[p] :
         Known(upsert[p][i].doc) /\ (upsert[p][i].step = "ok" => upsert[p][i].doc # Null)
    /\ \A j \in DOMAIN filed[p] : filed[p][j] = "filed" =>
         \E i \in actionItems : i.id = <<p, j>> /\ i.meeting = target[p]
    /\ \A i \in actionItems : i.id[1] = p /\ ~Reassigned(i.id) => Known(i.assignee)
    /\ at[p] \in {"filing", "saving", "completing"} => Len(filed[p]) = Len(answer[p].items)
Stored == \A p \in Requests : StoredAt(p)

\* No other generation of the meeting has completed since this one was sent.
Last(p) ==
  \A q \in Requests \ {p} : at[q] = "completed" /\ target[q] = target[p] => q \in before[p]
ClearedNow(m) ==
  \E q \in Requests : target[q] = m /\ at[q] \in {"itemsCleared", "cleared"}
WholeOn(p, m) == at[p] = "completed" /\ target[p] = m /\ Last(p) /\ ShowsWhole(p)
WholeAt(m) ==
  meetingStatus[m] = "COMPLETED" /\ ~ClearedNow(m) => \E p \in Requests : WholeOn(p, m)

WholeInv ==
  /\ FiledInv /\ EditTurns /\ WipeInv
  /\ StatusExplained /\ RunTurns /\ Claimed
  /\ Kinds /\ Preceded /\ Stored
  /\ \A m \in Meetings : WholeAt(m)

LEMMA KindsStep ==
  ASSUME TypeInv, Kinds, [Next]_vars
  PROVE  Kinds'
<1> SUFFICES ASSUME NEW f \in Edits PROVE edit'[f].op \in EditKinds \cup {Null}  BY DEF Kinds
<1>1. RecordsInv /\ edit \in [Edits -> Edit] /\ edit[f].op \in EditKinds \cup {Null}
  BY DEF Kinds, TypeInv, TypeOK, RecordsInv, RecordsTypeOK
<1>2. CASE edit' = edit  BY <1>1, <1>2
<1>3. ASSUME NEW e \in Edits, SendEdit(e)  PROVE edit'[f].op \in EditKinds \cup {Null}
  <2>1. CASE f # e  BY <1>1, <1>3, <2>1, SendEffect
  <2>2. CASE f = e
    <3>1. ASSUME NEW u, NEW m, NEW s, NEW op, NEW d, NEW x, NEW g, ScopedRequest(e, u, m, s, op, d, x, g)
          PROVE  edit'[e].op \in EditKinds
      BY <1>1, <3>1, SentScoped DEF ScopedRequest, MaySend
    <3>2. ASSUME NEW u, NEW op, NEW a, NEW x, LoadAttendee(e, u, op, a, x)
          PROVE  edit'[e].op \in EditKinds
      BY <1>1, <3>2, SentLoaded DEF LoadAttendee, MaySend
    <3> QED
      BY <1>3, <2>2, <3>1, <3>2
         DEF SendEdit, UpdateAttendee, DeleteAttendee, AddAttendee, CreateActionItem,
             UpdateActionItem, DeleteActionItem, SetTranscript, DeleteMeeting
  <2> QED  BY <2>1, <2>2
<1>4. ASSUME NEW e \in Edits, RunEdit(e) \/ LoseEdit(e)  PROVE edit'[f].op \in EditKinds \cup {Null}
  BY <1>1, <1>4, RunEffect DEF Carries
<1>5. \A p \in Requests : RunStep(p) \/ Crash(p) => edit' = edit  BY TasksChange
<1> QED
  BY <1>2, <1>3, <1>4, <1>5 DEF Next, UserEdit, EditStep, Generate, vars, recordVars

\* A generation ends from one of its calls; it does not end twice.
LEMMA RunEnds ==
  ASSUME TypeInv, NEW p \in Requests, RunStep(p) \/ Crash(p)
  PROVE  /\ at'[p] \in {"completed", "failed"} => at'[p] = at[p] \/ at[p] \in Window
         /\ at'[p] \in {"aborted", "stranded"} => at'[p] = at[p] \/ Crash(p)
         /\ before' = before
<1>1. at \in [Requests -> RunStages]  BY DEF TypeInv, TypeOK, RunStages
<1>2. CASE \/ LoadTranscript(p) \/ FindManualAssignees(p) \/ ClearItems(p) \/ ClearAttendees(p)
           \/ MarkProcessing(p) \/ ModelAnswers(p) \/ ModelFails(p)
           \/ AttendeesReady(p) \/ AttendeesRejected(p) \/ ItemsFiled(p) \/ ItemsRejected(p)
           \/ SaveResults(p) \/ SaveFails(p) \/ CompleteFails(p) \/ Complete(p) \/ Fail(p)
           \/ FailFails(p)
  BY <1>1, <1>2
     DEF LoadTranscript, FindManualAssignees, ClearItems, ClearAttendees, MarkProcessing, ModelAnswers,
         ModelFails, AttendeesReady, AttendeesRejected, ItemsFiled, ItemsRejected, SaveResults,
         SaveFails, CompleteFails, FailFails, Complete, Fail, Move, Window
<1>3. CASE AttendeeTask(p) \/ ItemTask(p)
  BY <1>3
     DEF AttendeeTask, FindByEmail, CheckDuplicate, CreateAttendee, CreateAttendeeFails, ItemTask,
         FileItem, FileItemFails
<1>4. CASE Crash(p)  BY <1>1, <1>4 DEF Crash
<1> QED  BY <1>2, <1>3, <1>4 DEF RunStep

LEMMA PrecededStep ==
  ASSUME SoloRuns, Mortal \cap Requests = {}, TypeInv, RunTurns, Joined, Preceded, [Next]_vars
  PROVE  Preceded'
<1> SUFFICES ASSUME NEW p \in Requests, NEW q \in Requests
             PROVE  /\ Open(p)' /\ at'[q] = "completed" /\ target'[q] = target'[p]
                         => q \in before'[p]
                    /\ at'[p] \notin {"aborted", "stranded"}
  BY DEF Preceded
<1>1. /\ at \in [Requests -> RunStages] /\ before \in [Requests -> SUBSET Requests]
      /\ target \in [Requests -> Meetings \cup {Null}]
      /\ Open(p) /\ at[q] = "completed" /\ target[q] = target[p] => q \in before[p]
      /\ at[p] \notin {"aborted", "stranded"}
  BY DEF TypeInv, TypeOK, RunStages, Preceded
<1>2. CASE UNCHANGED runVars  BY <1>1, <1>2 DEF runVars, Open
<1>3. ASSUME NEW r \in Requests, NEW u \in Users, NEW m \in Meetings, Generate(r, u, m), r = p
      PROVE  /\ Open(p)' /\ at'[q] = "completed" /\ target'[q] = target'[p]
                  => q \in before'[p]
             /\ at'[p] \notin {"aborted", "stranded"}
  <2>1. /\ at'[p] \in {"refused", "accepted"} /\ target'[p] = m
        /\ before'[p] = {s \in Requests : target[s] = m /\ at[s] \in Ended /\ ~Running(s)}
        /\ q # p => at'[q] = at[q] /\ target'[q] = target[q]
    BY <1>1, <1>3 DEF Generate, Move
  <2>2. at[q] = "completed" => at[q] \in Ended /\ ~Running(q)
    BY DEF Joined, Ended, Running, Open, TasksRunning
  <2> QED  BY <2>1, <2>2
<1>4. ASSUME NEW r \in Requests, NEW u \in Users, NEW m \in Meetings, Generate(r, u, m), r # p
      PROVE  ~Open(p)' /\ at'[p] = at[p]
  BY <1>1, <1>4 DEF Generate, Move, Open
<1>5. ASSUME NEW r \in Requests, RunStep(r) \/ Crash(r)
      PROVE  /\ Open(p)' /\ at'[q] = "completed" /\ target'[q] = target'[p]
                  => q \in before'[p]
             /\ at'[p] \notin {"aborted", "stranded"}
  <2>1. /\ target' = target /\ before' = before /\ (Open(p)' => Open(p))
        /\ \A s \in Requests : s # r => at'[s] = at[s]
    BY <1>5, RunMoved, RunEnds, RunOpensNone
  <2>2. ~Crash(r) /\ at'[p] \notin {"aborted", "stranded"}
    BY <1>1, <1>5, <2>1, RunEnds DEF Crash
  <2>3. CASE at'[q] = at[q]  BY <1>1, <2>1, <2>2, <2>3
  <2>4. CASE at'[q] # at[q] /\ at'[q] = "completed"
    <3>1. q = r /\ at[q] \in Window  BY <1>5, <2>1, <2>4, RunEnds
    <3>2. Open(q)  BY <3>1 DEF Open, Window, Ended
    <3>3. Open(p) => p = q  BY <3>2 DEF RunTurns
    <3> QED  BY <2>1, <2>2, <2>4, <3>3 DEF Open, Ended
  <2> QED  BY <2>2, <2>3, <2>4
<1>6. (\E e \in Edits : UserEdit(e)) \/ UNCHANGED vars => UNCHANGED runVars  BY DEF UserEdit, vars
<1> QED  BY <1>1, <1>2, <1>3, <1>4, <1>5, <1>6 DEF Next

\* Only the deletions of a generation take documents away, and what it stores
\* is named after it.
LEMMA RunKeeps ==
  ASSUME TypeInv, NEW p \in Requests, RunStep(p) \/ Crash(p)
  PROVE  /\ ~ClearAttendees(p) => attendees \subseteq attendees'
         /\ ~ClearItems(p) => actionItems \subseteq actionItems'
         /\ \A i \in actionItems' \ actionItems : i.id[1] = p
         /\ \A q \in Requests : q # p => answer'[q] = answer[q]
<1>1. \A i \in actionItems' \ actionItems : i.id[1] = p  BY RunSources
<1>2. \A q \in Requests : q # p => answer'[q] = answer[q]
  BY TasksChange DEF ModelAnswers, TypeInv, TypeOK
<1>3. /\ ~ClearAttendees(p) => attendees \subseteq attendees'
      /\ ~ClearItems(p) => actionItems \subseteq actionItems'
  BY TasksChange DEF CreateAttendee, FileItem
<1> QED  BY <1>1, <1>2, <1>3

LEMMA StoredRun ==
  ASSUME WholeAssumed, WholeInv, NEW p \in Requests, RunStep(p) \/ Crash(p)
  PROVE  StoredAt(p)'
<1> USE DEF WholeInv, WipeInv, FiledInv, SoundRuns
<1> SUFFICES ASSUME at'[p] \in Window PROVE StoredAt(p)'  BY DEF StoredAt
<1>0. /\ at \in [Requests -> RunStages] /\ upsert \in [Requests -> Seq(Task)]
      /\ filed \in [Requests -> Seq({"filing", "filed", "failed"})]
      /\ answer[p] \in Response /\ actionItems \subseteq ActionItem
  BY DEF TypeInv, TypeOK, RecordsTypeOK, RunStages
<1>1. /\ StoredAt(p) /\ TypeInv /\ target' = target
      /\ \A d : Reassigned(d)' <=> Reassigned(d)
  BY TasksChange DEF Stored, Reassigned
<1>2. ~Crash(p)  BY DEF WholeAssumed, Crash
<1>3. ASSUME filed[p] = <<>>, NEW i \in actionItems PROVE i.id[1] # p
  <2>1. i.id # Null /\ RunFiled(i.id)  BY <1>0, RecordsAssumption DEF RunIdentities, ActionItem
  <2>2. i.id[1] = p => i.id[2] \in DOMAIN filed[p]  BY <2>1 DEF RunFiled
  <2> QED  BY <1>3, <2>2
<1>4. \A d : attendees \subseteq attendees' /\ Known(d) => Known(d)'  BY DEF Known, Ids
<1>5. CASE MarkProcessing(p)
  <2>1. upsert[p] = <<>> /\ filed[p] = <<>>
    BY <1>0, <1>5 DEF MarkProcessing, Move, Clearing, TypeInv, RunsShape
  <2>2. at'[p] = "asking" /\ UNCHANGED <<upsert, filed, actionItems>>
    BY <1>0, <1>5 DEF MarkProcessing, Move
  <2> QED  BY <1>3, <2>1, <2>2 DEF StoredAt
<1>6. CASE ModelAnswers(p)
  <2>1. upsert[p] = <<>> /\ filed[p] = <<>>
    BY <1>6 DEF ModelAnswers, Move, TypeInv, RunsShape
  <2>2. PICK r \in Responses :
          upsert' = [upsert EXCEPT ![p] =
            [i \in 1..Len(r.attendees) |-> [step |-> FirstStep(r.attendees[i]), doc |-> Null]]]
    BY <1>6 DEF ModelAnswers
  <2>3. \A i \in DOMAIN upsert'[p] : upsert'[p][i].doc = Null /\ upsert'[p][i].step # "ok"
    BY <1>0, <2>2 DEF FirstStep
  <2>4. at'[p] = "upserting" /\ UNCHANGED <<filed, actionItems>>
    BY <1>0, <1>6 DEF ModelAnswers, Move, recordVars, records
  <2> QED  BY <1>3, <2>1, <2>3, <2>4 DEF StoredAt, Known
<1>7. CASE AttendeeTask(p)
  <2>1. PICK i \in DOMAIN upsert[p] :
          FindByEmail(p, i) \/ CheckDuplicate(p, i) \/ CreateAttendee(p, i) \/ CreateAttendeeFails(p, i)
    BY <1>7 DEF AttendeeTask
  <2>2. /\ UNCHANGED <<at, filed, answer, actionItems>>
        /\ attendees \subseteq attendees'
    BY <2>1
       DEF FindByEmail, CheckDuplicate, CreateAttendee, CreateAttendeeFails, recordVars, records
  <2>3. PICK s, d : SetTask(p, i, s, d) /\ Known(d)' /\ (s = "ok" => d # Null)
    <3>1. CASE FindByEmail(p, i)
      <4>1. \A a \in attendees : a.id # Null
        BY RecordsAssumption DEF TypeInv, TypeOK, RecordsTypeOK, Attendee
      <4>2. CASE SetTask(p, i, "checking", Null)  BY <4>2 DEF Known
      <4>3. CASE \E a \in attendees : SetTask(p, i, "ok", a.id)
        BY <2>2, <4>1, <4>3 DEF Known, Ids
      <4> QED  BY <3>1, <4>2, <4>3 DEF FindByEmail, WithEmail
    <3>2. CASE CheckDuplicate(p, i) \/ CreateAttendeeFails(p, i)
      <4>1. \E s \in {"creating", "failed"} : SetTask(p, i, s, Null)
        BY <3>2 DEF CheckDuplicate, CreateAttendeeFails
      <4> QED  BY <4>1 DEF Known
    <3>3. CASE CreateAttendee(p, i)
      <4> DEFINE a == [id |-> <<p, i>>, meeting |-> target[p], email |-> EmailOf(p, i), ai |-> TRUE]
      <4>1. a \in attendees' /\ a.id = <<p, i>>  BY <3>3 DEF CreateAttendee
      <4> HIDE DEF a
      <4>2. SetTask(p, i, "ok", <<p, i>>)  BY <3>3 DEF CreateAttendee
      <4>3. <<p, i>> # Null  BY TaskKnown, RecordsAssumption, AiAssumption DEF DocId
      <4> QED  BY <4>1, <4>2, <4>3 DEF Known, Ids
    <3> QED  BY <2>1, <3>1, <3>2, <3>3
  <2>4. /\ upsert'[p][i].doc = d /\ upsert'[p][i].step = s /\ DOMAIN upsert'[p] = DOMAIN upsert[p]
        /\ \A k \in DOMAIN upsert[p] : k # i => upsert'[p][k] = upsert[p][k]
    BY <2>3, TaskSet DEF TypeInv
  <2>5. (\A k \in DOMAIN upsert[p] :
           Known(upsert[p][k].doc) /\ (upsert[p][k].step = "ok" => upsert[p][k].doc # Null))'
    BY <1>1, <1>4, <2>2, <2>3, <2>4 DEF StoredAt
  <2> QED  BY <1>1, <1>4, <2>2, <2>5 DEF StoredAt
<1>8. CASE AttendeesReady(p)
  <2>1. /\ at[p] = "upserting" /\ at'[p] = "filing" /\ UNCHANGED <<attendees, actionItems, upsert, answer>>
        /\ filed' = [filed EXCEPT ![p] = [j \in 1..Len(answer[p].items) |-> "filing"]]
    BY <1>0, <1>8 DEF AttendeesReady, Move, recordVars, records
  <2>2. filed'[p] = [j \in 1..Len(answer[p].items) |-> "filing"]  BY <1>0, <2>1
  <2>3. Len(filed'[p]) = Len(answer[p].items)
    <3>1. Len(answer[p].items) \in Nat  BY <1>0 DEF Response
    <3> QED  BY <2>2, <3>1
  <2> QED  BY <1>1, <1>4, <2>1, <2>2, <2>3 DEF StoredAt, Window
<1>9. CASE ItemTask(p)
  <2>1. PICK j \in DOMAIN filed[p] : FileItem(p, j) \/ FileItemFails(p, j)
    BY <1>9 DEF ItemTask
  <2>2. PICK s : SetFiled(p, j, s) /\ (s = "filed" => FileItem(p, j))
    BY <2>1 DEF FileItem, FileItemFails
  <2>3. /\ UNCHANGED <<at, upsert, answer, attendees>> /\ actionItems \subseteq actionItems'
    BY <2>1 DEF FileItem, FileItemFails, recordVars, records
  <2>4. /\ filed'[p][j] = s /\ DOMAIN filed'[p] = DOMAIN filed[p]
        /\ \A k \in DOMAIN filed[p] : k # j => filed'[p][k] = filed[p][k]
    BY <2>2, FiledSet DEF TypeInv
  <2>5. Len(filed'[p]) = Len(filed[p])
    <3>1. filed'[p] \in Seq({"filing", "filed", "failed"})  BY NextTyped DEF Next, TypeInv, TypeOK
    <3> QED  BY <1>0, <2>4, <3>1, LenProperties
  <2>6. FileItem(p, j) =>
          /\ \E i \in actionItems' : i.id = <<p, j>> /\ i.meeting = target[p]
          /\ \A i \in actionItems' \ actionItems : i.assignee = MatchedAttendee(p, j)
    <3> SUFFICES ASSUME FileItem(p, j)
                 PROVE  /\ \E i \in actionItems' : i.id = <<p, j>> /\ i.meeting = target[p]
                        /\ \A i \in actionItems' \ actionItems : i.assignee = MatchedAttendee(p, j)
      OBVIOUS
    <3> DEFINE n == [id |-> <<p, j>>, meeting |-> target[p], assignee |-> MatchedAttendee(p, j), ai |-> TRUE]
    <3>1. actionItems' = actionItems \cup {n}  BY DEF FileItem
    <3>2. n.id = <<p, j>> /\ n.meeting = target[p] /\ n.assignee = MatchedAttendee(p, j)  OBVIOUS
    <3> HIDE DEF n
    <3> QED  BY <3>1, <3>2
  <2>7. FileItemFails(p, j) => actionItems' = actionItems  BY DEF FileItemFails, recordVars, records
  <2>8. Known(MatchedAttendee(p, j))
    BY <1>1, <2>3, MatchedByTask DEF StoredAt, Known
  <2>9. \A i \in actionItems' : i.id[1] = p /\ ~Reassigned(i.id)' => Known(i.assignee)'
    BY <1>1, <1>4, <2>1, <2>3, <2>6, <2>7, <2>8 DEF StoredAt
  <2>10. \A k \in DOMAIN filed'[p] : filed'[p][k] = "filed" =>
           \E i \in actionItems' : i.id = <<p, k>> /\ i.meeting = target[p]
    BY <1>1, <2>2, <2>3, <2>4, <2>6 DEF StoredAt
  <2> QED  BY <1>1, <1>4, <2>3, <2>5, <2>9, <2>10 DEF StoredAt
<1>10. CASE \/ ModelFails(p) \/ AttendeesRejected(p) \/ ItemsFiled(p) \/ ItemsRejected(p)
            \/ SaveResults(p) \/ SaveFails(p) \/ CompleteFails(p)
  <2>1. /\ UNCHANGED <<attendees, actionItems, upsert, filed, answer>> /\ at[p] \in Window
        /\ at'[p] \in {"filing", "saving", "completing"} => at[p] \in {"filing", "saving", "completing"}
    BY <1>0, <1>10
       DEF ModelFails, AttendeesRejected, ItemsFiled, ItemsRejected, SaveResults, SaveFails,
           CompleteFails, FailFails, Move, recordVars, records, Window
  <2> QED  BY <1>1, <1>4, <2>1 DEF StoredAt
<1>11. ~(\/ LoadTranscript(p) \/ FindManualAssignees(p) \/ ClearItems(p) \/ ClearAttendees(p)
         \/ Complete(p) \/ Fail(p) \/ FailFails(p))
  BY <1>0
     DEF LoadTranscript, FindManualAssignees, ClearItems, ClearAttendees, Complete, Fail, FailFails,
         Move, Window
<1> QED  BY <1>2, <1>5, <1>6, <1>7, <1>8, <1>9, <1>10, <1>11 DEF RunStep

\* While a generation is in flight nobody else deletes and no user edits.
LEMMA OpenAlone ==
  ASSUME SoloEdits, TypeInv, RunTurns, EditTurns, NEW p \in Requests, Open(p)
  PROVE  /\ \A q \in Requests : q # p => ~ClearItems(q) /\ ~ClearAttendees(q)
         /\ \A e \in Edits : ~UserEdit(e)
<1>1. \A q \in Requests : ClearItems(q) \/ ClearAttendees(q) => Open(q)
  BY DEF ClearItems, ClearAttendees, Move, Open, Ended
<1>2. ASSUME NEW e \in Edits, UserEdit(e)  PROVE FALSE
  <2>1. EditStep(e) /\ ~EditOpen(e) /\ edit[e].at # "idle"
    BY <1>2 DEF UserEdit, EditTurns
  <2> QED  BY <2>1, SendAlone, RunsWhenOpen DEF EditStep
<1> QED  BY <1>1, <1>2 DEF RunTurns

LEMMA StoredStep ==
  ASSUME WholeAssumed, WholeInv, [Next]_vars
  PROVE  Stored'
<1> USE DEF WholeInv, WipeInv, FiledInv, SoundRuns
<1> SUFFICES ASSUME NEW p \in Requests, at'[p] \in Window PROVE StoredAt(p)'
  BY DEF Stored, StoredAt
<1>1. StoredAt(p) /\ at \in [Requests -> RunStages]  BY DEF Stored, TypeInv, TypeOK, RunStages
<1>2. CASE /\ UNCHANGED recordVars /\ at'[p] = at[p] /\ target'[p] = target[p]
           /\ UNCHANGED <<upsert, filed, answer>>
  BY <1>1, <1>2 DEF StoredAt, Known, Reassigned, recordVars, records
<1>3. ASSUME NEW r \in Requests, NEW u \in Users, NEW m \in Meetings, Generate(r, u, m)
      PROVE  StoredAt(p)'
  <2>1. r # p  BY <1>1, <1>3 DEF Generate, Move, Window
  <2> QED  BY <1>2, <1>3, <2>1 DEF Generate, Move, recordVars, TypeInv, TypeOK
<1>4. ASSUME NEW r \in Requests, RunStep(r) \/ Crash(r), r # p
      PROVE  StoredAt(p)'
  <2>1. /\ at'[p] = at[p] /\ upsert'[p] = upsert[p] /\ filed'[p] = filed[p] /\ answer'[p] = answer[p]
        /\ target' = target /\ edit' = edit
    BY <1>4, TaskFrame, RunKeeps, TasksChange
  <2>2. Open(p)  BY <2>1 DEF Open, Window, Ended
  <2>3. /\ attendees \subseteq attendees' /\ actionItems \subseteq actionItems'
        /\ \A i \in actionItems' : i.id[1] = p => i \in actionItems
    BY <1>4, <2>2, OpenAlone, RunKeeps DEF WholeAssumed
  <2>4. \A d : /\ Known(d) => Known(d)'
               /\ Reassigned(d)' <=> Reassigned(d)
    BY <2>1, <2>3 DEF Known, Ids, Reassigned
  <2> QED  BY <1>1, <2>1, <2>3, <2>4 DEF StoredAt
<1>5. ASSUME NEW e \in Edits, UserEdit(e)
      PROVE  StoredAt(p)'
  <2>1. UNCHANGED runVars  BY <1>5 DEF UserEdit
  <2>2. Open(p)  BY <2>1 DEF runVars, Open, Window, Ended
  <2> QED  BY <1>5, <2>2, OpenAlone DEF WholeAssumed
<1>6. UNCHANGED vars => StoredAt(p)'  BY <1>2 DEF vars, runVars
<1> QED  BY <1>3, <1>4, <1>5, <1>6, StoredRun DEF Next

\* The edits that are left keep every document, under its id.
LEMMA EditKeeps ==
  ASSUME WholeAssumed, TypeInv, Kinds, NEW e \in Edits, EditStep(e)
  PROVE  /\ Ids(attendees) \subseteq Ids(attendees)'
         /\ \A i \in actionItems : \E k \in actionItems' : k.id = i.id /\ k.meeting = i.meeting
<1>1. RecordsInv /\ edit[e].op \in EditKinds \cup {Null} /\ attendees \subseteq Attendee
      /\ actionItems \subseteq ActionItem
  BY DEF TypeInv, TypeOK, RecordsInv, RecordsTypeOK, Kinds
<1>2. ~RemoveAttendee(e) /\ ~RemoveActionItem(e)
  BY <1>1, RecordsAssumption
     DEF WholeAssumed, RemoveAttendee, RemoveActionItem, Writes, Operations
<1>3. ASSUME NEW d, NEW x, attendees' = Patched(attendees, d, "email", x), NEW a \in attendees
      PROVE  \E b \in attendees' : b.id = a.id
  <2> DEFINE b == IF a.id = d THEN [a EXCEPT !.email = x] ELSE a
  <2>1. b \in attendees'  BY <1>3 DEF Patched
  <2>2. b.id = a.id  BY <1>1 DEF Attendee
  <2> QED  BY <2>1, <2>2
<1>4. ASSUME NEW d, NEW x, actionItems' = Patched(actionItems, d, "assignee", x), NEW i \in actionItems
      PROVE  \E k \in actionItems' : k.id = i.id /\ k.meeting = i.meeting
  <2> DEFINE k == IF i.id = d THEN [i EXCEPT !.assignee = x] ELSE i
  <2>1. k \in actionItems'  BY <1>4 DEF Patched
  <2>2. k.id = i.id /\ k.meeting = i.meeting  BY <1>1 DEF ActionItem
  <2> QED  BY <2>1, <2>2
<1>5. \/ attendees \subseteq attendees'
      \/ \E d, x : attendees' = Patched(attendees, d, "email", x)
  <2>1. SendEdit(e) => attendees' = attendees  BY <1>1, SendEffect DEF records
  <2> QED
    BY <1>2, <2>1
       DEF EditStep, RunEdit, ScopeAttendee, CheckEmail, FindActionItem, InsertAttendee, SaveAttendee,
           InsertActionItem, SaveActionItem, StoreTranscript, RemoveMeeting, RemoveTranscripts,
           LoseEdit, records
<1>6. \/ actionItems \subseteq actionItems'
      \/ \E d, x : actionItems' = Patched(actionItems, d, "assignee", x)
  <2>1. SendEdit(e) => actionItems' = actionItems  BY <1>1, SendEffect DEF records
  <2> QED
    BY <1>2, <2>1
       DEF EditStep, RunEdit, ScopeAttendee, CheckEmail, FindActionItem, InsertAttendee, SaveAttendee,
           InsertActionItem, SaveActionItem, StoreTranscript, RemoveMeeting, RemoveTranscripts,
           LoseEdit, records
<1>7. \A a \in attendees : \E b \in attendees' : b.id = a.id  BY <1>3, <1>5
<1> QED  BY <1>4, <1>6, <1>7 DEF Ids

\* A generation that completes shows all of its answer.
LEMMA CompletesWhole ==
  ASSUME WholeInv, NEW p \in Requests, at[p] = "completing"
  PROVE  ShowsWhole(p)
<1> USE DEF WholeInv, WipeInv, FiledInv, SoundRuns
<1>1. /\ StoredAt(p) /\ \A j \in DOMAIN filed[p] : filed[p][j] = "filed"
      /\ filed[p] \in Seq({"filing", "filed", "failed"}) /\ answer[p].items \in Seq(Nat)
      /\ actionItems \subseteq ActionItem
  BY DEF Stored, Joined, TypeInv, TypeOK, RecordsTypeOK, Response
<1>2. DOMAIN filed[p] = DOMAIN answer[p].items  BY <1>1, LenProperties DEF StoredAt, Window
<1>3. \A j \in DOMAIN answer[p].items :
        \E i \in actionItems : i.id = <<p, j>> /\ i.meeting = target[p]
  BY <1>1, <1>2 DEF StoredAt, Window
<1>4. ASSUME NEW i \in actionItems, i.id[1] = p
      PROVE  i.id \in {<<p, j>> : j \in DOMAIN answer[p].items}
  <2>1. i.id # Null /\ RunFiled(i.id) /\ i.id = <<p, i.id[2]>>
    BY <1>1, <1>4, RecordsAssumption DEF RunIdentities, ActionItem, DocId
  <2> QED  BY <1>2, <1>4, <2>1 DEF RunFiled
<1>5. \A j : <<p, j>>[1] = p  OBVIOUS
<1> DEFINE all == {<<p, j>> : j \in DOMAIN answer[p].items}
<1>6. Ids(Made(actionItems, target[p], p)) = all
  <2>1. \A d \in Ids(Made(actionItems, target[p], p)) : d \in all  BY <1>4 DEF Ids, Made
  <2>2. ASSUME NEW d \in all PROVE d \in Ids(Made(actionItems, target[p], p))
    <3>1. PICK j \in DOMAIN answer[p].items : d = <<p, j>>  OBVIOUS
    <3>2. PICK i \in actionItems : i.id = <<p, j>> /\ i.meeting = target[p]  BY <1>3
    <3>3. i \in Made(actionItems, target[p], p)  BY <1>5, <3>2 DEF Made
    <3> QED  BY <3>1, <3>2, <3>3 DEF Ids
  <2> HIDE DEF all
  <2> QED  BY <2>1, <2>2
<1>7. \A i \in Made(actionItems, target[p], p) : Reassigned(i.id) \/ Known(i.assignee)
  BY <1>1 DEF StoredAt, Window, Made
<1>8. \A i \in DOMAIN upsert[p] : upsert[p][i].doc \in Ids(attendees)
  <2>1. \A i \in DOMAIN upsert[p] : upsert[p][i].step = "ok"  BY DEF Joined
  <2> QED  BY <1>1, <2>1 DEF StoredAt, Known, Window
<1> QED  BY <1>6, <1>7, <1>8 DEF ShowsWhole, Known

\* What a generation q shows stays shown while others run: the attendees it
\* returned and those of its items are of its meeting.
LEMMA ShownKept ==
  ASSUME WholeInv, NEW q \in Requests, ShowsWhole(q),
         NEW r \in Requests, RunStep(r) \/ Crash(r), r # q,
         target[r] # target[q] \/ (~ClearItems(r) /\ ~ClearAttendees(r))
  PROVE  ShowsWhole(q)'
<1> USE DEF WholeInv, WipeInv, FiledInv, SoundRuns
<1> DEFINE m == target[q]
<1>1. /\ target' = target /\ answer'[q] = answer[q] /\ upsert'[q] = upsert[q] /\ edit' = edit
      /\ \A i \in actionItems' : i.id[1] = q => i \in actionItems
  BY RunKeeps, TasksChange, TaskFrame
<1>2. ASSUME NEW a \in attendees, a.meeting = m  PROVE a.id \in Ids(attendees)'
  <2>1. ClearAttendees(r) => a \in attendees'  BY <1>2 DEF ClearAttendees, AiGenerated
  <2> QED  BY <2>1, RunKeeps DEF Ids
<1>3. ASSUME NEW i \in Made(actionItems, m, q)
      PROVE  /\ i \in actionItems'
             /\ Reassigned(i.id)' \/ i.assignee \in Ids(attendees)' \cup {Null}
  <2>1. /\ i \in actionItems /\ i.meeting = m /\ i.id[1] = q
        /\ Reassigned(i.id) \/ i.assignee \in Ids(attendees) \cup {Null}
    BY <1>3 DEF Made, ShowsWhole
  <2>2. i \in actionItems'
    <3>1. ClearItems(r) => i \in actionItems'  BY <2>1 DEF ClearItems, AiGenerated
    <3> QED  BY <2>1, <3>1, RunKeeps
  <2>3. ~Reassigned(i.id) => \A a \in attendees : i.assignee = a.id => a.meeting = m
    BY <2>1 DEF FiledSound, ItemSound
  <2>4. Reassigned(i.id) => Reassigned(i.id)'  BY <1>1 DEF Reassigned
  <2> QED  BY <1>2, <2>1, <2>2, <2>3, <2>4 DEF Ids
<1>4. ASSUME NEW i \in DOMAIN upsert[q]  PROVE upsert[q][i].doc \in Ids(attendees)'
  <2>1. PICK a \in attendees : a.id = upsert[q][i].doc  BY DEF ShowsWhole, Ids
  <2>2. a.meeting = m  BY <2>1 DEF RunIdentities, TaskSound
  <2> QED  BY <1>2, <2>1, <2>2
<1>5. Made(actionItems, target[q], q)' = Made(actionItems, target[q], q)
  BY <1>1, <1>3 DEF Made
<1> QED  BY <1>1, <1>3, <1>4, <1>5 DEF ShowsWhole, Ids

\* While a generation clears it has no task yet, and after ClearItems comes
\* ClearAttendees, after that MarkProcessing.
LEMMA ClearingGoesOn ==
  ASSUME TypeInv, Mortal \cap Requests = {}, NEW r \in Requests, RunStep(r) \/ Crash(r)
  PROVE  /\ ClearItems(r) => at'[r] = "itemsCleared"
         /\ ClearAttendees(r) => at'[r] = "cleared"
         /\ at[r] = "itemsCleared" => ClearAttendees(r)
         /\ at[r] = "cleared" => at'[r] = "asking"
         /\ at'[r] = "asking" => at[r] \in {"cleared", "asking"}
<1>1. at \in [Requests -> RunStages] /\ ~Crash(r)
  BY DEF TypeInv, TypeOK, RunStages, Crash
<1>2. at[r] \in Clearing => DOMAIN upsert[r] = {} /\ DOMAIN filed[r] = {}
  BY DEF TypeInv, RunsShape
<1> USE DEF Clearing, Window
<1>3. CASE LoadTranscript(r)
  BY <1>1, <1>3 DEF LoadTranscript, ClearItems, ClearAttendees, Move
<1>4. CASE FindManualAssignees(r)
  BY <1>1, <1>4 DEF FindManualAssignees, ClearItems, ClearAttendees, Move
<1>5. CASE ClearItems(r) \/ ClearAttendees(r)
  BY <1>1, <1>5 DEF ClearItems, ClearAttendees, Move
<1>6. CASE MarkProcessing(r)
  BY <1>1, <1>6 DEF MarkProcessing, ClearItems, ClearAttendees, Move
<1>7. CASE ModelAnswers(r) \/ ModelFails(r)
  BY <1>1, <1>7 DEF ModelAnswers, ModelFails, ClearItems, ClearAttendees, Move
<1>8. CASE AttendeesReady(r) \/ AttendeesRejected(r) \/ ItemsFiled(r) \/ ItemsRejected(r)
  BY <1>1, <1>8
     DEF AttendeesReady, AttendeesRejected, ItemsFiled, ItemsRejected, ClearItems, ClearAttendees, Move
<1>9. CASE SaveResults(r) \/ SaveFails(r) \/ Complete(r) \/ CompleteFails(r) \/ Fail(r) \/ FailFails(r)
  BY <1>1, <1>9
     DEF SaveResults, SaveFails, Complete, CompleteFails, FailFails, Fail, ClearItems, ClearAttendees, Move
<1>10. CASE AttendeeTask(r)
  <2>1. at' = at /\ at[r] \notin Clearing
    BY <1>2, <1>10
       DEF AttendeeTask, FindByEmail, CheckDuplicate, CreateAttendee, CreateAttendeeFails
  <2> QED  BY <1>1, <2>1 DEF ClearItems, ClearAttendees, Move
<1>11. CASE ItemTask(r)
  <2>1. at' = at /\ at[r] \notin Clearing
    BY <1>2, <1>11 DEF ItemTask, FileItem, FileItemFails
  <2> QED  BY <1>1, <2>1 DEF ClearItems, ClearAttendees, Move
<1> QED
  BY <1>1, <1>3, <1>4, <1>5, <1>6, <1>7, <1>8, <1>9, <1>10, <1>11 DEF RunStep

LEMMA WholeRun ==
  ASSUME WholeAssumed, WholeInv, NEW m \in Meetings, NEW r \in Requests, RunStep(r) \/ Crash(r)
  PROVE  WholeAt(m)'
<1> USE DEF WholeInv, WipeInv, FiledInv, SoundRuns
<1> SUFFICES ASSUME meetingStatus'[m] = "COMPLETED", ~ClearedNow(m)'
             PROVE  (\E p \in Requests : WholeOn(p, m))'
  BY DEF WholeAt
<1>1. /\ target' = target /\ before' = before /\ \A q \in Requests : q # r => at'[q] = at[q]
      /\ at'[r] = "completed" => at'[r] = at[r] \/ at[r] \in Window
  BY RunMoved, RunEnds
<1>2. /\ meetingStatus \in [Meetings -> Status] /\ at \in [Requests -> RunStages]
      /\ before \in [Requests -> SUBSET Requests]
  BY DEF TypeInv, TypeOK, RecordsTypeOK, RunStages
\* The generation completes the meeting.
<1>3. CASE target[r] = m /\ at[r] = "completing" /\ at'[r] = "completed"
  <2>1. Complete(r)
    BY <1>2, <1>3
       DEF RunStep, LoadTranscript, FindManualAssignees, ClearItems, ClearAttendees, MarkProcessing,
           ModelAnswers, ModelFails, AttendeeTask, FindByEmail, CheckDuplicate, CreateAttendee,
           CreateAttendeeFails, AttendeesReady, AttendeesRejected, ItemTask, FileItem, FileItemFails,
           ItemsFiled, ItemsRejected, SaveResults, SaveFails, CompleteFails, FailFails, Fail, Move, Crash
  <2>2. UNCHANGED <<attendees, actionItems, edit, answer, upsert, target>>  BY <2>1 DEF Complete
  <2>3. ShowsWhole(r)'
    <3>1. ShowsWhole(r)  BY <1>3, CompletesWhole
    <3> QED  BY <2>2, <3>1 DEF ShowsWhole, Made, Ids, Reassigned
  <2>4. Last(r)'
    <3>1. Open(r)  BY <1>3 DEF Open, Ended
    <3> QED  BY <1>1, <3>1 DEF Last, Preceded
  <2> QED  BY <1>1, <1>3, <2>3, <2>4 DEF WholeOn
\* Otherwise the meeting was completed before.
<1>4. CASE ~(target[r] = m /\ at[r] = "completing" /\ at'[r] = "completed")
  <2>1. meetingStatus[m] = "COMPLETED"
    BY <1>2, <1>4, RunStatus DEF SetStatus
  <2>2. target[r] = m => at[r] \notin Window /\ at'[r] # "asking"
    <3>1. target[r] = m => at[r] \notin Window
      BY <2>1 DEF Claimed, ClaimedAt, WorkingOn
    <3>2. ASSUME target[r] = m, at[r] = "cleared", at'[r] = "asking" PROVE FALSE
      <4>1. MarksStatus(r, "PROCESSING")  BY <3>2, RunMoved DEF Moved, Working, Window
      <4>2. meetingStatus' = [meetingStatus EXCEPT ![m] = "PROCESSING"]
        BY <2>1, <3>2, <4>1 DEF MarksStatus, SetStatus
      <4>3. meetingStatus'[m] = "PROCESSING"  BY <1>2, <4>2
      <4> QED  BY <4>3
    <3>3. at'[r] = "asking" => at[r] \in Window \/ at[r] = "cleared"
      BY ClearingGoesOn DEF WholeAssumed, Window
    <3> QED  BY <3>1, <3>2, <3>3
  <2>3. target[r] = m => ~ClearItems(r) /\ ~ClearAttendees(r) /\ at[r] \notin {"itemsCleared", "cleared"}
    <3>1. target[r] = m => at'[r] \notin {"itemsCleared", "cleared"}  BY <1>1 DEF ClearedNow
    <3> QED  BY <2>2, <3>1, ClearingGoesOn DEF WholeAssumed
  <2>4. ~ClearedNow(m)  BY <1>1, <2>3 DEF ClearedNow
  <2>5. PICK p \in Requests : at[p] = "completed" /\ target[p] = m /\ Last(p) /\ ShowsWhole(p)
    BY <2>1, <2>4 DEF WholeAt, WholeOn
  <2>6. p # r
    <3>1. /\ \A i \in DOMAIN upsert[p] : upsert[p][i].step = "ok"
          /\ \A j \in DOMAIN filed[p] : filed[p][j] = "filed"
      BY <2>5 DEF Joined
    <3> QED
      BY <2>5, <3>1
         DEF RunStep, LoadTranscript, FindManualAssignees, ClearItems, ClearAttendees, MarkProcessing,
             ModelAnswers, ModelFails, AttendeeTask, FindByEmail, CheckDuplicate, CreateAttendee,
             CreateAttendeeFails, Upserting, AttendeesReady, AttendeesRejected, ItemTask, FileItem,
             FileItemFails, Filing, ItemsFiled, ItemsRejected, SaveResults, SaveFails, CompleteFails, FailFails,
             Complete, Fail, Move, Crash, WholeAssumed
  <2>7. ShowsWhole(p)'  BY <2>3, <2>5, <2>6, ShownKept
  <2>8. Last(p)'
    <3>1. \A q \in Requests : target[q] = m /\ at'[q] = "completed" => at[q] = at'[q]
      BY <1>1, <2>2
    <3> QED  BY <1>1, <2>5, <3>1 DEF Last
  <2> QED  BY <1>1, <2>5, <2>6, <2>7, <2>8 DEF WholeOn
<1> QED  BY <1>3, <1>4

LEMMA WholeStep ==
  ASSUME WholeAssumed, WholeInv, [Next]_vars, NEW m \in Meetings
  PROVE  WholeAt(m)'
<1> USE DEF WholeInv, WipeInv, FiledInv, SoundRuns
<1> SUFFICES ASSUME meetingStatus'[m] = "COMPLETED", ~ClearedNow(m)'
             PROVE  (\E p \in Requests : WholeOn(p, m))'
  BY DEF WholeAt
<1>1. meetingStatus[m] = "COMPLETED" /\ ~ClearedNow(m) =>
        \E p \in Requests : at[p] = "completed" /\ target[p] = m /\ Last(p) /\ ShowsWhole(p)
  BY DEF WholeAt, WholeOn
<1>2. CASE UNCHANGED vars
  BY <1>1, <1>2
     DEF vars, runVars, recordVars, records, ClearedNow, WholeOn, Last, ShowsWhole, Made, Ids,
         Reassigned
<1>3. ASSUME NEW r \in Requests, NEW u \in Users, NEW n \in Meetings, Generate(r, u, n)
      PROVE  (\E p \in Requests : WholeOn(p, m))'
  <2>1. /\ UNCHANGED recordVars /\ answer' = answer /\ upsert' = upsert
        /\ at[r] = "idle" /\ at'[r] \in {"refused", "accepted"}
        /\ \A q \in Requests : q # r => at'[q] = at[q] /\ target'[q] = target[q] /\ before'[q] = before[q]
    BY <1>3 DEF Generate, Move, TypeInv, TypeOK
  <2>2. meetingStatus[m] = "COMPLETED" /\ ~ClearedNow(m)
    BY <2>1 DEF ClearedNow, recordVars, records
  <2>3. PICK p \in Requests : at[p] = "completed" /\ target[p] = m /\ Last(p) /\ ShowsWhole(p)
    BY <1>1, <2>2
  <2>4. p # r /\ Last(p)'  BY <2>1, <2>3 DEF Last
  <2>5. ShowsWhole(p)'
    BY <2>1, <2>3, <2>4 DEF ShowsWhole, Made, Ids, Reassigned, recordVars, records
  <2> QED  BY <2>1, <2>3, <2>4, <2>5 DEF WholeOn
<1>4. ASSUME NEW r \in Requests, RunStep(r) \/ Crash(r)
      PROVE  (\E p \in Requests : WholeOn(p, m))'
  <2>1. WholeAt(m)'  BY <1>4, WholeRun
  <2> QED  BY <2>1 DEF WholeAt
<1>5. ASSUME NEW e \in Edits, UserEdit(e)
      PROVE  (\E p \in Requests : WholeOn(p, m))'
  <2>1. EditStep(e) /\ UNCHANGED <<at, target, answer, upsert, before>>  BY <1>5 DEF UserEdit, runVars
  <2>2. meetingStatus[m] = "COMPLETED" /\ ~ClearedNow(m)  BY <1>5, <2>1, EditStatus DEF ClearedNow
  <2>3. PICK p \in Requests : at[p] = "completed" /\ target[p] = m /\ Last(p) /\ ShowsWhole(p)
    BY <1>1, <2>2
  <2>4. Last(p)'  BY <2>1, <2>3 DEF Last
  <2>5. <<e, 1>>[1] # p /\ Ids(attendees) \subseteq Ids(attendees)'
    BY <2>1, AiAssumption, EditKeeps
  <2>6. ASSUME NEW i \in actionItems', i.meeting = m, i.id[1] = p
        PROVE  /\ Reassigned(i.id)' \/ i.assignee \in Ids(attendees)' \cup {Null}
               /\ \E k \in actionItems : k.id = i.id /\ k.meeting = i.meeting
    <3>1. PICK k \in actionItems :
            /\ k.id = i.id /\ k.meeting = i.meeting
            /\ \/ k.assignee = i.assignee
               \/ Writes(e, "updateActionItem") /\ i.id = edit[e].doc
      <4>1. CASE SendEdit(e)
        BY <2>6, <4>1, SendEffect DEF records, TypeInv, TypeOK, RecordsInv
      <4>2. CASE RunEdit(e) \/ LoseEdit(e)
        <5>1. ItemFrom(e, i)  BY <2>6, <4>2, RunEffect DEF TypeInv, TypeOK, RecordsInv
        <5> QED  BY <2>5, <2>6, <5>1 DEF ItemFrom
      <4> QED  BY <2>1, <4>1, <4>2 DEF EditStep
    <3>2. Reassigned(k.id) \/ k.assignee \in Ids(attendees) \cup {Null}
      BY <2>3, <2>6, <3>1 DEF ShowsWhole, Made
    <3>3. Reassigned(k.id) => Reassigned(k.id)'  BY <1>5, ReassignedKept
    <3>4. Writes(e, "updateActionItem") /\ i.id = edit[e].doc => Reassigned(k.id)
      BY <3>1 DEF Writes, Reassigned
    <3> QED  BY <2>5, <3>1, <3>2, <3>3, <3>4
  <2>7. Ids(Made(actionItems, m, p))' = Ids(Made(actionItems, m, p))
    <3>1. \A i \in actionItems : \E k \in actionItems' : k.id = i.id /\ k.meeting = i.meeting
      BY <2>1, EditKeeps
    <3> QED  BY <2>6, <3>1 DEF Ids, Made
  <2>8. ShowsWhole(p)'
    <3>1. \A i \in Made(actionItems, m, p)' :
            Reassigned(i.id)' \/ i.assignee \in Ids(attendees)' \cup {Null}
      BY <2>6 DEF Made
    <3> QED  BY <2>1, <2>3, <2>5, <2>7, <3>1 DEF ShowsWhole
  <2> QED  BY <2>1, <2>3, <2>4, <2>8 DEF WholeOn
<1> QED  BY <1>2, <1>3, <1>4, <1>5 DEF Next

\* A COMPLETED meeting shows one whole generation, the last that completed, and
\* of those at rest before it nothing but kept attendees, for clients that await
\* each answer and delete no attendee and no item.
THEOREM CompletedAreWhole == WholeAssumed => (Spec => []CompletedIsWhole)
<1> SUFFICES ASSUME WholeAssumed PROVE Spec => []CompletedIsWhole  OBVIOUS
<1>1. ASSUME Init PROVE WholeInv
  <2>1. FiledInv /\ EditTurns /\ RunTurns /\ TypeInv
    BY <1>1, InitFiled, InitTurns DEF FiledInv, SoundRuns
  <2>2. Joined /\ StatusExplained /\ Preceded /\ Stored /\ Kinds
    BY <1>1
       DEF Init, RecordsInit, Blank, Joined, StatusExplained, Preceded, Stored, StoredAt, Kinds,
           Open, Window
  <2>3. RunsMakeAi /\ BeforeAtRest /\ RegenerationWipes
    BY <1>1, AiAssumption DEF Init, RecordsInit, RunsMakeAi, BeforeAtRest, RegenerationWipes
  <2>4. Claimed
    BY <1>1 DEF Init, RecordsInit, Claimed, ClaimedAt, WorkingOn, Window, Clearing
  <2>5. \A m \in Meetings : WholeAt(m)  BY <1>1 DEF Init, RecordsInit, WholeAt
  <2> QED  BY <2>1, <2>2, <2>3, <2>4, <2>5 DEF WholeInv, WipeInv
<1>2. ASSUME WholeInv, [Next]_vars PROVE WholeInv'
  <2>1. TypeInv /\ ClaimInv  BY <1>2 DEF WholeInv, WipeInv, ClaimInv
  <2>2. FiledInv' /\ EditTurns' /\ StatusExplained' /\ RunTurns' /\ Claimed'
    BY <1>2, <2>1, FiledInvStep, EditTurnsStep, StatusStep, RunTurnsStep, ClaimedStep
       DEF WholeInv, WholeAssumed
  <2>3. WipeInv'
    BY <1>2, NextTyped, MakeAiStep, BeforeStep, JoinedStep, WipeStep DEF WholeInv, WipeInv
  <2>4. Kinds' /\ Preceded' /\ Stored'
    BY <1>2, <2>1, KindsStep, PrecededStep, StoredStep DEF WholeInv, WipeInv, WholeAssumed
  <2>5. \A m \in Meetings : WholeAt(m)'  BY <1>2, WholeStep
  <2> QED  BY <2>2, <2>3, <2>4, <2>5 DEF WholeInv
<1>3. ASSUME WholeInv PROVE CompletedIsWhole
  <2> SUFFICES ASSUME AllQuiet, NEW m \in Meetings, meetingStatus[m] = "COMPLETED"
               PROVE  \E p \in Requests :
                        /\ at[p] = "completed" /\ target[p] = m
                        /\ ShowsWhole(p)
                        /\ \A q \in Requests \ {p} :
                             at[q] = "completed" /\ target[q] = m => q \in before[p]
                        /\ \A q \in before[p] : Leftovers(p, q) = {}
    BY DEF CompletedIsWhole
  <2>1. ~ClearedNow(m)  BY DEF ClearedNow, AllQuiet, Running, Open, Ended
  <2>2. PICK p \in Requests : at[p] = "completed" /\ target[p] = m /\ Last(p) /\ ShowsWhole(p)
    BY <1>3, <2>1 DEF WholeInv, WholeAt, WholeOn
  <2>3. ASSUME NEW q \in before[p]  PROVE Leftovers(p, q) = {}
    <3>1. /\ Made(actionItems, target[p], q) = {}
          /\ Ids(Made(attendees, target[p], q)) \subseteq keep[p]
      BY <1>3, <2>2 DEF WholeInv, WipeInv, RegenerationWipes, Past
    <3> QED  BY <3>1 DEF Leftovers, Ids
  <2> QED  BY <2>2, <2>3 DEF Last
<1> QED  BY <1>1, <1>2, <1>3, PTL DEF Spec
===============================================================================
