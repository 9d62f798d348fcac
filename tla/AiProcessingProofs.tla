-------------------------- MODULE AiProcessingProofs --------------------------
(***************************************************************************)
(* Proofs about AiProcessing, for every set of meetings, of requests and   *)
(* of answers of the model, with any number of generations and edits in    *)
(* flight, faults and crashes included.                                    *)
(***************************************************************************)
EXTENDS AiProcessing, MeetingRecordsProofs, SequenceTheorems

RunStages == {"idle"} \cup Clearing \cup Window \cup Ended

\* The tasks of a generation are those its answer calls for, and there are none
\* before the model has answered.
RunsShape ==
  \A p \in Requests :
    /\ at[p] # "idle" => target[p] \in Meetings
    /\ Len(upsert[p]) = Len(answer[p].attendees)
    /\ Len(filed[p]) \in {0, Len(answer[p].items)}
    /\ \A j \in DOMAIN answer[p].items : answer[p].items[j] <= Len(answer[p].attendees)
    /\ at[p] \in {"idle", "asking"} \cup Clearing => upsert[p] = <<>> /\ filed[p] = <<>>

TypeInv == TypeOK /\ EditShape /\ RunsShape

(***************************************************************************)
(* Tasks                                                                   *)
(***************************************************************************)
\* Advancing one task keeps the list of tasks and the others in it.
LEMMA SetTaskShape ==
  ASSUME TypeOK, NEW p \in Requests, NEW i \in DOMAIN upsert[p], NEW s, NEW d,
         [step |-> s, doc |-> d] \in Task, SetTask(p, i, s, d)
  PROVE  /\ upsert' \in [Requests -> Seq(Task)]
         /\ \A q \in Requests : Len(upsert'[q]) = Len(upsert[q])
         /\ \A q \in Requests : q # p => upsert'[q] = upsert[q]
<1> DEFINE t == [step |-> s, doc |-> d]
<1>1. upsert \in [Requests -> Seq(Task)]  BY DEF TypeOK
<1>2. upsert[p] \in Seq(Task) /\ i \in 1..Len(upsert[p])  BY <1>1, LenProperties
<1>3. upsert' = [upsert EXCEPT ![p] = [upsert[p] EXCEPT ![i] = t]]  BY <1>1 DEF SetTask
<1> HIDE DEF t
<1>4. /\ [upsert[p] EXCEPT ![i] = t] \in Seq(Task)
      /\ Len([upsert[p] EXCEPT ![i] = t]) = Len(upsert[p])
  BY <1>2, ExceptSeq DEF t
<1> QED  BY <1>1, <1>3, <1>4

LEMMA SetFiledShape ==
  ASSUME TypeOK, NEW p \in Requests, NEW j \in DOMAIN filed[p],
         NEW s \in {"filing", "filed", "failed"}, SetFiled(p, j, s)
  PROVE  /\ filed' \in [Requests -> Seq({"filing", "filed", "failed"})]
         /\ \A q \in Requests : Len(filed'[q]) = Len(filed[q])
         /\ \A q \in Requests : q # p => filed'[q] = filed[q]
<1> DEFINE F == {"filing", "filed", "failed"}
<1>1. filed \in [Requests -> Seq(F)]  BY DEF TypeOK
<1>2. filed[p] \in Seq(F) /\ j \in 1..Len(filed[p])  BY <1>1, LenProperties
<1>3. filed' = [filed EXCEPT ![p] = [filed[p] EXCEPT ![j] = s]]  BY <1>1 DEF SetFiled
<1>4. s \in F  OBVIOUS
<1> HIDE DEF F
<1>5. /\ [filed[p] EXCEPT ![j] = s] \in Seq(F)
      /\ Len([filed[p] EXCEPT ![j] = s]) = Len(filed[p])
  BY <1>2, <1>4, ExceptSeq
<1>6. filed' \in [Requests -> Seq(F)]  BY <1>1, <1>3, <1>5
<1> QED  BY <1>1, <1>3, <1>5, <1>6 DEF F

\* While a generation has tasks it has a meeting and an answer.
LEMMA TaskKnown ==
  ASSUME TypeInv, NEW p \in Requests
  PROVE  /\ \A i \in DOMAIN upsert[p] :
              /\ i \in Nat /\ upsert[p][i] \in Task
              /\ target[p] \in Meetings
              /\ EmailOf(p, i) \in Emails \cup {Null}
         /\ \A j \in DOMAIN filed[p] :
              /\ j \in Nat /\ target[p] \in Meetings
              /\ MatchedAttendee(p, j) \in DocId \cup {Null}
<1>1. /\ upsert[p] \in Seq(Task)
      /\ answer[p].attendees \in Seq(Emails \cup {Null}) /\ answer[p].items \in Seq(Nat)
      /\ filed[p] \in Seq({"filing", "filed", "failed"})
  BY DEF TypeInv, TypeOK, Response
<1>2. /\ Len(upsert[p]) = Len(answer[p].attendees)
      /\ Len(filed[p]) \in {0, Len(answer[p].items)}
      /\ \A j \in DOMAIN answer[p].items : answer[p].items[j] <= Len(answer[p].attendees)
      /\ at[p] # "idle" => target[p] \in Meetings
      /\ at[p] = "idle" => upsert[p] = <<>> /\ filed[p] = <<>>
  BY DEF TypeInv, RunsShape
<1>3. ASSUME NEW i \in DOMAIN upsert[p]
      PROVE  /\ i \in Nat /\ upsert[p][i] \in Task
             /\ target[p] \in Meetings
             /\ EmailOf(p, i) \in Emails \cup {Null}
  <2>1. i \in 1..Len(upsert[p])  BY <1>1, LenProperties
  <2>2. at[p] # "idle"  BY <1>2, <2>1, EmptySeq
  <2> QED  BY <1>1, <1>2, <2>1, <2>2, ElementOfSeq, LenProperties DEF EmailOf
<1>4. ASSUME NEW j \in DOMAIN filed[p]
      PROVE  /\ j \in Nat /\ target[p] \in Meetings
             /\ MatchedAttendee(p, j) \in DocId \cup {Null}
  <2>1. j \in 1..Len(filed[p])  BY <1>1, LenProperties
  <2>2. at[p] # "idle"  BY <1>2, <2>1, EmptySeq
  <2>3. j \in 1..Len(answer[p].items)  BY <1>1, <1>2, <2>1, LenProperties
  <2> DEFINE k == answer[p].items[j]
  <2>4. k \in Nat /\ k <= Len(upsert[p])  BY <1>1, <1>2, <2>3, ElementOfSeq, LenProperties
  <2>5. k # 0 => upsert[p][k] \in Task
    BY <1>1, <2>4, ElementOfSeq, LenProperties
  <2> QED  BY <1>1, <1>2, <2>1, <2>2, <2>4, <2>5, LenProperties DEF MatchedAttendee, Task
<1> QED  BY <1>3, <1>4

(***************************************************************************)
(* Type correctness                                                        *)
(***************************************************************************)
LEMMA InitTyped == Init => TypeInv
<1> SUFFICES ASSUME Init PROVE TypeInv  OBVIOUS
<1>1. RecordsInv  BY InitShape DEF Init
<1>2. NoResponse \in Response /\ Len(NoResponse.items) = 0 /\ Len(NoResponse.attendees) = 0
      /\ DOMAIN NoResponse.items = {}
  BY EmptySeq DEF NoResponse, Response
<1>3. TypeOK  BY <1>1, <1>2, EmptySeq DEF Init, RecordsInv, TypeOK
<1>4. RunsShape  BY <1>2, EmptySeq DEF Init, RunsShape
<1> QED  BY <1>1, <1>3, <1>4 DEF TypeInv, RecordsInv

\* A step that only moves a generation on, and does not move it back to before
\* the answer, keeps everything typed.
LEMMA MoveTyped ==
  ASSUME TypeInv, NEW p \in Requests, NEW s \in RunStages,
         at' = [at EXCEPT ![p] = s], at[p] # "idle",
         s \in {"idle", "asking"} \cup Clearing => at[p] \in Clearing,
         UNCHANGED <<target, answer, upsert, filed>>
  PROVE  at' \in [Requests -> RunStages] /\ RunsShape'
BY DEF TypeInv, TypeOK, RunsShape, RunStages

LEMMA SetStatusTyped ==
  ASSUME TypeInv, NEW m \in Meetings, NEW s \in Status, SetStatus(m, s)
  PROVE  meetingStatus' \in [Meetings -> Status]
BY DEF TypeInv, TypeOK, RecordsTypeOK, SetStatus

LEMMA GenerateTyped ==
  ASSUME TypeInv, NEW p \in Requests, NEW u \in Users, NEW m \in Meetings, Generate(p, u, m)
  PROVE  TypeInv'
<1>1. at' \in [Requests -> RunStages]
  BY DEF Generate, Move, TypeInv, TypeOK, RunStages, Clearing, Ended
<1>2. target' \in [Requests -> Meetings \cup {Null}] /\ before' \in [Requests -> SUBSET Requests]
  BY DEF Generate, TypeInv, TypeOK
<1>3. RunsShape'  BY DEF Generate, Move, TypeInv, TypeOK, RunsShape
<1> QED
  BY <1>1, <1>2, <1>3
     DEF Generate, TypeInv, TypeOK, RunStages, EditShape, recordVars, records, RecordsTypeOK

\* The steps that touch nothing but the stage of the generation.
LEMMA PlainStepTyped ==
  ASSUME TypeInv, NEW p \in Requests,
         \/ LoadTranscript(p) \/ ModelFails(p) \/ AttendeesRejected(p) \/ ItemsFiled(p)
         \/ ItemsRejected(p) \/ SaveFails(p) \/ CompleteFails(p) \/ FailFails(p) \/ Crash(p)
  PROVE  TypeInv'
<1>1. PICK s \in RunStages :
        /\ at' = [at EXCEPT ![p] = s] /\ at[p] # "idle"
        /\ s \in {"idle", "asking"} \cup Clearing => at[p] \in Clearing
        /\ UNCHANGED <<recordVars, target, keep, answer, upsert, filed, aiResults, before>>
  <2>1. CASE LoadTranscript(p)
    BY <2>1 DEF LoadTranscript, Move, RunStages, Clearing, Ended
  <2>2. CASE ModelFails(p)  BY <2>2 DEF ModelFails, Move, RunStages, Window, Clearing
  <2>3. CASE AttendeesRejected(p)
    BY <2>3 DEF AttendeesRejected, Move, RunStages, Window, Clearing
  <2>4. CASE ItemsFiled(p)  BY <2>4 DEF ItemsFiled, Move, RunStages, Window, Clearing
  <2>5. CASE ItemsRejected(p)  BY <2>5 DEF ItemsRejected, Move, RunStages, Window, Clearing
  <2>6. CASE SaveFails(p)  BY <2>6 DEF SaveFails, Move, RunStages, Window, Clearing
  <2>8. CASE CompleteFails(p)  BY <2>8 DEF CompleteFails, Move, RunStages, Window, Clearing
  <2>9. CASE FailFails(p)  BY <2>9 DEF FailFails, Move, RunStages, Ended, Clearing
  <2>7. CASE Crash(p)
    <3>1. at[p] # "idle"
      <4>1. at[p] = "idle" => ~TasksRunning(p)
        BY EmptySeq DEF TypeInv, RunsShape, TasksRunning
      <4> QED  BY <2>7, <4>1 DEF Crash, Running, Open
    <3> QED  BY <2>7, <3>1 DEF Crash, RunStages, Ended, Clearing
  <2> QED  BY <2>1, <2>2, <2>3, <2>4, <2>5, <2>6, <2>7, <2>8, <2>9
<1>2. at' \in [Requests -> RunStages] /\ RunsShape'  BY <1>1, MoveTyped
<1> QED
  BY <1>1, <1>2 DEF TypeInv, TypeOK, RunStages, EditShape, recordVars, records, RecordsTypeOK

LEMMA ClearingTyped ==
  ASSUME TypeInv, NEW p \in Requests,
         FindManualAssignees(p) \/ ClearItems(p) \/ ClearAttendees(p)
  PROVE  TypeInv'
<1>1. CASE FindManualAssignees(p)
  <2>1. at' \in [Requests -> RunStages] /\ RunsShape'
    BY <1>1, MoveTyped DEF FindManualAssignees, Move, RunStages, Clearing
  <2>2. ManualAssignees(target[p]) \subseteq DocId
    BY DEF ManualAssignees, TypeInv, TypeOK, RecordsTypeOK, ActionItem
  <2>3. keep' \in [Requests -> SUBSET DocId]
    BY <1>1, <2>2 DEF FindManualAssignees, TypeInv, TypeOK
  <2> QED
    BY <1>1, <2>1, <2>3
       DEF FindManualAssignees, TypeInv, TypeOK, RunStages, EditShape, recordVars, records, RecordsTypeOK
<1>2. CASE ClearItems(p)
  <2>1. at' \in [Requests -> RunStages] /\ RunsShape'
    BY <1>2, MoveTyped DEF ClearItems, Move, RunStages, Clearing
  <2> QED
    BY <1>2, <2>1 DEF ClearItems, TypeInv, TypeOK, RunStages, EditShape, RecordsTypeOK
<1>3. CASE ClearAttendees(p)
  <2>1. at' \in [Requests -> RunStages] /\ RunsShape'
    BY <1>3, MoveTyped DEF ClearAttendees, Move, RunStages, Clearing
  <2> QED
    BY <1>3, <2>1 DEF ClearAttendees, TypeInv, TypeOK, RunStages, EditShape, RecordsTypeOK
<1> QED  BY <1>1, <1>2, <1>3

\* The three writes of the status.
LEMMA StatusStepTyped ==
  ASSUME TypeInv, NEW p \in Requests, MarkProcessing(p) \/ Complete(p) \/ Fail(p)
  PROVE  TypeInv'
<1>1. PICK s \in RunStages, st \in Status :
        /\ at' = [at EXCEPT ![p] = s] /\ at[p] # "idle"
        /\ s \in {"idle", "asking"} \cup Clearing => at[p] \in Clearing
        /\ SetStatus(target[p], st)
        /\ UNCHANGED <<transcribed, attendees, actionItems, edit,
                      target, keep, answer, upsert, filed, aiResults, before>>
  <2>1. CASE MarkProcessing(p)
    BY <2>1 DEF MarkProcessing, Move, RunStages, Window, Clearing, Status
  <2>2. CASE Complete(p)  BY <2>2 DEF Complete, Move, RunStages, Ended, Clearing, Status
  <2>3. CASE Fail(p)  BY <2>3 DEF Fail, Move, RunStages, Ended, Clearing, Status
  <2> QED  BY <2>1, <2>2, <2>3
<1>2. at' \in [Requests -> RunStages] /\ RunsShape'  BY <1>1, MoveTyped
<1>3. meetingStatus' \in [Meetings -> Status]
  BY <1>1, SetStatusTyped DEF TypeInv, RunsShape
<1> QED
  BY <1>1, <1>2, <1>3 DEF TypeInv, TypeOK, RunStages, EditShape, RecordsTypeOK

LEMMA AnswerTyped ==
  ASSUME TypeInv, NEW p \in Requests, ModelAnswers(p)
  PROVE  TypeInv'
<1>1. PICK r \in Responses :
        /\ Move(p, "asking", "upserting")
        /\ answer' = [answer EXCEPT ![p] = r]
        /\ upsert' = [upsert EXCEPT ![p] =
             [i \in 1..Len(r.attendees) |-> [step |-> FirstStep(r.attendees[i]), doc |-> Null]]]
        /\ UNCHANGED <<recordVars, target, keep, filed, aiResults, before>>
  BY DEF ModelAnswers
<1> DEFINE n == Len(r.attendees)
           T == [i \in 1..n |-> [step |-> FirstStep(r.attendees[i]), doc |-> Null]]
<1>2. /\ r \in Response
      /\ \A j \in DOMAIN r.items : r.items[j] <= Len(r.attendees)
  BY AiAssumption
<1>3. n \in Nat  BY <1>2, LenProperties DEF Response
<1>4. T \in Seq(Task) /\ Len(T) = n
  <2>1. T \in [1..n -> Task]  BY DEF Task, FirstStep
  <2> HIDE DEF T, n
  <2>2. T \in Seq(Task)  BY <1>3, <2>1, SeqDef
  <2> QED  BY <1>3, <2>1, <2>2, LenProperties
<1>5. upsert' \in [Requests -> Seq(Task)] /\ answer' \in [Requests -> Response]
  BY <1>1, <1>2, <1>4 DEF TypeInv, TypeOK
<1>6. at' \in [Requests -> RunStages]
  BY <1>1 DEF Move, TypeInv, TypeOK, RunStages, Window
<1>7. at[p] = "asking" /\ at' = [at EXCEPT ![p] = "upserting"]  BY <1>1 DEF Move
<1>8. filed[p] = <<>> /\ target[p] \in Meetings  BY <1>7 DEF TypeInv, RunsShape
<1>9. upsert' = [upsert EXCEPT ![p] = T]  BY <1>1
<1> HIDE DEF T
<1>10. RunsShape'
  BY <1>1, <1>2, <1>4, <1>7, <1>8, <1>9, EmptySeq
     DEF TypeInv, TypeOK, RunsShape, Clearing
<1> QED
  BY <1>1, <1>5, <1>6, <1>10
     DEF TypeInv, TypeOK, RunStages, EditShape, recordVars, records, RecordsTypeOK

LEMMA AttendeeTaskTyped ==
  ASSUME TypeInv, NEW p \in Requests, AttendeeTask(p)
  PROVE  TypeInv'
<1>1. PICK i \in DOMAIN upsert[p] :
        FindByEmail(p, i) \/ CheckDuplicate(p, i) \/ CreateAttendee(p, i) \/ CreateAttendeeFails(p, i)
  BY DEF AttendeeTask
<1>2. i \in Nat /\ target[p] \in Meetings /\ EmailOf(p, i) \in Emails \cup {Null}
  BY TaskKnown
<1>3. <<p, i>> \in DocId  BY <1>2, AiAssumption DEF DocId
<1>4. upsert[p] # <<>>
  <2>1. upsert[p] \in Seq(Task)  BY DEF TypeInv, TypeOK
  <2>2. i \in 1..Len(upsert[p])  BY <2>1, LenProperties
  <2>3. Len(upsert[p]) # 0  BY <2>1, <2>2, LenProperties
  <2>4. upsert[p] = <<>> => Len(upsert[p]) = 0  BY EmptySeq
  <2> QED  BY <2>3, <2>4
<1>5. ASSUME NEW s, NEW d, [step |-> s, doc |-> d] \in Task, SetTask(p, i, s, d),
             UNCHANGED <<at, target, answer, filed>>
      PROVE  upsert' \in [Requests -> Seq(Task)] /\ RunsShape'
  <2>1. /\ upsert' \in [Requests -> Seq(Task)]
        /\ \A q \in Requests : Len(upsert'[q]) = Len(upsert[q])
        /\ \A q \in Requests : q # p => upsert'[q] = upsert[q]
    BY <1>5, SetTaskShape DEF TypeInv
  <2> QED  BY <1>4, <1>5, <2>1 DEF TypeInv, RunsShape
<1>6. CASE FindByEmail(p, i)
  <2>1. \E s, d : [step |-> s, doc |-> d] \in Task /\ SetTask(p, i, s, d)
    <3>1. CASE SetTask(p, i, "checking", Null)  BY <3>1 DEF Task
    <3>2. CASE \E a \in WithEmail(target[p], EmailOf(p, i)) : SetTask(p, i, "ok", a.id)
      BY <3>2 DEF Task, WithEmail, TypeInv, TypeOK, RecordsTypeOK, Attendee
    <3> QED  BY <1>6, <3>1, <3>2 DEF FindByEmail
  <2> QED
    BY <1>5, <1>6, <2>1
       DEF FindByEmail, TypeInv, TypeOK, EditShape, recordVars, records, RecordsTypeOK
<1>7. CASE CheckDuplicate(p, i)
  <2>1. \E s, d : [step |-> s, doc |-> d] \in Task /\ SetTask(p, i, s, d)
    BY <1>7 DEF CheckDuplicate, Task
  <2> QED
    BY <1>5, <1>7, <2>1
       DEF CheckDuplicate, TypeInv, TypeOK, EditShape, recordVars, records, RecordsTypeOK
<1>8. CASE CreateAttendee(p, i)
  <2>1. [step |-> "ok", doc |-> <<p, i>>] \in Task  BY <1>3 DEF Task
  <2>2. upsert' \in [Requests -> Seq(Task)] /\ RunsShape'
    BY <1>5, <1>8, <2>1 DEF CreateAttendee
  <2> DEFINE a == [id |-> <<p, i>>, meeting |-> target[p], email |-> EmailOf(p, i), ai |-> TRUE]
  <2>3. a \in Attendee  BY <1>2, <1>3 DEF Attendee
  <2>4. attendees' = attendees \cup {a}  BY <1>8 DEF CreateAttendee
  <2> HIDE DEF a
  <2>5. attendees' \subseteq Attendee  BY <2>3, <2>4 DEF TypeInv, TypeOK, RecordsTypeOK
  <2> QED
    BY <1>8, <2>2, <2>5 DEF CreateAttendee, TypeInv, TypeOK, EditShape, RecordsTypeOK
<1>9. CASE CreateAttendeeFails(p, i)
  <2>1. [step |-> "failed", doc |-> Null] \in Task  BY DEF Task
  <2> QED
    BY <1>5, <1>9, <2>1
       DEF CreateAttendeeFails, TypeInv, TypeOK, EditShape, recordVars, records, RecordsTypeOK
<1> QED  BY <1>1, <1>6, <1>7, <1>8, <1>9

LEMMA ReadyTyped ==
  ASSUME TypeInv, NEW p \in Requests, AttendeesReady(p)
  PROVE  TypeInv'
<1> DEFINE F == {"filing", "filed", "failed"}
           n == Len(answer[p].items)
           T == [j \in 1..n |-> "filing"]
<1>1. n \in Nat  BY LenProperties DEF TypeInv, TypeOK, Response
<1>2. T \in Seq(F) /\ Len(T) = n
  <2>1. T \in [1..n -> F]  OBVIOUS
  <2> HIDE DEF T, n
  <2>2. T \in Seq(F)  BY <1>1, <2>1, SeqDef
  <2> QED  BY <1>1, <2>1, <2>2, LenProperties
<1>3. filed' = [filed EXCEPT ![p] = T]  BY DEF AttendeesReady
<1> HIDE DEF T
<1>4. filed' \in [Requests -> Seq(F)]  BY <1>2, <1>3 DEF TypeInv, TypeOK
<1>5. at[p] = "upserting" /\ at' = [at EXCEPT ![p] = "filing"]
      /\ UNCHANGED <<recordVars, target, keep, answer, upsert, aiResults, before>>
  BY DEF AttendeesReady, Move
<1>6. at' \in [Requests -> RunStages]  BY <1>5 DEF TypeInv, TypeOK, RunStages, Window
<1>7. RunsShape'  BY <1>2, <1>3, <1>5 DEF TypeInv, TypeOK, RunsShape, Clearing
<1> QED
  BY <1>4, <1>5, <1>6, <1>7
     DEF TypeInv, TypeOK, RunStages, EditShape, recordVars, records, RecordsTypeOK

LEMMA ItemTaskTyped ==
  ASSUME TypeInv, NEW p \in Requests, ItemTask(p)
  PROVE  TypeInv'
<1>1. PICK j \in DOMAIN filed[p] : FileItem(p, j) \/ FileItemFails(p, j)
  BY DEF ItemTask
<1>2. j \in Nat /\ target[p] \in Meetings /\ MatchedAttendee(p, j) \in DocId \cup {Null}
  BY TaskKnown
<1>3. <<p, j>> \in DocId  BY <1>2, AiAssumption DEF DocId
<1>4. filed[p] # <<>>
  <2>1. filed[p] \in Seq({"filing", "filed", "failed"})  BY DEF TypeInv, TypeOK
  <2>2. j \in 1..Len(filed[p])  BY <2>1, LenProperties
  <2>3. Len(filed[p]) # 0  BY <2>1, <2>2, LenProperties
  <2>4. filed[p] = <<>> => Len(filed[p]) = 0  BY EmptySeq
  <2> QED  BY <2>3, <2>4
<1>5. ASSUME NEW s \in {"filed", "failed"}, SetFiled(p, j, s),
             UNCHANGED <<at, target, answer, upsert>>
      PROVE  filed' \in [Requests -> Seq({"filing", "filed", "failed"})] /\ RunsShape'
  <2>1. /\ filed' \in [Requests -> Seq({"filing", "filed", "failed"})]
        /\ \A q \in Requests : Len(filed'[q]) = Len(filed[q])
        /\ \A q \in Requests : q # p => filed'[q] = filed[q]
    BY <1>5, SetFiledShape DEF TypeInv
  <2> QED  BY <1>4, <1>5, <2>1 DEF TypeInv, RunsShape
<1>6. CASE FileItem(p, j)
  <2> DEFINE i == [id |-> <<p, j>>, meeting |-> target[p],
                   assignee |-> MatchedAttendee(p, j), ai |-> TRUE]
  <2>3. i \in ActionItem  BY <1>2, <1>3 DEF ActionItem
  <2>4. actionItems' = actionItems \cup {i}  BY <1>6 DEF FileItem
  <2> HIDE DEF i
  <2>1. actionItems' \subseteq ActionItem  BY <2>3, <2>4 DEF TypeInv, TypeOK, RecordsTypeOK
  <2>2. filed' \in [Requests -> Seq({"filing", "filed", "failed"})] /\ RunsShape'
    BY <1>5, <1>6 DEF FileItem
  <2> QED
    BY <1>6, <2>1, <2>2 DEF FileItem, TypeInv, TypeOK, EditShape, RecordsTypeOK
<1>7. CASE FileItemFails(p, j)
  BY <1>5, <1>7
     DEF FileItemFails, TypeInv, TypeOK, EditShape, recordVars, records, RecordsTypeOK
<1> QED  BY <1>1, <1>6, <1>7

LEMMA SaveTyped ==
  ASSUME TypeInv, NEW p \in Requests, SaveResults(p)
  PROVE  TypeInv'
<1>1. at' \in [Requests -> RunStages] /\ RunsShape'
  BY MoveTyped DEF SaveResults, Move, RunStages, Window, Clearing
<1>2. target[p] \in Meetings  BY DEF SaveResults, Move, TypeInv, RunsShape
<1>3. aiResults' \subseteq Result  BY <1>2 DEF SaveResults, Result, TypeInv, TypeOK
<1> QED
  BY <1>1, <1>3
     DEF SaveResults, TypeInv, TypeOK, RunStages, EditShape, recordVars, records, RecordsTypeOK

LEMMA RunStepTyped ==
  ASSUME TypeInv, NEW p \in Requests, RunStep(p)
  PROVE  TypeInv'
BY PlainStepTyped, ClearingTyped, StatusStepTyped, AnswerTyped, AttendeeTaskTyped, ReadyTyped,
   ItemTaskTyped, SaveTyped
   DEF RunStep

LEMMA UserEditTyped ==
  ASSUME TypeInv, NEW e \in Edits, UserEdit(e)
  PROVE  TypeInv'
<1>1. RecordsInv'  BY EditKeepsShape DEF UserEdit, TypeInv, TypeOK, RecordsInv
<1>2. UNCHANGED runVars  BY DEF UserEdit
<1> QED  BY <1>1, <1>2 DEF TypeInv, TypeOK, RecordsInv, RunsShape, runVars

LEMMA NextTyped == TypeInv /\ [Next]_vars => TypeInv'
<1> SUFFICES ASSUME TypeInv, [Next]_vars PROVE TypeInv'  OBVIOUS
<1>1. CASE UNCHANGED vars
  BY <1>1
     DEF vars, recordVars, records, runVars, TypeInv, TypeOK, RecordsTypeOK, EditShape, RunsShape
<1> QED
  BY <1>1, GenerateTyped, RunStepTyped, PlainStepTyped, UserEditTyped DEF Next

\* Type correctness of the whole, whatever interleaves.
THEOREM Typed == Spec => []TypeOK
<1>1. TypeInv => TypeOK  BY DEF TypeInv
<1> QED  BY <1>1, InitTyped, NextTyped, PTL DEF Spec

(***************************************************************************)
(* Status                                                                  *)
(***************************************************************************)
\* An edit leaves the status of a meeting alone unless it deletes the meeting.
LEMMA EditStatus ==
  ASSUME TypeInv, NEW e \in Edits, UserEdit(e), NEW m \in Meetings
  PROVE  meetingStatus'[m] \in {meetingStatus[m], "GONE"}
<1>1. meetingStatus \in [Meetings -> Status] /\ EditStep(e)
  BY DEF TypeInv, TypeOK, RecordsTypeOK, UserEdit
<1>2. CASE SendEdit(e)
  BY <1>2
     DEF SendEdit, UpdateAttendee, DeleteAttendee, AddAttendee, CreateActionItem,
         UpdateActionItem, DeleteActionItem, SetTranscript, DeleteMeeting, LoadAttendee,
         ScopedRequest, records
<1>3. CASE RunEdit(e)
  BY <1>1, <1>3
     DEF RunEdit, ScopeAttendee, CheckEmail, FindActionItem, InsertAttendee, SaveAttendee,
         RemoveAttendee, InsertActionItem, SaveActionItem, RemoveActionItem, StoreTranscript,
         RemoveMeeting, RemoveTranscripts, records
<1>4. CASE LoseEdit(e)  BY <1>4 DEF LoseEdit, records
<1> QED  BY <1>1, <1>2, <1>3, <1>4 DEF EditStep

\* How a step of a generation moves it and writes the status.
LEMMA RunStatus ==
  ASSUME TypeInv, NEW p \in Requests, RunStep(p) \/ Crash(p)
  PROVE  /\ target' = target /\ aiResults \subseteq aiResults'
         /\ \A q \in Requests : q # p => at'[q] = at[q]
         /\ \/ /\ meetingStatus' = meetingStatus
               /\ at[p] \in Window \cup {"stranded", "stuck"} => at'[p] \in Window \cup {"stranded", "stuck"}
            \/ /\ at[p] = "cleared" /\ at'[p] = "asking"
               /\ SetStatus(target[p], "PROCESSING")
            \/ /\ at[p] = "completing" /\ at'[p] = "completed"
               /\ SetStatus(target[p], "COMPLETED")
            \/ /\ at[p] = "failing" /\ at'[p] = "failed"
               /\ SetStatus(target[p], "FAILED")
<1>1. at \in [Requests -> RunStages]  BY DEF TypeInv, TypeOK, RunStages
<1>2. CASE LoadTranscript(p) \/ FindManualAssignees(p) \/ ClearItems(p) \/ ClearAttendees(p)
  BY <1>1, <1>2
     DEF LoadTranscript, FindManualAssignees, ClearItems, ClearAttendees, Move, Window,
         recordVars, records
<1>3. CASE MarkProcessing(p) \/ Complete(p) \/ Fail(p)
  BY <1>1, <1>3 DEF MarkProcessing, Complete, Fail, Move
<1>4. CASE ModelAnswers(p) \/ ModelFails(p) \/ AttendeesReady(p) \/ AttendeesRejected(p)
           \/ ItemsFiled(p) \/ ItemsRejected(p) \/ SaveResults(p) \/ SaveFails(p) \/ CompleteFails(p)
           \/ FailFails(p)
  BY <1>1, <1>4
     DEF ModelAnswers, ModelFails, AttendeesReady, AttendeesRejected, ItemsFiled, ItemsRejected,
         SaveResults, SaveFails, CompleteFails, FailFails, Move, Window, recordVars, records
<1>5. CASE AttendeeTask(p)
  BY <1>5
     DEF AttendeeTask, FindByEmail, CheckDuplicate, CreateAttendee, CreateAttendeeFails,
         recordVars, records
<1>6. CASE ItemTask(p)
  BY <1>6 DEF ItemTask, FileItem, FileItemFails, recordVars, records
<1>7. CASE Crash(p)
  <2>1. at[p] # "stranded"
    BY <1>7 DEF Crash, Running, Open, Alive, Ended
  <2> QED  BY <1>1, <1>7, <2>1 DEF Crash, recordVars, records
<1> QED  BY <1>2, <1>3, <1>4, <1>5, <1>6, <1>7 DEF RunStep

\* With this invariant, PROCESSING is always explained by a generation between
\* its status writes, or stopped there: the write that ends one generation also
\* ends the status, and only another generation can write PROCESSING again.
LEMMA StatusStep ==
  ASSUME TypeInv, StatusExplained, [Next]_vars
  PROVE  StatusExplained'
<1> SUFFICES ASSUME NEW m \in Meetings, meetingStatus'[m] = "PROCESSING"
             PROVE  \E p \in Requests : target'[p] = m /\ at'[p] \in Window \cup {"stranded", "stuck"}
  BY DEF StatusExplained
<1>1. at \in [Requests -> RunStages] /\ target \in [Requests -> Meetings \cup {Null}]
      /\ meetingStatus \in [Meetings -> Status]
  BY DEF TypeInv, TypeOK, RecordsTypeOK, RunStages
<1>2. meetingStatus[m] = "PROCESSING" =>
        \E p \in Requests : target[p] = m /\ at[p] \in Window \cup {"stranded", "stuck"}
  BY DEF StatusExplained
<1>3. CASE UNCHANGED vars
  BY <1>2, <1>3 DEF vars, recordVars, records, runVars
<1>4. ASSUME NEW p \in Requests, NEW u \in Users, NEW n \in Meetings, Generate(p, u, n)
      PROVE  \E q \in Requests : target'[q] = m /\ at'[q] \in Window \cup {"stranded", "stuck"}
  BY <1>1, <1>2, <1>4 DEF Generate, Move, Window, recordVars, records
<1>5. ASSUME NEW p \in Requests, RunStep(p) \/ Crash(p)
      PROVE  \E q \in Requests : target'[q] = m /\ at'[q] \in Window \cup {"stranded", "stuck"}
  <2>1. target[p] = m => meetingStatus'[m] # "PROCESSING" \/ at'[p] \in Window \cup {"stranded", "stuck"}
                         \/ (meetingStatus' = meetingStatus /\ at[p] \notin Window \cup {"stranded", "stuck"})
    BY <1>1, <1>5, RunStatus DEF SetStatus, Window
  <2>2. target[p] # m => meetingStatus'[m] = meetingStatus[m]
    BY <1>1, <1>5, RunStatus DEF SetStatus
  <2>3. target' = target /\ \A q \in Requests : q # p => at'[q] = at[q]
    BY <1>5, RunStatus
  <2> QED  BY <1>2, <2>1, <2>2, <2>3
<1>6. ASSUME NEW e \in Edits, UserEdit(e)
      PROVE  \E q \in Requests : target'[q] = m /\ at'[q] \in Window \cup {"stranded", "stuck"}
  <2>1. meetingStatus[m] = "PROCESSING"  BY <1>6, EditStatus
  <2> QED  BY <1>2, <1>6, <2>1 DEF UserEdit, runVars
<1> QED  BY <1>3, <1>4, <1>5, <1>6 DEF Next

THEOREM StatusIsExplained == Spec => []StatusExplained
<1>1. Init => StatusExplained  BY DEF Init, RecordsInit, StatusExplained
<1>2. TypeInv /\ StatusExplained /\ [Next]_vars => (TypeInv /\ StatusExplained)'
  BY NextTyped, StatusStep
<1> QED  BY <1>1, <1>2, InitTyped, PTL DEF Spec

\* Between the save of its results and the write of COMPLETED, the results of a
\* generation are there: what makes CompletedHasResults inductive.
ResultsSaved ==
  \A p \in Requests : at[p] = "completing" => \E r \in aiResults : r.meeting = target[p]

ResultsInv == TypeInv /\ ResultsSaved /\ CompletedHasResults

LEMMA SavedStep ==
  ASSUME ResultsInv, [Next]_vars
  PROVE  ResultsSaved'
<1> SUFFICES ASSUME NEW p \in Requests, at'[p] = "completing"
             PROVE  \E r \in aiResults' : r.meeting = target'[p]
  BY DEF ResultsSaved
<1>1. at \in [Requests -> RunStages] /\ target \in [Requests -> Meetings \cup {Null}]
  BY DEF ResultsInv, TypeInv, TypeOK, RunStages
<1>2. at[p] = "completing" => \E r \in aiResults : r.meeting = target[p]
  BY DEF ResultsInv, ResultsSaved
<1>3. CASE UNCHANGED vars  BY <1>2, <1>3 DEF vars, runVars
<1>4. ASSUME NEW q \in Requests, NEW u \in Users, NEW n \in Meetings, Generate(q, u, n)
      PROVE  \E r \in aiResults' : r.meeting = target'[p]
  BY <1>1, <1>2, <1>4 DEF Generate, Move
<1>5. ASSUME NEW q \in Requests, RunStep(q) \/ Crash(q)
      PROVE  \E r \in aiResults' : r.meeting = target'[p]
  <2>1. CASE at[p] = "completing"
    BY <1>2, <1>5, <2>1, RunStatus DEF ResultsInv
  <2>2. CASE at[p] # "completing"
    <3>1. q = p  BY <1>5, <2>2, RunStatus DEF ResultsInv
    <3>2. SaveResults(p)
      BY <1>1, <1>5, <2>2, <3>1
         DEF RunStep, LoadTranscript, FindManualAssignees, ClearItems, ClearAttendees,
             MarkProcessing, ModelAnswers, ModelFails, AttendeeTask, FindByEmail, CheckDuplicate,
             CreateAttendee, CreateAttendeeFails, AttendeesReady, AttendeesRejected, ItemTask,
             FileItem, FileItemFails, ItemsFiled, ItemsRejected, SaveFails, CompleteFails, FailFails, Complete, Fail,
             Crash, Move
    <3> DEFINE r == [id |-> p, meeting |-> target[p]]
    <3>3. r \in aiResults' /\ r.meeting = target'[p]  BY <3>2 DEF SaveResults
    <3> QED  BY <3>3
  <2> QED  BY <2>1, <2>2
<1>6. ASSUME NEW e \in Edits, UserEdit(e)
      PROVE  \E r \in aiResults' : r.meeting = target'[p]
  BY <1>2, <1>6 DEF UserEdit, runVars
<1> QED  BY <1>3, <1>4, <1>5, <1>6 DEF Next

LEMMA CompletedStep ==
  ASSUME ResultsInv, [Next]_vars
  PROVE  CompletedHasResults'
<1> SUFFICES ASSUME NEW m \in Meetings, meetingStatus'[m] = "COMPLETED"
             PROVE  \E r \in aiResults' : r.meeting = m
  BY DEF CompletedHasResults
<1>1. meetingStatus \in [Meetings -> Status]
  BY DEF ResultsInv, TypeInv, TypeOK, RecordsTypeOK
<1>2. meetingStatus[m] = "COMPLETED" => \E r \in aiResults : r.meeting = m
  BY DEF ResultsInv, CompletedHasResults
<1>3. CASE UNCHANGED vars  BY <1>2, <1>3 DEF vars, recordVars, records, runVars
<1>4. ASSUME NEW q \in Requests, NEW u \in Users, NEW n \in Meetings, Generate(q, u, n)
      PROVE  \E r \in aiResults' : r.meeting = m
  BY <1>2, <1>4 DEF Generate, recordVars, records
<1>5. ASSUME NEW q \in Requests, RunStep(q) \/ Crash(q)
      PROVE  \E r \in aiResults' : r.meeting = m
  <2>1. aiResults \subseteq aiResults'  BY <1>5, RunStatus DEF ResultsInv
  <2>2. meetingStatus[m] = "COMPLETED" \/ (at[q] = "completing" /\ target[q] = m)
    BY <1>1, <1>5, RunStatus DEF SetStatus, ResultsInv
  <2> QED  BY <1>2, <2>1, <2>2 DEF ResultsInv, ResultsSaved
<1>6. ASSUME NEW e \in Edits, UserEdit(e)
      PROVE  \E r \in aiResults' : r.meeting = m
  <2>1. meetingStatus[m] = "COMPLETED"  BY <1>6, EditStatus DEF ResultsInv
  <2> QED  BY <1>2, <1>6, <2>1 DEF UserEdit, runVars
<1> QED  BY <1>3, <1>4, <1>5, <1>6 DEF Next

THEOREM CompletedShowsResults == Spec => []CompletedHasResults
<1>1. Init => ResultsInv
  BY InitTyped DEF Init, RecordsInit, ResultsInv, ResultsSaved, CompletedHasResults
<1>2. ResultsInv /\ [Next]_vars => ResultsInv'
  BY NextTyped, SavedStep, CompletedStep DEF ResultsInv
<1>3. ResultsInv => CompletedHasResults  BY DEF ResultsInv
<1> QED  BY <1>1, <1>2, <1>3, PTL DEF Spec

-------------------------------------------------------------------------------
(***************************************************************************)
(* Regenerating wipes what was generated before and keeps what is not      *)
(* AI-made, whatever other generations and edits do meanwhile.             *)
(***************************************************************************)
\* Whatever a generation stored is AI-generated.
RunsMakeAi ==
  /\ \A a \in attendees : a.id[1] \in Requests => a.ai
  /\ \A i \in actionItems : i.id[1] \in Requests => i.ai

\* A generation at rest was answered, or died, and has no task running.
AtRest(q) == at[q] \in Ended /\ ~Running(q)

\* before holds generations at rest, and rest is final.
BeforeAtRest == \A p \in Requests : \A q \in before[p] : AtRest(q)

\* Promise.all resolves when every task has: past it no task is left.
Joined ==
  \A p \in Requests :
    /\ at[p] \in {"filing", "saving", "completing", "completed"} =>
         \A i \in DOMAIN upsert[p] : upsert[p][i].step = "ok"
    /\ at[p] \in {"saving", "completing", "completed"} =>
         \A j \in DOMAIN filed[p] : filed[p][j] = "filed"

WipeInv == TypeInv /\ RunsMakeAi /\ BeforeAtRest /\ Joined /\ RegenerationWipes

(***************************************************************************)
(* Where documents come from                                               *)
(***************************************************************************)
\* A step of an edit stores documents of its own or documents that had their
\* id, their meeting and their flag before.
Old(c, C) == \E k \in C : k.id = c.id /\ k.meeting = c.meeting /\ k.ai = c.ai

LEMMA PatchedOld ==
  ASSUME NEW C \in SUBSET Attendee, NEW d, NEW x, NEW c \in Patched(C, d, "email", x)
  PROVE  Old(c, C)
BY DEF Patched, Old, Attendee

LEMMA PatchedItemOld ==
  ASSUME NEW C \in SUBSET ActionItem, NEW d, NEW x, NEW c \in Patched(C, d, "assignee", x)
  PROVE  Old(c, C)
BY DEF Patched, Old, ActionItem

LEMMA EditSources ==
  ASSUME TypeInv, NEW e \in Edits, UserEdit(e)
  PROVE  /\ \A a \in attendees' : a.id = <<e, 1>> \/ Old(a, attendees)
         /\ \A i \in actionItems' : i.id = <<e, 1>> \/ Old(i, actionItems)
<1>1. EditStep(e) /\ attendees \subseteq Attendee /\ actionItems \subseteq ActionItem
  BY DEF UserEdit, TypeInv, TypeOK, RecordsTypeOK
<1>2. CASE UNCHANGED records  BY <1>2 DEF records, Old
<1>3. CASE InsertAttendee(e)  BY <1>3 DEF InsertAttendee, Old
<1>4. CASE SaveAttendee(e)
  <2>1. \A a \in attendees' : Old(a, attendees)
    BY <1>1, <1>4, PatchedOld DEF SaveAttendee, Old
  <2> QED  BY <1>4, <2>1 DEF SaveAttendee, Old
<1>5. CASE RemoveAttendee(e)  BY <1>5 DEF RemoveAttendee, Without, Old
<1>6. CASE InsertActionItem(e)  BY <1>6 DEF InsertActionItem, Old
<1>7. CASE SaveActionItem(e)
  <2>1. \A i \in actionItems' : Old(i, actionItems)
    BY <1>1, <1>7, PatchedItemOld DEF SaveActionItem, Old
  <2> QED  BY <1>7, <2>1 DEF SaveActionItem, Old
<1>8. CASE RemoveActionItem(e)  BY <1>8 DEF RemoveActionItem, Without, Old
<1>9. CASE StoreTranscript(e) \/ RemoveMeeting(e) \/ RemoveTranscripts(e)
  BY <1>9 DEF StoreTranscript, RemoveMeeting, RemoveTranscripts, Old
<1>10. SendEdit(e) => UNCHANGED records
  BY DEF SendEdit, UpdateAttendee, DeleteAttendee, AddAttendee, CreateActionItem,
         UpdateActionItem, DeleteActionItem, SetTranscript, DeleteMeeting, LoadAttendee,
         ScopedRequest
<1>11. ScopeAttendee(e) \/ CheckEmail(e) \/ FindActionItem(e) \/ LoseEdit(e) => UNCHANGED records
  BY DEF ScopeAttendee, CheckEmail, FindActionItem, LoseEdit
<1> QED
  BY <1>1, <1>2, <1>3, <1>4, <1>5, <1>6, <1>7, <1>8, <1>9, <1>10, <1>11 DEF EditStep, RunEdit

\* A step of a generation stores nothing but new AI-generated documents of its
\* own, and each comes from a task that was running.
LEMMA RunSources ==
  ASSUME TypeInv, NEW p \in Requests, RunStep(p) \/ Crash(p)
  PROVE  /\ \A a \in attendees' \ attendees :
              /\ a.id[1] = p /\ a.ai /\ Alive(p)
              /\ \E i \in DOMAIN upsert[p] : upsert[p][i].step = "creating"
         /\ \A k \in actionItems' \ actionItems :
              /\ k.id[1] = p /\ k.ai /\ Alive(p)
              /\ \E j \in DOMAIN filed[p] : filed[p][j] = "filing"
<1>1. CASE ClearItems(p)  BY <1>1 DEF ClearItems
<1>2. CASE ClearAttendees(p)  BY <1>2 DEF ClearAttendees
<1>3. CASE \E i \in DOMAIN upsert[p] : CreateAttendee(p, i)
  BY <1>3 DEF CreateAttendee, Upserting
<1>4. CASE \E j \in DOMAIN filed[p] : FileItem(p, j)
  BY <1>4 DEF FileItem, Filing
<1>5. CASE attendees' = attendees /\ actionItems' = actionItems
  BY <1>5
<1> QED
  BY <1>1, <1>2, <1>3, <1>4, <1>5
     DEF RunStep, LoadTranscript, FindManualAssignees, MarkProcessing, ModelAnswers, ModelFails,
         AttendeeTask, FindByEmail, CheckDuplicate, CreateAttendeeFails, AttendeesReady,
         AttendeesRejected, ItemTask, FileItemFails, ItemsFiled, ItemsRejected, SaveResults,
         SaveFails, CompleteFails, FailFails, Complete, Fail, Crash, recordVars, records

LEMMA MakeAiStep ==
  ASSUME TypeInv, RunsMakeAi, [Next]_vars
  PROVE  RunsMakeAi'
<1>1. CASE UNCHANGED vars  BY <1>1 DEF vars, recordVars, records, RunsMakeAi
<1>2. ASSUME NEW p \in Requests, NEW u \in Users, NEW m \in Meetings, Generate(p, u, m)
      PROVE  RunsMakeAi'
  BY <1>2 DEF Generate, recordVars, records, RunsMakeAi
<1>3. ASSUME NEW p \in Requests, RunStep(p) \/ Crash(p)  PROVE RunsMakeAi'
  BY <1>3, RunSources DEF RunsMakeAi
<1>4. ASSUME NEW e \in Edits, UserEdit(e)  PROVE RunsMakeAi'
  <2>1. <<e, 1>>[1] \notin Requests  BY AiAssumption
  <2> QED  BY <1>4, <2>1, EditSources DEF RunsMakeAi, Old
<1> QED  BY <1>1, <1>2, <1>3, <1>4 DEF Next

(***************************************************************************)
(* Rest is final                                                           *)
(***************************************************************************)
\* The tasks and the stage of a generation are its own.
LEMMA TaskFrame ==
  ASSUME TypeInv, NEW p \in Requests, RunStep(p) \/ Crash(p), NEW q \in Requests, q # p
  PROVE  upsert'[q] = upsert[q] /\ filed'[q] = filed[q] /\ at'[q] = at[q]
<1>1. /\ upsert \in [Requests -> Seq(Task)]
      /\ filed \in [Requests -> Seq({"filing", "filed", "failed"})]
  BY DEF TypeInv, TypeOK
<1>2. at'[q] = at[q]  BY RunStatus
<1> QED
  BY <1>1, <1>2
     DEF RunStep, LoadTranscript, FindManualAssignees, ClearItems, ClearAttendees,
         MarkProcessing, ModelAnswers, ModelFails, AttendeeTask, FindByEmail, CheckDuplicate,
         CreateAttendee, CreateAttendeeFails, SetTask, AttendeesReady, AttendeesRejected,
         ItemTask, FileItem, FileItemFails, SetFiled, ItemsFiled, ItemsRejected, SaveResults,
         SaveFails, CompleteFails, FailFails, Complete, Fail, Crash

\* A generation at rest does nothing any more.
LEMMA RestStep ==
  ASSUME TypeInv, NEW q \in Requests, AtRest(q), [Next]_vars
  PROVE  AtRest(q)'
<1>1. at \in [Requests -> RunStages]  BY DEF TypeInv, TypeOK, RunStages
<1>2. SUFFICES at'[q] = at[q] /\ upsert'[q] = upsert[q] /\ filed'[q] = filed[q]
  BY DEF AtRest, Running, Open, Alive, TasksRunning
<1>3. CASE UNCHANGED vars  BY <1>3 DEF vars, runVars
<1>4. ASSUME NEW p \in Requests, NEW u \in Users, NEW m \in Meetings, Generate(p, u, m)
      PROVE  at'[q] = at[q] /\ upsert' = upsert /\ filed' = filed
  BY <1>1, <1>4 DEF Generate, Move, AtRest, Ended
<1>5. ASSUME RunStep(q)  PROVE FALSE
  <2>1. ~AttendeeTask(q)
    BY DEF AtRest, Running, TasksRunning, AttendeeTask, FindByEmail, CheckDuplicate,
           CreateAttendee, CreateAttendeeFails, Upserting
  <2>2. ~ItemTask(q)
    BY DEF AtRest, Running, TasksRunning, ItemTask, FileItem, FileItemFails, Filing
  <2> QED
    BY <1>5, <2>1, <2>2
       DEF AtRest, Ended, RunStep, LoadTranscript, FindManualAssignees, ClearItems,
           ClearAttendees, MarkProcessing, ModelAnswers, ModelFails, AttendeesReady,
           AttendeesRejected, ItemsFiled, ItemsRejected, SaveResults, SaveFails, Complete,
           CompleteFails, Fail, FailFails, Move
<1>6. ASSUME Crash(q)  PROVE FALSE  BY <1>6 DEF Crash, AtRest
<1>7. ASSUME NEW p \in Requests, RunStep(p) \/ Crash(p)
      PROVE  at'[q] = at[q] /\ upsert'[q] = upsert[q] /\ filed'[q] = filed[q]
  BY <1>5, <1>6, <1>7, TaskFrame
<1>8. ASSUME NEW e \in Edits, UserEdit(e)
      PROVE  at'[q] = at[q] /\ upsert'[q] = upsert[q] /\ filed'[q] = filed[q]
  BY <1>8 DEF UserEdit, runVars
<1> QED  BY <1>3, <1>4, <1>7, <1>8 DEF Next

LEMMA BeforeStep ==
  ASSUME TypeInv, BeforeAtRest, [Next]_vars
  PROVE  BeforeAtRest'
<1> SUFFICES ASSUME NEW p \in Requests, NEW q \in before'[p]  PROVE AtRest(q)'
  BY DEF BeforeAtRest, AtRest, Running, Open, Alive, TasksRunning
<1>1. before \in [Requests -> SUBSET Requests]  BY DEF TypeInv, TypeOK
<1>2. q \in Requests /\ AtRest(q)
  <2>1. CASE before' = before  BY <1>1, <2>1 DEF BeforeAtRest
  <2>2. CASE \E r \in Requests, u \in Users, m \in Meetings : Generate(r, u, m)
    BY <1>1, <2>2 DEF Generate, BeforeAtRest, AtRest
  <2>3. ASSUME NEW r \in Requests, RunStep(r) \/ Crash(r)  PROVE before' = before
    BY <2>3
       DEF RunStep, LoadTranscript, FindManualAssignees, ClearItems, ClearAttendees,
           MarkProcessing, ModelAnswers, ModelFails, AttendeeTask, FindByEmail, CheckDuplicate,
           CreateAttendee, CreateAttendeeFails, AttendeesReady, AttendeesRejected, ItemTask,
           FileItem, FileItemFails, ItemsFiled, ItemsRejected, SaveResults, SaveFails,
           CompleteFails, FailFails, Complete, Fail, Crash
  <2>4. UNCHANGED vars => before' = before  BY DEF vars, runVars
  <2>5. (\E e \in Edits : UserEdit(e)) => before' = before  BY DEF UserEdit, runVars
  <2> QED  BY <2>1, <2>2, <2>3, <2>4, <2>5 DEF Next
<1> QED  BY <1>2, RestStep

(***************************************************************************)
(* Promise.all                                                             *)
(***************************************************************************)
JoinedAt(p) ==
  /\ at[p] \in {"filing", "saving", "completing", "completed"} =>
       \A i \in DOMAIN upsert[p] : upsert[p][i].step = "ok"
  /\ at[p] \in {"saving", "completing", "completed"} =>
       \A j \in DOMAIN filed[p] : filed[p][j] = "filed"

LEMMA JoinedRunStep ==
  ASSUME TypeInv, NEW p \in Requests, JoinedAt(p), RunStep(p) \/ Crash(p)
  PROVE  JoinedAt(p)'
<1>1. at \in [Requests -> RunStages]  BY DEF TypeInv, TypeOK, RunStages
<1>2. CASE \/ LoadTranscript(p) \/ FindManualAssignees(p) \/ ClearItems(p) \/ ClearAttendees(p)
           \/ MarkProcessing(p) \/ ModelAnswers(p) \/ ModelFails(p) \/ AttendeesRejected(p)
           \/ ItemsRejected(p) \/ SaveFails(p) \/ CompleteFails(p) \/ Fail(p)
           \/ FailFails(p) \/ Crash(p)
  BY <1>1, <1>2
     DEF LoadTranscript, FindManualAssignees, ClearItems, ClearAttendees, MarkProcessing,
         ModelAnswers, ModelFails, AttendeesRejected, ItemsRejected, SaveFails, CompleteFails, FailFails, Fail, Crash, Move,
         JoinedAt
<1>3. CASE AttendeesReady(p)  BY <1>1, <1>3 DEF AttendeesReady, Move, JoinedAt
<1>4. CASE ItemsFiled(p)  BY <1>1, <1>4 DEF ItemsFiled, Move, JoinedAt
<1>5. CASE SaveResults(p) \/ Complete(p)
  BY <1>1, <1>5 DEF SaveResults, Complete, Move, JoinedAt
<1>6. CASE AttendeeTask(p)
  <2>1. at[p] \notin {"filing", "saving", "completing", "completed"}
    BY <1>6
       DEF AttendeeTask, FindByEmail, CheckDuplicate, CreateAttendee, CreateAttendeeFails,
           Upserting, JoinedAt
  <2>2. at' = at
    BY <1>6 DEF AttendeeTask, FindByEmail, CheckDuplicate, CreateAttendee, CreateAttendeeFails
  <2> QED  BY <2>1, <2>2 DEF JoinedAt
<1>7. CASE ItemTask(p)
  <2>1. at[p] \notin {"saving", "completing", "completed"}
    BY <1>7 DEF ItemTask, FileItem, FileItemFails, Filing, JoinedAt
  <2>2. at' = at /\ upsert' = upsert  BY <1>7 DEF ItemTask, FileItem, FileItemFails
  <2> QED  BY <2>1, <2>2 DEF JoinedAt
<1> QED  BY <1>2, <1>3, <1>4, <1>5, <1>6, <1>7 DEF RunStep

LEMMA JoinedStep ==
  ASSUME TypeInv, Joined, [Next]_vars
  PROVE  Joined'
<1> SUFFICES ASSUME NEW p \in Requests PROVE JoinedAt(p)'
  BY DEF Joined, JoinedAt
<1>1. JoinedAt(p)  BY DEF Joined, JoinedAt
<1>2. CASE UNCHANGED vars  BY <1>1, <1>2 DEF vars, runVars, JoinedAt
<1>3. ASSUME NEW q \in Requests, NEW u \in Users, NEW m \in Meetings, Generate(q, u, m)
      PROVE  JoinedAt(p)'
  BY <1>1, <1>3 DEF Generate, Move, JoinedAt, TypeInv, TypeOK
<1>4. CASE RunStep(p) \/ Crash(p)  BY <1>1, <1>4, JoinedRunStep
<1>5. ASSUME NEW q \in Requests, RunStep(q) \/ Crash(q), q # p  PROVE JoinedAt(p)'
  BY <1>1, <1>5, TaskFrame DEF JoinedAt
<1>6. ASSUME NEW e \in Edits, UserEdit(e)  PROVE JoinedAt(p)'
  BY <1>1, <1>6 DEF UserEdit, runVars, JoinedAt
<1> QED  BY <1>2, <1>3, <1>4, <1>5, <1>6 DEF Next

(***************************************************************************)
(* Wiping                                                                  *)
(***************************************************************************)
\* A generation passes its two deletions by making them, and keepIds is not
\* read again after that.
LEMMA PastStep ==
  ASSUME TypeInv, NEW p \in Requests, RunStep(p) \/ Crash(p)
  PROVE  /\ Past(p, {"itemsCleared", "cleared"})' =>
              Past(p, {"itemsCleared", "cleared"}) \/ ClearItems(p)
         /\ Past(p, {"cleared"})' => Past(p, {"cleared"}) \/ ClearAttendees(p)
         /\ Past(p, {"cleared"}) => keep' = keep
<1>1. at \in [Requests -> RunStages]  BY DEF TypeInv, TypeOK, RunStages
<1>2. CASE AttendeeTask(p) \/ ItemTask(p)
  BY <1>2
     DEF AttendeeTask, FindByEmail, CheckDuplicate, CreateAttendee, CreateAttendeeFails,
         ItemTask, FileItem, FileItemFails, Past
<1>3. CASE Crash(p)  BY <1>1, <1>3 DEF Crash, Past, Window
<1>4. CASE LoadTranscript(p) \/ FindManualAssignees(p)
  BY <1>1, <1>4 DEF LoadTranscript, FindManualAssignees, Move, Past, Window
<1>5. CASE ClearItems(p) \/ ClearAttendees(p)
  BY <1>1, <1>5 DEF ClearItems, ClearAttendees, Move, Past, Window
<1>6. CASE \/ MarkProcessing(p) \/ ModelAnswers(p) \/ ModelFails(p) \/ AttendeesReady(p)
           \/ AttendeesRejected(p) \/ ItemsFiled(p) \/ ItemsRejected(p) \/ SaveResults(p)
           \/ SaveFails(p) \/ CompleteFails(p) \/ Complete(p) \/ Fail(p) \/ FailFails(p)
  BY <1>1, <1>6
     DEF MarkProcessing, ModelAnswers, ModelFails, AttendeesReady, AttendeesRejected, ItemsFiled,
         ItemsRejected, SaveResults, SaveFails, CompleteFails, FailFails, Complete, Fail, Move, Past, Window
<1> QED  BY <1>2, <1>3, <1>4, <1>5, <1>6 DEF RunStep

\* What a generation with no task left to write has in a meeting only shrinks.
Silent(q) ==
  Alive(q) => /\ \A i \in DOMAIN upsert[q] : upsert[q][i].step # "creating"
              /\ \A j \in DOMAIN filed[q] : filed[q][j] # "filing"
Shrinks(q) ==
  /\ \A a \in attendees' : a.id[1] = q => Old(a, attendees)
  /\ \A i \in actionItems' : i.id[1] = q => Old(i, actionItems)

LEMMA NothingNew ==
  ASSUME TypeInv, NEW q \in Requests, Silent(q), [Next]_vars
  PROVE  Shrinks(q)
<1>1. CASE UNCHANGED vars  BY <1>1 DEF vars, recordVars, records, Old, Shrinks
<1>2. ASSUME NEW p \in Requests, NEW u \in Users, NEW m \in Meetings, Generate(p, u, m)
      PROVE  attendees' = attendees /\ actionItems' = actionItems
  BY <1>2 DEF Generate, recordVars, records
<1>3. ASSUME NEW p \in Requests, RunStep(p) \/ Crash(p)
      PROVE  /\ \A a \in attendees' : a.id[1] = q => a \in attendees
             /\ \A i \in actionItems' : i.id[1] = q => i \in actionItems
  BY <1>3, RunSources DEF Silent
<1>4. ASSUME NEW e \in Edits, UserEdit(e)
      PROVE  /\ \A a \in attendees' : a.id[1] = q => Old(a, attendees)
             /\ \A i \in actionItems' : i.id[1] = q => Old(i, actionItems)
  <2>1. <<e, 1>>[1] # q  BY AiAssumption
  <2> QED  BY <1>4, <2>1, EditSources
<1> QED  BY <1>1, <1>2, <1>3, <1>4 DEF Next, Old, Shrinks

\* What p is to have wiped of an earlier generation q.
Wiped(p, q) ==
  /\ Past(p, {"itemsCleared", "cleared"}) => Made(actionItems, target[p], q) = {}
  /\ Past(p, {"cleared"}) => Ids(Made(attendees, target[p], q)) \subseteq keep[p]

\* p wipes by its two deletions what is there, and nothing comes after them.
LEMMA WipedStep ==
  ASSUME TypeInv, RunsMakeAi, NEW p \in Requests, NEW q \in Requests, q \in before'[p],
         q \in before[p] => Wiped(p, q) /\ Shrinks(q), [Next]_vars
  PROVE  Wiped(p, q)'
<1> SUFFICES /\ Past(p, {"itemsCleared", "cleared"})' => Made(actionItems, target[p], q)' = {}
             /\ Past(p, {"cleared"})' => (Ids(Made(attendees, target[p], q)) \subseteq keep[p])'
  BY DEF Wiped
<1>1. /\ at \in [Requests -> RunStages] /\ before \in [Requests -> SUBSET Requests]
      /\ target \in [Requests -> Meetings \cup {Null}]
  BY DEF TypeInv, TypeOK, RunStages
<1>2. CASE \E u \in Users, m \in Meetings : Generate(p, u, m)
  <2>1. at'[p] \in {"accepted", "refused"}  BY <1>1, <1>2 DEF Generate, Move
  <2> QED  BY <2>1 DEF Past, Window
<1>3. CASE /\ before'[p] = before[p] /\ target'[p] = target[p]
           /\ Past(p, {"itemsCleared", "cleared"})' =>
                Past(p, {"itemsCleared", "cleared"}) \/ ClearItems(p)
           /\ Past(p, {"cleared"})' => Past(p, {"cleared"}) \/ ClearAttendees(p)
           /\ Past(p, {"cleared"}) => keep'[p] = keep[p]
  <2>1. q \in before[p]  BY <1>1, <1>3
  <2>3. /\ \A a \in attendees' : a.id[1] = q => Old(a, attendees)
        /\ \A i \in actionItems' : i.id[1] = q => Old(i, actionItems)
    BY <2>1 DEF Shrinks
  <2>4. /\ Past(p, {"itemsCleared", "cleared"}) => Made(actionItems, target[p], q) = {}
        /\ Past(p, {"cleared"}) => Ids(Made(attendees, target[p], q)) \subseteq keep[p]
    BY <2>1 DEF Wiped
  <2>5. ASSUME Past(p, {"itemsCleared", "cleared"})  PROVE Made(actionItems, target[p], q)' = {}
    <3>1. \A i \in actionItems : i.meeting = target[p] => i.id[1] # q  BY <2>4, <2>5 DEF Made
    <3>2. \A i \in actionItems' : i.meeting = target[p] => i.id[1] # q  BY <2>3, <3>1 DEF Old
    <3> QED  BY <1>3, <3>2 DEF Made
  <2>6. ASSUME ClearItems(p)  PROVE Made(actionItems, target[p], q)' = {}
    <3>1. \A i \in actionItems' : i.meeting = target[p] => i.id[1] # q
      BY <2>1, <2>6 DEF ClearItems, AiGenerated, RunsMakeAi
    <3> QED  BY <1>3, <3>1 DEF Made
  <2>7. ASSUME Past(p, {"cleared"})
        PROVE  (Ids(Made(attendees, target[p], q)) \subseteq keep[p])'
    <3>1. ASSUME NEW a \in attendees', a.meeting = target[p], a.id[1] = q  PROVE a.id \in keep[p]
      <4>1. PICK k \in attendees : k.id = a.id /\ k.meeting = a.meeting
        BY <2>3, <3>1 DEF Old
      <4> QED  BY <2>4, <2>7, <3>1, <4>1 DEF Made, Ids
    <3> QED  BY <1>3, <2>7, <3>1 DEF Made, Ids
  <2>8. ASSUME ClearAttendees(p)
        PROVE  (Ids(Made(attendees, target[p], q)) \subseteq keep[p])'
    <3>1. \A a \in attendees' : a.meeting = target[p] /\ a.id[1] = q => a.id \in keep[p]
      BY <2>1, <2>8 DEF ClearAttendees, AiGenerated, RunsMakeAi
    <3> QED  BY <1>3, <2>8, <3>1 DEF ClearAttendees, Made, Ids
  <2> QED  BY <1>3, <2>5, <2>6, <2>7, <2>8
<1>4. CASE UNCHANGED vars  BY <1>3, <1>4 DEF vars, runVars, Past
<1>5. ASSUME NEW r \in Requests, NEW u \in Users, NEW m \in Meetings, Generate(r, u, m), r # p
      PROVE  /\ before'[p] = before[p] /\ target'[p] = target[p] /\ keep' = keep
             /\ at'[p] = at[p]
  BY <1>1, <1>5 DEF Generate, Move
<1>6. ASSUME NEW r \in Requests, RunStep(r) \/ Crash(r)
      PROVE  target' = target /\ before' = before /\ (r # p => at'[p] = at[p] /\ keep'[p] = keep[p])
  <2>1. target' = target /\ (r # p => at'[p] = at[p])  BY <1>6, RunStatus
  <2>2. keep \in [Requests -> SUBSET DocId]  BY DEF TypeInv, TypeOK
  <2>3. before' = before /\ (r # p => keep'[p] = keep[p])
    BY <1>6, <2>2
       DEF RunStep, LoadTranscript, FindManualAssignees, ClearItems, ClearAttendees,
           MarkProcessing, ModelAnswers, ModelFails, AttendeeTask, FindByEmail, CheckDuplicate,
           CreateAttendee, CreateAttendeeFails, AttendeesReady, AttendeesRejected, ItemTask,
           FileItem, FileItemFails, ItemsFiled, ItemsRejected, SaveResults, SaveFails, CompleteFails, FailFails, Complete,
           Fail, Crash
  <2> QED  BY <2>1, <2>3
<1>7. CASE RunStep(p) \/ Crash(p)  BY <1>3, <1>6, <1>7, PastStep
<1>8. CASE \E e \in Edits : UserEdit(e)  BY <1>3, <1>8 DEF UserEdit, runVars, Past
<1>9. CASE \E r \in Requests : r # p /\ (RunStep(r) \/ Crash(r))  BY <1>3, <1>6, <1>9 DEF Past
<1>10. CASE \E r \in Requests, u \in Users, m \in Meetings : r # p /\ Generate(r, u, m)
  BY <1>3, <1>5, <1>10 DEF Past
<1> QED  BY <1>2, <1>4, <1>7, <1>8, <1>9, <1>10 DEF Next

LEMMA WipeStep ==
  ASSUME WipeInv, [Next]_vars
  PROVE  RegenerationWipes'
<1> USE DEF WipeInv
<1> SUFFICES ASSUME NEW p \in Requests, NEW q \in before'[p]  PROVE Wiped(p, q)'
  BY DEF RegenerationWipes, Wiped
<1>1. q \in Requests /\ before \in [Requests -> SUBSET Requests]
  BY NextTyped DEF TypeInv, TypeOK
<1>2. ASSUME q \in before[p]  PROVE Wiped(p, q) /\ Shrinks(q)
  <2>1. Silent(q)
    BY <1>1, <1>2 DEF BeforeAtRest, AtRest, Running, TasksRunning, Silent
  <2> QED  BY <1>1, <1>2, <2>1, NothingNew DEF RegenerationWipes, Wiped
<1> QED  BY <1>1, <1>2, WipedStep

\* What a regeneration wipes stays wiped.
THEOREM WipedStaysWiped == Spec => []RegenerationWipes
<1>1. Init => WipeInv
  <2> SUFFICES ASSUME Init PROVE WipeInv  OBVIOUS
  <2>1. RunsMakeAi  BY AiAssumption DEF Init, RecordsInit, RunsMakeAi
  <2>2. BeforeAtRest /\ Joined /\ RegenerationWipes
    BY DEF Init, BeforeAtRest, Joined, RegenerationWipes
  <2> QED  BY <2>1, <2>2, InitTyped DEF WipeInv
<1>2. WipeInv /\ [Next]_vars => WipeInv'
  BY NextTyped, MakeAiStep, BeforeStep, JoinedStep, WipeStep DEF WipeInv
<1>3. WipeInv => RegenerationWipes  BY DEF WipeInv
<1> QED  BY <1>1, <1>2, <1>3, PTL DEF Spec

(***************************************************************************)
(* Manual records                                                          *)
(***************************************************************************)
LEMMA GotoMoves ==
  ASSUME TypeInv, NEW e \in Edits, NEW s, Goto(e, s), edit[e].at # s
  PROVE  edit' # edit
BY DEF Goto, TypeInv, TypeOK, RecordsTypeOK, Edit

\* Every step of an edit moves the edit on, so a step that leaves all edits as
\* they are is a step of a generation.
LEMMA EditMoves ==
  ASSUME TypeInv, NEW e \in Edits, UserEdit(e)
  PROVE  edit' # edit
<1>1. EditStep(e) /\ edit \in [Edits -> Edit]
  BY DEF UserEdit, TypeInv, TypeOK, RecordsTypeOK
<1>2. CASE SendEdit(e)
  <2>1. ASSUME NEW u \in Users, NEW m \in Meetings, NEW s \in {"writing", "checking", "finding"},
               NEW op, NEW d, NEW x, NEW f, ScopedRequest(e, u, m, s, op, d, x, f)
        PROVE  edit'[e].at # "idle" /\ edit[e].at = "idle"
    BY <1>1, <2>1 DEF ScopedRequest, MaySend
  <2>2. ASSUME NEW u \in Users, NEW op, NEW a, NEW x, LoadAttendee(e, u, op, a, x)
        PROVE  edit'[e].at # "idle" /\ edit[e].at = "idle"
    BY <1>1, <2>2 DEF LoadAttendee, MaySend
  <2> QED
    BY <1>2, <2>1, <2>2
       DEF SendEdit, UpdateAttendee, DeleteAttendee, AddAttendee, CreateActionItem,
           UpdateActionItem, DeleteActionItem, SetTranscript, DeleteMeeting
<1>3. CASE RunEdit(e)
  <2>1. CASE \E i \in actionItems : /\ edit[e].at = "finding"
                                   /\ edit' = [edit EXCEPT ![e].at = "writing", ![e].was = i.assignee]
    <3>1. PICK i \in actionItems : /\ edit[e].at = "finding"
                                   /\ edit' = [edit EXCEPT ![e].at = "writing", ![e].was = i.assignee]
      BY <2>1
    <3>2. edit'[e].at = "writing"  BY <1>1, <3>1 DEF Edit
    <3> QED  BY <3>1, <3>2
  <2>2. ASSUME NEW s, Goto(e, s), edit[e].at # s  PROVE edit' # edit
    BY <2>2, GotoMoves
  <2>3. CASE FindActionItem(e)  BY <2>1, <2>2, <2>3 DEF FindActionItem, ItemsFound
  <2>4. CASE ScopeAttendee(e) \/ CheckEmail(e)  BY <2>2, <2>4 DEF ScopeAttendee, CheckEmail
  <2>5. CASE InsertAttendee(e) \/ SaveAttendee(e) \/ RemoveAttendee(e)
    BY <2>2, <2>5 DEF InsertAttendee, SaveAttendee, RemoveAttendee, Writes
  <2>6. CASE InsertActionItem(e) \/ SaveActionItem(e) \/ RemoveActionItem(e)
    BY <2>2, <2>6 DEF InsertActionItem, SaveActionItem, RemoveActionItem, Writes
  <2>7. CASE StoreTranscript(e) \/ RemoveMeeting(e) \/ RemoveTranscripts(e)
    BY <2>2, <2>7 DEF StoreTranscript, RemoveMeeting, RemoveTranscripts, Writes
  <2> QED  BY <1>3, <2>3, <2>4, <2>5, <2>6, <2>7 DEF RunEdit
<1>4. CASE LoseEdit(e)  BY <1>4, GotoMoves DEF LoseEdit, EditOpen
<1> QED  BY <1>1, <1>2, <1>3, <1>4 DEF EditStep

\* No step of a generation removes or changes a record that is not AI-made.
THEOREM ManualIsKept == Spec => ManualRecordsKept
<1>1. ASSUME TypeInv, [Next]_vars  PROVE [edit' = edit => Manual \subseteq Manual']_vars
  <2>1. CASE UNCHANGED vars  BY <2>1
  <2>2. ASSUME NEW p \in Requests, NEW u \in Users, NEW m \in Meetings, Generate(p, u, m)
        PROVE  Manual \subseteq Manual'
    BY <2>2 DEF Generate, recordVars, records, Manual
  <2>3. ASSUME NEW p \in Requests, RunStep(p) \/ Crash(p)  PROVE Manual \subseteq Manual'
    <3>1. /\ \A a \in attendees : ~a.ai => a \in attendees'
          /\ \A i \in actionItems : ~i.ai => i \in actionItems'
      BY <2>3
         DEF RunStep, LoadTranscript, FindManualAssignees, ClearItems, ClearAttendees, AiGenerated,
             MarkProcessing, ModelAnswers, ModelFails, AttendeeTask, FindByEmail, CheckDuplicate,
             CreateAttendee, CreateAttendeeFails, AttendeesReady, AttendeesRejected, ItemTask,
             FileItem, FileItemFails, ItemsFiled, ItemsRejected, SaveResults, SaveFails, CompleteFails, FailFails, Complete,
             Fail, Crash, recordVars, records
    <3> QED  BY <3>1 DEF Manual
  <2>4. ASSUME NEW e \in Edits, UserEdit(e)  PROVE edit' # edit
    BY <1>1, <2>4, EditMoves
  <2> QED  BY <1>1, <2>1, <2>2, <2>3, <2>4 DEF Next
<1> QED  BY <1>1, InitTyped, NextTyped, PTL DEF Spec, ManualRecordsKept
===============================================================================
