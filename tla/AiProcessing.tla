----------------------------- MODULE AiProcessing -----------------------------
(***************************************************************************)
(* Generating AI results: AiService.processAIResults and what it calls,    *)
(* composed with the edit requests of MeetingRecords.                      *)
(*                                                                         *)
(* A generation clears the AI-made records of the meeting, marks it        *)
(* PROCESSING, asks the model, stores attendees and then action items with *)
(* one concurrent task each (Promise.all), saves the results and marks the *)
(* meeting COMPLETED, or FAILED.  Promise.all rejects with the first task  *)
(* that fails; the other tasks go on.                                      *)
(***************************************************************************)
EXTENDS MeetingRecords, Sequences

CONSTANTS
  Requests,     \* generation requests; each is sent at most once
  Responses,    \* what the model may answer: see Response
  Faults,       \* the calls that may fail: "model", "attendee", "item", "results", "status"
  SoloRuns      \* TRUE: a generation is sent only when all others were answered

\* Attendees by e-mail; items by the position of the attendee whose name
\* matches the item's assignee (the first that does), 0 when none does.
Response == [attendees : Seq(Emails \cup {Null}), items : Seq(Nat)]
NoResponse == [attendees |-> <<>>, items |-> <<>>]

ASSUME AiAssumption ==
  /\ Requests \subseteq Writers
  /\ Requests \cap Edits = {}
  /\ \A r \in Responses :
       r \in Response /\ \A j \in DOMAIN r.items : r.items[j] <= Len(r.attendees)
  /\ SoloRuns \in BOOLEAN
  /\ Null \notin Requests
  /\ \A d \in FirstAttendees \cup FirstItems : d.id[1] \notin Requests

VARIABLES
  at,           \* the call each generation awaits
  target,       \* the meeting it works on
  keep,         \* keepIds: attendees findManualAssigneeIds returned
  answer,       \* the parsed response of the model
  upsert,       \* the upsertAttendee tasks, one per attendee of the answer
  filed,        \* the action-item tasks, one per item of the answer
  aiResults,    \* the airesults collection
  before        \* history: generations of the meeting at rest before the start

runVars == <<at, target, keep, answer, upsert, filed, aiResults, before>>
vars == <<recordVars, runVars>>

Clearing == {"accepted", "ready", "kept", "itemsCleared", "cleared"}
\* From the write of PROCESSING to the write of COMPLETED or FAILED.
Window == {"asking", "upserting", "filing", "saving", "completing", "failing"}
\* Answered: "stuck" when the write of FAILED was rejected, "aborted" and
\* "stranded" when the process died, the latter within the window.
Ended == {"refused", "completed", "failed", "stuck", "aborted", "stranded"}

Task == [step : {"finding", "checking", "creating", "ok", "failed"},
         doc : DocId \cup {Null}]
Result == [id : Requests, meeting : Meetings]

Init ==
  /\ RecordsInit
  /\ at = [p \in Requests |-> "idle"]
  /\ target = [p \in Requests |-> Null]
  /\ keep = [p \in Requests |-> {}]
  /\ answer = [p \in Requests |-> NoResponse]
  /\ upsert = [p \in Requests |-> <<>>]
  /\ filed = [p \in Requests |-> <<>>]
  /\ aiResults = {}
  /\ before = [p \in Requests |-> {}]

TasksRunning(p) ==
  \/ \E i \in DOMAIN upsert[p] : upsert[p][i].step \in {"finding", "checking", "creating"}
  \/ \E j \in DOMAIN filed[p] : filed[p][j] = "filing"

Alive(p) == at[p] \notin {"aborted", "stranded"}
\* The client waits for an answer; tasks may outlive it.
Open(p) == at[p] \notin {"idle"} \cup Ended
Running(p) == Open(p) \/ (Alive(p) /\ TasksRunning(p))

Move(p, from, to) ==
  /\ at[p] = from
  /\ at' = [at EXCEPT ![p] = to]

(***************************************************************************)
(* Admission                                                               *)
(***************************************************************************)

\* Mutant: the status is not looked at.
Refuses_AnyStatus(u, m) == ~FindsMeeting(u, m)

Refuses(u, m) == ~FindsMeeting(u, m) \/ meetingStatus[m] = "PROCESSING"

\* findMeeting and the check of the status it returned.
Generate(p, u, m) ==
  /\ SoloRuns => \A q \in Requests : ~Open(q)
  /\ SoloEdits => Quiet
  /\ Move(p, "idle", IF Refuses(u, m) THEN "refused" ELSE "accepted")
  /\ target' = [target EXCEPT ![p] = m]
  /\ before' = [before EXCEPT ![p] = {q \in Requests : target[q] = m /\ at[q] \in Ended /\ ~Running(q)}]
  /\ UNCHANGED <<recordVars, keep, answer, upsert, filed, aiResults>>

\* findTranscriptByMeetingId: a meeting without a transcript is refused.
LoadTranscript(p) ==
  /\ Move(p, "accepted", IF target[p] \in transcribed THEN "ready" ELSE "refused")
  /\ UNCHANGED <<recordVars, target, keep, answer, upsert, filed, aiResults, before>>

(***************************************************************************)
(* clearAiResults                                                          *)
(***************************************************************************)

\* Mutant: items assigned to nobody are not filtered out.
ManualAssignees_WithNull(m) ==
  {i.assignee : i \in {j \in actionItems : j.meeting = m /\ ~j.ai}}

ManualAssignees(m) ==
  {i.assignee : i \in {j \in actionItems : j.meeting = m /\ ~j.ai /\ j.assignee # Null}}

\* Mutant: aiGenerated is not part of the filter.
AiGenerated_All(C, m) == {c \in C : c.meeting = m}

AiGenerated(C, m) == {c \in C : c.meeting = m /\ c.ai}

FindManualAssignees(p) ==
  /\ Move(p, "ready", "kept")
  /\ keep' = [keep EXCEPT ![p] = ManualAssignees(target[p])]
  /\ UNCHANGED <<recordVars, target, answer, upsert, filed, aiResults, before>>

\* Mutant: keepIds filters the items too.
ClearItems_Keeping(p) ==
  /\ Move(p, "kept", "itemsCleared")
  /\ actionItems' = actionItems \
       {i \in AiGenerated(actionItems, target[p]) : i.assignee \notin keep[p]}
  /\ UNCHANGED <<meetingStatus, transcribed, attendees, edit,
                 target, keep, answer, upsert, filed, aiResults, before>>

ClearItems(p) ==
  /\ Move(p, "kept", "itemsCleared")
  /\ actionItems' = actionItems \ AiGenerated(actionItems, target[p])
  /\ UNCHANGED <<meetingStatus, transcribed, attendees, edit,
                 target, keep, answer, upsert, filed, aiResults, before>>

\* Mutant: keepIds is not used.
ClearAttendees_All(p) ==
  /\ Move(p, "itemsCleared", "cleared")
  /\ attendees' = attendees \ AiGenerated(attendees, target[p])
  /\ UNCHANGED <<meetingStatus, transcribed, actionItems, edit,
                 target, keep, answer, upsert, filed, aiResults, before>>

ClearAttendees(p) ==
  /\ Move(p, "itemsCleared", "cleared")
  /\ attendees' = attendees \ {a \in AiGenerated(attendees, target[p]) : a.id \notin keep[p]}
  /\ UNCHANGED <<meetingStatus, transcribed, actionItems, edit,
                 target, keep, answer, upsert, filed, aiResults, before>>

(***************************************************************************)
(* Status and model                                                        *)
(***************************************************************************)
\* updateStatus is an updateOne: a deleted meeting is not matched.
SetStatus(m, s) ==
  meetingStatus' = IF meetingStatus[m] = "GONE" THEN meetingStatus
                   ELSE [meetingStatus EXCEPT ![m] = s]

MarkProcessing(p) ==
  /\ Move(p, "cleared", "asking")
  /\ SetStatus(target[p], "PROCESSING")
  /\ UNCHANGED <<transcribed, attendees, actionItems, edit,
                 target, keep, answer, upsert, filed, aiResults, before>>

\* All upsertAttendee calls start at once; one without an e-mail goes straight
\* to the insert.
FirstStep(x) == IF x = Null THEN "creating" ELSE "finding"

ModelAnswers(p) ==
  \E r \in Responses :
    /\ Move(p, "asking", "upserting")
    /\ answer' = [answer EXCEPT ![p] = r]
    /\ upsert' = [upsert EXCEPT ![p] =
         [i \in 1..Len(r.attendees) |-> [step |-> FirstStep(r.attendees[i]), doc |-> Null]]]
    /\ UNCHANGED <<recordVars, target, keep, filed, aiResults, before>>

\* Mutant: an error of the model is not caught.
ModelFails_Uncaught(p) ==
  /\ "model" \in Faults
  /\ Move(p, "asking", "failed")
  /\ UNCHANGED <<recordVars, target, keep, answer, upsert, filed, aiResults, before>>

\* Unreachable, an error status, an empty body, text that does not parse.
ModelFails(p) ==
  /\ "model" \in Faults
  /\ Move(p, "asking", "failing")
  /\ UNCHANGED <<recordVars, target, keep, answer, upsert, filed, aiResults, before>>

(***************************************************************************)
(* upsertAttendee                                                          *)
(***************************************************************************)
Upserting(p, i, s) == Alive(p) /\ i \in DOMAIN upsert[p] /\ upsert[p][i].step = s
EmailOf(p, i) == answer[p].attendees[i]
SetTask(p, i, s, d) == upsert' = [upsert EXCEPT ![p][i] = [step |-> s, doc |-> d]]

\* Mutant: upsertAttendee does not look for the attendee.
FindByEmail_Skipped(p, i) ==
  /\ Upserting(p, i, "finding")
  /\ SetTask(p, i, "checking", Null)
  /\ UNCHANGED <<recordVars, at, target, keep, answer, filed, aiResults, before>>

\* An attendee that has the e-mail already is taken as it is.
FindByEmail(p, i) ==
  LET found == WithEmail(target[p], EmailOf(p, i)) IN
  /\ Upserting(p, i, "finding")
  /\ \/ found = {} /\ SetTask(p, i, "checking", Null)
     \/ \E a \in found : SetTask(p, i, "ok", a.id)
  /\ UNCHANGED <<recordVars, at, target, keep, answer, filed, aiResults, before>>

\* createAttendeeForVerifiedMeeting looks again before it inserts.
CheckDuplicate(p, i) ==
  /\ Upserting(p, i, "checking")
  /\ SetTask(p, i, IF WithEmail(target[p], EmailOf(p, i)) = {} THEN "creating" ELSE "failed", Null)
  /\ UNCHANGED <<recordVars, at, target, keep, answer, filed, aiResults, before>>

CreateAttendee(p, i) ==
  /\ Upserting(p, i, "creating")
  /\ attendees' = attendees \cup
       {[id |-> <<p, i>>, meeting |-> target[p], email |-> EmailOf(p, i), ai |-> TRUE]}
  /\ SetTask(p, i, "ok", <<p, i>>)
  /\ UNCHANGED <<meetingStatus, transcribed, actionItems, edit,
                 at, target, keep, answer, filed, aiResults, before>>

CreateAttendeeFails(p, i) ==
  /\ "attendee" \in Faults
  /\ Upserting(p, i, "creating")
  /\ SetTask(p, i, "failed", Null)
  /\ UNCHANGED <<recordVars, at, target, keep, answer, filed, aiResults, before>>

AttendeesReady(p) ==
  /\ \A i \in DOMAIN upsert[p] : upsert[p][i].step = "ok"
  /\ Move(p, "upserting", "filing")
  /\ filed' = [filed EXCEPT ![p] = [j \in 1..Len(answer[p].items) |-> "filing"]]
  /\ UNCHANGED <<recordVars, target, keep, answer, upsert, aiResults, before>>

\* Mutant: a rejected attendee is not caught.
AttendeesRejected_Uncaught(p) ==
  /\ \E i \in DOMAIN upsert[p] : upsert[p][i].step = "failed"
  /\ Move(p, "upserting", "failed")
  /\ UNCHANGED <<recordVars, target, keep, answer, upsert, filed, aiResults, before>>

AttendeesRejected(p) ==
  /\ \E i \in DOMAIN upsert[p] : upsert[p][i].step = "failed"
  /\ Move(p, "upserting", "failing")
  /\ UNCHANGED <<recordVars, target, keep, answer, upsert, filed, aiResults, before>>

(***************************************************************************)
(* Action items and results                                                *)
(***************************************************************************)
Filing(p, j) == Alive(p) /\ j \in DOMAIN filed[p] /\ filed[p][j] = "filing"
SetFiled(p, j, s) == filed' = [filed EXCEPT ![p][j] = s]

\* Mutant: every attendee of the answer is taken to be a new one.
MatchedAttendee_New(p, j) ==
  LET k == answer[p].items[j] IN IF k = 0 THEN Null ELSE <<p, k>>

\* The stored attendee the item's assignee matches, if any.
MatchedAttendee(p, j) ==
  LET k == answer[p].items[j] IN IF k = 0 THEN Null ELSE upsert[p][k].doc

FileItem(p, j) ==
  /\ Filing(p, j)
  /\ actionItems' = actionItems \cup
       {[id |-> <<p, j>>, meeting |-> target[p], assignee |-> MatchedAttendee(p, j), ai |-> TRUE]}
  /\ SetFiled(p, j, "filed")
  /\ UNCHANGED <<meetingStatus, transcribed, attendees, edit,
                 at, target, keep, answer, upsert, aiResults, before>>

FileItemFails(p, j) ==
  /\ "item" \in Faults
  /\ Filing(p, j)
  /\ SetFiled(p, j, "failed")
  /\ UNCHANGED <<recordVars, at, target, keep, answer, upsert, aiResults, before>>

ItemsFiled(p) ==
  /\ \A j \in DOMAIN filed[p] : filed[p][j] = "filed"
  /\ Move(p, "filing", "saving")
  /\ UNCHANGED <<recordVars, target, keep, answer, upsert, filed, aiResults, before>>

ItemsRejected(p) ==
  /\ \E j \in DOMAIN filed[p] : filed[p][j] = "failed"
  /\ Move(p, "filing", "failing")
  /\ UNCHANGED <<recordVars, target, keep, answer, upsert, filed, aiResults, before>>

SaveResults(p) ==
  /\ Move(p, "saving", "completing")
  /\ aiResults' = aiResults \cup {[id |-> p, meeting |-> target[p]]}
  /\ UNCHANGED <<recordVars, target, keep, answer, upsert, filed, before>>

\* Mutant: the error is swallowed.
SaveFails_Swallowed(p) ==
  /\ "results" \in Faults
  /\ Move(p, "saving", "completing")
  /\ UNCHANGED <<recordVars, target, keep, answer, upsert, filed, aiResults, before>>

SaveFails(p) ==
  /\ "results" \in Faults
  /\ Move(p, "saving", "failing")
  /\ UNCHANGED <<recordVars, target, keep, answer, upsert, filed, aiResults, before>>

Complete(p) ==
  /\ Move(p, "completing", "completed")
  /\ SetStatus(target[p], "COMPLETED")
  /\ UNCHANGED <<transcribed, attendees, actionItems, edit,
                 target, keep, answer, upsert, filed, aiResults, before>>

\* The write of COMPLETED is inside the try: when it is rejected, FAILED is written.
CompleteFails(p) ==
  /\ "status" \in Faults
  /\ Move(p, "completing", "failing")
  /\ UNCHANGED <<recordVars, target, keep, answer, upsert, filed, aiResults, before>>

Fail(p) ==
  /\ Move(p, "failing", "failed")
  /\ SetStatus(target[p], "FAILED")
  /\ UNCHANGED <<transcribed, attendees, actionItems, edit,
                 target, keep, answer, upsert, filed, aiResults, before>>

\* The write of FAILED is itself rejected: the status stays, the other tasks
\* of the generation go on.
FailFails(p) ==
  /\ "status" \in Faults
  /\ Move(p, "failing", "stuck")
  /\ UNCHANGED <<recordVars, target, keep, answer, upsert, filed, aiResults, before>>

\* The process dies: no handler writes FAILED.  A call rejected before the try
\* ends the request in the same way, with no task running yet.
Crash(p) ==
  /\ p \in Mortal /\ Running(p)
  /\ at' = [at EXCEPT ![p] = IF at[p] \in Window \cup {"stuck"} THEN "stranded" ELSE "aborted"]
  /\ UNCHANGED <<recordVars, target, keep, answer, upsert, filed, aiResults, before>>

(***************************************************************************)
(* Specification                                                           *)
(***************************************************************************)
AttendeeTask(p) ==
  \E i \in DOMAIN upsert[p] :
    FindByEmail(p, i) \/ CheckDuplicate(p, i) \/ CreateAttendee(p, i) \/ CreateAttendeeFails(p, i)

ItemTask(p) == \E j \in DOMAIN filed[p] : FileItem(p, j) \/ FileItemFails(p, j)

RunStep(p) ==
  \/ LoadTranscript(p) \/ FindManualAssignees(p) \/ ClearItems(p) \/ ClearAttendees(p)
  \/ MarkProcessing(p) \/ ModelAnswers(p) \/ ModelFails(p)
  \/ AttendeeTask(p) \/ AttendeesReady(p) \/ AttendeesRejected(p)
  \/ ItemTask(p) \/ ItemsFiled(p) \/ ItemsRejected(p)
  \/ SaveResults(p) \/ SaveFails(p)
  \/ Complete(p) \/ CompleteFails(p) \/ Fail(p) \/ FailFails(p)

UserEdit(e) ==
  /\ SoloEdits /\ edit[e].at = "idle" => \A p \in Requests : ~Open(p)
  /\ EditStep(e)
  /\ UNCHANGED runVars

Next ==
  \/ \E p \in Requests :
       \/ \E u \in Users, m \in Meetings : Generate(p, u, m)
       \/ RunStep(p)
       \/ Crash(p)
  \/ \E e \in Edits : UserEdit(e)

Spec == Init /\ [][Next]_vars

\* A handler that is not killed goes on: the event loop runs every ready
\* continuation, and fetch gives up by itself when the model does not answer.
Fairness == \A p \in Requests : WF_vars(RunStep(p))
FairSpec == Spec /\ Fairness
-------------------------------------------------------------------------------
(***************************************************************************)
(* Properties                                                              *)
(***************************************************************************)
\* Type invariant of the generations and of the results collection.
TypeOK ==
  /\ RecordsTypeOK
  /\ at \in [Requests -> {"idle"} \cup Clearing \cup Window \cup Ended]
  /\ target \in [Requests -> Meetings \cup {Null}]
  /\ keep \in [Requests -> SUBSET DocId]
  /\ answer \in [Requests -> Response]
  /\ upsert \in [Requests -> Seq(Task)]
  /\ filed \in [Requests -> Seq({"filing", "filed", "failed"})]
  /\ aiResults \subseteq Result
  /\ before \in [Requests -> SUBSET Requests]

\* A meeting is PROCESSING only while a generation of it is between its two
\* status writes, or after one died there or had its write of FAILED rejected:
\* no interleaving of generations, edits and deletions leaves the status behind
\* (ai.service.ts:105-112).
StatusExplained ==
  \A m \in Meetings : meetingStatus[m] = "PROCESSING" =>
    \E p \in Requests : target[p] = m /\ at[p] \in Window \cup {"stranded", "stuck"}

\* A meeting says COMPLETED only when getAIResults has something to return:
\* the results are saved before the status is (ai.service.ts:108-109, 258).
CompletedHasResults ==
  \A m \in Meetings : meetingStatus[m] = "COMPLETED" => \E r \in aiResults : r.meeting = m

\* What a generation clears stays cleared.  Whatever a generation made that was
\* at rest - answered, or dead, and no task of it running - when this one was
\* sent, is gone for good once this one has passed its deletions, whatever runs
\* at the same time; of its attendees only those kept for a manual item are left
\* (ai.service.ts:122-126; README.md:19).  A failed generation is at rest only
\* when its last task is: what it inserts later is not wiped.
Past(p, stages) == at[p] \in stages \cup Window \cup {"completed", "failed", "stuck", "stranded"}
Made(C, m, p) == {c \in C : c.meeting = m /\ c.id[1] = p}

RegenerationWipes ==
  \A p \in Requests : \A q \in before[p] :
    /\ Past(p, {"itemsCleared", "cleared"}) => Made(actionItems, target[p], q) = {}
    /\ Past(p, {"cleared"}) => Ids(Made(attendees, target[p], q)) \subseteq keep[p]

\* No step of a generation removes or changes a record that is not AI-made
\* (README.md:19).
Manual == {a \in attendees : ~a.ai} \cup {i \in actionItems : ~i.ai}
ManualRecordsKept == [][edit' = edit => Manual \subseteq Manual']_vars

\* No step of a generation removes the attendee a manual item of the same
\* meeting is assigned to: what keepIds is for (ai.service.ts:123; README.md:19).
\* An item of another meeting keeps nobody: keepIds is collected per meeting
\* (action-items.service.ts:167).
ManualAssigneesKept ==
  [][edit' = edit =>
       \A i \in actionItems, a \in attendees :
         ~i.ai /\ i.assignee = a.id /\ i.meeting = a.meeting
           => a.id \in Ids(attendees)']_vars

\* What the code files is assigned within the meeting: an item a generation made
\* names an attendee of that generation's meeting, found there by e-mail or
\* made for it (ai.service.ts:244-256), until a user reassigns it.
Reassigned(d) == \E e \in Edits : edit[e].op = "updateActionItem" /\ edit[e].doc = d
FiledWithinMeeting ==
  \A i \in actionItems, a \in attendees :
    i.id[1] \in Requests /\ i.assignee = a.id /\ ~Reassigned(i.id) => i.meeting = a.meeting

\* With one request at a time, a COMPLETED meeting shows one whole generation,
\* the last that completed: its items are all of the answer's, each assigned to
\* nobody, to an attendee that exists or to whom a user reassigned it, and every
\* attendee of its answer is there.  No other completed generation, and no other
\* that was at rest when this one was sent, has left anything but attendees kept
\* for a manual item; what else is there is of failed generations whose tasks
\* outlived their answer.
AllQuiet == Quiet /\ \A p \in Requests : ~Running(p)
Leftovers(p, q) ==
  Made(actionItems, target[p], q)
    \cup {a \in Made(attendees, target[p], q) : a.id \notin keep[p]}

ShowsWhole(p) ==
  /\ Ids(Made(actionItems, target[p], p)) = {<<p, j>> : j \in DOMAIN answer[p].items}
  /\ \A i \in Made(actionItems, target[p], p) :
       Reassigned(i.id) \/ i.assignee \in Ids(attendees) \cup {Null}
  /\ \A i \in DOMAIN upsert[p] : upsert[p][i].doc \in Ids(attendees)

CompletedIsWhole ==
  AllQuiet => \A m \in Meetings : meetingStatus[m] = "COMPLETED" =>
    \E p \in Requests :
      /\ at[p] = "completed" /\ target[p] = m
      /\ ShowsWhole(p)
      /\ \A q \in Requests \ {p} : at[q] = "completed" /\ target[q] = m => q \in before[p]
      /\ \A q \in before[p] : Leftovers(p, q) = {}

\* What a generation finds in the database does not fail it: an attendee whose
\* e-mail is there already is merged, and only a failing insert rejects a task
\* (README.md:18; ai.service.ts:278-287).
FailsOnlyOnFault ==
  "attendee" \notin Faults =>
    \A p \in Requests : \A i \in DOMAIN upsert[p] : upsert[p][i].step # "failed"

\* For clients that await their generation, the status follows the lifecycle of
\* MeetingLifecycle, with the generation between its two status writes as the
\* job; a generation on a deleted meeting changes nothing.
WorkingOn(m) == {p \in Requests : target[p] = m /\ at[p] \in Window \cup {"stranded", "stuck"}}
JobOf == [m \in Meetings |->
            IF meetingStatus[m] = "GONE" \/ WorkingOn(m) = {} THEN Null
            ELSE CHOOSE p \in WorkingOn(m) : TRUE]
Lifecycle == INSTANCE MeetingLifecycle
               WITH Jobs <- Requests, NoJob <- Null, status <- meetingStatus, job <- JobOf
LifecycleSpec == Lifecycle!Spec

\* PROCESSING ends, unless a generation of that meeting died within its window
\* or had its write of FAILED rejected (ai.service.ts:107-112).
Left(m) == \E p \in Requests : target[p] = m /\ at[p] \in {"stranded", "stuck"}
ProcessingEnds ==
  \A m \in Meetings :
    meetingStatus[m] = "PROCESSING" ~> meetingStatus[m] # "PROCESSING" \/ Left(m)

(***************************************************************************)
(* What the repository says and the code does not do: each is violated.    *)
(***************************************************************************)
\* "AI results are already being generated for this meeting." refuses a second
\* generation while one runs (ai.service.ts:97-98).
OneGenerationAtATime ==
  \A p, q \in Requests :
    target[p] = target[q] /\ at[p] \in Window /\ at[q] \in Window => p = q

\* Regenerating preserves anything a user reassigned by hand (README.md:19).
ReassignedItemsKept ==
  [][edit' = edit =>
       \A e \in Edits : edit[e].op = "updateActionItem" /\ edit[e].at = "done"
                          /\ edit[e].doc \in Ids(actionItems)
         => edit[e].doc \in Ids(actionItems)']_vars

===============================================================================
