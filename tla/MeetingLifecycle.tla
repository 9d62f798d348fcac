--------------------------- MODULE MeetingLifecycle ---------------------------
(***************************************************************************)
(* What the status of a meeting promises its owner:                        *)
(*   PENDING -> PROCESSING -> COMPLETED / FAILED, and again PROCESSING,    *)
(* until the meeting is deleted.  A meeting is PROCESSING exactly while    *)
(* one job works on it, and only that job ends it.  There is no crash      *)
(* here: a job that dies is a job that has not ended.                      *)
(***************************************************************************)
CONSTANTS Meetings, Jobs, NoJob

VARIABLES status, job

lifecycleVars == <<status, job>>

Init ==
  /\ status = [m \in Meetings |-> "PENDING"]
  /\ job = [m \in Meetings |-> NoJob]

Begin(m, j) ==
  /\ status[m] \in {"PENDING", "COMPLETED", "FAILED"}
  /\ status' = [status EXCEPT ![m] = "PROCESSING"]
  /\ job' = [job EXCEPT ![m] = j]

End(m, s) ==
  /\ status[m] = "PROCESSING"
  /\ status' = [status EXCEPT ![m] = s]
  /\ job' = [job EXCEPT ![m] = NoJob]

Delete(m) ==
  /\ status' = [status EXCEPT ![m] = "GONE"]
  /\ job' = [job EXCEPT ![m] = NoJob]

Next ==
  \E m \in Meetings :
    \/ \E j \in Jobs : Begin(m, j)
    \/ \E s \in {"COMPLETED", "FAILED"} : End(m, s)
    \/ Delete(m)

Spec == Init /\ [][Next]_lifecycleVars
===============================================================================
