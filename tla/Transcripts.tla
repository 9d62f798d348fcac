------------------------------ MODULE Transcripts ------------------------------
(***************************************************************************)
(* The transcript versions of one meeting (meetings.service.ts): created   *)
(* with the meeting, uploaded, selected, read by the AI processing and     *)
(* deleted with the meeting.                                               *)
(*                                                                         *)
(* Which version is active is a flag on each version.  Uploading and       *)
(* selecting first clear the flag on every version and then set it on one, *)
(* in two calls; a reader that finds no flag takes the newest version.     *)
(***************************************************************************)
EXTENDS Naturals, FiniteSets

CONSTANTS
  Requests,     \* requests that write; an uploaded version is named after its request
  Readers,      \* requests that read the active version, once each
  Operations,   \* what the requests may ask for
  Serial,       \* TRUE: a request is sent only when all others were answered
  Reselect,     \* TRUE: clients may select a version that is already active
  Mortal,       \* requests that may die between two calls
  Null

ASSUME TranscriptsAssumption ==
  /\ Operations \subseteq {"create", "upload", "select", "delete"}
  /\ Serial \in BOOLEAN /\ Reselect \in BOOLEAN
  /\ Null \notin Requests \cup {"create", "upload", "select", "delete"}

VARIABLES
  meeting,      \* "none", "stored" or "deleted"
  versions,     \* the transcripts collection
  clock,        \* orders createdAt: no two versions are created at the same instant
  request,      \* what each request awaits and holds
  read,         \* what each reader awaits and got
  wanted,       \* history: the version the last finished request asked for
  last          \* history: the request sent last

vars == <<meeting, versions, clock, request, read, wanted, last>>

Version == [id : Requests, createdAt : Nat, isActive : BOOLEAN]

Request == [at : {"idle", "scoping", "clearing", "inserting", "saving", "removing", "trimming",
                  "done", "refused", "lost"},
            op : {"create", "upload", "select", "delete", Null},
            version : Requests \cup {Null},   \* the version to create or to select
            loaded : BOOLEAN,                 \* isActive when it was loaded
            stamp : Nat,
            alone : BOOLEAN]                  \* history: no other request overlapped

Init ==
  /\ meeting = "none"
  /\ versions = {}
  /\ clock = 0
  /\ request = [r \in Requests |-> [at |-> "idle", op |-> Null, version |-> Null,
                                    loaded |-> FALSE, stamp |-> 0, alone |-> TRUE]]
  /\ read = [p \in Readers |-> [at |-> "idle", got |-> Null, valid |-> {}]]
  /\ wanted = Null
  /\ last = Null

Open(r) == request[r].at \notin {"idle", "done", "refused", "lost"}
Quiet == \A r \in Requests : ~Open(r)
Active == {v \in versions : v.isActive}

\* Mutant: sorted the other way round.
Newest_Oldest == {v \in versions : \A w \in versions : w.createdAt >= v.createdAt}

Newest == {v \in versions : \A w \in versions : w.createdAt <= v.createdAt}
\* findTranscriptByMeetingId, asked at one instant.
Shown == IF Active # {} THEN Active ELSE Newest

Begin(r, op, where, v, flag, t) ==
  /\ request[r].at = "idle"
  /\ op \in Operations
  /\ Serial => Quiet
  /\ request' = [s \in Requests |->
       IF s = r THEN [at |-> where, op |-> op, version |-> v, loaded |-> flag,
                      stamp |-> t, alone |-> Quiet]
       ELSE IF Open(s) THEN [request[s] EXCEPT !.alone = FALSE]
       ELSE request[s]]
  /\ last' = r
  /\ read' = [p \in Readers |->
       IF read[p].at = "fallback" THEN [read[p] EXCEPT !.valid = @ \cup {v}] ELSE read[p]]

Goto(r, where) == request' = [request EXCEPT ![r].at = where]

(***************************************************************************)
(* Writers                                                                 *)
(***************************************************************************)
\* createMeeting stores the meeting, and then the transcript if there is one.
CreateMeeting(r) ==
  /\ meeting = "none"
  /\ meeting' = "stored"
  /\ \/ Begin(r, "create", "done", Null, FALSE, 0) /\ UNCHANGED clock
     \/ /\ Begin(r, "create", "inserting", r, FALSE, clock + 1)
        /\ clock' = clock + 1
  /\ UNCHANGED <<versions, wanted>>

\* setTranscript: findMeeting.
SetTranscript(r) ==
  /\ Begin(r, "upload", IF meeting = "stored" THEN "clearing" ELSE "refused", r, FALSE, 0)
  /\ UNCHANGED <<meeting, versions, clock, wanted>>

\* selectTranscriptVersion: findById, then findMeeting.
SelectTranscriptVersion(r) ==
  /\ \E v \in versions :
       /\ Reselect \/ ~v.isActive
       /\ Begin(r, "select", "scoping", v.id, v.isActive, 0)
  /\ UNCHANGED <<meeting, versions, clock, wanted>>

ScopeSelection(r) ==
  /\ request[r].at = "scoping"
  /\ Goto(r, IF meeting = "stored" THEN "clearing" ELSE "refused")
  /\ UNCHANGED <<meeting, versions, clock, read, wanted, last>>

\* Mutants: nothing is cleared; updateOne clears one; the active one is deleted.
Inactive_Not(V) == V
Inactive_One(V) ==
  IF \E v \in V : v.isActive
  THEN LET v == CHOOSE w \in V : w.isActive
       IN (V \ {v}) \cup {[v EXCEPT !.isActive = FALSE]}
  ELSE V
Inactive_Deleted(V) == {v \in V : ~v.isActive}

\* updateMany: every version becomes inactive.
Inactive(V) == {[v EXCEPT !.isActive = FALSE] : v \in V}

ClearActive(r) ==
  /\ request[r].at = "clearing"
  /\ versions' = Inactive(versions)
  /\ IF request[r].op = "upload"
     THEN /\ clock' = clock + 1
          /\ request' = [request EXCEPT ![r].at = "inserting", ![r].stamp = clock + 1]
     ELSE Goto(r, "saving") /\ UNCHANGED clock
  /\ UNCHANGED <<meeting, read, wanted, last>>

InsertVersion(r) ==
  /\ request[r].at = "inserting"
  /\ versions' = versions \cup {[id |-> r, createdAt |-> request[r].stamp, isActive |-> TRUE]}
  /\ wanted' = r
  /\ Goto(r, "done")
  /\ UNCHANGED <<meeting, clock, read, last>>

\* Mutant: the flag is set on the loaded copy and not stored.
Activated_Unsaved(V, d) == V

\* save() sends only what changed since the version was loaded: nothing, when
\* it was active then.
Activated(V, d) == {IF v.id = d THEN [v EXCEPT !.isActive = TRUE] ELSE v : v \in V}

SaveSelection(r) ==
  LET q == request[r] IN
  /\ q.at = "saving"
  /\ versions' = IF q.loaded THEN versions ELSE Activated(versions, q.version)
  /\ wanted' = q.version
  /\ Goto(r, IF \E v \in versions : v.id = q.version THEN "done" ELSE "refused")
  /\ UNCHANGED <<meeting, clock, read, last>>

DeleteMeeting(r) ==
  /\ Begin(r, "delete", IF meeting = "stored" THEN "removing" ELSE "refused", Null, FALSE, 0)
  /\ UNCHANGED <<meeting, versions, clock, wanted>>

RemoveMeeting(r) ==
  /\ request[r].at = "removing"
  /\ meeting' = "deleted"
  /\ Goto(r, "trimming")
  /\ UNCHANGED <<versions, clock, read, wanted, last>>

RemoveVersions(r) ==
  /\ request[r].at = "trimming"
  /\ versions' = {}
  /\ wanted' = Null
  /\ Goto(r, "done")
  /\ UNCHANGED <<meeting, clock, read, last>>

Lose(r) ==
  /\ r \in Mortal /\ Open(r)
  /\ Goto(r, "lost")
  /\ UNCHANGED <<meeting, versions, clock, read, wanted, last>>

(***************************************************************************)
(* Readers                                                                 *)
(***************************************************************************)
\* valid is history: the versions a read may return, which are the one wanted
\* when it started and those requested since or at that time.
Reading(where, v) ==
  [at |-> where, got |-> v,
   valid |-> {wanted} \cup {request[r].version : r \in {s \in Requests : Open(s)}}]

FindActive(p) ==
  /\ read[p].at = "idle"
  /\ \/ \E v \in Active :
          read' = [read EXCEPT ![p] = Reading("done", v.id)]
     \/ /\ Active = {}
        /\ read' = [read EXCEPT ![p] = Reading("fallback", Null)]
  /\ UNCHANGED <<meeting, versions, clock, request, wanted, last>>

FindNewest(p) ==
  /\ read[p].at = "fallback"
  /\ \/ \E v \in Newest : read' = [read EXCEPT ![p].at = "done", ![p].got = v.id]
     \/ versions = {} /\ read' = [read EXCEPT ![p].at = "done"]
  /\ UNCHANGED <<meeting, versions, clock, request, wanted, last>>

(***************************************************************************)
(* Specification                                                           *)
(***************************************************************************)
Step(r) ==
  \/ CreateMeeting(r) \/ SetTranscript(r) \/ SelectTranscriptVersion(r) \/ DeleteMeeting(r)
  \/ ScopeSelection(r) \/ ClearActive(r) \/ InsertVersion(r) \/ SaveSelection(r)
  \/ RemoveMeeting(r) \/ RemoveVersions(r) \/ Lose(r)

Next ==
  \/ \E r \in Requests : Step(r)
  \/ \E p \in Readers : FindActive(p) \/ FindNewest(p)

Spec == Init /\ [][Next]_vars
-------------------------------------------------------------------------------
(***************************************************************************)
(* Properties                                                              *)
(***************************************************************************)
\* Type invariant.
TypeOK ==
  /\ meeting \in {"none", "stored", "deleted"}
  /\ versions \subseteq Version
  /\ clock \in Nat
  /\ request \in [Requests -> Request]
  /\ read \in [Readers -> [at : {"idle", "fallback", "done"}, got : Requests \cup {Null},
                           valid : SUBSET (Requests \cup {Null})]]
  /\ {wanted, last} \subseteq Requests \cup {Null}

\* Between requests that did not overlap, the version shown is the one last
\* uploaded or selected, through any sequence of creations, uploads and
\* selections (README.md:13).
NoneLost == \A r \in Requests : request[r].at # "lost"
NoneOverlapped == \A r \in Requests : request[r].alone
LastChoiceShown ==
  Quiet /\ NoneLost /\ NoneOverlapped /\ meeting = "stored"
    => {v.id : v \in Shown} = {wanted} \ {Null}

\* The same, unless a version was selected that was active already.
NewChoiceShown ==
  (\A r \in Requests : ~(request[r].op = "select" /\ request[r].loaded)) => LastChoiceShown

\* At most one version is active while no two requests overlap, wherever they
\* die (meetings.service.ts:162-171, 180-182).
AtMostOneActive ==
  NoneOverlapped => Cardinality(Active) <= 1

\* Whatever overlapping and dying requests left behind, the next upload, or the
\* next selection of an inactive version, that meets no other request leaves its
\* version active and no other (meetings.service.ts:162-171, 180-182).
Chose(r) == request[r].op = "upload" \/ (request[r].op = "select" /\ ~request[r].loaded)
SoloChoiceHeals ==
  \A r \in Requests :
    last = r /\ request[r].at = "done" /\ request[r].alone /\ Chose(r)
      => {v.id : v \in Active} = {request[r].version}

\* A version survives every upload and selection: what a request adds or
\* activates costs no other version (README.md:13).
VersionsKept ==
  [][meeting = "stored" => {v.id : v \in versions} \subseteq {v.id : v \in versions}']_vars

\* While versions are uploaded one after the other and none is selected, a reader gets the version
\* that was active when it started or one that was being uploaded while it read:
\* in the gap of an upload the newest version is the one that was active
\* (README.md:17; meetings.service.ts:140-150).
ReadsAreAsked ==
  NoneLost /\ NoneOverlapped /\ (\A r \in Requests : request[r].op # "select") =>
    \A p \in Readers : read[p].at = "done" => read[p].got \in read[p].valid \cup {Null}
===============================================================================
