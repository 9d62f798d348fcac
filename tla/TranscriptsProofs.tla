--------------------------- MODULE TranscriptsProofs --------------------------
(***************************************************************************)
(* Proofs about Transcripts, for every set of requests and readers: type   *)
(* correctness, which versions are kept, how many are active, which one is *)
(* shown, what heals a bad choice, and what a reader gets meanwhile.       *)
(***************************************************************************)
EXTENDS Transcripts, FiniteSetTheorems, TLAPS

Stages == {"idle", "scoping", "clearing", "inserting", "saving", "removing", "trimming",
           "done", "refused", "lost"}
ReadState == [at : {"idle", "fallback", "done"}, got : Requests \cup {Null},
              valid : SUBSET (Requests \cup {Null})]

LEMMA GotoShape ==
  ASSUME TypeOK, NEW r \in Requests, NEW s \in Stages, Goto(r, s)
  PROVE  request' \in [Requests -> Request]
BY DEF TypeOK, Goto, Request, Stages

\* Sending a request.
LEMMA BeginShape ==
  ASSUME TypeOK, NEW r \in Requests, NEW op \in {"create", "upload", "select", "delete"},
         NEW s \in Stages, NEW v \in Requests \cup {Null}, NEW f \in BOOLEAN, NEW t \in Nat,
         Begin(r, op, s, v, f, t)
  PROVE  /\ request' \in [Requests -> Request]
         /\ read' \in [Readers -> ReadState]
         /\ last' \in Requests
<1>1. Quiet \in BOOLEAN  BY ZenonT(20) DEF Quiet
<1>2. [at |-> s, op |-> op, version |-> v, loaded |-> f, stamp |-> t, alone |-> Quiet] \in Request
  BY <1>1 DEF Request, Stages
<1>3. ASSUME NEW q \in Requests PROVE [request[q] EXCEPT !.alone = FALSE] \in Request
  <2>1. request[q] \in Request  BY DEF TypeOK
  <2> QED  BY <2>1 DEF Request
<1> DEFINE sent == [at |-> s, op |-> op, version |-> v, loaded |-> f, stamp |-> t, alone |-> Quiet]
           other(q) == [request[q] EXCEPT !.alone = FALSE]
<1>a. request' = [q \in Requests |-> IF q = r THEN sent
                                      ELSE IF Open(q) THEN other(q) ELSE request[q]]
  BY DEF Begin
<1>b. sent \in Request /\ \A q \in Requests : other(q) \in Request /\ request[q] \in Request
  BY <1>2, <1>3 DEF TypeOK
<1> HIDE DEF sent, other
<1>4. request' \in [Requests -> Request]  BY <1>a, <1>b
<1>5. ASSUME NEW p \in Readers PROVE [read[p] EXCEPT !.valid = read[p].valid \cup {v}] \in ReadState
  BY DEF TypeOK, ReadState
<1>6. read' \in [Readers -> ReadState]  BY <1>5 DEF Begin, TypeOK, ReadState
<1> QED  BY <1>4, <1>6 DEF Begin

LEMMA BeginTyped ==
  ASSUME TypeOK, NEW r \in Requests, NEW op \in {"create", "upload", "select", "delete"},
         NEW s \in Stages, NEW v \in Requests \cup {Null}, NEW f \in BOOLEAN, NEW t \in Nat,
         Begin(r, op, s, v, f, t), UNCHANGED <<versions, wanted>>,
         meeting' \in {"none", "stored", "deleted"}, clock' \in Nat
  PROVE  TypeOK'
BY BeginShape DEF TypeOK, ReadState

LEMMA WritersTyped ==
  ASSUME TypeOK, NEW r \in Requests, Step(r)
  PROVE  TypeOK'
<1>1. CASE CreateMeeting(r)
  <2>1. meeting' = "stored" /\ clock \in Nat /\ clock + 1 \in Nat /\ UNCHANGED <<versions, wanted>>
    BY <1>1 DEF CreateMeeting, TypeOK
  <2>2. CASE Begin(r, "create", "done", Null, FALSE, 0) /\ UNCHANGED clock
    <3>1. clock' \in Nat  BY <2>1, <2>2
    <3> QED  BY <2>1, <2>2, <3>1, BeginTyped DEF Stages
  <2>3. CASE Begin(r, "create", "inserting", r, FALSE, clock + 1) /\ clock' = clock + 1
    <3>1. clock' \in Nat  BY <2>1, <2>3
    <3> QED  BY <2>1, <2>3, <3>1, BeginTyped DEF Stages
  <2> QED  BY <1>1, <2>2, <2>3 DEF CreateMeeting
<1>2. CASE SetTranscript(r)
  <2> DEFINE s == IF meeting = "stored" THEN "clearing" ELSE "refused"
  <2>1. s \in Stages  BY DEF Stages
  <2>2. Begin(r, "upload", s, r, FALSE, 0) /\ UNCHANGED <<meeting, versions, clock, wanted>>
    BY <1>2 DEF SetTranscript
  <2> HIDE DEF s
  <2> QED  BY <2>1, <2>2, BeginTyped DEF TypeOK
<1>3. CASE SelectTranscriptVersion(r)
  <2>1. PICK v \in versions : Begin(r, "select", "scoping", v.id, v.isActive, 0)
    BY <1>3 DEF SelectTranscriptVersion
  <2>2. v.id \in Requests \cup {Null} /\ v.isActive \in BOOLEAN  BY DEF TypeOK, Version
  <2>3. UNCHANGED <<meeting, versions, clock, wanted>>  BY <1>3 DEF SelectTranscriptVersion
  <2>4. meeting' \in {"none", "stored", "deleted"} /\ clock' \in Nat  BY <2>3 DEF TypeOK
  <2>5. "scoping" \in Stages  BY DEF Stages
  <2> QED  BY <2>1, <2>2, <2>3, <2>4, <2>5, BeginTyped
<1>4. CASE DeleteMeeting(r)
  <2> DEFINE s == IF meeting = "stored" THEN "removing" ELSE "refused"
  <2>1. s \in Stages  BY DEF Stages
  <2>2. Begin(r, "delete", s, Null, FALSE, 0) /\ UNCHANGED <<meeting, versions, clock, wanted>>
    BY <1>4 DEF DeleteMeeting
  <2> HIDE DEF s
  <2> QED  BY <2>1, <2>2, BeginTyped DEF TypeOK
<1>5. CASE ScopeSelection(r) \/ RemoveMeeting(r) \/ RemoveVersions(r) \/ Lose(r)
  <2>1. \E s \in Stages : Goto(r, s)
    BY <1>5 DEF ScopeSelection, RemoveMeeting, RemoveVersions, Lose, Stages
  <2>2. request' \in [Requests -> Request]  BY <2>1, GotoShape
  <2> QED  BY <1>5, <2>2 DEF ScopeSelection, RemoveMeeting, RemoveVersions, Lose, TypeOK
<1>6. CASE ClearActive(r)
  <2>1. Inactive(versions) \subseteq Version  BY DEF Inactive, TypeOK, Version
  <2>2. clock' \in Nat  BY <1>6 DEF ClearActive, TypeOK
  <2>3. request' \in [Requests -> Request]
    <3>1. CASE Goto(r, "saving")  BY <3>1, GotoShape DEF Stages
    <3>2. CASE request' = [request EXCEPT ![r].at = "inserting", ![r].stamp = clock + 1]
      <4>1. request[r] \in Request /\ clock + 1 \in Nat  BY DEF TypeOK
      <4>2. [request[r] EXCEPT !.at = "inserting", !.stamp = clock + 1] \in Request
        BY <4>1 DEF Request
      <4> QED  BY <3>2, <4>2 DEF TypeOK
    <3> QED  BY <1>6, <3>1, <3>2 DEF ClearActive
  <2> QED  BY <1>6, <2>1, <2>2, <2>3 DEF ClearActive, TypeOK
<1>7. CASE InsertVersion(r)
  <2>1. [id |-> r, createdAt |-> request[r].stamp, isActive |-> TRUE] \in Version
    BY DEF TypeOK, Request, Version
  <2>2. request' \in [Requests -> Request]  BY <1>7, GotoShape DEF InsertVersion, Stages
  <2> QED  BY <1>7, <2>1, <2>2 DEF InsertVersion, TypeOK
<1>8. CASE SaveSelection(r)
  <2>1. Activated(versions, request[r].version) \subseteq Version
    BY DEF Activated, TypeOK, Version
  <2>2. \E s \in Stages : Goto(r, s)  BY <1>8 DEF SaveSelection, Stages
  <2>3. request' \in [Requests -> Request]  BY <2>2, GotoShape
  <2>4. request[r].version \in Requests \cup {Null}  BY DEF TypeOK, Request
  <2> QED  BY <1>8, <2>1, <2>3, <2>4 DEF SaveSelection, TypeOK
<1> QED  BY <1>1, <1>2, <1>3, <1>4, <1>5, <1>6, <1>7, <1>8 DEF Step

LEMMA ReadersTyped ==
  ASSUME TypeOK, NEW p \in Readers, FindActive(p) \/ FindNewest(p)
  PROVE  TypeOK'
<1>1. ASSUME NEW s \in {"done", "fallback"}, NEW v \in Requests \cup {Null}
      PROVE  Reading(s, v) \in ReadState
  <2>1. \A r \in Requests : request[r].version \in Requests \cup {Null}  BY DEF TypeOK, Request
  <2> QED  BY <2>1 DEF Reading, ReadState, TypeOK
<1>2. \A v \in Active \cup Newest : v.id \in Requests  BY DEF Active, Newest, TypeOK, Version
<1>3. read' \in [Readers -> ReadState]
  <2>1. CASE FindActive(p)  BY <1>1, <1>2, <2>1 DEF FindActive, TypeOK, ReadState
  <2>2. CASE FindNewest(p)  BY <1>2, <2>2 DEF FindNewest, TypeOK, ReadState
  <2> QED  BY <2>1, <2>2
<1> QED  BY <1>3 DEF FindActive, FindNewest, TypeOK, ReadState

\* Type correctness: the versions, the requests and the readers keep their types,
\* whether requests overlap, select active versions or die, or not.
THEOREM TranscriptsTyped == Spec => []TypeOK
<1>1. Init => TypeOK  BY DEF Init, TypeOK, Request
<1>2. TypeOK /\ [Next]_vars => TypeOK'
  <2>1. TypeOK /\ UNCHANGED vars => TypeOK'  BY DEF TypeOK, vars
  <2> QED  BY <2>1, WritersTyped, ReadersTyped DEF Next
<1> QED  BY <1>1, <1>2, PTL DEF Spec
-------------------------------------------------------------------------------
(***************************************************************************)
(* What a step does to the requests and to the versions.                   *)
(***************************************************************************)
Ids(V) == {v.id : v \in V}
Cleared(r) == request[r].at \in {"inserting", "saving"}

\* The request that is sent is new; every other one that is open has company now.
Sent(r, op, s, v, f, t) ==
  /\ request[r].at = "idle" /\ last' = r
  /\ request'[r].at = s /\ request'[r].op = op /\ request'[r].version = v
  /\ request'[r].loaded = f /\ request'[r].stamp = t /\ request'[r].alone = Quiet
  /\ \A q \in Requests \ {r} :
       /\ request'[q].at = request[q].at /\ request'[q].op = request[q].op
       /\ request'[q].version = request[q].version /\ request'[q].loaded = request[q].loaded
       /\ request'[q].stamp = request[q].stamp
       /\ request'[q].alone => request[q].alone /\ ~Open(q)
       /\ ~Open(q) => request'[q] = request[q]
  /\ UNCHANGED <<versions, wanted>>
  /\ s \in {"done", "refused", "inserting", "clearing", "scoping", "removing"}
  /\ s = "done" => op = "create"
  /\ s = "inserting" => op = "create" /\ v = r /\ t = clock + 1 /\ clock' = t
  /\ s # "inserting" => UNCHANGED clock
  /\ s = "clearing" => op = "upload" /\ meeting = "stored"
  /\ s = "removing" => op = "delete" /\ meeting = "stored"
  /\ s = "scoping" <=> op = "select"
  /\ s = "scoping" => \E w \in versions : v = w.id /\ f = w.isActive
  /\ op = "upload" => v = r
  /\ op = "create" => meeting = "none" /\ meeting' = "stored"
  /\ op # "create" => UNCHANGED meeting

\* A request that goes on to another call keeps what it asked for.
Moved(r, s) ==
  /\ Open(r) /\ request'[r].at = s /\ request'[r].op = request[r].op
  /\ request'[r].version = request[r].version /\ request'[r].loaded = request[r].loaded
  /\ request'[r].alone = request[r].alone
  /\ \A q \in Requests \ {r} : request'[q] = request[q]
  /\ UNCHANGED <<read, last>>

LEMMA BeginEffect ==
  ASSUME TypeOK, NEW r \in Requests, NEW op, NEW s, NEW v, NEW f, NEW t, Begin(r, op, s, v, f, t)
  PROVE  /\ request[r].at = "idle" /\ last' = r
         /\ request'[r].at = s /\ request'[r].op = op /\ request'[r].version = v
         /\ request'[r].loaded = f /\ request'[r].stamp = t /\ request'[r].alone = Quiet
         /\ \A q \in Requests \ {r} :
              /\ request'[q].at = request[q].at /\ request'[q].op = request[q].op
              /\ request'[q].version = request[q].version /\ request'[q].loaded = request[q].loaded
              /\ request'[q].stamp = request[q].stamp
              /\ request'[q].alone => request[q].alone /\ ~Open(q)
              /\ ~Open(q) => request'[q] = request[q]
<1> DEFINE sent == [at |-> s, op |-> op, version |-> v, loaded |-> f, stamp |-> t, alone |-> Quiet]
           met(q) == [request[q] EXCEPT !.alone = FALSE]
<1>1. request' = [q \in Requests |-> IF q = r THEN sent
                                     ELSE IF Open(q) THEN met(q) ELSE request[q]]
  BY DEF Begin
<1>2. /\ sent.at = s /\ sent.op = op /\ sent.version = v
      /\ sent.loaded = f /\ sent.stamp = t /\ sent.alone = Quiet
  OBVIOUS
<1>3. \A q \in Requests :
        /\ met(q).at = request[q].at /\ met(q).op = request[q].op
        /\ met(q).version = request[q].version /\ met(q).loaded = request[q].loaded
        /\ met(q).stamp = request[q].stamp /\ ~met(q).alone
  BY DEF TypeOK, Request
<1> HIDE DEF sent, met
<1>4. request'[r] = sent  BY <1>1
<1>5. \A q \in Requests \ {r} : request'[q] = IF Open(q) THEN met(q) ELSE request[q]
  BY <1>1
<1>6. ASSUME NEW q \in Requests \ {r}
      PROVE  /\ request'[q].at = request[q].at /\ request'[q].op = request[q].op
             /\ request'[q].version = request[q].version /\ request'[q].loaded = request[q].loaded
             /\ request'[q].stamp = request[q].stamp
             /\ request'[q].alone => request[q].alone /\ ~Open(q)
             /\ ~Open(q) => request'[q] = request[q]
  <2>1. CASE Open(q)
    <3>1. request'[q] = met(q)  BY <1>5, <2>1
    <3> QED  BY <2>1, <3>1, <1>3
  <2>2. CASE ~Open(q)
    <3>1. request'[q] = request[q]  BY <1>5, <2>2
    <3> QED  BY <3>1, <2>2
  <2> QED  BY <2>1, <2>2
<1>7. request[r].at = "idle" /\ last' = r  BY DEF Begin
<1> HIDE DEF Begin
<1> QED  BY <1>2, <1>4, <1>6, <1>7

LEMMA SendEffect ==
  ASSUME TypeOK, NEW r \in Requests,
         CreateMeeting(r) \/ SetTranscript(r) \/ SelectTranscriptVersion(r) \/ DeleteMeeting(r)
  PROVE  \E op, s, v, f, t : Begin(r, op, s, v, f, t) /\ Sent(r, op, s, v, f, t)
<1>1. CASE CreateMeeting(r)
  <2>1. CASE Begin(r, "create", "done", Null, FALSE, 0) /\ UNCHANGED clock
    <3>1. Sent(r, "create", "done", Null, FALSE, 0)
      BY <1>1, <2>1, BeginEffect DEF CreateMeeting, Sent
    <3> QED  BY <2>1, <3>1
  <2>2. CASE Begin(r, "create", "inserting", r, FALSE, clock + 1) /\ clock' = clock + 1
    <3> DEFINE t == clock + 1
    <3>1. Begin(r, "create", "inserting", r, FALSE, t) /\ clock' = t  BY <2>2
    <3>2. t = clock + 1  OBVIOUS
    <3> HIDE DEF t
    <3>3. Sent(r, "create", "inserting", r, FALSE, t)
      BY <1>1, <3>1, <3>2, BeginEffect DEF CreateMeeting, Sent
    <3> QED  BY <3>1, <3>3
  <2> QED  BY <1>1, <2>1, <2>2 DEF CreateMeeting
<1>2. CASE SetTranscript(r)
  <2> DEFINE s == IF meeting = "stored" THEN "clearing" ELSE "refused"
  <2>1. Begin(r, "upload", s, r, FALSE, 0)  BY <1>2 DEF SetTranscript
  <2>2. /\ s = "clearing" => meeting = "stored"
        /\ s \in {"clearing", "refused"}
        /\ UNCHANGED <<meeting, versions, clock, wanted>>
    BY <1>2 DEF SetTranscript
  <2> HIDE DEF s
  <2>3. Sent(r, "upload", s, r, FALSE, 0)  BY <2>1, <2>2, BeginEffect DEF Sent
  <2> QED  BY <2>1, <2>3
<1>3. CASE SelectTranscriptVersion(r)
  <2>1. PICK w \in versions : Begin(r, "select", "scoping", w.id, w.isActive, 0)
    BY <1>3 DEF SelectTranscriptVersion
  <2>2. Sent(r, "select", "scoping", w.id, w.isActive, 0)
    BY <1>3, <2>1, BeginEffect DEF SelectTranscriptVersion, Sent
  <2> QED  BY <2>1, <2>2
<1>4. CASE DeleteMeeting(r)
  <2> DEFINE s == IF meeting = "stored" THEN "removing" ELSE "refused"
  <2>1. Begin(r, "delete", s, Null, FALSE, 0)  BY <1>4 DEF DeleteMeeting
  <2>2. /\ s = "removing" => meeting = "stored"
        /\ s \in {"removing", "refused"}
        /\ UNCHANGED <<meeting, versions, clock, wanted>>
    BY <1>4 DEF DeleteMeeting
  <2> HIDE DEF s
  <2>3. Sent(r, "delete", s, Null, FALSE, 0)  BY <2>1, <2>2, BeginEffect DEF Sent
  <2> QED  BY <2>1, <2>3
<1> QED  BY <1>1, <1>2, <1>3, <1>4

LEMMA GotoEffect ==
  ASSUME TypeOK, NEW r \in Requests, NEW s, Goto(r, s), Open(r), UNCHANGED <<read, last>>
  PROVE  Moved(r, s) /\ request'[r].stamp = request[r].stamp
BY DEF TypeOK, Request, Goto, Moved

LEMMA ClearEffect ==
  ASSUME TypeOK, NEW r \in Requests, ClearActive(r)
  PROVE  /\ Moved(r, IF request[r].op = "upload" THEN "inserting" ELSE "saving")
         /\ versions' = Inactive(versions) /\ UNCHANGED <<meeting, wanted>>
         /\ request[r].op = "upload" => clock' = clock + 1 /\ request'[r].stamp = clock + 1
         /\ request[r].op # "upload" => UNCHANGED clock
<1>1. Open(r)  BY DEF ClearActive, Open
<1>2. CASE request[r].op = "upload"
  <2>1. request' = [request EXCEPT ![r].at = "inserting", ![r].stamp = clock + 1]
    BY <1>2 DEF ClearActive
  <2>2. /\ request'[r] = [request[r] EXCEPT !.at = "inserting", !.stamp = clock + 1]
        /\ \A q \in Requests \ {r} : request'[q] = request[q]
    BY <2>1 DEF TypeOK
  <2>3. request[r] \in Request  BY DEF TypeOK
  <2>4. /\ request'[r].at = "inserting" /\ request'[r].stamp = clock + 1
        /\ request'[r].op = request[r].op /\ request'[r].version = request[r].version
        /\ request'[r].loaded = request[r].loaded /\ request'[r].alone = request[r].alone
    BY <2>2, <2>3 DEF Request
  <2> QED  BY <1>1, <1>2, <2>2, <2>4 DEF ClearActive, Moved
<1>3. CASE request[r].op # "upload"
  BY <1>1, <1>3, GotoEffect DEF ClearActive
<1> QED  BY <1>2, <1>3

LEMMA MoveEffects ==
  ASSUME TypeOK, NEW r \in Requests
  PROVE  /\ ScopeSelection(r) => Moved(r, IF meeting = "stored" THEN "clearing" ELSE "refused")
         /\ InsertVersion(r) => Moved(r, "done")
         /\ SaveSelection(r) =>
              Moved(r, IF request[r].version \in Ids(versions) THEN "done" ELSE "refused")
         /\ RemoveMeeting(r) => Moved(r, "trimming")
         /\ RemoveVersions(r) => Moved(r, "done")
         /\ Lose(r) => Moved(r, "lost")
         /\ (\/ ScopeSelection(r) \/ InsertVersion(r) \/ SaveSelection(r)
             \/ RemoveMeeting(r) \/ RemoveVersions(r) \/ Lose(r))
              => UNCHANGED clock /\ request'[r].stamp = request[r].stamp
<1>1. ScopeSelection(r) => /\ Moved(r, IF meeting = "stored" THEN "clearing" ELSE "refused")
                           /\ UNCHANGED clock /\ request'[r].stamp = request[r].stamp
  BY GotoEffect DEF ScopeSelection, Open
<1>2. InsertVersion(r) =>
        Moved(r, "done") /\ UNCHANGED clock /\ request'[r].stamp = request[r].stamp
  BY GotoEffect DEF InsertVersion, Open
<1>3. SaveSelection(r) =>
        /\ Moved(r, IF request[r].version \in Ids(versions) THEN "done" ELSE "refused")
        /\ UNCHANGED clock /\ request'[r].stamp = request[r].stamp
  BY GotoEffect DEF SaveSelection, Open, Ids
<1>4. RemoveMeeting(r) =>
        Moved(r, "trimming") /\ UNCHANGED clock /\ request'[r].stamp = request[r].stamp
  BY GotoEffect DEF RemoveMeeting, Open
<1>5. RemoveVersions(r) =>
        Moved(r, "done") /\ UNCHANGED clock /\ request'[r].stamp = request[r].stamp
  BY GotoEffect DEF RemoveVersions, Open
<1>6. Lose(r) =>
        Moved(r, "lost") /\ UNCHANGED clock /\ request'[r].stamp = request[r].stamp
  BY GotoEffect DEF Lose
<1> QED  BY <1>1, <1>2, <1>3, <1>4, <1>5, <1>6

\* Clearing and setting flags neither adds nor removes a version.
LEMMA InactiveKeeps ==
  ASSUME TypeOK
  PROVE  /\ Ids(Inactive(versions)) = Ids(versions)
         /\ \A v \in Inactive(versions) : ~v.isActive
         /\ \A v \in Inactive(versions) :
              \E w \in versions : v = [w EXCEPT !.isActive = FALSE]
                                  /\ v.id = w.id /\ v.createdAt = w.createdAt
         /\ \A w \in versions :
              \E v \in Inactive(versions) : v.id = w.id /\ v.createdAt = w.createdAt
<1> DEFINE off(w) == [w EXCEPT !.isActive = FALSE]
<1>1. \A w \in versions : /\ off(w).id = w.id /\ off(w).createdAt = w.createdAt
                          /\ ~off(w).isActive
  BY DEF TypeOK, Version
<1>2. Inactive(versions) = {off(w) : w \in versions}  BY DEF Inactive
<1> HIDE DEF off
<1>3. Ids(Inactive(versions)) = Ids(versions)  BY <1>1, <1>2 DEF Ids
<1>4. /\ \A v \in Inactive(versions) : ~v.isActive
      /\ \A v \in Inactive(versions) :
           \E w \in versions : v = off(w) /\ v.id = w.id /\ v.createdAt = w.createdAt
      /\ \A w \in versions :
           \E v \in Inactive(versions) : v.id = w.id /\ v.createdAt = w.createdAt
  BY <1>1, <1>2
<1> QED  BY <1>3, <1>4 DEF off

LEMMA ActivatedKeeps ==
  ASSUME TypeOK, NEW d
  PROVE  /\ Ids(Activated(versions, d)) = Ids(versions)
         /\ \A v \in Activated(versions, d) :
              \E w \in versions : /\ v = IF w.id = d THEN [w EXCEPT !.isActive = TRUE] ELSE w
                                  /\ v.id = w.id
                                  /\ v.isActive = (w.isActive \/ w.id = d)
         /\ \A w \in versions : w.id = d => \E v \in Activated(versions, d) : v.id = d /\ v.isActive
<1> DEFINE on(w) == IF w.id = d THEN [w EXCEPT !.isActive = TRUE] ELSE w
<1>1. \A w \in versions : on(w).id = w.id /\ on(w).isActive = (w.isActive \/ w.id = d)
  BY DEF TypeOK, Version
<1>2. Activated(versions, d) = {on(w) : w \in versions}  BY DEF Activated
<1> HIDE DEF on
<1>3. Ids(Activated(versions, d)) = Ids(versions)  BY <1>1, <1>2 DEF Ids
<1>4. /\ \A v \in Activated(versions, d) :
           \E w \in versions : v = on(w) /\ v.id = w.id /\ v.isActive = (w.isActive \/ w.id = d)
      /\ \A w \in versions : w.id = d => \E v \in Activated(versions, d) : v.id = d /\ v.isActive
  BY <1>1, <1>2
<1> QED  BY <1>3, <1>4 DEF on

(***************************************************************************)
(* Versions are stored by requests that have ended, one each, and only     *)
(* while the meeting is.                                                   *)
(***************************************************************************)
VersionsSound ==
  /\ \A v \in versions : request[v.id].at = "done"
  /\ \A v, w \in versions : v.id = w.id => v = w

StageSound(r) ==
  /\ request[r].at = "idle" => request[r].alone /\ request[r].op = Null
  /\ request[r].at \in {"removing", "trimming"} => request[r].op = "delete"
  /\ request[r].at = "trimming" => meeting = "deleted"
  /\ request[r].at \in {"scoping", "saving"} => request[r].op = "select"
  /\ request[r].at = "clearing" => request[r].op \in {"upload", "select"}
  /\ request[r].at = "inserting" => request[r].op \in {"create", "upload"} /\ request[r].version = r
  /\ request[r].op = "upload" => request[r].version = r

NothingYet ==
  meeting = "none" => /\ versions = {} /\ wanted = Null
                      /\ \A r \in Requests : request[r].at \in {"idle", "refused"}

Sound == VersionsSound /\ (\A r \in Requests : StageSound(r)) /\ NothingYet

LEMMA SoundSent ==
  ASSUME TypeOK, Sound, NEW r \in Requests, NEW op, NEW s, NEW v, NEW f, NEW t,
         Sent(r, op, s, v, f, t)
  PROVE  Sound'
<1>1. VersionsSound'
  <2>1. \A w \in versions : w.id \in Requests \ {r}
    BY DEF Sound, VersionsSound, Sent, TypeOK, Version
  <2> QED  BY <2>1 DEF Sound, VersionsSound, Sent
<1>2. ASSUME NEW q \in Requests PROVE StageSound(q)'
  <2>1. CASE q = r  BY <2>1 DEF StageSound, Sent
  <2>2. CASE q # r
    <3>1. request'[q].at = "idle" => request'[q].alone
      BY <2>2 DEF Sound, StageSound, Sent, Open
    <3> QED  BY <2>2, <3>1 DEF Sound, StageSound, NothingYet, Sent
  <2> QED  BY <2>1, <2>2
<1>3. NothingYet'
  BY DEF Sound, NothingYet, Sent
<1> QED  BY <1>1, <1>2, <1>3 DEF Sound

LEMMA SoundMoved ==
  ASSUME TypeOK, Sound, NEW r \in Requests, Step(r),
         ~(CreateMeeting(r) \/ SetTranscript(r) \/ SelectTranscriptVersion(r) \/ DeleteMeeting(r))
  PROVE  Sound'
<1>1. \A w \in versions : w.id \in Requests  BY DEF TypeOK, Version
<1>2. ASSUME NEW s, Moved(r, s), UNCHANGED <<versions, meeting, wanted>>,
             s \notin {"idle", "scoping", "saving", "inserting", "removing", "trimming"},
             s = "clearing" => request[r].at = "scoping"
      PROVE  Sound'
  <2>1. VersionsSound'  BY <1>1, <1>2 DEF Sound, VersionsSound, Moved, Open
  <2>2. ASSUME NEW q \in Requests PROVE StageSound(q)'
    BY <1>2 DEF Sound, StageSound, Moved
  <2>3. NothingYet'  BY <1>2 DEF Sound, NothingYet, Moved, Open
  <2> QED  BY <2>1, <2>2, <2>3 DEF Sound
<1>3. CASE ScopeSelection(r)
  BY <1>2, <1>3, MoveEffects DEF ScopeSelection
<1>4. CASE Lose(r)
  BY <1>2, <1>4, MoveEffects DEF Lose
<1>5. CASE ClearActive(r)
  <2> DEFINE s == IF request[r].op = "upload" THEN "inserting" ELSE "saving"
  <2>1. /\ Moved(r, s) /\ request[r].at = "clearing"
        /\ versions' = Inactive(versions) /\ UNCHANGED <<meeting, wanted>>
    BY <1>5, ClearEffect DEF ClearActive
  <2>2. VersionsSound'
    <3>a. \A v \in versions' : \E w \in versions : v.id = w.id
      BY <2>1, InactiveKeeps
    <3>1. \A v \in versions' : request'[v.id].at = "done"
      BY <2>1, <1>1, <3>a DEF Sound, VersionsSound, Moved
    <3>2. ASSUME NEW v \in versions', NEW w \in versions', v.id = w.id PROVE v = w
      <4>1. PICK a \in versions : v = [a EXCEPT !.isActive = FALSE] /\ v.id = a.id
        BY <2>1, InactiveKeeps
      <4>2. PICK b \in versions : w = [b EXCEPT !.isActive = FALSE] /\ w.id = b.id
        BY <2>1, InactiveKeeps
      <4>3. a = b  BY <4>1, <4>2, <3>2 DEF Sound, VersionsSound
      <4> QED  BY <4>1, <4>2, <4>3
    <3> QED  BY <3>1, <3>2 DEF VersionsSound
  <2>3. ASSUME NEW q \in Requests PROVE StageSound(q)'
    BY <2>1 DEF Sound, StageSound, Moved
  <2>4. NothingYet'  BY <2>1 DEF Sound, NothingYet
  <2> QED  BY <2>2, <2>3, <2>4 DEF Sound
<1>6. CASE InsertVersion(r)
  <2> DEFINE n == [id |-> r, createdAt |-> request[r].stamp, isActive |-> TRUE]
  <2>1. /\ Moved(r, "done") /\ request[r].at = "inserting"
        /\ versions' = versions \cup {n} /\ n.id = r /\ UNCHANGED meeting
    BY <1>6, MoveEffects DEF InsertVersion
  <2> HIDE DEF n
  <2>2. \A v \in versions : v.id # r  BY <2>1 DEF Sound, VersionsSound
  <2>3. VersionsSound'  BY <1>1, <2>1, <2>2 DEF Sound, VersionsSound, Moved
  <2>4. ASSUME NEW q \in Requests PROVE StageSound(q)'
    BY <2>1 DEF Sound, StageSound, Moved
  <2>5. NothingYet'  BY <2>1 DEF Sound, NothingYet
  <2> QED  BY <2>3, <2>4, <2>5 DEF Sound
<1>7. CASE SaveSelection(r)
  <2> DEFINE s == IF request[r].version \in Ids(versions) THEN "done" ELSE "refused"
  <2>1. Moved(r, s) /\ request[r].at = "saving" /\ UNCHANGED meeting
    BY <1>7, MoveEffects DEF SaveSelection
  <2>2. versions' \in {versions, Activated(versions, request[r].version)}
    BY <1>7 DEF SaveSelection
  <2>3. VersionsSound'
    <3>1. \A v \in versions' : \E w \in versions : v.id = w.id  BY <2>2, ActivatedKeeps
    <3>2. \A v \in versions' : request'[v.id].at = "done"
      BY <2>1, <1>1, <3>1 DEF Sound, VersionsSound, Moved
    <3>3. ASSUME NEW v \in versions', NEW w \in versions', v.id = w.id PROVE v = w
      BY <2>2, <3>3, ActivatedKeeps DEF Sound, VersionsSound
    <3> QED  BY <3>2, <3>3 DEF VersionsSound
  <2>4. ASSUME NEW q \in Requests PROVE StageSound(q)'
    BY <2>1 DEF Sound, StageSound, Moved
  <2>5. NothingYet'  BY <2>1 DEF Sound, NothingYet
  <2> QED  BY <2>3, <2>4, <2>5 DEF Sound
<1>8. CASE RemoveMeeting(r)
  <2>1. /\ Moved(r, "trimming") /\ meeting' = "deleted" /\ UNCHANGED versions
        /\ request[r].at = "removing"
    BY <1>8, MoveEffects DEF RemoveMeeting
  <2>2. VersionsSound'  BY <1>1, <2>1 DEF Sound, VersionsSound, Moved
  <2>3. ASSUME NEW q \in Requests PROVE StageSound(q)'
    BY <2>1 DEF Sound, StageSound, Moved
  <2>4. NothingYet'  BY <2>1 DEF NothingYet
  <2> QED  BY <2>2, <2>3, <2>4 DEF Sound
<1>9. CASE RemoveVersions(r)
  <2>1. /\ Moved(r, "done") /\ versions' = {} /\ UNCHANGED meeting
        /\ request[r].at = "trimming"
    BY <1>9, MoveEffects DEF RemoveVersions
  <2>2. VersionsSound'  BY <2>1 DEF VersionsSound
  <2>3. ASSUME NEW q \in Requests PROVE StageSound(q)'
    BY <2>1 DEF Sound, StageSound, Moved
  <2>4. NothingYet'  BY <2>1 DEF Sound, NothingYet
  <2> QED  BY <2>2, <2>3, <2>4 DEF Sound
<1> QED  BY <1>3, <1>4, <1>5, <1>6, <1>7, <1>8, <1>9 DEF Step

TypedSound == TypeOK /\ Sound

LEMMA InitSound == Init => TypedSound
<1>1. Init => TypeOK  BY DEF Init, TypeOK, Request
<1>2. Init => Sound
  BY TranscriptsAssumption DEF Init, Sound, VersionsSound, StageSound, NothingYet
<1> QED  BY <1>1, <1>2 DEF TypedSound

LEMMA NextTyped == TypeOK /\ [Next]_vars => TypeOK'
<1>1. TypeOK /\ UNCHANGED vars => TypeOK'  BY DEF TypeOK, vars
<1> QED  BY <1>1, WritersTyped, ReadersTyped DEF Next

LEMMA NextSound == TypedSound /\ [Next]_vars => TypedSound'
<1> SUFFICES ASSUME TypedSound, [Next]_vars PROVE Sound'
  BY NextTyped DEF TypedSound
<1>1. CASE UNCHANGED <<meeting, versions, request, wanted>>
  BY <1>1 DEF TypedSound, Sound, VersionsSound, StageSound, NothingYet
<1>2. ASSUME NEW r \in Requests, Step(r) PROVE Sound'
  <2>1. CASE CreateMeeting(r) \/ SetTranscript(r) \/ SelectTranscriptVersion(r) \/ DeleteMeeting(r)
    BY <2>1, SendEffect, SoundSent DEF TypedSound
  <2> QED  BY <1>2, <2>1, SoundMoved DEF TypedSound
<1> QED  BY <1>1, <1>2 DEF Next, vars, FindActive, FindNewest

\* Every version that was stored is there until the meeting is deleted.
THEOREM VersionsAreKept == Spec => VersionsKept
<1>1. TypedSound /\ [Next]_vars =>
        [meeting = "stored" => {v.id : v \in versions} \subseteq {v.id : v \in versions}']_vars
  <2> SUFFICES ASSUME TypedSound, Next, meeting = "stored"
               PROVE  Ids(versions) \subseteq Ids(versions')
    BY DEF Ids
  <2>1. CASE UNCHANGED versions  BY <2>1
  <2>2. ASSUME NEW r \in Requests, Step(r) PROVE Ids(versions) \subseteq Ids(versions')
    <3>1. ~RemoveVersions(r)  BY DEF TypedSound, Sound, StageSound, RemoveVersions
    <3>2. CASE ClearActive(r)  BY <3>2, InactiveKeeps DEF ClearActive, TypedSound
    <3>3. CASE InsertVersion(r)  BY <3>3 DEF InsertVersion, Ids
    <3>4. CASE SaveSelection(r)  BY <3>4, ActivatedKeeps DEF SaveSelection, TypedSound
    <3>5. CASE UNCHANGED versions  BY <3>5
    <3> QED
      BY <2>2, <3>1, <3>2, <3>3, <3>4, <3>5
         DEF Step, CreateMeeting, SetTranscript, SelectTranscriptVersion, DeleteMeeting,
             ScopeSelection, RemoveMeeting, Lose
  <2> QED  BY <2>1, <2>2 DEF Next, FindActive, FindNewest
<1> QED  BY <1>1, InitSound, NextSound, PTL DEF Spec, VersionsKept

-------------------------------------------------------------------------------
(***************************************************************************)
(* At most one version is active unless requests overlapped.               *)
(***************************************************************************)
Sends(r) == CreateMeeting(r) \/ SetTranscript(r) \/ SelectTranscriptVersion(r) \/ DeleteMeeting(r)

\* The flags after each write; the other steps leave the versions alone.
LEMMA FlagsAfter ==
  ASSUME TypeOK, NEW r \in Requests
  PROVE  /\ ClearActive(r) => Active' = {}
         /\ InsertVersion(r) /\ Active = {} => Ids(Active') = {r}
         /\ SaveSelection(r) /\ Active = {} =>
              Ids(Active') = IF request[r].loaded THEN {} ELSE {request[r].version} \cap Ids(versions)
         /\ RemoveVersions(r) => Active' = {}
         /\ ScopeSelection(r) \/ RemoveMeeting(r) \/ Lose(r) => UNCHANGED versions
<1>1. ClearActive(r) => Active' = {}
  BY InactiveKeeps DEF ClearActive, Active
<1>2. ASSUME InsertVersion(r), Active = {} PROVE Ids(Active') = {r}
  <2> DEFINE n == [id |-> r, createdAt |-> request[r].stamp, isActive |-> TRUE]
  <2>1. versions' = versions \cup {n} /\ n.id = r /\ n.isActive
    BY <1>2 DEF InsertVersion
  <2> HIDE DEF n
  <2>2. Active' = {n}  BY <1>2, <2>1 DEF Active
  <2> QED  BY <2>1, <2>2 DEF Ids
<1>3. ASSUME SaveSelection(r), Active = {}
      PROVE  Ids(Active') =
               IF request[r].loaded THEN {} ELSE {request[r].version} \cap Ids(versions)
  <2>1. CASE request[r].loaded
    BY <1>3, <2>1 DEF SaveSelection, Active, Ids
  <2>2. CASE ~request[r].loaded
    <3> DEFINE d == request[r].version
    <3>1. versions' = Activated(versions, d)  BY <1>3, <2>2 DEF SaveSelection
    <3> HIDE DEF d
    <3>2. \A v \in Active' : v.id = d /\ v.id \in Ids(versions)
      BY <1>3, <3>1, ActivatedKeeps DEF Active, Ids
    <3>3. d \in Ids(versions) => \E v \in Active' : v.id = d
      BY <3>1, ActivatedKeeps DEF Active, Ids
    <3>4. Ids(Active') = {d} \cap Ids(versions)  BY <3>2, <3>3 DEF Ids
    <3> QED  BY <2>2, <3>4 DEF d
  <2> QED  BY <2>1, <2>2
<1>4. RemoveVersions(r) => Active' = {}  BY DEF RemoveVersions, Active
<1>5. ScopeSelection(r) \/ RemoveMeeting(r) \/ Lose(r) => UNCHANGED versions
  BY DEF ScopeSelection, RemoveMeeting, Lose
<1> QED  BY <1>1, <1>2, <1>3, <1>4, <1>5

\* While none overlapped one request at most is open, and between its two
\* writes no version is active.
SoloInv ==
  NoneOverlapped =>
    /\ \A r, s \in Requests : Open(r) /\ Open(s) => r = s
    /\ \A v, w \in Active : v = w
    /\ \A r \in Requests : Cleared(r) => Active = {}

\* What no overlap after a step says of the state before it.
LEMMA AloneBefore ==
  ASSUME TypeOK, Sound, NEW r \in Requests, Step(r), NoneOverlapped'
  PROVE  NoneOverlapped /\ (Sends(r) => Quiet)
<1>1. CASE Sends(r)
  <2>1. PICK op, s, v, f, t : Sent(r, op, s, v, f, t)  BY <1>1, SendEffect DEF Sends
  <2>2. Quiet  BY <2>1 DEF Sent, NoneOverlapped
  <2>3. \A q \in Requests \ {r} : request[q].alone  BY <2>1 DEF Sent, NoneOverlapped
  <2>4. request[r].alone  BY <2>1 DEF Sent, Sound, StageSound
  <2> QED  BY <2>2, <2>3, <2>4 DEF NoneOverlapped
<1>2. CASE ~Sends(r)
  <2>1. \E s : Moved(r, s)
    BY <1>2, MoveEffects, ClearEffect DEF Step, Sends
  <2> QED  BY <1>2, <2>1 DEF Moved, NoneOverlapped
<1> QED  BY <1>1, <1>2

LEMMA ClosedAtMost ==
  ASSUME NEW r \in Requests, NEW s, Moved(r, s)
  PROVE  \A q \in Requests : Open(q)' => Open(q)
BY DEF Moved, Open

LEMMA NextSolo ==
  ASSUME TypedSound, SoloInv, [Next]_vars
  PROVE  SoloInv'
<1> SUFFICES ASSUME NoneOverlapped'
             PROVE  /\ \A r, s \in Requests : Open(r)' /\ Open(s)' => r = s
                    /\ \A v, w \in Active' : v = w
                    /\ \A r \in Requests : Cleared(r)' => Active' = {}
  BY DEF SoloInv
<1> USE DEF TypedSound
<1>1. CASE UNCHANGED <<versions, request>>
  BY <1>1 DEF SoloInv, NoneOverlapped, Open, Active, Cleared
<1>2. ASSUME NEW r \in Requests, Sends(r)
      PROVE  /\ \A q, s \in Requests : Open(q)' /\ Open(s)' => q = s
             /\ \A v, w \in Active' : v = w
             /\ \A q \in Requests : Cleared(q)' => Active' = {}
  <2>1. PICK op, s, v, f, t : Sent(r, op, s, v, f, t)  BY <1>2, SendEffect DEF Sends
  <2>2. NoneOverlapped /\ Quiet  BY <1>2, AloneBefore DEF Step, Sends
  <2>3. \A q \in Requests \ {r} : ~Open(q)'  BY <2>1, <2>2 DEF Sent, Quiet, Open
  <2>4. Active' = Active  BY <2>1 DEF Sent, Active
  <2>5. \A q \in Requests : Cleared(q)' => q = r /\ meeting = "none"
    BY <2>1, <2>3 DEF Sent, Cleared, Open
  <2>6. meeting = "none" => Active = {}  BY DEF Sound, NothingYet, Active
  <2>7. \A q \in Requests : Cleared(q)' => Active' = {}  BY <2>4, <2>5, <2>6
  <2>8. \A q, u \in Requests : Open(q)' /\ Open(u)' => q = u  BY <2>3
  <2> QED  BY <2>2, <2>4, <2>7, <2>8 DEF SoloInv
<1>3. ASSUME NEW r \in Requests, Step(r), ~Sends(r)
      PROVE  /\ \A q, s \in Requests : Open(q)' /\ Open(s)' => q = s
             /\ \A v, w \in Active' : v = w
             /\ \A q \in Requests : Cleared(q)' => Active' = {}
  <2>1. PICK s : Moved(r, s)  BY <1>3, MoveEffects, ClearEffect DEF Step, Sends
  <2>2. NoneOverlapped  BY <1>3, AloneBefore
  <2>3. \A q, u \in Requests : Open(q)' /\ Open(u)' => q = u
    BY <2>1, <2>2, ClosedAtMost DEF SoloInv
  <2>4. \A q \in Requests \ {r} : ~Open(q)  BY <2>1, <2>2 DEF SoloInv, Moved
  <2>5. \A q \in Requests \ {r} : ~Cleared(q)'  BY <2>1, <2>4 DEF Moved, Cleared, Open
  <2>6. \A v, w \in versions' : v.id = w.id => v = w
    BY NextSound DEF Sound, VersionsSound
  <2>7. ASSUME NEW d, Ids(Active') \subseteq {d} PROVE \A v, w \in Active' : v = w
    BY <2>6, <2>7 DEF Ids, Active
  <2>8. CASE ClearActive(r) \/ RemoveVersions(r)
    <3>1. Active' = {}  BY <2>8, FlagsAfter
    <3> QED  BY <2>3, <3>1
  <2>9. CASE InsertVersion(r) \/ SaveSelection(r)
    <3>1. Active = {}  BY <2>2, <2>9 DEF SoloInv, InsertVersion, SaveSelection, Cleared
    <3>2. \E d : Ids(Active') \subseteq {d}  BY <2>9, <3>1, FlagsAfter
    <3>3. ~Cleared(r)'  BY <2>9, MoveEffects DEF Moved, Cleared
    <3> QED  BY <2>3, <2>5, <2>7, <3>2, <3>3
  <2>10. CASE ScopeSelection(r) \/ RemoveMeeting(r) \/ Lose(r)
    <3>1. Active' = Active  BY <2>10, FlagsAfter DEF Active
    <3>2. ~Cleared(r)'  BY <2>10, MoveEffects DEF Moved, Cleared
    <3> QED  BY <2>2, <2>3, <2>5, <3>1, <3>2 DEF SoloInv
  <2> QED  BY <1>3, <2>8, <2>9, <2>10 DEF Step, Sends
<1>4. CASE \E r \in Requests : Step(r)  BY <1>2, <1>3, <1>4
<1> QED  BY <1>1, <1>4 DEF Next, vars, FindActive, FindNewest

\* However requests die, at most one version is active unless they overlapped.
THEOREM AtMostOneIsActive == Spec => []AtMostOneActive
<1>1. Init => SoloInv
  BY DEF Init, SoloInv, Open, Active, Cleared
<1>2. TypedSound /\ SoloInv => AtMostOneActive
  <2> SUFFICES ASSUME TypedSound, SoloInv, NoneOverlapped PROVE Cardinality(Active) <= 1
    BY DEF AtMostOneActive
  <2>1. CASE Active = {}  BY <2>1, FS_EmptySet
  <2>2. ASSUME NEW v \in Active PROVE Cardinality(Active) <= 1
    <3>1. Active = {v}  BY <2>2 DEF SoloInv
    <3> QED  BY <3>1, FS_Singleton
  <2> QED  BY <2>1, <2>2
<1>3. TypedSound /\ SoloInv /\ [Next]_vars => (TypedSound /\ SoloInv)'
  BY NextSound, NextSolo
<1> QED  BY <1>1, <1>2, <1>3, InitSound, PTL DEF Spec

-------------------------------------------------------------------------------
(***************************************************************************)
(* A request that meets no other one leaves its version active, whatever   *)
(* was left behind before it.                                              *)
(***************************************************************************)
HealInv ==
  \A r \in Requests : last = r /\ request[r].alone =>
    /\ \A s \in Requests \ {r} : ~Open(s)
    /\ Cleared(r) => Active = {}
    /\ request[r].at = "done" /\ Chose(r) => Ids(Active) = {request[r].version}

LEMMA NextHeal ==
  ASSUME TypedSound, HealInv, [Next]_vars
  PROVE  HealInv'
<1> USE DEF TypedSound
<1>1. CASE UNCHANGED <<versions, request, last>>
  BY <1>1 DEF HealInv, Open, Active, Cleared, Chose
<1>2. ASSUME NEW r \in Requests, Sends(r) PROVE HealInv'
  <2>1. PICK op, s, v, f, t : Sent(r, op, s, v, f, t)  BY <1>2, SendEffect DEF Sends
  <2> SUFFICES ASSUME request'[r].alone
               PROVE  /\ \A q \in Requests \ {r} : ~Open(q)'
                      /\ Cleared(r)' => Active' = {}
                      /\ ~(request'[r].at = "done" /\ Chose(r)')
    BY <2>1 DEF HealInv, Sent
  <2>2. Quiet  BY <2>1 DEF Sent
  <2>3. \A q \in Requests \ {r} : ~Open(q)'  BY <2>1, <2>2 DEF Sent, Quiet, Open
  <2>4. Cleared(r)' => Active' = {}
    BY <2>1 DEF Sent, Cleared, Sound, NothingYet, Active
  <2>5. ~(request'[r].at = "done" /\ Chose(r)')  BY <2>1 DEF Sent, Chose
  <2> QED  BY <2>3, <2>4, <2>5
<1>3. ASSUME NEW r \in Requests, Step(r), ~Sends(r) PROVE HealInv'
  <2>1. PICK s : Moved(r, s)  BY <1>3, MoveEffects, ClearEffect DEF Step, Sends
  <2> SUFFICES ASSUME NEW q \in Requests, last = q, request[q].alone
               PROVE  /\ \A u \in Requests \ {q} : ~Open(u)'
                      /\ Cleared(q)' => Active' = {}
                      /\ request'[q].at = "done" /\ Chose(q)' => Ids(Active') = {request'[q].version}
    BY <2>1 DEF HealInv, Moved, Ids
  <2>2. q = r /\ \A u \in Requests \ {q} : ~Open(u)'
    BY <2>1, ClosedAtMost DEF HealInv, Moved
  <2>3. Chose(r)' => Chose(r) /\ ~(request[r].op = "select" /\ request[r].loaded)
    BY <2>1 DEF Moved, Chose
  <2>4. Cleared(r) => Active = {}  BY <2>2 DEF HealInv
  <2>5. CASE ClearActive(r)
    BY <2>2, <2>5, FlagsAfter, ClearEffect DEF Moved
  <2>6. CASE InsertVersion(r)
    <3>1. Ids(Active') = {r} /\ request[r].version = r
      BY <2>4, <2>6, FlagsAfter DEF InsertVersion, Cleared, Sound, StageSound
    <3>2. request'[r].at = "done" /\ request'[r].version = r
      BY <2>6, <3>1, MoveEffects DEF Moved
    <3> QED  BY <2>2, <3>1, <3>2 DEF Cleared
  <2>7. CASE SaveSelection(r)
    <3>1. /\ request[r].op = "select"
          /\ Ids(Active') =
               IF request[r].loaded THEN {} ELSE {request[r].version} \cap Ids(versions)
      BY <2>4, <2>7, FlagsAfter DEF SaveSelection, Cleared, Sound, StageSound
    <3>2. /\ request'[r].version = request[r].version /\ ~Cleared(r)'
          /\ request'[r].at = "done" => request[r].version \in Ids(versions)
      BY <2>7, MoveEffects DEF Moved, Cleared
    <3> QED  BY <2>2, <2>3, <3>1, <3>2
  <2>8. CASE RemoveVersions(r)
    <3>1. request[r].at = "trimming"  BY <2>8 DEF RemoveVersions
    <3>2. ~Cleared(r)'  BY <2>8, MoveEffects DEF Moved, Cleared
    <3>3. ~Chose(r)  BY <3>1 DEF Sound, StageSound, Chose
    <3> QED  BY <2>2, <2>3, <3>2, <3>3
  <2>9. CASE ScopeSelection(r) \/ RemoveMeeting(r) \/ Lose(r)
    <3>1. ~Cleared(r)' /\ request'[r].at # "done"
      BY <2>9, MoveEffects DEF Moved, Cleared
    <3> QED  BY <2>2, <3>1
  <2> QED  BY <1>3, <2>5, <2>6, <2>7, <2>8, <2>9 DEF Step, Sends
<1>4. CASE \E r \in Requests : Step(r)  BY <1>2, <1>3, <1>4
<1> QED  BY <1>1, <1>4 DEF Next, vars, FindActive, FindNewest

\* Whatever earlier requests left behind, one that is alone heals it.
THEOREM SoloChoiceHealsIt == Spec => []SoloChoiceHeals
<1>1. Init => HealInv  BY TranscriptsAssumption DEF Init, HealInv
<1>2. HealInv => SoloChoiceHeals  BY DEF HealInv, SoloChoiceHeals, Ids
<1>3. TypedSound /\ HealInv /\ [Next]_vars => (TypedSound /\ HealInv)'
  BY NextSound, NextHeal
<1> QED  BY <1>1, <1>2, <1>3, InitSound, PTL DEF Spec

-------------------------------------------------------------------------------
(***************************************************************************)
(* What is shown is the last choice.  An active version that is selected   *)
(* again is the exception, see NewChoiceShown.                             *)
(***************************************************************************)
Reselected == \E r \in Requests : request[r].op = "select" /\ request[r].loaded
Undisturbed == NoneLost /\ NoneOverlapped /\ ~Reselected

\* Before and after the two writes of a request the last choice is active.
Settled == IF wanted = Null THEN versions = {} ELSE Ids(Active) = {wanted}

ChoiceInv ==
  Undisturbed =>
    /\ (\A r \in Requests : ~Cleared(r)) => Settled
    /\ \A r \in Requests :
         request[r].op = "select" /\ request[r].at \in {"scoping", "clearing", "saving"}
           => request[r].version \in Ids(versions)

LEMMA UndisturbedBefore ==
  ASSUME TypedSound, NEW r \in Requests, Step(r), Undisturbed'
  PROVE  Undisturbed
<1>1. CASE Sends(r)
  <2>1. PICK op, s, v, f, t : Sent(r, op, s, v, f, t)  BY <1>1, SendEffect DEF Sends, TypedSound
  <2>2. request[r].at = "idle" => ~(request[r].op = "select")
    BY TranscriptsAssumption DEF TypedSound, Sound, StageSound
  <2> QED
    BY <2>1, <2>2, AloneBefore DEF Sent, Undisturbed, NoneLost, Reselected, TypedSound
<1>2. CASE ~Sends(r)
  <2>1. PICK s : Moved(r, s)
    BY <1>2, MoveEffects, ClearEffect DEF Step, Sends, TypedSound
  <2> QED
    BY <2>1, AloneBefore DEF Moved, Undisturbed, NoneLost, Reselected, TypedSound, Open
<1> QED  BY <1>1, <1>2

LEMMA NextChoice ==
  ASSUME TypedSound, SoloInv, ChoiceInv, [Next]_vars
  PROVE  ChoiceInv'
<1> USE DEF TypedSound
<1> SUFFICES ASSUME Undisturbed'
             PROVE  /\ (\A r \in Requests : ~Cleared(r)') => Settled'
                    /\ \A r \in Requests :
                         request'[r].op = "select"
                           /\ request'[r].at \in {"scoping", "clearing", "saving"}
                           => request'[r].version \in Ids(versions')
  BY DEF ChoiceInv, Ids
<1>1. CASE UNCHANGED <<versions, request, wanted>>
  BY <1>1 DEF ChoiceInv, Undisturbed, NoneLost, NoneOverlapped, Reselected, Cleared, Settled, Active, Ids
<1>2. ASSUME NEW r \in Requests, Sends(r)
      PROVE  /\ (\A q \in Requests : ~Cleared(q)') => Settled'
             /\ \A q \in Requests :
                  request'[q].op = "select"
                    /\ request'[q].at \in {"scoping", "clearing", "saving"}
                    => request'[q].version \in Ids(versions')
  <2>1. PICK op, s, v, f, t : Sent(r, op, s, v, f, t)  BY <1>2, SendEffect DEF Sends
  <2>2. Undisturbed /\ Quiet  BY <1>2, UndisturbedBefore, AloneBefore DEF Step, Sends, Undisturbed
  <2>3. \A q \in Requests : ~Cleared(q)  BY <2>2 DEF Quiet, Open, Cleared
  <2>4. Settled  BY <2>2, <2>3 DEF ChoiceInv
  <2>5. Settled'  BY <2>1, <2>4 DEF Sent, Settled, Active, Ids
  <2>6. \A q \in Requests \ {r} : ~Open(q)'  BY <2>1, <2>2 DEF Sent, Quiet, Open
  <2>7. /\ request'[r].op = "select" => request'[r].version \in Ids(versions)
        /\ UNCHANGED versions
    BY <2>1 DEF Sent, Ids
  <2> QED  BY <2>5, <2>6, <2>7 DEF Open
<1>3. ASSUME NEW r \in Requests, Step(r), ~Sends(r)
      PROVE  /\ (\A q \in Requests : ~Cleared(q)') => Settled'
             /\ \A q \in Requests :
                  request'[q].op = "select"
                    /\ request'[q].at \in {"scoping", "clearing", "saving"}
                    => request'[q].version \in Ids(versions')
  <2>1. PICK s : Moved(r, s)  BY <1>3, MoveEffects, ClearEffect DEF Step, Sends
  <2>2. Undisturbed  BY <1>3, UndisturbedBefore
  <2>3. \A q \in Requests \ {r} : ~Open(q)
    BY <2>1, <2>2 DEF SoloInv, Undisturbed, Moved
  <2>4. \A q \in Requests \ {r} : ~Cleared(q) /\ ~Open(q)'
    BY <2>1, <2>3 DEF Moved, Open, Cleared
  <2>5. \A q \in Requests : Cleared(q) => Active = {}  BY <2>2 DEF SoloInv, Undisturbed
  <2>6. SUFFICES
          /\ ~Cleared(r)' => Settled'
          /\ request'[r].op = "select" /\ request'[r].at \in {"scoping", "clearing", "saving"}
               => request'[r].version \in Ids(versions')
    BY <2>4, <2>6 DEF Open
  <2>7. CASE ClearActive(r)
    <3>1. Cleared(r)'  BY <2>7, ClearEffect DEF Moved, Cleared
    <3>2. /\ request'[r].op = request[r].op /\ request'[r].version = request[r].version
          /\ request[r].at = "clearing"
      BY <2>7, <2>1 DEF Moved, ClearActive
    <3>3. Ids(versions') = Ids(versions)  BY <2>7, InactiveKeeps DEF ClearActive
    <3> QED  BY <2>2, <3>1, <3>2, <3>3 DEF ChoiceInv
  <2>8. CASE InsertVersion(r)
    <3>1. Ids(Active') = {r}
      BY <2>5, <2>8, FlagsAfter DEF InsertVersion, Cleared
    <3>2. wanted' = r /\ r # Null  BY <2>8, TranscriptsAssumption DEF InsertVersion
    <3>3. request'[r].at = "done"  BY <2>8, MoveEffects DEF Moved
    <3>4. Settled'  BY <3>1, <3>2 DEF Settled, Ids
    <3> QED  BY <3>3, <3>4
  <2>9. CASE SaveSelection(r)
    <3>1. /\ request[r].at = "saving" /\ request[r].op = "select"
          /\ wanted' = request[r].version
      BY <2>9 DEF SaveSelection, Sound, StageSound
    <3>2. ~request[r].loaded  BY <2>2, <3>1 DEF Undisturbed, Reselected
    <3>3. request[r].version \in Ids(versions)  BY <2>2, <3>1 DEF ChoiceInv
    <3>4. request[r].version # Null
      BY <3>3, TranscriptsAssumption DEF TypeOK, Version, Ids
    <3>5. Ids(Active') = {request[r].version}
      BY <2>5, <2>9, <3>1, <3>2, <3>3, FlagsAfter DEF Cleared
    <3>6. request'[r].at = "done"  BY <2>9, <3>3, MoveEffects DEF Moved
    <3>7. Settled'  BY <3>1, <3>4, <3>5 DEF Settled, Ids
    <3> QED  BY <3>6, <3>7
  <2>10. CASE RemoveVersions(r)
    <3>1. versions' = {} /\ wanted' = Null /\ request'[r].at = "done"
      BY <2>10, MoveEffects DEF RemoveVersions, Moved
    <3>2. Settled'  BY <3>1 DEF Settled
    <3> QED  BY <3>1, <3>2
  <2>11. CASE ScopeSelection(r) \/ RemoveMeeting(r) \/ Lose(r)
    <3>1. UNCHANGED <<versions, wanted>>
      BY <2>11 DEF ScopeSelection, RemoveMeeting, Lose
    <3>2. request'[r].at # "lost"  BY DEF Undisturbed, NoneLost
    <3>3. /\ ~Cleared(r) /\ request'[r].op = request[r].op
          /\ request'[r].version = request[r].version
          /\ request'[r].at \in {"scoping", "clearing", "saving"} => request[r].at = "scoping"
      BY <2>11, <3>2, MoveEffects DEF ScopeSelection, RemoveMeeting, Moved, Cleared
    <3>4. Settled  BY <2>2, <2>4, <3>3 DEF ChoiceInv
    <3>5. Settled'  BY <3>1, <3>4 DEF Settled, Active, Ids
    <3> QED  BY <2>2, <3>1, <3>3, <3>5 DEF ChoiceInv
  <2> QED  BY <1>3, <2>7, <2>8, <2>9, <2>10, <2>11 DEF Step, Sends
<1>4. CASE \E r \in Requests : Step(r)  BY <1>2, <1>3, <1>4
<1> QED  BY <1>1, <1>4 DEF Next, vars, FindActive, FindNewest

\* The version last uploaded or selected is the one shown.
THEOREM NewChoiceIsShown == Spec => []NewChoiceShown
<1> DEFINE Inv == TypedSound /\ SoloInv /\ ChoiceInv
<1>1. Init => Inv
  <2>1. Init => SoloInv  BY DEF Init, SoloInv, Open, Active, Cleared
  <2>2. Init => ChoiceInv
    BY TranscriptsAssumption DEF Init, ChoiceInv, Settled
  <2> QED  BY <2>1, <2>2, InitSound
<1>2. Inv => NewChoiceShown
  <2> SUFFICES ASSUME Inv, Undisturbed, Quiet PROVE Ids(Shown) = {wanted} \ {Null}
    BY DEF NewChoiceShown, LastChoiceShown, Undisturbed, Reselected, Ids
  <2>1. Settled  BY DEF ChoiceInv, Quiet, Open, Cleared
  <2>2. CASE wanted = Null
    <3>1. versions = {}  BY <2>1, <2>2 DEF Settled
    <3>2. Shown = {}  BY <3>1 DEF Shown, Active, Newest
    <3> QED  BY <2>2, <3>2 DEF Ids
  <2>3. CASE wanted # Null
    <3>1. Ids(Active) = {wanted}  BY <2>1, <2>3 DEF Settled
    <3>2. Shown = Active  BY <3>1 DEF Shown, Ids
    <3> QED  BY <2>3, <3>1, <3>2
  <2> QED  BY <2>2, <2>3
<1>3. Inv /\ [Next]_vars => Inv'  BY NextSound, NextSolo, NextChoice
<1> QED  BY <1>1, <1>2, <1>3, PTL DEF Spec

-------------------------------------------------------------------------------
(***************************************************************************)
(* Readers while versions are only uploaded: the newest version, which a   *)
(* reader falls back to, is the one wanted last.                           *)
(***************************************************************************)
Uploading == Undisturbed /\ \A r \in Requests : request[r].op # "select"

NewestWanted ==
  /\ \A v \in versions : v.createdAt <= clock
  /\ \A r \in Requests : request[r].at = "inserting" =>
       request[r].stamp <= clock /\ \A v \in versions : v.createdAt < request[r].stamp
  /\ Ids(Newest) = {wanted} \ {Null}

\* A reader in the gap may still return the version wanted when it began, or
\* any whose request came later.
ReaderSound(p) ==
  /\ read[p].at = "fallback" =>
       /\ read[p].got = Null
       /\ wanted \in read[p].valid \cup {Null}
       /\ \A r \in Requests : Open(r) => request[r].version \in read[p].valid
  /\ read[p].at = "done" => read[p].got \in read[p].valid \cup {Null}

ReadInv == Uploading => NewestWanted /\ \A p \in Readers : ReaderSound(p)

LEMMA UploadingBefore ==
  ASSUME TypedSound, NEW r \in Requests, Step(r), Uploading'
  PROVE  Uploading
<1> USE DEF TypedSound
<1>1. CASE Sends(r)
  <2>1. PICK op, s, v, f, t : Sent(r, op, s, v, f, t)  BY <1>1, SendEffect DEF Sends
  <2>2. request[r].op = Null  BY <2>1 DEF Sent, Sound, StageSound
  <2> QED  BY <2>1, <2>2, UndisturbedBefore, TranscriptsAssumption DEF Sent, Uploading
<1>2. CASE ~Sends(r)
  <2>1. PICK s : Moved(r, s)
    BY <1>2, MoveEffects, ClearEffect DEF Step, Sends
  <2> QED  BY <2>1, UndisturbedBefore DEF Moved, Uploading
<1> QED  BY <1>1, <1>2

LEMMA NewestKept ==
  ASSUME TypeOK, versions' = Inactive(versions)
  PROVE  Ids(Newest') = Ids(Newest)
<1>1. ASSUME NEW v \in Newest PROVE v.id \in Ids(Newest')
  <2>1. PICK w \in versions' : w.id = v.id /\ w.createdAt = v.createdAt
    BY <1>1, InactiveKeeps DEF Newest
  <2>2. \A u \in versions' : u.createdAt <= w.createdAt
    BY <1>1, <2>1, InactiveKeeps DEF Newest
  <2> QED  BY <2>1, <2>2 DEF Newest, Ids
<1>2. ASSUME NEW v \in Newest' PROVE v.id \in Ids(Newest)
  <2>1. PICK w \in versions : w.id = v.id /\ w.createdAt = v.createdAt
    BY <1>2, InactiveKeeps DEF Newest
  <2>2. \A u \in versions : u.createdAt <= w.createdAt
    BY <1>2, <2>1, InactiveKeeps DEF Newest
  <2> QED  BY <2>1, <2>2 DEF Newest, Ids
<1> QED  BY <1>1, <1>2 DEF Ids

LEMMA NextNewest ==
  ASSUME TypedSound, SoloInv, Uploading, NewestWanted, Uploading', NEW r \in Requests, Step(r)
  PROVE  NewestWanted'
<1> USE DEF TypedSound
<1>1. CASE Sends(r)
  <2>1. PICK op, s, v, f, t : Sent(r, op, s, v, f, t)  BY <1>1, SendEffect DEF Sends
  <2>2. UNCHANGED <<versions, wanted>> /\ clock' \in {clock, clock + 1} /\ clock \in Nat
    BY <2>1 DEF Sent, TypeOK
  <2>3. \A w \in versions : w.createdAt \in Nat  BY DEF TypeOK, Version
  <2>4. \A w \in versions' : w.createdAt <= clock'  BY <2>2, <2>3 DEF NewestWanted
  <2>5. \A q \in Requests : request'[q].at = "inserting" => q = r
    <3>1. NoneOverlapped'  BY DEF Uploading, Undisturbed
    <3>2. Quiet  BY <1>1, <3>1, AloneBefore
    <3> QED  BY <2>1, <3>2 DEF Sent, Quiet, Open
  <2>6. request'[r].at = "inserting" => request'[r].stamp = clock + 1 /\ clock' = clock + 1
    BY <2>1 DEF Sent
  <2>7. \A q \in Requests : request'[q].at = "inserting" =>
          request'[q].stamp <= clock' /\ \A w \in versions' : w.createdAt < request'[q].stamp
    BY <2>2, <2>3, <2>5, <2>6 DEF NewestWanted
  <2> QED  BY <2>2, <2>4, <2>7 DEF NewestWanted, Newest, Ids
<1>2. CASE ~Sends(r)
  <2>1. PICK s : Moved(r, s)  BY <1>2, MoveEffects, ClearEffect DEF Step, Sends
  <2>2. \A q \in Requests \ {r} : request'[q].at # "inserting"
    BY <2>1 DEF SoloInv, Uploading, Undisturbed, Moved, Open
  <2>3. request[r].op # "select" /\ request'[r].at # "lost"
    BY DEF Uploading, Undisturbed, NoneLost
  <2>4. \A w \in versions : w.createdAt \in Nat  BY DEF TypeOK, Version
  <2>5. clock \in Nat  BY DEF TypeOK
  <2>6. CASE ClearActive(r)
    <3>1. /\ request[r].op = "upload"  BY <2>3, <2>6 DEF ClearActive, Sound, StageSound
    <3>2. clock' = clock + 1 /\ request'[r].stamp = clock + 1 /\ UNCHANGED wanted
          /\ versions' = Inactive(versions)
      BY <2>6, <3>1, ClearEffect
    <3>3. \A w \in versions' : w.createdAt <= clock /\ w.createdAt \in Nat
      BY <2>4, <3>2, InactiveKeeps DEF NewestWanted
    <3>4. \A q \in Requests : request'[q].at = "inserting" =>
            request'[q].stamp <= clock' /\ \A w \in versions' : w.createdAt < request'[q].stamp
      BY <2>2, <2>5, <3>2, <3>3
    <3>5. \A w \in versions' : w.createdAt <= clock'  BY <2>5, <3>2, <3>3
    <3>6. Ids(Newest') = Ids(Newest)  BY <3>2, NewestKept
    <3> QED  BY <3>2, <3>4, <3>5, <3>6 DEF NewestWanted, Ids
  <2>7. CASE InsertVersion(r)
    <3> DEFINE n == [id |-> r, createdAt |-> request[r].stamp, isActive |-> TRUE]
    <3>1. /\ versions' = versions \cup {n} /\ n.id = r /\ n.createdAt = request[r].stamp
          /\ wanted' = r /\ UNCHANGED clock /\ request[r].at = "inserting"
      BY <2>7 DEF InsertVersion
    <3> HIDE DEF n
    <3>2. /\ n.createdAt <= clock /\ \A w \in versions : w.createdAt < n.createdAt
      BY <3>1 DEF NewestWanted
    <3>3. n.createdAt \in Nat  BY <3>1 DEF TypeOK, Request
    <3>4. \A w \in versions' : w.createdAt <= clock'
      BY <3>1, <3>2 DEF NewestWanted
    <3>5. request'[r].at = "done"  BY <2>7, MoveEffects DEF Moved
    <3>6. Newest' = {n}
      <4>1. n \in Newest'  BY <2>4, <3>1, <3>2, <3>3 DEF Newest
      <4>2. ASSUME NEW w \in Newest' PROVE w = n
        <5>1. n.createdAt <= w.createdAt /\ w \in versions \cup {n}  BY <3>1, <4>2 DEF Newest
        <5> QED  BY <2>4, <3>2, <3>3, <5>1
      <4> QED  BY <4>1, <4>2
    <3>7. Ids(Newest') = {wanted'} \ {Null}  BY <3>1, <3>6, TranscriptsAssumption DEF Ids
    <3>8. \A q \in Requests : request'[q].at # "inserting"  BY <2>2, <3>5
    <3> QED  BY <3>4, <3>7, <3>8 DEF NewestWanted, Ids
  <2>8. CASE RemoveVersions(r)
    <3>1. versions' = {} /\ wanted' = Null /\ request'[r].at = "done"
      BY <2>8, MoveEffects DEF RemoveVersions, Moved
    <3>2. \A q \in Requests : request'[q].at # "inserting"  BY <2>2, <3>1
    <3>3. Newest' = {}  BY <3>1 DEF Newest
    <3> QED  BY <3>1, <3>2, <3>3 DEF NewestWanted, Ids
  <2>9. CASE RemoveMeeting(r)
    <3>1. UNCHANGED <<versions, wanted, clock>> /\ request'[r].at = "trimming"
      BY <2>9, MoveEffects DEF RemoveMeeting, Moved
    <3>2. \A q \in Requests : request'[q].at # "inserting"  BY <2>2, <3>1
    <3> QED  BY <3>1, <3>2 DEF NewestWanted, Newest, Ids
  <2>10. ~ScopeSelection(r) /\ ~SaveSelection(r)
    BY <2>3 DEF ScopeSelection, SaveSelection, Sound, StageSound
  <2>11. ~Lose(r)  BY <2>3, MoveEffects DEF Moved
  <2> QED  BY <1>2, <2>6, <2>7, <2>8, <2>9, <2>10, <2>11 DEF Step, Sends
<1> QED  BY <1>1, <1>2

LEMMA ReadersKept ==
  ASSUME TypedSound, Uploading, NEW r \in Requests, Step(r), NEW p \in Readers, ReaderSound(p)
  PROVE  ReaderSound(p)'
<1> USE DEF TypedSound
<1>1. CASE Sends(r)
  <2>1. PICK op, s, v, f, t : Begin(r, op, s, v, f, t) /\ Sent(r, op, s, v, f, t)
    BY <1>1, SendEffect DEF Sends
  <2>2. read' = [q \in Readers |->
          IF read[q].at = "fallback" THEN [read[q] EXCEPT !.valid = @ \cup {v}] ELSE read[q]]
    BY <2>1 DEF Begin
  <2>3. CASE read[p].at # "fallback"
    <3>1. read'[p] = read[p]  BY <2>2, <2>3
    <3> QED  BY <2>3, <3>1 DEF ReaderSound
  <2>4. CASE read[p].at = "fallback"
    <3>1. read'[p] = [read[p] EXCEPT !.valid = @ \cup {v}]  BY <2>2, <2>4
    <3>2. /\ read'[p].at = "fallback" /\ read'[p].got = read[p].got
          /\ read'[p].valid = read[p].valid \cup {v}
      BY <2>4, <3>1 DEF TypeOK
    <3>3. ASSUME NEW q \in Requests, Open(q)' PROVE request'[q].version \in read'[p].valid
      <4>1. CASE q = r  BY <2>1, <3>2, <4>1 DEF Sent
      <4>2. CASE q # r
        BY <2>1, <2>4, <3>2, <3>3, <4>2 DEF Sent, Open, ReaderSound
      <4> QED  BY <4>1, <4>2
    <3>4. wanted' = wanted  BY <2>1 DEF Sent
    <3>5. read'[p].got = Null /\ wanted' \in read'[p].valid \cup {Null}
      BY <2>4, <3>2, <3>4 DEF ReaderSound
    <3> QED  BY <3>2, <3>3, <3>5 DEF ReaderSound
  <2> QED  BY <2>3, <2>4
<1>2. CASE ~Sends(r)
  <2>1. PICK s : Moved(r, s)  BY <1>2, MoveEffects, ClearEffect DEF Step, Sends
  <2>2. \A q \in Requests : Open(q)' => Open(q) /\ request'[q].version = request[q].version
    BY <2>1, ClosedAtMost DEF Moved
  <2>3. wanted' \in {wanted, Null} \/ (Open(r) /\ wanted' = request[r].version)
    <3>1. ~SaveSelection(r)
      BY DEF Uploading, SaveSelection, Sound, StageSound
    <3>2. InsertVersion(r) => wanted' = request[r].version
      BY DEF InsertVersion, Sound, StageSound
    <3> QED
      BY <1>2, <2>1, <3>1, <3>2
         DEF Step, Sends, Moved, ScopeSelection, ClearActive, RemoveMeeting, RemoveVersions, Lose
  <2>4. UNCHANGED read  BY <2>1 DEF Moved
  <2> QED  BY <2>2, <2>3, <2>4 DEF ReaderSound
<1> QED  BY <1>1, <1>2

\* A reader that finds a flag finds that of the version wanted; one that finds
\* none finds that version to be the newest, or another one arrived meanwhile.
LEMMA ReadersAnswered ==
  ASSUME TypedSound, SoloInv, ChoiceInv, Uploading, NewestWanted, NEW p \in Readers,
         \A q \in Readers : ReaderSound(q), FindActive(p) \/ FindNewest(p)
  PROVE  \A q \in Readers : ReaderSound(q)'
<1> USE DEF TypedSound
<1>1. ASSUME NEW q \in Readers, q # p PROVE ReaderSound(q)'
  <2>1. read'[q] = read[q] /\ UNCHANGED <<request, wanted>>
    BY <1>1 DEF FindActive, FindNewest, TypeOK
  <2> QED  BY <2>1 DEF ReaderSound, Open
<1>2. CASE FindActive(p)
  <2>1. UNCHANGED <<request, wanted>>  BY <1>2 DEF FindActive
  <2> DEFINE V == {wanted} \cup {request[r].version : r \in {s \in Requests : Open(s)}}
  <2>a. /\ wanted \in V
        /\ \A r \in Requests : Open(r) => request[r].version \in V
    OBVIOUS
  <2>b. \A w, x : Reading(w, x) = [at |-> w, got |-> x, valid |-> V]  BY DEF Reading
  <2> HIDE DEF V
  <2>2. ASSUME \E v \in Active : read' = [read EXCEPT ![p] = Reading("done", v.id)]
        PROVE  ReaderSound(p)'
    <3>1. PICK v \in Active : read' = [read EXCEPT ![p] = Reading("done", v.id)]  BY <2>2
    <3>2. \A r \in Requests : ~Cleared(r)  BY <3>1 DEF SoloInv, Uploading, Undisturbed
    <3>3. Settled  BY <3>2 DEF ChoiceInv, Uploading
    <3>4. v.id = wanted  BY <3>1, <3>3 DEF Settled, Active, Ids
    <3>5. read'[p] = [at |-> "done", got |-> v.id, valid |-> V]
      BY <2>b, <3>1 DEF TypeOK
    <3>6. read'[p].at = "done" /\ read'[p].got = v.id /\ read'[p].valid = V  BY <3>5
    <3> QED  BY <2>a, <3>4, <3>6 DEF ReaderSound
  <2>3. ASSUME read' = [read EXCEPT ![p] = Reading("fallback", Null)]
        PROVE  ReaderSound(p)'
    <3>1. read'[p] = [at |-> "fallback", got |-> Null, valid |-> V]
      BY <2>b, <2>3 DEF TypeOK
    <3>2. read'[p].at = "fallback" /\ read'[p].got = Null /\ read'[p].valid = V  BY <3>1
    <3> QED  BY <2>1, <2>a, <3>2 DEF ReaderSound, Open
  <2>4. ReaderSound(p)'  BY <1>2, <2>2, <2>3 DEF FindActive
  <2> QED  BY <1>1, <2>4
<1>3. CASE FindNewest(p)
  <2>1. read[p].at = "fallback" /\ read[p] \in ReadState  BY <1>3 DEF FindNewest, TypeOK, ReadState
  <2>2. ASSUME \E v \in Newest : read' = [read EXCEPT ![p].at = "done", ![p].got = v.id]
        PROVE  ReaderSound(p)'
    <3>1. PICK v \in Newest : read' = [read EXCEPT ![p].at = "done", ![p].got = v.id]  BY <2>2
    <3>2. v.id = wanted  BY <3>1 DEF NewestWanted, Ids
    <3>3. read'[p] = [read[p] EXCEPT !.at = "done", !.got = v.id]  BY <3>1 DEF TypeOK
    <3>4. read'[p].at = "done" /\ read'[p].got = v.id /\ read'[p].valid = read[p].valid
      BY <2>1, <3>3 DEF ReadState
    <3> QED  BY <2>1, <3>2, <3>4 DEF ReaderSound
  <2>3. ASSUME read' = [read EXCEPT ![p].at = "done"]
        PROVE  ReaderSound(p)'
    <3>1. read'[p] = [read[p] EXCEPT !.at = "done"]  BY <2>3 DEF TypeOK
    <3>2. read'[p].at = "done" /\ read'[p].got = read[p].got /\ read'[p].valid = read[p].valid
      BY <2>1, <3>1 DEF ReadState
    <3> QED  BY <2>1, <3>2 DEF ReaderSound
  <2>4. ReaderSound(p)'  BY <1>3, <2>2, <2>3 DEF FindNewest
  <2> QED  BY <1>1, <2>4
<1> QED  BY <1>2, <1>3

LEMMA NextRead ==
  ASSUME TypedSound, SoloInv, ChoiceInv, ReadInv, [Next]_vars
  PROVE  ReadInv'
<1> SUFFICES ASSUME Uploading' PROVE NewestWanted' /\ \A p \in Readers : ReaderSound(p)'
  BY DEF ReadInv
<1>1. CASE UNCHANGED vars
  <2>1. Uploading
    BY <1>1 DEF Uploading, Undisturbed, NoneLost, NoneOverlapped, Reselected, vars
  <2> QED
    BY <1>1, <2>1 DEF ReadInv, NewestWanted, Newest, Ids, ReaderSound, Open, vars
<1>2. ASSUME NEW r \in Requests, Step(r)
      PROVE  NewestWanted' /\ \A p \in Readers : ReaderSound(p)'
  <2>1. Uploading  BY <1>2, UploadingBefore
  <2>2. NewestWanted /\ \A p \in Readers : ReaderSound(p)  BY <2>1 DEF ReadInv
  <2> QED  BY <1>2, <2>1, <2>2, NextNewest, ReadersKept
<1>3. ASSUME NEW p \in Readers, FindActive(p) \/ FindNewest(p)
      PROVE  NewestWanted' /\ \A q \in Readers : ReaderSound(q)'
  <2>1. UNCHANGED <<versions, clock, request, wanted>>
    BY <1>3 DEF FindActive, FindNewest
  <2>2. Uploading
    BY <2>1 DEF Uploading, Undisturbed, NoneLost, NoneOverlapped, Reselected
  <2>3. NewestWanted /\ \A q \in Readers : ReaderSound(q)  BY <2>2 DEF ReadInv
  <2>4. NewestWanted'  BY <2>1, <2>3 DEF NewestWanted, Newest, Ids
  <2> QED  BY <1>3, <2>2, <2>3, <2>4, ReadersAnswered
<1> QED  BY <1>1, <1>2, <1>3 DEF Next

\* A reader in the gap of an upload gets the version that was active, or one
\* that was being uploaded while it read.
THEOREM ReadsAreWhatWasAsked == Spec => []ReadsAreAsked
<1> DEFINE Inv == TypedSound /\ SoloInv /\ ChoiceInv /\ ReadInv
<1>1. Init => Inv
  <2>1. Init => SoloInv  BY DEF Init, SoloInv, Open, Active, Cleared
  <2>2. Init => ChoiceInv  BY TranscriptsAssumption DEF Init, ChoiceInv, Settled
  <2>3. Init => ReadInv
    BY DEF Init, ReadInv, NewestWanted, Newest, Ids, ReaderSound
  <2> QED  BY <2>1, <2>2, <2>3, InitSound
<1>2. Inv => ReadsAreAsked
  BY DEF ReadInv, ReadsAreAsked, Uploading, Undisturbed, Reselected, ReaderSound
<1>3. Inv /\ [Next]_vars => Inv'  BY NextSound, NextSolo, NextChoice, NextRead
<1> QED  BY <1>1, <1>2, <1>3, PTL DEF Spec
===============================================================================
