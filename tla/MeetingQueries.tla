---------------------------- MODULE MeetingQueries ----------------------------
(***************************************************************************)
(* A user goes through the pages of findUserMeetings (meetings.service.ts) *)
(* while meetings are created, edited and deleted.  A page is two or three *)
(* awaited calls: the meetings that have action items, when only those are *)
(* wanted, and then the page and the total, asked for together and         *)
(* answered in any order.                                                  *)
(*                                                                         *)
(* The client asks for page after page until one comes back short; it is   *)
(* not part of the repository.  A meeting is its date and whether it has   *)
(* items: search and status narrow the list as the range of dates does.    *)
(***************************************************************************)
EXTENDS Naturals, FiniteSets, FiniteSetsExt, SequencesExt, Functions

CONSTANTS
  Owned,        \* ids of meetings the user has or may create
  Theirs,       \* the meetings of other users, [ids -> Meeting]
  Dates,        \* values of scheduledAt
  Inputs,       \* what the client may ask for: the fields of PaginatedMeetingsDto
  MaxChanges,   \* bound on the changes made during the walk
  NotRead       \* what has not been answered yet

Meeting == [date : Dates, todo : BOOLEAN]
PaginatedMeetingsDto ==
  [pageSize : Nat \ {0}, range : SUBSET Dates, newestFirst : BOOLEAN, hasTodos : BOOLEAN]
Others == DOMAIN Theirs

ASSUME QueriesAssumption ==
  /\ Dates \subseteq Nat /\ MaxChanges \in Nat
  /\ Inputs \subseteq PaginatedMeetingsDto
  /\ Theirs \in [Others -> Meeting]
  /\ IsFiniteSet(Owned) /\ Owned \cap Others = {}

VARIABLES
  meetings,     \* the meetings collection: [ids stored -> Meeting]
  input,        \* what the walk asks for
  at,           \* "asking", "todos", "reading", "ended"
  pageNo,
  withItems,    \* meetingIdsWithActionItems of this request
  page, total,  \* the answers of this request
  seen,         \* the meetings of the pages so far, in the order shown
  upset         \* what has changed since the walk began (no such record exists)

request == <<input, at, pageNo, withItems, page, total, seen>>
vars == <<meetings, request, upset>>

(***************************************************************************)
(* The queries                                                             *)
(***************************************************************************)
Ids == DOMAIN meetings
InRange(m) == meetings[m].date \in input.range

\* getUserMeetings, and the meetings findUserActionItems starts from.
FindAllUserMeetings == {m \in Ids \cap Owned : InRange(m)}

Matching(ids) == {m \in Ids \cap Owned \cap ids : InRange(m)}

\* Mutant: the order asked for is ignored.
Before_OldestFirst(m, n) == meetings[m].date <= meetings[n].date

Before(m, n) == IF input.newestFirst THEN meetings[m].date >= meetings[n].date
                                     ELSE meetings[m].date <= meetings[n].date

\* Mutant: the pages are cut from an unsorted list.
Sorted_Not(S) == SetToSeqs(S)

\* The orders the database may return S in: equal dates come in any order,
\* and not in the same one for every page.
Sorted(S) == {s \in SetToSeqs(S) : \A i, j \in 1..Len(s) : i < j => Before(s[i], s[j])}

\* Mutant: pages are counted from zero.
SkipLimit_FromZero(s) ==
  SubSeq(s, pageNo * input.pageSize + 1,
         Min({Len(s), (pageNo + 1) * input.pageSize}))

SkipLimit(s) ==
  SubSeq(s, (pageNo - 1) * input.pageSize + 1, Min({Len(s), pageNo * input.pageSize}))

Init ==
  /\ \E S \in SUBSET Owned : \E mine \in [S -> Meeting] :
       meetings = [m \in S \cup Others |-> IF m \in S THEN mine[m] ELSE Theirs[m]]
  /\ input \in Inputs
  /\ at = "asking" /\ pageNo = 1 /\ withItems = {}
  /\ page = NotRead /\ total = NotRead /\ seen = <<>>
  /\ upset = [came |-> {}, gone |-> {}, moved |-> {}, tied |-> FALSE, n |-> 0]

FindUserMeetings ==
  /\ at = "asking"
  /\ at' = IF input.hasTodos THEN "todos" ELSE "reading"
  /\ withItems' = {}
  /\ total' = NotRead
  /\ UNCHANGED <<meetings, input, pageNo, page, seen, upset>>

FindTodos ==
  /\ at = "todos"
  /\ at' = "reading"
  /\ withItems' = {m \in Ids : meetings[m].todo}
  /\ UNCHANGED <<meetings, input, pageNo, page, total, seen, upset>>

\* A request without hasTodos asks for meetings that come after it began, too.
Wanted == Matching(IF input.hasTodos THEN withItems ELSE Ids)

ReadPage ==
  /\ at = "reading" /\ page = NotRead
  /\ \E s \in Sorted(Wanted) : page' = SkipLimit(s)
  /\ UNCHANGED <<meetings, input, at, pageNo, withItems, total, seen, upset>>

CountMeetings ==
  /\ at = "reading" /\ total = NotRead
  /\ total' = Cardinality(Wanted)
  /\ UNCHANGED <<meetings, input, at, pageNo, withItems, page, seen, upset>>

\* The client shows the page and asks for the next one after a full one.
ShowPage ==
  /\ at = "reading" /\ NotRead \notin {page, total}
  /\ seen' = seen \o page
  /\ page' = NotRead
  /\ IF Len(page) < input.pageSize THEN at' = "ended" /\ UNCHANGED pageNo
                                   ELSE at' = "asking" /\ pageNo' = pageNo + 1
  /\ withItems' = {}
  /\ UNCHANGED <<meetings, input, total, upset>>

(***************************************************************************)
(* Meanwhile                                                               *)
(***************************************************************************)
\* What of a stored meeting the filter looks at; the two reads of a request
\* look at it at different moments.
Passes(ms, m) == (IF ms[m].date \in input.range THEN {"range"} ELSE {})
                   \cup (IF ~input.hasTodos \/ ms[m].todo THEN {"todos"} ELSE {})
Traits(ms) == UNION {{m} \X Passes(ms, m) : m \in Owned \cap DOMAIN ms}
Listed(ms) == {m \in Owned \cap DOMAIN ms : Cardinality(Passes(ms, m)) = 2}

Tied(ms) == \E m, n \in Listed(ms) : m # n /\ ms[m].date = ms[n].date

\* Every change is one call, made while the walk goes on.
Changes(ms) ==
  /\ at # "ended" /\ upset.n < MaxChanges
  /\ meetings' = ms
  /\ upset' = [came |-> upset.came \cup {t[1] : t \in Traits(ms) \ Traits(meetings)},
               gone |-> upset.gone \cup {t[1] : t \in Traits(meetings) \ Traits(ms)},
               moved |-> upset.moved \cup {m \in Owned \cap Ids \cap DOMAIN ms :
                                            ms[m].date # meetings[m].date},
               tied |-> upset.tied \/ Tied(meetings) \/ Tied(ms),
               n |-> upset.n + 1]
  /\ UNCHANGED request

\* The id of a deleted meeting stands for a new one.
CreateMeeting ==
  \E m \in Owned \ Ids, d \in Dates :
    Changes([n \in Ids \cup {m} |-> IF n = m THEN [date |-> d, todo |-> FALSE]
                                              ELSE meetings[n]])

\* updateMeeting loads the meeting and saves the fields that differ; a
\* meeting deleted in between is not stored again, so the save is the only
\* call that matters here.
UpdateMeeting ==
  \E m \in Owned \cap Ids : \E d \in Dates \ {meetings[m].date} :
    Changes([meetings EXCEPT ![m].date = d])

DeleteMeeting == \E m \in Owned \cap Ids : Changes(Restrict(meetings, Ids \ {m}))

\* The first action item of a meeting is added, or its last one deleted.
ChangeItems == \E m \in Owned \cap Ids : Changes([meetings EXCEPT ![m].todo = ~@])

Request == FindUserMeetings \/ FindTodos \/ ReadPage \/ CountMeetings \/ ShowPage
Next == Request \/ CreateMeeting \/ UpdateMeeting \/ DeleteMeeting \/ ChangeItems

Spec == Init /\ [][Next]_vars

-------------------------------------------------------------------------------
(***************************************************************************)
(* Properties.  Where dates are equal the code sorts no further, and pages *)
(* may overlap even if nothing changes: `tied' walks are promised nothing. *)
(***************************************************************************)
Ended == at = "ended" /\ ~upset.tied /\ ~Tied(meetings)
Shown == {seen[i] : i \in 1..Len(seen)}

\* Meetings that come while the pages are turned push others to later pages,
\* never to earlier ones: what was there all along is not skipped.
NothingSkipped ==
  Ended /\ upset.gone \cup upset.moved = {} => Listed(meetings) \ upset.came \subseteq Shown

\* Meetings that go pull others to earlier pages: nothing is shown twice.
NothingRepeated ==
  Ended /\ upset.came \cup upset.moved = {} => IsInjective(seen)

\* A walk during which nothing changed shows the meetings of getUserMeetings
\* that were asked for, all of them once, in the order asked for, and each
\* page came with their number.
WalkIsWhole ==
  Ended /\ upset.n = 0 =>
    /\ Shown = {m \in FindAllUserMeetings : input.hasTodos => meetings[m].todo}
    /\ total = Len(seen)
    /\ \A i, j \in 1..Len(seen) : i < j =>
         IF input.newestFirst THEN meetings[seen[i]].date > meetings[seen[j]].date
                              ELSE meetings[seen[i]].date < meetings[seen[j]].date
===============================================================================
