----------------------------- MODULE RecordQueries -----------------------------
(***************************************************************************)
(* What users are shown of the records: the queries of                     *)
(* action-items.service.ts and attendees.service.ts.  Each is given by     *)
(* what it answers in one state; the edits of MeetingRecords go on around  *)
(* it.  Null stands for a query that is refused.                           *)
(*                                                                         *)
(* The text search and the range of dates only narrow a list, and are left *)
(* out.                                                                    *)
(***************************************************************************)
EXTENDS MeetingRecords

CONSTANTS
  UserEmail,      \* [Users -> the e-mail the account signed up with]
  Lower,          \* [addresses -> the address in lower case]
  Linked          \* <<attendee, user>>: the userId an attendee was created with;
                  \* no request changes it later

ASSUME QueriesAssumption ==
  /\ Linked \subseteq DocId \X Users
  /\ \A l, k \in Linked : l[1] = k[1] => l[2] = k[2]

UserMeetings(u) == {m \in Meetings : FindsMeeting(u, m)}

(***************************************************************************)
(* attendees.service.ts                                                    *)
(***************************************************************************)
\* buildUserMatchConditions: by userId, or by e-mail in any letter case.
IsUser(a, u) ==
  \/ <<a.id, u>> \in Linked
  \/ a.email # Null /\ Lower[a.email] = Lower[UserEmail[u]]

FindAttendeesByIds(ids) == {a \in attendees : a.id \in ids}

FindAttendeeIdsForUser(u) == {a.id : a \in {b \in attendees : IsUser(b, u)}}

\* Mutant: the meeting is left out of the condition.
FindAttendeeForMeetingAndUser_AnyMeeting(m, u) == {a \in attendees : IsUser(a, u)}

\* findOne: whichever the database meets first.
FindAttendeeForMeetingAndUser(m, u) == {a \in attendees : a.meeting = m /\ IsUser(a, u)}

FindMeetingAttendees(u, m) ==
  IF FindsMeeting(u, m) THEN {a \in attendees : a.meeting = m} ELSE Null

FindOwnedAttendeeById(u, d) ==
  LET found == {a \in FindAttendeesByIds({d}) : FindsMeeting(u, a.meeting)}
  IN IF found = {} THEN Null ELSE CHOOSE a \in found : TRUE

(***************************************************************************)
(* action-items.service.ts                                                 *)
(***************************************************************************)

\* The assignees shown with the items; an id that finds no attendee shows none.
AttachAssignees(items) == FindAttendeesByIds({i.assignee : i \in items} \ {Null})

FindActionItemsByMeetingId(m) == {i \in actionItems : i.meeting = m}

\* The lists getActionItems may answer, with and without onlyMine.
FindActionItemsByMeetingIdForUser(u, m, onlyMine) ==
  IF ~FindsMeeting(u, m) THEN {}
  ELSE IF ~onlyMine THEN {FindActionItemsByMeetingId(m)}
  ELSE LET mine == FindAttendeeForMeetingAndUser(m, u)
       IN IF mine = {} THEN {{}}
          ELSE {{i \in FindActionItemsByMeetingId(m) : i.assignee = a.id} : a \in mine}

\* onlyMine wins over the assignee of the filter.
WantedAssignee(u, filter) ==
  IF filter.onlyMine THEN FindAttendeeIdsForUser(u)
  ELSE IF filter.assignee # Null THEN {filter.assignee}
  ELSE {i.assignee : i \in actionItems}

\* Mutant: with onlyMine the user's own attendees are enough of a filter.
FindUserActionItems_MineAnywhere(u, filter) ==
  LET ms == IF filter.onlyMine THEN Meetings
            ELSE IF filter.meeting = Null THEN UserMeetings(u)
            ELSE UserMeetings(u) \cap {filter.meeting}
  IN {i \in actionItems : i.meeting \in ms /\ i.assignee \in WantedAssignee(u, filter)}

FindUserActionItems(u, filter) ==
  LET ms == IF filter.meeting = Null THEN UserMeetings(u)
            ELSE UserMeetings(u) \cap {filter.meeting}
  IN {i \in actionItems : i.meeting \in ms /\ i.assignee \in WantedAssignee(u, filter)}

FindDistinctAssignees(u) ==
  FindAttendeesByIds({i.assignee : i \in {j \in actionItems : j.meeting \in UserMeetings(u)}} \ {Null})

Unfiltered == [meeting |-> Null, assignee |-> Null, onlyMine |-> FALSE]

(***************************************************************************)
(* Properties                                                              *)
(***************************************************************************)

Filters == {[Unfiltered EXCEPT !.meeting = m, !.onlyMine = f] :
              m \in Meetings \cup {Null}, f \in BOOLEAN}
ItemsShown(u) == UNION {FindUserActionItems(u, filter) : filter \in Filters}
AttendeesListed(u) == UNION ({FindMeetingAttendees(u, m) : m \in Meetings} \ {Null})
AttendeesFound(u) == {FindOwnedAttendeeById(u, a.id) : a \in attendees} \ {Null}

\* Assignees named by the user: in a request of the user's own, or before the
\* model starts on an item of one of the user's meetings.
Asked(u) ==
  {edit[e].value : e \in {f \in Edits :
      edit[f].user = u /\ edit[f].op \in {"createActionItem", "updateActionItem"}}}
    \cup {i.assignee : i \in {j \in FirstItems : Owner[j.meeting] = u}}

\* The items a user is shown and the attendees of a meeting's page are of
\* meetings the user owns; what is left behind by a deleted meeting is shown to
\* nobody.  The assignees shown with the items are fetched by id alone
\* (action-items.service.ts:121), so they may be attendees of anybody; but only
\* of ids this user sent: no other user's request, and no save of a stale copy,
\* puts an attendee in front of somebody who did not name it.
ListsAreScoped ==
  \A u \in Users :
    /\ \A d \in ItemsShown(u) \cup AttendeesListed(u) \cup AttendeesFound(u) :
         d.meeting \in UserMeetings(u)
    /\ \A a \in AttachAssignees(ItemsShown(u)) \cup FindDistinctAssignees(u) :
         a.id \in Asked(u)

\* A meeting's own items are the same on its page and on the list of all
\* meetings, but in two cases, and then the page shows less.  The page looks up
\* one attendee of the meeting, the list all attendees of anywhere: they differ
\* where several attendees of the meeting are the user - linked by userId and by
\* e-mail, by two spellings of the address, which the duplicate check tells
\* apart, or by two overlapping edits - and where an item is assigned to an
\* attendee of another meeting who is the user.
Matching(m, u) == {a \in attendees : a.meeting = m /\ IsUser(a, u)}

MineAgree ==
  \A u \in Users : \A m \in UserMeetings(u) : \A f \in BOOLEAN :
    LET list == FindUserActionItems(u, [Unfiltered EXCEPT !.meeting = m, !.onlyMine = f])
    IN \A page \in FindActionItemsByMeetingIdForUser(u, m, f) :
         /\ page \subseteq list
         /\ page # list =>
              /\ f
              /\ \/ Cardinality(Matching(m, u)) > 1
                 \/ \E i \in FindActionItemsByMeetingId(m), a \in attendees :
                      i.assignee = a.id /\ IsUser(a, u) /\ a.meeting # m

=================================================================================
