-------------------------- MODULE RecordQueriesProofs --------------------------
(***************************************************************************)
(* Proofs about what RecordQueries shows users, for every set of meetings, *)
(* users, e-mails and requests, however the requests overlap.              *)
(***************************************************************************)
EXTENDS RecordQueries, MeetingRecordsProofs, FiniteSetTheorems

\* A list with a filter is cut down to the meetings of the user.
LEMMA ItemsOfUser ==
  ASSUME NEW u, NEW filter, NEW i \in FindUserActionItems(u, filter)
  PROVE  i \in actionItems /\ i.meeting \in UserMeetings(u)
BY DEF FindUserActionItems

(***************************************************************************)
(* Assignees.  Who an item is assigned to was named by the owner of its    *)
(* meeting: a save writes what its own request carries, to an item of the  *)
(* meeting the request was checked against.                                *)
(***************************************************************************)
AskedInv ==
  /\ \A e \in Edits : edit[e].at = "idle" => edit[e].op = Null
  /\ \A i \in actionItems : i.assignee # Null => i.assignee \in Asked(Owner[i.meeting])

LEMMA InitAsked == RecordsInit => AskedInv
BY DEF RecordsInit, AskedInv, Blank, Asked

\* What a request asks for it asks for until the end.
LEMMA AskedGrows ==
  ASSUME RecordsInv, AskedInv, NEW e \in Edits, EditStep(e), NEW u, NEW d \in Asked(u)
  PROVE  d \in Asked(u)'
<1>1. CASE \E i \in {j \in FirstItems : Owner[j.meeting] = u} : d = i.assignee
  BY <1>1 DEF Asked
<1>2. CASE \E f \in Edits : /\ edit[f].user = u /\ edit[f].value = d
                            /\ edit[f].op \in {"createActionItem", "updateActionItem"}
  <2>1. PICK f \in Edits : /\ edit[f].user = u /\ edit[f].value = d
                           /\ edit[f].op \in {"createActionItem", "updateActionItem"}
    BY <1>2
  <2>2. CASE SendEdit(e)
    <3>1. edit[e].at = "idle" /\ \A g \in Edits \ {e} : edit'[g] = edit[g]  BY <2>2, SendEffect
    <3>2. edit[e].op = Null  BY <3>1 DEF AskedInv
    <3>3. f # e  BY <2>1, <3>2, RecordsAssumption DEF Operations
    <3> QED  BY <2>1, <3>1, <3>3 DEF Asked
  <2>3. CASE RunEdit(e) \/ LoseEdit(e)
    <3>1. /\ edit'[f].user = edit[f].user /\ edit'[f].value = edit[f].value
          /\ edit'[f].op = edit[f].op
      BY <2>3, RunEffect DEF Carries
    <3> QED  BY <2>1, <3>1 DEF Asked
  <2> QED  BY <2>2, <2>3 DEF EditStep
<1> QED  BY <1>1, <1>2 DEF Asked

LEMMA AskedStep ==
  ASSUME SoundRecords, AskedInv, NEW e \in Edits, EditStep(e)
  PROVE  AskedInv'
<1> USE DEF SoundRecords
<1>1. \A f \in Edits : edit'[f].at = "idle" => edit'[f].op = Null
  <2>1. CASE SendEdit(e)  BY <2>1, SendEffect DEF AskedInv
  <2>2. CASE RunEdit(e) \/ LoseEdit(e)  BY <2>2, RunEffect DEF AskedInv, Carries
  <2> QED  BY <2>1, <2>2 DEF EditStep
<1>2. ASSUME NEW i \in actionItems', i.assignee # Null
      PROVE  i.assignee \in Asked(Owner[i.meeting])'
  <2>1. ASSUME NEW k \in actionItems, k.meeting = i.meeting, k.assignee = i.assignee
        PROVE  i.assignee \in Asked(Owner[i.meeting])'
    BY <1>2, <2>1, AskedGrows DEF AskedInv
  <2>2. CASE SendEdit(e)
    <3>1. i \in actionItems  BY <2>2, SendEffect DEF records
    <3> QED  BY <2>1, <3>1
  <2>3. CASE RunEdit(e) \/ LoseEdit(e)
    <3>1. ItemFrom(e, i) /\ Carries(e)  BY <2>3, RunEffect
    <3>2. ASSUME edit[e].op \in {"createActionItem", "updateActionItem"}, edit[e].at = "writing",
                 i.meeting = edit[e].meeting, i.assignee = edit[e].value
          PROVE  i.assignee \in Asked(Owner[i.meeting])'
      <4>1. edit[e].user = Owner[i.meeting]  BY <3>2 DEF Integrity, ScopedEdit
      <4>2. i.assignee \in Asked(Owner[i.meeting])  BY <3>2, <4>1 DEF Asked
      <4> QED  BY <4>2, AskedGrows
    <3>3. ASSUME NEW k \in actionItems, k.id = i.id, k.meeting = i.meeting,
                 Writes(e, "updateActionItem"), i.id = edit[e].doc, i.assignee = edit[e].value
          PROVE  i.assignee \in Asked(Owner[i.meeting])'
      <4>1. i.meeting = edit[e].meeting
        BY <3>3 DEF Integrity, ScopedEdit, ItemEdit, Writes
      <4> QED  BY <3>2, <3>3, <4>1 DEF Writes
    <3>4. ASSUME Writes(e, "createActionItem"), i.meeting = edit[e].meeting,
                 i.assignee = edit[e].value
          PROVE  i.assignee \in Asked(Owner[i.meeting])'
      BY <3>2, <3>4 DEF Writes
    <3> QED  BY <2>1, <3>1, <3>3, <3>4 DEF ItemFrom
  <2> QED  BY <2>2, <2>3 DEF EditStep
<1> QED  BY <1>1, <1>2 DEF AskedInv

LEMMA NextAsked == SoundRecords /\ AskedInv /\ [RecordsNext]_recordVars => AskedInv'
<1>1. AskedInv /\ UNCHANGED recordVars => AskedInv'
  BY DEF AskedInv, Asked, recordVars, records
<1> QED  BY <1>1, AskedStep DEF RecordsNext

\* Attendees are fetched by the ids the items hold.
LEMMA AssigneesOfItems ==
  ASSUME AskedInv, NEW u, NEW items \in SUBSET actionItems,
         \A i \in items : i.meeting \in UserMeetings(u),
         NEW a \in FindAttendeesByIds({i.assignee : i \in items} \ {Null})
  PROVE  a.id \in Asked(u)
<1>1. PICK i \in items : a.id = i.assignee /\ i.assignee # Null  BY DEF FindAttendeesByIds
<1>2. Owner[i.meeting] = u  BY <1>1 DEF UserMeetings, FindsMeeting
<1> QED  BY <1>1, <1>2 DEF AskedInv

LEMMA ShownIsScoped ==
  ASSUME SoundRecords, AskedInv
  PROVE  ListsAreScoped
<1>1. \A a \in attendees : a.meeting \in Meetings
  BY DEF SoundRecords, RecordsInv, RecordsTypeOK, Attendee
<1>2. ASSUME NEW u \in Users, NEW i \in ItemsShown(u)
      PROVE  i \in actionItems /\ i.meeting \in UserMeetings(u)
  <2>1. PICK filter \in Filters : i \in FindUserActionItems(u, filter)
    BY <1>2 DEF ItemsShown
  <2> QED  BY <2>1, ItemsOfUser
<1>3. ASSUME NEW u \in Users, NEW a \in AttachAssignees(ItemsShown(u))
      PROVE  a.id \in Asked(u)
  <2>1. ItemsShown(u) \in SUBSET actionItems  BY <1>2
  <2> QED  BY <1>2, <1>3, <2>1, AssigneesOfItems DEF AttachAssignees
<1>4. ASSUME NEW u \in Users, NEW a \in FindDistinctAssignees(u)
      PROVE  a.id \in Asked(u)
  <2> DEFINE I == {j \in actionItems : j.meeting \in UserMeetings(u)}
  <2>1. I \in SUBSET actionItems /\ \A i \in I : i.meeting \in UserMeetings(u)  OBVIOUS
  <2>2. a \in FindAttendeesByIds({i.assignee : i \in I} \ {Null})
    BY <1>4 DEF FindDistinctAssignees
  <2> HIDE DEF I
  <2> QED  BY <2>1, <2>2, AssigneesOfItems
<1>5. ASSUME NEW u \in Users, NEW a \in AttendeesListed(u)
      PROVE  a.meeting \in UserMeetings(u)
  <2>1. PICK m \in Meetings : FindMeetingAttendees(u, m) # Null /\ a \in FindMeetingAttendees(u, m)
    BY <1>5 DEF AttendeesListed
  <2> QED  BY <2>1 DEF FindMeetingAttendees, UserMeetings
<1>6. ASSUME NEW u \in Users, NEW a \in AttendeesFound(u)
      PROVE  a.meeting \in UserMeetings(u)
  <2>1. PICK d : a = FindOwnedAttendeeById(u, d) /\ a # Null  BY <1>6 DEF AttendeesFound
  <2> DEFINE found == {b \in FindAttendeesByIds({d}) : FindsMeeting(u, b.meeting)}
  <2>2. a \in found
    <3>1. found # {} /\ a = CHOOSE b \in found : TRUE  BY <2>1 DEF FindOwnedAttendeeById
    <3> HIDE DEF found
    <3> QED  BY <3>1
  <2> QED  BY <1>1, <2>2 DEF FindAttendeesByIds, UserMeetings
<1> QED  BY <1>2, <1>3, <1>4, <1>5, <1>6 DEF ListsAreScoped

\* The items a user is shown, and the attendees of a meeting, are of meetings the
\* user owns; the assignees shown with them were named by this user.
THEOREM ListsAreScopedHolds == RecordsSpec => []ListsAreScoped
<1>1. SoundRecords /\ AskedInv => ListsAreScoped  BY ShownIsScoped
<1> QED  BY <1>1, InitAsked, InitSound, NextIntegrity, NextAsked, PTL DEF RecordsSpec

-------------------------------------------------------------------------------
(***************************************************************************)
(* A meeting's own items, on its page and on the list of all meetings.     *)
(***************************************************************************)
FiniteAttendees == IsFiniteSet(attendees)

LEMMA NextFinite ==
  ASSUME FiniteAttendees, [RecordsNext]_recordVars
  PROVE  FiniteAttendees'
<1>1. CASE UNCHANGED attendees  BY <1>1 DEF FiniteAttendees
<1>2. ASSUME NEW e \in Edits, EditStep(e) PROVE FiniteAttendees'
  <2>1. CASE InsertAttendee(e)
    BY <2>1, FS_AddElement DEF InsertAttendee, FiniteAttendees
  <2>2. CASE SaveAttendee(e)
    <3>1. ASSUME NEW d, NEW x PROVE IsFiniteSet(Patched(attendees, d, "email", x))
      <4> DEFINE on(k) == IF k.id = d THEN [k EXCEPT !.email = x] ELSE k
      <4>1. Patched(attendees, d, "email", x) = {on(k) : k \in attendees}  BY DEF Patched
      <4> HIDE DEF on
      <4> DEFINE f == [k \in attendees |-> on(k)]
                 T == {on(k) : k \in attendees}
      <4>2. f \in Surjection(attendees, T)  BY DEF Surjection
      <4>3. IsFiniteSet(T)  BY ONLY <4>2, FS_Surjection, FiniteAttendees DEF FiniteAttendees
      <4> QED  BY <4>1, <4>3
    <3> QED  BY <2>2, <3>1 DEF SaveAttendee, FiniteAttendees
  <2>3. CASE RemoveAttendee(e)
    <3>1. attendees' \subseteq attendees  BY <2>3 DEF RemoveAttendee, Without
    <3> QED  BY <3>1, FS_Subset DEF FiniteAttendees
  <2>4. CASE UNCHANGED attendees  BY <2>4 DEF FiniteAttendees
  <2> QED
    BY <1>2, <2>1, <2>2, <2>3, <2>4
       DEF EditStep, SendEdit, UpdateAttendee, DeleteAttendee, AddAttendee, CreateActionItem,
           UpdateActionItem, DeleteActionItem, SetTranscript, DeleteMeeting, LoadAttendee,
           ScopedRequest, RunEdit, ScopeAttendee, CheckEmail, FindActionItem, InsertActionItem,
           SaveActionItem, RemoveActionItem, StoreTranscript, RemoveMeeting, RemoveTranscripts,
           LoseEdit, records
<1> QED  BY <1>1, <1>2 DEF RecordsNext, recordVars, records

\* Two attendees in a finite set make more than one.
LEMMA TwoAreMore ==
  ASSUME NEW S, IsFiniteSet(S), NEW a \in S, NEW b \in S, a # b
  PROVE  Cardinality(S) > 1
<1>1. Cardinality({a}) = 1 /\ IsFiniteSet({a})  BY FS_Singleton
<1>2. Cardinality({a} \cup {b}) = 2 /\ {a} \cup {b} \in SUBSET S
  BY <1>1, FS_AddElement
<1>3. Cardinality({a} \cup {b}) <= Cardinality(S) /\ Cardinality(S) \in Nat
  BY <1>2, FS_Subset, FS_CardinalityType
<1> QED  BY <1>2, <1>3

\* The list of all meetings, cut down to one of them.
LEMMA ListOfMeeting ==
  ASSUME NEW u \in Users, NEW m \in UserMeetings(u), NEW f \in BOOLEAN
  PROVE  FindUserActionItems(u, [Unfiltered EXCEPT !.meeting = m, !.onlyMine = f])
           = {i \in FindActionItemsByMeetingId(m) : f => i.assignee \in FindAttendeeIdsForUser(u)}
<1> DEFINE filter == [Unfiltered EXCEPT !.meeting = m, !.onlyMine = f]
<1>1. filter.meeting = m /\ filter.onlyMine = f /\ filter.assignee = Null  BY DEF Unfiltered
<1>2. m # Null  BY RecordsAssumption DEF UserMeetings
<1> HIDE DEF filter
<1>3. WantedAssignee(u, filter)
        = IF f THEN FindAttendeeIdsForUser(u) ELSE {i.assignee : i \in actionItems}
  BY <1>1 DEF WantedAssignee
<1>4. FindUserActionItems(u, filter)
        = {i \in actionItems : i.meeting = m /\ i.assignee \in WantedAssignee(u, filter)}
  BY <1>1, <1>2 DEF FindUserActionItems
<1>5. FindUserActionItems(u, filter)
        = {i \in FindActionItemsByMeetingId(m) : f => i.assignee \in FindAttendeeIdsForUser(u)}
  BY <1>3, <1>4 DEF FindActionItemsByMeetingId
<1> QED  BY <1>5 DEF filter

\* An item of the meeting is assigned to the user as an attendee of another.
MineElsewhere(u, m) ==
  \E i \in FindActionItemsByMeetingId(m), a \in attendees :
    i.assignee = a.id /\ IsUser(a, u) /\ a.meeting # m

LEMMA MineShown ==
  ASSUME FiniteAttendees
  PROVE  MineAgree
<1> SUFFICES ASSUME NEW u \in Users, NEW m \in UserMeetings(u), NEW f \in BOOLEAN,
                    NEW page \in FindActionItemsByMeetingIdForUser(u, m, f)
             PROVE  LET list == FindUserActionItems(u, [Unfiltered EXCEPT !.meeting = m, !.onlyMine = f])
                    IN /\ page \subseteq list
                       /\ page # list =>
                            f /\ (Cardinality(Matching(m, u)) > 1 \/ MineElsewhere(u, m))
  BY Zenon DEF MineAgree, MineElsewhere
<1> DEFINE list == {i \in FindActionItemsByMeetingId(m) : f => i.assignee \in FindAttendeeIdsForUser(u)}
           mine == FindAttendeeForMeetingAndUser(m, u)
<1>1. FindsMeeting(u, m)  BY DEF UserMeetings
<1>2. mine = Matching(m, u)  BY DEF FindAttendeeForMeetingAndUser, Matching
\* Who an item of the list is assigned to is an attendee of the meeting, or of
\* another one.
<1>3. ASSUME f, ~MineElsewhere(u, m), NEW i \in list
      PROVE  \E a \in mine : i.assignee = a.id
  <2>1. PICK a \in attendees : IsUser(a, u) /\ i.assignee = a.id
    BY <1>3 DEF FindAttendeeIdsForUser
  <2>2. a.meeting = m  BY <1>3, <2>1 DEF MineElsewhere
  <2> QED  BY <2>1, <2>2 DEF FindAttendeeForMeetingAndUser
<1>4. ASSUME NEW a \in mine
      PROVE  a.id \in FindAttendeeIdsForUser(u)
  BY DEF FindAttendeeIdsForUser, FindAttendeeForMeetingAndUser
<1>5. page \subseteq list /\ (page # list => f /\ (Cardinality(mine) > 1 \/ MineElsewhere(u, m)))
  <2>1. CASE ~f
    BY <1>1, <2>1 DEF FindActionItemsByMeetingIdForUser
  <2>2. CASE f /\ mine = {}
    <3>1. page = {}  BY <1>1, <2>2 DEF FindActionItemsByMeetingIdForUser
    <3> QED  BY <1>3, <2>2, <3>1
  <2>3. CASE f /\ mine # {}
    <3>1. PICK a \in mine : page = {i \in FindActionItemsByMeetingId(m) : i.assignee = a.id}
      BY <1>1, <2>3 DEF FindActionItemsByMeetingIdForUser
    <3>2. page \subseteq list  BY <1>4, <2>3, <3>1
    <3>3. ASSUME page # list, ~MineElsewhere(u, m) PROVE Cardinality(mine) > 1
      <4>1. PICK i \in list : i \notin page  BY <3>2, <3>3
      <4>2. PICK b \in mine : i.assignee = b.id  BY <1>3, <2>3, <3>3
      <4>3. a # b  BY <3>1, <4>1, <4>2
      <4>4. IsFiniteSet(mine)
        BY FS_Subset DEF FiniteAttendees, FindAttendeeForMeetingAndUser
      <4> HIDE DEF mine
      <4> QED  BY <4>3, <4>4, TwoAreMore
    <3> QED  BY <2>3, <3>2, <3>3
  <2> QED  BY <2>1, <2>2, <2>3
<1> QED  BY <1>2, <1>5, ListOfMeeting

\* A meeting's own items are the same on its page and on the list of all
\* meetings, unless several attendees of the meeting are the user, or an item is
\* assigned to the user as an attendee of another meeting.
THEOREM MineAgreeHolds == RecordsSpec => []MineAgree
<1>1. RecordsInit => FiniteAttendees
  BY RecordsAssumption DEF RecordsInit, FiniteAttendees
<1>2. FiniteAttendees => MineAgree  BY MineShown
<1>3. FiniteAttendees /\ [RecordsNext]_recordVars => FiniteAttendees'  BY NextFinite
<1> QED  BY <1>1, <1>2, <1>3, PTL DEF RecordsSpec
===============================================================================
