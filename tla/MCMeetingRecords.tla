--------------------------- MODULE MCMeetingRecords ---------------------------
(* Two owners with a meeting each.  The first meeting starts with an attendee *)
(* and an item for it, the second with an attendee and an item for nobody.    *)
(* x2 is x1 in other letters; an attendee made by the first edit is linked.   *)
EXTENDS RecordQueries, TLC

CONSTANTS m1, m2, u1, u2, x1, x2, x3, e1, seed

MCOwner == (m1 :> u1) @@ (m2 :> u2)
MCUserEmail == (u1 :> x1) @@ (u2 :> x3)
MCLower == (x1 :> x1) @@ (x2 :> x1) @@ (x3 :> x3)
MCLinked == {<< <<e1, 1>>, u1 >>}
MCAttendees ==
  {[id |-> <<seed, 1>>, meeting |-> m1, email |-> x1, ai |-> FALSE],
   [id |-> <<seed, 4>>, meeting |-> m2, email |-> x1, ai |-> FALSE]}
MCItems ==
  {[id |-> <<seed, 2>>, meeting |-> m1, assignee |-> <<seed, 1>>, ai |-> TRUE],
   [id |-> <<seed, 3>>, meeting |-> m2, assignee |-> Null, ai |-> FALSE]}
\* An attendee of each meeting, one made in the run, one that never is.
MCAssigneeIds == {<<seed, 1>>, <<seed, 4>>, <<e1, 1>>, <<seed, 9>>, Null}
===============================================================================
