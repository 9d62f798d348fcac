---------------------------- MODULE MCAiProcessing ----------------------------
(* One owner; the first meeting may start with a manual attendee that shares  *)
(* an e-mail with the model's answers and a manual item assigned to nobody.   *)
EXTENDS AiProcessing, TLC

CONSTANTS m1, m2, u1, x1, x2, seed, p

MCOwner == [m \in Meetings |-> u1]
MCAttendees == {[id |-> <<seed, 1>>, meeting |-> m1, email |-> x1, ai |-> FALSE]}
MCItems == {[id |-> <<seed, 1>>, meeting |-> m1, assignee |-> Null, ai |-> FALSE]}
NoDocuments == {}
\* The attendee there is at the start, the first that generation p makes.
MCAssigneeIds == {<<seed, 1>>, <<p, 1>>, Null}
MCMadeOrNobody == {<<p, 1>>, Null}
MCForeign == {[id |-> <<seed, 1>>, meeting |-> m2, email |-> x2, ai |-> FALSE]}

\* Two attendees, one without an e-mail; an item for the first, one for nobody.
RichAnswer == [attendees |-> <<x1, Null>>, items |-> <<1, 0>>]
PlainAnswer == [attendees |-> <<x2>>, items |-> <<1>>]
EmptyAnswer == [attendees |-> <<>>, items |-> <<>>]

RichAnswers == {RichAnswer}
PlainAnswers == {PlainAnswer}
VariedAnswers == {RichAnswer, PlainAnswer, EmptyAnswer}
===============================================================================
