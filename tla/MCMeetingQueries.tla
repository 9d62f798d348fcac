--------------------------- MODULE MCMeetingQueries ---------------------------
(* Up to three meetings of the user and one of somebody else, on three dates. *)
EXTENDS MeetingQueries

CONSTANT m4

MCInputs ==
  {i \in [pageSize : {1, 2}, range : {Dates, Dates \ {3}}, newestFirst : BOOLEAN, hasTodos : BOOLEAN] :
     i.pageSize = 1 \/ i.hasTodos}
MCTheirs == m4 :> [date |-> 2, todo |-> TRUE]
MCSymmetry == Permutations(Owned)
===============================================================================
