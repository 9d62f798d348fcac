--------------------------- MODULE MCAccountRemoval ----------------------------
(* AccountRemoval for TLC.  Slots, meetings and images are interchangeable. *)
EXTENDS AccountRemoval, TLC

Symmetry == Permutations(Slots) \cup Permutations(Meetings) \cup Permutations(Images)
===============================================================================
