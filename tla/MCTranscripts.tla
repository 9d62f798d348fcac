----------------------------- MODULE MCTranscripts -----------------------------
(* The constants are sets of model values given in the configurations; the    *)
(* requests are interchangeable in the runs that check invariants only.       *)
EXTENDS Transcripts, TLC

RequestSymmetry == Permutations(Requests) \cup Permutations(Readers)
===============================================================================
