-------------------------- MODULE MCInterviewPage --------------------------
(* InterviewPage on small instances: the properties are invariants, so the   *)
(* waiting calls of saveAnswer and of render may be permuted.                *)
EXTENDS InterviewPageProperties, TLC

Symmetry == Permutations(Saves) \cup Permutations(Renders)
=============================================================================
