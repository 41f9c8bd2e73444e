--------------------------- MODULE MCInterviewApi ---------------------------
(* InterviewApi on small instances: the properties are safety properties, so *)
(* the goroutines and the keys may be permuted.                              *)
EXTENDS InterviewApiProperties, TLC

Symmetry == Permutations(Requests) \cup Permutations(Keys)
=============================================================================
