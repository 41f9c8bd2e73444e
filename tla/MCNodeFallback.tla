-------------------------- MODULE MCNodeFallback --------------------------
(* NodeFallback on small instances: the connections and the keys may be      *)
(* permuted, the properties are safety properties.                           *)
EXTENDS NodeFallback, TLC

Symmetry == Permutations(Requests) \cup Permutations(Keys)
=============================================================================
