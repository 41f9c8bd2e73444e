--------------------------- MODULE MCSessionPages ---------------------------
(* SessionPages on small instances. *)
EXTENDS SessionPages
=============================================================================
