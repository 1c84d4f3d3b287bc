-------------------------- MODULE MCSessionsHistory --------------------------
(* Model values and symmetry for TLC. *)
EXTENDS SessionsHistory, TLC

Symmetry == Permutations(Procs) \cup Permutations(Tokens)
=============================================================================
