----------------------------- MODULE MCSessions -----------------------------
(* Model values and symmetry for TLC. *)
EXTENDS Sessions, TLC

\* Requests, users and tokens are interchangeable.
Symmetry == Permutations(Procs) \cup Permutations(Users) \cup Permutations(Tokens)
=============================================================================
