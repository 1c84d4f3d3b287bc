--------------------------- MODULE MCPerUserLimit ---------------------------
(* Two requests of the account, from two addresses. *)
EXTENDS PerUserLimit, TLC

CONSTANTS r1, r2, c1, c2

MCAddressOf == r1 :> c1 @@ r2 :> c2
=============================================================================
