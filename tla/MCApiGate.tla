----------------------------- MODULE MCApiGate ------------------------------
(* Every request comes from the same address. *)
EXTENDS ApiGate

CONSTANT c1

MCAddressOf == [r \in Requests |-> c1]
=============================================================================
