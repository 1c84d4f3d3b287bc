------------------------------ MODULE MCOutbox ------------------------------
(* One typed subscriber of every event and one wildcard subscriber. *)
EXTENDS Outbox

CONSTANTS s1, s2

MCTyped == [e \in Events |-> <<s1>>]
MCWildcard == <<s2>>
=============================================================================
