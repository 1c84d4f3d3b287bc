------------------------------- MODULE Lease --------------------------------
(***************************************************************************)
(* What package awo/lock promises: a key has at most one owner, and passes *)
(* from one owner to another only after the first has released it or its   *)
(* time has run out.                                                       *)
(***************************************************************************)
CONSTANTS Owners, Nobody

VARIABLE owner

LeaseInit == owner = Nobody

Grant(c) == owner = Nobody /\ owner' = c

End == owner # Nobody /\ owner' = Nobody

LeaseSpec == LeaseInit /\ [][End \/ \E c \in Owners : Grant(c)]_owner
=============================================================================
