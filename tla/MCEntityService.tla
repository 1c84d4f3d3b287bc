-------------------------- MODULE MCEntityService ---------------------------
(* Two fields that must not both be set, one of them stored in a form the     *)
(* hooks compute (2 is the digest of 1), and an immutable one that a hook     *)
(* fills in at creation.                                                      *)
EXTENDS EntityService

CONSTANTS a, b, k

MCAccepted ==
    {d \in [Fields -> Values] : d[a] # 2 /\ d[k] # 2 /\ ~(d[a] = 1 /\ d[b] # 0)}

Digest(d) == IF d[b] = 1 THEN [d EXCEPT ![b] = 2] ELSE d

MCHooks ==
    [p \in [Fields -> Values] \X ([Fields -> Values] \cup {None}) |->
        IF p[2] = None THEN {[Digest(p[1]) EXCEPT ![k] = v] : v \in {0, 1}}
                       ELSE {Digest(p[1])}]
=============================================================================
