---------------------------- MODULE PerUserLimit ----------------------------
(***************************************************************************)
(* The limit that the comments of ratelimit.go and SECURITY_MODEL.md, 8    *)
(* promise: one per tenant and user.  ApiGate models one service account,  *)
(* so all its requests are one user's, whatever address they come from.    *)
(***************************************************************************)
EXTENDS ApiGate, FiniteSetsExt

\* Requests counted and admitted in the last window under one key.
AdmittedFrom(c) == MapThenSumSet(LAMBDA k : admitted[c][k], Age)

\* ratelimit.go:22, "1000 req/min per tenant+user": in no window are more than
\* Limit requests of the user admitted.
LimitPerUser == MapThenSumSet(AdmittedFrom, Clients) <= Limit
=============================================================================
