------------------------------ MODULE ApiGate -------------------------------
(***************************************************************************)
(* The middleware chain of /api/v1 for service accounts (awo/api/router):  *)
(* RequireAuth, then RateLimit, which fail in opposite ways when Redis     *)
(* does, and the clock they share.                                         *)
(***************************************************************************)
EXTENDS ApiTokens, RateLimit

CONSTANT AddressOf  \* AddressOf[r]: c.IP() of request r

ASSUME GateAssumption == AddressOf \in [Requests -> Clients]

gateVars == <<tokenVars, limitVars>>

GateInit == TokensInit /\ LimitInit

\* c.Locals("user_id") as RateLimit finds it.  RequireAuth stores "session" and
\* "viewer", and no middleware stores a user_id.
LocalsUserID(r) == None

\* The last part of the key rl:{tenant}:{...}: the user, and without one the
\* address.
RateKey(r) == IF LocalsUserID(r) # None THEN LocalsUserID(r) ELSE AddressOf[r]

\* RateLimit is the next handler of an authenticated request.
RateLimited(r) ==
    /\ req[r].pc = "authorized"
    /\ \/ Admit(RateKey(r))
       \/ Reject(RateKey(r))
       \/ Failures /\ FailOpen(RateKey(r))
    /\ Become(r, Idle)
    /\ UNCHANGED <<revoked, active, life, cache>>

RequireAuth(r) == TokenStep(r) /\ UNCHANGED limitVars

Administer ==
    /\ SetAccount \/ \E t \in Tokens : Revoke(t) \/ Invalidate(t)
    /\ UNCHANGED limitVars

Arrive(r) == Authenticate(r) /\ UNCHANGED limitVars

Tick == TokensTick /\ LimitTick

GateNext ==
    \/ \E r \in Requests : Arrive(r) \/ RequireAuth(r) \/ RateLimited(r)
    \/ Administer
    \/ Tick

GateSpec == GateInit /\ [][GateNext]_gateVars

\* Requests run to their end and time passes; nobody need send a request,
\* revoke a token or invalidate the cache.
GateFairSpec ==
    /\ GateSpec
    /\ WF_gateVars(Tick)
    /\ \A r \in Requests : WF_gateVars(RequireAuth(r) \/ RateLimited(r))
=============================================================================
