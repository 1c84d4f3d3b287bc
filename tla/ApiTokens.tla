----------------------------- MODULE ApiTokens ------------------------------
(***************************************************************************)
(* Authentication by service account API token: ValidateAPIToken and       *)
(* lookupAPIToken of awo/platform/iam/service.go, which cache what they    *)
(* found in PostgreSQL under iam:api_token:{hash} for a minute.            *)
(*                                                                         *)
(* Times are remaining ticks, so that the clock needs no bound: a token    *)
(* has life[t] ticks left and its cache entry cache[t].                    *)
(***************************************************************************)
EXTENDS Integers

CONSTANTS
    Requests,   \* concurrent HTTP requests
    Tokens,     \* rows of iam_api_tokens
    Lives,      \* lifetimes of a token; Forever when expires_at is NULL
    Forever,    \* longer than CacheTTL: 365 days
    CacheTTL,   \* apiTokenCacheTTL
    Failures,   \* TRUE: calls of Redis and PostgreSQL may fail
    None

ASSUME TokensAssumption ==
    /\ CacheTTL \in Nat \ {0}
    /\ Forever \in Nat /\ Forever > CacheTTL
    /\ Lives \subseteq 0..Forever
    /\ Failures \in BOOLEAN
    /\ None \notin Tokens

VARIABLES
    revoked,    \* revoked[t]: is_revoked
    active,     \* status of the service account is "active"
    life,       \* life[t]: ticks until expires_at, -1 once it has passed
    cache,      \* cache[t]: TTL of the cache entry, 0 when there is none
    req         \* req[r]: program counter and locals of request r

tokenVars == <<revoked, active, life, cache, req>>

-----------------------------------------------------------------------------

Request == [pc: {"idle", "get", "evict", "select", "check", "set", "authorized"},
            token: Tokens \cup {None},
            live: BOOLEAN,      \* the row read was neither revoked nor inactive
            ttl: 0..CacheTTL]   \* TTL of the entry to write

Idle == [pc |-> "idle", token |-> None, live |-> FALSE, ttl |-> 0]

\* Types of the variables.
TokensTypeOK ==
    /\ revoked \in [Tokens -> BOOLEAN]
    /\ active \in BOOLEAN
    /\ life \in [Tokens -> -1..Forever]
    /\ cache \in [Tokens -> 0..CacheTTL]
    /\ req \in [Requests -> Request]

TokensInit ==
    /\ revoked = [t \in Tokens |-> FALSE]
    /\ active = TRUE
    /\ life \in [Tokens -> Lives]
    /\ cache = [t \in Tokens |-> 0]
    /\ req = [r \in Requests |-> Idle]

Become(r, q) == req' = [req EXCEPT ![r] = q]

Goto(r, pc) == req' = [req EXCEPT ![r].pc = pc]

\* 401, 403, 500 or 503.
Refuse(r) == Become(r, Idle)

-----------------------------------------------------------------------------
(* A request *)

\* ValidateToken has answered 401: the bearer token is not a session.
Authenticate(r) ==
    /\ req[r].pc = "idle"
    /\ \E t \in Tokens : Become(r, [Idle EXCEPT !.pc = "get", !.token = t])
    /\ UNCHANGED <<revoked, active, life, cache>>

\* IsExpired of the cached session, whose ExpiresAt is that of the row.
IsExpired(t) == life[t] < 0

HitTTL_Sliding(t) == CacheTTL

\* A hit leaves the TTL of the entry as it is.
HitTTL(t) == cache[t]

\* Cache.Get: a hit is checked against the clock; an error is answered 503.
CacheGet(r) ==
    LET t == req[r].token IN
    /\ req[r].pc = "get"
    /\ \/ /\ cache[t] > 0
          /\ Goto(r, IF IsExpired(t) THEN "evict" ELSE "authorized")
          /\ cache' = [cache EXCEPT ![t] = HitTTL(t)]
       \/ cache[t] = 0 /\ Goto(r, "select") /\ UNCHANGED cache
       \/ Failures /\ Refuse(r) /\ UNCHANGED cache
    /\ UNCHANGED <<revoked, active, life>>

\* Cache.Delete of an expired entry; its error is ignored.
Evict(r) ==
    /\ req[r].pc = "evict"
    /\ \/ cache' = [cache EXCEPT ![req[r].token] = 0]
       \/ Failures /\ UNCHANGED cache
    /\ Refuse(r)
    /\ UNCHANGED <<revoked, active, life>>

LiveRow_IgnoresRevoked(t) == active

LiveRow(t) == ~revoked[t] /\ active

\* The join of iam_api_tokens and iam_service_accounts, in one transaction.
LookupSelect(r) ==
    /\ req[r].pc = "select"
    /\ \/ req' = [req EXCEPT ![r].pc = "check", ![r].live = LiveRow(req[r].token)]
       \/ Failures /\ Refuse(r)
    /\ UNCHANGED <<revoked, active, life, cache>>

EntryTTL_LifeOnly(t) == life[t]

\* The minimum of apiTokenCacheTTL and the remaining lifetime.
EntryTTL(t) == IF life[t] < CacheTTL THEN life[t] ELSE CacheTTL

\* The checks on what was read; a TTL of zero is not worth an entry.
LookupCheck(r) ==
    LET t == req[r].token IN
    /\ req[r].pc = "check"
    /\ \/ /\ req[r].live /\ ~IsExpired(t) /\ EntryTTL(t) > 0
          /\ req' = [req EXCEPT ![r].pc = "set", ![r].ttl = EntryTTL(t)]
       \/ req[r].live /\ ~IsExpired(t) /\ EntryTTL(t) = 0 /\ Goto(r, "authorized")
       \/ (~req[r].live \/ IsExpired(t)) /\ Refuse(r)
    /\ UNCHANGED <<revoked, active, life, cache>>

\* Cache.Set; its error is ignored.
CacheSet(r) ==
    /\ req[r].pc = "set"
    /\ \/ cache' = [cache EXCEPT ![req[r].token] = req[r].ttl]
       \/ Failures /\ UNCHANGED cache
    /\ Goto(r, "authorized")
    /\ UNCHANGED <<revoked, active, life>>

TokenStep(r) ==
    CacheGet(r) \/ Evict(r) \/ LookupSelect(r) \/ LookupCheck(r) \/ CacheSet(r)

-----------------------------------------------------------------------------
(* Administration and time *)

\* An administrator sets is_revoked.
Revoke(t) ==
    /\ ~revoked[t]
    /\ revoked' = [revoked EXCEPT ![t] = TRUE]
    /\ UNCHANGED <<active, life, cache, req>>

\* "Cache invalidation on token revocation is the caller's responsibility".
Invalidate(t) ==
    /\ revoked[t] /\ cache[t] > 0
    /\ cache' = [cache EXCEPT ![t] = 0]
    /\ UNCHANGED <<revoked, active, life, req>>

\* The service account is suspended or activated again.
SetAccount ==
    /\ active' = ~active
    /\ UNCHANGED <<revoked, life, cache, req>>

Decrement(n) == IF n > 0 THEN n - 1 ELSE 0

\* Time passes; Redis drops entries whose TTL has elapsed.
TokensTick ==
    /\ life' = [t \in Tokens |->
                    CASE life[t] = Forever -> Forever
                      [] life[t] < Forever /\ life[t] >= 0 -> life[t] - 1
                      [] OTHER -> -1]
    /\ cache' = [t \in Tokens |-> Decrement(cache[t])]
    /\ UNCHANGED <<revoked, active, req>>

-----------------------------------------------------------------------------
(* Properties *)

\* The token has been revoked or has expired.
Over(t) == revoked[t] \/ IsExpired(t)

\* Request r will write or use what it read of t while t was valid.
Carries(r, t) ==
    /\ req[r].token = t
    /\ req[r].pc = "set" \/ (req[r].pc = "check" /\ req[r].live /\ ~IsExpired(t))

\* t is over, not cached, and no request read it before it was over.
Ended(t) == Over(t) /\ cache[t] = 0 /\ \A r \in Requests : ~Carries(r, t)

Authorizes(r, t) ==
    req[r].pc # "authorized" /\ req'[r].pc = "authorized" /\ req[r].token = t

\* Once a token has ended nothing authorizes a request with it or caches it
\* again, whatever the order of lookups, late Cache.Set calls and invalidations.
RefusalFinal ==
    [][\A t \in Tokens : Ended(t) =>
        Ended(t)' /\ \A r \in Requests : ~Authorizes(r, t)]_tokenVars

\* A revoked or expired token ends: a late Cache.Set after the revoker's DEL, or
\* a client that never stops using the token, keeps it alive only until the TTL.
RevocationTakesEffect == \A t \in Tokens : Over(t) ~> Ended(t)
=============================================================================
