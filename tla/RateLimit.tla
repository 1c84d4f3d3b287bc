----------------------------- MODULE RateLimit ------------------------------
(***************************************************************************)
(* The RateLimit middleware (awo/api/middleware/ratelimit.go) over the     *)
(* counter of awo/contrib/redis/cache.go: one key per client whose TTL is  *)
(* renewed by every counted request, rejected or not.  What a client is    *)
(* follows from the key: ApiGate derives it, and finds the address where   *)
(* the comments and documents promise the user.                            *)
(***************************************************************************)
EXTENDS Integers

CONSTANTS
    Clients,    \* what the key rl:{tenant}:{...} may end in: addresses
    Limit,      \* cfg.Requests
    Window      \* cfg.Window, in ticks

ASSUME LimitAssumption == Limit \in Nat \ {0} /\ Window \in Nat \ {0}

VARIABLES
    count,      \* count[c]: value of the key, 0 when it does not exist
    expire,     \* expire[c]: TTL of the key, 0 when it has none
    admitted,   \* history: admitted[c][k], requests admitted k ticks ago
    quiet       \* history: quiet[c], ticks without a counted request

limitVars == <<count, expire, admitted, quiet>>

\* Bound: a counter above the limit is as good as any other.
MaxCount == Limit + 1

Age == 0 .. Window - 1

\* Types of the variables.
LimitTypeOK ==
    /\ count \in [Clients -> 0..MaxCount]
    /\ expire \in [Clients -> 0..Window]
    /\ admitted \in [Clients -> [Age -> Nat]]
    /\ quiet \in [Clients -> 0..Window]

LimitInit ==
    /\ count = [c \in Clients |-> 0]
    /\ expire = [c \in Clients |-> 0]
    /\ admitted = [c \in Clients |-> [k \in Age |-> 0]]
    /\ quiet = [c \in Clients |-> 0]

-----------------------------------------------------------------------------

NextCount(c) == IF count[c] < MaxCount THEN count[c] + 1 ELSE MaxCount

Renewed_IfCreated(c) == IF count[c] = 0 THEN Window ELSE expire[c]

Renewed_Never(c) == expire[c]

Renewed_Later(c) == IF count[c] = 0 THEN Window + 1 ELSE Window

\* EXPIRE in the same transaction as INCRBY, always.
Renewed(c) == Window

\* INCRBY and EXPIRE in one MULTI.
IncrementWithReset(c) ==
    /\ count' = [count EXCEPT ![c] = NextCount(c)]
    /\ expire' = [expire EXCEPT ![c] = Renewed(c)]
    /\ quiet' = [quiet EXCEPT ![c] = 0]

\* c.Next: the request goes on to its handler.
Admit(c) ==
    /\ IncrementWithReset(c)
    /\ NextCount(c) <= Limit
    /\ admitted' = [admitted EXCEPT ![c][0] = @ + 1]

\* 429.
Reject(c) ==
    /\ IncrementWithReset(c)
    /\ NextCount(c) > Limit
    /\ UNCHANGED admitted

\* The counter fails, before or after its effect: the request is let through.
FailOpen(c) ==
    /\ IncrementWithReset(c) \/ UNCHANGED <<count, expire, quiet>>
    /\ UNCHANGED admitted

\* Time passes; Redis drops the keys whose TTL has elapsed.
LimitTick ==
    /\ count' = [c \in Clients |-> IF expire[c] = 1 THEN 0 ELSE count[c]]
    /\ expire' = [c \in Clients |-> IF expire[c] > 0 THEN expire[c] - 1 ELSE 0]
    /\ admitted' = [c \in Clients |->
                        [k \in Age |-> IF k = 0 THEN 0 ELSE admitted[c][k - 1]]]
    /\ quiet' = [c \in Clients |-> IF quiet[c] < Window THEN quiet[c] + 1 ELSE Window]

-----------------------------------------------------------------------------
(* Properties *)

\* total[k] is the number of requests of c admitted less than k ticks ago.
RunningTotal(c, total) ==
    total[0] = 0 /\ \A k \in Age : total[k + 1] = total[k] + admitted[c][k]

\* In no period of length Window, wherever it begins, does the counter admit
\* more than Limit requests under one key: a sliding window, as RateLimitConfig
\* says, and not one that restarts at the boundaries of a fixed one.  A key is a
\* tenant and an address (RateKey in ApiGate); that the documented limit, per
\* user, is not kept is LimitPerUser in PerUserLimit.
SlidingWindow == \A c \in Clients : \E total \in [0..Window -> 0..Limit] : RunningTotal(c, total)

\* A key (tenant and address) without requests for a window starts with an empty counter, however
\* many rejected requests came before.
QuietClientAdmitted == \A c \in Clients : quiet[c] >= Window => count[c] = 0
=============================================================================
