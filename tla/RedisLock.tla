----------------------------- MODULE RedisLock ------------------------------
(***************************************************************************)
(* The distributed lock of awo/contrib/redis/lock.go for one key: SET NX   *)
(* with a TTL and a random token, and Lua scripts that release and extend  *)
(* only under that token. Time is counted in remaining ticks. It is one    *)
(* Redis, as in the code: when that loses the key nobody else knows of it. *)
(***************************************************************************)
EXTENDS Integers

CONSTANTS
    Clients,    \* goroutines of any server that use the key
    Tokens,     \* values of randomToken; one in use is never returned again
    MaxTTL,     \* bound on the ttl of Acquire, TryAcquire and Extend
    Evictions,  \* TRUE: Redis may evict the key or restart empty
    None

ASSUME LockAssumption ==
    /\ MaxTTL \in Nat \ {0}
    /\ Evictions \in BOOLEAN
    /\ None \notin Tokens \cup Clients

VARIABLES
    token,      \* value of lock:{key} in Redis, or None
    expire,     \* its TTL
    client,     \* client[c]: program counter and token of client c
    lease,      \* history: ticks that the last grant to c still covers
    orphaned    \* history: the holders whose key Redis has lost meanwhile

lockVars == <<token, expire, client, lease, orphaned>>

-----------------------------------------------------------------------------

Client == [pc: {"idle", "acquire", "try", "wait", "held"}, token: Tokens \cup {None}]

Idle == [pc |-> "idle", token |-> None]

\* What callers pass as ttl; 0 would mean no expiry to SET NX.
TTLs == 1..MaxTTL

\* Types of the variables.
LockTypeOK ==
    /\ token \in Tokens \cup {None}
    /\ expire \in 0..MaxTTL
    /\ client \in [Clients -> Client]
    /\ lease \in [Clients -> 0..MaxTTL]
    /\ orphaned \subseteq Clients

LockInit ==
    /\ token = None
    /\ expire = 0
    /\ client = [c \in Clients |-> Idle]
    /\ lease = [c \in Clients |-> 0]
    /\ orphaned = {}

Goto(c, pc) == client' = [client EXCEPT ![c].pc = pc]

\* The call returns an error, or the caller has finished with the lock.
Return(c) == client' = [client EXCEPT ![c] = Idle]

\* randomToken: 128 random bits.
Fresh(t) == t # token /\ \A c \in Clients : client[c].token # t

\* Acquire, which retries, and TryAcquire, which does not.
Begin(c) ==
    /\ client[c].pc = "idle"
    /\ \E t \in Tokens, pc \in {"acquire", "try"} :
        Fresh(t) /\ client' = [client EXCEPT ![c] = [pc |-> pc, token |-> t]]
    /\ UNCHANGED <<token, expire, lease, orphaned>>

-----------------------------------------------------------------------------
(* Calls of Redis *)

Available_Always(c) == TRUE

\* NX
Available(c) == token = None

Lifetime_Unlimited(ttl) == 0

Lifetime_Doubled(ttl) == 2 * ttl

\* The expiry that SET NX gives the key; 0 would mean none.
Lifetime(ttl) == ttl

\* SET lock:{key} token NX PX ttl
Store(c, ttl) ==
    /\ token' = client[c].token
    /\ expire' = Lifetime(ttl)

\* SetNX answers OK: the caller holds the lock.
Granted(c) ==
    /\ client[c].pc \in {"acquire", "try"} /\ Available(c)
    /\ \E ttl \in TTLs : Store(c, ttl) /\ lease' = [lease EXCEPT ![c] = ttl]
    /\ Goto(c, "held")
    /\ UNCHANGED orphaned

\* SetNX returns an error: it has no effect, or only its reply is lost, or ctx
\* is cancelled meanwhile.
AcquireFails(c) ==
    /\ client[c].pc \in {"acquire", "try"}
    /\ \/ Available(c) /\ \E ttl \in TTLs : Store(c, ttl)
       \/ UNCHANGED <<token, expire>>
    /\ Return(c)
    /\ UNCHANGED <<lease, orphaned>>

\* The key exists.
Refused(c) ==
    /\ token # None
    /\ \/ client[c].pc = "acquire" /\ Goto(c, "wait")
       \/ client[c].pc = "try" /\ Return(c)
    /\ UNCHANGED <<token, expire, lease, orphaned>>

\* Acquire sleeps; then it tries again or ctx is done.
Wait(c) ==
    /\ client[c].pc = "wait"
    /\ Goto(c, "acquire") \/ Return(c)
    /\ UNCHANGED <<token, expire, lease, orphaned>>

Owns_Any(c) == token # None

\* The comparison of the Lua scripts.
Owns(c) == token = client[c].token

\* The caller gives up its claim when it calls Release, which deletes the key,
\* or finds another's, or fails before the script has run.
Release(c) ==
    /\ client[c].pc = "held"
    /\ \/ Owns(c) /\ token' = None /\ expire' = 0
       \/ UNCHANGED <<token, expire>>
    /\ Return(c)
    /\ lease' = [lease EXCEPT ![c] = 0]
    /\ orphaned' = orphaned \ {c}

Lesser(m, n) == IF m < n THEN m ELSE n

\* Extend sets the TTL, which may be shorter than what is left. A caller that
\* gets an error, because the script did not run, found another token or only
\* its reply was lost, can rely on the shorter of both alone.
Extend(c) ==
    /\ client[c].pc = "held"
    /\ \E ttl \in TTLs :
        \/ /\ Owns(c) /\ expire' = ttl
           /\ \E left \in {ttl, Lesser(lease[c], ttl)} : lease' = [lease EXCEPT ![c] = left]
        \/ UNCHANGED expire /\ lease' = [lease EXCEPT ![c] = Lesser(lease[c], ttl)]
    /\ UNCHANGED <<token, client, orphaned>>

-----------------------------------------------------------------------------
(* Environment *)

\* The process dies; its claim ends with it, the key stays.
Die(c) ==
    /\ client[c].pc # "idle"
    /\ Return(c)
    /\ lease' = [lease EXCEPT ![c] = 0]
    /\ orphaned' = orphaned \ {c}
    /\ UNCHANGED <<token, expire>>

Left(n) == IF n > 0 THEN n - 1 ELSE 0

\* Time passes; Redis drops a key whose TTL has elapsed.
Tick ==
    /\ token # None \/ \E c \in Clients : lease[c] > 0
    /\ token' = IF expire = 1 THEN None ELSE token
    /\ expire' = Left(expire)
    /\ lease' = [c \in Clients |-> Left(lease[c])]
    /\ UNCHANGED <<client, orphaned>>

\* Redis evicts the key or restarts without it; no holder learns of it.
LoseKey ==
    /\ Evictions /\ token # None
    /\ token' = None /\ expire' = 0
    /\ orphaned' = orphaned \cup {c \in Clients : lease[c] > 0}
    /\ UNCHANGED <<client, lease>>

-----------------------------------------------------------------------------

LockNext ==
    \/ \E c \in Clients :
        \/ Begin(c) \/ Granted(c) \/ AcquireFails(c) \/ Refused(c) \/ Wait(c)
        \/ Release(c) \/ Extend(c) \/ Die(c)
    \/ Tick
    \/ LoseKey

LockSpec == LockInit /\ [][LockNext]_lockVars

\* Time passes; no client is obliged to do anything, not even to release.
LockFairSpec == LockSpec /\ WF_lockVars(Tick)

-----------------------------------------------------------------------------
(* Properties *)

\* The grant of c runs, and Redis has not lost its key.
Covered(c) == lease[c] > 0 /\ c \notin orphaned

\* No two clients are covered by a grant at the same time: a late Release or
\* Extend of a former owner, a lost reply or a crash never ends the lock of its
\* successor before the TTL, which would let a third client in. Grants
\* whose key Redis has lost are not covered: the code uses one Redis, although
\* package lock announces the Redlock algorithm, and lets a second client in.
MutualExclusion ==
    \A c, d \in Clients : Covered(c) /\ Covered(d) => c = d

\* While a client covered by its grant does nothing, only time touches its key,
\* or Redis itself, which may lose it.
OthersKeepOut ==
    [][\A c \in Clients : Covered(c) /\ client'[c] = client[c] =>
        \/ token' = token
        \/ expire = 1 /\ lease[c] = 1
        \/ c \in orphaned']_lockVars

\* A key nobody owns, left by a crash or a lost reply, disappears.
AbandonedLockFreed ==
    \A t \in Tokens :
        token = t /\ (\A c \in Clients : client[c].token # t) ~> token # t

\* The owner of the key as its users see it; a lost key ends the ownership.
Owner == IF \E c \in Clients : Covered(c)
         THEN CHOOSE c \in Clients : Covered(c) ELSE None

Promise == INSTANCE Lease WITH Owners <- Clients, Nobody <- None, owner <- Owner

\* The lock is what package lock promises: ownership never passes directly from
\* one client to another. (That Redis keeps the key is assumed as above.)
ImplementsLease == Promise!LeaseSpec
=============================================================================
