------------------------------ MODULE Sessions ------------------------------
(***************************************************************************)
(* Human sessions of the IAM module: AuthService (awo/platform/iam),       *)
(* RedisSessionStore (awo/contrib/redis) and UserRoleChangeHook.           *)
(*                                                                         *)
(* A session lives in three places that no transaction spans: the Redis    *)
(* key session:{token}, the per-user sorted set user_sessions:{tenant}:    *)
(* {user}, and the row of iam_sessions.  Every action below is one round   *)
(* trip to one of them, so requests interleave between the round trips.    *)
(* One tenant is modelled: every SQL statement runs under its RLS context. *)
(***************************************************************************)
EXTENDS Naturals, FiniteSets

CONSTANTS
    Procs,          \* concurrent HTTP requests (or admin calls)
    Users,          \* human users of the tenant
    Tokens,         \* values GenerateToken may return
    Roles,          \* role names assignable through iam_user_roles
    None,           \* NULL: absent key, absent row, unset field
    SessionTTL,     \* humanSessionTTL, in clock ticks
    MaxNow,         \* bound on the clock
    Failures,       \* TRUE: Redis and SQL calls may return an error
    Evictions       \* TRUE: Redis may evict a key or restart empty

VARIABLES
    now,        \* wall clock, shared by the application, Redis and PostgreSQL
    redis,      \* redis[t]: the payload of session:{t}, or None
    index,      \* index[u]: members of the user's sorted set
    sessions,   \* sessions[t]: the iam_sessions row with token_hash of t, or None
    userRoles,  \* userRoles[u]: committed iam_user_roles of u
    req,        \* req[p]: program counter and local variables of request p
    issued,     \* history: who token t was generated for and its ExpiresAt
    known       \* history: tokens a completed Login has returned to a client

vars == <<now, redis, index, sessions, userRoles, req, issued, known>>

-----------------------------------------------------------------------------
(* Types *)

\* auth.Session as stored under session:{token}
Session == [user: Users, roles: SUBSET Roles, exp: Nat]

\* the columns of iam_sessions that the code reads back
SessionRow == [user: Users, exp: Nat, revoked: BOOLEAN]

\* what a generated token was issued with
Grant == [user: Users, exp: Nat]

ASSUME ConstantAssumption ==
    /\ SessionTTL \in Nat \ {0}
    /\ MaxNow \in Nat
    /\ Failures \in BOOLEAN
    /\ Evictions \in BOOLEAN
    /\ None \notin Users \cup Tokens
    /\ None \notin Session \cup SessionRow \cup Grant

LoginPC == {"loadRoles", "store", "index", "auditLogin"}
ValidatePC == {"load", "recover", "recoverRoles", "recoverStore",
               "recoverIndex", "check", "authorized"}
LogoutPC == {"logoutZRem", "auditLogout"}
RevokePC == {"list", "deleteAll", "auditRevoke"}
RoleChangePC == {"hookList", "hookDeleteAll", "commitRole"}

Request ==
    [pc: {"idle"} \cup LoginPC \cup ValidatePC \cup LogoutPC
            \cup RevokePC \cup RoleChangePC,
     user: Users \cup {None}, token: Tokens \cup {None},
     roles: SUBSET Roles, exp: Nat, listed: SUBSET Tokens, grant: BOOLEAN]

Idle == [pc |-> "idle", user |-> None, token |-> None, roles |-> {},
         exp |-> 0, listed |-> {}, grant |-> FALSE]

TypeOK ==
    /\ now \in Nat
    /\ redis \in [Tokens -> Session \cup {None}]
    /\ index \in [Users -> SUBSET Tokens]
    /\ sessions \in [Tokens -> SessionRow \cup {None}]
    /\ userRoles \in [Users -> SUBSET Roles]
    /\ req \in [Procs -> Request]
    /\ issued \in [Tokens -> Grant \cup {None}]
    /\ known \in SUBSET Tokens

Init ==
    /\ now = 0
    /\ redis = [t \in Tokens |-> None]
    /\ index = [u \in Users |-> {}]
    /\ sessions = [t \in Tokens |-> None]
    /\ userRoles = [u \in Users |-> {}]
    /\ req = [p \in Procs |-> Idle]
    /\ issued = [t \in Tokens |-> None]
    /\ known = {}

-----------------------------------------------------------------------------
(* Control of one request *)

Become(p, r) == req' = [req EXCEPT ![p] = r]

Goto(p, pc) == Become(p, [req[p] EXCEPT !.pc = pc])

\* The handler returns to its caller.
Return(p) == Become(p, Idle)

\* A call may return an error, after its effect when only the reply was lost.
MayFail == Failures

-----------------------------------------------------------------------------
(* RedisSessionStore *)

\* session.TTL(now) <= 0 makes Store return an error before any SET.
PositiveTTL(exp) == exp > now

\* Recovery that restarts the clock of the session it restores.
RestoredPayload_FreshTTL(p) ==
    [user |-> req[p].user, roles |-> req[p].roles, exp |-> now + SessionTTL]

\* The JSON payload of the session that request p is about to SET.
RestoredPayload(p) ==
    [user |-> req[p].user, roles |-> req[p].roles, exp |-> req[p].exp]

\* Store, first round trip: SET session:{token} with TTL.
StoreSet(p) ==
    /\ PositiveTTL(req[p].exp)
    /\ redis' = [redis EXCEPT ![req[p].token] = RestoredPayload(p)]

\* The index key of another user: the key built without the user's id.
IndexAdd_SharedKey(p) == [u \in Users |-> index[u] \cup {req[p].token}]

\* Store, second round trip: ZADD user_sessions:{tenant}:{user} token.
IndexAdd(p) == [index EXCEPT ![req[p].user] = @ \cup {req[p].token}]

\* ListUserTokens prunes members whose score is <= now (the score is the
\* ExpiresAt the token was issued with); the prune is best-effort, the ZRANGE
\* that follows is not.
Pruned(u) == {t \in index[u] : issued[t].exp > now}

\* What the ZRANGE may return, and leaves in the index.
Listable(u) == {Pruned(u)} \cup (IF MayFail THEN {index[u]} ELSE {})

\* DeleteAll: one DEL of the listed session keys and of the index key.
DelSessionsAndIndex(u, toks) ==
    /\ redis' = [t \in Tokens |-> IF t \in toks THEN None ELSE redis[t]]
    /\ index' = [index EXCEPT ![u] = {}]

-----------------------------------------------------------------------------
(* Login *)

\* Bound: no more logins in flight than tokens left to generate.
TokenAvailable ==
    Cardinality({t \in Tokens : issued[t] = None})
        > Cardinality({q \in Procs : req[q].pc = "loadRoles"})

\* Credential transaction: user found, status active, password matches.  A
\* rejected attempt returns an error and changes none of this state.
LoginVerify(p, u) ==
    /\ req[p].pc = "idle"
    /\ TokenAvailable
    /\ Become(p, [Idle EXCEPT !.pc = "loadRoles", !.user = u])
    /\ UNCHANGED <<now, redis, index, sessions, userRoles, issued, known>>

\* loadUserRoles, GenerateToken and the Session struct with ExpiresAt.
LoginLoadRoles(p) ==
    /\ req[p].pc = "loadRoles"
    /\ \/ \E t \in Tokens :
            /\ issued[t] = None
            /\ issued' = [issued EXCEPT
                    ![t] = [user |-> req[p].user, exp |-> now + SessionTTL]]
            /\ Become(p, [req[p] EXCEPT !.pc = "store", !.token = t,
                            !.roles = userRoles[req[p].user],
                            !.exp = now + SessionTTL])
       \/ MayFail /\ Return(p) /\ UNCHANGED issued
    /\ UNCHANGED <<now, redis, index, sessions, userRoles, known>>

\* storeSession: the SET is critical, an error aborts the login.
LoginStore(p) ==
    /\ req[p].pc = "store"
    /\ \/ StoreSet(p) /\ (Goto(p, "index") \/ (MayFail /\ Return(p)))
       \/ (MayFail \/ ~PositiveTTL(req[p].exp)) /\ Return(p) /\ UNCHANGED redis
    /\ UNCHANGED <<now, index, sessions, userRoles, issued, known>>

\* The ZADD of Store is best-effort.
LoginIndex(p) ==
    /\ req[p].pc = "index"
    /\ index' = IndexAdd(p) \/ (MayFail /\ UNCHANGED index)
    /\ Goto(p, "auditLogin")
    /\ UNCHANGED <<now, redis, sessions, userRoles, issued, known>>

\* auditLogin: one best-effort transaction inserts the row; then Login
\* returns the token to the client whatever the outcome.
AuditLogin(p) ==
    LET t == req[p].token IN
    /\ req[p].pc = "auditLogin"
    /\ \/ sessions' = [sessions EXCEPT
            ![t] = [user |-> req[p].user, exp |-> req[p].exp, revoked |-> FALSE]]
       \/ MayFail /\ UNCHANGED sessions
    /\ known' = known \cup {t}
    /\ Return(p)
    /\ UNCHANGED <<now, redis, index, userRoles, issued>>

-----------------------------------------------------------------------------
(* ValidateToken, as RequireAuth calls it on every request *)

ValidateBegin(p, t) ==
    /\ req[p].pc = "idle"
    /\ t \in known
    /\ Become(p, [Idle EXCEPT !.pc = "load", !.token = t])
    /\ UNCHANGED <<now, redis, index, sessions, userRoles, issued, known>>

\* Sessions.Load: hit, miss (recover from SQL) or infrastructure error (503).
ValidateLoad(p) ==
    LET t == req[p].token IN
    /\ req[p].pc = "load"
    /\ \/ /\ redis[t] # None
          /\ Become(p, [req[p] EXCEPT !.pc = "check", !.user = redis[t].user,
                            !.roles = redis[t].roles, !.exp = redis[t].exp])
       \/ redis[t] = None /\ Goto(p, "recover")
       \/ MayFail /\ Return(p)
    /\ UNCHANGED <<now, redis, index, sessions, userRoles, issued, known>>

\* The query without its revoked_at condition.
LiveRow_IgnoresRevoked(t) == sessions[t] # None /\ sessions[t].exp > now

\* sqlLoadSessionByHash: revoked_at IS NULL AND expires_at > NOW().
LiveRow(t) ==
    /\ sessions[t] # None
    /\ ~sessions[t].revoked
    /\ sessions[t].exp > now

\* recoverSessionFromDB, its SELECT transaction; no row is a 401.
RecoverSelect(p) ==
    LET t == req[p].token IN
    /\ req[p].pc = "recover"
    /\ \/ /\ LiveRow(t)
          /\ Become(p, [req[p] EXCEPT !.pc = "recoverRoles",
                            !.user = sessions[t].user, !.exp = sessions[t].exp])
       \/ (MayFail \/ ~LiveRow(t)) /\ Return(p)
    /\ UNCHANGED <<now, redis, index, sessions, userRoles, issued, known>>

\* Roles are reloaded; a failed reload yields a session without roles.
RecoverRoles(p) ==
    /\ req[p].pc = "recoverRoles"
    /\ \E R \in {userRoles[req[p].user]} \cup (IF MayFail THEN {{}} ELSE {}) :
         Become(p, [req[p] EXCEPT !.pc = "recoverStore", !.roles = R])
    /\ UNCHANGED <<now, redis, index, sessions, userRoles, issued, known>>

\* Restoring the key is best-effort: on an error the session is used anyway.
RecoverStore(p) ==
    /\ req[p].pc = "recoverStore"
    /\ \/ StoreSet(p) /\ (Goto(p, "recoverIndex") \/ (MayFail /\ Goto(p, "check")))
       \/ (MayFail \/ ~PositiveTTL(req[p].exp)) /\ Goto(p, "check") /\ UNCHANGED redis
    /\ UNCHANGED <<now, index, sessions, userRoles, issued, known>>

RecoverIndex(p) ==
    /\ req[p].pc = "recoverIndex"
    /\ index' = IndexAdd(p) \/ (MayFail /\ UNCHANGED index)
    /\ Goto(p, "check")
    /\ UNCHANGED <<now, redis, sessions, userRoles, issued, known>>

\* The wall-clock check left out, trusting the TTL of Redis.
NotExpired_TrustTTL(p) == TRUE

\* ~session.IsExpired(time.Now())
NotExpired(p) == now <= req[p].exp

ValidateCheck(p) ==
    /\ req[p].pc = "check"
    /\ \/ NotExpired(p) /\ Goto(p, "authorized")
       \/ ~NotExpired(p) /\ Return(p)
    /\ UNCHANGED <<now, redis, index, sessions, userRoles, issued, known>>

\* The handler behind RequireAuth finishes without touching the session.
RequestDone(p) ==
    /\ req[p].pc = "authorized"
    /\ Return(p)
    /\ UNCHANGED <<now, redis, index, sessions, userRoles, issued, known>>

-----------------------------------------------------------------------------
(* Logout of the session the request was authorized with *)

\* SessionStore.Delete: the DEL is critical.
LogoutDel(p) ==
    /\ req[p].pc = "authorized"
    /\ \/ /\ redis' = [redis EXCEPT ![req[p].token] = None]
          /\ Goto(p, "logoutZRem") \/ (MayFail /\ Return(p))
       \/ MayFail /\ Return(p) /\ UNCHANGED redis
    /\ UNCHANGED <<now, index, sessions, userRoles, issued, known>>

LogoutZRem(p) ==
    /\ req[p].pc = "logoutZRem"
    /\ \/ index' = [index EXCEPT ![req[p].user] = @ \ {req[p].token}]
       \/ MayFail /\ UNCHANGED index
    /\ Goto(p, "auditLogout")
    /\ UNCHANGED <<now, redis, sessions, userRoles, issued, known>>

\* An upsert: a session whose audit row was never written gets a bare one.
Revoked_Upsert(toks) ==
    [t \in Tokens |-> IF t \notin toks THEN sessions[t]
                      ELSE IF sessions[t] # None THEN [sessions[t] EXCEPT !.revoked = TRUE]
                      ELSE [user |-> None, exp |-> 0, revoked |-> TRUE]]

\* BulkUpdate SET revoked_at WHERE token_hash IN toks AND revoked_at IS NULL
Revoked(toks) ==
    [t \in Tokens |-> IF t \in toks /\ sessions[t] # None
                      THEN [sessions[t] EXCEPT !.revoked = TRUE]
                      ELSE sessions[t]]

AuditLogout(p) ==
    /\ req[p].pc = "auditLogout"
    /\ sessions' = Revoked({req[p].token}) \/ (MayFail /\ UNCHANGED sessions)
    /\ Return(p)
    /\ UNCHANGED <<now, redis, index, userRoles, issued, known>>

-----------------------------------------------------------------------------
(* RevokeUserSessions: forced logout of every session of a user *)

RevokeBegin(p, u) ==
    /\ req[p].pc = "idle"
    /\ Become(p, [Idle EXCEPT !.pc = "list", !.user = u])
    /\ UNCHANGED <<now, redis, index, sessions, userRoles, issued, known>>

\* ListUserTokens returned `listed`: the request goes to pc `found` with it.
Listed(p, found, listed) == Become(p, [req[p] EXCEPT !.pc = found, !.listed = listed])

RevokeList(p) ==
    /\ req[p].pc = "list"
    /\ \E listed \in Listable(req[p].user) :
         /\ index' = [index EXCEPT ![req[p].user] = listed]
         /\ \/ IF listed = {} THEN Return(p) ELSE Listed(p, "deleteAll", listed)
            \/ MayFail /\ Return(p)
    /\ UNCHANGED <<now, redis, sessions, userRoles, issued, known>>

RevokeDeleteAll(p) ==
    /\ req[p].pc = "deleteAll"
    /\ \/ /\ DelSessionsAndIndex(req[p].user, req[p].listed)
          /\ Goto(p, "auditRevoke") \/ (MayFail /\ Return(p))
       \/ MayFail /\ Return(p) /\ UNCHANGED <<redis, index>>
    /\ UNCHANGED <<now, sessions, userRoles, issued, known>>

AuditRevoke(p) ==
    /\ req[p].pc = "auditRevoke"
    /\ sessions' = Revoked(req[p].listed) \/ (MayFail /\ UNCHANGED sessions)
    /\ Return(p)
    /\ UNCHANGED <<now, redis, index, userRoles, issued, known>>

-----------------------------------------------------------------------------
(* Creating or deleting an iam_user_role record.  EntityService opens the   *)
(* transaction and writes the row; the hook then runs inside it, and the    *)
(* change becomes visible to loadUserRoles only at the commit.              *)

RoleChangeBegin(p, u, r) ==
    /\ req[p].pc = "idle"
    /\ Become(p, [Idle EXCEPT !.pc = "hookList", !.user = u,
                        !.roles = {r}, !.grant = r \notin userRoles[u]])
    /\ UNCHANGED <<now, redis, index, sessions, userRoles, issued, known>>

ToCommit(p) == Goto(p, "commitRole")

\* An error of the hook rolls the transaction back.
HookList(p) ==
    /\ req[p].pc = "hookList"
    /\ \E listed \in Listable(req[p].user) :
         /\ index' = [index EXCEPT ![req[p].user] = listed]
         /\ \/ IF listed = {} THEN ToCommit(p) ELSE Listed(p, "hookDeleteAll", listed)
            \/ MayFail /\ Return(p)
    /\ UNCHANGED <<now, redis, sessions, userRoles, issued, known>>

HookDeleteAll(p) ==
    /\ req[p].pc = "hookDeleteAll"
    /\ \/ /\ DelSessionsAndIndex(req[p].user, req[p].listed)
          /\ ToCommit(p) \/ (MayFail /\ Return(p))
       \/ MayFail /\ Return(p) /\ UNCHANGED <<redis, index>>
    /\ UNCHANGED <<now, sessions, userRoles, issued, known>>

\* COMMIT, or a rollback after the hook has already deleted the sessions.
CommitRole(p) ==
    /\ req[p].pc = "commitRole"
    /\ \/ userRoles' = [userRoles EXCEPT ![req[p].user] =
            IF req[p].grant THEN @ \cup req[p].roles ELSE @ \ req[p].roles]
       \/ MayFail /\ UNCHANGED userRoles
    /\ Return(p)
    /\ UNCHANGED <<now, redis, index, sessions, issued, known>>

-----------------------------------------------------------------------------
(* Environment *)

\* Time passes; Redis drops the keys whose TTL has elapsed.
Tick ==
    /\ now < MaxNow
    /\ now' = now + 1
    /\ redis' = [t \in Tokens |->
                    IF redis[t] # None /\ redis[t].exp <= now + 1
                    THEN None ELSE redis[t]]
    /\ UNCHANGED <<index, sessions, userRoles, req, issued, known>>

RedisEvict(t) ==
    /\ Evictions
    /\ redis[t] # None
    /\ redis' = [redis EXCEPT ![t] = None]
    /\ UNCHANGED <<now, index, sessions, userRoles, req, issued, known>>

RedisRestart ==
    /\ Evictions
    /\ redis' = [t \in Tokens |-> None]
    /\ index' = [u \in Users |-> {}]
    /\ UNCHANGED <<now, sessions, userRoles, req, issued, known>>

-----------------------------------------------------------------------------
(* Specification *)

\* The steps a request takes once it has started.
Step(p) ==
    \/ LoginLoadRoles(p) \/ LoginStore(p) \/ LoginIndex(p) \/ AuditLogin(p)
    \/ ValidateLoad(p) \/ RecoverSelect(p) \/ RecoverRoles(p) \/ RecoverStore(p)
    \/ RecoverIndex(p) \/ ValidateCheck(p) \/ RequestDone(p)
    \/ LogoutDel(p) \/ LogoutZRem(p) \/ AuditLogout(p)
    \/ RevokeList(p) \/ RevokeDeleteAll(p) \/ AuditRevoke(p)
    \/ HookList(p) \/ HookDeleteAll(p) \/ CommitRole(p)

\* The calls clients and administrators may make.
Start(p) ==
    \/ \E u \in Users : LoginVerify(p, u)
    \/ \E t \in Tokens : ValidateBegin(p, t)
    \/ \E u \in Users : RevokeBegin(p, u)
    \/ \E u \in Users, r \in Roles : RoleChangeBegin(p, u, r)

Next ==
    \/ \E p \in Procs : Step(p) \/ Start(p)
    \/ Tick
    \/ \E t \in Tokens : RedisEvict(t)
    \/ RedisRestart

Spec == Init /\ [][Next]_vars

-----------------------------------------------------------------------------
(* Properties *)

\* A request that holds a session payload, read from Redis or rebuilt from SQL.
Holding(p) == req[p].pc \in {"store", "index", "auditLogin", "recoverRoles",
    "recoverStore", "recoverIndex", "check", "authorized", "logoutZRem", "auditLogout"}

\* What s says about token t is what Login issued t with.
AsIssued(t, s) ==
    issued[t] # None /\ s.user = issued[t].user /\ s.exp = issued[t].exp

\* Whatever is written or rebuilt for a token (the Redis payload, the SQL row,
\* the session a request carries) keeps the user and the expiry of the Login
\* that generated it: recoverSessionFromDB neither prolongs a session nor hands
\* it to another user, however often Redis loses it.
SessionMatchesIssue ==
    /\ \A t \in Tokens : redis[t] # None => AsIssued(t, redis[t])
    /\ \A t \in Tokens : sessions[t] # None => AsIssued(t, sessions[t])
    /\ \A p \in Procs : Holding(p) => AsIssued(req[p].token, req[p])

\* The per-user index and every list read from it name only that user's
\* tokens, so DeleteAll for one user never ends a session of another.
BulkRevocationScoped ==
    /\ \A u \in Users : \A t \in index[u] : issued[t] # None /\ issued[t].user = u
    /\ \A p \in Procs : \A t \in req[p].listed :
            issued[t] # None /\ issued[t].user = req[p].user

\* No payload of t is on its way to Redis or to an authorization.
NotInFlight(t) ==
    \A p \in Procs : req[p].token = t =>
        req[p].pc \notin {"store", "recoverRoles", "recoverStore", "recoverIndex", "check"}

\* No row that recoverSessionFromDB could use: it is revoked, or the
\* best-effort INSERT of the login never wrote one.
Unrecoverable(t) == sessions[t] # None => sessions[t].revoked

\* A client has t, t is out of both stores, and nobody read it before that.
Dead(t) ==
    /\ redis[t] = None
    /\ t \in known
    /\ Unrecoverable(t)
    /\ NotInFlight(t)

Authorizes(p, t) ==
    req[p].pc # "authorized" /\ req'[p].pc = "authorized" /\ req[p].token = t

\* Once a token is gone from Redis, its row is revoked or was never written,
\* and no request that read it earlier is still running, no interleaving of
\* recoveries, logins, evictions or restarts brings it back or authorizes a
\* request.  With such a request still running the code does bring it back:
\* RevokedNotAuthorized in SessionsHistory.
RevocationFinal ==
    [][\A t \in Tokens : Dead(t) =>
            Dead(t)' /\ \A p \in Procs : ~Authorizes(p, t)]_vars

\* ValidateToken never authorizes a request after the ExpiresAt of the login,
\* even when the clock passes it between the SELECT or GET and the check.
NoAuthorizationAfterExpiry ==
    [][\A p \in Procs, t \in Tokens :
            Authorizes(p, t) => now <= issued[t].exp]_vars
=============================================================================
