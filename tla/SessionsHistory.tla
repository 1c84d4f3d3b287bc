-------------------------- MODULE SessionsHistory ---------------------------
(***************************************************************************)
(* Sessions with history variables for what the documentation says of a    *)
(* key that was deleted from Redis: which tokens were deleted and by whom, *)
(* and which requests began with a revoked session.                        *)
(***************************************************************************)
EXTENDS Sessions

VARIABLES
    voided,     \* voided[t]: the callers that deleted session:{t}
    late        \* the running requests that began after their logout or
                \* forced logout had deleted the key and set revoked_at

histVars == <<vars, voided, late>>

\* The callers whose DEL of session:{t} this step performs.
VoidedBy(t) ==
    LET Moves(p, from, to) == req[p].pc = from /\ req'[p].pc = to IN
    {c \in {"logout", "admin", "role"} : \E p \in Procs :
        \/ c = "logout" /\ Moves(p, "authorized", "logoutZRem") /\ req[p].token = t
        \/ c = "admin" /\ Moves(p, "deleteAll", "auditRevoke") /\ t \in req[p].listed
        \/ c = "role" /\ Moves(p, "hookDeleteAll", "commitRole") /\ t \in req[p].listed}

\* revoked_at of a row is set only after the DEL of its key has succeeded.
FullyRevoked(t) == sessions[t] # None /\ sessions[t].revoked

Begins(p) == req[p].pc = "idle" /\ req'[p].pc = "load"

Running(p) == req'[p].pc # "idle"

HistInit ==
    /\ Init
    /\ voided = [t \in Tokens |-> {}]
    /\ late = {}

HistNext ==
    /\ Next
    /\ voided' = [t \in Tokens |-> voided[t] \cup VoidedBy(t)]
    /\ late' = {p \in Procs : /\ Running(p)
                              /\ \/ p \in late
                                 \/ Begins(p) /\ FullyRevoked(req'[p].token)}

HistSpec == HistInit /\ [][HistNext]_histVars

\* hooks.go: role changes revoke the user's sessions until they re-authenticate,
\* so a key that UserRoleChangeHook deleted does not come back.
RoleChangeFinal == \A t \in Tokens : "role" \in voided[t] => redis[t] = None

\* SESSION_MODEL.md, 4 and 8, and the comments of Logout and ValidateToken: the
\* DEL revokes at once and a missing key is answered with 401.  A request that
\* begins when its session has been deleted from Redis and revoked in
\* iam_sessions is not authorized, whatever other requests were doing.
RevokedNotAuthorized == \A p \in late : req[p].pc # "authorized"
=============================================================================
