--------------------------- MODULE SessionsProofs ---------------------------
(***************************************************************************)
(* Proofs about Sessions, for any number of requests, users, tokens and    *)
(* roles, with failing calls, lost replies, evictions and restarts.        *)
(*                                                                         *)
(* No property of Sessions is inductive as it stands: that a recovery      *)
(* writes what was issued needs the row it read to be as issued, and that  *)
(* a login may overwrite a key or a row needs its token to be in no other  *)
(* request and unknown to clients.  Inv collects these facts, one lemma    *)
(* per action shows that it is kept, and the theorems follow.              *)
(***************************************************************************)
EXTENDS Sessions, TLAPS

\* Login has generated a token and has not returned it yet.
LoginHolds == {"store", "index", "auditLogin"}
\* ValidateToken, or the logout after it, holds the session of a known token.
ValidateHolds == {"recoverRoles", "recoverStore", "recoverIndex", "check",
                  "authorized", "logoutZRem", "auditLogout"}
\* RevokeUserSessions or UserRoleChangeHook acts on one user.
Bulk == {"list", "deleteAll", "auditRevoke", "hookList", "hookDeleteAll", "commitRole"}

\* What the locals of one request satisfy at each program counter.
RequestInv(r) ==
    /\ r.pc \in {"loadRoles"} \cup LoginHolds \cup ValidateHolds \cup Bulk => r.user \in Users
    /\ r.pc \in LoginHolds \cup ValidateHolds => AsIssued(r.token, r)
    /\ r.pc \in LoginHolds => r.token \in Tokens \ known
    /\ r.pc \in {"load", "recover"} \cup ValidateHolds => r.token \in known
    /\ r.pc \notin Bulk => r.listed = {}
    /\ \A t \in r.listed : issued[t] # None /\ issued[t].user = r.user

\* Each request by itself, and no two logins in flight have the same token.
RequestsInv ==
    /\ \A p \in Procs : RequestInv(req[p])
    /\ \A p, q \in Procs : p # q /\ req[p].pc \in LoginHolds /\ req[q].pc \in LoginHolds
            => req[p].token # req[q].token

\* The three stores and the tokens clients know agree with what was issued.
StoresInv ==
    /\ \A t \in known : issued[t] # None
    /\ \A t \in Tokens : redis[t] # None => AsIssued(t, redis[t])
    /\ \A t \in Tokens : sessions[t] # None => t \in known /\ AsIssued(t, sessions[t])
    /\ \A u \in Users : \A t \in index[u] : issued[t] # None /\ issued[t].user = u

\* The inductive invariant.
Inv == TypeOK /\ RequestsInv /\ StoresInv

\* Only the request of p changes, and it keeps its type.
OnlyMoves(p) ==
    req' \in [Procs -> Request] /\ \A q \in Procs : q # p => req'[q] = req[q]

USE ConstantAssumption DEF ConstantAssumption

\* Become(p, r) sets the locals of p to r and leaves the other requests alone.
LEMMA BecomeType ==
    ASSUME req \in [Procs -> Request], NEW p \in Procs, NEW r \in Request, Become(p, r)
    PROVE  OnlyMoves(p) /\ req'[p] = r
BY DEF Become, OnlyMoves

\* The locals of an idle request are well typed.
LEMMA IdleType == Idle \in Request
BY DEF Idle, Request

\* An idle request holds nothing.
LEMMA IdleInv == RequestInv(Idle)
BY DEF Idle, RequestInv, LoginHolds, ValidateHolds, Bulk

\* With empty stores and idle requests the invariant holds.
LEMMA InitInv == Init => Inv
<1> SUFFICES ASSUME Init PROVE Inv
  OBVIOUS
<1>1. TypeOK
  BY IdleType DEF Init, TypeOK
<1>2. RequestsInv
  <2>1. \A p \in Procs : RequestInv(req[p])
    BY IdleInv DEF Init
  <2>2. \A p \in Procs : req[p].pc \notin LoginHolds
    BY DEF Init, Idle, LoginHolds
  <2> QED BY <2>1, <2>2 DEF RequestsInv
<1>3. StoresInv
  BY DEF Init, StoresInv
<1> QED BY <1>1, <1>2, <1>3 DEF Inv

\* A step that generates and returns no token keeps RequestsInv when the request
\* it moves is fine and does not newly hold a generated token.
LEMMA RequestsFrame ==
    ASSUME Inv, NEW p \in Procs, OnlyMoves(p), UNCHANGED <<issued, known>>,
           RequestInv(req[p])',
           req'[p].pc \in LoginHolds =>
                req[p].pc \in LoginHolds /\ req'[p].token = req[p].token
    PROVE  RequestsInv'
<1>1. \A q \in Procs : RequestInv(req[q])'
  BY DEF OnlyMoves, RequestInv, Inv, RequestsInv, AsIssued
<1>2. ASSUME NEW a \in Procs, NEW b \in Procs, a # b,
             req'[a].pc \in LoginHolds, req'[b].pc \in LoginHolds
      PROVE  req'[a].token # req'[b].token
  BY <1>2 DEF OnlyMoves, Inv, RequestsInv
<1> QED BY <1>1, <1>2 DEF RequestsInv

\* The request of p becomes r and no token is generated or returned.
LEMMA Move ==
    ASSUME Inv, NEW p \in Procs, NEW r \in Request, Become(p, r), RequestInv(r),
           UNCHANGED <<issued, known>>,
           r.pc \in LoginHolds => req[p].pc \in LoginHolds /\ r.token = req[p].token
    PROVE  req' \in [Procs -> Request] /\ RequestsInv'
<1>1. OnlyMoves(p) /\ req'[p] = r
  BY BecomeType DEF Inv, TypeOK
<1>2. RequestInv(req[p])'
  BY <1>1 DEF RequestInv, AsIssued
<1> QED BY <1>1, <1>2, RequestsFrame DEF OnlyMoves

\* A request that returns keeps RequestsInv.
LEMMA MoveReturn ==
    ASSUME Inv, NEW p \in Procs, Return(p), UNCHANGED <<issued, known>>
    PROVE  req' \in [Procs -> Request] /\ RequestsInv'
<1>1. Idle.pc \notin LoginHolds
  BY DEF Idle, LoginHolds
<1> QED BY <1>1, IdleType, IdleInv, Move DEF Return

\* Every program counter.
PC == {"idle"} \cup LoginPC \cup ValidatePC \cup LogoutPC \cup RevokePC \cup RoleChangePC

\* Two program counters at which the locals satisfy the same facts.
SamePhase(c, d) == \E S \in {LoginHolds, ValidateHolds, Bulk, {"load", "recover"}} :
    c \in S /\ d \in S

\* A request that moves on within one phase keeps RequestsInv.
LEMMA MoveGoto ==
    ASSUME Inv, NEW p \in Procs, NEW c \in PC, Goto(p, c), SamePhase(req[p].pc, c),
           UNCHANGED <<issued, known>>
    PROVE  req' \in [Procs -> Request] /\ RequestsInv'
<1> DEFINE r == [req[p] EXCEPT !.pc = c]
<1>1. r \in Request /\ r.pc = c /\ r.token = req[p].token
  BY DEF Inv, TypeOK, Request, PC
<1>2. RequestInv(r)
  <2>1. /\ RequestInv(req[p])
        /\ r.pc = c /\ r.token = req[p].token /\ r.user = req[p].user
        /\ r.exp = req[p].exp /\ r.listed = req[p].listed
    BY DEF Inv, RequestsInv, TypeOK, Request
  <2>2. r.pc # "loadRoles"
    BY <2>1 DEF SamePhase, LoginHolds, ValidateHolds, Bulk
  <2>3. CASE req[p].pc \in LoginHolds /\ c \in LoginHolds
    BY <2>1, <2>3 DEF RequestInv, AsIssued, LoginHolds, ValidateHolds, Bulk
  <2>4. CASE req[p].pc \in ValidateHolds /\ c \in ValidateHolds
    BY <2>1, <2>4 DEF RequestInv, AsIssued, LoginHolds, ValidateHolds, Bulk
  <2>5. CASE req[p].pc \in Bulk /\ c \in Bulk
    BY <2>1, <2>5 DEF RequestInv, AsIssued, LoginHolds, ValidateHolds, Bulk
  <2>6. CASE req[p].pc \in {"load", "recover"} /\ c \in {"load", "recover"}
    BY <2>1, <2>6 DEF RequestInv, AsIssued, LoginHolds, ValidateHolds, Bulk
  <2> QED BY <2>3, <2>4, <2>5, <2>6 DEF SamePhase
<1>3. c \in LoginHolds => req[p].pc \in LoginHolds
  BY DEF SamePhase, LoginHolds, ValidateHolds, Bulk
<1>4. Become(p, r)
  BY DEF Goto
<1> QED
  <2> HIDE DEF r
  <2> QED BY <1>1, <1>2, <1>3, <1>4, Move

\* Steps that only move the request: the stores are as before.
LEMMA LocalStep ==
    ASSUME Inv, req' \in [Procs -> Request], RequestsInv',
           UNCHANGED <<now, redis, index, sessions, userRoles, issued, known>>
    PROVE  Inv'
BY DEF Inv, TypeOK, StoresInv, AsIssued

\* Credentials checked: the request knows its user.
LEMMA StepLoginVerify ==
    ASSUME Inv, NEW p \in Procs, NEW u \in Users, LoginVerify(p, u)
    PROVE Inv'
<1>1. PICK r : r = [Idle EXCEPT !.pc = "loadRoles", !.user = u]
  OBVIOUS
<1>2. r \in Request /\ RequestInv(r) /\ r.pc \notin LoginHolds
  BY <1>1 DEF Idle, Request, LoginPC, RequestInv, LoginHolds, ValidateHolds, Bulk
<1>3. Become(p, r)
  BY <1>1 DEF LoginVerify
<1> QED
  BY <1>2, <1>3, Move, LocalStep DEF LoginVerify

\* RequireAuth starts with a token some client knows.
LEMMA StepValidateBegin ==
    ASSUME Inv, NEW p \in Procs, NEW t \in Tokens, ValidateBegin(p, t)
    PROVE Inv'
<1>1. PICK r : r = [Idle EXCEPT !.pc = "load", !.token = t]
  OBVIOUS
<1>2. r \in Request /\ RequestInv(r) /\ r.pc \notin LoginHolds
  BY <1>1 DEF Idle, Request, ValidatePC, RequestInv, LoginHolds, ValidateHolds, Bulk,
              ValidateBegin
<1>3. Become(p, r)
  BY <1>1 DEF ValidateBegin
<1> QED
  BY <1>2, <1>3, Move, LocalStep DEF ValidateBegin

\* A forced logout starts for one user.
LEMMA StepRevokeBegin ==
    ASSUME Inv, NEW p \in Procs, NEW u \in Users, RevokeBegin(p, u)
    PROVE Inv'
<1>1. PICK r : r = [Idle EXCEPT !.pc = "list", !.user = u]
  OBVIOUS
<1>2. r \in Request /\ RequestInv(r) /\ r.pc \notin LoginHolds
  BY <1>1 DEF Idle, Request, RevokePC, RequestInv, LoginHolds, ValidateHolds, Bulk
<1>3. Become(p, r)
  BY <1>1 DEF RevokeBegin
<1> QED
  BY <1>2, <1>3, Move, LocalStep DEF RevokeBegin

\* A role change starts for one user.
LEMMA StepRoleChangeBegin ==
    ASSUME Inv, NEW p \in Procs, NEW u \in Users, NEW o \in Roles, RoleChangeBegin(p, u, o)
    PROVE Inv'
<1>1. PICK r : r = [Idle EXCEPT !.pc = "hookList", !.user = u,
                        !.roles = {o}, !.grant = o \notin userRoles[u]]
  OBVIOUS
<1>2. r \in Request /\ RequestInv(r) /\ r.pc \notin LoginHolds
  BY <1>1 DEF Idle, Request, RoleChangePC, RequestInv, LoginHolds, ValidateHolds, Bulk
<1>3. Become(p, r)
  BY <1>1 DEF RoleChangeBegin
<1> QED
  BY <1>2, <1>3, Move, LocalStep DEF RoleChangeBegin

\* GenerateToken returns a token nobody has: the request holds it as issued, and
\* what was said of the other tokens still holds.
LEMMA StepLoginLoadRoles ==
    ASSUME Inv, NEW p \in Procs, LoginLoadRoles(p)
    PROVE Inv'
<1>1. CASE Return(p) /\ UNCHANGED issued
  BY <1>1, MoveReturn, LocalStep DEF LoginLoadRoles
<1>2. ASSUME NEW t \in Tokens, issued[t] = None,
             issued' = [issued EXCEPT
                    ![t] = [user |-> req[p].user, exp |-> now + SessionTTL]],
             Become(p, [req[p] EXCEPT !.pc = "store", !.token = t,
                            !.roles = userRoles[req[p].user],
                            !.exp = now + SessionTTL])
      PROVE  Inv'
  <2>1. req[p].user \in Users /\ RequestInv(req[p])
    BY DEF LoginLoadRoles, Inv, RequestsInv, RequestInv
  <2>2. PICK r : r = [req[p] EXCEPT !.pc = "store", !.token = t,
                            !.roles = userRoles[req[p].user],
                            !.exp = now + SessionTTL]
    OBVIOUS
  <2>3. r \in Request
    <3>1. now + SessionTTL \in Nat /\ userRoles[req[p].user] \in SUBSET Roles
          /\ req[p] \in Request
      BY <2>1 DEF Inv, TypeOK
    <3> QED BY <2>2, <3>1 DEF Request, LoginPC
  <2>4. OnlyMoves(p) /\ req'[p] = r
    BY <1>2, <2>2, <2>3, BecomeType DEF Inv, TypeOK
  <2>5. issued' \in [Tokens -> Grant \cup {None}]
    BY <1>2, <2>1 DEF Inv, TypeOK, Grant
  <2>6. /\ \A x \in Tokens : issued[x] # None => issued'[x] = issued[x]
        /\ issued'[t] = [user |-> req[p].user, exp |-> now + SessionTTL]
        /\ issued'[t] # None
    <3>1. [user |-> req[p].user, exp |-> now + SessionTTL] \in Grant
      BY <2>1 DEF Inv, TypeOK, Grant
    <3> QED BY <1>2, <3>1 DEF Inv, TypeOK
  <2>7. t \notin known
    BY <1>2 DEF Inv, StoresInv
  <2>8. RequestInv(req[p])'
    <3>1. /\ r.pc = "store" /\ r.token = t /\ r.user = req[p].user
          /\ r.exp = now + SessionTTL /\ r.listed = req[p].listed
      BY <2>2 DEF Inv, TypeOK, Request
    <3>2. \A x \in r.listed : issued'[x] # None /\ issued'[x].user = r.user
      BY <2>1, <2>3, <2>6, <3>1 DEF RequestInv, Request
    <3>3. AsIssued(req[p].token, req[p])'
      BY <2>4, <2>6, <3>1 DEF AsIssued
    <3>4. known' = known
      BY DEF LoginLoadRoles
    <3>6. req'[p].listed = {}
      BY <2>1, <2>4, <3>1 DEF LoginLoadRoles, RequestInv, Bulk
    <3>5. req'[p].pc = "store" /\ req'[p].user \in Users /\ req'[p].token \in Tokens \ known'
          /\ req'[p].listed = r.listed /\ req'[p].user = r.user
      BY <2>1, <2>4, <2>7, <3>1, <3>4
    <3> QED
      BY <3>2, <3>3, <3>5, <3>6 DEF RequestInv, LoginHolds, ValidateHolds, Bulk
  <2>9. \A q \in Procs : q # p => RequestInv(req[q])'
    <3> SUFFICES ASSUME NEW q \in Procs, q # p PROVE RequestInv(req[q])'
      OBVIOUS
    <3>1. RequestInv(req[q]) /\ req'[q] = req[q] /\ known' = known /\ req[q] \in Request
      BY <2>4 DEF Inv, RequestsInv, OnlyMoves, LoginLoadRoles, TypeOK
    <3>2. known \subseteq Tokens
      BY DEF Inv, TypeOK
    <3> QED BY <2>6, <3>1, <3>2 DEF RequestInv, AsIssued, Request
  <2>10. RequestsInv'
    <3>1. \A q \in Procs : q # p /\ req[q].pc \in LoginHolds => req[q].token # t
      BY <1>2 DEF Inv, RequestsInv, RequestInv, AsIssued
    <3>2. req'[p].token = t
      BY <2>2, <2>4 DEF Inv, TypeOK, Request
    <3>3. \A a, b \in Procs : a # b /\ req'[a].pc \in LoginHolds /\ req'[b].pc \in LoginHolds
              => req'[a].token # req'[b].token
      BY <2>4, <3>1, <3>2 DEF OnlyMoves, Inv, RequestsInv
    <3>4. \A q \in Procs : RequestInv(req[q])'
      BY <2>8, <2>9
    <3> QED BY <3>3, <3>4 DEF RequestsInv
  <2>11. StoresInv'
    <3>1. UNCHANGED <<redis, index, sessions, known>>
      BY DEF LoginLoadRoles
    <3>2. known \subseteq Tokens /\ index \in [Users -> SUBSET Tokens]
      BY DEF Inv, TypeOK
    <3>4. \A x \in known' : issued'[x] # None
      BY <2>6, <3>1, <3>2 DEF Inv, StoresInv
    <3>5. \A x \in Tokens : redis'[x] # None => AsIssued(x, redis[x])'
      BY <2>6, <3>1 DEF Inv, StoresInv, AsIssued
    <3>6. \A x \in Tokens : sessions'[x] # None => x \in known' /\ AsIssued(x, sessions[x])'
      BY <2>6, <3>1 DEF Inv, StoresInv, AsIssued
    <3>7. \A u \in Users : \A x \in index'[u] : issued'[x] # None /\ issued'[x].user = u
      BY <2>6, <3>1, <3>2 DEF Inv, StoresInv
    <3> QED BY <3>4, <3>5, <3>6, <3>7 DEF StoresInv
  <2> QED BY <2>4, <2>5, <2>10, <2>11 DEF Inv, TypeOK, OnlyMoves, LoginLoadRoles
<1> QED BY <1>1, <1>2 DEF LoginLoadRoles

\* A SET writes the payload that the request holds.
LEMMA StoreSetInv ==
    ASSUME Inv, NEW p \in Procs, req[p].pc \in LoginHolds \cup ValidateHolds, StoreSet(p)
    PROVE  /\ redis' \in [Tokens -> Session \cup {None}]
           /\ \A t \in Tokens : redis'[t] # None => AsIssued(t, redis'[t])
<1>1. req[p].user \in Users /\ req[p].token \in Tokens /\ AsIssued(req[p].token, req[p])
      /\ req[p].roles \in SUBSET Roles /\ req[p].exp \in Nat
  BY DEF Inv, RequestsInv, RequestInv, TypeOK, Request
<1>2. RestoredPayload(p) \in Session /\ AsIssued(req[p].token, RestoredPayload(p))
  BY <1>1 DEF RestoredPayload, Session, AsIssued
<1> QED BY <1>1, <1>2 DEF StoreSet, Inv, TypeOK, StoresInv

\* A ZADD adds the token under the user it was issued to.
LEMMA IndexAddInv ==
    ASSUME Inv, NEW p \in Procs, req[p].pc \in LoginHolds \cup ValidateHolds,
           index' = IndexAdd(p)
    PROVE  /\ index' \in [Users -> SUBSET Tokens]
           /\ \A u \in Users : \A t \in index'[u] : issued[t] # None /\ issued[t].user = u
<1>1. req[p].user \in Users /\ req[p].token \in Tokens /\ AsIssued(req[p].token, req[p])
  BY DEF Inv, RequestsInv, RequestInv, TypeOK, Request
<1> QED BY <1>1 DEF IndexAdd, Inv, TypeOK, StoresInv, AsIssued

\* storeSession writes the payload just issued.
LEMMA StepLoginStore ==
    ASSUME Inv, NEW p \in Procs, LoginStore(p)
    PROVE Inv'
<1>1. CASE StoreSet(p) /\ (Goto(p, "index") \/ Return(p))
  <2>1. req' \in [Procs -> Request] /\ RequestsInv'
    BY <1>1, MoveGoto, MoveReturn DEF LoginStore, SamePhase, LoginHolds, PC, LoginPC
  <2> QED BY <1>1, <2>1, StoreSetInv
          DEF Inv, TypeOK, StoresInv, AsIssued, LoginStore, LoginHolds
<1>2. CASE Return(p) /\ UNCHANGED redis
  BY <1>2, MoveReturn, LocalStep DEF LoginStore
<1> QED BY <1>1, <1>2 DEF LoginStore

\* ZADD files the new token under its user.
LEMMA StepLoginIndex ==
    ASSUME Inv, NEW p \in Procs, LoginIndex(p)
    PROVE Inv'
<1>1. req' \in [Procs -> Request] /\ RequestsInv'
  BY MoveGoto DEF LoginIndex, SamePhase, LoginHolds, PC, LoginPC
<1>2. CASE index' = IndexAdd(p)
  BY <1>1, <1>2, IndexAddInv DEF Inv, TypeOK, StoresInv, AsIssued, LoginIndex, LoginHolds
<1>3. CASE UNCHANGED index
  BY <1>1, <1>3, LocalStep DEF LoginIndex
<1> QED BY <1>2, <1>3 DEF LoginIndex

\* The row is written as issued and the token becomes known to the client; no
\* other login in flight has it.
LEMMA StepAuditLogin ==
    ASSUME Inv, NEW p \in Procs, AuditLogin(p)
    PROVE Inv'
<1> DEFINE t == req[p].token
<1>1. /\ t \in Tokens \ known /\ req[p].user \in Users /\ req[p].exp \in Nat
      /\ AsIssued(t, req[p]) /\ req[p].pc \in LoginHolds
  BY DEF Inv, RequestsInv, RequestInv, TypeOK, Request, AuditLogin, LoginHolds
<1>2. OnlyMoves(p) /\ req'[p] = Idle
  BY BecomeType, IdleType DEF AuditLogin, Return, Inv, TypeOK
<1>3. known' = known \cup {t} /\ UNCHANGED <<now, redis, index, userRoles, issued>>
  BY DEF AuditLogin
<1>4. \A q \in Procs : RequestInv(req[q])'
  <2>1. RequestInv(req[p])'
    BY <1>2 DEF RequestInv, Idle, LoginHolds, ValidateHolds, Bulk
  <2>2. ASSUME NEW q \in Procs, q # p PROVE RequestInv(req[q])'
    <3>1. RequestInv(req[q]) /\ req'[q] = req[q]
      BY <1>2, <2>2 DEF Inv, RequestsInv, OnlyMoves
    <3>2. req[q].pc \in LoginHolds => req[q].token # t
      BY <1>1, <2>2 DEF Inv, RequestsInv
    <3> QED BY <1>3, <3>1, <3>2 DEF RequestInv, AsIssued
  <2> QED BY <2>1, <2>2
<1>5. RequestsInv'
  BY <1>2, <1>4 DEF RequestsInv, OnlyMoves, Inv, Idle, LoginHolds
<1>6. /\ sessions' \in [Tokens -> SessionRow \cup {None}]
      /\ \A x \in Tokens : sessions'[x] # None => x \in known' /\ AsIssued(x, sessions'[x])
  <2>1. CASE UNCHANGED sessions
    BY <1>3, <2>1 DEF Inv, TypeOK, StoresInv, AsIssued
  <2>2. CASE sessions' = [sessions EXCEPT
            ![t] = [user |-> req[p].user, exp |-> req[p].exp, revoked |-> FALSE]]
    <3>1. PICK row : row = [user |-> req[p].user, exp |-> req[p].exp, revoked |-> FALSE]
      OBVIOUS
    <3>2. row \in SessionRow /\ AsIssued(t, row)
      BY <1>1, <3>1 DEF SessionRow, AsIssued
    <3>3. sessions' = [sessions EXCEPT ![t] = row]
      BY <2>2, <3>1
    <3>4. sessions' \in [Tokens -> SessionRow \cup {None}]
      BY <3>2, <3>3 DEF Inv, TypeOK
    <3>5. \A x \in Tokens : x # t => sessions'[x] = sessions[x]
      BY <3>3 DEF Inv, TypeOK
    <3>6. sessions'[t] = row
      BY <1>1, <3>3 DEF Inv, TypeOK
    <3> HIDE DEF t
    <3> QED BY <1>3, <3>2, <3>4, <3>5, <3>6 DEF Inv, StoresInv, AsIssued
  <2> QED BY <2>1, <2>2 DEF AuditLogin
<1> QED BY <1>1, <1>2, <1>3, <1>5, <1>6 DEF Inv, TypeOK, StoresInv, AsIssued, OnlyMoves

\* What Redis returns for a known token is as issued.
LEMMA StepValidateLoad ==
    ASSUME Inv, NEW p \in Procs, ValidateLoad(p)
    PROVE Inv'
<1> DEFINE t == req[p].token
<1>1. t \in known /\ t \in Tokens
  BY DEF Inv, RequestsInv, RequestInv, TypeOK, ValidateLoad
<1>2. CASE redis[t] # None
           /\ Become(p, [req[p] EXCEPT !.pc = "check", !.user = redis[t].user,
                            !.roles = redis[t].roles, !.exp = redis[t].exp])
  <2>1. redis[t] \in Session /\ AsIssued(t, redis[t])
    BY <1>1, <1>2 DEF Inv, TypeOK, StoresInv
  <2>2. PICK r : r = [req[p] EXCEPT !.pc = "check", !.user = redis[t].user,
                            !.roles = redis[t].roles, !.exp = redis[t].exp]
    OBVIOUS
  <2>3. /\ r \in Request /\ r.pc = "check" /\ r.token = t /\ r.user \in Users
        /\ AsIssued(t, r) /\ r.listed = req[p].listed
    <3>1. /\ req[p] \in Request /\ redis[t].user \in Users
          /\ redis[t].roles \in SUBSET Roles /\ redis[t].exp \in Nat
      BY <2>1 DEF Inv, TypeOK, Session
    <3>2. /\ r \in Request /\ r.pc = "check" /\ r.token = t /\ r.user = redis[t].user
          /\ r.exp = redis[t].exp /\ r.listed = req[p].listed
      BY <2>2, <3>1 DEF Request, ValidatePC
    <3> QED BY <2>1, <3>1, <3>2 DEF AsIssued
  <2>4. r.listed = {}
    BY <2>3 DEF ValidateLoad, Inv, RequestsInv, RequestInv, Bulk
  <2>5. RequestInv(r) /\ r.pc \notin LoginHolds
    BY <1>1, <2>3, <2>4 DEF RequestInv, LoginHolds, ValidateHolds, Bulk
  <2> QED BY <1>2, <2>2, <2>3, <2>5, Move, LocalStep DEF ValidateLoad
<1>3. CASE Goto(p, "recover")
  <2>1. req' \in [Procs -> Request] /\ RequestsInv'
    BY <1>3, MoveGoto DEF ValidateLoad, SamePhase, PC, ValidatePC
  <2> QED BY <2>1, LocalStep DEF ValidateLoad
<1>4. CASE Return(p)
  BY <1>4, MoveReturn, LocalStep DEF ValidateLoad
<1> QED BY <1>2, <1>3, <1>4 DEF ValidateLoad

\* What iam_sessions returns for a known token is as issued.
LEMMA StepRecoverSelect ==
    ASSUME Inv, NEW p \in Procs, RecoverSelect(p)
    PROVE Inv'
<1> DEFINE t == req[p].token
<1>1. t \in known /\ t \in Tokens
  BY DEF Inv, RequestsInv, RequestInv, TypeOK, RecoverSelect
<1>2. CASE LiveRow(t)
           /\ Become(p, [req[p] EXCEPT !.pc = "recoverRoles",
                            !.user = sessions[t].user, !.exp = sessions[t].exp])
  <2>1. sessions[t] \in SessionRow /\ AsIssued(t, sessions[t])
    BY <1>1, <1>2 DEF Inv, TypeOK, StoresInv, LiveRow
  <2>2. PICK r : r = [req[p] EXCEPT !.pc = "recoverRoles",
                            !.user = sessions[t].user, !.exp = sessions[t].exp]
    OBVIOUS
  <2>3. /\ r \in Request /\ r.pc = "recoverRoles" /\ r.token = t /\ r.user \in Users
        /\ AsIssued(t, r) /\ r.listed = req[p].listed
    <3>1. req[p] \in Request /\ sessions[t].user \in Users /\ sessions[t].exp \in Nat
      BY <2>1 DEF Inv, TypeOK, SessionRow
    <3>2. /\ r \in Request /\ r.pc = "recoverRoles" /\ r.token = t
          /\ r.user = sessions[t].user /\ r.exp = sessions[t].exp
          /\ r.listed = req[p].listed
      BY <2>2, <3>1 DEF Request, ValidatePC
    <3> QED BY <2>1, <3>1, <3>2 DEF AsIssued
  <2>4. r.listed = {}
    BY <2>3 DEF RecoverSelect, Inv, RequestsInv, RequestInv, Bulk
  <2>5. RequestInv(r) /\ r.pc \notin LoginHolds
    BY <1>1, <2>3, <2>4 DEF RequestInv, LoginHolds, ValidateHolds, Bulk
  <2> QED BY <1>2, <2>2, <2>3, <2>5, Move, LocalStep DEF RecoverSelect
<1>3. CASE Return(p)
  BY <1>3, MoveReturn, LocalStep DEF RecoverSelect
<1> QED BY <1>2, <1>3 DEF RecoverSelect

\* Reloaded roles do not touch user and expiry.
LEMMA StepRecoverRoles ==
    ASSUME Inv, NEW p \in Procs, RecoverRoles(p)
    PROVE Inv'
<1>1. req[p] \in Request /\ RequestInv(req[p]) /\ req[p].pc = "recoverRoles"
  BY DEF Inv, RequestsInv, TypeOK, RecoverRoles
<1>2. PICK R : R \in SUBSET Roles
           /\ Become(p, [req[p] EXCEPT !.pc = "recoverStore", !.roles = R])
  BY <1>1 DEF RecoverRoles, Inv, TypeOK, RequestInv, ValidateHolds
<1>3. PICK r : r = [req[p] EXCEPT !.pc = "recoverStore", !.roles = R]
  OBVIOUS
<1>4. /\ r \in Request /\ r.pc = "recoverStore" /\ r.token = req[p].token
      /\ r.user = req[p].user /\ r.exp = req[p].exp /\ r.listed = req[p].listed
  BY <1>1, <1>2, <1>3 DEF Request, ValidatePC
<1>5. RequestInv(r) /\ r.pc \notin LoginHolds
  BY <1>1, <1>4 DEF RequestInv, AsIssued, LoginHolds, ValidateHolds, Bulk
<1> QED BY <1>2, <1>3, <1>4, <1>5, Move, LocalStep DEF RecoverRoles

\* Recovery stores the expiry of the row, not a new one.
LEMMA StepRecoverStore ==
    ASSUME Inv, NEW p \in Procs, RecoverStore(p)
    PROVE Inv'
<1>1. CASE StoreSet(p) /\ (Goto(p, "recoverIndex") \/ Goto(p, "check"))
  <2>1. req' \in [Procs -> Request] /\ RequestsInv'
    BY <1>1, MoveGoto DEF RecoverStore, SamePhase, ValidateHolds, PC, ValidatePC
  <2> QED BY <1>1, <2>1, StoreSetInv
          DEF Inv, TypeOK, StoresInv, AsIssued, RecoverStore, ValidateHolds
<1>2. CASE Goto(p, "check") /\ UNCHANGED redis
  <2>1. req' \in [Procs -> Request] /\ RequestsInv'
    BY <1>2, MoveGoto DEF RecoverStore, SamePhase, ValidateHolds, PC, ValidatePC
  <2> QED BY <1>2, <2>1, LocalStep DEF RecoverStore
<1> QED BY <1>1, <1>2 DEF RecoverStore

\* Recovery files the token under the user of the row.
LEMMA StepRecoverIndex ==
    ASSUME Inv, NEW p \in Procs, RecoverIndex(p)
    PROVE Inv'
<1>1. req' \in [Procs -> Request] /\ RequestsInv'
  BY MoveGoto DEF RecoverIndex, SamePhase, ValidateHolds, PC, ValidatePC
<1>2. CASE index' = IndexAdd(p)
  BY <1>1, <1>2, IndexAddInv DEF Inv, TypeOK, StoresInv, AsIssued, RecoverIndex, ValidateHolds
<1>3. CASE UNCHANGED index
  BY <1>1, <1>3, LocalStep DEF RecoverIndex
<1> QED BY <1>2, <1>3 DEF RecoverIndex

\* The expiry check keeps or drops the session the request holds.
LEMMA StepValidateCheck ==
    ASSUME Inv, NEW p \in Procs, ValidateCheck(p)
    PROVE Inv'
<1>1. CASE Goto(p, "authorized")
  <2>1. req' \in [Procs -> Request] /\ RequestsInv'
    BY <1>1, MoveGoto DEF ValidateCheck, SamePhase, ValidateHolds, PC, ValidatePC
  <2> QED BY <2>1, LocalStep DEF ValidateCheck
<1>2. CASE Return(p)
  BY <1>2, MoveReturn, LocalStep DEF ValidateCheck
<1> QED BY <1>1, <1>2 DEF ValidateCheck

\* The authorized request returns.
LEMMA StepRequestDone ==
    ASSUME Inv, NEW p \in Procs, RequestDone(p)
    PROVE Inv'
BY MoveReturn, LocalStep DEF RequestDone

\* Logout only deletes a key.
LEMMA StepLogoutDel ==
    ASSUME Inv, NEW p \in Procs, LogoutDel(p)
    PROVE Inv'
<1>1. CASE redis' = [redis EXCEPT ![req[p].token] = None]
           /\ (Goto(p, "logoutZRem") \/ Return(p))
  <2>1. req' \in [Procs -> Request] /\ RequestsInv'
    BY <1>1, MoveGoto, MoveReturn DEF LogoutDel, SamePhase, ValidateHolds, PC, LogoutPC
  <2> QED BY <1>1, <2>1 DEF Inv, TypeOK, StoresInv, AsIssued, LogoutDel
<1>2. CASE Return(p) /\ UNCHANGED redis
  BY <1>2, MoveReturn, LocalStep DEF LogoutDel
<1> QED BY <1>1, <1>2 DEF LogoutDel

\* ZREM only removes an index member.
LEMMA StepLogoutZRem ==
    ASSUME Inv, NEW p \in Procs, LogoutZRem(p)
    PROVE Inv'
<1>1. req' \in [Procs -> Request] /\ RequestsInv'
  BY MoveGoto DEF LogoutZRem, SamePhase, ValidateHolds, PC, LogoutPC
<1>2. CASE index' = [index EXCEPT ![req[p].user] = @ \ {req[p].token}]
  BY <1>1, <1>2 DEF Inv, TypeOK, StoresInv, AsIssued, LogoutZRem
<1>3. CASE UNCHANGED index
  BY <1>1, <1>3, LocalStep DEF LogoutZRem
<1> QED BY <1>2, <1>3 DEF LogoutZRem

\* Setting revoked_at keeps the user and the expiry of every row.
LEMMA RevokedInv ==
    ASSUME Inv, NEW toks, sessions' = Revoked(toks), UNCHANGED <<issued, known>>
    PROVE  /\ sessions' \in [Tokens -> SessionRow \cup {None}]
           /\ \A t \in Tokens : sessions'[t] # None => t \in known' /\ AsIssued(t, sessions[t])'
<1>1. ASSUME NEW t \in Tokens, t \in toks, sessions[t] # None
      PROVE  /\ sessions'[t] = [sessions[t] EXCEPT !.revoked = TRUE]
             /\ sessions'[t] \in SessionRow
             /\ sessions'[t].user = sessions[t].user /\ sessions'[t].exp = sessions[t].exp
  <2>1. sessions[t] \in SessionRow
    BY <1>1 DEF Inv, TypeOK
  <2>2. sessions'[t] = [sessions[t] EXCEPT !.revoked = TRUE]
    BY <1>1 DEF Revoked
  <2> QED BY <2>1, <2>2 DEF SessionRow
<1>2. ASSUME NEW t \in Tokens, ~(t \in toks /\ sessions[t] # None)
      PROVE  sessions'[t] = sessions[t]
  BY <1>2 DEF Revoked
<1>3. sessions' \in [Tokens -> SessionRow \cup {None}]
  <2>1. \A t \in Tokens : sessions'[t] \in SessionRow \cup {None}
    BY <1>1, <1>2 DEF Inv, TypeOK
  <2> QED BY <2>1 DEF Revoked
<1>4. ASSUME NEW t \in Tokens, sessions'[t] # None
      PROVE  t \in known' /\ AsIssued(t, sessions[t])'
  BY <1>1, <1>2, <1>4 DEF Inv, StoresInv, AsIssued
<1> QED BY <1>3, <1>4

\* Setting revoked_at of one row.
LEMMA StepAuditLogout ==
    ASSUME Inv, NEW p \in Procs, AuditLogout(p)
    PROVE Inv'
<1>1. CASE UNCHANGED sessions
  BY <1>1, MoveReturn, LocalStep DEF AuditLogout
<1>2. CASE sessions' = Revoked({req[p].token})
  BY <1>2, MoveReturn, RevokedInv DEF Inv, TypeOK, StoresInv, AsIssued, AuditLogout
<1> QED BY <1>1, <1>2 DEF AuditLogout

\* ListUserTokens only reads tokens of the user and prunes the index.
LEMMA ListedInv ==
    ASSUME Inv, NEW p \in Procs, req[p].pc \in Bulk, NEW listed \in Listable(req[p].user),
           index' = [index EXCEPT ![req[p].user] = listed]
    PROVE  /\ req[p].user \in Users /\ listed \in SUBSET Tokens
           /\ \A t \in listed : issued[t] # None /\ issued[t].user = req[p].user
           /\ index' \in [Users -> SUBSET Tokens]
           /\ \A u \in Users : \A t \in index'[u] : issued[t] # None /\ issued[t].user = u
<1>1. req[p].user \in Users
  BY DEF Inv, RequestsInv, RequestInv
<1>2. listed \subseteq index[req[p].user]
  BY DEF Listable, Pruned
<1>3. /\ listed \in SUBSET Tokens
      /\ \A t \in listed : issued[t] # None /\ issued[t].user = req[p].user
  BY <1>1, <1>2 DEF Inv, TypeOK, StoresInv
<1> QED BY <1>1, <1>3 DEF Inv, TypeOK, StoresInv

\* The request keeps what ListUserTokens returned.
LEMMA MoveListed ==
    ASSUME Inv, NEW p \in Procs, req[p].pc \in Bulk,
           NEW found \in Bulk, NEW listed \in SUBSET Tokens, Listed(p, found, listed),
           \A t \in listed : issued[t] # None /\ issued[t].user = req[p].user,
           UNCHANGED <<issued, known>>
    PROVE  req' \in [Procs -> Request] /\ RequestsInv'
<1>1. req[p] \in Request /\ RequestInv(req[p])
  BY DEF Inv, RequestsInv, TypeOK
<1>2. PICK r : r = [req[p] EXCEPT !.pc = found, !.listed = listed]
  OBVIOUS
<1>3. r \in Request /\ r.pc = found /\ r.user = req[p].user /\ r.listed = listed
  BY <1>1, <1>2 DEF Request, Bulk, RevokePC, RoleChangePC
<1>4. RequestInv(r) /\ r.pc \notin LoginHolds
  BY <1>1, <1>3 DEF RequestInv, LoginHolds, ValidateHolds, Bulk
<1> QED BY <1>2, <1>3, <1>4, Move DEF Listed

\* The forced logout keeps a list of tokens of its user.
LEMMA StepRevokeList ==
    ASSUME Inv, NEW p \in Procs, RevokeList(p)
    PROVE Inv'
<1>1. req[p].pc \in Bulk /\ UNCHANGED <<now, redis, sessions, userRoles, issued, known>>
  BY DEF RevokeList, Bulk
<1>2. ASSUME NEW listed \in Listable(req[p].user),
             index' = [index EXCEPT ![req[p].user] = listed],
             Return(p) \/ Listed(p, "deleteAll", listed)
      PROVE  Inv'
  <2>1. /\ listed \in SUBSET Tokens
        /\ \A t \in listed : issued[t] # None /\ issued[t].user = req[p].user
        /\ index' \in [Users -> SUBSET Tokens]
        /\ \A u \in Users : \A t \in index'[u] : issued[t] # None /\ issued[t].user = u
    BY <1>1, <1>2, ListedInv
  <2>2. "deleteAll" \in Bulk
    BY DEF Bulk
  <2>3. req' \in [Procs -> Request] /\ RequestsInv'
    BY <1>1, <1>2, <2>1, <2>2, MoveReturn, MoveListed
  <2> QED BY <1>1, <2>1, <2>3 DEF Inv, TypeOK, StoresInv, AsIssued
<1> QED BY <1>2 DEF RevokeList

\* The role-change hook keeps a list of tokens of its user.
LEMMA StepHookList ==
    ASSUME Inv, NEW p \in Procs, HookList(p)
    PROVE Inv'
<1>1. req[p].pc \in Bulk /\ UNCHANGED <<now, redis, sessions, userRoles, issued, known>>
  BY DEF HookList, Bulk
<1>2. ASSUME NEW listed \in Listable(req[p].user),
             index' = [index EXCEPT ![req[p].user] = listed],
             ToCommit(p) \/ Listed(p, "hookDeleteAll", listed) \/ Return(p)
      PROVE  Inv'
  <2>1. /\ listed \in SUBSET Tokens
        /\ \A t \in listed : issued[t] # None /\ issued[t].user = req[p].user
        /\ index' \in [Users -> SUBSET Tokens]
        /\ \A u \in Users : \A t \in index'[u] : issued[t] # None /\ issued[t].user = u
    BY <1>1, <1>2, ListedInv
  <2>2. "hookDeleteAll" \in Bulk
    BY DEF Bulk
  <2>3. SamePhase(req[p].pc, "commitRole") /\ "commitRole" \in PC
    BY <1>1 DEF SamePhase, Bulk, PC, RoleChangePC
  <2>4. req' \in [Procs -> Request] /\ RequestsInv'
    <3>1. CASE ToCommit(p)
      BY <1>1, <2>3, <3>1, MoveGoto DEF ToCommit
    <3>2. CASE Listed(p, "hookDeleteAll", listed)
      BY <1>1, <2>1, <2>2, <3>2, MoveListed
    <3> QED BY <1>1, <1>2, <3>1, <3>2, MoveReturn
  <2> QED BY <1>1, <2>1, <2>4 DEF Inv, TypeOK, StoresInv, AsIssued
<1> QED BY <1>2 DEF HookList

\* DeleteAll only removes keys and index members.
LEMMA DeletedInv ==
    ASSUME Inv, NEW u, NEW toks, DelSessionsAndIndex(u, toks), UNCHANGED <<issued, known>>
    PROVE  /\ redis' \in [Tokens -> Session \cup {None}]
           /\ \A t \in Tokens : redis'[t] # None => AsIssued(t, redis[t])'
           /\ index' \in [Users -> SUBSET Tokens]
           /\ \A v \in Users : \A t \in index'[v] : issued[t] # None /\ issued[t].user = v
BY DEF DelSessionsAndIndex, Inv, TypeOK, StoresInv, AsIssued

\* The forced logout deletes keys and the index.
LEMMA StepRevokeDeleteAll ==
    ASSUME Inv, NEW p \in Procs, RevokeDeleteAll(p)
    PROVE Inv'
<1>1. CASE DelSessionsAndIndex(req[p].user, req[p].listed) /\ (Goto(p, "auditRevoke") \/ Return(p))
  <2>1. req' \in [Procs -> Request] /\ RequestsInv'
    BY <1>1, MoveGoto, MoveReturn DEF RevokeDeleteAll, SamePhase, Bulk, PC, RevokePC
  <2> QED BY <1>1, <2>1, DeletedInv
          DEF Inv, TypeOK, StoresInv, AsIssued, RevokeDeleteAll
<1>2. CASE Return(p) /\ UNCHANGED <<redis, index>>
  BY <1>2, MoveReturn, LocalStep DEF RevokeDeleteAll
<1> QED BY <1>1, <1>2 DEF RevokeDeleteAll

\* The role-change hook deletes keys and the index.
LEMMA StepHookDeleteAll ==
    ASSUME Inv, NEW p \in Procs, HookDeleteAll(p)
    PROVE Inv'
<1>1. CASE DelSessionsAndIndex(req[p].user, req[p].listed) /\ (ToCommit(p) \/ Return(p))
  <2>1. req' \in [Procs -> Request] /\ RequestsInv'
    BY <1>1, MoveGoto, MoveReturn DEF HookDeleteAll, ToCommit, SamePhase, Bulk, PC, RoleChangePC
  <2> QED BY <1>1, <2>1, DeletedInv
          DEF Inv, TypeOK, StoresInv, AsIssued, HookDeleteAll
<1>2. CASE Return(p) /\ UNCHANGED <<redis, index>>
  BY <1>2, MoveReturn, LocalStep DEF HookDeleteAll
<1> QED BY <1>1, <1>2 DEF HookDeleteAll

\* Setting revoked_at of the listed rows.
LEMMA StepAuditRevoke ==
    ASSUME Inv, NEW p \in Procs, AuditRevoke(p)
    PROVE Inv'
<1>1. CASE UNCHANGED sessions
  BY <1>1, MoveReturn, LocalStep DEF AuditRevoke
<1>2. CASE sessions' = Revoked(req[p].listed)
  BY <1>2, MoveReturn, RevokedInv DEF Inv, TypeOK, StoresInv, AsIssued, AuditRevoke
<1> QED BY <1>1, <1>2 DEF AuditRevoke

\* The commit of a role change touches iam_user_roles only.
LEMMA StepCommitRole ==
    ASSUME Inv, NEW p \in Procs, CommitRole(p)
    PROVE Inv'
<1>1. req' \in [Procs -> Request] /\ RequestsInv'
  BY MoveReturn DEF CommitRole
<1>2. userRoles' \in [Users -> SUBSET Roles]
  <2>1. req[p].roles \in SUBSET Roles
    BY DEF Inv, TypeOK, Request
  <2> QED BY <2>1 DEF CommitRole, Inv, TypeOK
<1> QED BY <1>1, <1>2 DEF Inv, TypeOK, StoresInv, AsIssued, CommitRole

\* The environment only advances the clock and removes keys from Redis.
LEMMA StepEnvironment ==
    ASSUME Inv, Tick \/ (\E t \in Tokens : RedisEvict(t)) \/ RedisRestart
    PROVE Inv'
<1>1. UNCHANGED <<req, sessions, userRoles, issued, known>>
  BY DEF Tick, RedisEvict, RedisRestart
<1>2. \A t \in Tokens : redis'[t] \in {redis[t], None}
  BY DEF Tick, RedisEvict, RedisRestart, Inv, TypeOK
<1>3. \A u \in Users : index'[u] \subseteq index[u]
  BY DEF Tick, RedisEvict, RedisRestart
<1>4. redis' \in [Tokens -> Session \cup {None}] /\ index' \in [Users -> SUBSET Tokens]
      /\ now' \in Nat
  <2>1. DOMAIN redis' = Tokens /\ redis' = [t \in Tokens |-> redis'[t]]
    BY DEF Tick, RedisEvict, RedisRestart, Inv, TypeOK
  <2>2. redis' \in [Tokens -> Session \cup {None}]
    BY <1>2, <2>1 DEF Inv, TypeOK
  <2>3. index' \in [Users -> SUBSET Tokens]
    BY DEF Tick, RedisEvict, RedisRestart, Inv, TypeOK
  <2>4. now' \in Nat
    BY DEF Tick, RedisEvict, RedisRestart, Inv, TypeOK
  <2> QED BY <2>2, <2>3, <2>4
<1>5. RequestsInv'
  BY <1>1 DEF Inv, RequestsInv, RequestInv, AsIssued
<1>6. StoresInv'
  BY <1>1, <1>2, <1>3 DEF Inv, StoresInv, AsIssued
<1> QED BY <1>1, <1>4, <1>5, <1>6 DEF Inv, TypeOK

\* Inv is inductive.
LEMMA NextInv == Inv /\ [Next]_vars => Inv'
<1> SUFFICES ASSUME Inv, [Next]_vars PROVE Inv'
  OBVIOUS
<1>1. CASE UNCHANGED vars
  BY <1>1 DEF vars, Inv, TypeOK, RequestsInv, RequestInv, StoresInv, AsIssued
<1>2. ASSUME NEW p \in Procs, Step(p) PROVE Inv'
  BY <1>2, StepLoginLoadRoles, StepLoginStore, StepLoginIndex, StepAuditLogin,
     StepValidateLoad, StepRecoverSelect, StepRecoverRoles, StepRecoverStore,
     StepRecoverIndex, StepValidateCheck, StepRequestDone, StepLogoutDel,
     StepLogoutZRem, StepAuditLogout, StepRevokeList, StepRevokeDeleteAll,
     StepAuditRevoke, StepHookList, StepHookDeleteAll, StepCommitRole DEF Step
<1>3. ASSUME NEW p \in Procs, Start(p) PROVE Inv'
  BY <1>3, StepLoginVerify, StepValidateBegin, StepRevokeBegin, StepRoleChangeBegin
     DEF Start
<1> QED BY <1>1, <1>2, <1>3, StepEnvironment DEF Next

\* Inv holds in every reachable state, for any number of requests, users,
\* tokens and roles, with failures and evictions.
THEOREM InvHolds == Spec => []Inv
BY InitInv, NextInv, PTL DEF Spec

\* Type correctness of the session stores and of every request.
THEOREM TypeCorrect == Spec => []TypeOK
<1>1. Inv => TypeOK
  BY DEF Inv
<1> QED BY <1>1, InvHolds, PTL

\* Nothing that Redis, iam_sessions or a request says about a token differs
\* from what Login issued it with.
THEOREM SessionsMatchIssue == Spec => []SessionMatchesIssue
<1>1. Inv => SessionMatchesIssue
  BY DEF Inv, RequestsInv, RequestInv, StoresInv, SessionMatchesIssue, Holding,
         LoginHolds, ValidateHolds
<1> QED BY <1>1, InvHolds, PTL

\* A bulk revocation only reaches the sessions of its user.
THEOREM BulkRevocationsScoped == Spec => []BulkRevocationScoped
<1>1. Inv => BulkRevocationScoped
  BY DEF Inv, RequestsInv, RequestInv, StoresInv, BulkRevocationScoped
<1> QED BY <1>1, InvHolds, PTL

-----------------------------------------------------------------------------
(* Action properties *)

\* The program counters at which a payload is on its way (see NotInFlight).
Flight == {"store", "recoverRoles", "recoverStore", "recoverIndex", "check"}

\* A step that moves a request to r neither starts a flight of t nor
\* authorizes t.
Harmless(p, r, t) ==
    /\ r.token = t => r.pc \notin Flight
    /\ req[p].token = t => req[p].pc = "authorized" \/ r.pc # "authorized"

\* What RevocationFinal asks of the requests.
Quiet(t) == NotInFlight(t)' /\ \A p \in Procs : ~Authorizes(p, t)

\* A harmless move of one request leaves t out of flight and unauthorized.
LEMMA QuietBecome ==
    ASSUME Inv, NEW t \in Tokens, NotInFlight(t), NEW p \in Procs, NEW r,
           Become(p, r), Harmless(p, r, t)
    PROVE  Quiet(t)
<1>1. req'[p] = r /\ \A q \in Procs : q # p => req'[q] = req[q]
  BY DEF Become, Inv, TypeOK
<1> QED BY <1>1 DEF Quiet, Harmless, NotInFlight, Authorizes, Flight

\* So does a return.
LEMMA QuietReturn ==
    ASSUME Inv, NEW t \in Tokens, NotInFlight(t), NEW p \in Procs, Return(p)
    PROVE  Quiet(t)
<1>1. Harmless(p, Idle, t)
  BY DEF Harmless, Idle, Flight
<1> QED BY <1>1, QuietBecome DEF Return

\* So does a move that enters no flight and authorizes nothing.
LEMMA QuietGoto ==
    ASSUME Inv, NEW t \in Tokens, NotInFlight(t), NEW p \in Procs, NEW c, Goto(p, c),
           c \in Flight \cup {"authorized"} => req[p].pc \in Flight
    PROVE  Quiet(t)
<1>1. PICK r : r = [req[p] EXCEPT !.pc = c]
  OBVIOUS
<1>2. r.pc = c /\ r.token = req[p].token
  BY <1>1 DEF Inv, TypeOK, Request
<1>3. Harmless(p, r, t)
  BY <1>2 DEF Harmless, NotInFlight, Flight
<1> QED BY <1>1, <1>3, QuietBecome DEF Goto

\* A dead token is one that some Login has returned.
LEMMA DeadKnown ==
    ASSUME Inv, NEW t \in Tokens, Dead(t)
    PROVE  /\ t \in known /\ issued[t] # None
           /\ \A p \in Procs : req[p].pc \in LoginHolds => req[p].token # t
BY DEF Inv, Dead, StoresInv, RequestsInv, RequestInv

\* Requests that are starting.
LEMMA DeadStart ==
    ASSUME Inv, NEW t \in Tokens, Dead(t), NEW p \in Procs, Start(p)
    PROVE  Dead(t)' /\ \A q \in Procs : ~Authorizes(q, t)
<1>1. UNCHANGED <<redis, sessions, known>>
  BY DEF Start, LoginVerify, ValidateBegin, RevokeBegin, RoleChangeBegin
<1>2. NotInFlight(t)
  BY DEF Dead
<1>3. ASSUME NEW u \in Users, LoginVerify(p, u) PROVE Quiet(t)
  <2>1. PICK r : r = [Idle EXCEPT !.pc = "loadRoles", !.user = u]
    OBVIOUS
  <2>2. Harmless(p, r, t)
    BY <2>1 DEF Harmless, Idle, Flight
  <2> QED BY <1>2, <1>3, <2>1, <2>2, QuietBecome DEF LoginVerify
<1>4. ASSUME NEW x \in Tokens, ValidateBegin(p, x) PROVE Quiet(t)
  <2>1. PICK r : r = [Idle EXCEPT !.pc = "load", !.token = x]
    OBVIOUS
  <2>2. Harmless(p, r, t)
    BY <2>1 DEF Harmless, Idle, Flight
  <2> QED BY <1>2, <1>4, <2>1, <2>2, QuietBecome DEF ValidateBegin
<1>5. ASSUME NEW u \in Users, RevokeBegin(p, u) PROVE Quiet(t)
  <2>1. PICK r : r = [Idle EXCEPT !.pc = "list", !.user = u]
    OBVIOUS
  <2>2. Harmless(p, r, t)
    BY <2>1 DEF Harmless, Idle, Flight
  <2> QED BY <1>2, <1>5, <2>1, <2>2, QuietBecome DEF RevokeBegin
<1>6. ASSUME NEW u \in Users, NEW o \in Roles, RoleChangeBegin(p, u, o) PROVE Quiet(t)
  <2>1. PICK r : r = [Idle EXCEPT !.pc = "hookList", !.user = u,
                        !.roles = {o}, !.grant = o \notin userRoles[u]]
    OBVIOUS
  <2>2. Harmless(p, r, t)
    BY <2>1 DEF Harmless, Idle, Flight
  <2> QED BY <1>2, <1>6, <2>1, <2>2, QuietBecome DEF RoleChangeBegin
<1> QED BY <1>1, <1>3, <1>4, <1>5, <1>6 DEF Start, Dead, Unrecoverable, Quiet

\* A login generates or stores other tokens: a dead one was issued before.
LEMMA DeadLogin ==
    ASSUME Inv, NEW t \in Tokens, Dead(t), NEW p \in Procs,
           LoginLoadRoles(p) \/ LoginStore(p) \/ LoginIndex(p) \/ AuditLogin(p)
    PROVE  Dead(t)' /\ \A q \in Procs : ~Authorizes(q, t)
<1>0. NotInFlight(t)
  BY DEF Dead
<1>1. CASE LoginLoadRoles(p)
  <2>1. CASE Return(p)
    BY <1>0, <1>1, <2>1, QuietReturn DEF LoginLoadRoles, Dead, Unrecoverable, Quiet
  <2>2. ASSUME NEW x \in Tokens, issued[x] = None,
               Become(p, [req[p] EXCEPT !.pc = "store", !.token = x,
                            !.roles = userRoles[req[p].user],
                            !.exp = now + SessionTTL])
        PROVE  Quiet(t)
    <3>1. PICK r : r = [req[p] EXCEPT !.pc = "store", !.token = x,
                            !.roles = userRoles[req[p].user],
                            !.exp = now + SessionTTL]
      OBVIOUS
    <3>2. r.pc = "store" /\ r.token = x
      BY <3>1 DEF Inv, TypeOK, Request
    <3>3. Harmless(p, r, t)
      BY <2>2, <3>2, DeadKnown DEF Harmless
    <3> QED BY <1>0, <2>2, <3>1, <3>3, QuietBecome
  <2> QED BY <1>1, <2>1, <2>2 DEF LoginLoadRoles, Dead, Unrecoverable, Quiet
<1>2. CASE LoginStore(p)
  <2>1. req[p].token # t
    BY <1>2 DEF LoginStore, Dead, NotInFlight
  <2>2. redis'[t] = redis[t]
    BY <1>2, <2>1 DEF LoginStore, StoreSet, Inv, TypeOK
  <2>3. Quiet(t)
    BY <1>0, <1>2, QuietReturn, QuietGoto DEF LoginStore, Flight
  <2> QED BY <1>2, <2>2, <2>3 DEF LoginStore, Dead, Unrecoverable, Quiet
<1>3. CASE LoginIndex(p)
  BY <1>0, <1>3, QuietGoto DEF LoginIndex, Flight, Dead, Unrecoverable, Quiet
<1>4. CASE AuditLogin(p)
  <2>1. req[p].token # t
    BY <1>4, DeadKnown DEF AuditLogin, LoginHolds
  <2>2. sessions'[t] = sessions[t]
    BY <1>4, <2>1 DEF AuditLogin, Inv, TypeOK
  <2>3. Quiet(t)
    BY <1>0, <1>4, QuietReturn DEF AuditLogin
  <2> QED BY <1>4, <2>2, <2>3 DEF AuditLogin, Dead, Unrecoverable, Quiet
<1> QED BY <1>1, <1>2, <1>3, <1>4

\* Validation of a dead token misses in Redis and finds no live row.
LEMMA DeadValidate ==
    ASSUME Inv, NEW t \in Tokens, Dead(t), NEW p \in Procs,
           \/ ValidateLoad(p) \/ RecoverSelect(p) \/ RecoverRoles(p)
           \/ RecoverStore(p) \/ RecoverIndex(p) \/ ValidateCheck(p)
           \/ RequestDone(p)
    PROVE  Dead(t)' /\ \A q \in Procs : ~Authorizes(q, t)
<1>0. NotInFlight(t)
  BY DEF Dead
<1>1. CASE ValidateLoad(p)
  <2>1. CASE Return(p) \/ Goto(p, "recover")
    BY <1>0, <1>1, <2>1, QuietReturn, QuietGoto DEF ValidateLoad, Dead, Unrecoverable, Quiet, Flight
  <2>2. ASSUME NEW x, x = req[p].token, redis[x] # None,
               Become(p, [req[p] EXCEPT !.pc = "check", !.user = redis[x].user,
                            !.roles = redis[x].roles, !.exp = redis[x].exp])
        PROVE  Quiet(t)
    <3>1. PICK r : r = [req[p] EXCEPT !.pc = "check", !.user = redis[x].user,
                            !.roles = redis[x].roles, !.exp = redis[x].exp]
      OBVIOUS
    <3>2. r.pc = "check" /\ r.token = x
      BY <2>2, <3>1 DEF Inv, TypeOK, Request
    <3>3. Harmless(p, r, t)
      BY <2>2, <3>2 DEF Harmless, Dead
    <3> QED BY <1>0, <2>2, <3>1, <3>3, QuietBecome
  <2> QED BY <1>1, <2>1, <2>2 DEF ValidateLoad, Dead, Unrecoverable, Quiet
<1>2. CASE RecoverSelect(p)
  <2>1. CASE Return(p)
    BY <1>0, <1>2, <2>1, QuietReturn DEF RecoverSelect, Dead, Unrecoverable, Quiet
  <2>2. ASSUME NEW x, x = req[p].token, LiveRow(x),
               Become(p, [req[p] EXCEPT !.pc = "recoverRoles",
                            !.user = sessions[x].user, !.exp = sessions[x].exp])
        PROVE  Quiet(t)
    <3>1. PICK r : r = [req[p] EXCEPT !.pc = "recoverRoles",
                            !.user = sessions[x].user, !.exp = sessions[x].exp]
      OBVIOUS
    <3>2. r.pc = "recoverRoles" /\ r.token = x
      BY <2>2, <3>1 DEF Inv, TypeOK, Request
    <3>3. Harmless(p, r, t)
      BY <2>2, <3>2 DEF Harmless, Dead, Unrecoverable, LiveRow
    <3> QED BY <1>0, <2>2, <3>1, <3>3, QuietBecome
  <2> QED BY <1>2, <2>1, <2>2 DEF RecoverSelect, Dead, Unrecoverable, Quiet
<1>3. CASE RecoverRoles(p)
  <2>1. PICK r, R : Become(p, r) /\ r = [req[p] EXCEPT !.pc = "recoverStore", !.roles = R]
    BY <1>3 DEF RecoverRoles
  <2>2. r.pc = "recoverStore" /\ r.token = req[p].token
    BY <2>1 DEF Inv, TypeOK, Request
  <2>3. Harmless(p, r, t)
    BY <1>0, <1>3, <2>2 DEF Harmless, NotInFlight, RecoverRoles
  <2> QED BY <1>0, <1>3, <2>1, <2>3, QuietBecome DEF RecoverRoles, Dead, Unrecoverable, Quiet
<1>4. CASE RecoverStore(p)
  <2>1. req[p].token # t
    BY <1>4 DEF RecoverStore, Dead, NotInFlight
  <2>2. redis'[t] = redis[t]
    BY <1>4, <2>1 DEF RecoverStore, StoreSet, Inv, TypeOK
  <2>3. Quiet(t)
    BY <1>0, <1>4, QuietGoto DEF RecoverStore, Flight
  <2> QED BY <1>4, <2>2, <2>3 DEF RecoverStore, Dead, Unrecoverable, Quiet
<1>5. CASE RecoverIndex(p)
  BY <1>0, <1>5, QuietGoto DEF RecoverIndex, Flight, Dead, Unrecoverable, Quiet
<1>6. CASE ValidateCheck(p)
  BY <1>0, <1>6, QuietReturn, QuietGoto DEF ValidateCheck, Flight, Dead, Unrecoverable, Quiet
<1>7. CASE RequestDone(p)
  BY <1>0, <1>7, QuietReturn DEF RequestDone, Dead, Unrecoverable, Quiet
<1> QED BY <1>1, <1>2, <1>3, <1>4, <1>5, <1>6, <1>7

\* Revoking rows leaves a revoked row revoked and a missing one missing.
LEMMA RevokedDead ==
    ASSUME Inv, NEW t \in Tokens, Dead(t), NEW toks, sessions' = Revoked(toks)
    PROVE  Unrecoverable(t)'
<1>1. CASE sessions[t] = None
  BY <1>1 DEF Revoked, Unrecoverable
<1>2. CASE sessions[t] # None
  <2>1. sessions[t] \in SessionRow /\ sessions[t].revoked
    BY <1>2 DEF Dead, Unrecoverable, Inv, TypeOK
  <2>2. sessions'[t] \in {sessions[t], [sessions[t] EXCEPT !.revoked = TRUE]}
    BY DEF Revoked
  <2>3. [sessions[t] EXCEPT !.revoked = TRUE].revoked
    BY <2>1 DEF SessionRow
  <2> QED BY <2>1, <2>2, <2>3 DEF Unrecoverable
<1> QED BY <1>1, <1>2

\* Revocations and role changes only remove keys and set revoked_at.
LEMMA DeadRevoke ==
    ASSUME Inv, NEW t \in Tokens, Dead(t), NEW p \in Procs,
           \/ LogoutDel(p) \/ LogoutZRem(p) \/ AuditLogout(p)
           \/ RevokeList(p) \/ RevokeDeleteAll(p) \/ AuditRevoke(p)
           \/ HookList(p) \/ HookDeleteAll(p) \/ CommitRole(p)
    PROVE  Dead(t)' /\ \A q \in Procs : ~Authorizes(q, t)
<1>0. NotInFlight(t) /\ redis[t] = None
  BY DEF Dead
<1>1. redis'[t] = None
  BY <1>0 DEF LogoutDel, LogoutZRem, AuditLogout, RevokeList, RevokeDeleteAll, AuditRevoke,
         HookList, HookDeleteAll, CommitRole, DelSessionsAndIndex, Inv, TypeOK
<1>2. Unrecoverable(t)' /\ known' = known
  <2>1. ASSUME UNCHANGED sessions PROVE Unrecoverable(t)'
    BY <2>1 DEF Dead, Unrecoverable
  <2>2. ASSUME NEW toks, sessions' = Revoked(toks) PROVE Unrecoverable(t)'
    BY <2>2, RevokedDead
  <2> QED BY <2>1, <2>2 DEF LogoutDel, LogoutZRem, AuditLogout, RevokeList,
       RevokeDeleteAll, AuditRevoke, HookList, HookDeleteAll, CommitRole
<1>3. Quiet(t)
  <2>1. CASE Return(p)
    BY <1>0, <2>1, QuietReturn
  <2>2. ASSUME NEW c \in {"logoutZRem", "auditLogout", "auditRevoke", "commitRole"}, Goto(p, c)
        PROVE  Quiet(t)
    BY <1>0, <2>2, QuietGoto DEF Flight
  <2>3. ASSUME NEW c \in {"deleteAll", "hookDeleteAll"}, NEW listed, Listed(p, c, listed)
        PROVE  Quiet(t)
    <3>1. PICK r : r = [req[p] EXCEPT !.pc = c, !.listed = listed]
      OBVIOUS
    <3>2. r.pc = c
      BY <3>1 DEF Inv, TypeOK, Request
    <3>3. Harmless(p, r, t)
      BY <3>2 DEF Harmless, Flight
    <3> QED BY <1>0, <2>3, <3>1, <3>3, QuietBecome DEF Listed
  <2> QED BY <2>1, <2>2, <2>3 DEF LogoutDel, LogoutZRem, AuditLogout, RevokeList,
       RevokeDeleteAll, AuditRevoke, HookList, HookDeleteAll, CommitRole, ToCommit
<1> QED BY <1>1, <1>2, <1>3 DEF Dead, Unrecoverable, Quiet

\* Time, evictions and restarts bring nothing back.
LEMMA DeadEnvironment ==
    ASSUME Inv, NEW t \in Tokens, Dead(t),
           Tick \/ (\E x \in Tokens : RedisEvict(x)) \/ RedisRestart \/ UNCHANGED vars
    PROVE  Dead(t)' /\ \A q \in Procs : ~Authorizes(q, t)
<1>1. UNCHANGED <<req, sessions, known>>
  BY DEF Tick, RedisEvict, RedisRestart, vars
<1>2. redis'[t] = None
  BY DEF Tick, RedisEvict, RedisRestart, vars, Dead, Inv, TypeOK
<1> QED BY <1>1, <1>2 DEF Dead, Unrecoverable, NotInFlight, Authorizes

\* A token that is gone from Redis and revoked in iam_sessions or never written
\* there, with no request still carrying it, stays so and authorizes nothing.
THEOREM RevocationIsFinal == Spec => RevocationFinal
<1>1. ASSUME Inv, [Next]_vars, NEW t \in Tokens, Dead(t)
      PROVE  Dead(t)' /\ \A p \in Procs : ~Authorizes(p, t)
  BY <1>1, DeadStart, DeadLogin, DeadValidate, DeadRevoke, DeadEnvironment DEF Next, Step
<1>2. Inv /\ [Next]_vars =>
        [\A t \in Tokens : Dead(t) => Dead(t)' /\ \A p \in Procs : ~Authorizes(p, t)]_vars
  BY <1>1
<1> QED BY <1>2, InvHolds, PTL DEF Spec, RevocationFinal

\* A request is authorized only by the wall-clock check of ValidateToken.
LEMMA AuthorizedByCheck ==
    ASSUME Inv, [Next]_vars, NEW p \in Procs,
           req[p].pc # "authorized", req'[p].pc = "authorized"
    PROVE  req[p].pc = "check" /\ NotExpired(p)
<1>1. ASSUME NEW q \in Procs, NEW r, Become(q, r), r.pc # "authorized" PROVE FALSE
  BY <1>1 DEF Become, Inv, TypeOK
<1>2. ASSUME NEW q \in Procs, Return(q) PROVE FALSE
  <2>1. Idle.pc # "authorized"
    BY DEF Idle
  <2> QED BY <1>2, <2>1 DEF Return, Become, Inv, TypeOK
<1>3. ASSUME NEW q \in Procs, NEW c, c # "authorized", Goto(q, c) PROVE FALSE
  <2>1. [req[q] EXCEPT !.pc = c].pc = c
    BY DEF Inv, TypeOK, Request
  <2> QED BY <1>3, <2>1 DEF Goto, Become, Inv, TypeOK
<1>4. ASSUME NEW q \in Procs, Start(q) PROVE FALSE
  <2>1. ASSUME NEW u \in Users, LoginVerify(q, u) PROVE FALSE
    <3>1. PICK r : r = [Idle EXCEPT !.pc = "loadRoles", !.user = u]
      OBVIOUS
    <3> QED BY <1>1, <2>1, <3>1 DEF LoginVerify, Idle
  <2>2. ASSUME NEW x \in Tokens, ValidateBegin(q, x) PROVE FALSE
    <3>1. PICK r : r = [Idle EXCEPT !.pc = "load", !.token = x]
      OBVIOUS
    <3> QED BY <1>1, <2>2, <3>1 DEF ValidateBegin, Idle
  <2>3. ASSUME NEW u \in Users, RevokeBegin(q, u) PROVE FALSE
    <3>1. PICK r : r = [Idle EXCEPT !.pc = "list", !.user = u]
      OBVIOUS
    <3> QED BY <1>1, <2>3, <3>1 DEF RevokeBegin, Idle
  <2>4. ASSUME NEW u \in Users, NEW o \in Roles, RoleChangeBegin(q, u, o) PROVE FALSE
    <3>1. PICK r : r = [Idle EXCEPT !.pc = "hookList", !.user = u,
                        !.roles = {o}, !.grant = o \notin userRoles[u]]
      OBVIOUS
    <3> QED BY <1>1, <2>4, <3>1 DEF RoleChangeBegin, Idle
  <2> QED BY <1>4, <2>1, <2>2, <2>3, <2>4 DEF Start
<1>5. ASSUME NEW q \in Procs, LoginLoadRoles(q) \/ ValidateLoad(q) \/ RecoverSelect(q)
               \/ RecoverRoles(q) \/ RevokeList(q) \/ HookList(q)
      PROVE FALSE
  <2>1. req[q] \in Request
    BY DEF Inv, TypeOK
  <2>2. CASE LoginLoadRoles(q)
    <3>1. ASSUME NEW x, Become(q, [req[q] EXCEPT !.pc = "store", !.token = x,
                            !.roles = userRoles[req[q].user], !.exp = now + SessionTTL]) PROVE FALSE
      <4>1. PICK r : r = [req[q] EXCEPT !.pc = "store", !.token = x,
                            !.roles = userRoles[req[q].user], !.exp = now + SessionTTL]
        OBVIOUS
      <4>2. r.pc # "authorized"
        BY <2>1, <4>1 DEF Request
      <4> QED BY <1>1, <3>1, <4>1, <4>2
    <3> QED BY <1>2, <1>3, <2>2, <3>1 DEF LoginLoadRoles
  <2>3. CASE ValidateLoad(q)
    <3>1. ASSUME NEW x, Become(q, [req[q] EXCEPT !.pc = "check", !.user = redis[x].user,
                            !.roles = redis[x].roles, !.exp = redis[x].exp]) PROVE FALSE
      <4>1. PICK r : r = [req[q] EXCEPT !.pc = "check", !.user = redis[x].user,
                            !.roles = redis[x].roles, !.exp = redis[x].exp]
        OBVIOUS
      <4>2. r.pc # "authorized"
        BY <2>1, <4>1 DEF Request
      <4> QED BY <1>1, <3>1, <4>1, <4>2
    <3> QED BY <1>2, <1>3, <2>3, <3>1 DEF ValidateLoad
  <2>4. CASE RecoverSelect(q)
    <3>1. ASSUME NEW x, Become(q, [req[q] EXCEPT !.pc = "recoverRoles",
                            !.user = sessions[x].user, !.exp = sessions[x].exp]) PROVE FALSE
      <4>1. PICK r : r = [req[q] EXCEPT !.pc = "recoverRoles",
                            !.user = sessions[x].user, !.exp = sessions[x].exp]
        OBVIOUS
      <4>2. r.pc # "authorized"
        BY <2>1, <4>1 DEF Request
      <4> QED BY <1>1, <3>1, <4>1, <4>2
    <3> QED BY <1>2, <1>3, <2>4, <3>1 DEF RecoverSelect
  <2>5. CASE RecoverRoles(q)
    <3>1. ASSUME NEW R, Become(q, [req[q] EXCEPT !.pc = "recoverStore", !.roles = R]) PROVE FALSE
      <4>1. PICK r : r = [req[q] EXCEPT !.pc = "recoverStore", !.roles = R]
        OBVIOUS
      <4>2. r.pc # "authorized"
        BY <2>1, <4>1 DEF Request
      <4> QED BY <1>1, <3>1, <4>1, <4>2
    <3> QED BY <1>2, <1>3, <2>5, <3>1 DEF RecoverRoles
  <2>6. CASE RevokeList(q)
    <3>1. ASSUME NEW R, Become(q, [req[q] EXCEPT !.pc = "deleteAll", !.listed = R]) PROVE FALSE
      <4>1. PICK r : r = [req[q] EXCEPT !.pc = "deleteAll", !.listed = R]
        OBVIOUS
      <4>2. r.pc # "authorized"
        BY <2>1, <4>1 DEF Request
      <4> QED BY <1>1, <3>1, <4>1, <4>2
    <3> QED BY <1>2, <1>3, <2>6, <3>1 DEF RevokeList, Listed
  <2>7. CASE HookList(q)
    <3>1. ASSUME NEW R, Become(q, [req[q] EXCEPT !.pc = "hookDeleteAll", !.listed = R]) PROVE FALSE
      <4>1. PICK r : r = [req[q] EXCEPT !.pc = "hookDeleteAll", !.listed = R]
        OBVIOUS
      <4>2. r.pc # "authorized"
        BY <2>1, <4>1 DEF Request
      <4> QED BY <1>1, <3>1, <4>1, <4>2
    <3> QED BY <1>2, <1>3, <2>7, <3>1 DEF HookList, Listed, ToCommit
  <2> QED BY <1>5, <2>2, <2>3, <2>4, <2>5, <2>6, <2>7
<1>6. ASSUME NEW q \in Procs,
             \/ LoginStore(q) \/ LoginIndex(q) \/ AuditLogin(q) \/ RecoverStore(q)
             \/ RecoverIndex(q) \/ RequestDone(q) \/ LogoutDel(q) \/ LogoutZRem(q)
             \/ AuditLogout(q) \/ RevokeDeleteAll(q) \/ AuditRevoke(q)
             \/ HookDeleteAll(q) \/ CommitRole(q)
      PROVE FALSE
  <2>1. Return(q) \/ \E c : c # "authorized" /\ Goto(q, c)
    BY <1>6 DEF LoginStore, LoginIndex, AuditLogin, RecoverStore, RecoverIndex, RequestDone,
         LogoutDel, LogoutZRem, AuditLogout, RevokeDeleteAll, AuditRevoke, HookDeleteAll,
         CommitRole, ToCommit
  <2> QED BY <1>2, <1>3, <2>1
<1>7. ~(Tick \/ (\E t \in Tokens : RedisEvict(t)) \/ RedisRestart \/ UNCHANGED vars)
  BY DEF Tick, RedisEvict, RedisRestart, vars
<1>8. ASSUME NEW q \in Procs, ValidateCheck(q)
      PROVE  req[p].pc = "check" /\ NotExpired(p)
  <2>1. Goto(q, "authorized") /\ NotExpired(q) /\ req[q].pc = "check"
    BY <1>2, <1>8 DEF ValidateCheck
  <2>2. p = q
    BY <2>1 DEF Goto, Become, Inv, TypeOK
  <2> QED BY <2>1, <2>2
<1> QED BY <1>4, <1>5, <1>6, <1>7, <1>8 DEF Next, Step

\* ValidateToken authorizes no request after the ExpiresAt of the login that
\* issued its token, whatever happens between reading the session and using it.
THEOREM NeverAuthorizedAfterExpiry == Spec => NoAuthorizationAfterExpiry
<1>1. ASSUME Inv, [Next]_vars, NEW p \in Procs, NEW t \in Tokens, Authorizes(p, t)
      PROVE  now <= issued[t].exp
  <2>1. req[p].pc = "check" /\ NotExpired(p) /\ req[p].token = t
    BY <1>1, AuthorizedByCheck DEF Authorizes
  <2>2. req[p].exp = issued[t].exp
    BY <1>1, <2>1 DEF Inv, RequestsInv, RequestInv, ValidateHolds, AsIssued
  <2> QED BY <2>1, <2>2 DEF NotExpired
<1>2. Inv /\ [Next]_vars =>
        [\A p \in Procs, t \in Tokens : Authorizes(p, t) => now <= issued[t].exp]_vars
  BY <1>1
<1> QED BY <1>2, InvHolds, PTL DEF Spec, NoAuthorizationAfterExpiry
=============================================================================
