--------------------------- MODULE EntityService ----------------------------
(***************************************************************************)
(* The record life cycle of one entity type (awo/api/service/entity.go):   *)
(* the hook pipeline, the audit record and the repository in one           *)
(* PostgreSQL transaction, and the workflow start after it.                *)
(*                                                                         *)
(* Update and Delete read the row before their transaction begins; the     *)
(* transaction runs at READ COMMITTED and holds the lock of the row it has *)
(* written until it ends.                                                  *)
(***************************************************************************)
EXTENDS Naturals, FiniteSets

CONSTANTS
    Requests,   \* concurrent HTTP requests
    Ids,        \* primary keys uuid.New can return; each is returned once
    Fields,     \* fields of the entity
    Values,     \* values of a field
    Immutable,  \* the fields of es.ImmutableFields
    Accepted,   \* the records that validateFields accepts
    Hooks,      \* Hooks[<<data, prev>>]: what the before hooks may make of a validated
                \* record; prev is the row read, None on create; {} is a refusal
    Policies,   \* what the entity's audit settings may be
    PoolReads,  \* whether the role of the pool sees rows outside a transaction
    None

ASSUME EntityAssumption ==
    /\ Immutable \subseteq Fields
    /\ Accepted \subseteq [Fields -> Values]
    /\ Policies \subseteq {"propagate", "suppress", "off"}
    /\ PoolReads \in BOOLEAN
    /\ None \notin Requests \cup Ids \cup [Fields -> Values]

\* No before-update hook of the repository writes an immutable field; a
\* before-create hook may.
ASSUME HooksAssumption ==
    /\ Hooks \in [[Fields -> Values] \X ([Fields -> Values] \cup {None})
                    -> SUBSET [Fields -> Values]]
    /\ \A data, prev \in [Fields -> Values] : \A record \in Hooks[<<data, prev>>] :
        \A f \in Immutable : record[f] = data[f]

VARIABLES
    rows,       \* rows[id]: the committed row, or None
    lock,       \* lock[id]: the request whose transaction has written the row
    used,       \* ids returned by uuid.New
    req,        \* req[r]: program counter and locals of request r
    policy,     \* PolicyFor(category) of the entity, or "off": no audit record
    created,    \* history: ids whose creation has committed
    started     \* ids that Temporal has a workflow for

entityVars == <<rows, lock, used, req, policy, created, started>>

-----------------------------------------------------------------------------
(* Types *)

Record == [Fields -> Values]

\* The JSON body of a PATCH: some of the fields.
Patches == UNION {[S -> Values] : S \in SUBSET Fields}

mergeMaps(current, patch) ==
    [f \in Fields |-> IF f \in DOMAIN patch THEN patch[f] ELSE current[f]]

Operations == {"create", "update", "delete"}

Request == [pc: {"idle", "write", "audit", "after", "commit", "workflow"},
            op: Operations \cup {None},
            id: Ids \cup {None},
            patch: Patches,           \* the body of an update
            new: Record \cup {None},  \* the row to write; None deletes it
            actor: BOOLEAN]           \* Meta.Actor of the record read back

NoPatch == [f \in {} |-> None]

Idle == [pc |-> "idle", op |-> None, id |-> None, patch |-> NoPatch, new |-> None,
         actor |-> FALSE]

EntityInit ==
    /\ rows = [id \in Ids |-> None]
    /\ lock = [id \in Ids |-> None]
    /\ used = {}
    /\ req = [r \in Requests |-> Idle]
    /\ policy \in Policies
    /\ created = {} /\ started = {}

-----------------------------------------------------------------------------
(* Before the transaction *)

\* Bound: every create that has begun finds a fresh id.
IdAvailable ==
    Cardinality({r \in Requests : req[r].pc = "write" /\ req[r].op = "create"})
        < Cardinality(Ids \ used)

Goto(r, pc) == req' = [req EXCEPT ![r].pc = pc]

\* repo.Get on a connection of the pool.
Get(id) == IF PoolReads THEN rows[id] ELSE None

\* Create: RunBeforeCreate returns what the hooks make of a record that has
\* passed validation.
CreateBegin(r) ==
    /\ req[r].pc = "idle" /\ IdAvailable
    /\ \E data \in Accepted : \E record \in Hooks[<<data, None>>] :
        req' = [req EXCEPT ![r] = [Idle EXCEPT !.pc = "write", !.op = "create", !.new = record]]
    /\ UNCHANGED <<rows, lock, used, policy, created, started>>

Patchable_Always(patch) == TRUE

\* RunBeforeUpdate rejects a patch that names an immutable field.
Patchable(patch) == DOMAIN patch \cap Immutable = {}

\* RunBeforeUpdate: the records it may return for a patch of the row read. An
\* immutable field, an invalid merge and a refusing hook return none; the hooks
\* run last and their result is not validated again.
RunBeforeUpdate(current, patch) ==
    IF Patchable(patch) /\ mergeMaps(current, patch) \in Accepted
    THEN Hooks[<<mergeMaps(current, patch), current>>]
    ELSE {}

\* Update: an unknown id, and an error of RunBeforeUpdate, end the request.
UpdateBegin(r) ==
    /\ req[r].pc = "idle"
    /\ \E id \in used, patch \in Patches :
        \/ /\ Get(id) # None
           /\ \E record \in RunBeforeUpdate(Get(id), patch) :
                req' = [req EXCEPT ![r] = [Idle EXCEPT !.pc = "write", !.op = "update",
                            !.id = id, !.patch = patch, !.new = record]]
        \/ /\ Get(id) # None => RunBeforeUpdate(Get(id), patch) = {}
           /\ UNCHANGED req
    /\ UNCHANGED <<rows, lock, used, policy, created, started>>

\* Delete: the current row is read for the hooks.
DeleteBegin(r) ==
    /\ req[r].pc = "idle"
    /\ \E id \in used :
        IF Get(id) # None
        THEN req' = [req EXCEPT ![r] = [Idle EXCEPT !.pc = "write", !.op = "delete", !.id = id]]
        ELSE UNCHANGED req
    /\ UNCHANGED <<rows, lock, used, policy, created, started>>

-----------------------------------------------------------------------------
(* Inside the transaction *)

Rollback_KeepsLock(r) == req' = [req EXCEPT ![r] = Idle] /\ UNCHANGED lock

\* WithTx: an error of fn, or of COMMIT, rolls back and releases the row lock.
Rollback(r) ==
    /\ lock' = [id \in Ids |-> IF lock[id] = r THEN None ELSE lock[id]]
    /\ req' = [req EXCEPT ![r] = Idle]

\* repo.Create: INSERT under a new id. The record read back has no actor.
Insert(r) ==
    /\ req[r].pc = "write" /\ req[r].op = "create"
    /\ \E id \in Ids \ used :
        /\ used' = used \cup {id}
        /\ lock' = [lock EXCEPT ![id] = r]
        /\ req' = [req EXCEPT ![r].pc = "audit", ![r].id = id, ![r].actor = FALSE]
    /\ UNCHANGED <<rows, policy, created, started>>

WriteRow_Upsert(r) ==
    /\ req[r].pc = "write" /\ req[r].op \in {"update", "delete"}
    /\ lock[req[r].id] = None
    /\ lock' = [lock EXCEPT ![req[r].id] = r]
    /\ req' = [req EXCEPT ![r].pc = "audit", ![r].actor = FALSE]
    /\ UNCHANGED <<rows, used, policy, created, started>>

\* repo.Update and repo.Delete wait for the lock of the row. The row they then
\* find may be gone: no row is affected and NotFoundError rolls back.
WriteRow(r) ==
    LET id == req[r].id IN
    /\ req[r].pc = "write" /\ req[r].op \in {"update", "delete"}
    /\ lock[id] = None
    /\ IF rows[id] = None
       THEN Rollback(r)
       ELSE /\ lock' = [lock EXCEPT ![id] = r]
            /\ req' = [req EXCEPT ![r].pc = "audit", ![r].actor = FALSE]
    /\ UNCHANGED <<rows, used, policy, created, started>>

\* AuditRecord.Validate: exactly one of Actor and SystemActor; the pipeline
\* takes Actor from the record and sets no SystemActor.
AuditValid(r) == req[r].actor

\* RunAuditRecord and audit.Apply. AllowAudit, Enabled and the feature flag of
\* the writer each turn the audit off. Otherwise the error of Validate is
\* propagated or suppressed; platform_audit_log gets a row in no case.
Audit(r) ==
    /\ req[r].pc = "audit"
    /\ IF ~AuditValid(r) /\ policy = "propagate"
       THEN Rollback(r)
       ELSE Goto(r, "after") /\ UNCHANGED lock
    /\ UNCHANGED <<rows, used, policy, created, started>>

RunAfter_StartsWorkflow(r) ==
    /\ req[r].pc = "after"
    /\ Goto(r, "commit")
    /\ started' = IF req[r].op = "create" THEN started \cup {req[r].id} ELSE started
    /\ UNCHANGED <<rows, lock, used, policy, created>>

\* RunAfterCreate, RunAfterUpdate, RunAfterDelete: the after hooks succeed.
RunAfter(r) ==
    /\ req[r].pc = "after"
    /\ Goto(r, "commit")
    /\ UNCHANGED <<rows, lock, used, policy, created, started>>

Written_PatchOnly(r) ==
    IF req[r].op = "update" THEN mergeMaps(rows[req[r].id], req[r].patch) ELSE req[r].new

Written_Body(r) == IF req[r].op = "update" THEN req[r].patch ELSE req[r].new

\* updateSystem sets every field of the merged record, not only the patched ones.
Written(r) == req[r].new

\* COMMIT makes the row and the end of the lock visible. When
\* its reply is lost Commit returns an error although all this has happened.
Commit(r) ==
    LET q == req[r] IN
    /\ q.pc = "commit"
    /\ rows' = [rows EXCEPT ![q.id] = Written(r)]
    /\ lock' = [lock EXCEPT ![q.id] = None]
    /\ created' = IF q.op = "create" THEN created \cup {q.id} ELSE created
    /\ \/ q.op = "create" /\ Goto(r, "workflow")
       \/ q.op # "create" /\ req' = [req EXCEPT ![r] = Idle]
       \/ q.op = "create" /\ req' = [req EXCEPT ![r] = Idle]  \* reply lost
    /\ UNCHANGED <<used, policy, started>>

\* A statement, a hook or COMMIT fails, or the process dies.
Fail(r) ==
    /\ req[r].pc \in {"write", "audit", "after", "commit"}
    /\ Rollback(r)
    /\ UNCHANGED <<rows, used, policy, created, started>>

-----------------------------------------------------------------------------
(* After the transaction *)

\* startWorkflows: ExecuteWorkflow succeeds.
StartWorkflow(r) ==
    /\ req[r].pc = "workflow"
    /\ started' = started \cup {req[r].id}
    /\ req' = [req EXCEPT ![r] = Idle]
    /\ UNCHANGED <<rows, lock, used, policy, created>>

\* startWorkflows: no client, an input that cannot be built, a Temporal error;
\* it is logged and the request is answered as a success.
WorkflowFails(r) ==
    /\ req[r].pc = "workflow"
    /\ req' = [req EXCEPT ![r] = Idle]
    /\ UNCHANGED <<rows, lock, used, policy, created, started>>

-----------------------------------------------------------------------------

Begin(r) == CreateBegin(r) \/ UpdateBegin(r) \/ DeleteBegin(r)

Step(r) == \/ Insert(r) \/ Audit(r) \/ RunAfter(r) \/ Commit(r)
           \/ StartWorkflow(r) \/ WorkflowFails(r)

EntityNext == \E r \in Requests : Begin(r) \/ Step(r) \/ WriteRow(r) \/ Fail(r)

EntitySpec == EntityInit /\ [][EntityNext]_entityVars

\* A request is a goroutine that goes on until it answers; PostgreSQL hands a
\* row lock to its waiters in their order of arrival.
EntityFairSpec ==
    EntitySpec /\ \A r \in Requests : WF_entityVars(Step(r)) /\ SF_entityVars(WriteRow(r))

-----------------------------------------------------------------------------
(* Properties *)

\* Types of the variables.
EntityTypeOK ==
    /\ rows \in [Ids -> Record \cup {None}]
    /\ lock \in [Ids -> Requests \cup {None}]
    /\ used \subseteq Ids /\ created \subseteq used /\ started \subseteq used
    /\ req \in [Requests -> Request]
    /\ policy \in Policies

\* What the hooks make of records that validation has accepted.
Passed == {record \in Record : \E data \in Accepted, prev \in Record \cup {None} :
                                    record \in Hooks[<<data, prev>>]}

\* Every stored record is one that validation has accepted as a whole and the
\* hooks have completed: concurrent patches that are each valid on what they
\* read never combine into a row that no request has prepared.
StoredRecordsValid == \A id \in Ids : rows[id] \in Passed \cup {None}

\* An immutable field keeps the value of its creation as long as the record
\* exists, although updates write back every field.
ImmutableFieldsKept ==
    [][\A id \in Ids, f \in Immutable :
        rows[id] # None /\ rows'[id] # None => rows'[id][f] = rows[id][f]]_entityVars

\* A deleted record does not come back: an update that has read it before the
\* deletion affects no row.
NoResurrection ==
    [][\A id \in created : rows[id] = None => rows'[id] = None]_entityVars

\* No workflow runs for a record whose creation is rolled back.
WorkflowsOnlyForCommitted == started \subseteq created

\* Every request is answered: no failed transaction leaves a row lock behind
\* that others wait for.
EveryRequestEnds == \A r \in Requests : req[r].pc # "idle" ~> req[r].pc = "idle"

\* repo.go: Update applies a partial patch, so committing it leaves the fields
\* it does not name as they are.
UpdatePatchesOnly ==
    [][\A r \in Requests : LET q == req[r] IN
        q.op = "update" /\ q.pc = "commit" /\ rows'[q.id] # rows[q.id] =>
            \A f \in Fields \ DOMAIN q.patch : rows'[q.id][f] = rows[q.id][f]]_entityVars
=============================================================================
