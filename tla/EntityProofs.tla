---------------------------- MODULE EntityProofs ----------------------------
(***************************************************************************)
(* Proofs about EntityService for any requests, ids, fields, validation    *)
(* rule, before hooks and audit policy.                                    *)
(*                                                                         *)
(* What is read before the transaction is stale when it is written. That   *)
(* the properties hold all the same rests on two facts of the invariant:   *)
(* a transaction past its write owns the row, which therefore still        *)
(* exists, and a stale record agrees with the row on immutable fields.     *)
(***************************************************************************)
EXTENDS EntityService, TLAPS

\* Requests between the start of their transaction and its end.
InTx == {r \in Requests : req[r].pc \in {"write", "audit", "after", "commit"}}

\* Requests whose transaction has written its row.
Owners == {r \in Requests : req[r].pc \in {"audit", "after", "commit"}}

\* What a request is about to write has passed validation and the hooks; a deletion writes None.
ValidatedWrites ==
    \A r \in InTx :
        /\ req[r].op \in Operations
        /\ req[r].op \in {"create", "update"} => req[r].new \in Passed
        /\ req[r].op = "delete" => req[r].new = None

\* Updates and deletions name a record that has been created; a creation in
\* flight owns an id that has not.
IdsKnown ==
    \A r \in InTx :
        /\ req[r].op \in {"update", "delete"} => req[r].id \in created
        /\ req[r].op = "create" /\ r \in Owners =>
            req[r].id \in used /\ req[r].id \notin created

\* Past its write a transaction holds the row lock, and the row it updates or
\* deletes exists.
RowsOwned ==
    \A r \in Owners :
        /\ lock[req[r].id] = r
        /\ req[r].op \in {"update", "delete"} => rows[req[r].id] # None

\* Rows are those of created records, validated and completed by the hooks.
RowsCreated == \A id \in Ids : rows[id] # None => id \in created /\ rows[id] \in Passed

\* A record to write back agrees with the row on immutable fields.
ImmutableAgree ==
    \A r \in InTx : req[r].op = "update" /\ rows[req[r].id] # None =>
        \A f \in Immutable : req[r].new[f] = rows[req[r].id][f]

\* Workflows are started for committed creations.
WorkflowsCommitted ==
    /\ started \subseteq created
    /\ \A r \in Requests : req[r].pc = "workflow" => req[r].id \in created

\* The inductive invariant.
EntityInv ==
    /\ EntityTypeOK /\ ValidatedWrites /\ IdsKnown /\ RowsOwned /\ RowsCreated
    /\ ImmutableAgree /\ WorkflowsCommitted

USE DEF EntityInv, EntityTypeOK, Request, Record, Operations, InTx, Owners

-----------------------------------------------------------------------------
(* Lemmas about the operators *)

\* The idle request is well-typed.
LEMMA IdleType == Idle \in Request
BY DEF Idle, NoPatch, Patches

\* Merging a patch yields a record.
LEMMA MergeType ==
    ASSUME NEW current \in Record, NEW patch \in Patches
    PROVE  mergeMaps(current, patch) \in Record
BY DEF mergeMaps, Patches

\* A patch that RunBeforeUpdate lets through leaves immutable fields alone.
LEMMA MergeImmutable ==
    ASSUME NEW current \in Record, NEW patch \in Patches, Patchable(patch),
           NEW f \in Immutable
    PROVE  mergeMaps(current, patch)[f] = current[f]
BY EntityAssumption DEF mergeMaps, Patchable

\* The hooks turn a validated record into one that has passed.
LEMMA HooksPass ==
    ASSUME NEW data \in Accepted, NEW prev \in Record \cup {None},
           NEW record \in Hooks[<<data, prev>>]
    PROVE  record \in Passed /\ record \in Record
<1>1. data \in Record
  BY EntityAssumption
<1>2. <<data, prev>> \in Record \X (Record \cup {None})
  BY <1>1
<1>3. Hooks[<<data, prev>>] \subseteq Record
  BY <1>2, HooksAssumption
<1>4. QED
  BY <1>3 DEF Passed

\* What RunBeforeUpdate returns has passed and agrees with the row on
\* immutable fields.
LEMMA UpdatePasses ==
    ASSUME NEW current \in Record, NEW patch \in Patches,
           NEW record \in RunBeforeUpdate(current, patch)
    PROVE  /\ record \in Passed /\ record \in Record
           /\ \A f \in Immutable : record[f] = current[f]
<1>1. Patchable(patch) /\ mergeMaps(current, patch) \in Accepted
  BY DEF RunBeforeUpdate
<1>2. record \in Hooks[<<mergeMaps(current, patch), current>>]
  BY <1>1 DEF RunBeforeUpdate
<1>3. record \in Passed /\ record \in Record
  BY <1>1, <1>2, HooksPass
<1>4. mergeMaps(current, patch) \in Record
  BY MergeType
<1>5. \A f \in Immutable : record[f] = mergeMaps(current, patch)[f]
  BY <1>2, <1>4, HooksAssumption
<1>6. QED
  BY <1>1, <1>3, <1>5, MergeImmutable

\* Initially there is nothing.
LEMMA InitEntity == EntityInit => EntityInv
<1>1. SUFFICES ASSUME EntityInit PROVE EntityInv
  OBVIOUS
<1>2. EntityTypeOK
  BY <1>1, IdleType, EntityAssumption DEF EntityInit
<1>3. QED
  BY <1>1, <1>2 DEF EntityInit, Idle, ValidatedWrites, IdsKnown, RowsOwned, RowsCreated,
    ImmutableAgree, WorkflowsCommitted

-----------------------------------------------------------------------------
(* Steps *)

\* A request that goes back to idle, with its locks, disturbs nobody.
LEMMA IdleKeeps ==
    ASSUME EntityInv, NEW r \in Requests, req' = [req EXCEPT ![r] = Idle],
           lock' \in [Ids -> Requests \cup {None}],
           \A id \in Ids : lock[id] \in Requests \ {r} => lock'[id] = lock[id],
           UNCHANGED <<rows, used, policy, created>>,
           started' \subseteq created
    PROVE  EntityInv'
<1>1. EntityTypeOK'
  BY IdleType
<1>2. ValidatedWrites' /\ IdsKnown' /\ ImmutableAgree'
  BY DEF ValidatedWrites, IdsKnown, ImmutableAgree, Idle
<1>3. RowsOwned'
  BY DEF RowsOwned, IdsKnown, ValidatedWrites, Idle
<1>4. RowsCreated' /\ WorkflowsCommitted'
  BY DEF RowsCreated, WorkflowsCommitted, Idle
<1>5. QED
  BY <1>1, <1>2, <1>3, <1>4

\* ROLLBACK releases only the locks of the request.
LEMMA RollbackKeeps ==
    ASSUME EntityInv, NEW r \in Requests, Rollback(r),
           UNCHANGED <<rows, used, policy, created, started>>
    PROVE  EntityInv'
<1>1. lock' \in [Ids -> Requests \cup {None}]
  BY DEF Rollback
<1>2. \A id \in Ids : lock[id] \in Requests \ {r} => lock'[id] = lock[id]
  BY DEF Rollback
<1>3. QED
  BY <1>1, <1>2, IdleKeeps DEF Rollback, WorkflowsCommitted

\* Create starts with a validated record.
LEMMA StepCreateBegin ==
    ASSUME EntityInv, NEW r \in Requests, CreateBegin(r)
    PROVE  EntityInv'
<1>1. PICK data \in Accepted : \E record \in Hooks[<<data, None>>] :
        req' = [req EXCEPT ![r] = [Idle EXCEPT !.pc = "write", !.op = "create", !.new = record]]
  BY DEF CreateBegin
<1>2. PICK record \in Hooks[<<data, None>>] :
        req' = [req EXCEPT ![r] = [Idle EXCEPT !.pc = "write", !.op = "create", !.new = record]]
  BY <1>1
<1>3. UNCHANGED <<rows, lock, used, policy, created, started>>
  BY DEF CreateBegin
<1>4. record \in Passed /\ record \in Record
  BY HooksPass
<1> DEFINE q == [Idle EXCEPT !.pc = "write", !.op = "create", !.new = record]
<1>5. q.pc = "write" /\ q.op = "create" /\ q.new = record
  BY DEF Idle
<1>6. q \in Request
  BY <1>4, IdleType DEF Idle
<1>7. req' = [req EXCEPT ![r] = q]
  BY <1>2
<1> HIDE DEF q
<1>8. EntityTypeOK'
  BY <1>3, <1>6, <1>7
<1>9. ValidatedWrites' /\ IdsKnown' /\ ImmutableAgree'
  BY <1>3, <1>4, <1>5, <1>7 DEF ValidatedWrites, IdsKnown, ImmutableAgree
<1>10. RowsOwned' /\ RowsCreated' /\ WorkflowsCommitted'
  BY <1>3, <1>5, <1>7 DEF RowsOwned, RowsCreated, WorkflowsCommitted
<1>11. QED
  BY <1>8, <1>9, <1>10

\* Update starts with a validated record that agrees with the row it has read.
LEMMA StepUpdateBegin ==
    ASSUME EntityInv, NEW r \in Requests, UpdateBegin(r)
    PROVE  EntityInv'
<1>1. CASE UNCHANGED req
  <2>1. UNCHANGED <<rows, lock, used, policy, created, started>>
    BY DEF UpdateBegin
  <2>2. QED
    BY <1>1, <2>1 DEF ValidatedWrites, IdsKnown, RowsOwned, RowsCreated, ImmutableAgree,
      WorkflowsCommitted
<1>2. CASE ~UNCHANGED req
  <2>1. PICK id \in used, patch \in Patches :
          /\ Get(id) # None
          /\ \E record \in RunBeforeUpdate(Get(id), patch) :
               req' = [req EXCEPT ![r] = [Idle EXCEPT !.pc = "write", !.op = "update",
                           !.id = id, !.patch = patch, !.new = record]]
    BY <1>2 DEF UpdateBegin
  <2>2. PICK record \in RunBeforeUpdate(Get(id), patch) :
          req' = [req EXCEPT ![r] = [Idle EXCEPT !.pc = "write", !.op = "update",
                      !.id = id, !.patch = patch, !.new = record]]
    BY <2>1
  <2>3. UNCHANGED <<rows, lock, used, policy, created, started>>
    BY DEF UpdateBegin
  <2>4. Get(id) = rows[id] /\ id \in Ids /\ id \in created /\ rows[id] \in Record
    BY <2>1, EntityAssumption DEF Get, RowsCreated
  <2> DEFINE q == [Idle EXCEPT !.pc = "write", !.op = "update",
                         !.id = id, !.patch = patch, !.new = record]
  <2>5. record \in RunBeforeUpdate(rows[id], patch)
    BY <2>4
  <2>6. /\ record \in Passed /\ record \in Record
        /\ \A f \in Immutable : record[f] = rows[id][f]
    BY <2>4, <2>5, UpdatePasses
  <2>7. q.pc = "write" /\ q.op = "update" /\ q.id = id /\ q.new = record
    BY DEF Idle, q
  <2>8. q \in Request
    BY <2>6, <2>4, IdleType DEF Idle, q
  <2>9. req' = [req EXCEPT ![r] = q]
    BY <2>2 DEF q
  <2> HIDE DEF q
  <2>10. EntityTypeOK'
    BY <2>3, <2>8, <2>9
  <2>11. ValidatedWrites' /\ IdsKnown'
    BY <2>3, <2>4, <2>6, <2>7, <2>9 DEF ValidatedWrites, IdsKnown
  <2>12. ImmutableAgree'
    BY <2>3, <2>4, <2>6, <2>7, <2>9 DEF ImmutableAgree
  <2>13. RowsOwned' /\ RowsCreated' /\ WorkflowsCommitted'
    BY <2>3, <2>7, <2>9 DEF RowsOwned, RowsCreated, WorkflowsCommitted
  <2>14. QED
    BY <2>10, <2>11, <2>12, <2>13
<1>3. QED
  BY <1>1, <1>2

\* Delete starts with a row it has read.
LEMMA StepDeleteBegin ==
    ASSUME EntityInv, NEW r \in Requests, DeleteBegin(r)
    PROVE  EntityInv'
<1>1. CASE UNCHANGED req
  BY <1>1 DEF DeleteBegin, ValidatedWrites, IdsKnown, RowsOwned, RowsCreated, ImmutableAgree,
    WorkflowsCommitted
<1>2. CASE ~UNCHANGED req
  <2>1. PICK id \in used :
          /\ Get(id) # None
          /\ req' = [req EXCEPT ![r] = [Idle EXCEPT !.pc = "write", !.op = "delete", !.id = id]]
    BY <1>2 DEF DeleteBegin
  <2>2. UNCHANGED <<rows, lock, used, policy, created, started>>
    BY DEF DeleteBegin
  <2>3. id \in Ids /\ id \in created
    BY <2>1, EntityAssumption DEF Get, RowsCreated
  <2> DEFINE q == [Idle EXCEPT !.pc = "write", !.op = "delete", !.id = id]
  <2>4. q.pc = "write" /\ q.op = "delete" /\ q.id = id /\ q.new = None
    BY DEF Idle, q
  <2>5. q \in Request
    BY <2>3, IdleType DEF Idle, q
  <2>6. req' = [req EXCEPT ![r] = q]
    BY <2>1 DEF q
  <2> HIDE DEF q
  <2>7. EntityTypeOK'
    BY <2>2, <2>5, <2>6
  <2>8. ValidatedWrites' /\ IdsKnown' /\ ImmutableAgree'
    BY <2>2, <2>3, <2>4, <2>6 DEF ValidatedWrites, IdsKnown, ImmutableAgree
  <2>9. RowsOwned' /\ RowsCreated' /\ WorkflowsCommitted'
    BY <2>2, <2>4, <2>6 DEF RowsOwned, RowsCreated, WorkflowsCommitted
  <2>10. QED
    BY <2>7, <2>8, <2>9
<1>3. QED
  BY <1>1, <1>2

\* INSERT takes an id that was never used, so nobody owns or names it.
LEMMA StepInsert ==
    ASSUME EntityInv, NEW r \in Requests, Insert(r)
    PROVE  EntityInv'
<1>1. PICK id \in Ids \ used :
        /\ used' = used \cup {id}
        /\ lock' = [lock EXCEPT ![id] = r]
        /\ req' = [req EXCEPT ![r].pc = "audit", ![r].id = id, ![r].actor = FALSE]
  BY DEF Insert
<1>2. UNCHANGED <<rows, policy, created, started>> /\ req[r].pc = "write" /\ req[r].op = "create"
  BY DEF Insert
<1>3. /\ req'[r].pc = "audit" /\ req'[r].id = id /\ req'[r].op = "create"
      /\ req'[r].new = req[r].new /\ req'[r] \in Request
      /\ \A s \in Requests : s # r => req'[s] = req[s]
  BY <1>1, <1>2
<1>4. id \notin created /\ rows[id] = None
  BY <1>1, EntityAssumption DEF RowsCreated
<1>5. EntityTypeOK'
  <2>1. req' \in [Requests -> Request]
    BY <1>1, <1>3
  <2>2. lock' \in [Ids -> Requests \cup {None}]
    BY <1>1
  <2>3. QED
    BY <1>1, <1>2, <2>1, <2>2
<1>6. ValidatedWrites' /\ IdsKnown' /\ ImmutableAgree'
  BY <1>1, <1>2, <1>3, <1>4 DEF ValidatedWrites, IdsKnown, ImmutableAgree
<1>7. RowsOwned'
  <2>1. \A s \in Owners : s # r => req[s].id \in used
    BY DEF IdsKnown, ValidatedWrites
  <2>2. QED
    BY <1>1, <1>2, <1>3, <2>1 DEF RowsOwned
<1>8. RowsCreated' /\ WorkflowsCommitted'
  BY <1>1, <1>2, <1>3 DEF RowsCreated, WorkflowsCommitted
<1>9. QED
  BY <1>5, <1>6, <1>7, <1>8

\* UPDATE and DELETE own the row from now on, which exists.
LEMMA StepWriteRow ==
    ASSUME EntityInv, NEW r \in Requests, WriteRow(r)
    PROVE  EntityInv'
<1>1. CASE rows[req[r].id] = None
  BY <1>1, RollbackKeeps DEF WriteRow
<1>2. CASE rows[req[r].id] # None
  <2>1. /\ req[r].pc = "write" /\ req[r].op \in {"update", "delete"}
        /\ lock[req[r].id] = None
        /\ lock' = [lock EXCEPT ![req[r].id] = r]
        /\ req' = [req EXCEPT ![r].pc = "audit", ![r].actor = FALSE]
        /\ UNCHANGED <<rows, used, policy, created, started>>
    BY <1>2 DEF WriteRow
  <2>2. req[r].id \in created /\ req[r].id \in Ids
    BY <2>1 DEF IdsKnown
  <2>3. /\ req'[r] = [req[r] EXCEPT !.pc = "audit", !.actor = FALSE]
        /\ \A s \in Requests : s # r => req'[s] = req[s]
    BY <2>1
  <2>4. /\ req'[r].pc = "audit" /\ req'[r].id = req[r].id /\ req'[r].op = req[r].op
        /\ req'[r].new = req[r].new /\ req'[r] \in Request
    BY <2>3
  <2>5. EntityTypeOK'
    <3>1. req' \in [Requests -> Request]
      BY <2>1, <2>4
    <3>2. lock' \in [Ids -> Requests \cup {None}]
      BY <2>1
    <3>3. QED
      BY <2>1, <3>1, <3>2
  <2>6. ValidatedWrites'
    BY <2>1, <2>3, <2>4 DEF ValidatedWrites
  <2>7. IdsKnown'
    BY <2>1, <2>2, <2>3, <2>4 DEF IdsKnown
  <2>8. ImmutableAgree'
    BY <2>1, <2>3, <2>4 DEF ImmutableAgree
  <2>9. RowsOwned'
    <3>1. \A s \in Owners : s # r => lock[req[s].id] = s /\ s # None
      BY EntityAssumption DEF RowsOwned
    <3>2. QED
      BY <1>2, <2>1, <2>2, <2>3, <2>4, <3>1 DEF RowsOwned
  <2>10. RowsCreated' /\ WorkflowsCommitted'
    BY <2>1, <2>3, <2>4 DEF RowsCreated, WorkflowsCommitted
  <2>11. QED
    BY <2>5, <2>6, <2>7, <2>8, <2>9, <2>10
<1>3. QED
  BY <1>1, <1>2

\* A transaction that goes on to its next statement changes nothing else.
LEMMA GotoKeeps ==
    ASSUME EntityInv, NEW r \in Requests, r \in Owners, NEW pc \in {"after", "commit"},
           Goto(r, pc), UNCHANGED <<rows, lock, used, policy, created, started>>
    PROVE  EntityInv'
<1>1. /\ req'[r].pc = pc /\ req'[r].id = req[r].id /\ req'[r].op = req[r].op
      /\ req'[r].new = req[r].new /\ req'[r] \in Request
      /\ \A s \in Requests : s # r => req'[s] = req[s]
  BY DEF Goto
<1>2. EntityTypeOK'
  BY <1>1 DEF Goto
<1>3. ValidatedWrites' /\ IdsKnown' /\ ImmutableAgree'
  BY <1>1 DEF ValidatedWrites, IdsKnown, ImmutableAgree
<1>4. RowsOwned'
  BY <1>1 DEF RowsOwned
<1>5. RowsCreated'
  BY DEF RowsCreated
<1>6. WorkflowsCommitted'
  BY <1>1 DEF WorkflowsCommitted
<1>7. QED
  BY <1>2, <1>3, <1>4, <1>5, <1>6

\* The audit record, the hooks and failures.
LEMMA StepMiddle ==
    ASSUME EntityInv, NEW r \in Requests, Audit(r) \/ RunAfter(r) \/ Fail(r)
    PROVE  EntityInv'
<1> HIDE DEF EntityInv
<1>1. CASE Audit(r)
  BY <1>1, RollbackKeeps, GotoKeeps DEF Audit
<1>2. CASE RunAfter(r)
  BY <1>2, GotoKeeps DEF RunAfter
<1>3. CASE Fail(r)
  BY <1>3, RollbackKeeps DEF Fail
<1>4. QED
  BY <1>1, <1>2, <1>3

\* Past its write a transaction is alone on its row.
LEMMA OwnersApart ==
    ASSUME EntityInv, NEW r \in Owners, NEW s \in Owners, r # s
    PROVE  req[r].id # req[s].id
BY DEF RowsOwned

\* The row of a transaction past its write.
LEMMA OwnerFacts ==
    ASSUME EntityInv, NEW r \in Owners
    PROVE  /\ req[r].id \in used /\ req[r].id \in Ids /\ req[r].op \in Operations
           /\ req[r].new \in Passed \cup {None}
           /\ req[r].op = "create" => req[r].id \notin created /\ req[r].new \in Passed
           /\ req[r].op = "update" => /\ req[r].id \in created /\ req[r].new \in Passed
                                      /\ rows[req[r].id] # None
                                      /\ \A f \in Immutable :
                                            req[r].new[f] = rows[req[r].id][f]
           /\ req[r].op = "delete" => req[r].id \in created /\ req[r].new = None
BY DEF ValidatedWrites, IdsKnown, RowsOwned, ImmutableAgree

\* What COMMIT does to the tables, and where it leaves the request.
LEMMA CommitEffect ==
    ASSUME EntityInv, NEW r \in Requests, Commit(r)
    PROVE  /\ r \in Owners
           /\ rows' = [rows EXCEPT ![req[r].id] = req[r].new]
           /\ lock' = [lock EXCEPT ![req[r].id] = None]
           /\ created' = IF req[r].op = "create" THEN created \cup {req[r].id} ELSE created
           /\ UNCHANGED <<used, policy, started>>
           /\ req' \in [Requests -> Request]
           /\ req'[r].pc \in {"idle", "workflow"}
           /\ req'[r].pc = "workflow" => req'[r].id = req[r].id /\ req[r].op = "create"
           /\ \A s \in Requests : s # r => req'[s] = req[s]
<1>1. /\ r \in Owners
      /\ rows' = [rows EXCEPT ![req[r].id] = req[r].new]
      /\ lock' = [lock EXCEPT ![req[r].id] = None]
      /\ created' = IF req[r].op = "create" THEN created \cup {req[r].id} ELSE created
      /\ UNCHANGED <<used, policy, started>>
  BY DEF Commit, Written
<1>2. CASE req' = [req EXCEPT ![r] = Idle]
  BY <1>1, <1>2, IdleType DEF Idle
<1>3. CASE Goto(r, "workflow") /\ req[r].op = "create"
  <2>1. req'[r] = [req[r] EXCEPT !.pc = "workflow"]
    BY <1>3 DEF Goto
  <2>2. req'[r] \in Request /\ req'[r].pc = "workflow" /\ req'[r].id = req[r].id
    BY <2>1
  <2>3. QED
    BY <1>1, <1>3, <2>2 DEF Goto
<1>4. QED
  BY <1>2, <1>3 DEF Commit

\* COMMIT publishes the row.
LEMMA StepCommit ==
    ASSUME EntityInv, NEW r \in Requests, Commit(r)
    PROVE  EntityInv'
<1>1. /\ r \in Owners
      /\ rows' = [rows EXCEPT ![req[r].id] = req[r].new]
      /\ lock' = [lock EXCEPT ![req[r].id] = None]
      /\ created' = IF req[r].op = "create" THEN created \cup {req[r].id} ELSE created
      /\ UNCHANGED <<used, policy, started>>
      /\ req' \in [Requests -> Request]
      /\ req'[r].pc \in {"idle", "workflow"}
      /\ req'[r].pc = "workflow" => req'[r].id = req[r].id /\ req[r].op = "create"
      /\ \A s \in Requests : s # r => req'[s] = req[s]
  BY CommitEffect
<1>2. /\ req[r].id \in used /\ req[r].id \in Ids /\ req[r].op \in Operations
      /\ req[r].new \in Passed \cup {None}
      /\ req[r].op = "create" => req[r].id \notin created /\ req[r].new \in Passed
      /\ req[r].op = "update" => /\ req[r].id \in created /\ req[r].new \in Passed
                                 /\ rows[req[r].id] # None
                                 /\ \A f \in Immutable : req[r].new[f] = rows[req[r].id][f]
      /\ req[r].op = "delete" => req[r].id \in created /\ req[r].new = None
  BY <1>1, OwnerFacts
<1>3. \A s \in Owners : s # r => req[s].id # req[r].id
  BY <1>1, OwnersApart
<1>4. EntityTypeOK'
  <2>1. rows' \in [Ids -> Record \cup {None}]
    BY <1>1, <1>2 DEF Passed
  <2>2. lock' \in [Ids -> Requests \cup {None}]
    BY <1>1
  <2>3. created' \subseteq used /\ started \subseteq used
    BY <1>1, <1>2
  <2>4. QED
    BY <1>1, <2>1, <2>2, <2>3
<1>5. ValidatedWrites'
  BY <1>1 DEF ValidatedWrites
<1>6. IdsKnown'
  BY <1>1, <1>2, <1>3 DEF IdsKnown
<1>7. RowsOwned'
  <2>1. SUFFICES ASSUME NEW s \in Requests, s \in Owners'
                 PROVE  /\ lock'[req'[s].id] = s
                        /\ req'[s].op \in {"update", "delete"} => rows'[req'[s].id] # None
    BY DEF RowsOwned
  <2>2. s # r /\ s \in Owners /\ req'[s] = req[s] /\ req[s].id # req[r].id
    BY <1>1, <1>3, <2>1
  <2>3. req[s].id \in Ids
    BY <2>2, OwnerFacts
  <2>4. QED
    BY <1>1, <2>2, <2>3 DEF RowsOwned
<1>8. RowsCreated'
  BY <1>1, <1>2, EntityAssumption DEF RowsCreated
<1>9. ImmutableAgree'
  <2>1. SUFFICES ASSUME NEW s \in Requests, s \in InTx', req'[s].op = "update",
                        rows'[req'[s].id] # None, NEW f \in Immutable
                 PROVE  req'[s].new[f] = rows'[req'[s].id][f]
    BY DEF ImmutableAgree
  <2>2. s # r /\ s \in InTx /\ req'[s] = req[s]
    BY <1>1, <2>1
  <2>3. req[s].id \in created /\ req[s].id \in Ids
    BY <2>1, <2>2 DEF IdsKnown
  <2>4. CASE req[s].id # req[r].id
    BY <1>1, <2>1, <2>2, <2>3, <2>4 DEF ImmutableAgree
  <2>5. CASE req[s].id = req[r].id
    <3>1. req[r].op = "update"
      BY <1>1, <1>2, <2>1, <2>2, <2>3, <2>5
    <3>2. req[s].new[f] = rows[req[s].id][f] /\ req[r].new[f] = rows[req[r].id][f]
      BY <1>2, <2>1, <2>2, <2>5, <3>1 DEF ImmutableAgree
    <3>3. QED
      BY <1>1, <2>2, <2>3, <2>5, <3>2
  <2>6. QED
    BY <2>4, <2>5
<1>10. WorkflowsCommitted'
  BY <1>1, <1>2 DEF WorkflowsCommitted
<1>11. QED
  BY <1>4, <1>5, <1>6, <1>7, <1>8, <1>9, <1>10

\* The workflow start ends the request.
LEMMA StepWorkflow ==
    ASSUME EntityInv, NEW r \in Requests, StartWorkflow(r) \/ WorkflowFails(r)
    PROVE  EntityInv'
<1>1. started' \subseteq created
  BY DEF StartWorkflow, WorkflowFails, WorkflowsCommitted
<1>2. QED
  BY <1>1, IdleKeeps DEF StartWorkflow, WorkflowFails

\* Every step keeps the invariant.
LEMMA StepEntity == EntityInv /\ [EntityNext]_entityVars => EntityInv'
<1>1. SUFFICES ASSUME EntityInv, [EntityNext]_entityVars PROVE EntityInv'
  OBVIOUS
<1>2. CASE UNCHANGED entityVars
  BY <1>1, <1>2 DEF entityVars, ValidatedWrites, IdsKnown, RowsOwned, RowsCreated,
    ImmutableAgree, WorkflowsCommitted
<1>3. ASSUME NEW r \in Requests, Begin(r) \/ Step(r) \/ WriteRow(r) \/ Fail(r)
      PROVE  EntityInv'
  <2> HIDE DEF EntityInv
  <2> QED
    BY <1>1, <1>3, StepCreateBegin, StepUpdateBegin, StepDeleteBegin, StepInsert, StepWriteRow,
      StepMiddle, StepCommit, StepWorkflow DEF Begin, Step
<1>4. QED
  BY <1>1, <1>2, <1>3 DEF EntityNext

\* The invariant holds in every behaviour.
THEOREM EntityInvHolds == EntitySpec => []EntityInv
<1>1. QED
  BY InitEntity, StepEntity, PTL DEF EntitySpec

-----------------------------------------------------------------------------
(* The properties *)

\* Tables and requests are type-correct.
THEOREM EntityTypeCorrect == EntitySpec => []EntityTypeOK
<1>1. EntityInv => EntityTypeOK
  OBVIOUS
<1>2. QED
  BY <1>1, EntityInvHolds, PTL

\* Concurrent patches never combine into a record that no request has prepared.
THEOREM RecordsAreValid == EntitySpec => []StoredRecordsValid
<1>1. EntityInv => StoredRecordsValid
  BY DEF RowsCreated, StoredRecordsValid
<1>2. QED
  BY <1>1, EntityInvHolds, PTL

\* No workflow runs for a record whose creation was rolled back.
THEOREM WorkflowsAreForCommitted == EntitySpec => []WorkflowsOnlyForCommitted
<1>1. EntityInv => WorkflowsOnlyForCommitted
  BY DEF WorkflowsCommitted, WorkflowsOnlyForCommitted
<1>2. QED
  BY <1>1, EntityInvHolds, PTL

\* Only COMMIT changes rows.
LEMMA OnlyCommitWrites ==
    ASSUME NEW r \in Requests, Begin(r) \/ Step(r) \/ WriteRow(r) \/ Fail(r), ~Commit(r)
    PROVE  rows' = rows
BY DEF Begin, Step, CreateBegin, UpdateBegin, DeleteBegin, Insert, WriteRow, Audit, RunAfter,
  Fail, StartWorkflow, WorkflowFails

\* A COMMIT writes to its row a record that agrees with it, and never to a row
\* that has been deleted.
LEMMA CommitRespects ==
    ASSUME EntityInv, NEW r \in Requests, Commit(r), NEW id \in Ids
    PROVE  /\ \A f \in Immutable :
                rows[id] # None /\ rows'[id] # None => rows'[id][f] = rows[id][f]
           /\ id \in created /\ rows[id] = None => rows'[id] = None
<1>1. r \in Owners /\ rows' = [rows EXCEPT ![req[r].id] = req[r].new]
  BY CommitEffect
<1>2. /\ req[r].id \in Ids /\ req[r].op \in Operations
      /\ req[r].op = "create" => req[r].id \notin created
      /\ req[r].op = "update" => /\ rows[req[r].id] # None
                                 /\ \A f \in Immutable : req[r].new[f] = rows[req[r].id][f]
      /\ req[r].op = "delete" => req[r].new = None
  BY <1>1, OwnerFacts
<1>3. rows[id] # None => id \in created
  BY DEF RowsCreated
<1>4. CASE id # req[r].id
  BY <1>1, <1>2, <1>4
<1>5. CASE id = req[r].id
  BY <1>1, <1>2, <1>3, <1>5
<1>6. QED
  BY <1>4, <1>5

\* An immutable field keeps its value as long as the record exists.
THEOREM ImmutableFieldsAreKept == EntitySpec => ImmutableFieldsKept
<1>1. EntityInv /\ [EntityNext]_entityVars =>
        [\A id \in Ids, f \in Immutable :
            rows[id] # None /\ rows'[id] # None => rows'[id][f] = rows[id][f]]_entityVars
  <2>1. SUFFICES ASSUME EntityInv, EntityNext, NEW id \in Ids, NEW f \in Immutable,
                        rows[id] # None, rows'[id] # None
                 PROVE  rows'[id][f] = rows[id][f]
    OBVIOUS
  <2>2. PICK r \in Requests : Begin(r) \/ Step(r) \/ WriteRow(r) \/ Fail(r)
    BY <2>1 DEF EntityNext
  <2>3. CASE Commit(r)
    BY <2>1, <2>3, CommitRespects
  <2>4. CASE ~Commit(r)
    BY <2>2, <2>4, OnlyCommitWrites
  <2>5. QED
    BY <2>3, <2>4
<1>2. QED
  BY <1>1, EntityInvHolds, PTL DEF EntitySpec, ImmutableFieldsKept

\* A deleted record never comes back through a stale update.
THEOREM DeletedStaysDeleted == EntitySpec => NoResurrection
<1>1. EntityInv /\ [EntityNext]_entityVars =>
        [\A id \in created : rows[id] = None => rows'[id] = None]_entityVars
  <2>1. SUFFICES ASSUME EntityInv, EntityNext, NEW id \in created, rows[id] = None
                 PROVE  rows'[id] = None
    OBVIOUS
  <2>2. PICK r \in Requests : Begin(r) \/ Step(r) \/ WriteRow(r) \/ Fail(r)
    BY <2>1 DEF EntityNext
  <2>3. CASE Commit(r)
    BY <2>1, <2>3, CommitRespects
  <2>4. CASE ~Commit(r)
    BY <2>1, <2>2, <2>4, OnlyCommitWrites
  <2>5. QED
    BY <2>3, <2>4
<1>2. QED
  BY <1>1, EntityInvHolds, PTL DEF EntitySpec, NoResurrection
=============================================================================
