------------------------------- MODULE Ledger -------------------------------
(***************************************************************************)
(* The action handlers of modules/finance/handlers.go on journal entries,  *)
(* payments, fiscal years and accounting periods. Every handler reads a    *)
(* status, compares it and writes another one; the reversal of an entry    *)
(* and the closing of a year do so in a transaction. A statement is one    *)
(* action. The driver is PostgreSQL at READ COMMITTED: an UPDATE waits for *)
(* the transaction that has written the row, and one of the transactions   *)
(* that wait for each other is aborted.                                    *)
(***************************************************************************)
EXTENDS Naturals, Sequences, FiniteSets, SequencesExt, Relation

CONSTANTS
    Actors,     \* concurrent action requests
    Entries,    \* ids of journal entries, those of reversals to come included
    Payments, Years, Periods,
    Books,      \* the sets of documents a tenant may start with
    None

Records == Entries \cup Payments \cup Years \cup Periods

\* The options of the status field of a document.
EntryOptions == {"draft", "submitted", "posted", "reversed", "cancelled"}
PaymentOptions == {"draft", "submitted", "processed", "reconciled", "cancelled"}
YearOptions == {"draft", "active", "closing", "closed"}
PeriodOptions == {"draft", "open", "closed", "locked"}

Options(r) ==
    CASE r \in Entries  -> EntryOptions
      [] r \in Payments -> PaymentOptions
      [] r \in Years    -> YearOptions
      [] r \in Periods  -> PeriodOptions

Statuses == EntryOptions \cup PaymentOptions \cup YearOptions \cup PeriodOptions

ASSUME LedgerAssumption ==
    /\ Entries \cap (Payments \cup Years \cup Periods) = {}
    /\ Payments \cap (Years \cup Periods) = {}
    /\ Years \cap Periods = {}
    /\ IsFiniteSet(Periods)
    /\ Books \subseteq SUBSET Records
    /\ None \notin Actors \cup Records \cup Statuses

VARIABLES
    status,     \* status[r]: committed status, None while r does not exist
    reversalOf, \* reversalOf[e]: the entry that e reverses, or None
    lock,       \* lock[r]: the request whose transaction has written r, or None
    action,     \* action[a]: program counter and locals of request a
    completed   \* history: entries once marked reversed and years once closed

ledgerVars == <<status, reversalOf, lock, action, completed>>

-----------------------------------------------------------------------------
(* Operations: the statuses they start from and the one they lead to *)

\* transitionStatus and transitionStatusWithTimestamp
transitionStatus(on, source, target) ==
    [name |-> "transition", on |-> on, from |-> {source}, to |-> target]

cancelAction_Any(on, terminal) ==
    [name |-> "transition", on |-> on, from |-> Statuses, to |-> "cancelled"]

cancelAction(on, terminal) ==
    [name |-> "transition", on |-> on, from |-> Statuses \ terminal, to |-> "cancelled"]

postJournalEntry == transitionStatus(Entries, "submitted", "posted")

reverseJournalEntry ==
    [name |-> "reverse", on |-> Entries, from |-> {"posted"}, to |-> "reversed"]

closeFiscalYear_Locked ==
    [name |-> "close", on |-> Years, from |-> {"active", "closing"}, to |-> "locked"]

closeFiscalYear ==
    [name |-> "close", on |-> Years, from |-> {"active", "closing"}, to |-> "closed"]

Operations ==
    {transitionStatus(Entries, "draft", "submitted"), postJournalEntry, reverseJournalEntry,
     transitionStatus(Payments, "draft", "submitted"),
     transitionStatus(Payments, "submitted", "processed"),
     transitionStatus(Payments, "processed", "reconciled"),
     cancelAction(Payments, {"processed", "reconciled"}),
     transitionStatus(Years, "draft", "active"), closeFiscalYear,
     transitionStatus(Periods, "draft", "open"), transitionStatus(Periods, "open", "closed")}

-----------------------------------------------------------------------------

Request == [pc: {"idle", "create", "query", "periods", "update", "commit"},
            op: Operations \cup {None},
            record: Records \cup {None},   \* the record that the handler has read
            todo: Seq(Periods)]            \* close: the periods still to lock

Idle == [pc |-> "idle", op |-> None, record |-> None, todo |-> <<>>]

LedgerInit ==
    /\ \E book \in Books : status = [r \in Records |-> IF r \in book THEN "draft" ELSE None]
    /\ reversalOf = [e \in Entries |-> None]
    /\ lock = [r \in Records |-> None]
    /\ action = [a \in Actors |-> Idle]
    /\ completed = {}

Goto(a, pc) == action' = [action EXCEPT ![a].pc = pc]

\* Ids that repo.Create can give to a reversal.
Fresh == {e \in Entries : status[e] = None /\ lock[e] = None}

\* Bound: a reversal that begins finds an id.
EntryAvailable == Cardinality({a \in Actors : action[a].pc = "create"}) < Cardinality(Fresh)

FirstStep(op) == [transition |-> "update", reverse |-> "create", close |-> "query"][op.name]

\* The handler reads the record; a missing record and a status it does not
\* start from end it.
Get(a) ==
    /\ action[a].pc = "idle"
    /\ \E op \in Operations : \E r \in op.on :
        \/ /\ status[r] \in op.from
           /\ op.name = "reverse" => EntryAvailable
           /\ action' = [action EXCEPT ![a] =
                [Idle EXCEPT !.pc = FirstStep(op), !.op = op, !.record = r]]
        \/ status[r] \notin op.from /\ UNCHANGED action
    /\ UNCHANGED <<status, reversalOf, lock, completed>>

\* reverse: repo.Create of the reversing entry. The handler leaves out
\* entry_date and currency, which the definition requires, so a driver that
\* validates refuses the entry: that is Fail, and this action stands for a driver
\* that does not. The repository has no driver yet.
CreateReversal(a) ==
    /\ action[a].pc = "create"
    /\ \E e \in Fresh : lock' = [lock EXCEPT ![e] = a]
    /\ Goto(a, "update")
    /\ UNCHANGED <<status, reversalOf, completed>>

\* periodsByFiscalYear: a nil filter, which selects the periods of all years.
periodsByFiscalYear(year) == {p \in Periods : status[p] # None}

\* close: the periods to lock, in any order.
Query(a) ==
    /\ action[a].pc = "query"
    /\ \E todo \in SetToSeqs({p \in periodsByFiscalYear(action[a].record) : status[p] # "locked"}) :
        action' = [action EXCEPT ![a].pc = "periods", ![a].todo = todo]
    /\ UNCHANGED <<status, reversalOf, lock, completed>>

LockPeriod_Autocommit(a) ==
    /\ action[a].pc = "periods" /\ action[a].todo # <<>>
    /\ lock[Head(action[a].todo)] = None
    /\ status' = [status EXCEPT ![Head(action[a].todo)] = "locked"]
    /\ action' = [action EXCEPT ![a].todo = Tail(@)]
    /\ UNCHANGED <<reversalOf, lock, completed>>

\* close: the update of one period.
LockPeriod(a) ==
    /\ action[a].pc = "periods" /\ action[a].todo # <<>>
    /\ lock[Head(action[a].todo)] = None
    /\ lock' = [lock EXCEPT ![Head(action[a].todo)] = a]
    /\ action' = [action EXCEPT ![a].todo = Tail(@)]
    /\ UNCHANGED <<status, reversalOf, completed>>

\* close: the loop over the periods has ended.
PeriodsDone(a) ==
    /\ action[a].pc = "periods" /\ action[a].todo = <<>>
    /\ Goto(a, "update")
    /\ UNCHANGED <<status, reversalOf, lock, completed>>

\* repo.Update of the record itself, once nobody else has a write of it pending:
\* at once without a transaction, otherwise when the transaction commits. The
\* status is not compared again.
Update(a) ==
    LET r == action[a].record IN
    /\ action[a].pc = "update" /\ lock[r] = None
    /\ IF action[a].op.name = "transition"
       THEN /\ status' = [status EXCEPT ![r] = action[a].op.to]
            /\ action' = [action EXCEPT ![a] = Idle]
            /\ UNCHANGED lock
       ELSE /\ lock' = [lock EXCEPT ![r] = a]
            /\ Goto(a, "commit")
            /\ UNCHANGED status
    /\ UNCHANGED <<reversalOf, completed>>

\* What the transaction of a has written to r.
Written(a, r) ==
    CASE r = action[a].record -> action[a].op.to
      [] r # action[a].record /\ r \notin Periods -> "posted"
      [] r # action[a].record /\ r \in Periods -> "locked"

Writes(a) == {r \in Records : lock[r] = a}

Release(a) == lock' = [r \in Records |-> IF lock[r] = a THEN None ELSE lock[r]]

Commit_WithoutOriginal(a) ==
    /\ action[a].pc = "commit"
    /\ status' = [r \in Records |->
        IF r \in Writes(a) \ {action[a].record} THEN Written(a, r) ELSE status[r]]
    /\ reversalOf' = [e \in Entries |->
        IF e \in Writes(a) \ {action[a].record} THEN action[a].record ELSE reversalOf[e]]
    /\ UNCHANGED completed
    /\ Release(a)
    /\ action' = [action EXCEPT ![a] = Idle]

\* COMMIT; when its reply is lost the request ends with an error all the same.
Commit(a) ==
    /\ action[a].pc = "commit"
    /\ status' = [r \in Records |-> IF r \in Writes(a) THEN Written(a, r) ELSE status[r]]
    /\ reversalOf' = [e \in Entries |->
        IF e \in Writes(a) \ {action[a].record} THEN action[a].record ELSE reversalOf[e]]
    /\ completed' = completed \cup {action[a].record}
    /\ Release(a)
    /\ action' = [action EXCEPT ![a] = Idle]

Rollback_KeepsLocks(a) ==
    /\ UNCHANGED lock
    /\ action' = [action EXCEPT ![a] = Idle]
    /\ UNCHANGED <<status, reversalOf, completed>>

\* Tx returns the error of fn after ROLLBACK.
Rollback(a) ==
    /\ Release(a)
    /\ action' = [action EXCEPT ![a] = Idle]
    /\ UNCHANGED <<status, reversalOf, completed>>

\* A statement or COMMIT fails, or the process dies.
Fail(a) == action[a].pc # "idle" /\ Rollback(a)

\* The row that a waits for or will write next.
Wanted(a) ==
    CASE action[a].pc = "update" -> {action[a].record}
      [] action[a].pc = "periods" /\ action[a].todo # <<>> -> {Head(action[a].todo)}
      [] OTHER -> {}

WaitsFor == [a, b \in Actors |-> a # b /\ \E r \in Wanted(a) : lock[r] = b]

\* PostgreSQL aborts one transaction of a cycle.
DeadlockDetected(a) == TransitiveClosure(WaitsFor, Actors)[a, a] /\ Rollback(a)

-----------------------------------------------------------------------------

Step(a) == CreateReversal(a) \/ Query(a) \/ PeriodsDone(a) \/ Commit(a) \/ DeadlockDetected(a)

Write(a) == LockPeriod(a) \/ Update(a)

LedgerNext == \E a \in Actors : Get(a) \/ Step(a) \/ Write(a) \/ Fail(a)

LedgerSpec == LedgerInit /\ [][LedgerNext]_ledgerVars

\* A request goes on until it answers; PostgreSQL detects deadlocks and serves
\* the waiters of a row in order.
LedgerFairSpec ==
    LedgerSpec /\ \A a \in Actors : WF_ledgerVars(Step(a)) /\ SF_ledgerVars(Write(a))

-----------------------------------------------------------------------------
(* Properties *)

\* Types of the variables; a record has a status its definition lists.
LedgerTypeOK ==
    /\ status \in [Records -> Statuses \cup {None}]
    /\ \A r \in Records : status[r] \in Options(r) \cup {None}
    /\ reversalOf \in [Entries -> Entries \cup {None}]
    /\ lock \in [Records -> Actors \cup {None}]
    /\ action \in [Actors -> Request]
    /\ completed \subseteq Entries \cup Years

\* reverseJournalEntry is atomic: an entry marked reversed has a reversal, and an
\* entry with a reversal has been marked, whatever fails or runs at the same time.
ReversalsPaired ==
    \A e \in Entries :
        /\ status[e] = "reversed" => \E f \in Entries : reversalOf[f] = e
        /\ reversalOf[e] # None => reversalOf[e] \in completed

\* This step ends the closing a of a year: the year is closed, no period that it
\* has read is left to write, and every period it has written is locked.
ClosesWhole(a) ==
    /\ action[a].pc # "idle" /\ action'[a].pc = "idle"
    /\ action[a].record \in Years /\ status'[action[a].record] = "closed"
    /\ action[a].todo = <<>>
    /\ \A p \in Periods : lock[p] = a => status'[p] = "locked"

\* closeFiscalYear is atomic: periods become locked and a year closed only in a
\* step that completes a closing as a whole. One that fails half-way, deadlocks
\* or overlaps another shows nothing of what it has done.
ClosingsAtomic ==
    [][\/ \E p \in Periods : status[p] # "locked" /\ status'[p] = "locked"
       \/ \E y \in Years : status[y] # "closed" /\ status'[y] = "closed"
       => \E a \in Actors : ClosesWhole(a)]_ledgerVars

Terminal == {"reversed", "reconciled", "cancelled", "locked"}

Final(r) == status[r] \in Terminal \/ (r \in Years /\ status[r] = "closed")

\* r is final and no request that has passed its check will write another status.
Settled(r) ==
    /\ Final(r)
    /\ \A a \in Actors :
        r \in {action[a].record} \cup ToSet(action[a].todo) \cup Writes(a) =>
            Written(a, r) = status[r]

\* A final status is for ever unless a request that has read an earlier one is
\* still to write: no sequence of actions begun after it leads out of it. With such
\* a request the code does leave it, cancelAction too, whose comment says that it
\* starts from "any non-terminal status".
FinalUnlessOverlapped ==
    [][\A r \in Records : Settled(r) => status'[r] = status[r] /\ Settled(r)']_ledgerVars

\* Every action is answered, also when two closings lock the periods in
\* opposite orders.
EveryActionEnds == \A a \in Actors : action[a].pc # "idle" ~> action[a].pc = "idle"
=============================================================================
