---------------------------- MODULE LedgerProofs ----------------------------
(***************************************************************************)
(* Proofs about Ledger for any number of requests and documents.           *)
(*                                                                         *)
(* That a reversal and its original are written together is not inductive: *)
(* it needs to be known what a transaction has written before it commits,  *)
(* that is which row locks a request holds at each of its program points.  *)
(***************************************************************************)
EXTENDS Ledger, FiniteSetTheorems, TLAPS

\* A request p that has passed its check works on a record that exists, by the
\* steps of its operation.
Sound(p) ==
    p.pc # "idle" =>
        /\ p.op \in Operations
        /\ p.record \in p.op.on
        /\ status[p.record] # None
        /\ p.pc = "create" => p.op.name = "reverse"
        /\ p.pc \in {"query", "periods"} => p.op.name = "close"
        /\ p.pc = "commit" => p.op.name \in {"reverse", "close"}
        /\ p.pc # "periods" => p.todo = <<>>

\* A row r that the transaction of p has written: its record when it is about
\* to commit, the reversal that does not exist yet, or a period.
Holds(r, p) ==
    \/ r = p.record /\ p.pc = "commit"
    \/ /\ r \in Entries /\ status[r] = None
       /\ p.op.name = "reverse" /\ p.pc \in {"update", "commit"}
    \/ /\ r \in Periods
       /\ p.op.name = "close" /\ p.pc \in {"periods", "update", "commit"}

\* A reversal that is about to mark its original has created an entry, and
\* the transaction that commits has written its record.
Complete(a, p) ==
    /\ p.pc \in {"update", "commit"} /\ p.op.name = "reverse" =>
        \E e \in Entries : lock[e] = a /\ status[e] = None
    /\ p.pc = "commit" => lock[p.record] = a

\* What is known of all requests and the locks they hold.
RequestsSound ==
    /\ \A a \in Actors : Sound(action[a]) /\ Complete(a, action[a])
    /\ \A a \in Actors, r \in Records : lock[r] = a => Holds(r, action[a])

\* A reversal exists.
ReversalsExist == \A e \in Entries : reversalOf[e] # None => status[e] # None

\* The inductive invariant.
LedgerInv ==
    /\ LedgerTypeOK /\ RequestsSound /\ ReversalsExist
    /\ ReversalsPaired

-----------------------------------------------------------------------------
(* Operators *)

\* Every document is of one kind.
LEMMA OptionsOf ==
    /\ \A r \in Entries : Options(r) = {"draft", "submitted", "posted", "reversed", "cancelled"}
    /\ \A r \in Payments : Options(r) = {"draft", "submitted", "processed", "reconciled", "cancelled"}
    /\ \A r \in Years : Options(r) = {"draft", "active", "closing", "closed"}
    /\ \A r \in Periods : Options(r) = {"draft", "open", "closed", "locked"}
<1>1. /\ Entries \cap (Payments \cup Years \cup Periods) = {}
      /\ Payments \cap (Years \cup Periods) = {} /\ Years \cap Periods = {}
  BY LedgerAssumption
<1>2. QED
  BY <1>1 DEF Options, EntryOptions, PaymentOptions, YearOptions, PeriodOptions

\* No document has the status None.
LEMMA NoneIsNoStatus ==
    /\ \A r \in Records : None \notin Options(r) /\ Options(r) \subseteq Statuses
    /\ None \notin Statuses
<1>1. \A r \in Records : Options(r) \subseteq Statuses
  BY OptionsOf DEF Records, Statuses, EntryOptions, PaymentOptions, YearOptions, PeriodOptions
<1>2. QED
  BY <1>1, LedgerAssumption

\* What an operation is.
LEMMA OperationKinds ==
    ASSUME NEW op \in Operations
    PROVE  \/ op = reverseJournalEntry
           \/ op = closeFiscalYear
           \/ op = cancelAction(Payments, {"processed", "reconciled"})
           \/ op = transitionStatus(Entries, "draft", "submitted")
           \/ op = transitionStatus(Entries, "submitted", "posted")
           \/ op = transitionStatus(Payments, "draft", "submitted")
           \/ op = transitionStatus(Payments, "submitted", "processed")
           \/ op = transitionStatus(Payments, "processed", "reconciled")
           \/ op = transitionStatus(Years, "draft", "active")
           \/ op = transitionStatus(Periods, "draft", "open")
           \/ op = transitionStatus(Periods, "open", "closed")
BY DEF Operations, postJournalEntry

\* The names of operations and what those with a transaction write.
LEMMA OperationNames ==
    ASSUME NEW op \in Operations
    PROVE  /\ op.name \in {"transition", "reverse", "close"}
           /\ op.name = "reverse" => op.on = Entries /\ op.to = "reversed"
           /\ op.name = "close" => op.on = Years /\ op.to = "closed"
           /\ op.name = "transition" => op.to \notin {"reversed", "locked"}
           /\ op.on \in {Entries, Payments, Years, Periods}
BY OperationKinds, LedgerAssumption
DEF reverseJournalEntry, closeFiscalYear, cancelAction, transitionStatus

\* An operation leads to a status that its definition lists.
LEMMA OperationTarget ==
    ASSUME NEW op \in Operations, NEW r \in op.on
    PROVE  r \in Records /\ op.to \in Options(r)
<1>1. ASSUME NEW on, NEW source, NEW target, op = transitionStatus(on, source, target)
      PROVE  op.on = on /\ op.to = target
  BY <1>1 DEF transitionStatus
<1>2. CASE op = reverseJournalEntry
  BY <1>2, OptionsOf DEF reverseJournalEntry, Records
<1>3. CASE op = closeFiscalYear
  BY <1>3, OptionsOf DEF closeFiscalYear, Records
<1>4. CASE op = cancelAction(Payments, {"processed", "reconciled"})
  BY <1>4, OptionsOf DEF cancelAction, Records
<1>5. CASE \/ op = transitionStatus(Entries, "draft", "submitted")
           \/ op = transitionStatus(Entries, "submitted", "posted")
  BY <1>1, <1>5, OptionsOf DEF Records
<1>6. CASE \/ op = transitionStatus(Payments, "draft", "submitted")
           \/ op = transitionStatus(Payments, "submitted", "processed")
           \/ op = transitionStatus(Payments, "processed", "reconciled")
  BY <1>1, <1>6, OptionsOf DEF Records
<1>7. CASE op = transitionStatus(Years, "draft", "active")
  BY <1>1, <1>7, OptionsOf DEF Records
<1>8. CASE \/ op = transitionStatus(Periods, "draft", "open")
           \/ op = transitionStatus(Periods, "open", "closed")
  BY <1>1, <1>8, OptionsOf DEF Records
<1>9. QED
  BY <1>2, <1>3, <1>4, <1>5, <1>6, <1>7, <1>8, OperationKinds

\* An operation starts from records that exist.
LEMMA OperationSource ==
    ASSUME NEW op \in Operations, NEW r \in op.on
    PROVE  None \notin op.from
<1>1. None \notin Statuses
  BY NoneIsNoStatus
<1>2. {"draft", "submitted", "posted", "processed", "active", "closing", "open"} \subseteq Statuses
  BY DEF Statuses, EntryOptions, PaymentOptions, YearOptions, PeriodOptions
<1>3. op.from \subseteq Statuses
  BY <1>2, OperationKinds DEF reverseJournalEntry, closeFiscalYear, cancelAction, transitionStatus
<1>4. QED
  BY <1>1, <1>3

\* The handler's first step depends on its kind.
LEMMA FirstStepOf ==
    ASSUME NEW op \in Operations
    PROVE  /\ op.name = "transition" => FirstStep(op) = "update"
           /\ op.name = "reverse" => FirstStep(op) = "create"
           /\ op.name = "close" => FirstStep(op) = "query"
BY DEF FirstStep

\* An ordering of a finite set of periods is a sequence of its elements.
LEMMA OrderedPeriods ==
    ASSUME NEW S \in SUBSET Periods, NEW s \in SetToSeqs(S)
    PROVE  s \in Seq(Periods) /\ ToSet(s) \subseteq S
<1>1. Cardinality(S) \in Nat
  BY LedgerAssumption, FS_Subset, FS_CardinalityType
<1>2. s \in [1..Cardinality(S) -> S]
  BY DEF SetToSeqs
<1>3. s \in Seq(S)
  BY <1>1, <1>2
<1>4. QED
  BY <1>2, <1>3 DEF ToSet

\* Idle requests have nothing.
LEMMA IdleRequest ==
    Idle \in Request /\ Idle.pc = "idle" /\ Idle.record = None /\ Idle.op = None /\ Idle.todo = <<>>
BY DEF Idle, Request

-----------------------------------------------------------------------------
(* Steps *)

\* Initially there are drafts only.
LEMMA InitLedger == LedgerInit => LedgerInv
<1>1. SUFFICES ASSUME LedgerInit PROVE LedgerInv
  OBVIOUS
<1>2. PICK book \in Books : status = [r \in Records |-> IF r \in book THEN "draft" ELSE None]
  BY <1>1 DEF LedgerInit
<1>3. \A r \in Records : "draft" \in Options(r) /\ "draft" \in Statuses
  BY OptionsOf, NoneIsNoStatus DEF Records
<1>4. LedgerTypeOK
  BY <1>1, <1>2, <1>3, IdleRequest DEF LedgerInit, LedgerTypeOK
<1>5. RequestsSound
  BY <1>1, IdleRequest, LedgerAssumption DEF LedgerInit, RequestsSound, Sound, Complete
<1>6. ReversalsExist
  BY <1>1 DEF LedgerInit, ReversalsExist
<1>7. \A r \in Records : status[r] \in {"draft", None}
  BY <1>2
<1>8. ReversalsPaired
  BY <1>1, <1>3, <1>7, OptionsOf, NoneIsNoStatus DEF LedgerInit, ReversalsPaired, Records
<1>9. QED
  BY <1>4, <1>5, <1>6, <1>8 DEF LedgerInv

\* A step of request a that commits nothing keeps the invariant, if it touches
\* no lock of another and is sound afterwards.
LEMMA StepWithin ==
    ASSUME LedgerInv, NEW a \in Actors, NEW p \in Request, action' = [action EXCEPT ![a] = p],
           UNCHANGED <<status, reversalOf, completed>>,
           lock' \in [Records -> Actors \cup {None}],
           \A r \in Records : \A b \in Actors \ {a} : lock'[r] = b <=> lock[r] = b,
           Sound(p), Complete(a, p)', \A r \in Records : lock'[r] = a => Holds(r, p)
    PROVE  LedgerInv'
<1>1. action' \in [Actors -> Request] /\ action'[a] = p
      /\ \A b \in Actors \ {a} : action'[b] = action[b]
  BY DEF LedgerInv, LedgerTypeOK
<1>2. LedgerTypeOK'
  BY <1>1 DEF LedgerInv, LedgerTypeOK
<1>3. ASSUME NEW b \in Actors
      PROVE  (Sound(action[b]) /\ Complete(b, action[b]))'
  <2>1. CASE b = a
    BY <1>1, <2>1 DEF Sound, Complete
  <2>2. CASE b # a
    <3>1. Sound(action[b]) /\ Complete(b, action[b]) /\ action'[b] = action[b]
      BY <1>1, <2>2 DEF LedgerInv, RequestsSound
    <3>2. Sound(action[b])'
      BY <3>1 DEF Sound
    <3>3. action[b].pc = "commit" => action[b].record \in Records
      BY <3>1, OperationTarget DEF Sound
    <3>4. Complete(b, action[b])'
      BY <2>2, <3>1, <3>3 DEF Complete, Records
    <3>5. QED
      BY <3>2, <3>4
  <2>3. QED
    BY <2>1, <2>2
<1>4. ASSUME NEW b \in Actors, NEW r \in Records, lock'[r] = b
      PROVE  Holds(r, action[b])'
  <2>1. CASE b = a
    BY <1>1, <1>4, <2>1 DEF Holds
  <2>2. CASE b # a
    BY <1>1, <1>4, <2>2 DEF LedgerInv, RequestsSound, Holds
  <2>3. QED
    BY <2>1, <2>2
<1>5. (ReversalsExist /\ ReversalsPaired)'
  BY DEF LedgerInv, ReversalsExist, ReversalsPaired
<1>6. QED
  BY <1>2, <1>3, <1>4, <1>5 DEF LedgerInv, RequestsSound

\* What the invariant says of the request that takes a step.
LEMMA Acting ==
    ASSUME LedgerInv, NEW a \in Actors, action[a].pc # "idle"
    PROVE  /\ action[a] \in Request /\ action[a].op \in Operations
           /\ action[a].record \in action[a].op.on /\ action[a].record \in Records
           /\ status[action[a].record] # None
           /\ Sound(action[a]) /\ Complete(a, action[a])
           /\ \A r \in Records : lock[r] = a => Holds(r, action[a])
BY OperationTarget DEF LedgerInv, LedgerTypeOK, RequestsSound, Sound

\* An idle request holds no lock.
LEMMA IdleHoldsNothing ==
    ASSUME LedgerInv, NEW a \in Actors, action[a].pc = "idle"
    PROVE  \A r \in Records : lock[r] # a
BY DEF LedgerInv, RequestsSound, Holds

\* A request begins with a record that exists and no locks.
LEMMA StepGet ==
    ASSUME LedgerInv, NEW a \in Actors, Get(a)
    PROVE  LedgerInv'
<1>1. /\ action[a].pc = "idle" /\ UNCHANGED <<status, reversalOf, lock, completed>>
      /\ \A r \in Records : lock[r] # a
  BY IdleHoldsNothing DEF Get
<1>2. lock \in [Records -> Actors \cup {None}]
  BY DEF LedgerInv, LedgerTypeOK
<1>3. CASE UNCHANGED action
  BY <1>1, <1>3
  DEF LedgerInv, LedgerTypeOK, RequestsSound, Sound, Complete, Holds, ReversalsExist,
      ReversalsPaired
<1>4. ASSUME NEW op \in Operations, NEW r \in op.on, status[r] \in op.from,
             action' = [action EXCEPT ![a] =
                [Idle EXCEPT !.pc = FirstStep(op), !.op = op, !.record = r]]
      PROVE  LedgerInv'
  <2>1. PICK p : p = [Idle EXCEPT !.pc = FirstStep(op), !.op = op, !.record = r]
    OBVIOUS
  <2>2. r \in Records /\ FirstStep(op) \in {"update", "create", "query"}
    BY OperationTarget, OperationNames, FirstStepOf
  <2>3. p.pc = FirstStep(op) /\ p.op = op /\ p.record = r /\ p.todo = <<>> /\ p \in Request
    BY <2>1, <2>2, IdleRequest DEF Request
  <2>4. status[r] # None
    BY <1>4, OperationSource
  <2>5. Sound(p)
    BY <2>2, <2>3, <2>4, FirstStepOf, OperationNames DEF Sound
  <2>6. p.pc # "commit" /\ ~(p.pc = "update" /\ p.op.name = "reverse")
    BY <2>3, FirstStepOf, OperationNames
  <2>7. Complete(a, p)'
    BY <2>2, <2>3, <2>6 DEF Complete
  <2>8. QED
    BY <1>1, <1>2, <1>4, <2>1, <2>3, <2>5, <2>7, StepWithin
<1>5. QED
  BY <1>3, <1>4 DEF Get

\* The reversing entry is written, under an id that nobody has used.
LEMMA StepCreateReversal ==
    ASSUME LedgerInv, NEW a \in Actors, CreateReversal(a)
    PROVE  LedgerInv'
<1>1. PICK e \in Fresh : lock' = [lock EXCEPT ![e] = a]
  BY DEF CreateReversal
<1>2. e \in Entries /\ e \in Records /\ status[e] = None /\ lock[e] = None
  BY <1>1 DEF Fresh, Records
<1>3. lock \in [Records -> Actors \cup {None}] /\ action \in [Actors -> Request]
  BY DEF LedgerInv, LedgerTypeOK
<1>4. PICK p : p = [action[a] EXCEPT !.pc = "update"]
  OBVIOUS
<1>5. /\ action[a].pc = "create" /\ action' = [action EXCEPT ![a] = p]
      /\ UNCHANGED <<status, reversalOf, completed>>
  BY <1>3, <1>4 DEF CreateReversal, Goto
<1>6. /\ p \in Request /\ p.pc = "update" /\ p.op = action[a].op /\ p.record = action[a].record
      /\ p.todo = action[a].todo
  BY <1>3, <1>4 DEF Request
<1>7. Sound(p) /\ p.op.name = "reverse"
  BY <1>5, <1>6, Acting DEF Sound
<1>8. lock'[e] = a /\ \A r \in Records : r # e => lock'[r] = lock[r]
  BY <1>1, <1>2, <1>3
<1>9. Complete(a, p)'
  BY <1>2, <1>5, <1>6, <1>8 DEF Complete
<1>10. ASSUME NEW r \in Records, lock'[r] = a PROVE Holds(r, p)
  <2>1. CASE r = e
    BY <1>2, <1>6, <1>7, <2>1 DEF Holds
  <2>2. CASE r # e
    BY <1>5, <1>8, <1>10, <2>2, Acting DEF Holds, Sound
  <2>3. QED
    BY <2>1, <2>2
<1>11. lock' \in [Records -> Actors \cup {None}]
  BY <1>1, <1>3
<1>12. \A r \in Records : \A b \in Actors \ {a} : lock'[r] = b <=> lock[r] = b
  BY <1>2, <1>8, LedgerAssumption
<1>13. QED
  BY <1>5, <1>6, <1>7, <1>9, <1>10, <1>11, <1>12, StepWithin

\* The query writes nothing.
LEMMA StepQuery ==
    ASSUME LedgerInv, NEW a \in Actors, Query(a)
    PROVE  LedgerInv'
<1>1. PICK todo \in SetToSeqs({p \in periodsByFiscalYear(action[a].record) : status[p] # "locked"}) :
        action' = [action EXCEPT ![a].pc = "periods", ![a].todo = todo]
  BY DEF Query
<1>2. todo \in Seq(Periods)
  BY OrderedPeriods DEF periodsByFiscalYear
<1>3. lock \in [Records -> Actors \cup {None}] /\ action \in [Actors -> Request]
  BY DEF LedgerInv, LedgerTypeOK
<1>4. PICK p : p = [action[a] EXCEPT !.pc = "periods", !.todo = todo]
  OBVIOUS
<1>5. /\ action[a].pc = "query" /\ action' = [action EXCEPT ![a] = p]
      /\ UNCHANGED <<status, reversalOf, lock, completed>>
  BY <1>1, <1>3, <1>4 DEF Query
<1>6. /\ p \in Request /\ p.pc = "periods" /\ p.op = action[a].op /\ p.record = action[a].record
  BY <1>2, <1>3, <1>4 DEF Request
<1>7. Sound(p)
  BY <1>5, <1>6, Acting DEF Sound
<1>8. Complete(a, p)'
  BY <1>6 DEF Complete
<1>9. \A r \in Records : lock'[r] = a => Holds(r, p)
  BY <1>5, Acting DEF Holds, Sound
<1>10. QED
  BY <1>3, <1>5, <1>6, <1>7, <1>8, <1>9, StepWithin

\* A period is written.
LEMMA StepLockPeriod ==
    ASSUME LedgerInv, NEW a \in Actors, LockPeriod(a)
    PROVE  LedgerInv'
<1>1. PICK r : r = Head(action[a].todo)
  OBVIOUS
<1>2. lock \in [Records -> Actors \cup {None}] /\ action \in [Actors -> Request]
  BY DEF LedgerInv, LedgerTypeOK
<1>3. action[a].todo \in Seq(Periods) /\ action[a].todo # <<>>
  BY <1>2 DEF LockPeriod, Request
<1>4. r \in Periods /\ r \in Records /\ Tail(action[a].todo) \in Seq(Periods)
  BY <1>1, <1>3 DEF Records
<1>5. PICK p : p = [action[a] EXCEPT !.todo = Tail(@)]
  OBVIOUS
<1>6. /\ action[a].pc = "periods" /\ lock[r] = None /\ lock' = [lock EXCEPT ![r] = a]
      /\ action' = [action EXCEPT ![a] = p] /\ UNCHANGED <<status, reversalOf, completed>>
  BY <1>1, <1>2, <1>5 DEF LockPeriod
<1>7. /\ p \in Request /\ p.pc = "periods" /\ p.op = action[a].op /\ p.record = action[a].record
  BY <1>2, <1>4, <1>5, <1>6 DEF Request
<1>8. Sound(p) /\ p.op.name = "close"
  BY <1>6, <1>7, Acting DEF Sound
<1>9. Complete(a, p)'
  BY <1>7 DEF Complete
<1>10. lock'[r] = a /\ \A q \in Records : q # r => lock'[q] = lock[q]
  BY <1>2, <1>4, <1>6
<1>11. ASSUME NEW q \in Records, lock'[q] = a PROVE Holds(q, p)
  <2>1. CASE q = r
    BY <1>4, <1>7, <1>8, <2>1 DEF Holds
  <2>2. CASE q # r
    BY <1>6, <1>7, <1>10, <1>11, <2>2, Acting DEF Holds
  <2>3. QED
    BY <2>1, <2>2
<1>12. lock' \in [Records -> Actors \cup {None}]
  BY <1>2, <1>6
<1>13. \A q \in Records : \A b \in Actors \ {a} : lock'[q] = b <=> lock[q] = b
  BY <1>6, <1>10, LedgerAssumption
<1>14. QED
  BY <1>6, <1>7, <1>8, <1>9, <1>11, <1>12, <1>13, StepWithin

\* All periods are written.
LEMMA StepPeriodsDone ==
    ASSUME LedgerInv, NEW a \in Actors, PeriodsDone(a)
    PROVE  LedgerInv'
<1>1. lock \in [Records -> Actors \cup {None}] /\ action \in [Actors -> Request]
  BY DEF LedgerInv, LedgerTypeOK
<1>2. PICK p : p = [action[a] EXCEPT !.pc = "update"]
  OBVIOUS
<1>3. /\ action[a].pc = "periods" /\ action' = [action EXCEPT ![a] = p]
      /\ UNCHANGED <<status, reversalOf, lock, completed>>
  BY <1>1, <1>2 DEF PeriodsDone, Goto
<1>4. /\ p \in Request /\ p.pc = "update" /\ p.op = action[a].op /\ p.record = action[a].record
      /\ p.todo = <<>>
  BY <1>1, <1>2 DEF Request, PeriodsDone
<1>5. Sound(p) /\ p.op.name = "close"
  BY <1>3, <1>4, Acting DEF Sound
<1>6. Complete(a, p)'
  BY <1>4, <1>5 DEF Complete
<1>7. \A r \in Records : lock'[r] = a => Holds(r, p)
  BY <1>3, <1>4, <1>5, Acting DEF Holds
<1>8. QED
  BY <1>1, <1>3, <1>4, <1>5, <1>6, <1>7, StepWithin

\* Without a transaction the new status is visible at once; nobody has written
\* the record, and the status is neither "reversed" nor "locked".
LEMMA StepTransition ==
    ASSUME LedgerInv, NEW a \in Actors, Update(a), action[a].op.name = "transition"
    PROVE  LedgerInv'
<1>1. PICK r : r = action[a].record
  OBVIOUS
<1>2. PICK to : to = action[a].op.to
  OBVIOUS
<1>3. /\ action[a].pc = "update" /\ lock[r] = None /\ status' = [status EXCEPT ![r] = to]
      /\ action' = [action EXCEPT ![a] = Idle] /\ UNCHANGED <<lock, reversalOf, completed>>
  BY <1>1, <1>2 DEF Update
<1>4. r \in Records /\ to \in Options(r) /\ to \notin {"reversed", "locked"}
  BY <1>1, <1>2, <1>3, Acting, OperationTarget, OperationNames
<1>5. to # None /\ to \in Statuses
  BY <1>4, NoneIsNoStatus
<1>6. /\ status \in [Records -> Statuses \cup {None}] /\ action \in [Actors -> Request]
      /\ lock \in [Records -> Actors \cup {None}]
      /\ \A q \in Records : status[q] \in Options(q) \cup {None}
  BY DEF LedgerInv, LedgerTypeOK
<1>7. status'[r] = to /\ \A q \in Records : q # r => status'[q] = status[q]
  BY <1>3, <1>4, <1>6
<1>8. action'[a] = Idle /\ \A b \in Actors \ {a} : action'[b] = action[b]
  BY <1>3, <1>6
<1>9. LedgerTypeOK'
  <2>1. status' \in [Records -> Statuses \cup {None}] /\ action' \in [Actors -> Request]
    BY <1>3, <1>5, <1>6, IdleRequest
  <2>2. \A q \in Records : status'[q] \in Options(q) \cup {None}
    BY <1>4, <1>6, <1>7
  <2>3. QED
    BY <1>3, <2>1, <2>2 DEF LedgerInv, LedgerTypeOK
<1>10. ASSUME NEW b \in Actors
       PROVE  (Sound(action[b]) /\ Complete(b, action[b]))'
  <2>1. CASE b = a
    BY <1>8, <2>1, IdleRequest DEF Sound, Complete
  <2>2. CASE b # a
    <3>1. Sound(action[b]) /\ Complete(b, action[b]) /\ action'[b] = action[b]
      BY <1>8, <2>2 DEF LedgerInv, RequestsSound
    <3>2. action[b].pc # "idle" => action[b].record \in Records
      BY Acting
    <3>3. Sound(action[b])'
      BY <1>5, <1>7, <3>1, <3>2 DEF Sound
    <3>4. \A e \in Entries : lock[e] = b => e # r /\ e \in Records
      BY <1>3, LedgerAssumption DEF Records
    <3>5. Complete(b, action[b])'
      BY <1>3, <1>7, <3>1, <3>4 DEF Complete
    <3>6. QED
      BY <3>3, <3>5
  <2>3. QED
    BY <2>1, <2>2
<1>11. ASSUME NEW b \in Actors, NEW q \in Records, lock'[q] = b
       PROVE  Holds(q, action[b])'
  <2>1. lock[q] = b /\ q # r /\ status'[q] = status[q]
    BY <1>3, <1>7, <1>11, LedgerAssumption
  <2>2. Holds(q, action[b])
    BY <2>1 DEF LedgerInv, RequestsSound
  <2>3. CASE b = a
    BY <1>3, <2>2, <2>3 DEF Holds
  <2>4. CASE b # a
    BY <1>8, <2>1, <2>2, <2>4 DEF Holds
  <2>5. QED
    BY <2>3, <2>4
<1>12. ReversalsExist'
  BY <1>3, <1>5, <1>7 DEF LedgerInv, ReversalsExist, Records
<1>13. ReversalsPaired'
  BY <1>3, <1>4, <1>7 DEF LedgerInv, ReversalsPaired, Records
<1>14. QED
  BY <1>9, <1>10, <1>11, <1>12, <1>13 DEF LedgerInv, RequestsSound

\* In a transaction the record is written and waits for the COMMIT.
LEMMA StepUpdate ==
    ASSUME LedgerInv, NEW a \in Actors, Update(a), action[a].op.name # "transition"
    PROVE  LedgerInv'
<1>1. PICK r : r = action[a].record
  OBVIOUS
<1>2. lock \in [Records -> Actors \cup {None}] /\ action \in [Actors -> Request]
  BY DEF LedgerInv, LedgerTypeOK
<1>3. PICK p : p = [action[a] EXCEPT !.pc = "commit"]
  OBVIOUS
<1>4. /\ action[a].pc = "update" /\ lock[r] = None /\ lock' = [lock EXCEPT ![r] = a]
      /\ action' = [action EXCEPT ![a] = p] /\ UNCHANGED <<status, reversalOf, completed>>
  BY <1>1, <1>2, <1>3 DEF Update, Goto
<1>5. /\ p \in Request /\ p.pc = "commit" /\ p.op = action[a].op /\ p.record = r /\ r \in Records
      /\ p.todo = action[a].todo
  BY <1>1, <1>2, <1>3, <1>4, Acting DEF Request
<1>6. Sound(p)
  BY <1>4, <1>5, <1>1, Acting, OperationNames DEF Sound
<1>7. lock'[r] = a /\ \A q \in Records : q # r => lock'[q] = lock[q]
  BY <1>2, <1>4, <1>5
<1>8. Complete(a, p)'
  <2>1. Complete(a, action[a]) /\ \A e \in Entries : lock[e] = a => lock'[e] = a
    BY <1>4, <1>7, Acting DEF Records
  <2>2. QED
    BY <1>4, <1>5, <1>7, <2>1 DEF Complete
<1>9. ASSUME NEW q \in Records, lock'[q] = a PROVE Holds(q, p)
  <2>1. CASE q = r
    BY <1>5, <2>1 DEF Holds
  <2>2. CASE q # r
    BY <1>4, <1>5, <1>7, <1>9, <2>2, Acting DEF Holds
  <2>3. QED
    BY <2>1, <2>2
<1>10. lock' \in [Records -> Actors \cup {None}]
  BY <1>2, <1>4
<1>11. \A q \in Records : \A b \in Actors \ {a} : lock'[q] = b <=> lock[q] = b
  BY <1>4, <1>7, LedgerAssumption
<1>12. QED
  BY <1>4, <1>5, <1>6, <1>8, <1>9, <1>10, <1>11, StepWithin

\* The locks of a go and no others.
LEMMA Released ==
    ASSUME lock \in [Records -> Actors \cup {None}], NEW a \in Actors, Release(a)
    PROVE  /\ lock' \in [Records -> Actors \cup {None}]
           /\ \A r \in Records : lock'[r] # a
           /\ \A r \in Records : lock[r] # a => lock'[r] = lock[r]
           /\ \A r \in Records : \A b \in Actors \ {a} : lock'[r] = b <=> lock[r] = b
BY LedgerAssumption DEF Release

\* A rollback leaves nothing of a transaction.
LEMMA StepRollback ==
    ASSUME LedgerInv, NEW a \in Actors, Rollback(a)
    PROVE  LedgerInv'
<1>1. lock \in [Records -> Actors \cup {None}]
  BY DEF LedgerInv, LedgerTypeOK
<1>2. /\ lock' \in [Records -> Actors \cup {None}]
      /\ \A r \in Records : lock'[r] # a
      /\ \A r \in Records : \A b \in Actors \ {a} : lock'[r] = b <=> lock[r] = b
  BY <1>1, Released DEF Rollback
<1>3. Sound(Idle) /\ \A p : p = Idle => Complete(a, p)'
  BY IdleRequest DEF Sound, Complete
<1>4. action' = [action EXCEPT ![a] = Idle] /\ UNCHANGED <<status, reversalOf, completed>>
  BY DEF Rollback
<1>5. QED
  BY <1>2, <1>3, <1>4, IdleRequest, StepWithin

\* What a transaction about to commit has written, and what becomes of it.
LEMMA CommitWrites ==
    ASSUME LedgerInv, NEW a \in Actors, action[a].pc = "commit"
    PROVE  /\ action[a].record \in Writes(a)
           /\ \A r \in Writes(a) : r # action[a].record =>
                \/ /\ r \in Entries /\ status[r] = None /\ Written(a, r) = "posted"
                   /\ action[a].op.name = "reverse"
                \/ r \in Periods /\ Written(a, r) = "locked" /\ action[a].op.name = "close"
           /\ \A r \in Writes(a) : Written(a, r) \in Options(r)
           /\ Written(a, action[a].record) = action[a].op.to
           /\ \/ action[a].op.name = "reverse" /\ action[a].record \in Entries
                 /\ action[a].op.to = "reversed"
              \/ action[a].op.name = "close" /\ action[a].record \in Years
                 /\ action[a].op.to = "closed"
<1>1. action[a].op.name \in {"reverse", "close"} /\ action[a].record \in Records
      /\ lock[action[a].record] = a /\ action[a].op.to \in Options(action[a].record)
  BY Acting, OperationTarget DEF Sound, Complete
<1>2. \/ action[a].op.name = "reverse" /\ action[a].record \in Entries
         /\ action[a].op.to = "reversed"
      \/ action[a].op.name = "close" /\ action[a].record \in Years
         /\ action[a].op.to = "closed"
  BY <1>1, Acting, OperationNames
<1>3. Written(a, action[a].record) = action[a].op.to
  BY DEF Written
<1>4. ASSUME NEW r \in Writes(a), r # action[a].record
      PROVE  \/ /\ r \in Entries /\ status[r] = None /\ Written(a, r) = "posted"
                /\ action[a].op.name = "reverse"
             \/ r \in Periods /\ Written(a, r) = "locked" /\ action[a].op.name = "close"
  <2>1. Holds(r, action[a])
    BY Acting DEF Writes
  <2>2. r \in Periods => Written(a, r) = "locked"
    BY <1>4 DEF Written
  <2>3. r \in Entries => Written(a, r) = "posted"
    BY <1>4, LedgerAssumption DEF Written
  <2>4. QED
    BY <1>4, <2>1, <2>2, <2>3 DEF Holds
<1>5. \A r \in Writes(a) : Written(a, r) \in Options(r)
  BY <1>1, <1>3, <1>4, OptionsOf
<1>6. QED
  BY <1>1, <1>2, <1>3, <1>4, <1>5 DEF Writes

\* The writes of a transaction appear together: the reversal with the mark of
\* its original, the locked periods with the closed year.
LEMMA StepCommit ==
    ASSUME LedgerInv, NEW a \in Actors, Commit(a)
    PROVE  LedgerInv'
<1> DEFINE rec == action[a].record
<1>1. action[a].pc = "commit"
  BY DEF Commit
<1>2. /\ status \in [Records -> Statuses \cup {None}] /\ action \in [Actors -> Request]
      /\ lock \in [Records -> Actors \cup {None}] /\ reversalOf \in [Entries -> Entries \cup {None}]
      /\ \A q \in Records : status[q] \in Options(q) \cup {None}
      /\ completed \subseteq Entries \cup Years
  BY DEF LedgerInv, LedgerTypeOK
<1>3. /\ lock' \in [Records -> Actors \cup {None}]
      /\ \A r \in Records : lock'[r] # a
      /\ \A r \in Records : lock[r] # a => lock'[r] = lock[r]
      /\ \A r \in Records : \A b \in Actors \ {a} : lock'[r] = b <=> lock[r] = b
  BY <1>2, Released DEF Commit
<1>4. /\ \A r \in Writes(a) : status'[r] = Written(a, r) /\ Written(a, r) \in Options(r)
                              /\ Written(a, r) # None /\ Written(a, r) \in Statuses
      /\ \A r \in Records \ Writes(a) : status'[r] = status[r]
  <2>1. Writes(a) \subseteq Records
    BY DEF Writes
  <2>2. QED
    BY <1>1, <2>1, CommitWrites, NoneIsNoStatus DEF Commit
<1>5. /\ \A e \in Entries : e \in Writes(a) \ {rec} => reversalOf'[e] = rec
      /\ \A e \in Entries : e \notin Writes(a) \ {rec} => reversalOf'[e] = reversalOf[e]
      /\ completed' = completed \cup {rec}
  BY DEF Commit
<1>6. /\ action'[a] = Idle /\ \A b \in Actors \ {a} : action'[b] = action[b]
      /\ action' \in [Actors -> Request]
  BY <1>2, IdleRequest DEF Commit
<1>7. Entries \subseteq Records /\ Periods \subseteq Records /\ None \notin Records
  BY LedgerAssumption DEF Records
<1>8. rec \in Entries \cup Years
  BY <1>1, CommitWrites
<1>9. ASSUME NEW e \in Entries, e \in Writes(a) \ {rec}
      PROVE  rec \in Entries /\ status[e] = None /\ reversalOf[e] = None
             /\ Written(a, e) = "posted"
  <2>1. e \notin Periods
    BY LedgerAssumption
  <2>2. status[e] = None /\ rec \in Entries /\ Written(a, e) = "posted"
    BY <1>1, <1>9, <2>1, CommitWrites
  <2>3. QED
    BY <2>2 DEF LedgerInv, ReversalsExist
<1>10. LedgerTypeOK'
  <2>1. status' \in [Records -> Statuses \cup {None}]
    <3>1. \A r \in Records : status'[r] \in Statuses \cup {None}
      BY <1>2, <1>4
    <3>2. QED
      BY <3>1 DEF Commit
  <2>2. \A q \in Records : status'[q] \in Options(q) \cup {None}
    BY <1>2, <1>4
  <2>3. reversalOf' \in [Entries -> Entries \cup {None}]
    <3>1. \A e \in Entries : reversalOf'[e] \in Entries \cup {None}
      BY <1>2, <1>5, <1>9
    <3>2. QED
      BY <3>1 DEF Commit
  <2>4. completed' \subseteq Entries \cup Years
    BY <1>2, <1>5, <1>8
  <2>5. QED
    BY <1>3, <1>6, <2>1, <2>2, <2>3, <2>4 DEF LedgerTypeOK
<1>11. ASSUME NEW b \in Actors
       PROVE  (Sound(action[b]) /\ Complete(b, action[b]))'
  <2>1. CASE b = a
    BY <1>6, <2>1, IdleRequest DEF Sound, Complete
  <2>2. CASE b # a
    <3>1. Sound(action[b]) /\ Complete(b, action[b]) /\ action'[b] = action[b]
      BY <1>6, <2>2 DEF LedgerInv, RequestsSound
    <3>2. action[b].pc # "idle" => action[b].record \in Records
      BY Acting
    <3>3. Sound(action[b])'
      BY <1>4, <3>1, <3>2 DEF Sound
    <3>4. \A r \in Records : lock[r] = b => lock'[r] = b /\ status'[r] = status[r]
      BY <1>3, <1>4, <2>2 DEF Writes
    <3>5. Complete(b, action[b])'
      BY <1>7, <3>1, <3>2, <3>4 DEF Complete
    <3>6. QED
      BY <3>3, <3>5
  <2>3. QED
    BY <2>1, <2>2
<1>12. ASSUME NEW b \in Actors, NEW q \in Records, lock'[q] = b
       PROVE  Holds(q, action[b])'
  <2>1. b # a /\ lock[q] = b
    BY <1>3, <1>12
  <2>2. Holds(q, action[b]) /\ action'[b] = action[b] /\ status'[q] = status[q]
    BY <1>4, <1>6, <2>1 DEF LedgerInv, RequestsSound, Writes
  <2>3. QED
    BY <2>2 DEF Holds
<1>13. ReversalsExist'
  BY <1>4, <1>5, <1>7 DEF LedgerInv, ReversalsExist
<1>14. ASSUME NEW x \in Entries, status'[x] = "reversed"
       PROVE  \E f \in Entries : reversalOf'[f] = x
  <2>1. CASE x \in Writes(a)
    <3>1. x = rec
      BY <1>4, <1>9, <1>14, <2>1
    <3>2. action[a].op.name = "reverse"
      BY <1>1, <1>14, <2>1, <3>1, <1>4, CommitWrites
    <3>3. PICK e \in Entries : lock[e] = a /\ status[e] = None
      BY <1>1, <3>2, Acting DEF Complete
    <3>4. e \in Writes(a) \ {rec}
      BY <1>1, <1>7, <3>3, Acting DEF Writes
    <3>5. QED
      BY <1>5, <3>1, <3>3, <3>4
  <2>2. CASE x \notin Writes(a)
    <3>1. status[x] = "reversed"
      BY <1>4, <1>7, <1>14, <2>2
    <3>2. PICK f \in Entries : reversalOf[f] = x
      BY <3>1 DEF LedgerInv, ReversalsPaired
    <3>3. f \notin Writes(a) \ {rec}
      BY <1>7, <1>9, <3>2
    <3>4. QED
      BY <1>5, <3>2, <3>3
  <2>3. QED
    BY <2>1, <2>2
<1>15. \A e \in Entries : reversalOf'[e] # None => reversalOf'[e] \in completed'
  BY <1>5 DEF LedgerInv, ReversalsPaired
<1>16. QED
  BY <1>10, <1>11, <1>12, <1>13, <1>14, <1>15 DEF LedgerInv, RequestsSound, ReversalsPaired

\* Every step keeps the invariant.
LEMMA StepLedger == LedgerInv /\ [LedgerNext]_ledgerVars => LedgerInv'
<1>1. SUFFICES ASSUME LedgerInv, [LedgerNext]_ledgerVars PROVE LedgerInv'
  OBVIOUS
<1>2. CASE UNCHANGED ledgerVars
  BY <1>1, <1>2
  DEF ledgerVars, LedgerInv, LedgerTypeOK, RequestsSound, Sound, Complete, Holds, ReversalsExist,
      ReversalsPaired
<1>3. ASSUME NEW a \in Actors, Get(a) \/ Step(a) \/ Write(a) \/ Fail(a)
      PROVE  LedgerInv'
  <2>1. DeadlockDetected(a) \/ Fail(a) => Rollback(a)
    BY Zenon DEF DeadlockDetected, Fail
  <2>2. QED
    BY <1>1, <1>3, <2>1, StepGet, StepCreateReversal, StepQuery, StepPeriodsDone, StepCommit,
       StepRollback, StepLockPeriod, StepTransition, StepUpdate DEF Step, Write
<1>4. QED
  BY <1>1, <1>2, <1>3 DEF LedgerNext

-----------------------------------------------------------------------------
(* Theorems *)

\* The invariant holds in every behaviour.
THEOREM LedgerInvHolds == LedgerSpec => []LedgerInv
<1>1. QED
  BY InitLedger, StepLedger, PTL DEF LedgerSpec

\* The handlers give every document a status its definition lists.
THEOREM LedgerTypeCorrect == LedgerSpec => []LedgerTypeOK
<1>1. LedgerInv => LedgerTypeOK
  BY DEF LedgerInv
<1>2. QED
  BY <1>1, LedgerInvHolds, PTL

\* reverseJournalEntry is atomic, whatever fails and however many requests
\* reverse, post or cancel the same entry.
THEOREM ReversalsArePaired == LedgerSpec => []ReversalsPaired
<1>1. LedgerInv => ReversalsPaired
  BY DEF LedgerInv
<1>2. QED
  BY <1>1, LedgerInvHolds, PTL

\* Only a closing closes a year.
LEMMA TransitionClosesNoYear ==
    ASSUME NEW op \in Operations, NEW y \in op.on, y \in Years, op.name = "transition"
    PROVE  op.to # "closed"
<1>1. y \notin Entries \cup Payments \cup Periods
  BY LedgerAssumption
<1>2. QED
  BY <1>1, OperationKinds
  DEF reverseJournalEntry, closeFiscalYear, cancelAction, transitionStatus

\* A commit that locks a period or closes a year completes a closing.
LEMMA CommitClosesWhole ==
    ASSUME LedgerInv, NEW a \in Actors, Commit(a),
           \/ \E p \in Periods : status[p] # "locked" /\ status'[p] = "locked"
           \/ \E y \in Years : status[y] # "closed" /\ status'[y] = "closed"
    PROVE  ClosesWhole(a)
<1>1. action[a].pc = "commit"
  BY DEF Commit
<1>2. \A r \in Records : r \in Writes(a) => status'[r] = Written(a, r)
  BY DEF Commit
<1>3. \A r \in Records : r \notin Writes(a) => status'[r] = status[r]
  BY DEF Commit
<1>4. action'[a].pc = "idle"
  BY IdleRequest DEF Commit, LedgerInv, LedgerTypeOK
<1>5. action[a].todo = <<>>
  BY <1>1, Acting DEF Sound
<1>6. action[a].op.name = "close"
  <2>1. SUFFICES ASSUME action[a].op.name = "reverse" PROVE FALSE
    BY <1>1, CommitWrites
  <2>2. PICK r \in Periods \cup Years : status'[r] # status[r]
    OBVIOUS
  <2>3. r \in Records /\ r \notin Entries
    BY LedgerAssumption DEF Records
  <2>4. r \in Writes(a)
    BY <1>3, <2>2, <2>3
  <2>5. r # action[a].record
    BY <1>1, <2>1, <2>3, CommitWrites
  <2>6. QED
    BY <1>1, <2>1, <2>3, <2>4, <2>5, CommitWrites
<1>7. action[a].record \in Years /\ action[a].record \in Writes(a)
      /\ Written(a, action[a].record) = "closed"
  BY <1>1, <1>6, CommitWrites
<1>8. status'[action[a].record] = "closed"
  BY <1>2, <1>7 DEF Records
<1>9. ASSUME NEW p \in Periods, lock[p] = a PROVE status'[p] = "locked"
  <2>1. p \in Records /\ p # action[a].record /\ p \in Writes(a) /\ p \notin Entries
    BY <1>7, <1>9, LedgerAssumption DEF Records, Writes
  <2>2. Written(a, p) = "locked"
    BY <1>1, <2>1, CommitWrites
  <2>3. QED
    BY <1>2, <2>1, <2>2
<1>10. QED
  BY <1>1, <1>4, <1>5, <1>7, <1>8, <1>9 DEF ClosesWhole

\* closeFiscalYear is atomic: whichever closings fail, deadlock or overlap,
\* periods become locked and years closed only by one that completes.
THEOREM ClosingsAreAtomic == LedgerSpec => ClosingsAtomic
<1>1. ASSUME LedgerInv, LedgerNext,
             \/ \E p \in Periods : status[p] # "locked" /\ status'[p] = "locked"
             \/ \E y \in Years : status[y] # "closed" /\ status'[y] = "closed"
      PROVE  \E a \in Actors : ClosesWhole(a)
  <2>1. PICK a \in Actors : Get(a) \/ Step(a) \/ Write(a) \/ Fail(a)
    BY <1>1 DEF LedgerNext
  <2>2. DeadlockDetected(a) \/ Fail(a) => Rollback(a)
    BY Zenon DEF DeadlockDetected, Fail
  <2>3. CASE Commit(a)
    BY <1>1, <2>3, CommitClosesWhole
  <2>4. CASE Update(a) /\ action[a].op.name = "transition"
    <3>1. PICK r : r = action[a].record
      OBVIOUS
    <3>2. PICK op : op = action[a].op
      OBVIOUS
    <3>3. action[a].pc = "update" /\ status' = [status EXCEPT ![r] = op.to]
      BY <2>4, <3>1, <3>2 DEF Update
    <3>4. op \in Operations /\ r \in op.on /\ op.name = "transition"
      BY <1>1, <2>4, <3>1, <3>2, <3>3, Acting
    <3>5. op.to # "locked" /\ (r \in Years => op.to # "closed")
      BY <3>4, OperationNames, TransitionClosesNoYear
    <3>6. \A q \in Records : status'[q] = status[q] \/ (q = r /\ status'[q] = op.to)
      BY <1>1, <3>3 DEF LedgerInv, LedgerTypeOK
    <3>7. QED
      BY <1>1, <3>5, <3>6 DEF Records
  <2>5. CASE UNCHANGED status
    BY <1>1, <2>5
  <2>6. QED
    BY <2>1, <2>2, <2>3, <2>4, <2>5 DEF Step, Write, Get, CreateReversal, Query, PeriodsDone,
       LockPeriod, Update, Rollback
<1>2. LedgerInv /\ [LedgerNext]_ledgerVars =>
        [\/ \E p \in Periods : status[p] # "locked" /\ status'[p] = "locked"
         \/ \E y \in Years : status[y] # "closed" /\ status'[y] = "closed"
         => \E a \in Actors : ClosesWhole(a)]_ledgerVars
  BY <1>1
<1>3. QED
  BY <1>2, LedgerInvHolds, PTL DEF LedgerSpec, ClosingsAtomic

-----------------------------------------------------------------------------
(* Final statuses *)

\* No operation leads out of a final status: cancelling a cancelled payment is
\* the only one that starts from one at all.
LEMMA FinalIsFinal ==
    ASSUME NEW op \in Operations, NEW r \in op.on, NEW st \in Options(r), st \in op.from,
           st \in Terminal \/ (r \in Years /\ st = "closed")
    PROVE  op.to = st
<1>1. ASSUME NEW on, NEW source, NEW target, op = transitionStatus(on, source, target)
      PROVE  op.on = on /\ op.from = {source}
  BY <1>1 DEF transitionStatus
<1>2. CASE op = reverseJournalEntry
  BY <1>2, LedgerAssumption DEF reverseJournalEntry, Terminal
<1>3. CASE op = closeFiscalYear
  BY <1>3 DEF closeFiscalYear, Terminal
<1>4. CASE op = cancelAction(Payments, {"processed", "reconciled"})
  <2>1. op.on = Payments /\ op.from = Statuses \ {"processed", "reconciled"} /\ op.to = "cancelled"
    BY <1>4 DEF cancelAction
  <2>2. r \notin Years
    BY <2>1, LedgerAssumption
  <2>3. QED
    BY <2>1, <2>2, OptionsOf DEF Terminal
<1>5. CASE \/ op = transitionStatus(Entries, "draft", "submitted")
           \/ op = transitionStatus(Entries, "submitted", "posted")
           \/ op = transitionStatus(Payments, "draft", "submitted")
           \/ op = transitionStatus(Payments, "submitted", "processed")
           \/ op = transitionStatus(Payments, "processed", "reconciled")
           \/ op = transitionStatus(Years, "draft", "active")
           \/ op = transitionStatus(Periods, "draft", "open")
           \/ op = transitionStatus(Periods, "open", "closed")
  BY <1>1, <1>5 DEF Terminal
<1>6. QED
  BY <1>2, <1>3, <1>4, <1>5, OperationKinds

\* A final record exists, and a final period is locked.
LEMMA FinalRecord ==
    ASSUME LedgerInv, NEW r \in Records, Final(r)
    PROVE  /\ status[r] # None /\ status[r] \in Options(r)
           /\ r \in Periods => status[r] = "locked"
<1>1. status[r] # None /\ status[r] \in Options(r)
  <2>1. Terminal \cup {"closed"} \subseteq Statuses
    BY DEF Terminal, Statuses, EntryOptions, PaymentOptions, YearOptions, PeriodOptions
  <2>2. status[r] \in Statuses
    BY <2>1 DEF Final
  <2>3. QED
    BY <2>2, NoneIsNoStatus DEF LedgerInv, LedgerTypeOK
<1>2. r \in Periods => status[r] = "locked"
  BY <1>1, OptionsOf, LedgerAssumption DEF Final, Terminal
<1>3. QED
  BY <1>1, <1>2

\* The records that request a has read, will write or has written.
Concerns(a, r) == r \in {action[a].record} \cup ToSet(action[a].todo) \cup Writes(a)

\* A settled record stays so if a step of a does not change it, touches no lock
\* of another, and leaves a writing what is there already.
LEMMA StaysSettled ==
    ASSUME NEW r \in Records, Settled(r), NEW a \in Actors, status'[r] = status[r],
           \A b \in Actors \ {a} : action'[b] = action[b],
           \A b \in Actors \ {a} : lock'[r] = b => lock[r] = b,
           Concerns(a, r)' => Written(a, r)' = status[r]
    PROVE  Settled(r)'
<1>1. Final(r)'
  BY DEF Settled, Final
<1>2. ASSUME NEW b \in Actors, Concerns(b, r)' PROVE Written(b, r)' = status'[r]
  <2>1. CASE b = a
    BY <1>2, <2>1
  <2>2. CASE b # a
    <3>1. action'[b] = action[b] /\ (lock'[r] = b => lock[r] = b)
      BY <2>2
    <3>2. Concerns(b, r)
      BY <1>2, <3>1 DEF Concerns, Writes
    <3>3. Written(b, r) = status[r]
      BY <3>2 DEF Settled, Concerns
    <3>4. Written(b, r)' = Written(b, r)
      BY <3>1 DEF Written
    <3>5. QED
      BY <3>3, <3>4
  <2>3. QED
    BY <2>1, <2>2
<1>3. QED
  BY <1>1, <1>2 DEF Settled, Concerns

\* A request that has ended concerns nothing.
LEMMA EndedConcernsNothing ==
    ASSUME NEW a \in Actors, NEW r \in Records, action'[a] = Idle, lock'[r] # a
    PROVE  ~Concerns(a, r)'
<1>1. action'[a].record = None /\ action'[a].todo = <<>> /\ None # r
  BY IdleRequest, LedgerAssumption
<1>2. ToSet(action[a].todo)' = {}
  BY <1>1 DEF ToSet
<1>3. QED
  BY <1>1, <1>2 DEF Concerns, Writes

\* A new request does not pass its check on a final record, unless it writes
\* the same status.
LEMMA SettledGet ==
    ASSUME LedgerInv, NEW r \in Records, Settled(r), NEW a \in Actors, Get(a)
    PROVE  status'[r] = status[r] /\ Settled(r)'
<1>1. /\ action[a].pc = "idle" /\ UNCHANGED <<status, lock>> /\ lock[r] # a
      /\ action \in [Actors -> Request]
  BY IdleHoldsNothing DEF Get, LedgerInv, LedgerTypeOK
<1>2. CASE UNCHANGED action
  BY <1>1, <1>2 DEF Settled, Final, Written, Writes
<1>3. ASSUME NEW op \in Operations, NEW q \in op.on, status[q] \in op.from,
             action' = [action EXCEPT ![a] =
                [Idle EXCEPT !.pc = FirstStep(op), !.op = op, !.record = q]]
      PROVE  Settled(r)'
  <2>1. action'[a] = [Idle EXCEPT !.pc = FirstStep(op), !.op = op, !.record = q]
    BY <1>1, <1>3
  <2>2. action'[a].record = q /\ action'[a].op = op /\ action'[a].todo = <<>>
    BY <2>1, IdleRequest DEF Request
  <2>3. ToSet(action[a].todo)' = {}
    BY <2>2 DEF ToSet
  <2>4. Concerns(a, r)' => r = q
    BY <1>1, <2>2, <2>3 DEF Concerns, Writes
  <2>5. r = q => op.to = status[r]
    BY <1>3, FinalRecord, FinalIsFinal DEF Settled, Final
  <2>6. r = q => Written(a, r)' = op.to
    BY <2>2 DEF Written
  <2>7. \A b \in Actors \ {a} : action'[b] = action[b]
    BY <1>1, <1>3
  <2>8. QED
    BY <1>1, <2>4, <2>5, <2>6, <2>7, StaysSettled
<1>4. QED
  BY <1>1, <1>2, <1>3 DEF Get

\* A new reversal is not a record yet.
LEMMA SettledCreateReversal ==
    ASSUME LedgerInv, NEW r \in Records, Settled(r), NEW a \in Actors, CreateReversal(a)
    PROVE  status'[r] = status[r] /\ Settled(r)'
<1>1. PICK e \in Fresh : lock' = [lock EXCEPT ![e] = a]
  BY DEF CreateReversal
<1>2. e # r
  BY FinalRecord DEF Fresh, Settled
<1>3. lock \in [Records -> Actors \cup {None}] /\ action \in [Actors -> Request]
  BY DEF LedgerInv, LedgerTypeOK
<1>4. UNCHANGED status /\ lock'[r] = lock[r]
  BY <1>1, <1>2, <1>3 DEF CreateReversal
<1>5. /\ action'[a] = [action[a] EXCEPT !.pc = "update"]
      /\ \A b \in Actors \ {a} : action'[b] = action[b]
  BY <1>3 DEF CreateReversal, Goto
<1>6. /\ action'[a].record = action[a].record /\ action'[a].op = action[a].op
      /\ action'[a].todo = action[a].todo
  BY <1>3, <1>5 DEF Request
<1>7. Concerns(a, r)' => Concerns(a, r)
  BY <1>4, <1>6 DEF Concerns, Writes
<1>8. Written(a, r)' = Written(a, r)
  BY <1>6 DEF Written
<1>9. QED
  BY <1>4, <1>5, <1>7, <1>8, StaysSettled DEF Settled, Concerns

\* A closing asks for the periods that are not locked yet.
LEMMA SettledQuery ==
    ASSUME LedgerInv, NEW r \in Records, Settled(r), NEW a \in Actors, Query(a)
    PROVE  status'[r] = status[r] /\ Settled(r)'
<1>1. PICK todo \in SetToSeqs({p \in periodsByFiscalYear(action[a].record) : status[p] # "locked"}) :
        action' = [action EXCEPT ![a].pc = "periods", ![a].todo = todo]
  BY DEF Query
<1>2. r \notin ToSet(todo)
  BY OrderedPeriods, FinalRecord DEF periodsByFiscalYear, Settled
<1>3. action \in [Actors -> Request] /\ UNCHANGED <<status, lock>>
  BY DEF LedgerInv, LedgerTypeOK, Query
<1>4. /\ action'[a] = [action[a] EXCEPT !.pc = "periods", !.todo = todo]
      /\ \A b \in Actors \ {a} : action'[b] = action[b]
  BY <1>1, <1>3
<1>5. /\ action'[a].record = action[a].record /\ action'[a].op = action[a].op
      /\ action'[a].todo = todo
  BY <1>3, <1>4 DEF Request
<1>6. Concerns(a, r)' => Concerns(a, r)
  BY <1>2, <1>3, <1>5 DEF Concerns, Writes, ToSet
<1>7. Written(a, r)' = Written(a, r)
  BY <1>5 DEF Written
<1>8. QED
  BY <1>3, <1>4, <1>6, <1>7, StaysSettled DEF Settled, Concerns

\* The period a closing writes next was one of those it had to write.
LEMMA SettledLockPeriod ==
    ASSUME LedgerInv, NEW r \in Records, Settled(r), NEW a \in Actors, LockPeriod(a)
    PROVE  status'[r] = status[r] /\ Settled(r)'
<1>1. PICK todo : todo = action[a].todo
  OBVIOUS
<1>2. lock \in [Records -> Actors \cup {None}] /\ action \in [Actors -> Request]
  BY DEF LedgerInv, LedgerTypeOK
<1>3. todo \in Seq(Periods) /\ todo # <<>>
  BY <1>1, <1>2 DEF LockPeriod, Request
<1>4. Head(todo) \in ToSet(todo) /\ ToSet(Tail(todo)) \subseteq ToSet(todo)
  <2>1. DOMAIN todo = 1..Len(todo) /\ Len(todo) \in Nat /\ Len(todo) > 0
    BY <1>3
  <2>2. Head(todo) = todo[1] /\ 1 \in DOMAIN todo
    BY <1>3, <2>1
  <2>3. \A k \in DOMAIN Tail(todo) : Tail(todo)[k] = todo[k + 1] /\ k + 1 \in DOMAIN todo
    BY <1>3, <2>1
  <2>4. QED
    BY <2>2, <2>3 DEF ToSet
<1>5. /\ UNCHANGED status /\ action'[a] = [action[a] EXCEPT !.todo = Tail(@)]
      /\ lock' = [lock EXCEPT ![Head(todo)] = a]
      /\ \A b \in Actors \ {a} : action'[b] = action[b]
  BY <1>1, <1>2 DEF LockPeriod
<1>6. /\ action'[a].record = action[a].record /\ action'[a].op = action[a].op
      /\ action'[a].todo = Tail(todo)
  BY <1>1, <1>2, <1>5 DEF Request
<1>7. (lock'[r] = a => lock[r] = a \/ r = Head(todo))
      /\ \A b \in Actors \ {a} : lock'[r] = b => lock[r] = b
  BY <1>2, <1>5
<1>8. Concerns(a, r)' => Concerns(a, r)
  <2>1. ToSet(action[a].todo)' = ToSet(Tail(todo))
    BY <1>6 DEF ToSet
  <2>2. QED
    BY <1>1, <1>4, <1>6, <1>7, <2>1 DEF Concerns, Writes
<1>9. Written(a, r)' = Written(a, r)
  BY <1>6 DEF Written
<1>10. QED
  BY <1>5, <1>7, <1>8, <1>9, StaysSettled DEF Settled, Concerns

\* The end of the loop changes nothing.
LEMMA SettledPeriodsDone ==
    ASSUME LedgerInv, NEW r \in Records, Settled(r), NEW a \in Actors, PeriodsDone(a)
    PROVE  status'[r] = status[r] /\ Settled(r)'
<1>1. action \in [Actors -> Request] /\ UNCHANGED <<status, lock>>
  BY DEF LedgerInv, LedgerTypeOK, PeriodsDone
<1>2. /\ action'[a] = [action[a] EXCEPT !.pc = "update"]
      /\ \A b \in Actors \ {a} : action'[b] = action[b]
  BY <1>1 DEF PeriodsDone, Goto
<1>3. /\ action'[a].record = action[a].record /\ action'[a].op = action[a].op
      /\ action'[a].todo = action[a].todo
  BY <1>1, <1>2 DEF Request
<1>4. Concerns(a, r)' => Concerns(a, r)
  BY <1>1, <1>3 DEF Concerns, Writes
<1>5. Written(a, r)' = Written(a, r)
  BY <1>3 DEF Written
<1>6. QED
  BY <1>1, <1>2, <1>4, <1>5, StaysSettled DEF Settled, Concerns

\* Who writes a settled record writes what is there.
LEMMA SettledUpdate ==
    ASSUME LedgerInv, NEW r \in Records, Settled(r), NEW a \in Actors, Update(a)
    PROVE  status'[r] = status[r] /\ Settled(r)'
<1>1. PICK q : q = action[a].record
  OBVIOUS
<1>2. /\ lock \in [Records -> Actors \cup {None}] /\ action \in [Actors -> Request]
      /\ status \in [Records -> Statuses \cup {None}]
  BY DEF LedgerInv, LedgerTypeOK
<1>3. action[a].pc = "update" /\ q \in Records
  BY <1>1, Acting DEF Update
<1>4. q = r => action[a].op.to = status[r]
  BY <1>1 DEF Settled, Written
<1>5. CASE action[a].op.name = "transition"
  <2>1. /\ status' = [status EXCEPT ![q] = action[a].op.to] /\ UNCHANGED lock
        /\ action' = [action EXCEPT ![a] = Idle]
    BY <1>1, <1>5 DEF Update
  <2>2. status'[r] = status[r]
    BY <1>2, <1>3, <1>4, <2>1
  <2>3. lock[r] # a
    BY <1>3, <1>5, Acting DEF Holds
  <2>4. action'[a] = Idle /\ \A b \in Actors \ {a} : action'[b] = action[b]
    BY <1>2, <2>1
  <2>5. ~Concerns(a, r)'
    BY <2>1, <2>3, <2>4, EndedConcernsNothing
  <2>6. QED
    BY <2>1, <2>2, <2>4, <2>5, StaysSettled
<1>6. CASE action[a].op.name # "transition"
  <2>1. /\ lock' = [lock EXCEPT ![q] = a] /\ UNCHANGED status
        /\ action' = [action EXCEPT ![a].pc = "commit"]
    BY <1>1, <1>6 DEF Update, Goto
  <2>2. /\ action'[a] = [action[a] EXCEPT !.pc = "commit"]
        /\ \A b \in Actors \ {a} : action'[b] = action[b]
    BY <1>2, <2>1
  <2>3. /\ action'[a].record = action[a].record /\ action'[a].op = action[a].op
        /\ action'[a].todo = action[a].todo
    BY <1>2, <2>2 DEF Request
  <2>4. (lock'[r] = a => lock[r] = a \/ r = q) /\ \A b \in Actors \ {a} : lock'[r] = b => lock[r] = b
    BY <1>2, <1>3, <2>1
  <2>5. Concerns(a, r)' => Concerns(a, r)
    BY <1>1, <2>3, <2>4 DEF Concerns, Writes
  <2>6. Written(a, r)' = Written(a, r)
    BY <2>3 DEF Written
  <2>7. QED
    BY <2>1, <2>2, <2>4, <2>5, <2>6, StaysSettled DEF Settled, Concerns
<1>7. QED
  BY <1>5, <1>6

\* So does a transaction that commits.
LEMMA SettledCommit ==
    ASSUME LedgerInv, NEW r \in Records, Settled(r), NEW a \in Actors, Commit(a) \/ Rollback(a)
    PROVE  status'[r] = status[r] /\ Settled(r)'
<1>1. lock \in [Records -> Actors \cup {None}] /\ action \in [Actors -> Request]
  BY DEF LedgerInv, LedgerTypeOK
<1>2. lock'[r] # a /\ \A b \in Actors \ {a} : lock'[r] = b <=> lock[r] = b
  BY <1>1, Released DEF Commit, Rollback
<1>3. action'[a] = Idle /\ \A b \in Actors \ {a} : action'[b] = action[b]
  BY <1>1 DEF Commit, Rollback
<1>4. r \in Writes(a) => Written(a, r) = status[r]
  BY DEF Settled
<1>5. status'[r] = status[r]
  BY <1>4 DEF Commit, Rollback
<1>6. ~Concerns(a, r)'
  BY <1>2, <1>3, EndedConcernsNothing
<1>7. QED
  BY <1>2, <1>3, <1>5, <1>6, StaysSettled

\* A final status is for ever, for any number of concurrent requests, unless a
\* request that has read an earlier one is still to write.
THEOREM FinalStatusIsKept == LedgerSpec => FinalUnlessOverlapped
<1>1. LedgerInv /\ [LedgerNext]_ledgerVars =>
        [\A r \in Records : Settled(r) => status'[r] = status[r] /\ Settled(r)']_ledgerVars
  <2>1. SUFFICES ASSUME LedgerInv, LedgerNext, NEW r \in Records, Settled(r)
                 PROVE  status'[r] = status[r] /\ Settled(r)'
    OBVIOUS
  <2>2. PICK a \in Actors : Get(a) \/ Step(a) \/ Write(a) \/ Fail(a)
    BY <2>1 DEF LedgerNext
  <2>3. DeadlockDetected(a) \/ Fail(a) => Rollback(a)
    BY Zenon DEF DeadlockDetected, Fail
  <2>4. QED
    BY <2>1, <2>2, <2>3, SettledGet, SettledCreateReversal, SettledQuery, SettledLockPeriod,
       SettledPeriodsDone, SettledUpdate, SettledCommit DEF Step, Write
<1>2. QED
  BY <1>1, LedgerInvHolds, PTL DEF LedgerSpec, FinalUnlessOverlapped
=============================================================================
