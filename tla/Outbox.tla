------------------------------- MODULE Outbox -------------------------------
(***************************************************************************)
(* The domain event outbox (awo/events/outbox/relay.go): OutboxWriter that *)
(* business transactions publish through, and one Relay goroutine per      *)
(* server instance that polls events_outbox and calls the subscribers.     *)
(*                                                                         *)
(* Instances exclude each other with a session-level advisory lock of      *)
(* PostgreSQL: it belongs to the connection of the poll and is released by *)
(* the deferred unlock or when that connection is lost.                    *)
(***************************************************************************)
EXTENDS Integers, Sequences, FiniteSets

CONSTANTS
    Instances,      \* server processes, each running one relay
    Events,         \* domain events; each has its causing transaction
    Subscribers,    \* registered handlers
    Typed,          \* Typed[e]: subscribers[e.Type], in registration order
    Wildcard,       \* subscribers[""], in registration order
    Times,          \* values of OccurredAt
    None,           \* no row, no holder, no event
    MaxAttempts,    \* delivery attempts before a row is ignored
    BatchLimit,     \* LIMIT of the poll query
    MaxFaults       \* bound on crashes, lost connections and failed statements

\* A row of events_outbox.
Row == [at: Times, delivered: BOOLEAN, attempts: Nat]

ASSUME OutboxAssumption ==
    /\ MaxAttempts \in Nat \ {0}
    /\ BatchLimit \in Nat \ {0}
    /\ MaxFaults \in Nat
    /\ Times \subseteq Nat
    /\ Typed \in [Events -> Seq(Subscribers)]
    /\ Wildcard \in Seq(Subscribers)
    /\ None \notin Instances \cup Events
    /\ None \notin Row

VARIABLES
    txn,        \* txn[e]: the business transaction that causes e
    outbox,     \* outbox[e]: the row of events_outbox, or None
    lock,       \* the instance whose connection holds the advisory lock
    relay,      \* relay[i]: program counter and locals of the poll of i
    handled,    \* pairs <<s, e>>: HandleEvent of s has returned nil for e
    faults      \* infrastructure faults so far

outboxVars == <<txn, outbox, lock, relay, handled, faults>>

-----------------------------------------------------------------------------
(* Types *)

\* deliver dispatches to the type-specific subscribers, then to the wildcards.
Chain(e) == Typed[e] \o Wildcard

Handlers(e) == {Chain(e)[n] : n \in DOMAIN Chain(e)}

Poll == [pc: {"sleep", "query", "deliver", "ok", "failed", "unlock"},
         batch: SUBSET Events,      \* toDeliver, without the events done
         event: Events \cup {None}, \* the event being delivered
         next: Nat \ {0},           \* index in Chain of its next handler
         connected: BOOLEAN]        \* the connection of the poll is alive

Asleep == [pc |-> "sleep", batch |-> {}, event |-> None, next |-> 1, connected |-> TRUE]

OutboxTypeOK ==
    /\ txn \in [Events -> {"none", "open", "committed", "aborted"}]
    /\ outbox \in [Events -> Row \cup {None}]
    /\ lock \in Instances \cup {None}
    /\ relay \in [Instances -> Poll]
    /\ handled \in SUBSET (Subscribers \X Events)
    /\ faults \in Nat

OutboxInit ==
    /\ txn = [e \in Events |-> "none"]
    /\ outbox = [e \in Events |-> None]
    /\ lock = None
    /\ relay = [i \in Instances |-> Asleep]
    /\ handled = {}
    /\ faults = 0

-----------------------------------------------------------------------------
(* Publishing *)

BeginTx(e) ==
    /\ txn[e] = "none"
    /\ txn' = [txn EXCEPT ![e] = "open"]
    /\ UNCHANGED <<outbox, lock, relay, handled, faults>>

\* Publish acquires a connection of its own from the pool and inserts the row
\* there, with autocommit: the row does not wait for the causing transaction.
\* OccurredAt is the caller's if set, so rows appear in any order of time.
Publish(e, t) ==
    /\ txn[e] = "open"
    /\ outbox[e] = None
    /\ outbox' = [outbox EXCEPT ![e] = [at |-> t, delivered |-> FALSE, attempts |-> 0]]
    /\ UNCHANGED <<txn, lock, relay, handled, faults>>

\* The action handler returns: its transaction commits, or is rolled back
\* because a later statement or hook failed (or Publish itself did).
EndTx(e) ==
    /\ txn[e] = "open"
    /\ \E outcome \in {"committed", "aborted"} : txn' = [txn EXCEPT ![e] = outcome]
    /\ UNCHANGED <<outbox, lock, relay, handled, faults>>

-----------------------------------------------------------------------------
(* One poll *)

Polls(i, p) == relay' = [relay EXCEPT ![i] = p]

\* Infrastructure may still misbehave.
Faulty == faults < MaxFaults

Fault == Faulty /\ faults' = faults + 1

\* The row locks of FOR UPDATE SKIP LOCKED as the only exclusion: they end
\* with the autocommitted SELECT.
PollLock_RowLocksOnly(i) ==
    /\ relay[i].pc = "sleep"
    /\ lock' = i
    /\ Polls(i, [Asleep EXCEPT !.pc = "query"])
    /\ UNCHANGED <<txn, outbox, handled, faults>>

\* pg_try_advisory_lock on a fresh connection; when another session holds the
\* lock the poll returns, and the next tick tries again.
PollLock(i) ==
    /\ relay[i].pc = "sleep"
    /\ lock = None
    /\ lock' = i
    /\ Polls(i, [Asleep EXCEPT !.pc = "query"])
    /\ UNCHANGED <<txn, outbox, handled, faults>>

\* WHERE delivered_at IS NULL AND attempts < MaxAttempts
Pending(e) ==
    /\ outbox[e] # None
    /\ ~outbox[e].delivered
    /\ outbox[e].attempts < MaxAttempts

\* ORDER BY occurred_at ASC LIMIT BatchLimit; equal times in any order.
Selectable(B) ==
    /\ \A e \in B : Pending(e)
    /\ Cardinality(B) <= BatchLimit
    /\ \A e \in Events \ B : Pending(e) =>
        /\ Cardinality(B) = BatchLimit
        /\ \A b \in B : outbox[b].at <= outbox[e].at

\* The SELECT.  A failed one ends the poll.
PollQuery(i) ==
    /\ relay[i].pc = "query"
    /\ \/ /\ relay[i].connected
          /\ \E B \in SUBSET Events :
                /\ Selectable(B)
                /\ Polls(i, [relay[i] EXCEPT !.pc = "deliver", !.batch = B])
          /\ UNCHANGED faults
       \/ /\ IF relay[i].connected THEN Fault ELSE UNCHANGED faults
          /\ Polls(i, [relay[i] EXCEPT !.pc = "unlock"])
    /\ UNCHANGED <<txn, outbox, lock, handled>>

\* The loop takes the next row of the batch, or ends.
NextEvent(i) ==
    LET B == relay[i].batch IN
    /\ relay[i].pc = "deliver"
    /\ relay[i].event = None
    /\ IF B = {}
       THEN Polls(i, [relay[i] EXCEPT !.pc = "unlock"])
       ELSE \E e \in B :
              /\ \A b \in B : outbox[e].at <= outbox[b].at
              /\ Polls(i, [relay[i] EXCEPT !.event = e, !.next = 1])
    /\ UNCHANGED <<txn, outbox, lock, handled, faults>>

\* deliver as if only type-specific subscribers existed.
AllHandled_TypedOnly(i) == relay[i].next > Len(Typed[relay[i].event])

AllHandled(i) == relay[i].next > Len(Chain(relay[i].event))

\* deliver calls the next handler; an error stops the chain.
CallHandler(i) ==
    LET e == relay[i].event  n == relay[i].next IN
    /\ relay[i].pc = "deliver"
    /\ e # None
    /\ ~AllHandled(i)
    /\ \/ /\ handled' = handled \cup {<<Chain(e)[n], e>>}
          /\ Polls(i, [relay[i] EXCEPT !.next = n + 1])
       \/ Polls(i, [relay[i] EXCEPT !.pc = "failed"]) /\ UNCHANGED handled
    /\ UNCHANGED <<txn, outbox, lock, faults>>

\* The last handler has returned nil.
Delivered(i) ==
    /\ relay[i].pc = "deliver"
    /\ relay[i].event # None
    /\ AllHandled(i)
    /\ Polls(i, [relay[i] EXCEPT !.pc = "ok"])
    /\ UNCHANGED <<txn, outbox, lock, handled, faults>>

\* The loop goes on with the rest of the batch.
Done(i) == [relay[i] EXCEPT !.pc = "deliver", !.event = None,
                            !.batch = @ \ {relay[i].event}]

\* The UPDATE after a delivery or a failed one.  Its error is ignored.
UpdateRow(i, row) ==
    /\ \/ /\ relay[i].connected
          /\ outbox' = [outbox EXCEPT ![relay[i].event] = row]
          /\ UNCHANGED faults
       \/ /\ IF relay[i].connected THEN Fault ELSE UNCHANGED faults
          /\ UNCHANGED outbox
    /\ Polls(i, Done(i))
    /\ UNCHANGED <<txn, lock, handled>>

MarkDelivered(i) ==
    LET row == outbox[relay[i].event] IN
    /\ relay[i].pc = "ok"
    /\ UpdateRow(i, [row EXCEPT !.delivered = TRUE, !.attempts = @ + 1])

\* A failed delivery that forgets to count the attempt.
MarkFailed_NotCounted(i) ==
    relay[i].pc = "failed" /\ UpdateRow(i, outbox[relay[i].event])

\* A retry budget counted down from the column's default of zero.
MarkFailed_CountsDown(i) ==
    LET row == outbox[relay[i].event] IN
    /\ relay[i].pc = "failed"
    /\ UpdateRow(i, [row EXCEPT !.attempts = @ - 1])

MarkFailed(i) ==
    LET row == outbox[relay[i].event] IN
    /\ relay[i].pc = "failed"
    /\ UpdateRow(i, [row EXCEPT !.attempts = @ + 1])

\* The deferred pg_advisory_unlock and the release of the connection.
Unlock(i) ==
    /\ relay[i].pc = "unlock"
    /\ lock' = IF relay[i].connected THEN None ELSE lock
    /\ Polls(i, Asleep)
    /\ UNCHANGED <<txn, outbox, handled, faults>>

-----------------------------------------------------------------------------
(* Faults *)

\* The connection breaks under a poll: PostgreSQL ends the session and drops
\* its lock, while the relay goes on calling handlers.
LoseConnection(i) ==
    /\ relay[i].pc # "sleep"
    /\ relay[i].connected
    /\ Fault
    /\ lock' = None
    /\ Polls(i, [relay[i] EXCEPT !.connected = FALSE])
    /\ UNCHANGED <<txn, outbox, handled>>

\* The server process dies and restarts.
Crash(i) ==
    /\ relay[i].pc # "sleep"
    /\ Fault
    /\ lock' = IF relay[i].connected THEN None ELSE lock
    /\ Polls(i, Asleep)
    /\ UNCHANGED <<txn, outbox, handled>>

-----------------------------------------------------------------------------
(* Specification *)

RelayStep(i) ==
    \/ PollLock(i) \/ PollQuery(i) \/ NextEvent(i) \/ CallHandler(i) \/ Delivered(i)
    \/ MarkDelivered(i) \/ MarkFailed(i) \/ Unlock(i)

OutboxNext ==
    \/ \E e \in Events : BeginTx(e) \/ EndTx(e) \/ \E t \in Times : Publish(e, t)
    \/ \E i \in Instances : RelayStep(i) \/ LoseConnection(i) \/ Crash(i)

OutboxSpec == OutboxInit /\ [][OutboxNext]_outboxVars

\* Every server runs its relay: the ticker fires again after each poll and
\* handlers return.
OutboxFairSpec == OutboxSpec /\ \A i \in Instances : WF_outboxVars(RelayStep(i))

-----------------------------------------------------------------------------
(* Properties *)

\* At-least-once delivery: a row is marked delivered only when every subscriber
\* of the event, typed or wildcard, has handled it, whichever instance marked
\* it and however many polls, crashes and lost connections came before.
DeliveredMeansHandled ==
    \A e \in Events : outbox[e] # None /\ outbox[e].delivered =>
        \A s \in Handlers(e) : <<s, e>> \in handled

\* While its connection lives, an instance is alone between lock and unlock,
\* so the rows it still has to deliver are as pending as when it read them: no
\* live instance repeats a delivery that another has recorded.
NoStaleBatch ==
    \A i \in Instances : relay[i].pc # "sleep" /\ relay[i].connected =>
        /\ lock = i
        /\ \A e \in relay[i].batch : Pending(e)

\* No published event is forgotten: it is delivered, or MaxAttempts deliveries
\* have failed, however the instances compete for the lock and although
\* batches are limited and failing events are retried first.
EventuallySettled ==
    \A e \in Events : outbox[e] # None ~> outbox[e] # None /\ ~Pending(e)

\* The promise of package events.
Status(e) ==
    CASE outbox[e] = None -> "absent"
      [] outbox[e] # None /\ outbox[e].delivered -> "delivered"
      [] Pending(e) -> "pending"
      [] OTHER -> "exhausted"

Queue == INSTANCE EventQueue WITH
    status <- [e \in Events |-> Status(e)], seen <- handled, Interested <- Handlers

\* The relay implements the queue of package events: in particular no crash,
\* lost connection or second instance makes a settled event pending again.
ImplementsQueue == Queue!QueueSpec

\* events.go: events are published inside the database transaction that caused
\* them, so nothing is handed to a subscriber for a transaction that did not
\* commit.
PublishedByCommit ==
    \A s \in Subscribers, e \in Events : <<s, e>> \in handled => txn[e] = "committed"
=============================================================================
