---------------------------- MODULE OutboxProofs ----------------------------
(***************************************************************************)
(* Proofs about Outbox for any instances, events, subscribers and bounds.  *)
(*                                                                         *)
(* That a delivered row has been handled is not inductive: the UPDATE that *)
(* marks it comes steps after the handlers, so what a poll has done so far *)
(* must be known at each of its program points.  That a live batch is      *)
(* still pending rests on the advisory lock.                               *)
(***************************************************************************)
EXTENDS Outbox, TLAPS

\* What is known of a poll p of instance i at every program point.
PollPoint(p) ==
    /\ p.pc = "query" => p.event = None
    /\ p.pc \in {"ok", "failed"} => p.event # None
    /\ p.event # None => p.event \in p.batch
    /\ \A e \in p.batch : outbox[e] # None

\* The handlers before the next one have handled the event, all of them when
\* the poll is about to mark the row.
PollProgress(p) ==
    /\ p.event # None =>
        \A n \in DOMAIN Chain(p.event) :
            n < p.next => <<Chain(p.event)[n], p.event>> \in handled
    /\ p.pc = "ok" => \A s \in Handlers(p.event) : <<s, p.event>> \in handled

\* A poll with a live connection has the advisory lock, and its batch is fresh.
PollLive(i, p) ==
    p.pc # "sleep" /\ p.connected => lock = i /\ \A e \in p.batch : Pending(e)

\* The inductive invariant.
OutboxInv ==
    /\ OutboxTypeOK
    /\ DeliveredMeansHandled
    /\ \A i \in Instances :
        PollPoint(relay[i]) /\ PollProgress(relay[i]) /\ PollLive(i, relay[i])

-----------------------------------------------------------------------------
(* Operators *)

\* The chain of an event is a sequence of subscribers.
LEMMA ChainType == ASSUME NEW e \in Events PROVE Chain(e) \in Seq(Subscribers)
BY OutboxAssumption DEF Chain

\* Marking and counting make a row of a row.
LEMMA MarkedRow ==
    ASSUME NEW r \in Row, NEW marked,
           marked = [r EXCEPT !.delivered = TRUE, !.attempts = @ + 1]
    PROVE  /\ marked \in Row /\ marked.delivered = TRUE
           /\ marked.at = r.at /\ marked.attempts = r.attempts + 1
<1>1. PICK mid : mid = [r EXCEPT !.delivered = TRUE]
  OBVIOUS
<1>2. mid \in Row /\ mid.delivered = TRUE /\ mid.at = r.at /\ mid.attempts = r.attempts
  BY <1>1 DEF Row
<1>3. marked = [mid EXCEPT !.attempts = @ + 1]
  BY <1>1
<1>4. QED
  BY <1>2, <1>3 DEF Row

\* A relay that sleeps has no batch and no event.
LEMMA AsleepPoll ==
    Asleep \in Poll /\ Asleep.pc = "sleep" /\ Asleep.batch = {} /\ Asleep.event = None
BY DEF Asleep, Poll

\* A poll changes only its own record.
LEMMA PollsOwn ==
    ASSUME relay \in [Instances -> Poll], NEW i \in Instances, NEW p \in Poll, Polls(i, p)
    PROVE  /\ relay' \in [Instances -> Poll]
           /\ relay'[i] = p
           /\ \A j \in Instances : j # i => relay'[j] = relay[j]
BY DEF Polls

\* While a poll of i has a live connection nobody else's does.
LEMMA LiveAlone ==
    ASSUME OutboxInv, NEW i \in Instances, relay[i].pc # "sleep", relay[i].connected,
           NEW j \in Instances, j # i, relay[j].pc # "sleep"
    PROVE  ~relay[j].connected
BY DEF OutboxInv, PollLive

\* Initially nothing is published and every relay sleeps.
LEMMA InitOutbox == OutboxInit => OutboxInv
<1>1. SUFFICES ASSUME OutboxInit PROVE OutboxInv
  OBVIOUS
<1>2. Asleep \in Poll
  BY AsleepPoll
<1>3. OutboxTypeOK /\ DeliveredMeansHandled
  BY <1>1, <1>2 DEF OutboxInit, OutboxTypeOK, DeliveredMeansHandled
<1>4. ASSUME NEW i \in Instances
      PROVE  PollPoint(relay[i]) /\ PollProgress(relay[i]) /\ PollLive(i, relay[i])
  BY <1>1, AsleepPoll DEF OutboxInit, PollPoint, PollProgress, PollLive
<1>5. QED
  BY <1>3, <1>4 DEF OutboxInv

-----------------------------------------------------------------------------
(* Steps *)

\* Transactions do not touch what the invariant speaks of.
LEMMA StepTx ==
    ASSUME OutboxInv, NEW e \in Events, BeginTx(e) \/ EndTx(e)
    PROVE  OutboxInv'
<1>1. UNCHANGED <<outbox, lock, relay, handled, faults>>
  BY DEF BeginTx, EndTx
<1>2. txn' \in [Events -> {"none", "open", "committed", "aborted"}]
  BY DEF OutboxInv, OutboxTypeOK, BeginTx, EndTx
<1>3. QED
  BY <1>1, <1>2
  DEF OutboxInv, OutboxTypeOK, DeliveredMeansHandled, PollPoint, PollProgress, PollLive, Pending

\* A row appears where there was none, so in nobody's batch.
LEMMA StepPublish ==
    ASSUME OutboxInv, NEW e \in Events, NEW t \in Times, Publish(e, t)
    PROVE  OutboxInv'
<1>1. [at |-> t, delivered |-> FALSE, attempts |-> 0] \in Row
  BY DEF Row
<1>2. /\ outbox[e] = None /\ outbox'[e].delivered = FALSE /\ outbox'[e] # None
      /\ \A d \in Events : d # e => outbox'[d] = outbox[d]
  BY <1>1, OutboxAssumption DEF OutboxInv, OutboxTypeOK, Publish
<1>3. UNCHANGED <<txn, lock, relay, handled, faults>>
  BY DEF Publish
<1>4. OutboxTypeOK'
  BY <1>1, <1>3 DEF OutboxInv, OutboxTypeOK, Publish
<1>5. DeliveredMeansHandled'
  BY <1>2, <1>3 DEF OutboxInv, DeliveredMeansHandled
<1>6. ASSUME NEW i \in Instances
      PROVE  (PollPoint(relay[i]) /\ PollProgress(relay[i]) /\ PollLive(i, relay[i]))'
  <2>1. relay[i] \in Poll /\ e \notin relay[i].batch
    BY <1>2 DEF OutboxInv, OutboxTypeOK, PollPoint
  <2>2. QED
    BY <1>2, <1>3, <2>1 DEF OutboxInv, PollPoint, PollProgress, PollLive, Pending, Poll
<1>7. QED
  BY <1>4, <1>5, <1>6 DEF OutboxInv

\* A step of the poll of i that leaves the rows alone keeps the invariant if
\* its new record is sound, and leaves the lock alone or has it to itself.
LEMMA StepPoll ==
    ASSUME OutboxInv, NEW i \in Instances, NEW p \in Poll, Polls(i, p),
           UNCHANGED <<txn, outbox>>, faults' \in Nat,
           handled \subseteq handled', handled' \in SUBSET (Subscribers \X Events),
           lock' \in Instances \cup {None},
           lock' = lock \/ \A j \in Instances \ {i} : relay[j].pc # "sleep" => ~relay[j].connected,
           (PollPoint(p) /\ PollProgress(p) /\ PollLive(i, p))'
    PROVE  OutboxInv'
<1>1. /\ relay' \in [Instances -> Poll] /\ relay'[i] = p
      /\ \A j \in Instances : j # i => relay'[j] = relay[j]
  BY PollsOwn DEF OutboxInv, OutboxTypeOK
<1>2. OutboxTypeOK' /\ DeliveredMeansHandled'
  BY <1>1 DEF OutboxInv, OutboxTypeOK, DeliveredMeansHandled
<1>3. ASSUME NEW j \in Instances
      PROVE  (PollPoint(relay[j]) /\ PollProgress(relay[j]) /\ PollLive(j, relay[j]))'
  <2>1. CASE j = i
    BY <1>1, <2>1 DEF PollPoint, PollProgress, PollLive, Pending
  <2>2. CASE j # i
    BY <1>1, <2>2 DEF OutboxInv, PollPoint, PollProgress, PollLive, Pending
  <2>3. QED
    BY <2>1, <2>2
<1>4. QED
  BY <1>2, <1>3 DEF OutboxInv

\* The lock is free, so no other poll is live.
LEMMA StepPollLock ==
    ASSUME OutboxInv, NEW i \in Instances, PollLock(i)
    PROVE  OutboxInv'
<1>1. PICK p : p = [Asleep EXCEPT !.pc = "query"]
  OBVIOUS
<1>2. p \in Poll /\ p.pc = "query" /\ p.batch = {} /\ p.event = None
  BY <1>1, AsleepPoll DEF Poll
<1>3. Polls(i, p) /\ lock = None /\ lock' = i /\ UNCHANGED <<txn, outbox, handled, faults>>
  BY <1>1 DEF PollLock
<1>4. \A j \in Instances : relay[j].pc # "sleep" => ~relay[j].connected
  BY <1>3, OutboxAssumption DEF OutboxInv, PollLive
<1>5. (PollPoint(p) /\ PollProgress(p) /\ PollLive(i, p))'
  BY <1>2, <1>3 DEF PollPoint, PollProgress, PollLive
<1>6. faults \in Nat /\ handled \in SUBSET (Subscribers \X Events)
  BY DEF OutboxInv, OutboxTypeOK
<1>7. QED
  BY <1>2, <1>3, <1>4, <1>5, <1>6, StepPoll

\* The SELECT returns pending rows, or the poll ends.
LEMMA StepPollQuery ==
    ASSUME OutboxInv, NEW i \in Instances, PollQuery(i)
    PROVE  OutboxInv'
<1>1. /\ relay[i] \in Poll /\ relay[i].pc = "query" /\ relay[i].event = None
      /\ \A e \in relay[i].batch : outbox[e] # None
      /\ PollLive(i, relay[i])
  BY DEF OutboxInv, OutboxTypeOK, PollQuery, PollPoint
<1>2. /\ UNCHANGED <<txn, outbox, lock, handled>> /\ lock \in Instances \cup {None}
      /\ handled \in SUBSET (Subscribers \X Events) /\ faults' \in Nat
  <2>1. faults' = faults \/ faults' = faults + 1
    BY DEF PollQuery, Fault
  <2>2. UNCHANGED <<txn, outbox, lock, handled>>
    BY DEF PollQuery
  <2>3. QED
    BY <2>1, <2>2 DEF OutboxInv, OutboxTypeOK
<1>3. ASSUME NEW B \in SUBSET Events, Selectable(B),
             Polls(i, [relay[i] EXCEPT !.pc = "deliver", !.batch = B])
      PROVE  OutboxInv'
  <2>1. PICK p : p = [relay[i] EXCEPT !.pc = "deliver", !.batch = B]
    OBVIOUS
  <2>2. /\ p \in Poll /\ p.pc = "deliver" /\ p.batch = B
        /\ p.event = None /\ p.connected = relay[i].connected
    BY <1>1, <2>1 DEF Poll
  <2>3. (PollPoint(p) /\ PollProgress(p) /\ PollLive(i, p))'
    BY <1>1, <1>2, <1>3, <2>2 DEF PollPoint, PollProgress, PollLive, Selectable, Pending
  <2>4. QED
    BY <1>2, <1>3, <2>1, <2>2, <2>3, StepPoll
<1>4. CASE Polls(i, [relay[i] EXCEPT !.pc = "unlock"])
  <2>1. PICK p : p = [relay[i] EXCEPT !.pc = "unlock"]
    OBVIOUS
  <2>2. /\ p \in Poll /\ p.pc = "unlock" /\ p.batch = relay[i].batch
        /\ p.event = None /\ p.connected = relay[i].connected
    BY <1>1, <2>1 DEF Poll
  <2>3. (PollPoint(p) /\ PollProgress(p) /\ PollLive(i, p))'
    BY <1>1, <1>2, <2>2 DEF PollPoint, PollProgress, PollLive, Pending
  <2>4. QED
    BY <1>2, <1>4, <2>1, <2>2, <2>3, StepPoll
<1>5. QED
  BY <1>3, <1>4 DEF PollQuery

\* A new event begins with no handler called.
LEMMA StepNextEvent ==
    ASSUME OutboxInv, NEW i \in Instances, NextEvent(i)
    PROVE  OutboxInv'
<1>1. /\ relay[i] \in Poll /\ relay[i].pc = "deliver" /\ relay[i].event = None
      /\ \A e \in relay[i].batch : outbox[e] # None
      /\ PollLive(i, relay[i])
  BY DEF OutboxInv, OutboxTypeOK, NextEvent, PollPoint
<1>2. /\ UNCHANGED <<txn, outbox, lock, handled>> /\ lock \in Instances \cup {None}
      /\ handled \in SUBSET (Subscribers \X Events) /\ faults' \in Nat
  BY DEF OutboxInv, OutboxTypeOK, NextEvent
<1>3. CASE Polls(i, [relay[i] EXCEPT !.pc = "unlock"])
  <2>1. PICK p : p = [relay[i] EXCEPT !.pc = "unlock"]
    OBVIOUS
  <2>2. /\ p \in Poll /\ p.pc = "unlock" /\ p.batch = relay[i].batch
        /\ p.event = None /\ p.connected = relay[i].connected
    BY <1>1, <2>1 DEF Poll
  <2>3. (PollPoint(p) /\ PollProgress(p) /\ PollLive(i, p))'
    BY <1>1, <1>2, <2>2 DEF PollPoint, PollProgress, PollLive, Pending
  <2>4. QED
    BY <1>2, <1>3, <2>1, <2>2, <2>3, StepPoll
<1>4. ASSUME NEW e \in relay[i].batch, Polls(i, [relay[i] EXCEPT !.event = e, !.next = 1])
      PROVE  OutboxInv'
  <2>1. PICK p : p = [relay[i] EXCEPT !.event = e, !.next = 1]
    OBVIOUS
  <2>2. e \in Events /\ 1 \in Nat \ {0}
    BY <1>1 DEF Poll
  <2>3. /\ p \in Poll /\ p.pc = "deliver" /\ p.batch = relay[i].batch
        /\ p.event = e /\ p.next = 1 /\ p.connected = relay[i].connected
    BY <1>1, <2>1, <2>2 DEF Poll
  <2>4. \A n \in DOMAIN Chain(e) : ~(n < 1)
    BY <2>2, ChainType
  <2>5. (PollPoint(p) /\ PollProgress(p) /\ PollLive(i, p))'
    BY <1>1, <1>2, <2>3, <2>4 DEF PollPoint, PollProgress, PollLive, Pending
  <2>6. QED
    BY <1>2, <1>4, <2>1, <2>3, <2>5, StepPoll
<1>5. QED
  BY <1>3, <1>4 DEF NextEvent

\* One more handler has handled the event, or the delivery has failed.
LEMMA StepCallHandler ==
    ASSUME OutboxInv, NEW i \in Instances, CallHandler(i)
    PROVE  OutboxInv'
<1> DEFINE e == relay[i].event
           n == relay[i].next
<1>1. /\ relay[i] \in Poll /\ relay[i].pc = "deliver" /\ e \in relay[i].batch
      /\ e \in Events /\ e # None /\ n \in Nat \ {0}
      /\ PollPoint(relay[i]) /\ PollProgress(relay[i]) /\ PollLive(i, relay[i])
  BY DEF OutboxInv, OutboxTypeOK, CallHandler, PollPoint, Poll
<1>2. /\ UNCHANGED <<txn, outbox, lock>> /\ lock \in Instances \cup {None}
      /\ handled \in SUBSET (Subscribers \X Events) /\ faults' \in Nat
  BY DEF OutboxInv, OutboxTypeOK, CallHandler
<1>3. Chain(e) \in Seq(Subscribers) /\ ~(n > Len(Chain(e)))
  BY <1>1, ChainType DEF CallHandler, AllHandled
<1>4. CASE handled' = handled \cup {<<Chain(e)[n], e>>}
           /\ Polls(i, [relay[i] EXCEPT !.next = n + 1])
  <2>1. PICK p : p = [relay[i] EXCEPT !.next = n + 1]
    OBVIOUS
  <2>2. /\ p \in Poll /\ p.pc = "deliver" /\ p.batch = relay[i].batch
        /\ p.event = e /\ p.next = n + 1 /\ p.connected = relay[i].connected
    BY <1>1, <2>1 DEF Poll
  <2>3. (PollPoint(p) /\ PollLive(i, p))'
    BY <1>1, <1>2, <2>2 DEF PollPoint, PollLive, Pending
  <2>4. ASSUME NEW k \in DOMAIN Chain(e), k < n + 1
        PROVE  <<Chain(e)[k], e>> \in handled'
    <3>1. k < n \/ k = n
      BY <1>1, <1>3, <2>4
    <3>2. QED
      BY <1>1, <1>4, <3>1 DEF PollProgress
  <2>5. PollProgress(p)'
    BY <2>2, <2>4 DEF PollProgress
  <2>6. handled' \in SUBSET (Subscribers \X Events)
    BY <1>1, <1>2, <1>3, <1>4
  <2>7. QED
    BY <1>2, <1>4, <2>1, <2>2, <2>3, <2>5, <2>6, StepPoll
<1>5. CASE Polls(i, [relay[i] EXCEPT !.pc = "failed"]) /\ UNCHANGED handled
  <2>1. PICK p : p = [relay[i] EXCEPT !.pc = "failed"]
    OBVIOUS
  <2>2. /\ p \in Poll /\ p.pc = "failed" /\ p.batch = relay[i].batch
        /\ p.event = e /\ p.next = n /\ p.connected = relay[i].connected
    BY <1>1, <2>1 DEF Poll
  <2>3. (PollPoint(p) /\ PollProgress(p) /\ PollLive(i, p))'
    BY <1>1, <1>2, <1>5, <2>2 DEF PollPoint, PollProgress, PollLive, Pending
  <2>4. QED
    BY <1>2, <1>5, <2>1, <2>2, <2>3, StepPoll
<1>6. QED
  BY <1>4, <1>5 DEF CallHandler

\* Every handler of the chain has been called when the last one has returned.
LEMMA StepDelivered ==
    ASSUME OutboxInv, NEW i \in Instances, Delivered(i)
    PROVE  OutboxInv'
<1> DEFINE e == relay[i].event
           n == relay[i].next
<1>1. /\ relay[i] \in Poll /\ relay[i].pc = "deliver" /\ e \in relay[i].batch
      /\ e \in Events /\ e # None /\ n \in Nat \ {0}
      /\ PollPoint(relay[i]) /\ PollProgress(relay[i]) /\ PollLive(i, relay[i])
  BY DEF OutboxInv, OutboxTypeOK, Delivered, PollPoint, Poll
<1>2. /\ UNCHANGED <<txn, outbox, lock, handled>> /\ lock \in Instances \cup {None}
      /\ handled \in SUBSET (Subscribers \X Events) /\ faults' \in Nat
  BY DEF OutboxInv, OutboxTypeOK, Delivered
<1>3. Chain(e) \in Seq(Subscribers) /\ n > Len(Chain(e))
  BY <1>1, ChainType DEF Delivered, AllHandled
<1>4. \A k \in DOMAIN Chain(e) : k < n
  BY <1>1, <1>3
<1>5. \A s \in Handlers(e) : <<s, e>> \in handled
  BY <1>1, <1>4 DEF Handlers, PollProgress
<1>6. PICK p : p = [relay[i] EXCEPT !.pc = "ok"]
  OBVIOUS
<1>7. /\ p \in Poll /\ p.pc = "ok" /\ p.batch = relay[i].batch
      /\ p.event = e /\ p.next = n /\ p.connected = relay[i].connected
  BY <1>1, <1>6 DEF Poll
<1>8. (PollPoint(p) /\ PollProgress(p) /\ PollLive(i, p))'
  BY <1>1, <1>2, <1>5, <1>7 DEF PollPoint, PollProgress, PollLive, Pending
<1>9. QED
  BY <1>2, <1>6, <1>7, <1>8, StepPoll DEF Delivered

\* The connection of the poll has the lock, so when the poll ends or loses it
\* the lock is free and nobody else is live.
LEMMA StepLeave ==
    ASSUME OutboxInv, NEW i \in Instances, NEW p \in Poll, Polls(i, p),
           relay[i].pc # "sleep", UNCHANGED <<txn, outbox, handled>>, faults' \in Nat,
           relay[i].connected => lock' = None,
           ~relay[i].connected => lock' = lock,
           p.pc = "sleep" \/ ~p.connected,
           PollPoint(p) /\ PollProgress(p)
    PROVE  OutboxInv'
<1>1. /\ relay[i] \in Poll /\ lock \in Instances \cup {None}
      /\ handled \in SUBSET (Subscribers \X Events)
  BY DEF OutboxInv, OutboxTypeOK
<1>2. lock' \in Instances \cup {None}
  BY <1>1 DEF Poll
<1>3. lock' = lock \/ \A j \in Instances \ {i} : relay[j].pc # "sleep" => ~relay[j].connected
  BY LiveAlone
<1>4. (PollPoint(p) /\ PollProgress(p) /\ PollLive(i, p))'
  BY DEF PollPoint, PollProgress, PollLive
<1>5. QED
  BY <1>1, <1>2, <1>3, <1>4, StepPoll

\* The poll ends.
LEMMA StepUnlock ==
    ASSUME OutboxInv, NEW i \in Instances, Unlock(i) \/ Crash(i)
    PROVE  OutboxInv'
<1>1. PICK p : p = Asleep
  OBVIOUS
<1>2. p \in Poll /\ p.pc = "sleep" /\ p.event = None /\ p.batch = {}
  BY <1>1, AsleepPoll
<1>3. PollPoint(p) /\ PollProgress(p)
  BY <1>2 DEF PollPoint, PollProgress
<1>4. faults' = faults \/ faults' = faults + 1
  BY DEF Unlock, Crash, Fault
<1>5. faults' \in Nat
  BY <1>4 DEF OutboxInv, OutboxTypeOK
<1>6. /\ Polls(i, p) /\ relay[i].pc # "sleep" /\ UNCHANGED <<txn, outbox, handled>>
      /\ lock' = IF relay[i].connected THEN None ELSE lock
  BY <1>1 DEF Unlock, Crash
<1>7. QED
  BY <1>2, <1>3, <1>5, <1>6, StepLeave

\* The poll goes on without its connection.
LEMMA StepLoseConnection ==
    ASSUME OutboxInv, NEW i \in Instances, LoseConnection(i)
    PROVE  OutboxInv'
<1>1. relay[i] \in Poll /\ PollPoint(relay[i]) /\ PollProgress(relay[i])
  BY DEF OutboxInv, OutboxTypeOK
<1>2. PICK p : p = [relay[i] EXCEPT !.connected = FALSE]
  OBVIOUS
<1>3. /\ p \in Poll /\ p.pc = relay[i].pc /\ p.batch = relay[i].batch
      /\ p.event = relay[i].event /\ p.next = relay[i].next /\ ~p.connected
  BY <1>1, <1>2 DEF Poll
<1>4. PollPoint(p) /\ PollProgress(p)
  BY <1>1, <1>3 DEF PollPoint, PollProgress
<1>5. faults' \in Nat
  BY DEF OutboxInv, OutboxTypeOK, LoseConnection, Fault
<1>6. QED
  BY <1>2, <1>3, <1>4, <1>5, StepLeave DEF LoseConnection

\* A poll that updates a row is at an event of its batch, which has a row.
LEMMA AtEvent ==
    ASSUME OutboxInv, NEW i \in Instances, relay[i].pc \in {"ok", "failed"}
    PROVE  /\ relay[i] \in Poll /\ relay[i].event \in relay[i].batch
           /\ relay[i].event \in Events
           /\ outbox[relay[i].event] \in Row /\ outbox[relay[i].event] # None
<1>1. /\ relay[i] \in Poll /\ relay[i].event \in relay[i].batch
      /\ outbox[relay[i].event] # None
  BY DEF OutboxInv, OutboxTypeOK, PollPoint
<1>2. relay[i].event \in Events
  BY <1>1 DEF Poll
<1>3. outbox[relay[i].event] \in Row
  BY <1>1, <1>2 DEF OutboxInv, OutboxTypeOK
<1>4. QED
  BY <1>1, <1>2, <1>3

\* The UPDATE of a row by a live connection concerns nobody else's live batch,
\* and the event leaves the batch of the poll itself.
LEMMA StepUpdateRow ==
    ASSUME OutboxInv, NEW i \in Instances, relay[i].pc \in {"ok", "failed"},
           NEW row \in Row, UpdateRow(i, row),
           row.delivered =>
              \A s \in Handlers(relay[i].event) : <<s, relay[i].event>> \in handled
    PROVE  OutboxInv'
<1>1. PICK e : e = relay[i].event
  OBVIOUS
<1>2. relay[i] \in Poll /\ e \in relay[i].batch /\ e \in Events
  BY <1>1, AtEvent
<1>3. PICK p : p = Done(i)
  OBVIOUS
<1>4. /\ p \in Poll /\ p.pc = "deliver" /\ p.event = None
      /\ p.batch = relay[i].batch \ {e} /\ p.connected = relay[i].connected
  BY <1>1, <1>2, <1>3 DEF Done, Poll
<1>5. /\ PollPoint(relay[i]) /\ PollLive(i, relay[i]) /\ row # None
      /\ lock \in Instances \cup {None} /\ handled \in SUBSET (Subscribers \X Events)
      /\ outbox \in [Events -> Row \cup {None}]
  BY OutboxAssumption DEF OutboxInv, OutboxTypeOK
<1>6. Polls(i, p) /\ UNCHANGED <<txn, lock, handled>>
  BY <1>3 DEF UpdateRow
<1>7. faults' \in Nat
  <2>1. faults' = faults \/ faults' = faults + 1
    BY DEF UpdateRow, Fault
  <2>2. QED
    BY <2>1 DEF OutboxInv, OutboxTypeOK
<1>8. CASE UNCHANGED outbox
  <2>1. (PollPoint(p) /\ PollProgress(p) /\ PollLive(i, p))'
    BY <1>4, <1>5, <1>6, <1>8 DEF PollPoint, PollProgress, PollLive, Pending
  <2>2. QED
    BY <1>4, <1>5, <1>6, <1>7, <1>8, <2>1, StepPoll
<1>9. CASE relay[i].connected /\ outbox' = [outbox EXCEPT ![relay[i].event] = row]
  <2>1. outbox'[e] = row /\ \A d \in Events : d # e => outbox'[d] = outbox[d]
    BY <1>1, <1>2, <1>5, <1>9
  <2>2. /\ relay' \in [Instances -> Poll] /\ relay'[i] = p
        /\ \A j \in Instances : j # i => relay'[j] = relay[j]
    BY <1>4, <1>6, PollsOwn DEF OutboxInv, OutboxTypeOK
  <2>3. OutboxTypeOK'
    BY <1>2, <1>5, <1>6, <1>7, <1>9, <2>2 DEF OutboxInv, OutboxTypeOK
  <2>4. DeliveredMeansHandled'
    BY <1>1, <1>6, <2>1 DEF OutboxInv, DeliveredMeansHandled
  <2>5. \A d \in Events : outbox[d] # None => outbox'[d] # None
    BY <1>5, <2>1
  <2>6. (PollPoint(relay[i]) /\ PollProgress(relay[i]) /\ PollLive(i, relay[i]))'
    <3>1. \A d \in p.batch : d \in Events /\ d # e /\ d \in relay[i].batch
      BY <1>2, <1>4 DEF Poll
    <3>2. QED
      BY <1>4, <1>5, <1>6, <2>1, <2>2, <3>1, LiveAlone
      DEF PollPoint, PollProgress, PollLive, Pending
  <2>7. ASSUME NEW j \in Instances, j # i
        PROVE  (PollPoint(relay[j]) /\ PollProgress(relay[j]) /\ PollLive(j, relay[j]))'
    <3>1. relay[j].batch \subseteq Events /\ PollPoint(relay[j]) /\ PollProgress(relay[j])
      BY DEF OutboxInv, OutboxTypeOK, Poll
    <3>2. relay[j].pc # "sleep" => ~relay[j].connected
      BY <1>9, <2>7, LiveAlone
    <3>3. relay'[j] = relay[j]
      BY <2>2, <2>7
    <3>4. QED
      BY <1>6, <2>5, <3>1, <3>2, <3>3 DEF PollPoint, PollProgress, PollLive
  <2>8. QED
    BY <2>3, <2>4, <2>6, <2>7 DEF OutboxInv
<1>10. QED
  BY <1>8, <1>9 DEF UpdateRow

\* A row is marked delivered when all handlers have returned nil.
LEMMA StepMarkDelivered ==
    ASSUME OutboxInv, NEW i \in Instances, MarkDelivered(i)
    PROVE  OutboxInv'
<1>1. PICK row : row = [outbox[relay[i].event] EXCEPT !.delivered = TRUE, !.attempts = @ + 1]
  OBVIOUS
<1>2. relay[i].pc = "ok" /\ UpdateRow(i, row)
  BY <1>1 DEF MarkDelivered
<1>3. row \in Row
  BY <1>1, <1>2, AtEvent, MarkedRow
<1>4. \A s \in Handlers(relay[i].event) : <<s, relay[i].event>> \in handled
  BY <1>2 DEF OutboxInv, PollProgress
<1>5. QED
  BY <1>2, <1>3, <1>4, StepUpdateRow

\* A failed delivery leaves the row as undelivered as it was.
LEMMA StepMarkFailed ==
    ASSUME OutboxInv, NEW i \in Instances, MarkFailed(i)
    PROVE  OutboxInv'
<1>1. PICK row : row = [outbox[relay[i].event] EXCEPT !.attempts = @ + 1]
  OBVIOUS
<1>2. relay[i].pc = "failed" /\ UpdateRow(i, row)
  BY <1>1 DEF MarkFailed
<1>3. row \in Row /\ row.delivered = outbox[relay[i].event].delivered
  BY <1>1, <1>2, AtEvent DEF Row
<1>4. row.delivered =>
        \A s \in Handlers(relay[i].event) : <<s, relay[i].event>> \in handled
  BY <1>2, <1>3, AtEvent DEF OutboxInv, DeliveredMeansHandled
<1>5. QED
  BY <1>2, <1>3, <1>4, StepUpdateRow

\* Every step keeps the invariant.
LEMMA StepOutbox == OutboxInv /\ [OutboxNext]_outboxVars => OutboxInv'
<1>1. SUFFICES ASSUME OutboxInv, [OutboxNext]_outboxVars PROVE OutboxInv'
  OBVIOUS
<1>2. CASE UNCHANGED outboxVars
  BY <1>1, <1>2
  DEF outboxVars, OutboxInv, OutboxTypeOK, DeliveredMeansHandled, PollPoint, PollProgress,
      PollLive, Pending
<1>3. ASSUME NEW e \in Events, BeginTx(e) \/ EndTx(e) \/ \E t \in Times : Publish(e, t)
      PROVE  OutboxInv'
  BY <1>1, <1>3, StepTx, StepPublish
<1>4. ASSUME NEW i \in Instances, RelayStep(i) \/ LoseConnection(i) \/ Crash(i)
      PROVE  OutboxInv'
  BY <1>1, <1>4, StepPollLock, StepPollQuery, StepNextEvent, StepCallHandler, StepDelivered,
     StepMarkDelivered, StepMarkFailed, StepUnlock, StepLoseConnection DEF RelayStep
<1>5. QED
  BY <1>1, <1>2, <1>3, <1>4 DEF OutboxNext

-----------------------------------------------------------------------------
(* Theorems *)

\* The invariant holds in every behaviour of the relays.
THEOREM OutboxInvHolds == OutboxSpec => []OutboxInv
<1>1. QED
  BY InitOutbox, StepOutbox, PTL DEF OutboxSpec

\* The outbox, the relays and the advisory lock are type-correct: in particular
\* attempts never become negative.
THEOREM OutboxTypeCorrect == OutboxSpec => []OutboxTypeOK
<1>1. OutboxInv => OutboxTypeOK
  BY DEF OutboxInv
<1>2. QED
  BY <1>1, OutboxInvHolds, PTL

\* At-least-once delivery: whatever crashes, a row that the relay has marked
\* delivered was handled by all its subscribers.
THEOREM DeliveredIsHandled == OutboxSpec => []DeliveredMeansHandled
<1>1. OutboxInv => DeliveredMeansHandled
  BY DEF OutboxInv
<1>2. QED
  BY <1>1, OutboxInvHolds, PTL

\* A relay whose connection lives is alone and never delivers from a batch that
\* another instance has worked on.
THEOREM LiveBatchesAreFresh == OutboxSpec => []NoStaleBatch
<1>1. OutboxInv => NoStaleBatch
  BY DEF OutboxInv, NoStaleBatch, PollLive
<1>2. QED
  BY <1>1, OutboxInvHolds, PTL

-----------------------------------------------------------------------------
(* The relay implements the queue *)

\* What a row says of its event.
LEMMA StatusOf ==
    ASSUME OutboxTypeOK, NEW e \in Events
    PROVE  /\ outbox[e] = None => Status(e) = "absent"
           /\ outbox[e] # None => Status(e) # "absent"
           /\ Pending(e) => Status(e) = "pending"
           /\ outbox[e] # None /\ outbox[e].delivered => Status(e) = "delivered"
           /\ outbox[e] # None /\ ~outbox[e].delivered /\ ~Pending(e) => Status(e) = "exhausted"
<1>1. outbox[e] # None => outbox[e].delivered \in BOOLEAN
  BY DEF OutboxTypeOK, Row
<1>2. QED
  BY <1>1 DEF Status, Pending

\* A step that changes one row changes the status of one event.
LEMMA StatusUpdated ==
    ASSUME NEW e \in Events, \A d \in Events : d # e => outbox'[d] = outbox[d]
    PROVE  [d \in Events |-> Status(d)]' = [[d \in Events |-> Status(d)] EXCEPT ![e] = Status(e)']
<1>1. \A d \in Events : d # e => Status(d)' = Status(d)
  BY DEF Status, Pending
<1>2. QED
  BY <1>1

\* Publishing is Enqueue.
LEMMA PublishEnqueues ==
    ASSUME OutboxInv, OutboxInv', NEW e \in Events, NEW t \in Times, Publish(e, t)
    PROVE  Queue!Enqueue(e)
<1>1. PICK row : row = [at |-> t, delivered |-> FALSE, attempts |-> 0]
  OBVIOUS
<1>2. row \in Row /\ ~row.delivered /\ row.attempts = 0
  BY <1>1 DEF Row
<1>3. outbox[e] = None /\ outbox' = [outbox EXCEPT ![e] = row]
  BY <1>1 DEF Publish
<1>4. /\ outbox[e] = None /\ outbox'[e] = row /\ row # None /\ 0 < MaxAttempts
      /\ \A d \in Events : d # e => outbox'[d] = outbox[d]
  BY <1>2, <1>3, OutboxAssumption DEF OutboxInv, OutboxTypeOK
<1>5. Status(e) = "absent"
  BY <1>4, StatusOf DEF OutboxInv
<1>6. Status(e)' = "pending"
  BY <1>2, <1>4 DEF Status, Pending
<1>7. UNCHANGED handled
  BY DEF Publish
<1>8. QED
  BY <1>4, <1>5, <1>6, <1>7, StatusUpdated DEF Queue!Enqueue

\* A handler that returns nil is Handle.
LEMMA CallHandles ==
    ASSUME OutboxInv, NEW i \in Instances, CallHandler(i), ~UNCHANGED handled
    PROVE  \E e \in Events : \E s \in Subscribers : Queue!Handle(s, e)
<1> DEFINE e == relay[i].event
           n == relay[i].next
<1>1. /\ relay[i] \in Poll /\ e \in Events /\ n \in Nat \ {0} /\ outbox[e] # None
  BY DEF OutboxInv, OutboxTypeOK, CallHandler, PollPoint, Poll
<1>2. Chain(e) \in Seq(Subscribers) /\ ~(n > Len(Chain(e)))
  BY <1>1, ChainType DEF CallHandler, AllHandled
<1>3. n \in DOMAIN Chain(e) /\ Chain(e)[n] \in Subscribers
  BY <1>1, <1>2
<1>4. Chain(e)[n] \in Handlers(e)
  BY <1>3 DEF Handlers
<1>5. handled' = handled \cup {<<Chain(e)[n], e>>} /\ UNCHANGED outbox
  BY DEF CallHandler
<1>6. [d \in Events |-> Status(d)]' = [d \in Events |-> Status(d)]
  BY <1>5 DEF Status, Pending
<1>7. Status(e) # "absent"
  BY <1>1, StatusOf DEF OutboxInv
<1>8. Queue!Handle(Chain(e)[n], e)
  BY <1>1, <1>4, <1>5, <1>6, <1>7 DEF Queue!Handle
<1>9. QED
  BY <1>1, <1>3, <1>8

\* An UPDATE that takes effect is of a pending row: Acknowledge, GiveUp, or one
\* more failed attempt that the queue does not see.
LEMMA UpdateSettles ==
    ASSUME OutboxInv, OutboxInv', NEW i \in Instances, MarkDelivered(i) \/ MarkFailed(i),
           ~UNCHANGED outbox
    PROVE  \/ \E e \in Events : Queue!Acknowledge(e) \/ Queue!GiveUp(e)
           \/ UNCHANGED <<[d \in Events |-> Status(d)], handled>>
<1>1. PICK e : e = relay[i].event
  OBVIOUS
<1>2. /\ relay[i].pc \in {"ok", "failed"} /\ e \in relay[i].batch /\ e \in Events
      /\ outbox[e] \in Row /\ outbox[e] # None
  BY <1>1, AtEvent DEF MarkDelivered, MarkFailed
<1>3. UNCHANGED handled /\ relay[i].connected
  BY DEF MarkDelivered, MarkFailed, UpdateRow
<1>4. Pending(e) /\ Status(e) = "pending"
  BY <1>2, <1>3, StatusOf DEF OutboxInv, PollLive
<1>5. CASE MarkDelivered(i)
  <2>1. PICK row : row = [outbox[e] EXCEPT !.delivered = TRUE, !.attempts = @ + 1]
    OBVIOUS
  <2>2. row \in Row /\ row.delivered = TRUE /\ row # None
    BY <1>2, <2>1, MarkedRow, OutboxAssumption
  <2>3. outbox' = [outbox EXCEPT ![e] = row]
    BY <1>1, <1>5, <2>1 DEF MarkDelivered, UpdateRow
  <2>4. outbox'[e] = row /\ \A d \in Events : d # e => outbox'[d] = outbox[d]
    BY <1>2, <2>3 DEF OutboxInv, OutboxTypeOK
  <2>5. Status(e)' = "delivered"
    BY <2>2, <2>4 DEF Status, Pending
  <2>6. \A s \in Handlers(e) : <<s, e>> \in handled
    BY <1>1, <1>5 DEF OutboxInv, PollProgress, MarkDelivered
  <2>7. Queue!Acknowledge(e)
    BY <1>2, <1>3, <1>4, <2>4, <2>5, <2>6, StatusUpdated DEF Queue!Acknowledge
  <2>8. QED
    BY <1>2, <2>7
<1>6. CASE MarkFailed(i)
  <2>1. PICK row : row = [outbox[e] EXCEPT !.attempts = @ + 1]
    OBVIOUS
  <2>2. row \in Row /\ row.delivered = outbox[e].delivered
    BY <1>2, <2>1 DEF Row
  <2>3. row # None
    BY <2>2, OutboxAssumption
  <2>4. outbox' = [outbox EXCEPT ![e] = row]
    BY <1>1, <1>6, <2>1 DEF MarkFailed, UpdateRow
  <2>5. outbox'[e] = row /\ \A d \in Events : d # e => outbox'[d] = outbox[d]
    BY <1>2, <2>4 DEF OutboxInv, OutboxTypeOK
  <2>6. ~row.delivered
    BY <1>4, <2>2 DEF Pending
  <2>7. Status(e)' = "pending" \/ Status(e)' = "exhausted"
    BY <2>3, <2>5, <2>6 DEF Status, Pending
  <2>8. CASE Status(e)' = "pending"
    BY <1>2, <1>3, <1>4, <2>5, <2>8, StatusUpdated
  <2>9. CASE Status(e)' = "exhausted"
    BY <1>2, <1>3, <1>4, <2>5, <2>9, StatusUpdated DEF Queue!GiveUp
  <2>10. QED
    BY <2>7, <2>8, <2>9
<1>7. QED
  BY <1>5, <1>6

\* Every step is a step of the queue or invisible to it.
LEMMA StepQueue ==
    ASSUME OutboxInv, OutboxInv', OutboxNext
    PROVE  Queue!QueueNext \/ UNCHANGED <<[d \in Events |-> Status(d)], handled>>
<1>1. CASE UNCHANGED <<outbox, handled>>
  BY <1>1 DEF Status, Pending
<1>2. ASSUME NEW e \in Events, NEW t \in Times, Publish(e, t)
      PROVE  Queue!QueueNext
  BY <1>2, PublishEnqueues DEF Queue!QueueNext
<1>3. ASSUME NEW i \in Instances, CallHandler(i), ~UNCHANGED handled
      PROVE  Queue!QueueNext
  BY <1>3, CallHandles DEF Queue!QueueNext
<1>4. ASSUME NEW i \in Instances, MarkDelivered(i) \/ MarkFailed(i), ~UNCHANGED outbox
      PROVE  Queue!QueueNext \/ UNCHANGED <<[d \in Events |-> Status(d)], handled>>
  BY <1>4, UpdateSettles DEF Queue!QueueNext
<1>5. ASSUME NEW e \in Events, BeginTx(e) \/ EndTx(e)
      PROVE  UNCHANGED <<outbox, handled>>
  BY <1>5 DEF BeginTx, EndTx
<1>6. ASSUME NEW i \in Instances, RelayStep(i) \/ LoseConnection(i) \/ Crash(i)
      PROVE  \/ UNCHANGED <<outbox, handled>>
             \/ CallHandler(i) /\ ~UNCHANGED handled
             \/ (MarkDelivered(i) \/ MarkFailed(i)) /\ ~UNCHANGED outbox
  BY <1>6
  DEF RelayStep, PollLock, PollQuery, NextEvent, CallHandler, Delivered, MarkDelivered, MarkFailed,
      UpdateRow, Unlock, LoseConnection, Crash
<1>7. QED
  BY <1>1, <1>2, <1>3, <1>4, <1>5, <1>6 DEF OutboxNext

\* The relays of any number of instances together implement the at-least-once
\* queue that package events promises.
THEOREM RelayImplementsQueue == OutboxSpec => ImplementsQueue
<1>1. OutboxInit => Queue!QueueInit
  BY DEF OutboxInit, Queue!QueueInit, Status, Pending
<1>2. OutboxInv /\ OutboxInv' /\ [OutboxNext]_outboxVars => [Queue!QueueNext]_(Queue!queueVars)
  <2>1. CASE UNCHANGED outboxVars
    BY <2>1 DEF outboxVars, Queue!queueVars, Status, Pending
  <2>2. QED
    BY <2>1, StepQueue DEF Queue!queueVars
<1>3. QED
  BY <1>1, <1>2, OutboxInvHolds, PTL DEF OutboxSpec, ImplementsQueue, Queue!QueueSpec
=============================================================================
