----------------------------- MODULE EventQueue -----------------------------
(***************************************************************************)
(* What package events promises its users: every published event is handed *)
(* to every subscriber before it is acknowledged, an event may be handed   *)
(* over more than once, and only a bounded number of failed rounds gives   *)
(* an event up.  Nothing is said of locks, batches, polls or crashes.      *)
(***************************************************************************)
EXTENDS Naturals

CONSTANTS
    Events,         \* events that may be published
    Subscribers,    \* registered handlers
    Interested(_)   \* the subscribers of an event

VARIABLES
    status,     \* status[e]: what the queue knows of event e
    seen        \* pairs <<s, e>>: subscriber s has handled e

queueVars == <<status, seen>>

QueueInit ==
    /\ status = [e \in Events |-> "absent"]
    /\ seen = {}

Enqueue(e) ==
    /\ status[e] = "absent"
    /\ status' = [status EXCEPT ![e] = "pending"]
    /\ UNCHANGED seen

\* Delivery, or a repeated one.
Handle(s, e) ==
    /\ status[e] # "absent"
    /\ s \in Interested(e)
    /\ seen' = seen \cup {<<s, e>>}
    /\ UNCHANGED status

\* Only an event that all its subscribers have handled is acknowledged.
Acknowledge(e) ==
    /\ status[e] = "pending"
    /\ \A s \in Interested(e) : <<s, e>> \in seen
    /\ status' = [status EXCEPT ![e] = "delivered"]
    /\ UNCHANGED seen

GiveUp(e) ==
    /\ status[e] = "pending"
    /\ status' = [status EXCEPT ![e] = "exhausted"]
    /\ UNCHANGED seen

QueueNext ==
    \E e \in Events :
        \/ Enqueue(e) \/ Acknowledge(e) \/ GiveUp(e)
        \/ \E s \in Subscribers : Handle(s, e)

QueueSpec == QueueInit /\ [][QueueNext]_queueVars
=============================================================================
