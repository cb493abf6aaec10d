------------------------------ MODULE AtLeastOnce ------------------------------
(***************************************************************************)
(* What the queues of the service promise (app/outbox.py, app/notify.py,   *)
(* app/sheets.py): a message accepted stays queued until it has been       *)
(* delivered, perhaps more than once, or until its delivery has failed     *)
(* Patience times.  A crash is a step that leaves all this as it was.      *)
(***************************************************************************)
EXTENDS Integers

CONSTANTS
  Messages,
  Droppable,   \* the messages nobody handles, which may be dropped untried
  Patience     \* the failures after which a message may be given up

VARIABLES
  queued,      \* the messages accepted and not settled
  delivered,   \* those the other side has received
  failures     \* how often the delivery of each has failed, up to Patience

queueVars == <<queued, delivered, failures>>

PromiseInit ==
  /\ queued = {}
  /\ delivered = {}
  /\ failures = [m \in Messages |-> 0]

\* A message is accepted once.
Accept(m) ==
  /\ m \notin queued \cup delivered
  /\ queued' = queued \cup {m}
  /\ UNCHANGED <<delivered, failures>>

Deliver(ms) ==
  /\ delivered' = delivered \cup ms
  /\ UNCHANGED <<queued, failures>>

Fail(m) ==
  /\ failures[m] < Patience
  /\ failures' = [failures EXCEPT ![m] = @ + 1]
  /\ UNCHANGED <<queued, delivered>>

Settled(m) == m \in delivered \/ m \in Droppable \/ failures[m] >= Patience

Settle(ms) ==
  /\ \A m \in ms : Settled(m)
  /\ queued' = queued \ ms
  /\ UNCHANGED <<delivered, failures>>

PromiseNext ==
  \/ \E m \in Messages : Accept(m)
  \/ \E ms \in SUBSET queued : Deliver(ms) \/ Settle(ms)
  \/ \E m \in queued : Fail(m)

PromiseSpec == PromiseInit /\ [][PromiseNext]_queueVars
=============================================================================
