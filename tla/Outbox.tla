-------------------------------- MODULE Outbox --------------------------------
(***************************************************************************)
(* app/outbox.py: a queue of messages in SQLite and the thread that        *)
(* delivers them.  The table outlives the process; the batch in hand, with *)
(* what is known of its deliveries, does not.  Nothing in the thread's     *)
(* loop catches an error of the database, which ends the thread like a     *)
(* crash of the process.                                                   *)
(*                                                                         *)
(* Message n is the nth row inserted, and n its id.                        *)
(***************************************************************************)
EXTENDS Integers, FiniteSetsExt

CONSTANTS
  MaxMessages,   \* bounds the messages enqueued
  NoCallback,    \* the messages whose channel has no callback
  MaxAttempts,   \* max_attempts of every message
  MaxBatch       \* OutboxWorker.max_batch

ASSUME OutboxConstants ==
  /\ MaxMessages \in Nat
  /\ NoCallback \subseteq 1 .. MaxMessages
  /\ MaxAttempts \in Nat \ {0}
  /\ MaxBatch \in Nat \ {0}

Ids == 1 .. MaxMessages

VARIABLES
  enqueued,   \* the rows inserted so far
  outbox,     \* the ids in the table
  attempts,   \* the column attempts
  due,        \* the ids whose next_try_utc has passed
  worker,     \* where the thread is, "dead" when there is none
  inHand,     \* the ids fetched and not yet tried
  okIds,      \* ok_ids: delivered, without a callback, or given up
  failIds,    \* fail_ids
  deadIds,    \* dead_letters
  received,   \* history: what the callbacks have delivered
  refused     \* history: how often a callback has refused, up to MaxAttempts

outboxVars == <<enqueued, outbox, attempts, due, worker, inHand, okIds, failIds,
                deadIds, received, refused>>

OutboxTypeOK ==
  /\ enqueued \in 0 .. MaxMessages
  /\ outbox \subseteq 1 .. enqueued /\ due \subseteq outbox
  /\ attempts \in [Ids -> 0 .. MaxAttempts - 1]
  /\ worker \in {"idle", "deliver", "delete", "reschedule", "escalate", "dead"}
  /\ inHand \subseteq outbox /\ failIds \subseteq outbox
  /\ okIds \subseteq Ids /\ deadIds \subseteq Ids
  /\ received \subseteq 1 .. enqueued
  /\ refused \in [Ids -> 0 .. MaxAttempts]

OutboxInit ==
  /\ enqueued = 0
  /\ outbox = {} /\ due = {}
  /\ attempts = [n \in Ids |-> 0]
  /\ worker = "idle"
  /\ inHand = {} /\ okIds = {} /\ failIds = {} /\ deadIds = {}
  /\ received = {}
  /\ refused = [n \in Ids |-> 0]

-----------------------------------------------------------------------------
\* enqueue, from any thread: due at once.
Enqueue ==
  /\ enqueued < MaxMessages
  /\ enqueued' = enqueued + 1
  /\ outbox' = outbox \cup {enqueued + 1}
  /\ due' = due \cup {enqueued + 1}
  /\ UNCHANGED <<attempts, worker, inHand, okIds, failIds, deadIds, received,
                 refused>>

\* ORDER BY id LIMIT max_batch
DueBatch == {n \in due : Cardinality({k \in due : k < n}) < MaxBatch}

\* Mutant: a row leaves the table when it is fetched.
FetchAndRemove ==
  /\ worker = "idle"
  /\ due # {}
  /\ inHand' = DueBatch
  /\ outbox' = outbox \ DueBatch
  /\ due' = due \ DueBatch
  /\ worker' = "deliver"
  /\ UNCHANGED <<enqueued, attempts, okIds, failIds, deadIds, received, refused>>

\* fetch_due_batch
FetchDueBatch ==
  /\ worker = "idle"
  /\ due # {}
  /\ inHand' = DueBatch
  /\ worker' = "deliver"
  /\ UNCHANGED <<enqueued, outbox, attempts, due, okIds, failIds, deadIds,
                 received, refused>>

\* A channel without a callback: the message counts as delivered.
NoHandler(n) ==
  /\ n \in NoCallback
  /\ okIds' = okIds \cup {n}
  /\ UNCHANGED <<failIds, deadIds, received, refused>>

Delivered(n) ==
  /\ n \notin NoCallback
  /\ received' = received \cup {n}
  /\ okIds' = okIds \cup {n}
  /\ UNCHANGED <<failIds, deadIds, refused>>

\* The callback raises or returns false; at the last attempt the message is a
\* dead letter, to be removed with those delivered.
Refused(n) ==
  /\ n \notin NoCallback
  /\ refused' = [refused EXCEPT ![n] = Min({@ + 1, MaxAttempts})]
  /\ IF attempts[n] + 1 >= MaxAttempts
       THEN /\ okIds' = okIds \cup {n}
            /\ deadIds' = deadIds \cup {n}
            /\ UNCHANGED failIds
       ELSE /\ failIds' = failIds \cup {n}
            /\ UNCHANGED <<okIds, deadIds>>
  /\ UNCHANGED received

TryNext ==
  /\ worker = "deliver"
  /\ LET n == Min(inHand) IN
       /\ NoHandler(n) \/ Delivered(n) \/ Refused(n)
       /\ inHand' = inHand \ {n}
       /\ worker' = IF inHand = {n} THEN "delete" ELSE worker
  /\ UNCHANGED <<enqueued, outbox, attempts, due>>

\* delete_ids, in a transaction of its own.
DeleteIds ==
  /\ worker = "delete"
  /\ outbox' = outbox \ okIds
  /\ due' = due \ okIds
  /\ okIds' = {}
  /\ worker' = "reschedule"
  /\ UNCHANGED <<enqueued, attempts, inHand, failIds, deadIds, received, refused>>

\* Mutant: the attempts are not counted.
RescheduleUncounted ==
  /\ worker = "reschedule"
  /\ due' = due \ failIds
  /\ failIds' = {}
  /\ worker' = "escalate"
  /\ UNCHANGED <<enqueued, outbox, attempts, inHand, okIds, deadIds, received,
                 refused>>

\* reschedule_ids, in the next one: a later try, or the end of a message that
\* has had all of them.
RescheduleIds ==
  /\ worker = "reschedule"
  /\ LET spent == {n \in failIds : attempts[n] + 1 >= MaxAttempts} IN
       /\ outbox' = outbox \ spent
       /\ attempts' = [n \in Ids |-> IF n \in failIds \ spent
                                       THEN attempts[n] + 1 ELSE attempts[n]]
  /\ due' = due \ failIds
  /\ failIds' = {}
  /\ worker' = "escalate"
  /\ UNCHANGED <<enqueued, inHand, okIds, deadIds, received, refused>>

\* on_dead_letter, for each: what it raises is logged.
Escalate ==
  /\ worker = "escalate"
  /\ deadIds' = {}
  /\ worker' = "idle"
  /\ UNCHANGED <<enqueued, outbox, attempts, due, inHand, okIds, failIds, received,
                 refused>>

BackoffEnds(n) ==
  /\ n \in outbox \ due
  /\ due' = due \cup {n}
  /\ UNCHANGED <<enqueued, outbox, attempts, worker, inHand, okIds, failIds,
                 deadIds, received, refused>>

\* The process dies, or the database raises in the thread.
WorkerDies ==
  /\ worker # "dead"
  /\ worker' = "dead"
  /\ inHand' = {} /\ okIds' = {} /\ failIds' = {} /\ deadIds' = {}
  /\ UNCHANGED <<enqueued, outbox, attempts, due, received, refused>>

WorkerStarts ==
  /\ worker = "dead"
  /\ worker' = "idle"
  /\ UNCHANGED <<enqueued, outbox, attempts, due, inHand, okIds, failIds, deadIds,
                 received, refused>>

WorkerStep == TryNext \/ DeleteIds \/ RescheduleIds \/ Escalate

OutboxNext ==
  \/ Enqueue
  \/ FetchDueBatch
  \/ WorkerStep
  \/ \E n \in Ids : BackoffEnds(n)
  \/ WorkerDies
  \/ WorkerStarts

OutboxFairness ==
  /\ WF_outboxVars(FetchDueBatch)
  /\ WF_outboxVars(WorkerStep)
  /\ \A n \in Ids : WF_outboxVars(BackoffEnds(n))

OutboxSpec == OutboxInit /\ [][OutboxNext]_outboxVars /\ OutboxFairness

-----------------------------------------------------------------------------
OutboxPromise ==
  INSTANCE AtLeastOnce WITH
    Messages <- Ids, Droppable <- NoCallback, Patience <- MaxAttempts,
    queued <- outbox, delivered <- received, failures <- refused

\* A message leaves the table only after a callback has taken it, or after
\* max_attempts refusals that really happened, wherever the worker is when it
\* dies: what it knew of its batch is lost, and the batch is delivered again.
OutboxIsAtLeastOnce == OutboxPromise!PromiseSpec

\* Under a worker that stays alive every message leaves the table in the end,
\* whatever the callbacks answer: none is retried for ever, and none starves
\* behind those that fail, though a batch takes the oldest ones first.
OutboxDrains ==
  <>[](worker # "dead") => \A n \in Ids : n \in outbox ~> n \notin outbox
=============================================================================
