---------------------------- MODULE OrderExecutor ----------------------------
(***************************************************************************)
(* app/executor.py, OrderManager.submit_approved_trade, together with the  *)
(* calls it makes: the orders and executions tables and the bracket that   *)
(* adapters/ibkr/client.py sends.  Every table write commits on its own    *)
(* (app/db.py, execute), and the three legs of a bracket are three         *)
(* messages, so each is a step of its own: the process may die between any *)
(* two of them, and each of them may fail.                                 *)
(*                                                                         *)
(* A signal stands for one content that _make_order_id can hash, hence for *)
(* one order_id.  Two signals may carry the same signal_id (a corrected or *)
(* re-issued signal): IdOf tells the id, which is stored as order_ref.     *)
(***************************************************************************)
EXTENDS Integers

CONSTANTS
  Signals,      \* the approved trades that may be submitted
  SignalIds,    \* the values of Signal.signal_id
  IdOf,         \* the signal_id of each signal
  RunModes,     \* the modes the process is started in (SENSEI_MODE)
  NoJob         \* no call of submit_approved_trade is in progress

ASSUME ExecutorConstants ==
  /\ IdOf \in [Signals -> SignalIds]
  /\ RunModes \subseteq {"offline", "paper", "live"}
  /\ NoJob \notin Signals

VARIABLES
  mode,     \* SENSEI_MODE of the running process
  orders,   \* status of the orders row of each order_id, "absent" without one
  ibIds,    \* the order_ids whose row holds ib_parent, ib_take, ib_stop
  fills,    \* number of virtual executions of each order_id (offline)
  legs,     \* number of orders sent to the broker, per orderRef and leg
  job,      \* the signal being submitted
  step,     \* the point submit_approved_trade has reached
  result    \* what it returns

execVars == <<mode, orders, ibIds, fills, legs, job, step, result>>

Statuses == {"absent", "NEW", "SUBMITTED"}
Legs     == {"parent", "take", "stop"}
Steps    == {"ready", "fill", "parent", "take", "stop", "ids", "status",
             "returned"}
Results  == {"none", "OK", "DUPLICATE", "FAILED"}

ExecTypeOK ==
  /\ mode \in RunModes
  /\ orders \in [Signals -> Statuses]
  /\ ibIds \subseteq Signals
  /\ fills \in [Signals -> Nat]
  /\ legs \in [Signals -> [Legs -> Nat]]
  /\ job \in Signals \cup {NoJob}
  /\ step \in Steps
  /\ result \in Results

ExecInit ==
  /\ mode \in RunModes
  /\ orders = [s \in Signals |-> "absent"]
  /\ ibIds = {}
  /\ fills = [s \in Signals |-> 0]
  /\ legs = [s \in Signals |-> [l \in Legs |-> 0]]
  /\ job = NoJob
  /\ step = "ready"
  /\ result = "none"

-----------------------------------------------------------------------------
HasRow(s) == orders[s] # "absent"

\* Mutant: only the order id itself is looked up.
KnownByOrderId(s) == HasRow(s)

\* Mutant: an order that never got as far as SUBMITTED does not count.
KnownAsSubmitted(s) ==
  \E t \in Signals : orders[t] = "SUBMITTED" /\ IdOf[t] = IdOf[s]

\* The id's earlier order, found through order_ref, whatever its order_id.
KnownSignalId(s) == \E t \in Signals : HasRow(t) /\ IdOf[t] = IdOf[s]

\* The two idempotency checks, by signal id and by order id.
IsDuplicate(s) == KnownSignalId(s) \/ HasRow(s)

\* A virtual execution replaces the broker when the mode is offline.
Offline == mode = "offline"

Return(r) == step' = "returned" /\ result' = r

\* The signal or the order id is already recorded: nothing is written or sent.
SubmitDuplicate(s) ==
  /\ step = "ready"
  /\ IsDuplicate(s)
  /\ job' = s
  /\ Return("DUPLICATE")
  /\ UNCHANGED <<mode, orders, ibIds, fills, legs>>

\* A new order is recorded with status NEW before anything else happens.  The
\* INSERT would raise on an order_id the table holds (UNIQUE).
SubmitNew(s) ==
  /\ step = "ready"
  /\ ~IsDuplicate(s)
  /\ ~HasRow(s)
  /\ job' = s
  /\ orders' = [orders EXCEPT ![s] = "NEW"]
  /\ step' = IF Offline THEN "fill" ELSE "parent"
  /\ UNCHANGED <<mode, ibIds, fills, legs, result>>

\* A query or the INSERT raises (a locked database): the exception leaves
\* submit_approved_trade and the pipeline reports that nothing was placed.
SubmitDbError(s) ==
  /\ step = "ready"
  /\ job' = s
  /\ Return("FAILED")
  /\ UNCHANGED <<mode, orders, ibIds, fills, legs>>

\* The virtual execution of offline mode; an INSERT that raises is only logged.
OfflineFill ==
  /\ step = "fill"
  /\ \/ fills' = [fills EXCEPT ![job] = @ + 1]
     \/ UNCHANGED fills
  /\ Return("OK")
  /\ UNCHANGED <<mode, orders, ibIds, legs, job>>

\* One leg reaches the broker, and the adapter goes on to the next statement.
SendLeg(leg, next) ==
  /\ step = leg
  /\ legs' = [legs EXCEPT ![job][leg] = @ + 1]
  /\ step' = next
  /\ UNCHANGED <<mode, orders, ibIds, fills, job, result>>

\* Mutants: a parent that fails to go out is passed over; the stop is left out.
PassOverParent ==
  /\ step = "parent"
  /\ step' = "take"
  /\ UNCHANGED <<mode, orders, ibIds, fills, legs, job, result>>
PlaceTakeOnly == SendLeg("take", "ids")

\* Only the stop is sent with transmit=True, and it activates the whole bracket.
PlaceParent == SendLeg("parent", "take")
PlaceTake   == SendLeg("take", "stop")
PlaceStop   == SendLeg("stop", "ids")

\* Mutant: the failure is logged and the call goes on to return OK.
PlaceFailsQuietly ==
  /\ step \in Legs \cup {"ids"}
  /\ Return("OK")
  /\ UNCHANGED <<mode, orders, ibIds, fills, legs, job>>

\* qualifyContracts, a placeOrder, or the pause and the reading of the ids after
\* the last one raises: what was sent stays at the broker, transmitted when it
\* was the whole bracket, and the row stays NEW and without ids.
PlaceFails ==
  /\ step \in Legs \cup {"ids"}
  /\ Return("FAILED")
  /\ UNCHANGED <<mode, orders, ibIds, fills, legs, job>>

\* The ids are read and go into the row; an UPDATE that raises is only logged.
SaveIds ==
  /\ step = "ids"
  /\ ibIds' \in {ibIds, ibIds \cup {job}}
  /\ step' = "status"
  /\ UNCHANGED <<mode, orders, fills, legs, job, result>>

\* Mutant: the returned status is stored in the place of the order's.
SaveReturnedStatus ==
  /\ step = "status"
  /\ orders' = [orders EXCEPT ![job] = "OK"]
  /\ Return("OK")
  /\ UNCHANGED <<mode, ibIds, fills, legs, job>>

\* So is the status update, and the call succeeds either way.
SaveStatus ==
  /\ step = "status"
  /\ orders' \in {orders, [orders EXCEPT ![job] = "SUBMITTED"]}
  /\ Return("OK")
  /\ UNCHANGED <<mode, ibIds, fills, legs, job>>

\* The caller takes the result.
CallEnds ==
  /\ step = "returned"
  /\ step' = "ready"
  /\ job' = NoJob
  /\ result' = "none"
  /\ UNCHANGED <<mode, orders, ibIds, fills, legs>>

\* The process dies and is started again, in the mode its environment then
\* says: what the call held in memory is lost, the tables and the broker's
\* orders stay.
ExecutorDies ==
  /\ mode' \in RunModes
  /\ step' = "ready"
  /\ job' = NoJob
  /\ result' = "none"
  /\ UNCHANGED <<orders, ibIds, fills, legs>>

Submit(s) == SubmitDuplicate(s) \/ SubmitNew(s) \/ SubmitDbError(s)

CallStep ==
  \/ OfflineFill
  \/ PlaceParent
  \/ PlaceTake
  \/ PlaceStop
  \/ PlaceFails
  \/ SaveIds
  \/ SaveStatus

ExecNext ==
  \/ \E s \in Signals : Submit(s)
  \/ CallStep
  \/ CallEnds
  \/ ExecutorDies

ExecSpec == ExecInit /\ [][ExecNext]_execVars

-----------------------------------------------------------------------------
\* What submitting a signal causes: a transmitted bracket, or the virtual
\* execution that stands for it offline.
Transmitted(s) == legs[s]["stop"] > 0
SentId(i) ==
  \E s \in Signals : IdOf[s] = i /\ (Transmitted(s) \/ fills[s] > 0)

KnownId(i) == \E s \in Signals : IdOf[s] = i /\ HasRow(s)
InProgress(i) ==
  job # NoJob /\ IdOf[job] = i /\ step \in {"fill"} \cup Legs

\* How the tables, the broker and the call in progress show a signal_id's stage.
StageOf(i) ==
  IF SentId(i) THEN "sent"
  ELSE IF InProgress(i) THEN "claimed"
  ELSE IF KnownId(i) THEN "lost"
  ELSE "fresh"

Abstract == INSTANCE OnceOnlySubmission
              WITH stage <- [i \in SignalIds |-> StageOf(i)]

\* Submission refines the once-only promise: an id whose attempt failed or died
\* is never claimed again, a sent one never sent again (executor.py, rules 1, 2).
OnceOnly == Abstract!Spec

\* A signal_id ever causes at most one bracket, each of its legs sent at most
\* once, or one virtual execution, and never both: however the submissions
\* repeat, fail and crash, and whatever the mode becomes in between
\* (executor.py, idempotency rules 1 and 2).
OneBracketPerSignalId ==
  /\ \A s \in Signals : \A l \in Legs : legs[s][l] + fills[s] <= 1
  /\ \A s, t \in Signals :
       /\ IdOf[s] = IdOf[t]
       /\ legs[s]["parent"] + fills[s] > 0
       /\ legs[t]["parent"] + fills[t] > 0
       => s = t

\* A row that says SUBMITTED, or that holds broker ids, belongs to a bracket
\* sent whole: neither UPDATE runs ahead of the transmitting stop leg.
RecordedAsSent ==
  \A s \in Signals :
    orders[s] = "SUBMITTED" \/ s \in ibIds => \A l \in Legs : legs[s][l] = 1

NothingWithoutRow ==
  \A s \in Signals :
    fills[s] > 0 \/ (\E l \in Legs : legs[s][l] > 0) => HasRow(s)

NoExitWithoutEntry ==
  \A s \in Signals :
    /\ legs[s]["take"] <= legs[s]["parent"]
    /\ legs[s]["stop"] <= legs[s]["take"]

\* Row, parent, take and stop: wherever a submission breaks off, what there is
\* of it is a beginning of these.  So a fill that comes back always has an order
\* to belong to, no exit is at the broker without the entry it closes, and the
\* stop transmits only after the take is in place (executor.py:159,
\* client.py:86-112).
SentInOrder == NothingWithoutRow /\ NoExitWithoutEntry

\* A caller that is told OK in paper or live mode has transmitted a bracket.
ReturnedOkIsTransmitted ==
  step = "returned" /\ result = "OK" /\ ~Offline => Transmitted(job)

\* "If the order_id is already in the database, do not send it to the broker
\* AGAIN" (executor.py): a DUPLICATE was sent once.  It is not so when the first
\* attempt stored the row and failed, or died, before the bracket was sent.
DuplicateWasSent ==
  step = "returned" /\ result = "DUPLICATE" => SentId(IdOf[job])
=============================================================================
