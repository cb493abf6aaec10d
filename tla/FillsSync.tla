------------------------------- MODULE FillsSync -------------------------------
(***************************************************************************)
(* app/ibkr_fills_sync.py, sync_ibkr_fills_once: the main loop's periodic  *)
(* read of the broker's executions into ib_exec_seen, executions and       *)
(* orders.status.  The map of broker ids is read first, the executions are *)
(* fetched, and one transaction (app/db.py, transaction) stores them all   *)
(* or none.  The broker, the executor and an operator who registers orders *)
(* placed by hand (create_order_stub.py) go on in between.                 *)
(*                                                                         *)
(* An execution <<o, leg, n>> is the nth unit filled of a leg of order o,  *)
(* which is also what its broker id leads to: the ids of the broker are    *)
(* taken to be distinct and never reused.  (Where two rows of orders hold  *)
(* the same id, the map has the row it reads last.)                        *)
(***************************************************************************)
EXTENDS Integers, FiniteSets, Functions

CONSTANTS
  Orders,       \* the orders at the broker
  Stubs,        \* those among them that were placed by hand
  SentQty,      \* the quantity the broker has of each
  PlannedQty    \* orders.qty of each

Legs  == {"parent", "take", "stop"}
Exits == {"take", "stop"}

ASSUME SyncConstants ==
  /\ Stubs \subseteq Orders
  /\ SentQty \in [Orders -> Nat]
  /\ PlannedQty \in [Orders -> Nat]

Executions ==
  UNION {{o} \X Legs \X (1 .. SentQty[o]) : o \in Orders}

ExecutionsOf(o, legs) == {e \in Executions : e[1] = o /\ e[2] \in legs}

VARIABLES
  executed,  \* the executions at the broker
  recent,    \* those within the lookback window
  tracked,   \* the orders whose row holds the broker's ids
  status,    \* orders.status
  seen,      \* ib_exec_seen
  rows,      \* how many rows of executions tell of each execution
  pc,        \* whether a synchronisation is running, and where it is
  ibMap,     \* the orders _orders_ib_map found
  batch,     \* the executions fetched and not yet stored
  tx         \* what the transaction has written: seen, rows, orders to update

syncVars == <<executed, recent, tracked, status, seen, rows, pc, ibMap, batch,
              tx>>

Statuses == {"NEW", "SUBMITTED", "FILLED", "PARTIAL_ENTRY", "OPEN", "CLOSED"}

Transactions ==
  [seen : SUBSET Executions, rows : [Executions -> Nat],
   touched : SUBSET Orders]

NoTx == [seen |-> {}, rows |-> [e \in Executions |-> 0], touched |-> {}]

SyncTypeOK ==
  /\ recent \subseteq executed /\ executed \subseteq Executions
  /\ tracked \subseteq Orders
  /\ status \in [Orders -> Statuses]
  /\ seen \subseteq Executions
  /\ rows \in [Executions -> Nat]
  /\ pc \in {"idle", "fetch", "store"}
  /\ ibMap \subseteq Orders
  /\ batch \subseteq Executions
  /\ tx \in Transactions

SyncInit ==
  /\ executed = {} /\ recent = {} /\ tracked = {}
  /\ status = [o \in Orders |-> "NEW"]
  /\ seen = {}
  /\ rows = [e \in Executions |-> 0]
  /\ pc = "idle"
  /\ ibMap = {} /\ batch = {}
  /\ tx = NoTx

-----------------------------------------------------------------------------
\* The sum of the quantities of an order's executions rows, by leg.
Total(ledger, o, legs) ==
  SumFunction([e \in ExecutionsOf(o, legs) |-> ledger[e]])

Entered(ledger, o) == Total(ledger, o, {"parent"})
Exited(ledger, o)  == Total(ledger, o, Exits)

\* Mutant: an order without an entry loses its status.
StatusForUnknown(ledger, o, previous) ==
  IF ~(Entered(ledger, o) > 0) THEN "UNKNOWN"
  ELSE IF Exited(ledger, o) >= Entered(ledger, o) THEN "CLOSED"
  ELSE "OPEN"

\* _recompute_order_status
StatusFor(ledger, o, previous) ==
  IF ~(Entered(ledger, o) > 0) THEN previous
  ELSE IF Exited(ledger, o) >= Entered(ledger, o) THEN "CLOSED"
  ELSE IF Entered(ledger, o) < PlannedQty[o] THEN "PARTIAL_ENTRY"
  ELSE "OPEN"

\* Mutant: only orders that wait for their entry are looked for.
ReadMapWaiting ==
  /\ pc = "idle"
  /\ tracked # {}
  /\ ibMap' = {o \in tracked : status[o] \in {"NEW", "SUBMITTED"}}
  /\ pc' = "fetch"
  /\ UNCHANGED <<executed, recent, tracked, status, seen, rows, batch, tx>>

\* _orders_ib_map: read before the executions are fetched.  Without any order
\* to look for, the synchronisation ends.
ReadMap ==
  /\ pc = "idle"
  /\ tracked # {}
  /\ ibMap' = tracked
  /\ pc' = "fetch"
  /\ UNCHANGED <<executed, recent, tracked, status, seen, rows, batch, tx>>

\* The transaction begins when there is something to store.
Begin(fetched) ==
  /\ pc = "fetch"
  /\ IF fetched = {}
       THEN pc' = "idle" /\ ibMap' = {} /\ tx' = NoTx
       ELSE /\ pc' = "store"
            /\ tx' = [seen |-> seen, rows |-> rows, touched |-> {}]
            /\ UNCHANGED ibMap
  /\ batch' = fetched
  /\ UNCHANGED <<executed, recent, tracked, status, seen, rows>>

Fetch == Begin(recent)

\* When reqExecutions raises, the list the connection has gathered is taken
\* instead: nothing yet, or every execution, recent or not.
FetchFallback == Begin({}) \/ Begin(executed)

\* An execution of an unknown order, or already seen, is skipped.
Skip(e) ==
  /\ e[1] \notin ibMap \/ e \in tx.seen
  /\ UNCHANGED tx

\* Mutants: any execution is recorded; only an entry touches the order.
RecordAny(e) ==
  /\ e \notin tx.seen
  /\ tx' = [seen    |-> tx.seen \cup {e},
            rows    |-> [tx.rows EXCEPT ![e] = @ + 1],
            touched |-> tx.touched \cup {e[1]}]
RecordEntries(e) ==
  /\ e[1] \in ibMap /\ e \notin tx.seen
  /\ tx' = [seen    |-> tx.seen \cup {e},
            rows    |-> [tx.rows EXCEPT ![e] = @ + 1],
            touched |-> IF e[2] = "parent" THEN tx.touched \cup {e[1]}
                        ELSE tx.touched]

Record(e) ==
  /\ e[1] \in ibMap /\ e \notin tx.seen
  /\ tx' = [seen    |-> tx.seen \cup {e},
            rows    |-> [tx.rows EXCEPT ![e] = @ + 1],
            touched |-> tx.touched \cup {e[1]}]

Store ==
  /\ pc = "store"
  /\ \E e \in batch :
       /\ Skip(e) \/ Record(e)
       /\ batch' = batch \ {e}
  /\ UNCHANGED <<executed, recent, tracked, status, seen, rows, pc, ibMap>>

\* The status of every order that got an execution is computed from the table
\* as the transaction leaves it, and the transaction commits.
Commit ==
  /\ pc = "store"
  /\ batch = {}
  /\ seen' = tx.seen
  /\ rows' = tx.rows
  /\ status' = [o \in Orders |-> IF o \in tx.touched
                                   THEN StatusFor(tx.rows, o, status[o])
                                   ELSE status[o]]
  /\ pc' = "idle"
  /\ ibMap' = {}
  /\ tx' = NoTx
  /\ UNCHANGED <<executed, recent, tracked, batch>>

\* Mutant: ib_exec_seen is committed on its own, before the rest.
SyncFailsHalfway ==
  /\ pc # "idle"
  /\ pc' = "idle"
  /\ seen' = IF pc = "store" THEN tx.seen ELSE seen
  /\ ibMap' = {}
  /\ batch' = {}
  /\ tx' = NoTx
  /\ UNCHANGED <<executed, recent, tracked, status, rows>>

\* An exception, which the main loop logs, or the death of the process: the
\* transaction is rolled back.
SyncFails ==
  /\ pc # "idle"
  /\ pc' = "idle"
  /\ ibMap' = {}
  /\ batch' = {}
  /\ tx' = NoTx
  /\ UNCHANGED <<executed, recent, tracked, status, seen, rows>>

-----------------------------------------------------------------------------
Filled(o, legs) == {e \in executed : e[1] = o /\ e[2] \in legs}

\* The broker fills the next unit of a leg: of the entry, or of an exit as
\* long as there is a position to close.
BrokerFills ==
  \E e \in Executions \ executed :
    /\ \A n \in 1 .. e[3] - 1 : <<e[1], e[2], n>> \in executed
    /\ e[2] \in Exits =>
         Cardinality(Filled(e[1], Exits))
           < Cardinality(Filled(e[1], {"parent"}))
    /\ executed' = executed \cup {e}
    /\ recent' = recent \cup {e}
    /\ UNCHANGED <<tracked, status, seen, rows, pc, ibMap, batch, tx>>

\* An execution leaves the lookback window.
TimePasses ==
  /\ \E e \in recent : recent' = recent \ {e}
  /\ UNCHANGED <<executed, tracked, status, seen, rows, pc, ibMap, batch, tx>>

\* The row gets the broker's ids: from the executor, on the main loop's own
\* thread, or from create_order_stub.py, which inserts the row, with any
\* status, whenever no transaction holds the database.
Track(o) ==
  /\ o \notin tracked
  /\ pc = "idle" \/ (o \in Stubs /\ pc = "fetch")
  /\ tracked' = tracked \cup {o}
  /\ \E s \in IF o \in Stubs THEN {"NEW", "FILLED"} ELSE {"NEW", "SUBMITTED"} :
       status' = [status EXCEPT ![o] = s]
  /\ UNCHANGED <<executed, recent, seen, rows, pc, ibMap, batch, tx>>

SyncNext ==
  \/ ReadMap
  \/ Fetch
  \/ FetchFallback
  \/ Store
  \/ Commit
  \/ SyncFails
  \/ BrokerFills
  \/ TimePasses
  \/ \E o \in Orders : Track(o)

\* The main loop starts a synchronisation every interval and goes on with it; a
\* request that is made again and again is answered at some time.
SyncFairness ==
  /\ WF_syncVars(ReadMap)
  /\ SF_syncVars(Fetch)
  /\ WF_syncVars(Store)
  /\ WF_syncVars(Commit)

SyncSpec == SyncInit /\ [][SyncNext]_syncVars /\ SyncFairness

-----------------------------------------------------------------------------
\* Every execution the table of seen ones names has exactly one executions row,
\* and no other has any: a failure between the two INSERTs, a repeated answer
\* or an overlap of two windows neither doubles nor drops a fill.
LedgerExactlyOnce ==
  rows = [e \in Executions |-> IF e \in seen THEN 1 ELSE 0]

\* Whatever the order in which fills came in, and whatever was rolled back, an
\* order the ledger tells of has the status the ledger implies.
StatusMatchesLedger ==
  \A e \in seen : status[e[1]] = StatusFor(rows, e[1], status[e[1]])

\* The ledger never tells of a fill the broker has not made, nor of an order
\* whose row does not hold the broker's ids.
LedgerIsTheBrokers == \A e \in seen : e \in executed /\ e[1] \in tracked

\* A synchronisation that ends without what it could have stored.
WorkIsLost ==
  /\ pc' = "idle"
  /\ \/ pc = "fetch" /\ recent # {}
     \/ pc = "store" /\ (batch # {} \/ seen' # tx.seen)

\* When the failures end, an execution of a tracked order reaches the ledger,
\* unless the lookback window passes it first.
FillsReachLedger ==
  <>[][~WorkIsLost]_syncVars =>
    \A e \in Executions :
      e \in executed /\ e[1] \in tracked ~> e \in seen \/ e \notin recent
=============================================================================
