------------------------------ MODULE FillsScript ------------------------------
(***************************************************************************)
(* sync_ibkr_fills.py, the script that an operator runs beside the         *)
(* service.  It reads the orders once, asks the broker for its executions, *)
(* and stores them in one transaction; it knows what is stored by the      *)
(* column exec_id of executions, and not by ib_exec_seen, by which the     *)
(* service knows it (see FillsSync).  The script needs that column, and    *)
(* every schema of the repository that has it declares it unique           *)
(* (db/schema/schema_minimal.sql).  What the script cannot match it leaves *)
(* or, told to, adopts as an order of its own.                             *)
(*                                                                         *)
(* An execution <<o, leg, n>> is the nth fill of a leg of order o; an      *)
(* adopted order is named by the execution it was made for.                *)
(***************************************************************************)
EXTENDS Integers, FiniteSets

CONSTANTS
  Registered,  \* the orders the executor places: they have an orderRef
  Foreign,     \* those placed by hand, without one
  MaxFilled,   \* bounds the fills of a leg
  NoMatch      \* no row of orders

Legs == {"parent", "take"}

Brokered == Registered \cup Foreign

Executed == Brokered \X Legs \X (1 .. MaxFilled)

Rows == Brokered \cup Executed \cup {NoMatch}

ASSUME ScriptConstants ==
  /\ Registered \cap Foreign = {}
  /\ NoMatch \notin Brokered \cup Executed
  /\ MaxFilled \in Nat

VARIABLES
  record,    \* how an order stands in the database: none, its row (ref), or
             \* its row with the broker's ids (ids)
  ibParent,  \* the leg whose id the script has written to an empty ib_parent
  adoptedBy, \* the adopted orders
  stored,    \* the rows of executions
  seenIds,   \* ib_exec_seen of the service
  filled,    \* what the broker has executed
  script,    \* where the script is
  adopt,     \* SyncParams.adopt of the run
  asRead,    \* record, as the run has read it
  lookup,    \* the row that the maps lead to, for each order and leg
  unsaved,   \* the executions fetched and not yet looked at
  tx         \* what the transaction has made of ibParent, adoptedBy and stored

scriptVars == <<record, ibParent, adoptedBy, stored, seenIds, filled, script,
                adopt, asRead, lookup, unsaved, tx>>

StoredRows ==
  [exec : Executed, order : Brokered \cup Executed, leg : Legs,
   by : {"script", "service"}, known : {"none", "ref", "ids"}]

ScriptTypeOK ==
  /\ record \in [Brokered -> {"none", "ref", "ids"}]
  /\ asRead \in [Brokered -> {"none", "ref", "ids"}]
  /\ ibParent \in [Brokered -> Legs \cup {"empty"}]
  /\ filled \subseteq Executed /\ seenIds \subseteq filled
  /\ adoptedBy \subseteq filled /\ unsaved \subseteq filled
  /\ stored \subseteq StoredRows
  /\ script \in {"idle", "loaded", "storing"}
  /\ adopt \in BOOLEAN
  /\ lookup \in [Brokered \X Legs -> Rows]
  /\ tx.ibParent \in [Brokered -> Legs \cup {"empty"}]
  /\ tx.adoptedBy \subseteq filled /\ tx.stored \subseteq StoredRows

NoMaps == [id \in Brokered \X Legs |-> NoMatch]

NoTransaction == [ibParent |-> [o \in Brokered |-> "empty"],
                  adoptedBy |-> {}, stored |-> {}]

ScriptInit ==
  /\ record = [o \in Brokered |-> "none"]
  /\ ibParent = [o \in Brokered |-> "empty"]
  /\ adoptedBy = {} /\ stored = {} /\ seenIds = {} /\ filled = {}
  /\ script = "idle"
  /\ adopt = FALSE
  /\ asRead = record
  /\ lookup = NoMaps
  /\ unsaved = {}
  /\ tx = NoTransaction

run == <<script, adopt, asRead, lookup, unsaved, tx>>

-----------------------------------------------------------------------------
(* The others: the executor, the broker, and the service's synchronisation. *)
(* From its first write to its commit the script has the database's lock.   *)

InsertOrderRow(o) ==
  /\ record[o] = "none" /\ script # "storing"
  /\ record' = [record EXCEPT ![o] = "ref"]
  /\ UNCHANGED <<ibParent, adoptedBy, stored, seenIds, filled, run>>

\* It may never come, when the executor dies.
SaveBrokerIds(o) ==
  /\ record[o] = "ref" /\ script # "storing"
  /\ record' = [record EXCEPT ![o] = "ids"]
  /\ UNCHANGED <<ibParent, adoptedBy, stored, seenIds, filled, run>>

BrokerFills(e) ==
  /\ e \notin filled
  /\ e[1] \in Foreign \/ record[e[1]] # "none"
  /\ e[3] > 1 => <<e[1], e[2], e[3] - 1>> \in filled
  /\ filled' = filled \cup {e}
  /\ UNCHANGED <<record, ibParent, adoptedBy, stored, seenIds, run>>

\* The ids that an adopted order and an order's row have in ib_parent, ib_take
\* and ib_stop; an adopted order comes later in the table.
IdLeadsTo(e) ==
  LET adoptions == {a \in adoptedBy : a[1] = e[1] /\ a[2] = e[2]} IN
    CASE adoptions # {} -> [order |-> CHOOSE a \in adoptions : TRUE,
                            leg |-> "parent"]
      [] adoptions = {} /\ record[e[1]] = "ids" ->
           [order |-> e[1], leg |-> e[2]]
      [] adoptions = {} /\ record[e[1]] # "ids" /\ ibParent[e[1]] = e[2] ->
           [order |-> e[1], leg |-> "parent"]
      [] OTHER -> [order |-> NoMatch, leg |-> "parent"]

\* The fills that a pass of the service comes upon, has not seen, and can match.
\* It has read its map a moment before: what that misses is left out of window.
NewIn(window) == {e \in window \ seenIds : IdLeadsTo(e).order # NoMatch}

ServiceRow(e) ==
  [exec |-> e, order |-> IdLeadsTo(e).order, leg |-> IdLeadsTo(e).leg,
   by |-> "service", known |-> record[e[1]]]

\* Mutant: each write commits on its own, so that the exception undoes nothing.
SyncPiecemeal ==
  /\ script # "storing"
  /\ \E window \in SUBSET filled :
       /\ stored' = stored \cup
            {ServiceRow(e) : e \in NewIn(window) \ {r.exec : r \in stored}}
       /\ seenIds' = seenIds \cup NewIn(window)
  /\ UNCHANGED <<record, ibParent, adoptedBy, filled, run>>

\* A pass of the service, which is one transaction (FillsSync takes it apart).
\* A fill that the script has stored is new to ib_exec_seen but not to
\* executions: the second INSERT raises, outside the try of the first, and the
\* whole pass is undone, with its other fills; and so is each later pass that
\* comes upon that fill.
ServiceSyncs ==
  /\ script # "storing"
  /\ \E window \in SUBSET filled :
       LET new   == NewIn(window)
           clash == \E r \in stored : r.exec \in new
       IN  \/ clash /\ UNCHANGED <<stored, seenIds>>
           \/ /\ ~clash
              /\ stored' = stored \cup {ServiceRow(e) : e \in new}
              /\ seenIds' = seenIds \cup new
  /\ UNCHANGED <<record, ibParent, adoptedBy, filled, run>>

-----------------------------------------------------------------------------
\* _apply_config: the environment before the file, the file before the default.
Setting(env, file, default) ==
  CASE env # "unset" -> env = "on"
    [] env = "unset" /\ file # "unset" -> file = "on"
    [] OTHER -> default

\* _load_orders_maps: an orderRef leads to the last row that has it, and so
\* does an id; only Foreign orders need the latter.
LoadOrdersMaps ==
  [id \in Brokered \X Legs |->
     LET adoptions == {a \in adoptedBy :
                         a[1] = id[1] /\ (id[1] \in Foreign => a[2] = id[2])}
     IN  CASE adoptions # {} -> CHOOSE a \in adoptions : TRUE
           [] adoptions = {} /\ record[id[1]] # "none" -> id[1]
           [] OTHER -> NoMatch]

StartScript ==
  /\ script = "idle"
  /\ \E env, file \in {"unset", "on", "off"} : adopt' = Setting(env, file, FALSE)
  /\ asRead' = record
  /\ lookup' = LoadOrdersMaps
  /\ script' = "loaded"
  /\ UNCHANGED <<record, ibParent, adoptedBy, stored, seenIds, filled, unsaved,
                 tx>>

\* reqExecutions: those within the lookback window, or, with nofilter, too.
FetchExecutions ==
  /\ script = "loaded"
  /\ unsaved' \in SUBSET filled
  /\ tx' = [ibParent |-> ibParent, adoptedBy |-> adoptedBy, stored |-> stored]
  /\ script' = "storing"
  /\ UNCHANGED <<record, ibParent, adoptedBy, stored, seenIds, filled, adopt,
                 asRead, lookup>>

\* The matched order as it was read, or as it was adopted.
MatchedOrder(e) == lookup[<<e[1], e[2]>>]

\* _create_stub_order, which later fills of the same orderRef or id will match.
AdoptOrder(e) ==
  lookup' = [id \in Brokered \X Legs |->
               IF id[1] = e[1] /\ (e[1] \in Foreign => id[2] = e[2])
                 THEN e ELSE lookup[id]]

\* Mutant: an order matched by its orderRef is taken at its entry.
LegByRef(e, order) == "parent"

\* The leg, by the ids the matched order was read with.
LegOf(e, order) ==
  IF order \in Brokered /\ asRead[order] = "ids" THEN e[2] ELSE "parent"

\* _insert_execution
InsertExecution(e, order) ==
  IF \E r \in tx.stored : r.exec = e
    THEN tx.stored
    ELSE tx.stored \cup
           {[exec |-> e, order |-> order, leg |-> LegOf(e, order),
             by |-> "script", known |-> asRead[e[1]]]}

\* _update_order_ib_parent_if_empty, whichever leg was filled.
IbParentIfEmpty(e, order) ==
  IF order \in Brokered /\ record[order] = "ref" /\ tx.ibParent[order] = "empty"
    THEN [tx.ibParent EXCEPT ![order] = e[2]]
    ELSE tx.ibParent

StoreFill(e) ==
  /\ script = "storing" /\ e \in unsaved
  /\ unsaved' = unsaved \ {e}
  /\ LET new   == MatchedOrder(e) = NoMatch /\ adopt
         order == IF new THEN e ELSE MatchedOrder(e)
     IN  /\ IF new THEN AdoptOrder(e) ELSE UNCHANGED lookup
         /\ tx' = IF order = NoMatch THEN tx
                  ELSE [ibParent |-> IbParentIfEmpty(e, order),
                        adoptedBy |-> tx.adoptedBy \cup
                                        (IF new THEN {e} ELSE {}),
                        stored |-> InsertExecution(e, order)]
  /\ UNCHANGED <<record, ibParent, adoptedBy, stored, seenIds, filled, script,
                 adopt, asRead>>

EndRun ==
  /\ script' = "idle"
  /\ adopt' = FALSE /\ asRead' = [o \in Brokered |-> "none"]
  /\ lookup' = NoMaps /\ unsaved' = {} /\ tx' = NoTransaction
  /\ UNCHANGED <<record, seenIds, filled>>

CommitRun ==
  /\ script = "storing" /\ unsaved = {}
  /\ ibParent' = tx.ibParent
  /\ adoptedBy' = tx.adoptedBy
  /\ stored' = tx.stored
  /\ EndRun

\* An exception, from the broker or the database, or the end of the process.
ScriptDies ==
  /\ script # "idle"
  /\ UNCHANGED <<ibParent, adoptedBy, stored>>
  /\ EndRun

ScriptNext ==
  \/ \E o \in Registered : InsertOrderRow(o) \/ SaveBrokerIds(o)
  \/ \E e \in Executed : BrokerFills(e) \/ StoreFill(e)
  \/ ServiceSyncs
  \/ StartScript \/ FetchExecutions \/ CommitRun \/ ScriptDies

ScriptSpec == ScriptInit /\ [][ScriptNext]_scriptVars

-----------------------------------------------------------------------------
\* What the script stores of an order whose broker ids were saved before the
\* run began is booked on that order and with the leg it was filled on, unless
\* a run that read the orders earlier has adopted a fill of it: the adopted
\* order has the same orderRef, and every later fill goes to it.
ScriptBooksTrue ==
  \A r \in stored :
    /\ r.by = "script" /\ r.known = "ids"
    /\ \A a \in adoptedBy : a[1] # r.exec[1]
    => r.order = r.exec[1] /\ r.leg = r.exec[2]

\* Two programs store the same fills and each knows them by a table of its own:
\* however their runs meet, break off and are undone, a fill has one row, and
\* ib_exec_seen holds the fills of the service's own rows.  So a fill that the
\* script was the first to store is never seen by the service, which fails on
\* it for as long as its window reaches back to it.
OneRowPerFill ==
  /\ \A q, r \in stored : q.exec = r.exec => q = r
  /\ seenIds = {r.exec : r \in {q \in stored : q.by = "service"}}
=============================================================================
