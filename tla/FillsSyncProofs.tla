--------------------------- MODULE FillsSyncProofs ---------------------------
(***************************************************************************)
(* The ledger invariants of FillsSync for any orders and quantities.       *)
(* SyncInv adds to them what a transaction has written so far: rows that   *)
(* match its own seen set, and every order it added an execution to among  *)
(* those whose status it will compute.                                     *)
(***************************************************************************)
EXTENDS FillsSync, TLAPS

OneRowEach(s) == [e \in Executions |-> IF e \in s THEN 1 ELSE 0]

\* What the synchronisation in progress knows and has written.
InProgress ==
  /\ ibMap \subseteq tracked
  /\ batch \subseteq executed
  /\ pc = "store" =>
       /\ tx.rows = OneRowEach(tx.seen)
       /\ seen \subseteq tx.seen
       /\ \A e \in tx.seen \ seen :
            e \in executed /\ e[1] \in ibMap /\ e[1] \in tx.touched

SyncInv ==
  /\ SyncTypeOK
  /\ InProgress
  /\ LedgerExactlyOnce
  /\ StatusMatchesLedger
  /\ LedgerIsTheBrokers

-----------------------------------------------------------------------------
LEMMA ExecutionHasOrder == \A e \in Executions : e[1] \in Orders
BY DEF Executions

LEMMA NoTxType == NoTx \in Transactions
BY DEF NoTx, Transactions

\* Computing the status again gives the same status.
LEMMA StatusForTwice ==
  ASSUME NEW ledger, NEW o, NEW p
  PROVE  StatusFor(ledger, o, StatusFor(ledger, o, p)) = StatusFor(ledger, o, p)
BY DEF StatusFor

\* The status of an order depends on the rows of its own executions.
LEMMA StatusIsLocal ==
  ASSUME NEW a, NEW b, NEW o, NEW p,
         \A e \in Executions : e[1] = o => a[e] = b[e]
  PROVE  StatusFor(a, o, p) = StatusFor(b, o, p)
<1>1. ASSUME NEW ls PROVE Total(a, o, ls) = Total(b, o, ls)
  <2>1. [e \in ExecutionsOf(o, ls) |-> a[e]]
      = [e \in ExecutionsOf(o, ls) |-> b[e]]
    BY DEF ExecutionsOf
  <2> QED BY <2>1 DEF Total
<1>2. Entered(a, o) = Entered(b, o) /\ Exited(a, o) = Exited(b, o)
  BY <1>1 DEF Entered, Exited
<1> QED BY <1>2 DEF StatusFor

LEMMA StatusForType ==
  ASSUME NEW ledger, NEW o, NEW p \in Statuses
  PROVE  StatusFor(ledger, o, p) \in Statuses
BY DEF StatusFor, Statuses

-----------------------------------------------------------------------------
LEMMA SyncInvInit == SyncInit => SyncInv
<1> SUFFICES ASSUME SyncInit PROVE SyncInv
  OBVIOUS
<1>1. SyncTypeOK
  BY NoTxType DEF SyncInit, SyncTypeOK, Statuses
<1>2. /\ InProgress /\ LedgerExactlyOnce
      /\ StatusMatchesLedger /\ LedgerIsTheBrokers
  BY DEF SyncInit, InProgress, LedgerExactlyOnce, StatusMatchesLedger,
         LedgerIsTheBrokers
<1> QED BY <1>1, <1>2 DEF SyncInv

\* A transaction that records one execution more keeps its rows in step with
\* its seen set.
LEMMA StoreKeepsInv == SyncInv /\ Store => SyncInv'
<1> SUFFICES ASSUME SyncInv, pc = "store", NEW e \in batch,
                    Skip(e) \/ Record(e), batch' = batch \ {e},
                    UNCHANGED <<executed, recent, tracked, status, seen, rows,
                                pc, ibMap>>
             PROVE  SyncInv'
  BY DEF Store
<1> USE DEF SyncInv
<1>1. e \in Executions /\ e \in executed
  BY DEF SyncTypeOK, InProgress
<1>2. LedgerExactlyOnce' /\ StatusMatchesLedger' /\ LedgerIsTheBrokers'
  BY DEF LedgerExactlyOnce, StatusMatchesLedger, LedgerIsTheBrokers
<1>3. CASE Skip(e)
  <2>1. SyncTypeOK' /\ InProgress'
    BY <1>3 DEF SyncTypeOK, InProgress, Skip
  <2> QED BY <1>2, <2>1
<1>4. CASE Record(e)
  <2>1. tx'.seen = tx.seen \cup {e} /\ tx'.touched = tx.touched \cup {e[1]}
    BY <1>4 DEF Record
  <2>2. tx'.rows = [tx.rows EXCEPT ![e] = @ + 1]
    BY <1>4 DEF Record
  <2>3. tx'.rows = OneRowEach(tx'.seen)
    <3>1. tx.rows = OneRowEach(tx.seen) /\ e \notin tx.seen
      BY <1>4 DEF Record, InProgress
    <3> QED BY <1>1, <2>1, <2>2, <3>1 DEF OneRowEach
  <2>4. tx' \in Transactions
    <3>1. tx \in Transactions
      BY DEF SyncTypeOK
    <3>2. tx'.rows \in [Executions -> Nat]
      BY <2>3 DEF OneRowEach
    <3>3. tx'.seen \subseteq Executions /\ tx'.touched \subseteq Orders
      BY <1>1, <2>1, <3>1, ExecutionHasOrder DEF Transactions
    <3>4. tx' = [seen |-> tx'.seen, rows |-> tx'.rows, touched |-> tx'.touched]
      BY <1>4 DEF Record
    <3> QED BY <3>2, <3>3, <3>4 DEF Transactions
  <2>5. SyncTypeOK'
    BY <2>4 DEF SyncTypeOK
  <2>6. InProgress'
    BY <1>1, <1>4, <2>1, <2>3 DEF InProgress, Record
  <2> QED BY <1>2, <2>5, <2>6
<1> QED BY <1>3, <1>4

\* Committing puts the transaction's rows, its seen set and the status of the
\* orders it touched in place together.
LEMMA CommitKeepsInv == SyncInv /\ Commit => SyncInv'
<1> SUFFICES ASSUME SyncInv, Commit PROVE SyncInv'
  OBVIOUS
<1> USE DEF SyncInv, Commit
<1>1. /\ tx.rows = OneRowEach(tx.seen) /\ seen \subseteq tx.seen
      /\ \A e \in tx.seen \ seen :
           e \in executed /\ e[1] \in ibMap /\ e[1] \in tx.touched
  BY DEF InProgress
<1>2. tx \in Transactions
  BY DEF SyncTypeOK
<1>3. SyncTypeOK'
  <2>1. \A o \in Orders : StatusFor(tx.rows, o, status[o]) \in Statuses
    BY StatusForType DEF SyncTypeOK
  <2>2. status' \in [Orders -> Statuses]
    BY <2>1 DEF SyncTypeOK
  <2>3. seen' \subseteq Executions /\ rows' \in [Executions -> Nat]
    BY <1>2 DEF Transactions
  <2> QED BY <2>2, <2>3, NoTxType DEF SyncTypeOK
<1>4. InProgress'
  BY DEF InProgress
<1>5. LedgerExactlyOnce'
  BY <1>1 DEF LedgerExactlyOnce, OneRowEach
<1>6. LedgerIsTheBrokers'
  BY <1>1 DEF LedgerIsTheBrokers, InProgress
<1>7. StatusMatchesLedger'
  <2> SUFFICES ASSUME NEW e \in tx.seen
               PROVE  status'[e[1]] = StatusFor(tx.rows, e[1], status'[e[1]])
    BY DEF StatusMatchesLedger
  <2>1. e[1] \in Orders
    BY <1>2, ExecutionHasOrder DEF Transactions
  <2>2. CASE e[1] \in tx.touched
    <3>1. status'[e[1]] = StatusFor(tx.rows, e[1], status[e[1]])
      BY <2>1, <2>2
    <3> QED BY <3>1, StatusForTwice
  <2>3. CASE e[1] \notin tx.touched
    <3>1. status'[e[1]] = status[e[1]]
      BY <2>1, <2>3
    <3>2. e \in seen
      BY <1>1, <2>3
    <3>3. \A d \in Executions : d[1] = e[1] => rows[d] = tx.rows[d]
      BY <1>1, <2>3 DEF LedgerExactlyOnce, OneRowEach
    <3>4. StatusFor(rows, e[1], status[e[1]])
            = StatusFor(tx.rows, e[1], status[e[1]])
      BY <3>3, StatusIsLocal
    <3>5. status[e[1]] = StatusFor(rows, e[1], status[e[1]])
      BY <3>2 DEF StatusMatchesLedger
    <3> QED BY <3>1, <3>4, <3>5
  <2> QED BY <2>2, <2>3
<1> QED BY <1>3, <1>4, <1>5, <1>6, <1>7

\* An order whose row gets its broker ids has no execution in the ledger yet.
LEMMA TrackKeepsInv ==
  ASSUME SyncInv, NEW o \in Orders, Track(o)
  PROVE  SyncInv'
<1> USE DEF SyncInv, Track
<1>1. PICK s \in Statuses : status' = [status EXCEPT ![o] = s]
  BY DEF Statuses
<1>2. SyncTypeOK'
  BY <1>1 DEF SyncTypeOK
<1>3. InProgress' /\ LedgerExactlyOnce' /\ LedgerIsTheBrokers'
  BY DEF InProgress, LedgerExactlyOnce, LedgerIsTheBrokers, OneRowEach
<1>4. StatusMatchesLedger'
  <2>1. \A e \in seen : e[1] # o
    BY DEF LedgerIsTheBrokers
  <2>2. \A e \in seen : status'[e[1]] = status[e[1]]
    BY <1>1, <2>1, ExecutionHasOrder DEF SyncTypeOK
  <2> QED BY <2>2 DEF StatusMatchesLedger
<1> QED BY <1>2, <1>3, <1>4

\* A transaction begins with the committed tables.
LEMMA BeginKeepsInv ==
  ASSUME SyncInv, NEW fetched, fetched \subseteq executed, Begin(fetched)
  PROVE  SyncInv'
<1> USE DEF SyncInv, Begin
<1>1. LedgerExactlyOnce' /\ StatusMatchesLedger' /\ LedgerIsTheBrokers'
  BY DEF LedgerExactlyOnce, StatusMatchesLedger, LedgerIsTheBrokers
<1>2. [seen |-> seen, rows |-> rows, touched |-> {}] \in Transactions
  BY DEF SyncTypeOK, Transactions
<1>3. SyncTypeOK'
  BY <1>2, NoTxType DEF SyncTypeOK
<1>4. InProgress'
  BY DEF InProgress, LedgerExactlyOnce, OneRowEach
<1> QED BY <1>1, <1>3, <1>4

LEMMA SyncInvStep == SyncInv /\ [SyncNext]_syncVars => SyncInv'
<1> SUFFICES ASSUME SyncInv, [SyncNext]_syncVars PROVE SyncInv'
  OBVIOUS
<1> USE DEF SyncInv
<1>1. CASE ReadMap
  BY <1>1 DEF ReadMap, SyncTypeOK, InProgress, LedgerExactlyOnce,
              StatusMatchesLedger, LedgerIsTheBrokers
<1>2. CASE Fetch
  BY <1>2, BeginKeepsInv DEF Fetch, SyncTypeOK
<1>3. CASE FetchFallback
  BY <1>3, BeginKeepsInv DEF FetchFallback
<1>4. CASE Store
  BY <1>4, StoreKeepsInv
<1>5. CASE Commit
  BY <1>5, CommitKeepsInv
<1>6. CASE SyncFails
  BY <1>6, NoTxType
     DEF SyncFails, SyncTypeOK, InProgress, LedgerExactlyOnce,
         StatusMatchesLedger, LedgerIsTheBrokers
<1>7. CASE BrokerFills
  BY <1>7 DEF BrokerFills, SyncTypeOK, InProgress, LedgerExactlyOnce,
              StatusMatchesLedger, LedgerIsTheBrokers
<1>8. CASE TimePasses
  BY <1>8 DEF TimePasses, SyncTypeOK, InProgress, LedgerExactlyOnce,
              StatusMatchesLedger, LedgerIsTheBrokers
<1>9. CASE \E o \in Orders : Track(o)
  BY <1>9, TrackKeepsInv
<1>10. CASE UNCHANGED syncVars
  BY <1>10 DEF syncVars, SyncTypeOK, InProgress, LedgerExactlyOnce,
               StatusMatchesLedger, LedgerIsTheBrokers
<1> QED BY <1>1, <1>2, <1>3, <1>4, <1>5, <1>6, <1>7, <1>8, <1>9, <1>10
           DEF SyncNext

LEMMA SyncInvAlways == SyncSpec => []SyncInv
<1> QED BY SyncInvInit, SyncInvStep, PTL DEF SyncSpec

\* The types of the tables and of the open transaction.
THEOREM SyncTypes == SyncSpec => []SyncTypeOK
<1>1. SyncInv => SyncTypeOK
  BY DEF SyncInv
<1> QED BY <1>1, SyncInvAlways, PTL

\* An execution is stored once: ib_exec_seen and executions agree whatever
\* fails between the two INSERTs and however the fetched windows overlap.
THEOREM FillsAreStoredOnce == SyncSpec => []LedgerExactlyOnce
<1>1. SyncInv => LedgerExactlyOnce
  BY DEF SyncInv
<1> QED BY <1>1, SyncInvAlways, PTL

\* The status of an order the ledger tells of follows from the ledger alone,
\* for any quantities, in whatever order the fills came in.
THEOREM StatusFollowsLedger == SyncSpec => []StatusMatchesLedger
<1>1. SyncInv => StatusMatchesLedger
  BY DEF SyncInv
<1> QED BY <1>1, SyncInvAlways, PTL

\* The ledger tells of the broker's own executions, of tracked orders only.
THEOREM LedgerIsSound == SyncSpec => []LedgerIsTheBrokers
<1>1. SyncInv => LedgerIsTheBrokers
  BY DEF SyncInv
<1> QED BY <1>1, SyncInvAlways, PTL
=============================================================================
