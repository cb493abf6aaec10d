----------------------------- MODULE LedgerReports -----------------------------
(***************************************************************************)
(* The ledger (orders and executions of the SQLite database), those who    *)
(* write it besides the synchronisation, and the reports that are read off *)
(* it: show_pnl.py, show_positions.py, sensei_offline_review.py, the view  *)
(* v_order_pnl_r, and the scripts built on show_equity.py.  Each of them   *)
(* has its own reading of the legs and of the signs.                       *)
(*                                                                         *)
(* There is one symbol; prices, quantities and fees are whole numbers, and *)
(* a timestamp is its day.  And there is one database: the review always   *)
(* reads data/trader.db, the other reports the file that SENSEI_DB_PATH or *)
(* --db names, which is taken to be the same.                              *)
(***************************************************************************)
EXTENDS Integers, FiniteSets, FiniteSetsExt, Functions

CONSTANTS
  Orders,    \* the orders that may be placed
  SideOf,    \* their side; of an order adopted from a fill, in IBKR's words
  MaxRows,   \* bounds the ids of executions
  Fills      \* what a fill tells: its day, price, quantity and fee

ASSUME LedgerConstants ==
  /\ SideOf \in [Orders -> {"BUY", "SELL", "BOT", "SLD"}]
  /\ MaxRows \in Nat
  /\ Fills \subseteq [day : Nat, price : Nat, qty : Nat \ {0}, fee : Nat]

RowIds == 1 .. MaxRows

Adopted == {o \in Orders : SideOf[o] \in {"BOT", "SLD"}}

VARIABLES
  placed,      \* the rows of orders
  executions,  \* the rows of executions
  lastId,      \* the last id given out
  tidy,        \* history: the orders that were not adopted and have no row
               \* written by hand since they were last cleaned
  pnlView      \* which v_order_pnl_r is installed: that of the migrations, or
               \* that of init_views.py

ledgerVars == <<placed, executions, lastId, tidy, pnlView>>

ExecutionRows ==
  [id : RowIds, order : Orders, leg : {"PARENT", "TAKE", "STOP", "CLOSE"},
   day : Nat, price : Nat, qty : Nat \ {0}, fee : Nat]

LedgerTypeOK ==
  /\ placed \subseteq Orders /\ tidy \subseteq Orders
  /\ lastId \in 0 .. MaxRows
  /\ executions \subseteq ExecutionRows
  /\ \A e \in executions : e.id <= lastId /\ e.order \in placed
  /\ \A d, e \in executions : d.id = e.id => d = e
  /\ pnlView \in {"computed", "stub"}

LedgerInit ==
  /\ placed = {} /\ executions = {}
  /\ lastId = 0
  /\ tidy = Orders \ Adopted
  /\ pnlView = "computed"

-----------------------------------------------------------------------------
(* Who writes the ledger.                                                  *)

AddRow(o, leg, fill) ==
  /\ lastId < MaxRows
  /\ lastId' = lastId + 1
  /\ executions' = executions \cup
       {[id |-> lastId + 1, order |-> o, leg |-> leg, day |-> fill.day,
         price |-> fill.price, qty |-> fill.qty, fee |-> fill.fee]}
  /\ UNCHANGED pnlView

PlaceOrder(o) ==
  /\ o \notin placed \cup Adopted
  /\ placed' = placed \cup {o}
  /\ UNCHANGED <<executions, lastId, tidy, pnlView>>

\* _offline_fill of the executor: at no price and for no fee.
OfflineFill(o) ==
  /\ o \in placed
  /\ \E f \in Fills : AddRow(o, "PARENT", [f EXCEPT !.price = 0, !.fee = 0])
  /\ UNCHANGED <<placed, tidy>>

\* What the synchronisation of the fills inserts.
SyncFill(o) ==
  /\ o \in placed
  /\ \E leg \in {"PARENT", "TAKE", "STOP"}, f \in Fills : AddRow(o, leg, f)
  /\ UNCHANGED <<placed, tidy>>

\* fix_close_fill.py: a closing trade made by hand at the broker is booked as
\* the take of a chosen order, without its fee.
CloseFill(o) ==
  /\ o \in placed
  /\ \E f \in Fills : AddRow(o, "TAKE", [f EXCEPT !.fee = 0])
  /\ UNCHANGED <<placed, tidy>>

\* A row inserted by hand, as those that fix_executions_cleanup.py is for.
HandWrittenRow(o) ==
  /\ o \in placed
  /\ \E f \in Fills : AddRow(o, "CLOSE", f)
  /\ tidy' = tidy \ {o}
  /\ UNCHANGED placed

\* sync_ibkr_fills.py makes an order of a fill that it cannot match.
AdoptFill(o) ==
  /\ o \in Adopted \ placed
  /\ placed' = placed \cup {o}
  /\ \E f \in Fills : AddRow(o, "PARENT", f)
  /\ UNCHANGED tidy

RowsOf(o) == {e \in executions : e.order = o}

Earlier(d, e) == d.day < e.day \/ (d.day = e.day /\ d.id < e.id)

Copies(d, e) ==
  /\ d.leg = e.leg /\ d.day = e.day
  /\ d.price = e.price /\ d.qty = e.qty

\* ids_to_delete: the rows CLOSE, the entries after the first one, and the
\* copies of an earlier row.
ToDelete(o) ==
  {e \in RowsOf(o) :
     \/ e.leg = "CLOSE"
     \/ /\ e.leg = "PARENT"
        /\ \E d \in RowsOf(o) : d.leg = "PARENT" /\ Earlier(d, e)
     \/ \E d \in RowsOf(o) : d.id < e.id /\ Copies(d, e)}

\* fix_executions_cleanup.py --apply
Cleanup(o) ==
  /\ ToDelete(o) # {}
  /\ executions' = executions \ ToDelete(o)
  /\ tidy' = tidy \cup ({o} \ Adopted)
  /\ UNCHANGED <<placed, lastId, pnlView>>

\* init_views.py, and ensure_views at the start of the service: the last one
\* to run decides which view there is.
InitViews ==
  /\ pnlView' = "stub"
  /\ UNCHANGED <<placed, executions, lastId, tidy>>

EnsureViews ==
  /\ pnlView' = "computed"
  /\ UNCHANGED <<placed, executions, lastId, tidy>>

\* reset_offline_db.py, and the next start of the service, which makes a new
\* database.
ResetDatabase ==
  /\ placed' = {} /\ executions' = {}
  /\ lastId' = 0
  /\ tidy' = Orders \ Adopted
  /\ pnlView' = "computed"

LedgerNext ==
  \/ \E o \in Orders :
       \/ PlaceOrder(o) \/ OfflineFill(o) \/ SyncFill(o) \/ CloseFill(o)
       \/ HandWrittenRow(o) \/ AdoptFill(o) \/ Cleanup(o)
  \/ InitViews \/ EnsureViews
  \/ ResetDatabase

LedgerSpec == LedgerInit /\ [][LedgerNext]_ledgerVars

-----------------------------------------------------------------------------
(* The reports.                                                            *)

\* What a side other than BUY and SELL counts for differs.
BuyOrElse(o) == IF SideOf[o] = "BUY" THEN 1 ELSE -1

SellOrElse(o) == IF SideOf[o] = "SELL" THEN -1 ELSE 1

Fees(rows) == SumFunction([e \in rows |-> e.fee])

\* The net quantity and the cash that a report makes of the rows of an order it
\* takes for entries and those it takes for exits.
Net(sign, entries, exits) ==
  sign * (SumFunction([e \in entries |-> e.qty])
          - SumFunction([e \in exits |-> e.qty]))

Cash(sign, entries, exits) ==
  sign * (SumFunction([e \in exits |-> e.price * e.qty])
          - SumFunction([e \in entries |-> e.price * e.qty]))

WithLeg(o, legs) == {e \in RowsOf(o) : e.leg \in legs}

\* show_pnl.py: other legs are passed over, though not their fees.
PnlNet(o) ==
  Net(BuyOrElse(o), WithLeg(o, {"PARENT"}), WithLeg(o, {"TAKE", "STOP"}))

PnlRealized(o) ==
  Cash(BuyOrElse(o), WithLeg(o, {"PARENT"}), WithLeg(o, {"TAKE", "STOP"}))
    - Fees(RowsOf(o))

PnlClosed == {o \in placed : PnlNet(o) = 0}

PnlSummary == SumFunction([o \in PnlClosed |-> PnlRealized(o)])

\* show_positions.py: a leg it does not know is an entry.
PositionsNet ==
  SumFunction([o \in placed |->
                 LET exits == WithLeg(o, {"TAKE", "STOP"})
                 IN  Net(SellOrElse(o), RowsOf(o) \ exits, exits)])

\* Mutant: the stop is left out of the exits.
ReviewExitsShort(o) == WithLeg(o, {"TAKE", "CLOSE"})

\* sensei_offline_review.py, build_order_stats: what is no exit is an entry,
\* and what an order earned is known once it is closed.
ReviewExits(o) == WithLeg(o, {"TAKE", "STOP", "CLOSE"})

OrderStats ==
  [o \in {x \in placed : RowsOf(x) # {}} |->
     LET exits   == ReviewExits(o)
         entries == RowsOf(o) \ exits
         net     == Net(BuyOrElse(o), entries, exits)
     IN  [net |-> net,
          closed |-> net = 0,
          close |-> Max({e.day : e \in RowsOf(o)}),
          realized |-> IF net = 0
                         THEN Cash(BuyOrElse(o), entries, exits)
                              - Fees(RowsOf(o))
                         ELSE 0]]

\* build_day_stats: the closed orders of a day, and those of all history.
DayOrders(stats, day) ==
  {o \in DOMAIN stats : stats[o].closed /\ stats[o].close = day}

DayRealized(stats, day) ==
  SumFunction([o \in DayOrders(stats, day) |-> stats[o].realized])

HistoryRealized(stats) ==
  SumFunction([o \in {x \in DOMAIN stats : stats[x].closed} |->
                 stats[o].realized])

\* build_positions
ReviewPositions(stats) ==
  SumFunction([o \in DOMAIN stats |-> stats[o].net])

\* v_order_pnl_r of the migrations: the stop is neither entry nor exit.
ViewEntries(o) == WithLeg(o, {"PARENT"})

ViewExits(o) == WithLeg(o, {"TAKE", "CLOSE"})

\* Mutant: a sale has the sign of a purchase.
ViewSignOfBuy(o) == 1

ViewSign(o) ==
  CASE SideOf[o] = "BUY" -> 1 [] SideOf[o] = "SELL" -> -1 [] OTHER -> 0

ViewRealized(o) ==
  IF /\ pnlView = "computed"
     /\ Net(ViewSign(o), ViewEntries(o), ViewExits(o)) = 0
    THEN Cash(ViewSign(o), ViewEntries(o), ViewExits(o)) - Fees(RowsOf(o))
    ELSE 0

-----------------------------------------------------------------------------
(* The scripts that are built on show_equity.py.                           *)

\* build_equity: a row with a quantity calls signed_qty(side, leg, qty), and
\* that of show_pnl.py takes two arguments.
EquityRaises == \E e \in executions : e.qty # 0

\* build_positions of the scripts below: a row of sqlite3 has no get.
PositionsRaise == executions # {}

StatusRaises == EquityRaises \/ PositionsRaise

DailyReportRaises == EquityRaises \/ PositionsRaise

JournalRaises == EquityRaises \/ PositionsRaise

\* sensei_daily_prompt.py: there is a prompt when a day has closed orders.
PromptWritten ==
  ~EquityRaises /\ ~PositionsRaise /\ \E o \in PnlClosed : RowsOf(o) # {}

\* sensei_llm_review.py runs it and exits with 1 unless it finds the prompt.
ReviewExits1 == ~PromptWritten

-----------------------------------------------------------------------------
\* As long as the rows of an order come from the program, or once the order has
\* been cleaned, the three reports tell the same of it: its open quantity, that
\* it is closed, and what it earned; and when that is so of all orders, the
\* position and the total they show are the same, and the days of the review
\* add up to its history.  An adopted order is excepted: its side is BOT or SLD,
\* which two of them take for a sale and one for a purchase.
ReportsAgree ==
  LET stats == OrderStats
  IN  /\ \A o \in tidy \cap DOMAIN stats :
           /\ stats[o].net = PnlNet(o)
           /\ stats[o].closed => stats[o].realized = PnlRealized(o)
      /\ placed \subseteq tidy =>
           /\ PositionsNet = ReviewPositions(stats)
           /\ HistoryRealized(stats) = PnlSummary
           /\ LET days == {stats[o].close : o \in DOMAIN stats}
              IN  SumFunction([d \in days |-> DayRealized(stats, d)])
                    = HistoryRealized(stats)

\* Without a stop among its rows an order has the same result in v_order_pnl_r,
\* which the risk snapshot reads, as in show_pnl.py: nothing while it is open.
ViewAgreesWithoutStops ==
  \A o \in tidy \cap placed :
    pnlView = "computed" /\ WithLeg(o, {"STOP"}) = {} =>
      ViewRealized(o) = IF PnlNet(o) = 0 THEN PnlRealized(o) ELSE 0

\* show_equity.py:14: the net quantity of an order is the sum of signed_qty over
\* BUY and SELL and the legs; where it is 0 the order is in the equity curve,
\* and in the reports that are made of it.
ReportsAreProduced ==
  (\E o \in PnlClosed : RowsOf(o) # {}) =>
    ~StatusRaises /\ ~DailyReportRaises /\ ~JournalRaises /\ ~ReviewExits1
=============================================================================
