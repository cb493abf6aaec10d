----------------------------- MODULE MonthlyStats -----------------------------
(***************************************************************************)
(* app/stats.py: the statistics of a month, over a table of trades that    *)
(* other parts are expected to keep (no migration makes it and nothing in  *)
(* the repository writes it: Enter, Mark and Leave are what the columns    *)
(* can tell).  A trade belongs to the month it was entered in, and the     *)
(* report of a month is made on the first day of the next one, as          *)
(* compute_last_month_stats is meant to be used.                           *)
(***************************************************************************)
EXTENDS Integers, Sequences, FiniteSets, FiniteSetsExt, Functions

CONSTANTS
  FirstMonth,  \* the month the table begins in, <<year, month>>
  LastMonth,   \* bounds the months
  MaxTrades,   \* bounds the trades
  Pnls,        \* the values of pnl_net
  NoPnl        \* NULL

Months == Nat \X (1 .. 12)

ASSUME StatsConstants ==
  /\ FirstMonth \in Months /\ LastMonth \in Months
  /\ MaxTrades \in Nat
  /\ Pnls \subseteq Int /\ NoPnl \notin Pnls

VARIABLES
  today,     \* the month it is, <<year, month>>
  trades,    \* the table, in order of entry_time_local
  reported   \* history: the reports made, in order

statsVars == <<today, trades, reported>>

Trades == [entered : Months, closed : BOOLEAN, pnl : Pnls \cup {NoPnl}]

Reports ==
  [total : Nat, closed : Nat, wins : Nat, losses : Nat, breakeven : Nat,
   gross_profit : Int, gross_loss : Int, net : Int, drawdown : Int]

StatsTypeOK ==
  /\ today \in Months
  /\ trades \in Seq(Trades) /\ Len(trades) <= MaxTrades
  /\ reported \in Seq(Reports)

\* _month_bounds: the month that follows.
MonthAfter(ym) ==
  IF ym[2] = 12 THEN <<ym[1] + 1, 1>> ELSE <<ym[1], ym[2] + 1>>

\* Mutant: January is not looked at.
MonthBeforeNaive(ym) == <<ym[1], ym[2] - 1>>

\* compute_last_month_stats
MonthBefore(ym) ==
  IF ym[2] = 1 THEN <<ym[1] - 1, 12>> ELSE <<ym[1], ym[2] - 1>>

\* An ISO date before another, as strings compare.
Before(d, e) == d[1] < e[1] \/ (d[1] = e[1] /\ d[2] < e[2])

StatsInit ==
  /\ today = FirstMonth
  /\ trades = << >> /\ reported = << >>

Enter ==
  /\ Len(trades) < MaxTrades
  /\ trades' = Append(trades, [entered |-> today, closed |-> FALSE,
                               pnl |-> NoPnl])
  /\ UNCHANGED <<today, reported>>

\* An open trade may have a result so far.
Mark(n) ==
  /\ ~trades[n].closed
  /\ \E p \in Pnls : trades' = [trades EXCEPT ![n].pnl = p]
  /\ UNCHANGED <<today, reported>>

\* exit_time_local is set and the status is not OPEN; pnl_net may stay NULL, as
\* for a cancelled trade.
Leave(n) ==
  /\ ~trades[n].closed
  /\ \E p \in Pnls \cup {NoPnl} :
       trades' = [trades EXCEPT ![n].closed = TRUE, ![n].pnl = p]
  /\ UNCHANGED <<today, reported>>

-----------------------------------------------------------------------------
\* The rows of the SELECT, by their places in the order of entry.
MonthRows(ym) ==
  {n \in DOMAIN trades : /\ ~Before(trades[n].entered, ym)
                         /\ Before(trades[n].entered, MonthAfter(ym))}

SumOfPnl(rows) == SumFunction([n \in rows |-> trades[n].pnl])

\* The equity curve before its first result, and after one more.
FlatEquity == [equity |-> 0, peak |-> 0, worst |-> 0]

AfterResult(acc, pnl) ==
  LET equity == acc.equity + pnl
      peak   == Max({acc.peak, equity})
  IN  [equity |-> equity, peak |-> peak,
       worst |-> Min({acc.worst, equity - peak})]

\* Mutant: the peak of the equity does not start at zero.
DrawdownFromFirst(rows) ==
  LET after[n \in 0 .. Len(trades)] ==
        CASE n = 0 -> [FlatEquity EXCEPT !.peak = -1000]
          [] n # 0 /\ n \in rows -> AfterResult(after[n - 1], trades[n].pnl)
          [] OTHER -> after[n - 1]
  IN  after[Len(trades)].worst

\* _compute_max_drawdown, over the results of these rows.
MaxDrawdown(rows) ==
  LET after[n \in 0 .. Len(trades)] ==
        CASE n = 0 -> FlatEquity
          [] n # 0 /\ n \in rows -> AfterResult(after[n - 1], trades[n].pnl)
          [] OTHER -> after[n - 1]
  IN  after[Len(trades)].worst

\* compute_monthly_stats: the results of all trades count for the net result
\* and the drawdown, those of the closed ones for the rest.
ComputeMonthlyStats(ym) ==
  LET rows   == MonthRows(ym)
      known  == {n \in rows : trades[n].pnl # NoPnl}
      closed == {n \in rows : trades[n].closed}
      gain   == {n \in known \cap closed : trades[n].pnl > 0}
      loss   == {n \in known \cap closed : trades[n].pnl < 0}
  IN  [total |-> Cardinality(rows), closed |-> Cardinality(closed),
       wins |-> Cardinality(gain), losses |-> Cardinality(loss),
       breakeven |-> Cardinality((known \cap closed) \ (gain \cup loss)),
       gross_profit |-> SumOfPnl(gain), gross_loss |-> SumOfPnl(loss),
       net |-> SumOfPnl(known), drawdown |-> MaxDrawdown(known)]

\* The first day of the next month, on which the report of the last is made.
NewMonth ==
  /\ Before(today, LastMonth)
  /\ today' = MonthAfter(today)
  /\ reported' = Append(reported, ComputeMonthlyStats(MonthBefore(today')))
  /\ UNCHANGED trades

StatsNext ==
  \/ Enter \/ NewMonth
  \/ \E n \in DOMAIN trades : Mark(n) \/ Leave(n)

StatsSpec == StatsInit /\ [][StatsNext]_statsVars

-----------------------------------------------------------------------------
\* The largest fall of the equity from an earlier point to a later one.
LargestFall(rows) ==
  LET equity == [n \in 0 .. Len(trades) |-> SumOfPnl({m \in rows : m <= n})]
  IN  Max({equity[p[1]] - equity[p[2]] :
             p \in {q \in (0 .. Len(trades)) \X (0 .. Len(trades)) :
                       q[1] <= q[2]}})

\* The reports made so far have between them counted each trade that was
\* entered before this month once, over the turn of the year too.  The drawdown
\* of the month is the largest fall of its equity, the start of the month
\* included, and where all its trades are closed the gross results add up to the
\* net one.
StatsAreExact ==
  LET known == {n \in DOMAIN trades : /\ trades[n].entered = today
                                      /\ trades[n].pnl # NoPnl}
      s     == ComputeMonthlyStats(today)
  IN  /\ SumFunction([k \in DOMAIN reported |-> reported[k].total])
           = Cardinality({n \in DOMAIN trades : Before(trades[n].entered, today)})
      /\ s.drawdown = -LargestFall(known)
      /\ (\A n \in known : trades[n].closed)
           => s.gross_profit + s.gross_loss = s.net
=============================================================================
