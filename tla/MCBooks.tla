------------------------------- MODULE MCBooks -------------------------------
(***************************************************************************)
(* What the numbers say: the sizes and prices of an approved trade on its  *)
(* way to the broker, the fills an operator's script books, the reports    *)
(* read off the ledger, and the statistics of a month.  A behaviour        *)
(* exercises the one that focus names; the others stay as they begin.      *)
(*                                                                         *)
(* Six prices give twenty placements of stop, entry and take; with an      *)
(* equity of 100 the caps allow a loss of 1 or of 4, two losses of 1 reach *)
(* the daily limit, and every reason of the gate that can occur does.      *)
(* Two entries of one can be closed by an exit of two.  The months span    *)
(* the turn of a year.                                                     *)
(***************************************************************************)
EXTENDS IbkrBracket, FillsScript, LedgerReports, MonthlyStats

MCPrices     == 1 .. 6
MCWinChances == {50, 70, 90}
MCRiskShares == {1, 5}
MCTifs       == {"DAY"}

MCSideOf ==
  [o \in Orders |-> CASE o = "long" -> "BUY" [] o = "short" -> "SELL"
                      [] OTHER -> "BOT"]
MCFills  == {[day |-> 1, price |-> 2, qty |-> 1, fee |-> 0],
             [day |-> 2, price |-> 3, qty |-> 2, fee |-> 1]}

MCFirstMonth == <<2025, 12>>
MCLastMonth  == <<2026, 2>>
MCPnls       == {-2, 1}

VARIABLE focus

booksVars == <<focus, vars, scriptVars, ledgerVars, statsVars>>

BooksInit ==
  /\ focus \in {"bracket", "script", "ledger", "stats"}
  /\ Init /\ ScriptInit /\ LedgerInit /\ StatsInit
  /\ focus # "bracket" => signal = CHOOSE s \in Signals : TRUE

OnlyBracket ==
  /\ focus = "bracket" /\ Next
  /\ UNCHANGED <<focus, scriptVars, ledgerVars, statsVars>>

OnlyScript ==
  /\ focus = "script" /\ ScriptNext
  /\ UNCHANGED <<focus, vars, ledgerVars, statsVars>>

OnlyLedger ==
  /\ focus = "ledger" /\ LedgerNext
  /\ UNCHANGED <<focus, vars, scriptVars, statsVars>>

OnlyStats ==
  /\ focus = "stats" /\ StatsNext
  /\ UNCHANGED <<focus, vars, scriptVars, ledgerVars>>

BooksNext == OnlyBracket \/ OnlyScript \/ OnlyLedger \/ OnlyStats

BooksSpec == BooksInit /\ [][BooksNext]_booksVars
=============================================================================
