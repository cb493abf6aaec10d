---------------------------- MODULE MCIbkrBracket ----------------------------
(***************************************************************************)
(* Six prices give twenty placements of stop, entry and take.  With an     *)
(* equity of 100 the caps allow a loss of 1 or of 4, two losses of 1 reach *)
(* the daily limit, and every reason of the gate that can occur does.      *)
(***************************************************************************)
EXTENDS IbkrBracket

MCPrices     == 1 .. 6
MCWinChances == {50, 70, 90}
MCRiskShares == {1, 5}
MCTifs       == {"DAY"}
=============================================================================
