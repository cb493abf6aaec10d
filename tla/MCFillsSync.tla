----------------------------- MODULE MCFillsSync -----------------------------
(***************************************************************************)
(* A bracket of the executor, planned with two units and sent with one     *)
(* (see IbkrBracket), and an order of one unit placed by hand.             *)
(***************************************************************************)
EXTENDS FillsSync

MCOrders     == {"auto", "hand"}
MCStubs      == {"hand"}
MCSentQty    == [o \in MCOrders |-> 1]
MCPlannedQty == [o \in MCOrders |-> IF o = "hand" THEN 1 ELSE 2]
=============================================================================
