----------------------------- MODULE IbkrBracket -----------------------------
(***************************************************************************)
(* What a signal becomes on its way to the broker: the approval of RiskGate *)
(* with its quantity, the Order that app/executor.py builds from them      *)
(* (_build_st_order), and the three broker orders that                     *)
(* adapters/ibkr/client.py derives from the Order's legs and sends one     *)
(* after the other (place_bracket_order).  OrderExecutor models when the   *)
(* legs are sent and what fails; this module models what they say, and the *)
(* losses of the day, which the gate's snapshot is to follow.              *)
(*                                                                         *)
(* An attribute that getattr does not find is a field the record lacks.    *)
(***************************************************************************)
EXTENDS RiskGate

CONSTANT MaxDayLoss   \* bounds the losses of the day

ASSUME MaxDayLossIsNat == MaxDayLoss \in Nat

NoPrice == 0
NoOrder == <<>>

VARIABLES
  signal,     \* the signal in hand
  approval,   \* what the risk gate makes of it
  order,      \* the Order built from it, if it is approved
  sent,       \* the broker orders sent for it, in order
  dayLoss     \* history: what the day's stopped positions have lost

vars == <<signal, approval, order, sent, dayLoss>>

-----------------------------------------------------------------------------
Opposite(side) == IF side = "BUY" THEN "SELL" ELSE "BUY"

\* STOP_LIMIT is degraded to a stop order; a market leg has no price.
ParentLeg(s) ==
  [type  |-> CASE s.entryType = "market" -> "MKT"
               [] s.entryType = "limit"  -> "LMT"
               [] OTHER                  -> "STP",
   price |-> IF s.entryType = "market" THEN NoPrice ELSE s.entry,
   tif   |-> s.tif]

\* Mutant: take and stop change places.
BuildOrderSwapped(s, qty) ==
  [side   |-> s.side,
   qty    |-> qty,
   parent |-> ParentLeg(s),
   take   |-> [type |-> "LMT", price |-> s.stop, tif |-> s.tif],
   stop   |-> [type |-> "STP", price |-> s.take, tif |-> s.tif]]

\* The Order has the side and the quantity; its legs have neither.
BuildOrder(s, qty) ==
  [side   |-> s.side,
   qty    |-> qty,
   parent |-> ParentLeg(s),
   take   |-> [type |-> "LMT", price |-> s.take, tif |-> s.tif],
   stop   |-> [type |-> "STP", price |-> s.stop, tif |-> s.tif]]

\* The adapter asks the parent leg for the side and the quantity, and falls
\* back to BUY and to 1.
ActionOf(leg) == IF "side" \in DOMAIN leg THEN leg.side ELSE "BUY"
QtyOf(leg)    == IF "qty" \in DOMAIN leg THEN leg.qty ELSE 1

\* str() of an enumeration member, in capitals: not the member's value.
BrokerTif(tif) == <<"TIMEINFORCE", tif>>

\* A parent leg that is not a market order is sent as a limit order, a stop
\* leg included.
ParentOrder(o) ==
  [type     |-> IF o.parent.type = "MKT" THEN "MKT" ELSE "LMT",
   action   |-> ActionOf(o.parent),
   qty      |-> QtyOf(o.parent),
   price    |-> o.parent.price,
   tif      |-> BrokerTif(o.parent.tif),
   child    |-> FALSE,
   transmit |-> FALSE]

\* Take and stop close what the parent opens, and name it as their parent.
ExitOrder(o, leg, type, transmit) ==
  [type     |-> type,
   action   |-> Opposite(ActionOf(o.parent)),
   qty      |-> QtyOf(o.parent),
   price    |-> leg.price,
   tif      |-> BrokerTif(leg.tif),
   child    |-> TRUE,
   transmit |-> transmit]

\* Mutant: the take transmits, too.
TakeTransmits(o) == ExitOrder(o, o.take, "LMT", TRUE)

TakeOrder(o) == ExitOrder(o, o.take, "LMT", FALSE)

StopOrder(o) == ExitOrder(o, o.stop, "STP", TRUE)

-----------------------------------------------------------------------------
\* The next signal is evaluated and, if it is approved, made into an Order.
Take(s, a) ==
  /\ signal' = s
  /\ approval' = a
  /\ order' = IF a.approved THEN BuildOrder(s, a.qty) ELSE NoOrder
  /\ sent' = <<>>

Init ==
  /\ signal \in Signals
  /\ approval = Evaluate(signal, BuildSnapshot)
  /\ order = IF approval.approved THEN BuildOrder(signal, approval.qty)
             ELSE NoOrder
  /\ sent = <<>>
  /\ dayLoss = 0

\* The Nth broker order follows the first N - 1.
Send(n, brokerOrder) ==
  /\ Len(sent) = n - 1
  /\ sent' = Append(sent, brokerOrder)
  /\ UNCHANGED <<signal, approval, order, dayLoss>>

SendParent == order # NoOrder /\ Send(1, ParentOrder(order))
SendTake   == order # NoOrder /\ Send(2, TakeOrder(order))
SendStop   == order # NoOrder /\ Send(3, StopOrder(order))

Finished == order = NoOrder \/ Len(sent) = 3

NextSignal ==
  /\ Finished
  /\ \E s \in Signals : Take(s, Evaluate(s, BuildSnapshot))
  /\ UNCHANGED dayLoss

\* The position ends at its stop, and the next signal comes after that.
StoppedOut ==
  /\ Len(sent) = 3
  /\ dayLoss < MaxDayLoss
  /\ dayLoss' = dayLoss + sent[1].qty * Risk(signal)
  /\ \E s \in Signals : Take(s, Evaluate(s, BuildSnapshot))

Next == SendParent \/ SendTake \/ SendStop \/ NextSignal \/ StoppedOut

Spec == Init /\ [][Next]_vars

-----------------------------------------------------------------------------
Entry == sent[1]
Exits == {sent[n] : n \in 2 .. Len(sent)}

\* Nothing at the broker becomes active before the whole bracket is there: the
\* order that transmits is the last one sent, and both exits close the position
\* the entry opens, in the entry's quantity, with a stop among them.
ActivatedWhole ==
  (\E n \in 1 .. Len(sent) : sent[n].transmit) =>
    /\ Len(sent) = 3
    /\ sent[3].transmit /\ ~sent[1].transmit /\ ~sent[2].transmit
    /\ {x.type : x \in Exits} = {"LMT", "STP"}
    /\ \A x \in Exits :
         x.child /\ x.action = Opposite(Entry.action) /\ x.qty = Entry.qty

\* The stop sent protects the position the entry opens and the take is its
\* profit: the side and the prices of the signal are never mixed up between the
\* legs, whatever the entry type.
PositionIsProtected ==
  Len(sent) = 3 =>
    /\ Entry.action = signal.side
    /\ Entry.type = "LMT" => Entry.price = signal.entry
    /\ \E x \in Exits : x.type = "STP" /\ x.price = signal.stop
    /\ \E x \in Exits : x.type = "LMT" /\ x.price = signal.take

\* An approved quantity is the largest whose loss at the stop stays within the
\* smaller of the signal's and the configuration's cap, and is never zero.
SizedToTheCap ==
  approval.approved =>
    LET cap == EquityUsd * AtMost(signal.riskShare, RiskCap) IN
    /\ approval.qty >= 1
    /\ 100 * approval.qty * Risk(signal) <= cap
    /\ 100 * (approval.qty + 1) * Risk(signal) > cap

\* An approved trade wins on average: the gain at the take and the loss at the
\* stop, each after the commissions of both sides and weighed with the
\* calibrated probability, sum to more than nothing; and the trade is one the
\* configured floors admit.
ApprovedWinsOnAverage ==
  approval.approved =>
    LET q    == approval.qty
        p    == Calibrated(signal.pWin)
        gain == Reward(signal) * q - RoundTrip(q)
        loss == Risk(signal) * q + RoundTrip(q)
    IN  /\ p * gain > (10000 - p) * loss
        /\ p >= 100 * MinPWin
        /\ 100 * Reward(signal) >= MinRR * Risk(signal)

\* "Daily drawdown limit on equity (0.02 = -2%)" (config/risk_config.yaml): no
\* signal is approved on a day that has lost that much.  It is, because the
\* snapshot's equity never moves.
DailyLossStopsTrading ==
  approval.approved => 100 * dayLoss < DailyLossLimit * EquityUsd

\* "An order ready for the IBKR adapter", with its "total quantity (shares/
\* contracts) for the bracket" and the type of each leg (core/schemas.py, Order
\* and OrderLeg): the entry sent has the Order's quantity and type.  It does not.
SentIsTheOrder ==
  Len(sent) > 0 => Entry.qty = order.qty /\ Entry.type = order.parent.type
=============================================================================
