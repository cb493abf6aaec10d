------------------------------- MODULE RiskGate -------------------------------
(***************************************************************************)
(* app/risk.py, evaluate_signal, with core/metrics.py: whether a signal may *)
(* be traded, and with which quantity.  Shares of one (probabilities, caps, *)
(* ratios) are whole percents; prices and money are whole numbers of one   *)
(* unit.  The gate is exact here and uses floats in the code.              *)
(***************************************************************************)
EXTENDS Integers, Sequences

CONSTANTS
  Prices,               \* the prices a signal may name
  WinChances,           \* p_win_raw, in percent
  RiskShares,           \* risk_pct_equity_max, in percent
  Tifs,                 \* values of TimeInForce
  CalibrationAlpha,     \* calibration_alpha, in percent
  MinPWin, MinRR,       \* in percent
  RiskCap,              \* risk_pct_equity_cap, in percent
  DailyLossLimit,       \* daily_loss_limit_pct, in percent
  UtilizationHardCap,   \* equity_utilization_hard_cap, in percent
  CommissionPerShare, CommissionMin,
  EquityUsd             \* SENSEI_EQUITY_USD

ASSUME GateConstants ==
  /\ Prices \subseteq Nat \ {0}
  /\ WinChances \subseteq 0 .. 100
  /\ RiskShares \subseteq Nat \ {0}
  /\ {CalibrationAlpha, MinPWin, UtilizationHardCap} \subseteq 0 .. 100
  /\ {MinRR, RiskCap, DailyLossLimit, EquityUsd} \subseteq Nat \ {0}
  /\ {CommissionPerShare, CommissionMin} \subseteq Nat

EntryTypes == {"market", "limit", "stop", "stop_limit"}

\* The signals the pipeline lets through are long ones (allow_short=False), and
\* the prices of a long signal are ordered.
Signals ==
  {s \in [side : {"BUY"}, entryType : EntryTypes, tif : Tifs, entry : Prices,
          stop : Prices, take : Prices, pWin : WinChances,
          riskShare : RiskShares] :
     s.stop < s.entry /\ s.entry < s.take}

AtLeast(a, b) == IF a >= b THEN a ELSE b
AtMost(a, b)  == IF a <= b THEN a ELSE b

\* _calibrate_p_win, in hundredths of a percent.
Calibrated(p) ==
  AtLeast(0, AtMost(10000, 5000 + CalibrationAlpha * (p - 50)))

Reward(s) == s.take - s.entry
Risk(s)   == s.entry - s.stop

\* Mutant: the configured cap is forgotten.
SizeBySignalOnly(s, equity) == (equity * s.riskShare) \div (100 * Risk(s))

\* calc_position_size: the cap on the loss, in whole shares.
PositionSize(s, equity) ==
  (equity * AtMost(s.riskShare, RiskCap)) \div (100 * Risk(s))

RoundTrip(qty) == 2 * AtLeast(CommissionMin, CommissionPerShare * qty)

\* Mutant: the commission of one side only.
EvUsdOneSide(s, qty) ==
  (Calibrated(s.pWin) * Reward(s) - (10000 - Calibrated(s.pWin)) * Risk(s)) * qty
    - 5000 * RoundTrip(qty)

\* calc_ev_after_costs: EV_usd, times 10000, and risk_usd.
EvUsd(s, qty) ==
  (Calibrated(s.pWin) * Reward(s) - (10000 - Calibrated(s.pWin)) * Risk(s)) * qty
    - 10000 * RoundTrip(qty)
RiskUsd(s, qty) == Risk(s) * qty + RoundTrip(qty)

Drawdown(snap) == AtLeast(0, snap.startDay - snap.current)

\* What stops a trade, in the order in which the gate looks.  The checks for
\* inverted prices and for risk_usd <= 0 never apply to a signal that validated.
Checks(s, snap, qty) ==
  <<[reason |-> "OVER_DAILY_LOSS_LIMIT",
     holds  |-> 100 * Drawdown(snap) >= DailyLossLimit * snap.startDay],
    [reason |-> "OVER_EQUITY_UTILIZATION_CAP",
     holds  |-> snap.utilization >= UtilizationHardCap],
    [reason |-> "LOW_PROBABILITY",
     holds  |-> Calibrated(s.pWin) < 100 * MinPWin],
    [reason |-> "LOW_RR",
     holds  |-> 100 * Reward(s) < MinRR * Risk(s)],
    [reason |-> "OVER_TRADE_RISK_CAP", holds |-> qty <= 0],
    [reason |-> "NEGATIVE_EV",         holds |-> EvUsd(s, qty) <= 0],
    [reason |-> "OK",                  holds |-> TRUE]>>

FirstReason(checks) ==
  LET n == CHOOSE k \in DOMAIN checks :
             checks[k].holds /\ \A j \in 1 .. k - 1 : ~checks[j].holds
  IN  checks[n].reason

\* The refusals that come before the ratio is known name it as 0, which Approval
\* does not admit: evaluate_signal ends in a ValidationError.  BuildSnapshot
\* leaves no room for them.
BeforeRatio == {"OVER_DAILY_LOSS_LIMIT", "OVER_EQUITY_UTILIZATION_CAP"}

\* evaluate_signal with the kill switch off.
Evaluate(s, snap) ==
  LET qty    == PositionSize(s, snap.current)
      reason == FirstReason(Checks(s, snap, qty))
  IN  [reason |-> reason, approved |-> reason = "OK",
       raises |-> reason \in BeforeRatio,
       qty |-> IF reason \in {"OK", "NEGATIVE_EV"} THEN qty ELSE 0]

\* app/service.py, _build_snapshot: the configured equity, nothing used of it.
BuildSnapshot ==
  [startDay |-> EquityUsd, current |-> EquityUsd, utilization |-> 0]
=============================================================================
