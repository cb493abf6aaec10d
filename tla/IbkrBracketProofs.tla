--------------------------- MODULE IbkrBracketProofs ---------------------------
(***************************************************************************)
(* What is approved, and what is sent for it, for any prices, caps,        *)
(* chances, commissions and equity.  BracketInv says how the approval, the *)
(* Order and the broker orders sent so far follow from the signal; the     *)
(* properties then are facts about the gate's arithmetic and the adapter's *)
(* three orders.                                                           *)
(***************************************************************************)
EXTENDS IbkrBracket, TLAPS

BracketOf(o) == {ParentOrder(o), TakeOrder(o), StopOrder(o)}

\* The broker orders sent are the first ones of the approved order's bracket.
SentSoFar ==
  /\ sent \in Seq(BracketOf(order))
  /\ Len(sent) <= 3
  /\ Len(sent) >= 1 => approval.approved /\ sent[1] = ParentOrder(order)
  /\ Len(sent) >= 2 => sent[2] = TakeOrder(order)
  /\ Len(sent) >= 3 => sent[3] = StopOrder(order)

BracketInv ==
  /\ signal \in Signals
  /\ approval = Evaluate(signal, BuildSnapshot)
  /\ order = IF approval.approved THEN BuildOrder(signal, approval.qty)
             ELSE NoOrder
  /\ SentSoFar

-----------------------------------------------------------------------------
LEMMA TakeEstablishes ==
  ASSUME NEW s \in Signals, Take(s, Evaluate(s, BuildSnapshot))
  PROVE  BracketInv'
<1>1. signal' = s /\ approval' = Evaluate(s, BuildSnapshot) /\ sent' = <<>>
  BY DEF Take
<1>2. order' = IF approval'.approved THEN BuildOrder(s, approval'.qty)
               ELSE NoOrder
  BY DEF Take
<1>3. Signals' = Signals /\ Evaluate(s, BuildSnapshot)' = Evaluate(s, BuildSnapshot)
  OBVIOUS
<1> QED BY <1>1, <1>2, <1>3 DEF BracketInv, SentSoFar

LEMMA BracketInvStep == BracketInv /\ [Next]_vars => BracketInv'
<1> SUFFICES ASSUME BracketInv, [Next]_vars PROVE BracketInv'
  OBVIOUS
<1>1. CASE NextSignal \/ StoppedOut
  <2>1. PICK s \in Signals : Take(s, Evaluate(s, BuildSnapshot))
    BY <1>1 DEF NextSignal, StoppedOut
  <2> QED BY <2>1, TakeEstablishes
<1>2. CASE SendParent \/ SendTake \/ SendStop
  <2>1. approval.approved /\ UNCHANGED <<signal, approval, order>>
    BY <1>2 DEF BracketInv, SendParent, SendTake, SendStop, Send
  <2>2. BracketOf(order)' = BracketOf(order)
    BY <2>1
  <2>3. PICK n \in 1 .. 3 :
          /\ Len(sent) = n - 1
          /\ sent' = Append(sent, IF n = 1 THEN ParentOrder(order)
                                  ELSE IF n = 2 THEN TakeOrder(order)
                                  ELSE StopOrder(order))
    <3>1. CASE SendParent
      BY <3>1 DEF SendParent, Send
    <3>2. CASE SendTake
      BY <3>2 DEF SendTake, Send
    <3>3. CASE SendStop
      BY <3>3 DEF SendStop, Send
    <3> QED BY <1>2, <3>1, <3>2, <3>3
  <2> DEFINE P == ParentOrder(order)
             T == TakeOrder(order)
             S == StopOrder(order)
  <2>4. /\ sent \in Seq({P, T, S})
        /\ Len(sent) >= 1 => sent[1] = P
        /\ Len(sent) >= 2 => sent[2] = T
    BY DEF BracketInv, SentSoFar, BracketOf
  <2>5. P' = P /\ T' = T /\ S' = S
    BY <2>1
  <2>6. sent' = Append(sent, IF n = 1 THEN P ELSE IF n = 2 THEN T ELSE S)
    BY <2>3
  <2> HIDE DEF P, T, S
  <2>7. /\ sent' \in Seq({P, T, S})
        /\ Len(sent') = n
        /\ sent'[1] = P
        /\ n >= 2 => sent'[2] = T
        /\ n >= 3 => sent'[3] = S
    BY <2>3, <2>4, <2>6
  <2>8. SentSoFar'
    BY <2>1, <2>2, <2>5, <2>7 DEF SentSoFar, BracketOf, P, T, S
  <2> QED BY <2>1, <2>8 DEF BracketInv
<1>3. CASE UNCHANGED vars
  BY <1>3 DEF vars, BracketInv, SentSoFar
<1> QED BY <1>1, <1>2, <1>3 DEF Next

LEMMA BracketInvAlways == Spec => []BracketInv
<1>1. Init => BracketInv
  BY DEF Init, BracketInv, SentSoFar
<1> QED BY <1>1, BracketInvStep, PTL DEF Spec

-----------------------------------------------------------------------------
\* What the three broker orders of an approved Order say: its parent leg has no
\* side and no quantity of its own.
LEMMA BracketSays ==
  ASSUME BracketInv, approval.approved
  PROVE  /\ ParentOrder(order).action = signal.side
         /\ ParentOrder(order).action = "BUY"
         /\ ParentOrder(order).qty = 1
         /\ ParentOrder(order).transmit = FALSE
         /\ ParentOrder(order).type = "LMT" =>
              ParentOrder(order).price = signal.entry
         /\ TakeOrder(order).action = "SELL" /\ TakeOrder(order).qty = 1
         /\ TakeOrder(order).type = "LMT"
         /\ TakeOrder(order).price = signal.take
         /\ TakeOrder(order).child = TRUE /\ TakeOrder(order).transmit = FALSE
         /\ StopOrder(order).action = "SELL" /\ StopOrder(order).qty = 1
         /\ StopOrder(order).type = "STP"
         /\ StopOrder(order).price = signal.stop
         /\ StopOrder(order).child = TRUE /\ StopOrder(order).transmit = TRUE
<1>1. order = BuildOrder(signal, approval.qty) /\ signal.side = "BUY"
  BY DEF BracketInv, Signals
<1>2. /\ order.parent = ParentLeg(signal)
      /\ order.take.price = signal.take /\ order.stop.price = signal.stop
  BY <1>1 DEF BuildOrder
<1>3. DOMAIN ParentLeg(signal) = {"type", "price", "tif"}
  BY DEF ParentLeg
<1>4. ActionOf(order.parent) = "BUY" /\ QtyOf(order.parent) = 1
  BY <1>2, <1>3 DEF ActionOf, QtyOf
<1>5. /\ ParentLeg(signal).type = "MKT" <=> signal.entryType = "market"
      /\ signal.entryType # "market" => ParentLeg(signal).price = signal.entry
  BY DEF ParentLeg
<1> QED
  BY <1>1, <1>2, <1>4, <1>5
     DEF ParentOrder, TakeOrder, StopOrder, ExitOrder, Opposite

\* The exits of a whole bracket.
LEMMA WholeBracket ==
  ASSUME BracketInv, Len(sent) = 3
  PROVE  /\ approval.approved
         /\ sent[1] = ParentOrder(order)
         /\ sent[2] = TakeOrder(order)
         /\ sent[3] = StopOrder(order)
         /\ Exits = {TakeOrder(order), StopOrder(order)}
<1>1. /\ approval.approved /\ sent[1] = ParentOrder(order)
      /\ sent[2] = TakeOrder(order) /\ sent[3] = StopOrder(order)
  BY DEF BracketInv, SentSoFar
<1>2. 2 .. Len(sent) = {2, 3}
  OBVIOUS
<1>3. Exits = {sent[2], sent[3]}
  BY <1>2 DEF Exits
<1> QED BY <1>1, <1>3

\* Nothing before the stop transmits.
LEMMA TransmittedIsWhole ==
  ASSUME BracketInv, NEW n \in 1 .. Len(sent), sent[n].transmit
  PROVE  Len(sent) = 3
<1>1. Len(sent) \in Nat /\ Len(sent) <= 3 /\ Len(sent) >= 1
  BY DEF BracketInv, SentSoFar
<1>5. approval.approved
  BY <1>1 DEF BracketInv, SentSoFar
<1>2. ParentOrder(order).transmit = FALSE /\ TakeOrder(order).transmit = FALSE
  BY <1>5, BracketSays
<1>3. n # 1
  BY <1>1, <1>2 DEF BracketInv, SentSoFar
<1>4. n = 2 => sent[n] = TakeOrder(order)
  BY <1>1 DEF BracketInv, SentSoFar
<1>6. n # 2
  BY <1>2, <1>4
<1> DEFINE l == Len(sent)
<1>7. n \in 1 .. l /\ l \in Nat /\ l <= 3
  BY <1>1
<1> HIDE DEF l
<1>8. l = 3
  BY <1>3, <1>6, <1>7
<1> QED BY <1>8 DEF l

-----------------------------------------------------------------------------
\* place_bracket_order never activates an entry without the exits that close it.
THEOREM BracketsActivateWhole == Spec => []ActivatedWhole
<1>1. BracketInv => ActivatedWhole
  <2> SUFFICES ASSUME BracketInv, \E n \in 1 .. Len(sent) : sent[n].transmit
               PROVE  /\ Len(sent) = 3
                      /\ sent[3].transmit /\ ~sent[1].transmit
                      /\ ~sent[2].transmit
                      /\ {x.type : x \in Exits} = {"LMT", "STP"}
                      /\ \A x \in Exits :
                           /\ x.child /\ x.action = Opposite(Entry.action)
                           /\ x.qty = Entry.qty
    BY DEF ActivatedWhole
  <2>1. Len(sent) = 3
    BY TransmittedIsWhole
  <2>2. /\ approval.approved
        /\ sent[1] = ParentOrder(order)
        /\ sent[2] = TakeOrder(order)
        /\ sent[3] = StopOrder(order)
        /\ Exits = {TakeOrder(order), StopOrder(order)}
    BY <2>1, WholeBracket
  <2>3. \A x \in Exits : x.child /\ x.action = "SELL" /\ x.qty = 1
    BY <2>2, BracketSays
  <2>4. {x.type : x \in Exits} = {TakeOrder(order).type, StopOrder(order).type}
    BY <2>2
  <2>5. Opposite(Entry.action) = "SELL" /\ Entry.qty = 1
    BY <2>2, BracketSays DEF Entry, Opposite
  <2> QED BY <2>1, <2>2, <2>3, <2>4, <2>5, BracketSays
<1> QED BY <1>1, BracketInvAlways, PTL

\* Every bracket opens the signal's side at its price, with its stop and take.
THEOREM PositionsAreProtected == Spec => []PositionIsProtected
<1>1. BracketInv => PositionIsProtected
  <2> SUFFICES ASSUME BracketInv, Len(sent) = 3
               PROVE  /\ Entry.action = signal.side
                      /\ Entry.type = "LMT" => Entry.price = signal.entry
                      /\ \E x \in Exits : x.type = "STP" /\ x.price = signal.stop
                      /\ \E x \in Exits : x.type = "LMT" /\ x.price = signal.take
    BY DEF PositionIsProtected
  <2>1. /\ approval.approved
        /\ sent[1] = ParentOrder(order)
        /\ Exits = {TakeOrder(order), StopOrder(order)}
    BY WholeBracket
  <2> QED BY <2>1, BracketSays DEF Entry
<1> QED BY <1>1, BracketInvAlways, PTL
-----------------------------------------------------------------------------
\* The gate approves what none of its checks stops.
LEMMA ApprovedPasses ==
  ASSUME NEW s, NEW snap, Evaluate(s, snap).approved
  PROVE  /\ Evaluate(s, snap).qty = PositionSize(s, snap.current)
         /\ ~ (Calibrated(s.pWin) < 100 * MinPWin)
         /\ ~ (100 * Reward(s) < MinRR * Risk(s))
         /\ ~ (PositionSize(s, snap.current) <= 0)
         /\ ~ (EvUsd(s, PositionSize(s, snap.current)) <= 0)
<1> DEFINE qty    == PositionSize(s, snap.current)
           checks == Checks(s, snap, qty)
           stops(n) == checks[n].holds /\ \A j \in 1 .. n - 1 : ~checks[j].holds
           first  == CHOOSE n \in DOMAIN checks : stops(n)
<1>1. /\ DOMAIN checks = 1 .. 7
      /\ checks[1].reason # "OK" /\ checks[2].reason # "OK"
      /\ checks[3].reason # "OK" /\ checks[4].reason # "OK"
      /\ checks[5].reason # "OK" /\ checks[6].reason # "OK"
      /\ checks[7].holds = TRUE
  BY DEF Checks
<1>2. /\ checks[3].holds = (Calibrated(s.pWin) < 100 * MinPWin)
      /\ checks[4].holds = (100 * Reward(s) < MinRR * Risk(s))
      /\ checks[5].holds = (qty <= 0)
      /\ checks[6].holds = (EvUsd(s, qty) <= 0)
  BY DEF Checks
<1>3. /\ checks[first].reason = "OK"
      /\ Evaluate(s, snap).qty = qty
  BY DEF Evaluate, FirstReason
<1> HIDE DEF checks
<1>4. first \in DOMAIN checks /\ stops(first)
  <2>1. \E n \in 1 .. 7 : stops(n)
    BY <1>1
  <2> HIDE DEF stops
  <2> QED BY <1>1, <2>1
<1>5. first = 7
  <2> HIDE DEF first
  <2> QED BY <1>1, <1>3, <1>4
<1>6. \A j \in 1 .. 6 : ~checks[j].holds
  <2> HIDE DEF first
  <2> QED BY <1>4, <1>5
<1>7. ~checks[3].holds /\ ~checks[4].holds /\ ~checks[5].holds /\ ~checks[6].holds
  BY <1>6
<1> QED BY <1>2, <1>3, <1>7, Zenon

\* A whole number of shares is at most a quotient and more than it less one.
LEMMA Quotient ==
  ASSUME NEW a \in Nat, NEW b \in Nat \ {0}
  PROVE  /\ a \div b \in Nat
         /\ b * (a \div b) <= a
         /\ a < b * ((a \div b) + 1)
OBVIOUS

\* Half-percents are exact: the sum weighed with the probabilities, and the
\* commission taken off both branches, is EV_usd.
LEMMA Weighed ==
  ASSUME NEW p \in Int, NEW r \in Int, NEW k \in Int, NEW q \in Int,
         NEW c \in Int,
         (p * r - (10000 - p) * k) * q - 10000 * c > 0
  PROVE  p * (r * q - c) > (10000 - p) * (k * q + c)
<1>1. (p * r - (10000 - p) * k) * q = p * (r * q) - (10000 - p) * (k * q)
  OBVIOUS
<1>2. p * (r * q - c) = p * (r * q) - p * c
  OBVIOUS
<1>3. (10000 - p) * (k * q + c) = (10000 - p) * (k * q) + 10000 * c - p * c
  OBVIOUS
<1> QED BY <1>1, <1>2, <1>3

\* The numbers the gate works with.
LEMMA DistanceTypes ==
  ASSUME NEW s \in Signals
  PROVE  Risk(s) \in Nat \ {0} /\ Reward(s) \in Nat \ {0}
<1>1. /\ s.entry \in Nat /\ s.stop \in Nat /\ s.take \in Nat
      /\ s.stop < s.entry /\ s.entry < s.take
  BY GateConstants DEF Signals
<1> QED BY <1>1 DEF Risk, Reward

LEMMA CapType ==
  ASSUME NEW s \in Signals
  PROVE  AtMost(s.riskShare, RiskCap) \in Nat
<1>1. s.riskShare \in Nat
  BY GateConstants DEF Signals
<1>2. RiskCap \in Nat
  BY GateConstants
<1> QED BY <1>1, <1>2 DEF AtMost

LEMMA CalibratedType ==
  ASSUME NEW s \in Signals
  PROVE  Calibrated(s.pWin) \in Nat
<1> DEFINE raw == 5000 + CalibrationAlpha * (s.pWin - 50)
<1>1. s.pWin \in Int
  <2>1. s.pWin \in WinChances
    BY DEF Signals
  <2>2. WinChances \subseteq Int
    BY GateConstants
  <2> QED BY <2>1, <2>2
<1>2. CalibrationAlpha \in Int
  BY GateConstants
<1>3. raw \in Int
  BY <1>1, <1>2
<1>4. Calibrated(s.pWin) = AtLeast(0, AtMost(10000, raw))
  BY DEF Calibrated
<1> HIDE DEF raw
<1> QED BY <1>3, <1>4 DEF AtLeast, AtMost

\* The configured numbers are natural ones.
LEMMA GateTypes ==
  /\ EquityUsd \in Nat /\ MinPWin \in Nat /\ MinRR \in Nat
  /\ CommissionPerShare \in Nat /\ CommissionMin \in Nat
BY GateConstants

\* The caps are used up to the last whole share, and never exceeded.
THEOREM ApprovedSizeIsTheCap == Spec => []SizedToTheCap
<1>1. BracketInv => SizedToTheCap
  <2> DEFINE cap == EquityUsd * AtMost(signal.riskShare, RiskCap)
             unit == 100 * Risk(signal)
             qty == approval.qty
  <2> SUFFICES ASSUME BracketInv, approval.approved
               PROVE  /\ qty >= 1
                      /\ 100 * qty * Risk(signal) <= cap
                      /\ 100 * (qty + 1) * Risk(signal) > cap
    BY DEF SizedToTheCap
  <2>1. signal \in Signals /\ approval = Evaluate(signal, BuildSnapshot)
    BY DEF BracketInv
  <2>2. /\ Risk(signal) \in Nat \ {0}
        /\ AtMost(signal.riskShare, RiskCap) \in Nat
        /\ EquityUsd \in Nat
    BY <2>1, DistanceTypes, CapType, GateTypes
  <2>3. cap \in Nat /\ unit \in Nat \ {0}
    BY <2>2
  <2>4. qty = PositionSize(signal, BuildSnapshot.current) /\ ~ (qty <= 0)
    BY <2>1, ApprovedPasses
  <2>5. qty = cap \div unit
    BY <2>4 DEF PositionSize, BuildSnapshot
  <2> HIDE DEF cap, unit, qty
  <2>6. qty \in Nat /\ unit * qty <= cap /\ cap < unit * (qty + 1)
    BY <2>3, <2>5, Quotient
  <2>7. /\ unit * qty = 100 * qty * Risk(signal)
        /\ unit * (qty + 1) = 100 * (qty + 1) * Risk(signal)
    BY <2>2, <2>6 DEF unit
  <2> QED BY <2>3, <2>4, <2>6, <2>7
<1> QED BY <1>1, BracketInvAlways, PTL

\* What is approved is worth its commissions, and above the configured floors.
THEOREM ApprovedTradesWinOnAverage == Spec => []ApprovedWinsOnAverage
<1>1. BracketInv => ApprovedWinsOnAverage
  <2> DEFINE q == approval.qty
             p == Calibrated(signal.pWin)
             c == RoundTrip(q)
             r == Reward(signal)
             k == Risk(signal)
  <2> SUFFICES ASSUME BracketInv, approval.approved
               PROVE  /\ p * (r * q - c) > (10000 - p) * (k * q + c)
                      /\ p >= 100 * MinPWin
                      /\ 100 * r >= MinRR * k
    BY DEF ApprovedWinsOnAverage
  <2>1. signal \in Signals /\ approval = Evaluate(signal, BuildSnapshot)
    BY DEF BracketInv
  <2>2. /\ q = PositionSize(signal, BuildSnapshot.current)
        /\ ~ (p < 100 * MinPWin) /\ ~ (100 * r < MinRR * k)
        /\ ~ (EvUsd(signal, q) <= 0)
    BY <2>1, ApprovedPasses
  <2>3. p \in Nat /\ r \in Nat \ {0} /\ k \in Nat \ {0}
    BY <2>1, CalibratedType, DistanceTypes
  <2>4. q \in Nat
    <3>1. EquityUsd * AtMost(signal.riskShare, RiskCap) \in Nat
      BY <2>1, CapType, GateTypes
    <3>2. 100 * Risk(signal) \in Nat \ {0}
      BY <2>3
    <3>3. q = (EquityUsd * AtMost(signal.riskShare, RiskCap))
                \div (100 * Risk(signal))
      BY <2>2 DEF PositionSize, BuildSnapshot
    <3> QED BY <3>1, <3>2, <3>3, Quotient
  <2>5. c \in Nat
    <3>1. CommissionPerShare * q \in Nat
      BY <2>4, GateTypes
    <3> QED BY <3>1, GateTypes DEF RoundTrip, AtLeast
  <2>6. EvUsd(signal, q) = (p * r - (10000 - p) * k) * q - 10000 * c
    BY DEF EvUsd
  <2> HIDE DEF q, p, c, r, k
  <2>7. (p * r - (10000 - p) * k) * q - 10000 * c \in Int
    BY <2>3, <2>4, <2>5
  <2>8. (p * r - (10000 - p) * k) * q - 10000 * c > 0
    BY <2>2, <2>6, <2>7
  <2>9. p * (r * q - c) > (10000 - p) * (k * q + c)
    BY <2>3, <2>4, <2>5, <2>8, Weighed
  <2>10. 100 * MinPWin \in Int /\ 100 * r \in Int /\ MinRR * k \in Int
    BY <2>3, GateTypes
  <2> QED BY <2>2, <2>3, <2>9, <2>10
<1> QED BY <1>1, BracketInvAlways, PTL
=============================================================================
