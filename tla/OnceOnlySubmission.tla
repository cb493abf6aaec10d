-------------------------- MODULE OnceOnlySubmission --------------------------
(***************************************************************************)
(* What submit_approved_trade promises of a signal_id, without tables, legs *)
(* or return values: it is claimed at most once, by at most one call at a  *)
(* time; a claimed id is sent, or is given up for good.                    *)
(***************************************************************************)
CONSTANT SignalIds

VARIABLE stage

Stages == {"fresh", "claimed", "sent", "lost"}

Init == stage = [i \in SignalIds |-> "fresh"]

Move(i, from, to) ==
  /\ stage[i] = from
  /\ stage' = [stage EXCEPT ![i] = to]

Claim(i) ==
  /\ \A k \in SignalIds : stage[k] # "claimed"
  /\ Move(i, "fresh", "claimed")

Send(i)   == Move(i, "claimed", "sent")
GiveUp(i) == Move(i, "claimed", "lost")

Next == \E i \in SignalIds : Claim(i) \/ Send(i) \/ GiveUp(i)

Spec == Init /\ [][Next]_stage
=============================================================================
