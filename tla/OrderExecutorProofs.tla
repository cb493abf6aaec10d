------------------------- MODULE OrderExecutorProofs -------------------------
(***************************************************************************)
(* The submission invariants of OrderExecutor for any signals, ids and     *)
(* mode.  ExecInv is the inductive invariant: it ties what is at the broker *)
(* to the point the call has reached, and to the one row of a signal_id.   *)
(***************************************************************************)
EXTENDS OrderExecutor, TLAPS

\* The rows are one per signal_id.
OneRowPerId ==
  \A s, t \in Signals : HasRow(s) /\ HasRow(t) /\ IdOf[s] = IdOf[t] => s = t

\* A call that has recorded its order and not yet returned.
Working == step \notin {"ready", "returned"}

\* The legs of the order in progress are those before the call's step.
LegsFollowStep ==
  /\ step \in {"fill", "parent"} => \A l \in Legs : legs[job][l] = 0
  /\ step = "take" =>
       legs[job]["parent"] = 1 /\ legs[job]["take"] = 0 /\ legs[job]["stop"] = 0
  /\ step = "stop" =>
       legs[job]["parent"] = 1 /\ legs[job]["take"] = 1 /\ legs[job]["stop"] = 0
  /\ step \in {"ids", "status"} => \A l \in Legs : legs[job][l] = 1

\* A call in progress has a signal.
JobPresent ==
  /\ step # "ready" => job \in Signals
  /\ step = "ready" => job = NoJob

CallState ==
  /\ step = "fill" => Offline
  /\ step \in Legs \cup {"ids", "status"} => ~Offline
  /\ Working => fills[job] = 0
  /\ Working => orders[job] = "NEW"
  /\ LegsFollowStep

AtMostOnce ==
  \A s \in Signals :
    legs[s]["parent"] + fills[s] <= 1

ExecInv ==
  /\ ExecTypeOK
  /\ JobPresent
  /\ CallState
  /\ OneRowPerId
  /\ AtMostOnce
  /\ NothingWithoutRow
  /\ NoExitWithoutEntry
  /\ RecordedAsSent
  /\ ReturnedOkIsTransmitted

-----------------------------------------------------------------------------
\* The variables keep their types as long as a call in progress has a signal.
LEMMA TypeStep ==
  ExecTypeOK /\ JobPresent /\ [ExecNext]_execVars => ExecTypeOK' /\ JobPresent'
<1> SUFFICES ASSUME ExecTypeOK, JobPresent, [ExecNext]_execVars
             PROVE  ExecTypeOK' /\ JobPresent'
  OBVIOUS
<1> USE DEF ExecTypeOK, JobPresent, Statuses, Steps, Results, Return
<1> DEFINE Goal == ExecTypeOK' /\ JobPresent'
<1>1. ASSUME NEW s \in Signals, Submit(s) PROVE Goal
  BY <1>1 DEF Submit, SubmitDuplicate, SubmitNew, SubmitDbError
<1>2. ASSUME NEW leg \in Legs, NEW next \in Steps \ {"ready"},
             SendLeg(leg, next)
      PROVE Goal
  <2>1. job \in Signals
    BY <1>2 DEF SendLeg, Legs
  <2>2. legs' \in [Signals -> [Legs -> Nat]]
    BY <1>2, <2>1 DEF SendLeg
  <2> QED BY <1>2, <2>1, <2>2 DEF SendLeg
<1>3. CASE OfflineFill
  BY <1>3 DEF OfflineFill
<1>4. CASE PlaceFails
  BY <1>4 DEF PlaceFails, Legs
<1>5. CASE SaveIds
  BY <1>5 DEF SaveIds
<1>6. CASE SaveStatus
  BY <1>6 DEF SaveStatus
<1>7. CASE CallEnds \/ ExecutorDies
  BY <1>7 DEF CallEnds, ExecutorDies
<1>8. CASE UNCHANGED execVars
  BY <1>8 DEF execVars
<1>9. CASE PlaceParent \/ PlaceTake \/ PlaceStop
  BY <1>2, <1>9 DEF PlaceParent, PlaceTake, PlaceStop, Legs
<1> QED
  BY <1>1, <1>3, <1>4, <1>5, <1>6, <1>7, <1>8, <1>9 DEF ExecNext, CallStep

-----------------------------------------------------------------------------
\* Recording a new order keeps one row per signal_id: the checks before the
\* INSERT look at every row.
LEMMA SubmitKeepsInv ==
  ASSUME NEW s \in Signals, ExecInv, ExecTypeOK', JobPresent', Submit(s)
  PROVE  ExecInv'
<1> USE DEF ExecInv, ExecTypeOK, JobPresent, Return, HasRow
<1>1. CASE SubmitDuplicate(s) \/ SubmitDbError(s)
  BY <1>1 DEF SubmitDuplicate, SubmitDbError, CallState, OneRowPerId,
              AtMostOnce,
     NothingWithoutRow, NoExitWithoutEntry, RecordedAsSent, Working, Legs,
     ReturnedOkIsTransmitted, LegsFollowStep
<1>2. CASE SubmitNew(s)
  <2>1. orders' = [orders EXCEPT ![s] = "NEW"] /\ legs' = legs /\ fills' = fills
        /\ ibIds' = ibIds /\ job' = s
    BY <1>2 DEF SubmitNew
  <2>2. fills[s] = 0 /\ \A l \in Legs : legs[s][l] = 0
    BY <1>2 DEF SubmitNew, NothingWithoutRow
  <2>3. CallState'
    BY <1>2, <2>1, <2>2 DEF SubmitNew, CallState, Working, LegsFollowStep, Legs,
       Offline
  <2>4. OneRowPerId'
    BY <1>2, <2>1 DEF OneRowPerId, SubmitNew, IsDuplicate, KnownSignalId
  <2>5. NothingWithoutRow' /\ RecordedAsSent'
    BY <1>2, <2>1 DEF NothingWithoutRow, RecordedAsSent
  <2>6. ReturnedOkIsTransmitted'
    BY <1>2 DEF SubmitNew, ReturnedOkIsTransmitted
  <2> QED BY <2>1, <2>3, <2>4, <2>5, <2>6
     DEF AtMostOnce, NoExitWithoutEntry, Offline
<1> QED BY <1>1, <1>2 DEF Submit

\* A leg is sent once: before it, the step says it was not; after it, it was.
LEMMA SendKeepsInv ==
  ASSUME ExecInv, ExecTypeOK', JobPresent',
         PlaceParent \/ PlaceTake \/ PlaceStop
  PROVE  ExecInv'
<1> USE DEF ExecInv, ExecTypeOK, JobPresent
<1>1. PICK leg \in Legs, next \in {"take", "stop", "ids"} :
        /\ SendLeg(leg, next)
        /\ \/ leg = "parent" /\ next = "take"
           \/ leg = "take" /\ next = "stop"
           \/ leg = "stop" /\ next = "ids"
  BY DEF PlaceParent, PlaceTake, PlaceStop, Legs
<1>2. job \in Signals /\ job' = job /\ HasRow(job) /\ orders[job] = "NEW"
  BY <1>1 DEF SendLeg, Legs, CallState, Working, HasRow
<1>3. /\ \A s \in Signals \ {job} : legs'[s] = legs[s]
      /\ \A l \in Legs : legs'[job][l] = IF l = leg THEN legs[job][l] + 1
                                                    ELSE legs[job][l]
  BY <1>1, <1>2 DEF SendLeg
<1>4. /\ UNCHANGED <<mode, orders, ibIds, fills, result>>
      /\ step = leg /\ step' = next
  BY <1>1 DEF SendLeg
<1>5. legs[job][leg] = 0
  BY <1>1, <1>4 DEF CallState, LegsFollowStep, Legs
<1>6. CallState'
  BY <1>1, <1>2, <1>3, <1>4, <1>5 DEF CallState, LegsFollowStep, Working, Legs,
     Offline
<1>7. AtMostOnce' /\ NoExitWithoutEntry'
  <2> SUFFICES ASSUME NEW s \in Signals
               PROVE  /\ legs'[s]["parent"] + fills[s] <= 1
                      /\ legs'[s]["take"] <= legs'[s]["parent"]
                      /\ legs'[s]["stop"] <= legs'[s]["take"]
    BY <1>4 DEF AtMostOnce, NoExitWithoutEntry, Offline
  <2>1. CASE s # job
    BY <2>1, <1>3 DEF AtMostOnce, NoExitWithoutEntry
  <2>2. CASE s = job
    BY <2>2, <1>1, <1>2, <1>3, <1>4
       DEF CallState, Working, LegsFollowStep, Legs
  <2> QED BY <2>1, <2>2
<1>8. NothingWithoutRow'
  BY <1>2, <1>3, <1>4 DEF NothingWithoutRow, HasRow
<1>9. RecordedAsSent'
  <2>1. job \notin ibIds
    BY <1>2, <1>5 DEF RecordedAsSent
  <2> QED BY <2>1, <1>2, <1>3, <1>4 DEF RecordedAsSent
<1>10. OneRowPerId' /\ ReturnedOkIsTransmitted'
  BY <1>1, <1>4 DEF OneRowPerId, HasRow, ReturnedOkIsTransmitted
<1> QED BY <1>6, <1>7, <1>8, <1>9, <1>10

\* The steps that send nothing: the virtual execution, the two UPDATEs that
\* follow the bracket, the failures and the ends of a call.
LEMMA QuietKeepsInv ==
  ASSUME ExecInv, ExecTypeOK', JobPresent',
         \/ OfflineFill \/ PlaceFails \/ SaveIds \/ SaveStatus
         \/ CallEnds \/ ExecutorDies \/ UNCHANGED execVars
  PROVE  ExecInv'
<1> USE DEF ExecInv, ExecTypeOK, JobPresent, Return
<1>1. CASE OfflineFill
  <2>1. job \in Signals /\ HasRow(job) /\ fills[job] = 0 /\ Offline
    BY <1>1 DEF OfflineFill, CallState, Working, HasRow
  <2>2. /\ \A s \in Signals \ {job} : fills'[s] = fills[s]
        /\ fills'[job] <= 1
        /\ UNCHANGED <<orders, ibIds, legs, job>>
    BY <1>1, <2>1 DEF OfflineFill
  <2> QED
    BY <1>1, <2>1, <2>2 DEF OfflineFill, CallState, Working, LegsFollowStep,
       OneRowPerId, AtMostOnce, NothingWithoutRow, NoExitWithoutEntry,
       RecordedAsSent, ReturnedOkIsTransmitted, HasRow, Offline, Legs
<1>2. CASE PlaceFails
  BY <1>2 DEF PlaceFails, CallState, Working, LegsFollowStep, OneRowPerId,
     AtMostOnce, NothingWithoutRow, NoExitWithoutEntry, RecordedAsSent,
     ReturnedOkIsTransmitted, HasRow, Legs
<1>3. CASE SaveIds
  <2>1. job \in Signals /\ \A l \in Legs : legs[job][l] = 1
    BY <1>3 DEF SaveIds, CallState, LegsFollowStep
  <2> QED
    BY <1>3, <2>1 DEF SaveIds, CallState, Working, LegsFollowStep, OneRowPerId,
       AtMostOnce, NothingWithoutRow, NoExitWithoutEntry, RecordedAsSent,
       ReturnedOkIsTransmitted, HasRow, Legs, Offline
<1>4. CASE SaveStatus
  <2>1. job \in Signals /\ HasRow(job) /\ \A l \in Legs : legs[job][l] = 1
    BY <1>4 DEF SaveStatus, CallState, LegsFollowStep, Working, HasRow
  <2>2. /\ \A s \in Signals \ {job} : orders'[s] = orders[s]
        /\ orders'[job] \in {orders[job], "SUBMITTED"}
        /\ UNCHANGED <<ibIds, fills, legs, job>>
    BY <1>4, <2>1 DEF SaveStatus
  <2>3. OneRowPerId' /\ NothingWithoutRow'
    BY <2>1, <2>2 DEF OneRowPerId, NothingWithoutRow, HasRow
  <2>4. RecordedAsSent' /\ AtMostOnce' /\ NoExitWithoutEntry'
    BY <2>1, <2>2 DEF RecordedAsSent, AtMostOnce, NoExitWithoutEntry,
       Offline
  <2>5. ReturnedOkIsTransmitted'
    BY <2>1, <2>2 DEF ReturnedOkIsTransmitted, Transmitted, Legs
  <2>6. CallState'
    BY <1>4 DEF SaveStatus, CallState, Working, LegsFollowStep, Legs
  <2> QED BY <2>3, <2>4, <2>5, <2>6
<1>5. CASE CallEnds \/ ExecutorDies
  BY <1>5 DEF CallEnds, ExecutorDies, CallState, Working, LegsFollowStep,
     OneRowPerId, AtMostOnce, NothingWithoutRow, NoExitWithoutEntry,
     RecordedAsSent, ReturnedOkIsTransmitted, HasRow, Legs
<1>6. CASE UNCHANGED execVars
  BY <1>6 DEF execVars, CallState, Working, LegsFollowStep,
     OneRowPerId, AtMostOnce, NothingWithoutRow, NoExitWithoutEntry,
     RecordedAsSent, ReturnedOkIsTransmitted, HasRow, Transmitted, Offline
<1> QED BY <1>1, <1>2, <1>3, <1>4, <1>5, <1>6

-----------------------------------------------------------------------------
LEMMA ExecInvInit == ExecInit => ExecInv
BY ExecutorConstants
   DEF ExecInit, ExecInv, ExecTypeOK, JobPresent, CallState, Working,
       LegsFollowStep, OneRowPerId, AtMostOnce, NothingWithoutRow,
       NoExitWithoutEntry, RecordedAsSent, ReturnedOkIsTransmitted, HasRow,
       Statuses, Legs, Steps, Results

LEMMA ExecInvStep == ExecInv /\ [ExecNext]_execVars => ExecInv'
<1> SUFFICES ASSUME ExecInv, [ExecNext]_execVars PROVE ExecInv'
  OBVIOUS
<1>1. ExecTypeOK' /\ JobPresent'
  BY TypeStep DEF ExecInv
<1>2. CASE \E s \in Signals : Submit(s)
  BY <1>1, <1>2, SubmitKeepsInv
<1>3. CASE PlaceParent \/ PlaceTake \/ PlaceStop
  BY <1>1, <1>3, SendKeepsInv
<1>4. CASE \/ OfflineFill \/ PlaceFails \/ SaveIds \/ SaveStatus
           \/ CallEnds \/ ExecutorDies \/ UNCHANGED execVars
  BY <1>1, <1>4, QuietKeepsInv
<1> QED BY <1>2, <1>3, <1>4 DEF ExecNext, CallStep

LEMMA ExecInvAlways == ExecSpec => []ExecInv
BY ExecInvInit, ExecInvStep, PTL DEF ExecSpec

-----------------------------------------------------------------------------
\* The types of the tables, of the broker's legs and of the call in progress.
THEOREM ExecTypes == ExecSpec => []ExecTypeOK
BY ExecInvAlways, PTL DEF ExecInv

\* Never two brackets for a signal_id, whatever is resubmitted, fails or crashes.
THEOREM OneBracket == ExecSpec => []OneBracketPerSignalId
<1>1. ExecInv => OneBracketPerSignalId
  <2> SUFFICES ASSUME ExecInv PROVE OneBracketPerSignalId
    OBVIOUS
  <2> USE DEF ExecInv, ExecTypeOK
  <2>1. \A s \in Signals : \A l \in Legs : legs[s][l] + fills[s] <= 1
    <3> SUFFICES ASSUME NEW s \in Signals
                 PROVE  \A l \in Legs : legs[s][l] + fills[s] <= 1
      OBVIOUS
    <3>1. legs[s]["parent"] \in Nat /\ legs[s]["take"] \in Nat
          /\ legs[s]["stop"] \in Nat /\ fills[s] \in Nat
      BY DEF Legs
    <3> QED BY <3>1 DEF AtMostOnce, NoExitWithoutEntry, Legs
  <2>2. ASSUME NEW s \in Signals, legs[s]["parent"] + fills[s] > 0
        PROVE  HasRow(s)
    BY <2>2 DEF NothingWithoutRow, Legs
  <2> QED BY <2>1, <2>2 DEF OneBracketPerSignalId, OneRowPerId
<1> QED BY <1>1, ExecInvAlways, PTL

\* The status SUBMITTED and the broker ids are only ever recorded of a bracket
\* whose three legs were sent.
THEOREM RecordsFollowTheBroker == ExecSpec => []RecordedAsSent
BY ExecInvAlways, PTL DEF ExecInv

\* Wherever submissions fail or die, and however often they are repeated, an
\* order's row comes before anything of it is sent or filled, its parent before
\* its take, and its take before its stop.
THEOREM BracketsAreSentInOrder == ExecSpec => []SentInOrder
<1>1. ExecInv => SentInOrder
  BY DEF ExecInv, SentInOrder
<1> QED BY <1>1, ExecInvAlways, PTL

\* submit_approved_trade says OK only of a bracket it has sent to its last leg.
THEOREM OkMeansTransmitted == ExecSpec => []ReturnedOkIsTransmitted
BY ExecInvAlways, PTL DEF ExecInv

-----------------------------------------------------------------------------
(***************************************************************************)
(* Submission implements OnceOnlySubmission: every step moves one          *)
(* signal_id along fresh, claimed, sent or lost, or moves none.            *)
(***************************************************************************)
Stage == [i \in SignalIds |-> StageOf(i)]

\* Nothing has been sent under the signal_id of an order whose own legs and
\* virtual execution are still missing: no other order has that id.
LEMMA UnsentId ==
  ASSUME ExecInv, NEW s \in Signals, HasRow(s), ~Transmitted(s), fills[s] = 0
  PROVE  ~SentId(IdOf[s])
<1> SUFFICES ASSUME NEW t \in Signals, IdOf[t] = IdOf[s],
                    Transmitted(t) \/ fills[t] > 0
             PROVE  FALSE
  BY DEF SentId
<1>1. HasRow(t)
  BY DEF ExecInv, ExecTypeOK, NothingWithoutRow, Transmitted, Legs
<1>2. s = t
  BY <1>1 DEF ExecInv, OneRowPerId
<1> QED BY <1>2 DEF ExecInv, ExecTypeOK

\* A step that changes nothing the stages are read from is a stutter.
LEMMA SameStage ==
  ASSUME \A i \in SignalIds : /\ SentId(i)' = SentId(i)
                              /\ InProgress(i)' = InProgress(i)
                              /\ KnownId(i)' = KnownId(i)
  PROVE  Stage' = Stage
BY DEF Stage, StageOf

\* A signal_id moves from one stage to another while the others keep theirs.
LEMMA StageMove ==
  ASSUME NEW id \in SignalIds, NEW from, NEW to,
         StageOf(id) = from, StageOf(id)' = to,
         \A i \in SignalIds \ {id} : StageOf(i)' = StageOf(i)
  PROVE  Stage[id] = from /\ Stage' = [Stage EXCEPT ![id] = to]
BY DEF Stage

\* The step that ends the work on the order in progress, sent or not.
LEMMA EndOfWork ==
  ASSUME NEW id \in SignalIds, KnownId(id), InProgress(id), ~SentId(id),
         \A i \in SignalIds : ~InProgress(i)' /\ KnownId(i)' = KnownId(i),
         \A i \in SignalIds \ {id} : SentId(i)' = SentId(i)
  PROVE  Abstract!Next
<1>1. \A i \in SignalIds \ {id} : StageOf(i)' = StageOf(i)
  BY DEF StageOf, InProgress
<1>2. StageOf(id) = "claimed"
  BY DEF StageOf
<1>3. CASE SentId(id)'
  <2>1. StageOf(id)' = "sent"
    BY <1>3 DEF StageOf
  <2>2. Stage[id] = "claimed" /\ Stage' = [Stage EXCEPT ![id] = "sent"]
    BY <1>1, <1>2, <2>1, StageMove
  <2> QED BY <2>2 DEF Abstract!Next, Abstract!Send, Abstract!Move, Stage
<1>4. CASE ~SentId(id)'
  <2>1. StageOf(id)' = "lost"
    BY <1>4 DEF StageOf
  <2>2. Stage[id] = "claimed" /\ Stage' = [Stage EXCEPT ![id] = "lost"]
    BY <1>1, <1>2, <2>1, StageMove
  <2> QED BY <2>2 DEF Abstract!Next, Abstract!GiveUp, Abstract!Move, Stage
<1> QED BY <1>3, <1>4

\* Recording a new order claims its signal_id, which nobody had claimed.
LEMMA NewIsClaim ==
  ASSUME NEW s \in Signals, ExecInv, ExecInv', SubmitNew(s)
  PROVE  Abstract!Next
<1> USE DEF ExecInv, ExecTypeOK
<1>1. PICK id \in SignalIds : id = IdOf[s]
  BY ExecutorConstants
<1>2. /\ step = "ready" /\ job = NoJob /\ job' = s
      /\ step' \in {"fill", "parent"}
      /\ orders' = [orders EXCEPT ![s] = "NEW"]
      /\ UNCHANGED <<legs, fills>>
  BY DEF SubmitNew, JobPresent
<1>3. ~KnownId(id)
  BY <1>1 DEF SubmitNew, IsDuplicate, KnownSignalId, KnownId
<1>4. ~SentId(id)
  BY <1>3 DEF SentId, KnownId, NothingWithoutRow, Transmitted, Legs
<1>5. \A i \in SignalIds : SentId(i)' = SentId(i) /\ ~InProgress(i)
  BY <1>2 DEF SentId, Transmitted, InProgress
<1>6. s # NoJob
  BY ExecutorConstants
<1>7. \A i \in SignalIds \ {id} : ~InProgress(i)' /\ KnownId(i)' = KnownId(i)
  BY <1>1, <1>2, <1>6 DEF InProgress, KnownId, HasRow
<1>8. InProgress(id)'
  BY <1>1, <1>2, <1>6 DEF InProgress, Legs
<1>9. StageOf(id) = "fresh" /\ StageOf(id)' = "claimed"
  BY <1>3, <1>4, <1>5, <1>8 DEF StageOf
<1>10. \A i \in SignalIds \ {id} : StageOf(i)' = StageOf(i)
  BY <1>5, <1>7 DEF StageOf
<1>11. Stage[id] = "fresh" /\ Stage' = [Stage EXCEPT ![id] = "claimed"]
  BY <1>9, <1>10, StageMove
<1>12. \A k \in SignalIds : Stage[k] # "claimed"
  BY <1>5 DEF Stage, StageOf
<1> QED
  BY <1>11, <1>12 DEF Abstract!Next, Abstract!Claim, Abstract!Move, Stage

\* A step of the call in progress sends the id, gives it up, or does not show.
LEMMA CallStepRefines ==
  ASSUME ExecInv, ExecInv', CallStep
  PROVE  Abstract!Next \/ Stage' = Stage
<1> USE DEF ExecInv, ExecTypeOK
<1>1. job \in Signals /\ job # NoJob /\ job' = job /\ HasRow(job)
  BY ExecutorConstants
     DEF CallStep, OfflineFill, PlaceParent, PlaceTake, PlaceStop, SendLeg,
         PlaceFails, SaveIds, SaveStatus, JobPresent, CallState, Working, Legs,
         HasRow
<1>2. PICK id \in SignalIds : id = IdOf[job]
  BY <1>1, ExecutorConstants
<1>3. \A i \in SignalIds : KnownId(i)' = KnownId(i)
  <2>1. \A s \in Signals : HasRow(s)' = HasRow(s)
    BY <1>1 DEF CallStep, OfflineFill, PlaceParent, PlaceTake, PlaceStop,
       SendLeg, PlaceFails, SaveIds, SaveStatus, HasRow
  <2> QED BY <2>1 DEF KnownId
<1>4. KnownId(id)
  BY <1>1, <1>2 DEF KnownId
<1>5. ASSUME step \in {"fill"} \cup Legs
      PROVE  InProgress(id) /\ ~SentId(id)
  <2>1. ~Transmitted(job) /\ fills[job] = 0
    BY <1>1, <1>5 DEF Transmitted, CallState, Working, LegsFollowStep, Legs
  <2> QED BY <1>1, <1>2, <1>5, <2>1, UnsentId DEF InProgress
<1>6. ASSUME step' \notin {"fill"} \cup Legs
      PROVE  \A i \in SignalIds : ~InProgress(i)'
  BY <1>6 DEF InProgress
<1>7. CASE OfflineFill
  <2>1. \A i \in SignalIds \ {id} : SentId(i)' = SentId(i)
    BY <1>1, <1>2, <1>7 DEF OfflineFill, SentId, Transmitted
  <2> QED
    BY <1>3, <1>4, <1>5, <1>6, <1>7, <2>1, EndOfWork
       DEF OfflineFill, Return, Legs
<1>8. CASE PlaceStop
  <2>1. \A i \in SignalIds \ {id} : SentId(i)' = SentId(i)
    BY <1>1, <1>2, <1>8 DEF PlaceStop, SendLeg, SentId, Transmitted
  <2> QED
    BY <1>3, <1>4, <1>5, <1>6, <1>8, <2>1, EndOfWork
       DEF PlaceStop, SendLeg, Legs
<1>9. CASE PlaceFails
  <2>1. \A i \in SignalIds : SentId(i)' = SentId(i)
    BY <1>9 DEF PlaceFails, SentId, Transmitted
  <2>2. CASE step \in Legs
    BY <1>3, <1>4, <1>5, <1>6, <1>9, <2>1, <2>2, EndOfWork
       DEF PlaceFails, Return, Legs
  <2>3. CASE step = "ids"
    <3>1. \A i \in SignalIds : InProgress(i)' = InProgress(i)
      BY <1>9, <2>3 DEF PlaceFails, Return, InProgress, Legs
    <3> QED BY <1>3, <2>1, <3>1, SameStage
  <2> QED BY <1>9, <2>2, <2>3 DEF PlaceFails
<1>10. CASE PlaceParent \/ PlaceTake
  <2>1. \A s \in Signals : Transmitted(s)' = Transmitted(s)
    BY <1>1, <1>10 DEF PlaceParent, PlaceTake, SendLeg, Transmitted, Legs
  <2>2. \A i \in SignalIds : SentId(i)' = SentId(i)
    BY <1>10, <2>1 DEF PlaceParent, PlaceTake, SendLeg, SentId
  <2>3. \A i \in SignalIds : InProgress(i)' = InProgress(i)
    BY <1>1, <1>10 DEF PlaceParent, PlaceTake, SendLeg, InProgress, Legs
  <2> QED BY <1>3, <2>2, <2>3, SameStage
<1>11. CASE SaveIds \/ SaveStatus
  <2>1. \A i \in SignalIds : /\ SentId(i)' = SentId(i)
                             /\ InProgress(i)' = InProgress(i)
    BY <1>11 DEF SaveIds, SaveStatus, SentId, Transmitted, InProgress, Return,
       Legs
  <2> QED BY <1>3, <2>1, SameStage
<1> QED BY <1>7, <1>8, <1>9, <1>10, <1>11 DEF CallStep

\* The process dies: the order in progress, if any, is given up.
LEMMA DeathRefines ==
  ASSUME ExecInv, ExecInv', ExecutorDies
  PROVE  Abstract!Next \/ Stage' = Stage
<1>1. \A i \in SignalIds : /\ SentId(i)' = SentId(i)
                           /\ KnownId(i)' = KnownId(i)
                           /\ ~InProgress(i)'
  BY DEF ExecutorDies, SentId, KnownId, HasRow, Transmitted, InProgress, Legs
<1>2. CASE \A i \in SignalIds : ~InProgress(i)
  <2>1. \A i \in SignalIds : InProgress(i)' = InProgress(i)
    BY <1>1, <1>2 DEF InProgress
  <2> QED BY <1>1, <2>1, SameStage
<1>3. CASE \E i \in SignalIds : InProgress(i)
  <2>1. PICK id \in SignalIds : InProgress(id)
    BY <1>3
  <2>2. job \in Signals /\ IdOf[job] = id /\ HasRow(job)
    BY <2>1 DEF InProgress, ExecInv, JobPresent, CallState, Working, HasRow,
                Legs
  <2>3. ~Transmitted(job) /\ fills[job] = 0
    BY <2>1, <2>2 DEF InProgress, Transmitted, ExecInv, CallState, Working,
       LegsFollowStep, Legs
  <2>4. ~SentId(id) /\ KnownId(id)
    BY <2>2, <2>3, UnsentId DEF KnownId
  <2> QED BY <1>1, <2>1, <2>4, EndOfWork
<1> QED BY <1>2, <1>3

\* The initial states of the executor are the abstract initial state.
LEMMA InitRefines == ExecInit => Abstract!Init
BY ExecutorConstants
   DEF ExecInit, Abstract!Init, StageOf, SentId, InProgress, KnownId, HasRow,
       Transmitted, Legs

LEMMA StepRefines ==
  ExecInv /\ ExecInv' /\ [ExecNext]_execVars => [Abstract!Next]_Stage
<1> SUFFICES ASSUME ExecInv, ExecInv', [ExecNext]_execVars
             PROVE  Abstract!Next \/ Stage' = Stage
  OBVIOUS
<1>1. CASE \E s \in Signals : SubmitNew(s)
  BY <1>1, NewIsClaim
<1>2. CASE \/ \E s \in Signals : SubmitDuplicate(s) \/ SubmitDbError(s)
           \/ CallEnds \/ UNCHANGED execVars
  <2>1. \A i \in SignalIds : /\ SentId(i)' = SentId(i)
                             /\ KnownId(i)' = KnownId(i)
                             /\ InProgress(i)' = InProgress(i)
    BY <1>2 DEF SubmitDuplicate, SubmitDbError, CallEnds, execVars, Return,
       SentId, KnownId, HasRow, Transmitted, InProgress, Legs
  <2> QED BY <2>1, SameStage
<1>3. CASE CallStep
  BY <1>3, CallStepRefines
<1>4. CASE ExecutorDies
  BY <1>4, DeathRefines
<1> QED BY <1>1, <1>2, <1>3, <1>4 DEF ExecNext, Submit

\* submit_approved_trade, with its tables, legs, failures and crashes, is an
\* implementation of the once-only promise, for any signals and any mode.
THEOREM ExecutorIsOnceOnly == ExecSpec => OnceOnly
<1>1. ExecInit => Abstract!Init
  BY InitRefines
<1>2. ExecInv /\ ExecInv' /\ [ExecNext]_execVars => [Abstract!Next]_Stage
  BY StepRefines
<1> QED
  BY <1>1, <1>2, ExecInvAlways, PTL
     DEF ExecSpec, OnceOnly, Abstract!Spec, Stage
=============================================================================
