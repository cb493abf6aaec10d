-------------------------- MODULE SignalServiceProofs --------------------------
(***************************************************************************)
(* The service keeps what the executor and the command thread promise, and  *)
(* what its files and verdicts say is true, for any files, signals, modes  *)
(* and crashes.  SvcInv is the inductive invariant: it adds to the         *)
(* executor's and the thread's own which place of the loop goes with which *)
(* point of the call, and that the signals without a verdict are the last  *)
(* ones of their file, with the one in hand before all others.             *)
(***************************************************************************)
EXTENDS SignalService, OrderExecutorProofs, TelegramCommandsProofs

\* The items without a verdict: the one in hand and those in the queue.
InHand   == IF item = NoItem THEN {} ELSE {item}
Unjudged == queue \cup InHand

\* What the loop holds at each of its places.
LoopInStep ==
  /\ pc \in {"down", "poll"} <=> item = NoItem
  /\ pc = "submit" <=> step # "ready"
  /\ pc = "submit" => job = Current
  /\ pc = "ack" => outcome # "none"

\* The verdicts of a loaded file are those of its first signals, in order.
FilesInStep ==
  /\ \A f \in Files :
       /\ remaining[f] <= Len(Content[f])
       /\ Len(verdicts[f]) <= Len(Content[f])
       /\ \A n \in 1 .. Len(Content[f]) :
            <<f, n>> \in Unjudged <=> n > Len(Content[f]) - remaining[f]
       /\ remaining[f] > 0 =>
            /\ dir[f] = "inbox"
            /\ Len(verdicts[f]) = Len(Content[f]) - remaining[f]
            /\ worst[f] = "failed" <=> "failed" \in Verdicts(f)
  /\ \A other \in queue : item # NoItem => Before(item, other)

\* What is going to be acknowledged is true, and so is what the executor says.
OutcomeIsTrue ==
  /\ pc = "ack" =>
       /\ outcome = "submitted" => Transmitted(Current)
       /\ outcome = "duplicate" => KnownSignalId(Current)
  /\ step = "returned" =>
       /\ result # "none"
       /\ result = "DUPLICATE" => KnownSignalId(job)

SvcInv ==
  /\ SvcTypeOK /\ ExecInv /\ TgInv
  /\ LoopInStep /\ FilesInStep /\ OutcomeIsTrue
  /\ ArchiveMatchesVerdicts /\ VerdictsAreTrue /\ RefusedIsNeverOrdered

-----------------------------------------------------------------------------
\* A signal in a file is one of Signals, and the item in hand is in a file.
LEMMA ItemIsSignal ==
  ASSUME NEW f \in Files, NEW it \in ItemsOf(f)
  PROVE  /\ SignalAt(it) \in Signals
         /\ it[1] = f /\ it[2] \in 1 .. Len(Content[f]) /\ it # NoItem
<1>1. PICK n \in 1 .. Len(Content[f]) : it = <<f, n>>
  BY DEF ItemsOf
<1>2. Content[f] \in Seq(Signals)
  BY ServiceConstants
<1> QED BY <1>1, <1>2 DEF SignalAt, NoItem

LEMMA CurrentIsSignal ==
  ASSUME SvcTypeOK, item # NoItem
  PROVE  Current \in Signals /\ item[1] \in Files
         /\ item[2] \in 1 .. Len(Content[item[1]])
         /\ item = <<item[1], item[2]>>
<1>1. PICK f \in Files : item \in ItemsOf(f)
  BY DEF SvcTypeOK
<1>2. PICK n \in 1 .. Len(Content[f]) : item = <<f, n>>
  BY <1>1 DEF ItemsOf
<1> QED BY <1>1, <1>2, ItemIsSignal DEF Current

\* To the executor and to the command thread, every step of the service is one of
\* their own or none.
LEMMA ComponentSteps ==
  SvcInv /\ [Next]_vars => [ExecNext]_execVars /\ [TgNext]_tgVars
<1> SUFFICES ASSUME SvcInv, [Next]_vars
             PROVE  [ExecNext]_execVars /\ [TgNext]_tgVars
  OBVIOUS
<1>1. ASSUME Die PROVE ExecNext /\ TgNext
  BY <1>1 DEF Die, ExecNext, TgNext
<1>2. CASE SubmitSignal
  <2>1. Current \in Signals
    BY <1>2, CurrentIsSignal DEF SvcInv, LoopInStep, SubmitSignal
  <2> QED BY <1>2, <2>1 DEF SubmitSignal, ExecNext
<1>3. CASE ExecutorStep \/ TakeResult
  BY <1>3 DEF ExecutorStep, TakeResult, ExecNext
<1>4. CASE KillSwitchRaises \/ Crash
  BY <1>1, <1>4 DEF KillSwitchRaises, Crash
<1>5. CASE PollTelegram \/ Operator
  BY <1>5 DEF PollTelegram, Operator, TgNext
<1>6. CASE \/ Start \/ TakeSignal \/ RefuseInvalid \/ RefuseRisk \/ Acknowledge
           \/ ArmExpires \/ SignalsAge \/ EditEnvironment
  BY <1>6 DEF Start, TakeSignal, RefuseInvalid, RefuseRisk, Acknowledge,
              ArmExpires, SignalsAge, EditEnvironment
<1>7. CASE UNCHANGED vars
  BY <1>7 DEF vars
<1> QED
  BY <1>2, <1>3, <1>4, <1>5, <1>6, <1>7 DEF Next, MainLoop

LEMMA ComponentsKeep ==
  ASSUME SvcInv, [Next]_vars
  PROVE  ExecInv' /\ TgInv'
BY ComponentSteps, ExecInvStep, TgInvStep DEF SvcInv

\* What is recorded and sent stays so.
LEMMA RecordsStay ==
  ASSUME SvcInv, [Next]_vars
  PROVE  /\ \A s \in Signals : HasRow(s) => HasRow(s)'
         /\ \A s \in Signals : Transmitted(s) => Transmitted(s)'
         /\ \A s \in Signals : KnownSignalId(s) => KnownSignalId(s)'
<1>1. [ExecNext]_execVars /\ ExecTypeOK /\ JobPresent
  BY ComponentSteps DEF SvcInv, ExecInv
<1>2. \A s \in Signals : HasRow(s) => HasRow(s)'
  BY <1>1 DEF ExecNext, CallStep, Submit, SubmitDuplicate, SubmitNew,
     SubmitDbError, OfflineFill, PlaceParent, PlaceTake, PlaceStop, SendLeg,
     PlaceFails, SaveIds, SaveStatus, CallEnds, ExecutorDies, execVars, HasRow,
     ExecTypeOK
<1>3. \A s \in Signals : Transmitted(s) => Transmitted(s)'
  <2>1. CASE PlaceParent \/ PlaceTake \/ PlaceStop
    <3>1. PICK leg \in Legs : legs' = [legs EXCEPT ![job][leg] = @ + 1]
      BY <2>1 DEF PlaceParent, PlaceTake, PlaceStop, SendLeg, Legs
    <3> QED BY <1>1, <3>1 DEF Transmitted, ExecTypeOK, Legs
  <2>2. CASE UNCHANGED legs
    BY <2>2 DEF Transmitted
  <2> QED
    BY <1>1, <2>1, <2>2 DEF ExecNext, CallStep, Submit, SubmitDuplicate,
       SubmitNew, SubmitDbError, OfflineFill, PlaceFails, SaveIds, SaveStatus,
       CallEnds, ExecutorDies, execVars
<1> QED BY <1>2, <1>3 DEF KnownSignalId

-----------------------------------------------------------------------------
\* The files and the items keep their types, whatever is loaded, polled or
\* acknowledged.
LEMMA LoadKeepsTypes == FilesTypeOK /\ Load => FilesTypeOK'
<1> SUFFICES ASSUME FilesTypeOK, Load PROVE FilesTypeOK'
  OBVIOUS
<1> USE DEF FilesTypeOK, Load
<1>1. dir' \in [Files -> Dirs]
  BY DEF Dirs
<1>2. queue' \subseteq UNION {ItemsOf(f) : f \in Files}
  BY DEF Loadable
<1>3. remaining' \in [Files -> Nat]
  BY FilesConstants
<1>4. \A S : <<>> \in Seq(S)
  OBVIOUS
<1>5. verdicts' \in [Files -> Seq(Outcomes)]
  BY <1>4
<1> QED BY <1>1, <1>2, <1>3, <1>5

LEMMA AckKeepsTypes ==
  ASSUME NEW f \in Files, FilesTypeOK, outcome \in Outcomes, Ack(f, outcome)
  PROVE  FilesTypeOK'
<1> USE DEF FilesTypeOK, Ack
<1>1. dir' \in [Files -> Dirs]
  BY DEF Dirs, ArchiveFor
<1>2. remaining' \in [Files -> Nat]
  OBVIOUS
<1>3. worst' \in [Files -> Outcomes \cup {"processed"}]
  BY DEF Worse
<1>4. verdicts' \in [Files -> Seq(Outcomes)]
  OBVIOUS
<1> QED BY <1>1, <1>2, <1>3, <1>4

LEMMA DieKeepsTypes == SvcTypeOK /\ ForgetFiles => FilesTypeOK'
BY DEF SvcTypeOK, FilesTypeOK, ForgetFiles

\* The variables of the loop keep their types, and each place its contents.
LEMMA LoopKeeps ==
  ASSUME SvcInv, [Next]_vars
  PROVE  SvcTypeOK' /\ LoopInStep'
<1>0. ExecTypeOK' /\ JobPresent' /\ TgTypeOK'
  BY ComponentsKeep DEF ExecInv, TgInv
<1>00. OperatorPaused \in BOOLEAN /\ killOn \in BOOLEAN
  BY DEF OperatorPaused, SvcInv, TgInv, TgTypeOK
<1> USE <1>0 DEF SvcInv, LoopInStep, Places
<1>1. ASSUME Die, crashes' \in 0 .. MaxCrashes PROVE SvcTypeOK' /\ LoopInStep'
  BY <1>1, DieKeepsTypes DEF Die, SvcTypeOK, ExecutorDies
<1>2. CASE Start
  BY <1>2, LoadKeepsTypes DEF Start, SvcTypeOK, execVars, tgVars
<1>3. CASE TakeSignal
  <2>1. PICK next \in queue : Poll(next) /\ item' = next
    BY <1>3 DEF TakeSignal
  <2>2. PICK f \in Files : next \in ItemsOf(f)
    BY <2>1 DEF SvcTypeOK, FilesTypeOK
  <2>3. FilesTypeOK'
    BY <2>1 DEF Poll, SvcTypeOK, FilesTypeOK
  <2>4. next # NoItem
    BY <2>2, ItemIsSignal
  <2> QED
    BY <1>00, <1>3, <2>1, <2>2, <2>3, <2>4 DEF TakeSignal, SvcTypeOK, execVars
<1>4. CASE RefuseInvalid \/ RefuseRisk
  BY <1>4 DEF RefuseInvalid, RefuseRisk, Judge, SvcTypeOK, FilesTypeOK,
     filesVars, execVars, Outcomes
<1>5. CASE SubmitSignal
  <2>1. step' # "ready" /\ job' = Current
    BY <1>5 DEF SubmitSignal, Submit, SubmitDuplicate, SubmitNew, SubmitDbError,
       Return
  <2> QED
    BY <1>5, <2>1 DEF SubmitSignal, SvcTypeOK, FilesTypeOK, filesVars, Current,
       SignalAt
<1>6. CASE ExecutorStep
  <2>1. step' # "ready" /\ job' = job
    BY <1>6 DEF ExecutorStep, CallStep, OfflineFill, PlaceParent, PlaceTake,
       PlaceStop, SendLeg, PlaceFails, SaveIds, SaveStatus, Return
  <2> QED
    BY <1>6, <2>1 DEF ExecutorStep, SvcTypeOK, FilesTypeOK, filesVars, loopVars,
       Current, SignalAt
<1>7. CASE TakeResult
  <2>1. result \in {"OK", "DUPLICATE", "FAILED"}
    BY <1>7 DEF TakeResult, CallEnds, OutcomeIsTrue, SvcTypeOK, ExecTypeOK,
       Results
  <2> QED
    BY <1>7, <2>1 DEF TakeResult, CallEnds, Judge, OutcomeOf, Outcomes,
       SvcTypeOK, FilesTypeOK, filesVars
<1>8. CASE Acknowledge
  <2>1. outcome \in Outcomes /\ item[1] \in Files
    BY <1>8, CurrentIsSignal DEF Acknowledge, SvcTypeOK
  <2>2. FilesTypeOK'
    BY <1>8, <2>1, AckKeepsTypes DEF Acknowledge, SvcTypeOK
  <2> QED
    BY <1>8, <2>2 DEF Acknowledge, SvcTypeOK, execVars
<1>9. CASE KillSwitchRaises \/ Crash
  <2>1. crashes' \in 0 .. MaxCrashes
    BY <1>9, ServiceConstants DEF KillSwitchRaises, Crash, SvcTypeOK
  <2> QED BY <1>1, <1>9, <2>1 DEF KillSwitchRaises, Crash
<1>10. CASE PollTelegram \/ Operator
  <2>1. FilesTypeOK'
    BY <1>10 DEF PollTelegram, Operator, DropFile, SvcTypeOK, FilesTypeOK,
       filesVars, Dirs
  <2> QED
    BY <1>10, <2>1 DEF PollTelegram, Operator, SvcTypeOK, loopVars, execVars,
       Current, SignalAt
<1>11. CASE ArmExpires \/ SignalsAge \/ EditEnvironment \/ UNCHANGED vars
  BY <1>11 DEF ArmExpires, SignalsAge, EditEnvironment, vars, loopVars,
     SvcTypeOK, FilesTypeOK, filesVars, execVars, Current, SignalAt
<1> QED
  BY <1>2, <1>3, <1>4, <1>5, <1>6, <1>7, <1>8, <1>9, <1>10, <1>11
     DEF Next, MainLoop

-----------------------------------------------------------------------------
\* The item in hand is the first of its file without a verdict.
LEMMA HandIsFirst ==
  ASSUME SvcInv, item # NoItem
  PROVE  /\ item[1] \in Files /\ remaining[item[1]] > 0
         /\ item[2] = Len(Content[item[1]]) - remaining[item[1]] + 1
         /\ item \notin queue
<1>1. PICK f \in Files, n \in Nat :
        /\ item = <<f, n>> /\ f = item[1] /\ n = item[2]
        /\ n \in 1 .. Len(Content[f])
  BY CurrentIsSignal DEF SvcInv
<1>2. /\ remaining[f] \in Nat /\ Len(Content[f]) \in Nat
      /\ remaining[f] <= Len(Content[f])
  BY FilesConstants DEF SvcInv, SvcTypeOK, FilesTypeOK, FilesInStep
<1>3. f \in Int
  BY FilesConstants DEF Files
<1>4. n > Len(Content[f]) - remaining[f]
  BY <1>1 DEF SvcInv, FilesInStep, Unjudged, InHand
<1> DEFINE m == Len(Content[f]) - remaining[f] + 1
<1>5. m \in 1 .. Len(Content[f]) /\ m <= n
  BY <1>1, <1>2, <1>4
<1>6. <<f, m>> \in queue \cup {item}
  BY <1>2, <1>5 DEF SvcInv, FilesInStep, Unjudged, InHand
<1>7. \A other \in queue : Before(item, other)
  BY DEF SvcInv, FilesInStep
<1>8. <<f, m>> \notin queue
  <2> SUFFICES ASSUME <<f, m>> \in queue PROVE FALSE
    OBVIOUS
  <2>1. Before(<<f, n>>, <<f, m>>)
    BY <1>1, <1>7
  <2> QED BY <1>3, <1>5, <2>1 DEF Before
<1>9. item \notin queue
  <2> SUFFICES ASSUME item \in queue PROVE FALSE
    OBVIOUS
  <2> QED BY <1>1, <1>3, <1>7 DEF Before
<1>10. m = n
  BY <1>1, <1>6, <1>8
<1> QED BY <1>1, <1>2, <1>4, <1>9, <1>10

\* The verdict given is the one of the item in hand.
LEMMA VerdictOfHand ==
  ASSUME SvcInv, Acknowledge, NEW f \in Files, f = item[1]
  PROVE  /\ remaining[f] \in Nat \ {0} /\ dir[f] = "inbox"
         /\ item = <<f, Len(verdicts[f]) + 1>>
         /\ remaining[f] + Len(verdicts[f]) = Len(Content[f])
         /\ \A g \in Files \ {f} : /\ remaining'[g] = remaining[g]
                                   /\ verdicts'[g] = verdicts[g]
                                   /\ worst'[g] = worst[g] /\ dir'[g] = dir[g]
         /\ remaining'[f] = remaining[f] - 1
         /\ verdicts'[f] = Append(verdicts[f], outcome)
         /\ \A o : o \in Verdicts(f)' <=> o \in Verdicts(f) \/ o = outcome
<1>1. item # NoItem /\ Ack(f, outcome) /\ outcome \in Outcomes
  BY DEF Acknowledge, SvcInv, LoopInStep, SvcTypeOK
<1>2. FilesTypeOK
  BY DEF SvcInv, SvcTypeOK
<1>3. remaining[f] \in Nat \ {0} /\ Len(Content[f]) \in Nat
  BY <1>1, <1>2, FilesConstants DEF Ack, FilesTypeOK
<1>4. dir[f] = "inbox" /\ Len(verdicts[f]) = Len(Content[f]) - remaining[f]
  BY <1>3 DEF SvcInv, FilesInStep
<1>5. item = <<f, Len(Content[f]) - remaining[f] + 1>>
  BY <1>1, HandIsFirst, CurrentIsSignal DEF SvcInv
<1>6. /\ verdicts'[f] = Append(verdicts[f], outcome)
      /\ remaining'[f] = remaining[f] - 1
  BY <1>1, <1>2 DEF Ack, FilesTypeOK
<1>7. \A g \in Files \ {f} : /\ remaining'[g] = remaining[g]
                             /\ verdicts'[g] = verdicts[g]
                             /\ worst'[g] = worst[g] /\ dir'[g] = dir[g]
  BY <1>1, <1>2 DEF Ack, FilesTypeOK
<1>8. \A o : o \in Verdicts(f)' <=> o \in Verdicts(f) \/ o = outcome
  <2> DEFINE m == Len(verdicts[f])
  <2>1. verdicts[f] \in Seq(Outcomes)
    BY <1>2 DEF FilesTypeOK
  <2>2. /\ m \in Nat
        /\ DOMAIN verdicts[f] = 1 .. m /\ DOMAIN verdicts'[f] = 1 .. m + 1
        /\ \A n \in 1 .. m : verdicts'[f][n] = verdicts[f][n]
        /\ verdicts'[f][m + 1] = outcome
    BY <1>1, <1>6, <2>1
  <2> HIDE DEF m
  <2>3. \A n \in 1 .. m + 1 : n \in 1 .. m \/ n = m + 1
    BY <2>2
  <2>4. m + 1 \in 1 .. m + 1 /\ \A n \in 1 .. m : n \in 1 .. m + 1
    BY <2>2
  <2>5. \A o : (\E n \in DOMAIN verdicts'[f] : verdicts'[f][n] = o)
                 <=> (\E n \in DOMAIN verdicts[f] : verdicts[f][n] = o)
                     \/ o = outcome
    BY <2>2, <2>3, <2>4
  <2> QED BY <2>5 DEF Verdicts
<1> QED BY <1>3, <1>4, <1>5, <1>6, <1>7, <1>8

\* _worst_outcome says failed when a verdict so far was failed, and the archive
\* follows it.
LEMMA WorstIsFailed ==
  ASSUME SvcInv, Acknowledge, NEW f \in Files, f = item[1]
  PROVE  /\ remaining'[f] > 0 =>
              /\ dir'[f] = "inbox"
              /\ worst'[f] = "failed" <=> "failed" \in Verdicts(f)'
         /\ dir'[f] # dir[f] =>
              /\ remaining'[f] = 0
              /\ dir'[f] = IF "failed" \in Verdicts(f)' THEN "failed"
                                                        ELSE "processed"
<1> DEFINE final == Worse(worst[f], outcome)
<1>1. Ack(f, outcome) /\ outcome \in Outcomes
  BY DEF Acknowledge, SvcInv, SvcTypeOK, LoopInStep
<1>2. worst[f] = "failed" <=> "failed" \in Verdicts(f)
  BY VerdictOfHand DEF SvcInv, FilesInStep
<1>3. final = "failed" <=> "failed" \in Verdicts(f) \cup {outcome}
  <2>1. worst[f] \in Outcomes \cup {"processed"}
    BY DEF SvcInv, SvcTypeOK, FilesTypeOK
  <2> QED BY <1>1, <1>2, <2>1 DEF Worse, Severity, Outcomes
<1>4. FilesTypeOK
  BY DEF SvcInv, SvcTypeOK
<1> HIDE DEF final
<1>5. CASE remaining[f] > 1
  <2>1. worst'[f] = final /\ dir'[f] = dir[f]
    BY <1>1, <1>4, <1>5 DEF Ack, FilesTypeOK, final
  <2> QED BY <1>3, <1>5, <2>1, VerdictOfHand
<1>6. CASE remaining[f] = 1
  <2>1. dir'[f] \in {dir[f], ArchiveFor(final)} /\ remaining'[f] = 0
    BY <1>1, <1>4, <1>6 DEF Ack, FilesTypeOK, final
  <2> QED BY <1>3, <2>1, VerdictOfHand DEF ArchiveFor
<1> QED BY <1>5, <1>6, VerdictOfHand

-----------------------------------------------------------------------------
\* The files' part of the invariant, step by step.
FilesTrue == FilesInStep /\ ArchiveMatchesVerdicts

\* Reading the directory puts every signal of the good files before the loop.
LEMMA StartKeepsFiles == SvcInv /\ Start => FilesTrue'
<1> SUFFICES ASSUME SvcInv, Start PROVE FilesTrue'
  OBVIOUS
<1>1. /\ Load /\ item = NoItem /\ item' = NoItem /\ FilesTypeOK
  BY DEF Start, SvcInv, LoopInStep, SvcTypeOK
<1>2. queue' = UNION {ItemsOf(f) : f \in Loadable} /\ Unjudged' = queue'
  BY <1>1 DEF Load, Unjudged, InHand
<1>3. ASSUME NEW f \in Files
      PROVE  /\ f \in Loadable <=> dir[f] = "inbox" /\ Content[f] # <<>>
             /\ remaining'[f] = IF f \in Loadable THEN Len(Content[f]) ELSE 0
             /\ worst'[f] = "processed"
             /\ verdicts'[f] = IF f \in Loadable THEN <<>> ELSE verdicts[f]
             /\ dir'[f] = dir[f] \/ (dir'[f] = "failed" /\ Content[f] = <<>>)
  BY <1>1 DEF Load, Loadable, Invalid
<1>4. ASSUME NEW f \in Files, NEW n \in 1 .. Len(Content[f])
      PROVE  <<f, n>> \in Unjudged' <=> f \in Loadable
  BY <1>2 DEF ItemsOf
<1>5. \A f \in Files : Len(Content[f]) \in Nat
  BY FilesConstants
<1>6. FilesInStep'
  <2>1. ASSUME NEW f \in Files
        PROVE  /\ remaining'[f] <= Len(Content[f])
               /\ Len(verdicts'[f]) <= Len(Content[f])
               /\ \A n \in 1 .. Len(Content[f]) :
                    <<f, n>> \in Unjudged' <=>
                      n > Len(Content[f]) - remaining'[f]
    BY <1>3, <1>4, <1>5 DEF SvcInv, FilesInStep
  <2>2. ASSUME NEW f \in Files, remaining'[f] > 0
        PROVE  /\ dir'[f] = "inbox"
               /\ Len(verdicts'[f]) = Len(Content[f]) - remaining'[f]
               /\ worst'[f] # "failed" /\ Verdicts(f)' = {}
    <3>1. f \in Loadable
      BY <1>3, <2>2
    <3>2. verdicts'[f] = <<>> /\ DOMAIN verdicts'[f] = {}
      BY <1>3, <3>1
    <3> QED BY <1>3, <1>5, <3>1, <3>2 DEF Verdicts
  <2> QED BY <1>1, <2>1, <2>2 DEF FilesInStep
<1>7. ArchiveMatchesVerdicts'
  <2>1. ASSUME NEW f \in Files, Content[f] # <<>>, dir'[f] \in {"processed", "failed"}
        PROVE  dir'[f] = dir[f] /\ verdicts'[f] = verdicts[f]
    BY <1>3, <2>1
  <2>2. ASSUME NEW f \in Files, Content[f] = <<>>, dir'[f] = "processed"
        PROVE  FALSE
    BY <1>3, <2>2 DEF SvcInv, ArchiveMatchesVerdicts, AllJudged
  <2> QED
    BY <2>1, <2>2 DEF SvcInv, ArchiveMatchesVerdicts, AllJudged, Verdicts
<1> QED BY <1>6, <1>7 DEF FilesTrue

\* The signal taken is the first one, and is still without a verdict.
LEMMA TakeKeepsFiles == SvcInv /\ TakeSignal => FilesTrue'
<1> SUFFICES ASSUME SvcInv, TakeSignal PROVE FilesTrue'
  OBVIOUS
<1>1. PICK next \in queue : Poll(next) /\ item' = next
  BY DEF TakeSignal
<1>2. item = NoItem /\ next # NoItem
  <2>1. PICK f \in Files : next \in ItemsOf(f)
    BY <1>1 DEF SvcInv, SvcTypeOK, FilesTypeOK
  <2> QED BY <2>1, ItemIsSignal DEF TakeSignal, SvcInv, LoopInStep
<1>3. Unjudged' = Unjudged
  BY <1>1, <1>2 DEF Unjudged, InHand, Poll
<1>4. UNCHANGED <<dir, remaining, worst, verdicts>>
  BY <1>1 DEF Poll
<1>5. \A other \in queue' : Before(item', other)
  BY <1>1 DEF Poll
<1>6. \A f \in Files : Verdicts(f)' = Verdicts(f)
  BY <1>4 DEF Verdicts
<1>7. FilesInStep'
  BY <1>3, <1>4, <1>5, <1>6 DEF SvcInv, FilesInStep
<1> QED
  BY <1>4, <1>6, <1>7
     DEF FilesTrue, SvcInv, ArchiveMatchesVerdicts, AllJudged

LEMMA AckKeepsFiles == SvcInv /\ Acknowledge => FilesTrue'
<1> SUFFICES ASSUME SvcInv, Acknowledge PROVE FilesTrue'
  OBVIOUS
<1>1. /\ item # NoItem /\ item' = NoItem /\ item[1] \in Files
      /\ queue' = queue /\ item \notin queue
  BY HandIsFirst DEF Acknowledge, SvcInv, LoopInStep, Ack
<1>0. PICK h \in Files : h = item[1]
  BY <1>1
<1>2. item = <<h, Len(verdicts[h]) + 1>>
  BY <1>0, VerdictOfHand
<1>3. Unjudged' = Unjudged \ {item}
  BY <1>1 DEF Unjudged, InHand
<1>4. FilesTypeOK /\ \A f \in Files : Len(Content[f]) \in Nat
  BY FilesConstants DEF SvcInv, SvcTypeOK
<1>5. Len(verdicts'[h]) = Len(verdicts[h]) + 1 /\ Len(verdicts[h]) \in Nat
  <2>1. verdicts[h] \in Seq(Outcomes) /\ outcome \in Outcomes
    BY <1>0, <1>1, <1>4 DEF FilesTypeOK, SvcInv, SvcTypeOK, LoopInStep, Acknowledge
  <2> QED BY <1>0, <2>1, VerdictOfHand
<1>6. FilesInStep'
  <2>1. ASSUME NEW f \in Files
        PROVE  /\ remaining'[f] <= Len(Content[f])
               /\ Len(verdicts'[f]) <= Len(Content[f])
               /\ \A n \in 1 .. Len(Content[f]) :
                    <<f, n>> \in Unjudged' <=>
                      n > Len(Content[f]) - remaining'[f]
               /\ remaining'[f] > 0 =>
                    /\ dir'[f] = "inbox"
                    /\ Len(verdicts'[f]) = Len(Content[f]) - remaining'[f]
                    /\ worst'[f] = "failed" <=> "failed" \in Verdicts(f)'
    <3>1. CASE f = h
      <4>1. /\ remaining[f] \in Nat \ {0}
            /\ remaining'[f] = remaining[f] - 1
            /\ remaining[f] + Len(verdicts[f]) = Len(Content[f])
        BY <1>1, <3>1, <1>0, VerdictOfHand
      <4>2. ASSUME NEW n \in 1 .. Len(Content[f])
            PROVE  <<f, n>> \in Unjudged' <=>
                      n > Len(Content[f]) - remaining'[f]
        <5>1. <<f, n>> \in Unjudged <=> n > Len(Content[f]) - remaining[f]
          BY DEF SvcInv, FilesInStep
        <5>2. <<f, n>> = item <=> n = Len(verdicts[f]) + 1
          BY <1>2, <3>1
        <5> QED BY <1>3, <1>4, <1>5, <3>1, <4>1, <5>1, <5>2
      <4>3. remaining'[f] > 0 =>
              /\ dir'[f] = "inbox"
              /\ worst'[f] = "failed" <=> "failed" \in Verdicts(f)'
        BY <1>1, <3>1, <1>0, WorstIsFailed
      <4>4. /\ Len(verdicts'[f]) = Len(Content[f]) - remaining'[f]
            /\ remaining'[f] <= Len(Content[f])
            /\ Len(verdicts'[f]) <= Len(Content[f])
        <5>1. Len(Content[f]) \in Nat
          BY <1>4
        <5> QED BY <1>5, <3>1, <4>1, <5>1
      <4> QED BY <4>2, <4>3, <4>4
    <3>2. CASE f # h
      <4>1. /\ remaining'[f] = remaining[f] /\ verdicts'[f] = verdicts[f]
            /\ worst'[f] = worst[f] /\ dir'[f] = dir[f]
        BY <1>1, <3>2, <1>0, VerdictOfHand
      <4>2. \A n : <<f, n>> \in Unjudged' <=> <<f, n>> \in Unjudged
        BY <1>2, <1>3, <3>2
      <4>3. Verdicts(f)' = Verdicts(f)
        BY <4>1 DEF Verdicts
      <4> QED BY <4>1, <4>2, <4>3 DEF SvcInv, FilesInStep
    <3> QED BY <3>1, <3>2
  <2> QED BY <1>1, <2>1 DEF FilesInStep
<1>7. ArchiveMatchesVerdicts'
  <2>1. ASSUME NEW f \in Files, f # h
        PROVE  /\ dir'[f] = dir[f] /\ verdicts'[f] = verdicts[f]
               /\ Verdicts(f)' = Verdicts(f)
    BY <1>0, <2>1, VerdictOfHand DEF Verdicts
  <2>2. ASSUME dir'[h] # "inbox"
        PROVE  /\ AllJudged(h)'
               /\ dir'[h] = IF "failed" \in Verdicts(h)' THEN "failed"
                                                         ELSE "processed"
    <3>1. h \in Files /\ dir'[h] # dir[h]
      BY <1>1, <2>2, <1>0, VerdictOfHand
    <3>2. /\ remaining'[h] = 0 /\ remaining'[h] = remaining[h] - 1
          /\ remaining[h] \in Nat
          /\ remaining[h] + Len(verdicts[h]) = Len(Content[h])
          /\ dir'[h] = IF "failed" \in Verdicts(h)' THEN "failed"
                                                    ELSE "processed"
      BY <3>1, WorstIsFailed, <1>0, VerdictOfHand
    <3>3. Len(verdicts'[h]) = Len(Content[h]) /\ Len(Content[h]) > 0
      BY <1>4, <1>5, <3>2
    <3>4. Content[h] # <<>>
      BY <3>3
    <3> QED BY <3>2, <3>3, <3>4 DEF AllJudged
  <2>3. ASSUME NEW f \in Files
        PROVE  /\ dir'[f] = "processed" =>
                    AllJudged(f)' /\ "failed" \notin Verdicts(f)'
               /\ dir'[f] = "failed" =>
                    Content[f] = <<>>
                      \/ (AllJudged(f)' /\ "failed" \in Verdicts(f)')
    <3>1. CASE f = h
      BY <2>2, <3>1
    <3>2. CASE f # h
      BY <2>1, <3>2 DEF SvcInv, ArchiveMatchesVerdicts, AllJudged
    <3> QED BY <3>1, <3>2
  <2> QED BY <2>3 DEF ArchiveMatchesVerdicts
<1> QED BY <1>6, <1>7 DEF FilesTrue

LEMMA DieKeepsFiles == SvcInv /\ Die => FilesTrue'
<1> SUFFICES ASSUME SvcInv, Die PROVE FilesTrue'
  OBVIOUS
<1>1. /\ Unjudged' = {} /\ queue' = {} /\ item' = NoItem
      /\ UNCHANGED <<dir, verdicts>>
      /\ \A f \in Files : remaining'[f] = 0
  BY DEF Die, ForgetFiles, Unjudged, InHand
<1>2. \A f \in Files : Len(Content[f]) \in Nat
  BY FilesConstants
<1>3. FilesInStep'
  BY <1>1, <1>2 DEF SvcInv, FilesInStep
<1>4. \A f \in Files : Verdicts(f)' = Verdicts(f)
  BY <1>1 DEF Verdicts
<1> QED
  BY <1>1, <1>3, <1>4
     DEF FilesTrue, SvcInv, ArchiveMatchesVerdicts, AllJudged

\* A file that is dropped in was nowhere before; all other steps leave the files.
LEMMA OthersKeepFiles ==
  ASSUME SvcInv, UNCHANGED <<queue, remaining, worst, verdicts, item>>,
         DropFile \/ UNCHANGED dir
  PROVE  FilesTrue'
<1>1. \A f \in Files :
        dir'[f] = dir[f] \/ (dir[f] = "absent" /\ dir'[f] = "inbox")
  BY DEF DropFile, SvcInv, SvcTypeOK, FilesTypeOK
<1>2. Unjudged' = Unjudged
  BY DEF Unjudged, InHand
<1>3. \A f \in Files : Verdicts(f)' = Verdicts(f)
  BY DEF Verdicts
<1>4. FilesInStep'
  BY <1>1, <1>2, <1>3 DEF SvcInv, FilesInStep
<1> QED
  BY <1>1, <1>3, <1>4
     DEF FilesTrue, SvcInv, ArchiveMatchesVerdicts, AllJudged

LEMMA FilesKeep ==
  ASSUME SvcInv, [Next]_vars
  PROVE  FilesTrue'
<1>1. CASE Start
  BY <1>1, StartKeepsFiles
<1>2. CASE TakeSignal
  BY <1>2, TakeKeepsFiles
<1>3. CASE Acknowledge
  BY <1>3, AckKeepsFiles
<1>4. CASE KillSwitchRaises \/ Crash
  BY <1>4, DieKeepsFiles DEF KillSwitchRaises, Crash
<1>5. CASE \/ RefuseInvalid \/ RefuseRisk \/ SubmitSignal \/ ExecutorStep
           \/ TakeResult \/ PollTelegram \/ Operator \/ ArmExpires
           \/ SignalsAge \/ EditEnvironment \/ UNCHANGED vars
  BY <1>5, OthersKeepFiles
     DEF RefuseInvalid, RefuseRisk, SubmitSignal, ExecutorStep, TakeResult,
         PollTelegram, Operator, DropFile, ArmExpires, SignalsAge,
         EditEnvironment, vars, filesVars, loopVars
<1> QED BY <1>1, <1>2, <1>3, <1>4, <1>5 DEF Next, MainLoop

-----------------------------------------------------------------------------
\* The executor's answer is true of the signal in hand, and stays true until it
\* is acknowledged.
LEMMA OutcomeKeeps ==
  ASSUME SvcInv, [Next]_vars
  PROVE  OutcomeIsTrue'
<1> USE DEF SvcInv
<1>1. LoopInStep' /\ SvcTypeOK' /\ ExecInv'
  BY LoopKeeps, ComponentsKeep
<1>2. CASE SubmitSignal
  <2>1. Current \in Signals /\ IdOf \in [Signals -> SignalIds]
    BY <1>2, CurrentIsSignal, ExecutorConstants DEF SubmitSignal, LoopInStep
  <2> QED
    BY <1>2, <2>1 DEF SubmitSignal, Submit, SubmitDuplicate, SubmitNew,
       SubmitDbError, Return, IsDuplicate, KnownSignalId, HasRow, OutcomeIsTrue
<1>3. CASE ExecutorStep
  <2>1. step' = "returned" => result' \in {"OK", "FAILED"}
    BY <1>3 DEF ExecutorStep, CallStep, OfflineFill, PlaceParent, PlaceTake,
       PlaceStop, SendLeg, PlaceFails, SaveIds, SaveStatus, Return
  <2> QED BY <1>3, <2>1 DEF ExecutorStep, loopVars, OutcomeIsTrue
<1>4. CASE TakeResult
  <2>1. /\ step = "returned" /\ pc = "submit" /\ job = Current
        /\ outcome' = OutcomeOf(result) /\ item' = item
        /\ UNCHANGED <<orders, legs>> /\ step' = "ready"
    BY <1>4 DEF TakeResult, Judge, CallEnds, LoopInStep
  <2>2. ~Offline
    BY ServiceConstants DEF SvcTypeOK, ExecTypeOK, Offline
  <2>3. /\ result = "OK" => Transmitted(Current)
        /\ result = "DUPLICATE" => KnownSignalId(Current)
        /\ result \in {"OK", "DUPLICATE", "FAILED"}
    BY <2>1, <2>2 DEF ExecInv, ReturnedOkIsTransmitted, OutcomeIsTrue,
       SvcTypeOK, ExecTypeOK, Results
  <2>4. /\ outcome' = "submitted" => Transmitted(Current)
        /\ outcome' = "duplicate" => KnownSignalId(Current)
    BY <2>1, <2>3 DEF OutcomeOf
  <2>5. Transmitted(Current)' = Transmitted(Current)
        /\ KnownSignalId(Current)' = KnownSignalId(Current)
    BY <2>1 DEF Transmitted, KnownSignalId, HasRow, Current, SignalAt
  <2> QED BY <2>1, <2>4, <2>5 DEF OutcomeIsTrue
<1>5. CASE RefuseInvalid \/ RefuseRisk
  BY <1>5 DEF RefuseInvalid, RefuseRisk, Judge, LoopInStep, OutcomeIsTrue,
     execVars
<1>6. CASE Start \/ TakeSignal \/ Acknowledge
  BY <1>6 DEF Start, TakeSignal, Acknowledge, LoopInStep, OutcomeIsTrue,
     execVars
<1>7. CASE KillSwitchRaises \/ Crash
  BY <1>7 DEF KillSwitchRaises, Crash, Die, ExecutorDies, OutcomeIsTrue
<1>8. CASE \/ PollTelegram \/ Operator \/ ArmExpires \/ SignalsAge
           \/ EditEnvironment \/ UNCHANGED vars
  <2>1. UNCHANGED <<pc, item, outcome, orders, legs, step, result, job>>
    BY <1>8 DEF PollTelegram, Operator, ArmExpires, SignalsAge,
       EditEnvironment, vars, loopVars, execVars
  <2> QED
    BY <2>1 DEF OutcomeIsTrue, Transmitted, KnownSignalId, HasRow, Current,
       SignalAt
<1> QED
  BY <1>2, <1>3, <1>4, <1>5, <1>6, <1>7, <1>8 DEF Next, MainLoop

\* The verdicts given stay true; the one more is that of the signal in hand.
LEMMA VerdictsKeep ==
  ASSUME SvcInv, [Next]_vars
  PROVE  VerdictsAreTrue'
<1> USE DEF SvcInv
<1>1. ASSUME NEW f \in Files, NEW n \in DOMAIN verdicts'[f]
      PROVE  \/ n \in DOMAIN verdicts[f] /\ verdicts'[f][n] = verdicts[f][n]
             \/ /\ pc = "ack" /\ item = <<f, n>>
                /\ verdicts'[f][n] = outcome
  <2>1. CASE Acknowledge
    <3>1. CASE f = item[1]
      <4>1. /\ verdicts'[f] = Append(verdicts[f], outcome)
            /\ item = <<f, Len(verdicts[f]) + 1>> /\ pc = "ack"
        BY <2>1, <3>1, VerdictOfHand DEF Acknowledge
      <4>2. verdicts[f] \in Seq(Outcomes) /\ outcome \in Outcomes
        BY <2>1 DEF Acknowledge, LoopInStep, SvcTypeOK, FilesTypeOK
      <4>3. /\ n \in 1 .. Len(verdicts[f]) + 1
            /\ n \in 1 .. Len(verdicts[f]) => verdicts'[f][n] = verdicts[f][n]
            /\ verdicts'[f][Len(verdicts[f]) + 1] = outcome
            /\ DOMAIN verdicts[f] = 1 .. Len(verdicts[f])
            /\ Len(verdicts[f]) \in Nat
        BY <1>1, <4>1, <4>2
      <4> QED BY <4>1, <4>3
    <3>2. CASE f # item[1]
      <4>1. item[1] \in Files
        BY <2>1, HandIsFirst DEF Acknowledge, LoopInStep
      <4> QED BY <1>1, <2>1, <3>2, <4>1, VerdictOfHand
    <3> QED BY <3>1, <3>2
  <2>2. CASE Start
    BY <1>1, <2>2 DEF Start, Load, SvcTypeOK, FilesTypeOK
  <2>3. CASE UNCHANGED verdicts
    BY <1>1, <2>3
  <2>4. UNCHANGED verdicts \/ Start \/ Acknowledge
    BY DEF Next, MainLoop, TakeSignal, Poll, RefuseInvalid, RefuseRisk,
       SubmitSignal, ExecutorStep, TakeResult, PollTelegram, Operator, DropFile,
       ArmExpires, SignalsAge, EditEnvironment, KillSwitchRaises, Crash, Die,
       ForgetFiles, vars, filesVars
  <2> QED BY <2>1, <2>2, <2>3, <2>4
<1>2. ASSUME NEW f \in Files, NEW n \in DOMAIN verdicts'[f],
             NEW s, s = SignalAt(<<f, n>>)
      PROVE  /\ verdicts'[f][n] = "submitted" => Transmitted(s)
             /\ verdicts'[f][n] = "duplicate" => KnownSignalId(s)
  BY <1>1, <1>2 DEF VerdictsAreTrue, OutcomeIsTrue, Current
<1>3. ASSUME NEW f \in Files, NEW n \in DOMAIN verdicts'[f]
      PROVE  SignalAt(<<f, n>>) \in Signals
  <2>1. Content[f] \in Seq(Signals) /\ Len(Content[f]) \in Nat
    BY ServiceConstants
  <2>2. /\ verdicts'[f] \in Seq(Outcomes)
        /\ Len(verdicts'[f]) <= Len(Content[f])
    BY LoopKeeps, FilesKeep DEF SvcTypeOK, FilesTypeOK, FilesTrue, FilesInStep
  <2>3. n \in 1 .. Len(Content[f])
    BY <1>3, <2>1, <2>2
  <2> QED BY <2>1, <2>3 DEF SignalAt
<1> QED BY <1>2, <1>3, RecordsStay DEF VerdictsAreTrue

\* A row is made for the signal in hand only, after the domain check and the gate.
LEMMA RefusalsKeep ==
  ASSUME SvcInv, [Next]_vars
  PROVE  RefusedIsNeverOrdered'
<1> USE DEF SvcInv
<1>1. ASSUME NEW s \in DomainBad \cup RiskRefused PROVE ~HasRow(s)'
  <2>1. s \in Signals /\ ~HasRow(s)
    BY <1>1, ServiceConstants DEF RefusedIsNeverOrdered
  <2>2. CASE SubmitSignal
    <3>1. Current # s /\ Submit(Current)
      BY <1>1, <2>2 DEF SubmitSignal, Invalidated
    <3> QED
      BY <2>1, <3>1 DEF Submit, SubmitDuplicate, SubmitNew, SubmitDbError,
         HasRow, SvcTypeOK, ExecTypeOK
  <2>3. CASE ExecutorStep
    <3>1. CASE SaveStatus
      <4>1. orders[job] = "NEW"
        BY <3>1 DEF SaveStatus, ExecInv, CallState, Working
      <4> QED
        BY <2>1, <3>1, <4>1 DEF SaveStatus, HasRow, SvcTypeOK, ExecTypeOK
    <3>2. CASE ~SaveStatus
      BY <2>1, <2>3, <3>2 DEF ExecutorStep, CallStep, OfflineFill, PlaceParent,
         PlaceTake, PlaceStop, SendLeg, PlaceFails, SaveIds, HasRow
    <3> QED BY <3>1, <3>2
  <2>4. CASE UNCHANGED orders
    BY <2>1, <2>4 DEF HasRow
  <2>5. SubmitSignal \/ ExecutorStep \/ UNCHANGED orders
    BY DEF Next, MainLoop, Start, TakeSignal, RefuseInvalid, RefuseRisk,
       TakeResult, CallEnds, Acknowledge, KillSwitchRaises, Crash, Die,
       ExecutorDies, PollTelegram, Operator, ArmExpires, SignalsAge,
       EditEnvironment, vars, execVars
  <2> QED BY <2>2, <2>3, <2>4, <2>5
<1>2. ASSUME NEW s \in DomainBad \cup RiskRefused, NEW l \in Legs
      PROVE  legs'[s][l] = 0
  <2>1. ExecTypeOK' /\ NothingWithoutRow' /\ s \in Signals
    BY <1>2, ComponentsKeep, ServiceConstants DEF ExecInv
  <2>2. legs'[s][l] \in Nat /\ ~(legs'[s][l] > 0)
    BY <1>1, <1>2, <2>1 DEF ExecTypeOK, NothingWithoutRow
  <2> QED BY <2>2
<1> QED BY <1>1, <1>2 DEF RefusedIsNeverOrdered

-----------------------------------------------------------------------------
LEMMA SvcInvInit == Init => SvcInv
<1> SUFFICES ASSUME Init PROVE SvcInv
  OBVIOUS
<1>1. ExecInv /\ TgInv
  BY ExecInvInit, TgInvInit DEF Init
<1>2. FilesTypeOK
  <2>1. \A S : <<>> \in Seq(S)
    OBVIOUS
  <2> QED BY <2>1 DEF Init, FilesInit, FilesTypeOK, Dirs
<1>3. SvcTypeOK
  <2>1. ExecTypeOK /\ TgTypeOK
    BY <1>1 DEF ExecInv, TgInv
  <2>2. crashes \in 0 .. MaxCrashes
    BY ServiceConstants DEF Init
  <2>3. {killSeen, armEnv, armed, old, pausedThen} \subseteq BOOLEAN
    BY DEF Init
  <2>4. pc \in Places /\ item = NoItem /\ outcome \in Outcomes \cup {"none"}
    BY DEF Init, Places
  <2> QED BY <1>2, <2>1, <2>2, <2>3, <2>4 DEF SvcTypeOK
<1>4. Unjudged = {}
  BY DEF Init, FilesInit, Unjudged, InHand
<1>5. \A f \in Files : Len(Content[f]) \in Nat
  BY FilesConstants
<1>6. FilesInStep /\ ArchiveMatchesVerdicts /\ VerdictsAreTrue
  BY <1>4, <1>5 DEF Init, FilesInit, FilesInStep, ArchiveMatchesVerdicts,
     VerdictsAreTrue
<1>7. LoopInStep /\ OutcomeIsTrue
  BY DEF Init, ExecInit, LoopInStep, OutcomeIsTrue
<1>8. RefusedIsNeverOrdered
  BY ServiceConstants DEF Init, ExecInit, RefusedIsNeverOrdered, HasRow
<1> QED BY <1>1, <1>3, <1>6, <1>7, <1>8 DEF SvcInv

LEMMA SvcInvStep == SvcInv /\ [Next]_vars => SvcInv'
BY ComponentsKeep, LoopKeeps, FilesKeep, OutcomeKeeps, VerdictsKeep,
   RefusalsKeep
   DEF SvcInv, FilesTrue

LEMMA SvcInvAlways == Spec => []SvcInv
BY SvcInvInit, SvcInvStep, PTL DEF Spec

-----------------------------------------------------------------------------
\* The types of the loop, of the files, of the tables and of the chat.
THEOREM ServiceTypes == Spec => []SvcTypeOK
BY SvcInvAlways, PTL DEF SvcInv

\* A file leaves the inbox with a verdict on every signal of it, for the archive
\* that these verdicts call for, whatever crashes between them.
THEOREM ArchivesMatch == Spec => []ArchiveMatchesVerdicts
BY SvcInvAlways, PTL DEF SvcInv

\* What the files' verdicts say was sent was sent, and what they call a duplicate
\* had been recorded.
THEOREM VerdictsStayTrue == Spec => []VerdictsAreTrue
BY SvcInvAlways, PTL DEF SvcInv

\* No row and no leg for a signal that the domain check or the gate refuses.
THEOREM RefusedStaysOut == Spec => []RefusedIsNeverOrdered
BY SvcInvAlways, PTL DEF SvcInv

\* The service runs the executor as OrderExecutor says it may be run: one call at
\* a time, with the signals of its files, through deaths and restarts.
THEOREM ServiceRunsExecutor == Spec => ExecSpec
<1>1. Init => ExecInit
  BY DEF Init
<1>2. SvcInv /\ [Next]_vars => [ExecNext]_execVars
  BY ComponentSteps
<1> QED BY <1>1, <1>2, SvcInvAlways, PTL DEF Spec, ExecSpec

\* So no signal_id of any file is ever sent twice by the service: not when a file
\* is loaded again after a crash, nor when two files hold the same signal.
THEOREM ServiceSubmitsOnce == Spec => OnceOnly /\ []OneBracketPerSignalId
BY ServiceRunsExecutor, ExecutorIsOnceOnly, OneBracket, PTL

\* Beside the loop, too, the switch is what the operator's last command made it,
\* and no command is lost with the process.
THEOREM ServiceFollowsChat ==
  Spec => [](KillSwitchFollowsChat /\ ConfirmedWasHandled)
<1>1. SvcInv => KillSwitchFollowsChat /\ ConfirmedWasHandled
  BY DEF SvcInv, TgInv
<1> QED BY <1>1, SvcInvAlways, PTL
=============================================================================
