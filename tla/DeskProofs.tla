------------------------------ MODULE DeskProofs ------------------------------
(***************************************************************************)
(* The control panel and the envelopes for any constants, and all six      *)
(* parts of the desk beside each other.                                    *)
(*                                                                         *)
(* What a Stop or a crash means to the service that is running: RunnerInv  *)
(* adds to the properties that the bound leaves room for the service of an *)
(* open panel.  Decisions name the envelope they are about: EnvelopesInv   *)
(* adds to it what envelope_id holds on the way, which is nothing until    *)
(* the envelope of an accepted file is inserted, and then the row of the   *)
(* file in hand.                                                           *)
(***************************************************************************)
EXTENDS MCDesk, TelegramCommandsProofs, QueuesProofs

(* The control panel. *)

\* The bound leaves room for the service of an open panel.
RunnerInv ==
  /\ RunnerTypeOK
  /\ KillIsAimed
  /\ CrashIsReported
  /\ StartIsOffered
  /\ panel = "up" => orphans < MaxOrphans

LEMMA RunnerInvInit == RunnerInit => RunnerInv
<1> SUFFICES ASSUME RunnerInit PROVE RunnerInv
  OBVIOUS
<1>1. RunnerTypeOK
  <2>1. orphans \in 0 .. MaxOrphans
    BY MaxOrphansIsNat DEF RunnerInit
  <2> QED BY <2>1 DEF RunnerInit, RunnerTypeOK, Children
<1>2. KillIsAimed /\ CrashIsReported /\ StartIsOffered /\ panel = "gone"
  BY DEF RunnerInit, KillIsAimed, CrashIsReported, StartIsOffered
<1> QED BY <1>1, <1>2 DEF RunnerInv

LEMMA RunnerInvStep == RunnerInv /\ [RunnerNext]_runnerVars => RunnerInv'
<1> SUFFICES ASSUME RunnerInv, [RunnerNext]_runnerVars PROVE RunnerInv'
  OBVIOUS
<1> USE MaxOrphansIsNat
    DEF RunnerInv, RunnerTypeOK, KillIsAimed, CrashIsReported, StartIsOffered,
        Children, Running
<1>1. CASE OpenPanel
  BY <1>1 DEF OpenPanel, FreshPanel
<1>2. CASE StartService
  BY <1>2 DEF StartService
<1>3. CASE StopService
  BY <1>3 DEF StopService
<1>4. CASE ForceKill
  BY <1>4 DEF ForceKill
<1>5. CASE ServiceEnds
  BY <1>5 DEF ServiceEnds
<1>6. CASE OrphanEnds
  BY <1>6 DEF OrphanEnds
<1>7. CASE ProcFinished
  BY <1>7 DEF ProcFinished
<1>8. CASE CloseWindow
  <2>1. panel' = "gone" /\ child' = "none" /\ ~stopTimer'
    BY <1>8 DEF CloseWindow, PanelAborts
  <2>2. orphans' \in 0 .. MaxOrphans
    BY <1>8 DEF CloseWindow, PanelAborts
  <2>3. RunnerTypeOK'
    BY <1>8, <2>1, <2>2 DEF CloseWindow
  <2> QED BY <2>1, <2>3
<1>9. CASE UNCHANGED runnerVars
  BY <1>9 DEF runnerVars
<1> QED
  BY <1>1, <1>2, <1>3, <1>4, <1>5, <1>6, <1>7, <1>8, <1>9 DEF RunnerNext

-----------------------------------------------------------------------------
\* The timer stop_service starts never kills a service that was started after
\* the Stop: on_proc_finished stops it in between.
THEOREM KillsAreAimed == RunnerSpec => []KillIsAimed
BY RunnerInvInit, RunnerInvStep, PTL DEF RunnerSpec, RunnerInv

\* on_proc_error calls a crash expected only if this service was asked to stop.
THEOREM CrashesAreReported == RunnerSpec => []CrashIsReported
BY RunnerInvInit, RunnerInvStep, PTL DEF RunnerSpec, RunnerInv

\* The start button comes back whenever a service that was started has ended.
THEOREM StartsAreOffered == RunnerSpec => []StartIsOffered
BY RunnerInvInit, RunnerInvStep, PTL DEF RunnerSpec, RunnerInv

-----------------------------------------------------------------------------
(* The envelopes. *)

AcceptedRow(f) == [file |-> f, outcome |-> "done"]

IdIsOfFileInHand ==
  /\ tick \notin {"idle", "down"} => file \in Files
  /\ envelopeId \in {NoRow, AcceptedRow(file)}
  /\ tick \in {"idle", "down", "stale", "accepted"} => envelopeId = NoRow

EnvelopesInv == EnvelopesTypeOK /\ IdIsOfFileInHand /\ DecisionsNameTheirEnvelope

-----------------------------------------------------------------------------
LEMMA EnvelopesInvInit == EnvelopesInit => EnvelopesInv
BY DEF EnvelopesInit, EnvelopesInv, IdIsOfFileInHand, DecisionsNameTheirEnvelope,
       EnvelopesTypeOK

LEMMA PollKeeps == EnvelopesInv /\ PollEnvelope => EnvelopesInv'
<1> SUFFICES ASSUME EnvelopesInv, PollEnvelope PROVE EnvelopesInv'
  OBVIOUS
<1>1. /\ envelopeId = NoRow /\ envelopeId' = NoRow
      /\ UNCHANGED <<place, content, aged, envelopes, decisions>>
      /\ tick' \in {"bad", "stale", "accepted"}
  BY DEF EnvelopesInv, IdIsOfFileInHand, PollEnvelope
<1>2. Min(Inbox) \in Files
  <2>1. Inbox \in SUBSET Nat /\ Inbox # {}
    BY EnvelopeConstants DEF PollEnvelope, Inbox, Files
  <2>2. Min(Inbox) \in Inbox
    BY <2>1, LeastOfNaturals
  <2> QED BY <2>2 DEF Inbox
<1>3. file' \in Files
  BY <1>2 DEF PollEnvelope
<1>4. EnvelopesTypeOK'
  BY <1>1, <1>3 DEF EnvelopesInv, EnvelopesTypeOK
<1> QED
  BY <1>1, <1>3, <1>4 DEF EnvelopesInv, IdIsOfFileInHand, DecisionsNameTheirEnvelope

LEMMA InsertEnvelopeKeeps == EnvelopesInv /\ InsertEnvelope => EnvelopesInv'
<1> SUFFICES ASSUME EnvelopesInv, InsertEnvelope PROVE EnvelopesInv'
  OBVIOUS
<1>1. envelopeId = NoRow /\ file \in Files
  BY DEF EnvelopesInv, IdIsOfFileInHand, InsertEnvelope
<1>2. /\ envelopeId' \in {NoRow, AcceptedRow(file)}
      /\ UNCHANGED <<place, content, aged, decisions, file>>
      /\ tick' \in {"bad", "decide"}
      /\ \/ envelopes' = envelopes
         \/ \E outcome \in {"stale", "done"} :
              envelopes' = envelopes \cup {[file |-> file, outcome |-> outcome]}
  BY <1>1 DEF InsertEnvelope, AcceptedRow
<1>3. IdIsOfFileInHand'
  BY <1>1, <1>2 DEF IdIsOfFileInHand, AcceptedRow
<1>4. DecisionsNameTheirEnvelope'
  BY <1>2 DEF EnvelopesInv, DecisionsNameTheirEnvelope
<1>5. envelopes' \subseteq EnvelopeRows
  BY <1>1, <1>2 DEF EnvelopesInv, EnvelopesTypeOK, EnvelopeRows
<1>6. EnvelopesTypeOK'
  BY <1>1, <1>2, <1>5
     DEF EnvelopesInv, EnvelopesTypeOK, AcceptedRow, EnvelopeRows
<1> QED BY <1>3, <1>4, <1>6 DEF EnvelopesInv

LEMMA InsertDecisionKeeps == EnvelopesInv /\ InsertDecision => EnvelopesInv'
<1> SUFFICES ASSUME EnvelopesInv, InsertDecision PROVE EnvelopesInv'
  OBVIOUS
<1> DEFINE d == [file |-> file, envelope |-> envelopeId,
                 action |-> ActionText(content[file])]
<1>1. /\ decisions' \in {decisions, decisions \cup {d}}
      /\ tick' = "done"
      /\ UNCHANGED <<place, content, aged, envelopes, file, envelopeId>>
  BY DEF InsertDecision
<1>2. d.file = file /\ d.envelope = envelopeId
  OBVIOUS
<1>3. d.envelope = NoRow \/ d.envelope = AcceptedRow(d.file)
  BY <1>2 DEF EnvelopesInv, IdIsOfFileInHand
<1>4. d \in [file : Files, envelope : EnvelopeRows \cup {NoRow}, action : Actions]
  <2>1. file \in Files /\ envelopeId \in EnvelopeRows \cup {NoRow}
    BY DEF EnvelopesInv, EnvelopesTypeOK, IdIsOfFileInHand, InsertDecision
  <2>2. ActionText(content[file]) \in Actions
    BY DEF ActionText, Actions
  <2> QED BY <2>1, <2>2
<1> HIDE DEF d
<1>5. DecisionsNameTheirEnvelope'
  BY <1>1, <1>3 DEF EnvelopesInv, DecisionsNameTheirEnvelope, AcceptedRow
<1>6. IdIsOfFileInHand'
  BY <1>1 DEF EnvelopesInv, IdIsOfFileInHand, AcceptedRow, InsertDecision
<1>7. EnvelopesTypeOK'
  BY <1>1, <1>4 DEF EnvelopesInv, EnvelopesTypeOK
<1> QED BY <1>5, <1>6, <1>7 DEF EnvelopesInv

LEMMA InboxKeeps ==
  EnvelopesInv /\ (\E f \in Files : DropEnvelope(f) \/ EnvelopeAges(f))
    => EnvelopesInv'
<1> SUFFICES ASSUME EnvelopesInv, NEW f \in Files, DropEnvelope(f) \/ EnvelopeAges(f)
             PROVE  EnvelopesInv'
  OBVIOUS
<1>1. UNCHANGED <<envelopes, decisions, tick, file, envelopeId>>
  BY DEF DropEnvelope, EnvelopeAges
<1>2. EnvelopesTypeOK'
  BY <1>1 DEF EnvelopesInv, EnvelopesTypeOK, DropEnvelope, EnvelopeAges
<1> QED
  BY <1>1, <1>2 DEF EnvelopesInv, IdIsOfFileInHand, DecisionsNameTheirEnvelope,
                    AcceptedRow

LEMMA TickEndKeeps ==
  EnvelopesInv /\ (MoveFile \/ MoveFileFails \/ TickDies \/ TickStarts)
    => EnvelopesInv'
<1> SUFFICES ASSUME EnvelopesInv,
                    MoveFile \/ MoveFileFails \/ TickDies \/ TickStarts
             PROVE  EnvelopesInv'
  OBVIOUS
<1>1. /\ UNCHANGED <<content, aged, envelopes, decisions>>
      /\ tick' \in {"idle", "down"} /\ envelopeId' = NoRow
      /\ file' \in {0, file}
  BY DEF EnvelopesInv, IdIsOfFileInHand, MoveFile, MoveFileFails, TickEnds,
         TickDies, TickStarts
<1>2. place' \in [Files -> {"none", "inbox", "done", "bad"}]
  BY DEF EnvelopesInv, EnvelopesTypeOK, MoveFile, MoveFileFails, TickDies,
         TickStarts
<1>3. EnvelopesTypeOK'
  BY <1>1, <1>2 DEF EnvelopesInv, EnvelopesTypeOK
<1> QED
  BY <1>1, <1>3 DEF EnvelopesInv, IdIsOfFileInHand, DecisionsNameTheirEnvelope

LEMMA EnvelopesInvStep ==
  EnvelopesInv /\ [EnvelopesNext]_envelopeVars => EnvelopesInv'
<1>1. EnvelopesInv /\ UNCHANGED envelopeVars => EnvelopesInv'
  BY DEF envelopeVars, EnvelopesInv, EnvelopesTypeOK, IdIsOfFileInHand,
         DecisionsNameTheirEnvelope, AcceptedRow
<1> QED
  BY <1>1, PollKeeps, InsertEnvelopeKeeps, InsertDecisionKeeps, InboxKeeps,
     TickEndKeeps DEF EnvelopesNext, TickStep

-----------------------------------------------------------------------------
\* No decision is stored with the envelope of another file or of a stale one,
\* whatever inserts and moves fail and wherever the process dies.
THEOREM DecisionsAlwaysNameTheirs ==
  EnvelopesSpec => []DecisionsNameTheirEnvelope
<1>1. EnvelopesInv => DecisionsNameTheirEnvelope
  BY DEF EnvelopesInv
<1> QED
  BY <1>1, EnvelopesInvInit, EnvelopesInvStep, PTL DEF EnvelopesSpec

-----------------------------------------------------------------------------
(* The six of them side by side. *)

DeskInv ==
  TgInv /\ RunnerInv /\ OutboxInv /\ NotifierInv /\ SheetsInv /\ EnvelopesInv

LEMMA DeskInvInit == DeskInit => DeskInv
BY TgInvInit, RunnerInvInit, OutboxInvInit, NotifierInvInit, SheetsInvInit,
   EnvelopesInvInit DEF DeskInit, DeskInv

\* Whichever of them takes a step, the others stutter.
LEMMA DeskInvStep == DeskInv /\ [DeskNext]_deskVars => DeskInv'
<1> SUFFICES ASSUME DeskInv, [DeskNext]_deskVars PROVE DeskInv'
  OBVIOUS
<1>1. /\ [TgNext]_tgVars /\ [RunnerNext]_runnerVars /\ [OutboxNext]_outboxVars
      /\ [NotifierNext]_notifierVars /\ [SheetsNext]_sheetsVars
      /\ [EnvelopesNext]_envelopeVars
  BY Zenon DEF DeskNext, deskVars, OnlyTg, OnlyRunner, OnlyOutbox, OnlyNotifier,
               OnlySheets, OnlyEnvelopes
<1> QED
  BY <1>1, TgInvStep, RunnerInvStep, OutboxInvStep, NotifierInvStep,
     SheetsInvStep, EnvelopesInvStep DEF DeskInv

\* The types of the six modules hold beside each other, for any constants.
THEOREM DeskTypes == DeskSpec => []DeskTypeOK
<1>1. DeskInv => DeskTypeOK
  BY DEF DeskInv, DeskTypeOK, TgInv, RunnerInv, OutboxInv, NotifierInv,
         SheetsInv, EnvelopesInv
<1> QED BY <1>1, DeskInvInit, DeskInvStep, PTL DEF DeskSpec
=============================================================================
