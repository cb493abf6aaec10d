-------------------------------- MODULE MCDesk --------------------------------
(***************************************************************************)
(* The parts beside the trading path, which share neither tables nor       *)
(* threads: the chat, the control panel, the three queues and the          *)
(* envelopes.  A behaviour exercises the one that focus names; the others  *)
(* stay as they begin.                                                     *)
(***************************************************************************)
EXTENDS TelegramCommands, QtRunner, Outbox, Notifier, SheetsSync, Envelopes

MCContents == {Unreadable, [wide |-> FALSE, flags |-> {"OK"}],
               [wide |-> TRUE, flags |-> {"THIN"}]}

VARIABLE focus

deskVars == <<focus, tgVars, runnerVars, outboxVars, notifierVars, sheetsVars,
              envelopeVars>>

DeskInit ==
  /\ focus \in {"telegram", "panel", "outbox", "notifier", "sheets", "envelopes"}
  /\ TgInit /\ RunnerInit /\ OutboxInit /\ NotifierInit /\ SheetsInit
  /\ EnvelopesInit

OnlyTg ==
  /\ focus = "telegram" /\ TgNext
  /\ UNCHANGED <<focus, runnerVars, outboxVars, notifierVars, sheetsVars,
                 envelopeVars>>

OnlyRunner ==
  /\ focus = "panel" /\ RunnerNext
  /\ UNCHANGED <<focus, tgVars, outboxVars, notifierVars, sheetsVars,
                 envelopeVars>>

OnlyOutbox ==
  /\ focus = "outbox" /\ OutboxNext
  /\ UNCHANGED <<focus, tgVars, runnerVars, notifierVars, sheetsVars,
                 envelopeVars>>

OnlyNotifier ==
  /\ focus = "notifier" /\ NotifierNext
  /\ UNCHANGED <<focus, tgVars, runnerVars, outboxVars, sheetsVars,
                 envelopeVars>>

OnlySheets ==
  /\ focus = "sheets" /\ SheetsNext
  /\ UNCHANGED <<focus, tgVars, runnerVars, outboxVars, notifierVars,
                 envelopeVars>>

OnlyEnvelopes ==
  /\ focus = "envelopes" /\ EnvelopesNext
  /\ UNCHANGED <<focus, tgVars, runnerVars, outboxVars, notifierVars,
                 sheetsVars>>

DeskNext ==
  \/ OnlyTg \/ OnlyRunner \/ OnlyOutbox \/ OnlyNotifier \/ OnlySheets
  \/ OnlyEnvelopes

\* The fairness of each module, for the behaviours that exercise it.
DeskFairness ==
  /\ WF_tgVars(focus = "telegram" /\ GetUpdates)
  /\ WF_tgVars(focus = "telegram" /\ HandleUpdate)
  /\ WF_runnerVars(focus = "panel" /\ ForceKill)
  /\ WF_runnerVars(focus = "panel" /\ ProcFinished)
  /\ WF_outboxVars(focus = "outbox" /\ FetchDueBatch)
  /\ WF_outboxVars(focus = "outbox" /\ WorkerStep)
  /\ \A n \in Ids : WF_outboxVars(focus = "outbox" /\ BackoffEnds(n))
  /\ WF_sheetsVars(focus = "sheets" /\ ListPending)
  /\ WF_sheetsVars(focus = "sheets" /\ (ApplyPayload \/ ApplyFails))
  /\ \A k \in Entities :
       SF_sheetsVars(focus = "sheets" /\ FirstIs(k) /\ ApplyPayload)
  /\ WF_sheetsVars(focus = "sheets" /\ MarkAttempt)
  /\ WF_sheetsVars(focus = "sheets" /\ EnsureMonthSheet)
  /\ WF_envelopeVars(focus = "envelopes" /\ TickStep)
  /\ WF_envelopeVars(focus = "envelopes" /\ (MoveFile \/ MoveFileFails))
  /\ \A f \in Files :
       SF_envelopeVars(focus = "envelopes" /\ file = f /\ MoveFile)

DeskSpec == DeskInit /\ [][DeskNext]_deskVars /\ DeskFairness

\* The types of the six modules.
DeskTypeOK ==
  /\ TgTypeOK /\ RunnerTypeOK /\ OutboxTypeOK /\ NotifierTypeOK
  /\ SheetsTypeOK /\ EnvelopesTypeOK
=============================================================================
