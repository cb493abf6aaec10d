--------------------------- MODULE TelegramCommands ---------------------------
(***************************************************************************)
(* app/commands.py: the thread that polls Telegram for the operator's      *)
(* commands, and the KillSwitch it sets.  The flag, the offset and the     *)
(* batch in hand live in the process's memory; the chat and the offset     *)
(* confirmed to the server live at Telegram, which returns every update    *)
(* that no getUpdates has confirmed.                                       *)
(*                                                                         *)
(* Update n is the nth text of the chat.                                   *)
(***************************************************************************)
EXTENDS Integers, Sequences, FiniteSetsExt

CONSTANT MaxCommands   \* bounds the texts the operator sends

ASSUME MaxCommandsIsNat == MaxCommands \in Nat

VARIABLES
  chat,        \* the operator's commands, in the order sent
  confirmed,   \* the server returns the updates after this one only
  offset,      \* CommandsPoller._offset
  batch,       \* the updates of the last answer still to be handled
  killOn,      \* KillSwitch._on
  known,       \* history: the updates handled without a gap so far
  born         \* history: the updates confirmed when the process started

tgVars == <<chat, confirmed, offset, batch, killOn, known, born>>

\* "other" stands for the commands that touch no state of the service: /status,
\* /logs, and /arm and /disarm, which main() does not configure.
Commands == {"pause", "resume", "other"}

TgTypeOK ==
  /\ chat \in Seq(Commands)
  /\ confirmed \in Nat /\ offset \in Nat /\ known \in Nat /\ born \in Nat
  /\ batch \in Seq(1 .. Len(chat))
  /\ killOn \in BOOLEAN

TgInit ==
  /\ chat = <<>>
  /\ confirmed = 0
  /\ offset = 0
  /\ batch = <<>>
  /\ killOn = FALSE
  /\ known = 0
  /\ born = 0

-----------------------------------------------------------------------------
SendCommand ==
  /\ Len(chat) < MaxCommands
  /\ \E c \in Commands : chat' = Append(chat, c)
  /\ UNCHANGED <<confirmed, offset, batch, killOn, known, born>>

\* Mutants: without the maximum of the two; one update too many.
ConfirmBlindly    == confirmed' = offset - 1
ConfirmOneTooMany == confirmed' = Max({confirmed, offset})

\* getUpdates asks from the offset on, which tells the server that everything
\* before it is done with.
Confirm == confirmed' = Max({confirmed, offset - 1})

GetUpdates ==
  /\ batch = <<>>
  /\ Confirm
  /\ batch' = [n \in 1 .. Len(chat) - confirmed' |-> confirmed' + n]
  /\ UNCHANGED <<chat, offset, killOn, known, born>>

\* The answer is lost after the server has read the request.
GetUpdatesFails ==
  /\ batch = <<>>
  /\ Confirm
  /\ UNCHANGED <<chat, offset, batch, killOn, known, born>>

\* Mutant: /resume is answered and leaves the switch on.
HandleWithoutResume ==
  /\ batch # <<>>
  /\ LET n == Head(batch) IN
       /\ offset' = Max({offset, n + 1})
       /\ killOn' = (killOn \/ chat[n] = "pause")
       /\ known' = IF n = known + 1 THEN n ELSE known
  /\ batch' = Tail(batch)
  /\ UNCHANGED <<chat, confirmed, born>>

\* The offset moves before the command is handled; nothing in the handling
\* raises.
HandleUpdate ==
  /\ batch # <<>>
  /\ LET n == Head(batch) IN
       /\ offset' = Max({offset, n + 1})
       /\ killOn' = CASE chat[n] = "pause"  -> TRUE
                      [] chat[n] = "resume" -> FALSE
                      [] OTHER              -> killOn
       /\ known' = IF n = known + 1 THEN n ELSE known
  /\ batch' = Tail(batch)
  /\ UNCHANGED <<chat, confirmed, born>>

PollerStep == GetUpdates \/ GetUpdatesFails \/ HandleUpdate

\* A new process has a new KillSwitch and asks from offset 0.
PollerRestarts ==
  /\ offset' = 0
  /\ batch' = <<>>
  /\ killOn' = FALSE
  /\ born' = confirmed
  /\ UNCHANGED <<chat, confirmed, known>>

TgNext == SendCommand \/ PollerStep \/ PollerRestarts

\* The thread runs, and a request that is repeated succeeds at some time.
TgFairness == WF_tgVars(GetUpdates) /\ WF_tgVars(HandleUpdate)

TgSpec == TgInit /\ [][TgNext]_tgVars /\ TgFairness

-----------------------------------------------------------------------------
\* The position of the last /pause or /resume among updates m to n, or 0.
LastSwitch(m, n) ==
  Max({0} \cup {k \in m .. n : k \in DOMAIN chat /\ chat[k] # "other"})

\* Commands take effect in the order sent, none twice out of order and none
\* skipped: the switch is what the last /pause or /resume handled since the
\* process started made it, redelivered commands included.
KillSwitchFollowsChat ==
  LET last == LastSwitch(born + 1, offset - 1) IN
    killOn = (last # 0 /\ chat[last] = "pause")

\* An update is confirmed to Telegram, and so never delivered again, only after
\* it was handled: a crash at any moment loses no command.
ConfirmedWasHandled == confirmed <= known

\* Every command sent is handled in the end, if the process is not restarted for
\* ever: a batch that is lost with its process is asked for again.
CommandsAreHandled ==
  <>[][~PollerRestarts]_tgVars =>
    \A n \in 1 .. MaxCommands : Len(chat) >= n ~> known >= n

\* What the operator was last told: "Trading paused" or "Trading resumed".
OperatorPaused ==
  LET last == LastSwitch(1, known) IN last # 0 /\ chat[last] = "pause"
=============================================================================
