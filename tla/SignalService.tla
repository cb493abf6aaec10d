---------------------------- MODULE SignalService ----------------------------
(***************************************************************************)
(* The signals side of the service: app/service.py's main loop, which takes *)
(* one signal at a time from SignalFiles through app/pipeline.py to         *)
(* OrderExecutor, next to the TelegramCommands thread that sets the kill   *)
(* switch.  The loop and the thread share the switch; the database, the    *)
(* files, the chat and the broker outlive the process, which the service   *)
(* manager starts again whenever it ends (Restart=always), with the same   *)
(* environment until an operator edits it.                                 *)
(*                                                                         *)
(* Signals are enabled (SENSEI_SIGNALS_ENABLE=1) and the mode is paper or  *)
(* live.                                                                   *)
(***************************************************************************)
EXTENDS OrderExecutor, SignalFiles, TelegramCommands

CONSTANTS
  DomainBad,    \* the signals validate_signal_basic refuses whatever their age
  RiskRefused,  \* the signals the risk gate refuses on their numbers
  MaxCrashes    \* bounds the crashes that are not the program's own

ASSUME ServiceConstants ==
  /\ DomainBad \subseteq Signals
  /\ RiskRefused \subseteq Signals
  /\ MaxCrashes \in Nat
  /\ RunModes \subseteq {"paper", "live"}
  /\ Content \in [Files -> Seq(Signals)]

VARIABLES
  pc,        \* where the main loop is
  item,      \* the item polled
  killSeen,  \* kill_switch of the snapshot built for it
  outcome,   \* what is going to be acknowledged
  armEnv,    \* SENSEI_LIVE_ARM=1 in the environment a start is given
  armed,     \* live_arm_until_utc is in the future
  old,       \* the signals were issued more than 60 minutes ago, all alike
  crashes,   \* how many crashes there were
  pausedThen \* history: the operator had been told "paused" at the poll

loopVars ==
  <<pc, item, killSeen, outcome, armEnv, armed, old, crashes, pausedThen>>
vars     == <<execVars, filesVars, tgVars, loopVars>>

NoItem == <<>>
Places == {"down", "poll", "gate", "submit", "ack"}

SvcTypeOK ==
  /\ ExecTypeOK /\ FilesTypeOK /\ TgTypeOK
  /\ pc \in Places
  /\ item = NoItem \/ \E f \in Files : item \in ItemsOf(f)
  /\ {killSeen, armEnv, armed, old, pausedThen} \subseteq BOOLEAN
  /\ outcome \in Outcomes \cup {"none"}
  /\ crashes \in 0 .. MaxCrashes

Init ==
  /\ ExecInit /\ FilesInit /\ TgInit
  /\ pc = "down"
  /\ item = NoItem
  /\ killSeen = FALSE
  /\ outcome = "none"
  /\ armEnv \in BOOLEAN
  /\ armed = FALSE
  /\ old = FALSE
  /\ crashes = 0
  /\ pausedThen = FALSE

-----------------------------------------------------------------------------
Live    == mode = "live"
Current == SignalAt(item)

\* In live mode main() returns unless the arm window is open, or is opened by
\* the environment it was started with, now and at every later start.
MayStart == Live => armed \/ armEnv

Start ==
  /\ pc = "down"
  /\ MayStart
  /\ armed' = (armed \/ (Live /\ armEnv))
  /\ Load
  /\ pc' = "poll"
  /\ UNCHANGED <<execVars, tgVars, item, killSeen, outcome, armEnv, old,
                 crashes, pausedThen>>

\* source.poll and the snapshot, which reads the kill switch.
TakeSignal ==
  /\ pc = "poll"
  /\ \E next \in queue : Poll(next) /\ item' = next
  /\ killSeen' = killOn
  /\ pausedThen' = OperatorPaused
  /\ pc' = "gate"
  /\ UNCHANGED <<execVars, tgVars, outcome, armEnv, armed, old, crashes>>

Judge(o) ==
  /\ outcome' = o
  /\ pc' = "ack"

\* Mutant: the domain check looks at the age only.
InvalidatedByAge(s) == old

Invalidated(s) == s \in DomainBad \/ old

\* The domain check comes first, and does not look at the kill switch.
RefuseInvalid ==
  /\ pc = "gate"
  /\ Invalidated(Current)
  /\ Judge("rejected")
  /\ UNCHANGED <<execVars, filesVars, tgVars, item, killSeen, armEnv,
                 armed, old, crashes, pausedThen>>

RefuseRisk ==
  /\ pc = "gate"
  /\ ~Invalidated(Current) /\ ~killSeen
  /\ Current \in RiskRefused
  /\ Judge("rejected")
  /\ UNCHANGED <<execVars, filesVars, tgVars, item, killSeen, armEnv,
                 armed, old, crashes, pausedThen>>

\* The risk gate approves and submit_approved_trade is called: its checks and
\* its INSERT, or what they end in at once.
SubmitSignal ==
  /\ pc = "gate"
  /\ ~Invalidated(Current) /\ ~killSeen
  /\ Current \notin RiskRefused
  /\ Submit(Current)
  /\ pc' = "submit"
  /\ UNCHANGED <<filesVars, tgVars, item, killSeen, outcome, armEnv, armed,
                 old, crashes, pausedThen>>

ExecutorStep ==
  /\ pc = "submit"
  /\ CallStep
  /\ UNCHANGED <<filesVars, tgVars, loopVars>>

\* Mutants: the placement's status is passed on; a missing placement is taken
\* for a submitted one.
StatusAsOutcome(r) == r
OutcomeUnchecked(r) == IF r = "DUPLICATE" THEN "duplicate" ELSE "submitted"

\* What the main loop makes of the placement.
OutcomeOf(r) ==
  CASE r = "OK"        -> "submitted"
    [] r = "DUPLICATE" -> "duplicate"
    [] r = "FAILED"    -> "failed"

TakeResult ==
  /\ pc = "submit"
  /\ CallEnds
  /\ Judge(OutcomeOf(result))
  /\ UNCHANGED <<filesVars, tgVars, item, killSeen, armEnv, armed, old,
                 crashes, pausedThen>>

Acknowledge ==
  /\ pc = "ack"
  /\ Ack(item[1], outcome)
  /\ pc' = "poll"
  /\ item' = NoItem
  /\ outcome' = "none"
  /\ UNCHANGED <<execVars, tgVars, killSeen, armEnv, armed, old, crashes,
                 pausedThen>>

-----------------------------------------------------------------------------
\* The process ends, with everything it held in memory.
Die ==
  /\ ExecutorDies
  /\ ForgetFiles
  /\ PollerRestarts
  /\ pc' = "down"
  /\ item' = NoItem
  /\ outcome' = "none"
  /\ killSeen' = FALSE
  /\ pausedThen' = FALSE
  /\ UNCHANGED <<armEnv, armed, old>>

\* The kill switch refuses with rr = 0, which Approval does not admit (gt=0):
\* the ValidationError leaves process_signal_once and main().
KillSwitchRaises ==
  /\ pc = "gate"
  /\ ~Invalidated(Current) /\ killSeen
  /\ Die
  /\ UNCHANGED crashes

Crash ==
  /\ pc # "down"
  /\ crashes < MaxCrashes
  /\ crashes' = crashes + 1
  /\ Die

\* The poller thread runs while the process does.
PollTelegram ==
  /\ pc # "down"
  /\ PollerStep
  /\ UNCHANGED <<execVars, filesVars, loopVars>>

\* Time passes: the arm window closes, the signals grow old.
ArmExpires ==
  /\ armed
  /\ armed' = FALSE
  /\ UNCHANGED <<execVars, filesVars, tgVars, pc, item, killSeen, outcome,
                 armEnv, old, crashes, pausedThen>>

SignalsAge ==
  /\ ~old
  /\ old' = TRUE
  /\ UNCHANGED <<execVars, filesVars, tgVars, pc, item, killSeen, outcome,
                 armEnv, armed, crashes, pausedThen>>

Operator ==
  /\ \/ SendCommand /\ UNCHANGED filesVars
     \/ DropFile /\ UNCHANGED tgVars
  /\ UNCHANGED <<execVars, loopVars>>

\* The next start will be given another environment.
EditEnvironment ==
  /\ armEnv' = ~armEnv
  /\ UNCHANGED <<execVars, filesVars, tgVars, pc, item, killSeen, outcome, armed,
                 old, crashes, pausedThen>>

MainLoop ==
  \/ TakeSignal
  \/ RefuseInvalid
  \/ RefuseRisk
  \/ SubmitSignal
  \/ ExecutorStep
  \/ TakeResult
  \/ Acknowledge
  \/ KillSwitchRaises

Next ==
  \/ Start
  \/ MainLoop
  \/ PollTelegram
  \/ Operator
  \/ EditEnvironment
  \/ Crash
  \/ ArmExpires
  \/ SignalsAge

\* The service manager restarts what ends, as often as it ends by the ARM check;
\* a start passes the check only while it may, and nobody has to arm.  The loop
\* and the thread run, and a request to Telegram that is repeated succeeds at
\* some time.
Fairness ==
  /\ WF_vars(Start)
  /\ WF_vars(MainLoop)
  /\ WF_vars(pc # "down" /\ (GetUpdates \/ HandleUpdate)
             /\ UNCHANGED <<execVars, filesVars, loopVars>>)

Spec == Init /\ [][Next]_vars /\ Fairness

-----------------------------------------------------------------------------
\* A signal reported as submitted has its whole bracket at the broker, and one
\* reported as a duplicate has an orders row under its signal_id.
VerdictsAreTrue ==
  \A f \in Files : \A n \in DOMAIN verdicts[f] :
    LET s == SignalAt(<<f, n>>) IN
    /\ verdicts[f][n] = "submitted" => Transmitted(s)
    /\ verdicts[f][n] = "duplicate" => KnownSignalId(s)

\* Nothing is ever recorded or sent for a signal that the domain check or the
\* risk gate refuses for what it is.
RefusedIsNeverOrdered ==
  \A s \in DomainBad \cup RiskRefused :
    ~HasRow(s) /\ \A l \in Legs : legs[s][l] = 0

\* Every signal loaded gets its verdict, in spite of crashes, failing databases
\* and brokers, as long as the operator sends no command and the service is not
\* left down by its ARM check: in live mode a restart is refused once the window
\* has closed.  The signals then wait, and are judged if somebody arms for good.
Judged(f) == dir[f] \in {"processed", "failed"} \/ AllJudged(f)
NotArmed  == pc = "down" /\ ~MayStart
SignalsAreJudged ==
  [](chat = <<>>) =>
    \A f \in Files :
      /\ remaining[f] > 0 ~> Judged(f) \/ NotArmed
      /\ <>[]MayStart => (remaining[f] > 0 ~> Judged(f))

\* "Kill-switch is active; new orders are blocked" (risk.py), "if True, new
\* orders must be rejected until reset" (RiskSnapshot): no signal polled after
\* the operator was told that trading is paused is submitted.
PausedIsNotTraded == pc = "submit" => ~pausedThen

\* "LIVE is forbidden without ARM" (service.py): every order recorded in live
\* mode is recorded within the arm window.
LiveOrdersNeedArm ==
  [][\A s \in Signals : Live /\ HasRow(s)' /\ ~HasRow(s) => armed]_vars
=============================================================================
