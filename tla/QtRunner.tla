------------------------------- MODULE QtRunner -------------------------------
(***************************************************************************)
(* qt_runner.py: the control panel an operator starts and stops the        *)
(* service with, from its buttons or its tray menu.  It runs on Windows    *)
(* (open_in_explorer), where QProcess starts a program, or fails to,       *)
(* before start() returns, terminate() does nothing to a program without a *)
(* window, and a program outlives the panel that started it.               *)
(*                                                                         *)
(* The status label and the heartbeat that is shown in it are left out.    *)
(***************************************************************************)
EXTENDS Integers

CONSTANT MaxOrphans   \* bounds the services left behind by panels

ASSUME MaxOrphansIsNat == MaxOrphans \in Nat

VARIABLES
  panel,          \* "up" while the panel's process lives
  child,          \* the program of self.proc
  stopTimer,      \* whether _stop_timer is running
  stopping,       \* _stopping
  exitRequested,  \* _exit_requested
  startEnabled,   \* btn_start
  stopEnabled,    \* btn_stop
  asked,          \* history: the operator has asked this child to stop
  orphans         \* the services whose panel is gone

runnerVars == <<panel, child, stopTimer, stopping, exitRequested, startEnabled,
                stopEnabled, asked, orphans>>

\* "exited" and "crashed": the program has ended, and Qt has not said so yet;
\* "failed": it could not be started.
Children == {"none", "alive", "exited", "crashed", "failed"}

\* self.proc.state() != NotRunning
Running == child \in {"alive", "exited", "crashed"}

RunnerTypeOK ==
  /\ panel \in {"up", "gone"}
  /\ child \in Children
  /\ stopTimer \in BOOLEAN /\ stopping \in BOOLEAN
  /\ exitRequested \in BOOLEAN /\ asked \in BOOLEAN
  /\ startEnabled \in BOOLEAN /\ stopEnabled \in BOOLEAN
  /\ orphans \in 0 .. MaxOrphans

\* A panel as RunnerWindow.__init__ makes it.
FreshPanel ==
  /\ panel' = "up" /\ child' = "none"
  /\ stopTimer' = FALSE /\ stopping' = FALSE /\ exitRequested' = FALSE
  /\ startEnabled' = TRUE /\ stopEnabled' = FALSE
  /\ asked' = FALSE

RunnerInit ==
  /\ panel = "gone" /\ child = "none"
  /\ stopTimer = FALSE /\ stopping = FALSE /\ exitRequested = FALSE
  /\ startEnabled = FALSE /\ stopEnabled = FALSE
  /\ asked = FALSE
  /\ orphans = 0

-----------------------------------------------------------------------------
\* The operator opens the panel.
OpenPanel ==
  /\ panel = "gone"
  /\ orphans < MaxOrphans
  /\ FreshPanel
  /\ UNCHANGED orphans

\* Mutant: _stopping is left as the last stop has set it.
StartServiceKeepsStopping ==
  /\ panel = "up"
  /\ ~Running
  /\ child' \in {"alive", "failed"}
  /\ asked' = FALSE
  /\ startEnabled' = FALSE
  /\ stopEnabled' = TRUE
  /\ UNCHANGED <<panel, stopTimer, stopping, exitRequested, orphans>>

\* start_service, which the tray menu offers at any time: nothing but _stopping
\* changes without a config file, or when the service is running.
StartService ==
  /\ panel = "up"
  /\ stopping' = FALSE
  /\ \/ UNCHANGED <<child, asked, startEnabled, stopEnabled>>
     \/ /\ ~Running
        /\ child' \in {"alive", "failed"}
        /\ asked' = FALSE
        /\ startEnabled' = FALSE
        /\ stopEnabled' = TRUE
  /\ UNCHANGED <<panel, stopTimer, exitRequested, orphans>>

\* Mutant: terminate() is relied on.
StopServiceMildly ==
  /\ panel = "up"
  /\ Running
  /\ stopping' = TRUE
  /\ asked' = TRUE
  /\ UNCHANGED <<panel, child, stopTimer, exitRequested, startEnabled,
                 stopEnabled, orphans>>

\* stop_service
StopService ==
  /\ panel = "up"
  /\ Running
  /\ stopping' = TRUE
  /\ asked' = TRUE
  /\ stopTimer' = TRUE
  /\ UNCHANGED <<panel, child, exitRequested, startEnabled, stopEnabled,
                 orphans>>

\* force_kill, when the timer has run out.
ForceKill ==
  /\ panel = "up"
  /\ stopTimer
  /\ stopTimer' = FALSE
  /\ child' = IF child = "alive" THEN "crashed" ELSE child
  /\ UNCHANGED <<panel, stopping, exitRequested, startEnabled, stopEnabled,
                 asked, orphans>>

\* The service ends by itself.
ServiceEnds ==
  /\ child = "alive"
  /\ child' \in {"exited", "crashed"}
  /\ UNCHANGED <<panel, stopTimer, stopping, exitRequested, startEnabled,
                 stopEnabled, asked, orphans>>

OrphanEnds ==
  /\ orphans > 0
  /\ orphans' = orphans - 1
  /\ UNCHANGED <<panel, child, stopTimer, stopping, exitRequested, startEnabled,
                 stopEnabled, asked>>

\* Mutants: the timer goes on; only a normal end gives the button back.
FinishedKeepsTimer ==
  /\ child \in {"exited", "crashed"}
  /\ child' = "none"
  /\ startEnabled' = TRUE /\ stopEnabled' = FALSE
  /\ UNCHANGED <<panel, stopTimer, stopping, exitRequested, asked, orphans>>
FinishedAfterExitOnly ==
  /\ child \in {"exited", "crashed"}
  /\ child' = "none"
  /\ stopTimer' = FALSE
  /\ startEnabled' = (child = "exited") /\ stopEnabled' = FALSE
  /\ UNCHANGED <<panel, stopping, exitRequested, asked, orphans>>

\* on_proc_finished, after on_proc_error if the program crashed.
ProcFinished ==
  /\ panel = "up"
  /\ child \in {"exited", "crashed"}
  /\ child' = "none"
  /\ stopTimer' = FALSE
  /\ startEnabled' = TRUE /\ stopEnabled' = FALSE
  /\ panel' = IF exitRequested THEN "gone" ELSE panel
  /\ UNCHANGED <<stopping, exitRequested, asked, orphans>>

\* Mutant: the service is taken for stopped.
PanelStops ==
  /\ panel' = "gone"
  /\ orphans' = orphans - (IF child = "alive" THEN 1 ELSE 0)
  /\ child' = "none"

\* closeEvent calls self._log, which no class of the panel defines: nothing of it
\* but the exception happens, and PyQt ends a process whose event handler
\* raises.
PanelAborts ==
  /\ panel' = "gone"
  /\ orphans' = orphans + (IF child = "alive" THEN 1 ELSE 0)
  /\ child' = "none"

\* The window is closed, or Exit chosen, which closes it (request_exit).
CloseWindow ==
  /\ panel = "up"
  /\ PanelAborts
  /\ exitRequested' \in {exitRequested, TRUE}
  /\ stopTimer' = FALSE
  /\ UNCHANGED <<stopping, startEnabled, stopEnabled, asked>>

RunnerNext ==
  \/ OpenPanel
  \/ StartService
  \/ StopService
  \/ ForceKill
  \/ ServiceEnds
  \/ OrphanEnds
  \/ ProcFinished
  \/ CloseWindow

\* The event loop delivers timeouts and the end of a program.  Nobody presses
\* Stop, which starts the three seconds anew, for ever.
RunnerFairness == WF_runnerVars(ForceKill) /\ WF_runnerVars(ProcFinished)

RunnerSpec == RunnerInit /\ [][RunnerNext]_runnerVars /\ RunnerFairness

-----------------------------------------------------------------------------
\* The timer of a Stop never reaches a service that was started after it: the
\* service it will kill is one the operator asked to stop.
KillIsAimed == stopTimer => Running /\ asked

\* The crash of a service nobody asked to stop is reported as an error, and not
\* as "expected on kill", however the one before it was stopped.
CrashIsReported == Running /\ stopping => asked

\* When what was started has ended, it can be started again with the button.
StartIsOffered == panel = "up" /\ child = "none" => startEnabled

\* A service that was asked to stop ends, be it deaf to terminate() and whatever
\* is pressed meanwhile, as long as the panel is there to kill it.
StopEndsTheService == asked /\ Running ~> ~Running

\* "Сервис запущен: сначала останавливаем, потом выйдем": the service is running,
\* first we stop it, then we exit (closeEvent).  It is left behind.
ExitStopsTheService == panel = "gone" => orphans = 0
=============================================================================
