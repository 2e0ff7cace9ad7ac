------------------------------- MODULE Program -------------------------------
(***************************************************************************)
(* The process (main() of aws_sso_autologin/__main__.py): the command line *)
(* and the settings decide whether there is an application and whether it  *)
(* starts monitoring, then the main thread of Lifecycle and the login      *)
(* worker of AwsCommand run side by side.  The worker is a daemon thread:  *)
(* the process ends without it, whatever its login command does.           *)
(*                                                                         *)
(* The monitor threads and the login queue between the two are reduced to  *)
(* this: no login starts before a monitor thread has (module Renewal has   *)
(* the rest).  What toggles do to statuses and to the tray is in App.      *)
(***************************************************************************)
EXTENDS AwsCommand

CONSTANT None

VARIABLES   \* the main thread
    monitoringEnabled, step, handler, at, frame, exitCode, shuttingDown, signalled,
    quitPosted, interrupted, tray, health, running, thread, hostTimer, pumpTimer

VARIABLES
    launch,      \* what main() is started with; None once the app exists
    safeAsked,   \* history: the launch asked for safe mode, the user not yet for a resume
    monitored    \* history: a monitor thread was started and found _running set

mainVars == <<monitoringEnabled, step, handler, at, frame, exitCode, shuttingDown,
              signalled, quitPosted, interrupted, tray, health, running, thread,
              hostTimer, pumpTimer>>
workerVars == vars
launchVars == <<launch, safeAsked, monitored>>
programVars == <<mainVars, workerVars, launchVars>>

Main == INSTANCE Lifecycle

-----------------------------------------------------------------------------
(* The settings: command line over environment over config.yaml.            *)

Commands == {"help", "bad_help", "bad_option", "version", "check_only", "run"}

\* "bad_help" is -h, which main() looks for and the parser does not know, or
\* --help beside an option that is wrong.
\* "true" stands for true, yes and on; "unset" for a blank variable too; saved
\* is the global monitoring preference of the state file.
Launches ==
    [command : Commands, cliSafe : BOOLEAN, envSafe : {"unset", "0", "1", "true"},
     configSafe : BOOLEAN, saved : BOOLEAN, hostAvailable : BOOLEAN]

ASSUME NoneAssumption == None \notin Nat /\ None \notin Launches

\* _resolve_safe_mode, which knows only "1".
SettingsSafeMode(l) ==
    \/ l.cliSafe
    \/ l.envSafe = "1"
    \/ l.envSafe = "unset" /\ l.configSafe

\* The variable as main() leaves it to the application.
EnvSafe(l) == IF SettingsSafeMode(l) THEN "1" ELSE l.envSafe

\* Mutant: the application knows only "1" too.
SafeModeRequested_OnlyOne(l) == EnvSafe(l) = "1"

\* _safe_mode_requested of the application.
SafeModeRequested(l) == EnvSafe(l) \in {"1", "true"}

ProgramInit ==
    /\ Init
    /\ Main!Init
    /\ monitoringEnabled = FALSE
    /\ launch \in Launches
    /\ safeAsked = FALSE
    /\ monitored = FALSE

Launching == step = "qt" /\ launch # None

Return(code) ==
    /\ Main!Exit(code)
    /\ UNCHANGED <<monitoringEnabled, handler, at, frame, shuttingDown, signalled,
                   quitPosted, interrupted, tray, health, running, thread, hostTimer,
                   pumpTimer, workerVars, launchVars>>

\* Neither the help nor a wrong command line looks at the settings.  What the
\* parser raises in the help path leaves main().
Usage ==
    /\ Launching
    /\ \/ launch.command = "help" /\ Return(0)
       \/ launch.command = "bad_help" /\ Return(1)
       \/ launch.command = "bad_option" /\ Return(2)

\* config.yaml cannot be read or parsed: the exception ends the program.
ConfigFails ==
    /\ Launching
    /\ launch.command \notin {"help", "bad_help", "bad_option"}
    /\ Return(1)

Version ==
    /\ Launching
    /\ launch.command = "version"
    /\ Return(0)

\* _run_preflight_check; what the discovery of the profiles finds is ignored.
CheckOnly ==
    /\ Launching
    /\ launch.command = "check_only"
    /\ Return(IF launch.hostAvailable THEN 0 ELSE 1)

\* AutologinApp.__init__ resolves the initial monitoring state.
CreateApp ==
    /\ Launching
    /\ launch.command = "run"
    /\ monitoringEnabled' = (~SafeModeRequested(launch) /\ launch.saved)
    /\ safeAsked' = (launch.cliSafe \/ launch.envSafe \in {"1", "true"}
                        \/ (launch.envSafe = "unset" /\ launch.configSafe))
    /\ launch' = None
    /\ UNCHANGED <<step, handler, at, frame, exitCode, shuttingDown, signalled,
                   quitPosted, interrupted, tray, health, running, thread, hostTimer,
                   pumpTimer, monitored, workerVars>>

Launch == Usage \/ ConfigFails \/ Version \/ CheckOnly \/ CreateApp

-----------------------------------------------------------------------------
(* The application, after main() has created it.                            *)

\* Mutant: the login worker is a thread that the interpreter waits for.
WorkerIsDaemon_Not == FALSE

\* Thread(..., daemon=True): the interpreter does not join it at the exit.
WorkerIsDaemon == TRUE

App == launch = None /\ step # "ended"

\* run() and what it returns; the end of the process.
RunStep ==
    /\ App
    /\ Main!Run \/ Main!StartupFails
    /\ step' = "ended" => WorkerIsDaemon \/ pc = "idle"
    /\ UNCHANGED <<workerVars, launchVars>>

\* The startup of the monitor, and what toggles and heartbeats do to it.
HandlerStep ==
    /\ App
    /\ Main!Handle
    /\ monitored' = (monitored \/ (thread' = "started" /\ running'))
    /\ UNCHANGED <<workerVars, launch, safeAsked>>

\* An exception that no step of run() catches: main() returns 1.
RunRaises ==
    /\ App
    /\ \E s \in {"install", "load", "timers"} : Main!At(s)
    /\ Return(1)

\* SIGINT before run() has installed its handlers is a KeyboardInterrupt:
\* main() calls shutdown(), which finds nothing to stop, and returns 0.
KeyboardInterrupt ==
    /\ App
    /\ Main!At("qt") \/ Main!At("install")
    /\ Main!Exit(0)
    /\ shuttingDown' = TRUE
    /\ UNCHANGED <<monitoringEnabled, handler, at, frame, signalled, quitPosted,
                   interrupted, tray, health, running, thread, hostTimer, pumpTimer,
                   workerVars, launchVars>>

\* SIGTERM before that ends the process by itself.
TerminatedEarly ==
    /\ App
    /\ Main!At("qt") \/ Main!At("install")
    /\ Return(143)

Shutdown ==
    /\ App
    /\ Main!Shutdown
    /\ UNCHANGED <<workerVars, launchVars>>

\* A click on the first row is the one way out of safe mode.
Resume ==
    /\ App
    /\ Main!Toggle("resume")
    /\ safeAsked' = FALSE
    /\ UNCHANGED <<workerVars, launch, monitored>>

\* Clicks, signals, and a tray host that is found lost.
Event ==
    /\ App
    /\ \/ Main!Toggle("pause")
       \/ Main!HostLost
       \/ Main!Quit
       \/ Main!FirstSignal
       \/ Main!SecondSignal
    /\ UNCHANGED <<workerVars, launchVars>>

\* An expired session was found and the queue has reached it.
LoginStarts ==
    /\ App
    /\ monitored
    /\ \E withBrowser \in BOOLEAN : StartLogin(withBrowser)
    /\ UNCHANGED <<mainVars, launchVars>>

\* The worker thread exists as long as the process.
WorkerStep ==
    /\ App
    /\ Caller
    /\ UNCHANGED <<mainVars, launchVars>>

\* The child process may outlive the program.
ChildStep ==
    /\ \/ \E well, held \in BOOLEAN : ChildExits(well, held)
       \/ PipesClose
    /\ UNCHANGED <<mainVars, launchVars>>

KillTakesEffect == KilledChildDies /\ UNCHANGED <<mainVars, launchVars>>

Ended == step = "ended" /\ UNCHANGED programVars

ProgramNext ==
    \/ Launch
    \/ RunStep
    \/ HandlerStep
    \/ RunRaises
    \/ KeyboardInterrupt
    \/ TerminatedEarly
    \/ Shutdown
    \/ Resume
    \/ Event
    \/ LoginStarts
    \/ WorkerStep
    \/ ChildStep
    \/ Ended

ProgramSpec == ProgramInit /\ [][ProgramNext]_programVars

\* Threads run and a killed process dies.  Startup steps may fail, but none
\* has to; nobody has to click or to send a signal, no child to end by itself.
ProgramFairSpec ==
    /\ ProgramSpec
    /\ WF_programVars(Launch)
    /\ WF_programVars(RunStep)
    /\ WF_programVars(HandlerStep)
    /\ WF_programVars(Shutdown)
    /\ WF_programVars(WorkerStep)
    /\ WF_programVars(KillTakesEffect)

-----------------------------------------------------------------------------

\* The types of both threads, the exit codes of main() included.
ProgramTypeOK ==
    /\ TypeOK
    /\ exitCode \notin {2, 143} => Main!TypeOK
    /\ exitCode = 2 => launch # None
    /\ exitCode = 143 => ~signalled
    /\ launch \in Launches \cup {None}
    /\ safeAsked \in BOOLEAN
    /\ monitored \in BOOLEAN

\* Exit code 0 of an application means that shutdown() has done all its steps:
\* the monitor was stopped and nothing is left visible or ticking, in whatever
\* order the Quit row, signals and KeyboardInterrupt called it.  Only a handler
\* that shutdown() interrupted can have started the monitor or its timer again,
\* because it goes on after the nested shutdown(): that exit is not clean, which
\* the design spec ("prevent new command starts") does not provide for.
CleanExit ==
    launch = None /\ exitCode = 0 =>
        /\ shuttingDown
        /\ tray # "visible"
        /\ ~pumpTimer
        /\ running \/ hostTimer => interrupted

\* "Safe mode starts with monitoring disabled", asked for in any of the three
\* places unless a stronger one says otherwise: although the settings and the
\* application read the variable differently, no check and no login starts
\* before the user resumes monitoring, whatever else he clicks.
SafeModeStartsNothing ==
    safeAsked => /\ ~monitoringEnabled
                 /\ thread = "none"
                 /\ child = "none"
                 /\ ~hostTimer

\* Once shutdown() has been called from the event loop the process ends, also
\* if a signal interrupts a toggle, the shutdown of a Quit or the other way
\* round, whatever fails in the toggle after it, and also while the login worker
\* waits for a login that never ends.  The exception is a monitor thread that
\* was created and never started, because a signal interrupted a resume in
\* start() or because Thread.start() raised: the join raises out of shutdown(),
\* quit() is not called, and no later Quit is obeyed.
LoopShutdownEnds ==
    Main!CalledFromLoop /\ thread # "created" ~> exitCode \in {0, 130}

\* "No deadlock in queue/loop progression under hanging-command ... scenarios"
\* (design spec): every login returns to the queue or the process ends, also if
\* the child ignores its termination.  The code cannot do it alone: a process
\* that outlives the killed child must not hold its pipes for ever.
LoginReturns ==
    []<>~PipesHeld => (pc # "idle" ~> pc = "idle" \/ step = "ended")
=============================================================================
