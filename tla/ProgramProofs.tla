--------------------------- MODULE ProgramProofs ---------------------------
(***************************************************************************)
(* Proofs about Program: the worker of the composed program implements     *)
(* AwsCommand, and the main thread starts and stops what it says, for any  *)
(* timeout and grace period of the login command.                          *)
(***************************************************************************)
EXTENDS Program, AwsCommandProofs

\* ProgramTypeOK with every exit code in the same place, in three parts.
Places ==
    /\ step \in Main!Steps
    /\ handler \in Main!Handlers
    /\ at \in Main!Calls
    /\ frame \in {"none", "stop", "close"}
    /\ exitCode \in {None, 0, 1, 2, 130, 143}
    /\ step = "ended" <=> exitCode # None
    /\ tray \in {"none", "visible", "closed"}
    /\ thread \in {"none", "created", "started"}
    /\ launch \in Launches \cup {None}

Flags ==
    /\ monitoringEnabled \in BOOLEAN
    /\ shuttingDown \in BOOLEAN
    /\ signalled \in BOOLEAN
    /\ quitPosted \in BOOLEAN
    /\ interrupted \in BOOLEAN
    /\ safeAsked \in BOOLEAN
    /\ monitored \in BOOLEAN

ResourceFlags ==
    /\ health \in BOOLEAN
    /\ running \in BOOLEAN
    /\ hostTimer \in BOOLEAN
    /\ pumpTimer \in BOOLEAN

\* Nothing exists before the handlers are installed, main() has no application
\* before it has created one, and a handler is at one of its calls.
NothingYet ==
    /\ launch # None => step \in {"qt", "ended"} /\ ~safeAsked /\ ~monitored
                        /\ pc = "idle" /\ child = "none" /\ thread = "none"
                        /\ ~hostTimer
    /\ step \in {"qt", "install"} =>
          /\ frame = "none" /\ ~signalled /\ ~shuttingDown /\ ~quitPosted
          /\ tray = "none" /\ thread = "none"
          /\ ~running /\ ~hostTimer /\ ~pumpTimer
    /\ step \notin {"start", "loop", "ended"} => handler = "none"
    /\ handler = "none" => at = "none"
    /\ handler = "startup" => at \in {"start", "create_thread", "start_thread"}
    /\ handler = "startup" => step \in {"start", "ended"}
    /\ handler \in {"pause", "lost"} => at \in {"stop", "stop_timer", "write", "set"}

\* Which exit codes leave what behind.
ExitCodes ==
    /\ exitCode = 2 => launch # None
    /\ exitCode = 143 => ~signalled

\* CleanExit looks at the last state only.  What leads to it: a shutdown() that
\* is under way holds up run() and, unless it was called on top of one, finds no
\* handler; it has stopped the monitor before it closes the surface; and the event
\* loop is only told to exit when both are done, so that no handler follows.
ShutdownInOrder ==
    /\ frame # "none" => shuttingDown
    /\ frame # "none" /\ ~interrupted => handler = "none"
    /\ frame = "close" => ~running
    /\ quitPosted =>
          /\ step \in {"loop", "ended"}
          /\ frame = "none"
          /\ shuttingDown
          /\ tray # "visible"
          /\ ~pumpTimer
    /\ quitPosted /\ ~interrupted => handler = "none" /\ ~running /\ ~hostTimer

\* SafeModeStartsNothing for every later state: monitoring is off, so that
\* neither the startup nor a rollback can start the monitor, nor a login.
SafeModeHolds ==
    safeAsked =>
        /\ ~monitoringEnabled
        /\ handler \in {"none", "pause"}
        /\ thread = "none"
        /\ ~hostTimer
        /\ ~monitored
        /\ pc = "idle"
        /\ child = "none"

ProgramIInv ==
    /\ Places
    /\ Flags
    /\ ResourceFlags
    /\ NothingYet
    /\ ExitCodes
    /\ ShutdownInOrder
    /\ CleanExit
    /\ SafeModeHolds

-----------------------------------------------------------------------------
(* The worker.                                                              *)

\* What the worker and the child do in the program they may do in AwsCommand.
LEMMA WorkerStepRefines == [ProgramNext]_programVars => [Next]_vars
<1> SUFFICES ASSUME [ProgramNext]_programVars PROVE [Next]_vars
  OBVIOUS
<1>1. CASE LoginStarts \/ WorkerStep \/ ChildStep
  BY <1>1 DEF LoginStarts, WorkerStep, ChildStep, Next
<1>2. CASE Launch
  BY <1>2 DEF Launch, Usage, ConfigFails, Version, CheckOnly, CreateApp, Return,
              workerVars
<1>3. CASE \/ RunStep \/ HandlerStep \/ RunRaises \/ KeyboardInterrupt
           \/ TerminatedEarly \/ Shutdown \/ Resume \/ Event
  BY <1>3 DEF RunStep, HandlerStep, RunRaises, KeyboardInterrupt, TerminatedEarly,
              Shutdown, Resume, Event, Return, workerVars
<1>4. CASE Ended \/ UNCHANGED programVars
  BY <1>4 DEF Ended, programVars, workerVars
<1> QED BY <1>1, <1>2, <1>3, <1>4 DEF ProgramNext

\* The login worker of the program implements AwsCommand: whatever the main
\* thread does and however the process ends, the worker takes no step that the
\* login command alone would not take.
THEOREM WorkerImplementsCommand == ProgramSpec => Spec
<1>1. ProgramInit => Init
  BY DEF ProgramInit
<1> QED BY <1>1, WorkerStepRefines, PTL DEF ProgramSpec, Spec

\* No login of the program runs beside the child of an earlier one.
THEOREM ProgramLeavesNoChild == ProgramSpec => []NoChildLeft
BY WorkerImplementsCommand, CommandLeavesNoChild, PTL

\* The program terminates and kills its login commands in the documented
\* order, also while the main thread shuts down.
THEOREM ProgramEscalates == ProgramSpec => []EscalationInOrder
BY WorkerImplementsCommand, CommandEscalates, PTL

\* The browser wrapper of each login is there as long as its child runs, and
\* removed after it if the system lets it.
THEOREM ProgramKeepsWrapperForChild == ProgramSpec => []WrapperLifetime
BY WorkerImplementsCommand, CommandKeepsWrapperForChild, PTL

-----------------------------------------------------------------------------
(* The main thread.                                                         *)

\* None is neither an exit code nor a launch.
LEMMA NoneIsNoValue ==
    /\ None # 0 /\ None # 1 /\ None # 2 /\ None # 130 /\ None # 143
    /\ \A l \in Launches : l # None
<1>1. 0 \in Nat /\ 1 \in Nat /\ 2 \in Nat /\ 130 \in Nat /\ 143 \in Nat
  OBVIOUS
<1> QED BY <1>1, NoneAssumption

\* run() is at one of its steps, and the process has an exit code when it has ended.
LEMMA PlacesStep ==
    Places /\ [ProgramNext]_programVars => Places'
<1> SUFFICES ASSUME Places, [ProgramNext]_programVars
             PROVE  Places'
  OBVIOUS
<1> USE NoneIsNoValue DEF Places, Main!Steps, Main!Handlers, Main!Calls
<1>1. CASE Launch
  BY <1>1 DEF Launch, Launching, Usage, ConfigFails, Version, CheckOnly, CreateApp,
              Return, Main!Exit, launchVars
<1>2. CASE RunStep
  BY <1>2 DEF RunStep, App, Main!Run, Main!StartupFails, Main!At, Main!Reach, Main!Exit,
              Main!InitializeQt, Main!InstallSignalHandlers, Main!DetectTrayHost,
              Main!CreateTray, Main!CreateOperators, Main!CreateTrayHostMonitor,
              Main!LoadProfiles, Main!StartMonitoring, Main!StartPaused,
              Main!StartTimers, Main!EnterEventLoop, Main!LeaveEventLoop,
              Main!control, Main!shutdownVars, Main!resources, launchVars
<1>3. CASE HandlerStep
  BY <1>3 DEF HandlerStep, App, Main!Handle, Main!HealthStart, Main!CreateThread,
              Main!StartThread, Main!StartThreadFails, Main!StartHostTimer,
              Main!HealthStop, Main!StopHostTimer, Main!SaveToggle,
              Main!SaveToggleFails, Main!SetEnabled, Main!Calling, Main!Started,
              Main!Applied, Main!HandlerReturns, Main!HandlerRaises, Main!RollsBack,
              Main!Exit, Main!control, Main!shutdownVars, Main!resources
<1>4. CASE RunRaises \/ KeyboardInterrupt \/ TerminatedEarly
  BY <1>4 DEF App, RunRaises, KeyboardInterrupt, TerminatedEarly, Return, Main!At,
              Main!Exit, launchVars
<1>5. CASE Shutdown
  BY <1>5 DEF App, Shutdown, Main!Shutdown, Main!ShutdownStops, Main!ShutdownRaises,
              Main!ShutdownCloses, Main!HandlerRaises, Main!RollsBack,
              Main!HandlerReturns, Main!Exit, Main!control, launchVars
<1>6. CASE Resume \/ Event
  BY <1>6 DEF App, Resume, Event, Main!Toggle, Main!HostLost, Main!Quit,
              Main!FirstSignal, Main!SecondSignal, Main!BeginShutdown,
              Main!HandlersInstalled, Main!At, Main!Exit, Main!control,
              Main!shutdownVars, Main!resources, launchVars
<1>7. CASE \/ LoginStarts \/ WorkerStep \/ ChildStep
           \/ Ended \/ UNCHANGED programVars
  BY <1>7 DEF LoginStarts, WorkerStep, ChildStep, Ended, programVars, mainVars,
              launchVars
<1> QED BY <1>1, <1>2, <1>3, <1>4, <1>5, <1>6, <1>7 DEF ProgramNext

\* The flags of the start and of the shutdown stay Boolean.
LEMMA FlagsStep ==
    Places /\ Flags /\ [ProgramNext]_programVars => Flags'
<1> SUFFICES ASSUME Places /\ Flags, [ProgramNext]_programVars
             PROVE  Flags'
  OBVIOUS
<1> USE NoneIsNoValue DEF Flags
<1>1. CASE Launch
  <2>1. CASE CreateApp
    <3>1. launch.cliSafe \in BOOLEAN /\ launch.configSafe \in BOOLEAN
          /\ launch.saved \in BOOLEAN
      BY <2>1, NoneIsNoValue DEF Places, CreateApp, Launching, Launches
    <3>2. monitoringEnabled' \in BOOLEAN /\ safeAsked' \in BOOLEAN
      BY <2>1, <3>1 DEF CreateApp
    <3> QED BY <2>1, <3>2 DEF CreateApp
  <2>2. CASE Usage \/ ConfigFails \/ Version \/ CheckOnly
    BY <2>2 DEF Usage, ConfigFails, Version, CheckOnly, Return, launchVars
  <2> QED BY <1>1, <2>1, <2>2 DEF Launch
<1>2. CASE RunStep
  BY <1>2 DEF RunStep, App, Main!Run, Main!StartupFails, Main!At, Main!Reach, Main!Exit,
              Main!InitializeQt, Main!InstallSignalHandlers, Main!DetectTrayHost,
              Main!CreateTray, Main!CreateOperators, Main!CreateTrayHostMonitor,
              Main!LoadProfiles, Main!StartMonitoring, Main!StartPaused,
              Main!StartTimers, Main!EnterEventLoop, Main!LeaveEventLoop,
              Main!control, Main!shutdownVars, Main!resources, launchVars
<1>3. CASE HandlerStep
  BY <1>3 DEF HandlerStep, App, Main!Handle, Main!HealthStart, Main!CreateThread,
              Main!StartThread, Main!StartThreadFails, Main!StartHostTimer,
              Main!HealthStop, Main!StopHostTimer, Main!SaveToggle,
              Main!SaveToggleFails, Main!SetEnabled, Main!Calling, Main!Started,
              Main!Applied, Main!HandlerReturns, Main!HandlerRaises, Main!RollsBack,
              Main!Exit, Main!control, Main!shutdownVars, Main!resources
<1>4. CASE RunRaises \/ KeyboardInterrupt \/ TerminatedEarly
  <2>1. CASE KeyboardInterrupt
    BY <2>1 DEF KeyboardInterrupt, launchVars
  <2>2. CASE RunRaises \/ TerminatedEarly
    BY <2>2 DEF RunRaises, TerminatedEarly, Return, launchVars
  <2> QED BY <1>4, <2>1, <2>2
<1>5. CASE Shutdown
  BY <1>5 DEF App, Shutdown, Main!Shutdown, Main!ShutdownStops, Main!ShutdownRaises,
              Main!ShutdownCloses, Main!HandlerRaises, Main!RollsBack,
              Main!HandlerReturns, Main!Exit, Main!control, launchVars
<1>6. CASE Resume \/ Event
  BY <1>6 DEF App, Resume, Event, Main!Toggle, Main!HostLost, Main!Quit,
              Main!FirstSignal, Main!SecondSignal, Main!BeginShutdown,
              Main!HandlersInstalled, Main!At, Main!Exit, Main!control,
              Main!shutdownVars, Main!resources, launchVars
<1>7. CASE \/ LoginStarts \/ WorkerStep \/ ChildStep
           \/ Ended \/ UNCHANGED programVars
  BY <1>7 DEF LoginStarts, WorkerStep, ChildStep, Ended, programVars, mainVars,
              launchVars
<1> QED BY <1>1, <1>2, <1>3, <1>4, <1>5, <1>6, <1>7 DEF ProgramNext

\* So do those of the resources.
LEMMA ResourceFlagsStep ==
    ResourceFlags /\ Flags /\ [ProgramNext]_programVars => ResourceFlags'
<1> SUFFICES ASSUME ResourceFlags /\ Flags, [ProgramNext]_programVars
             PROVE  ResourceFlags'
  OBVIOUS
<1> USE NoneIsNoValue DEF ResourceFlags, Flags
<1>1. CASE Launch
  BY <1>1 DEF Launch, Launching, Usage, ConfigFails, Version, CheckOnly, CreateApp,
              Return, Main!Exit, launchVars
<1>2. CASE RunStep
  BY <1>2 DEF RunStep, App, Main!Run, Main!StartupFails, Main!At, Main!Reach, Main!Exit,
              Main!InitializeQt, Main!InstallSignalHandlers, Main!DetectTrayHost,
              Main!CreateTray, Main!CreateOperators, Main!CreateTrayHostMonitor,
              Main!LoadProfiles, Main!StartMonitoring, Main!StartPaused,
              Main!StartTimers, Main!EnterEventLoop, Main!LeaveEventLoop,
              Main!control, Main!shutdownVars, Main!resources, launchVars
<1>3. CASE HandlerStep
  BY <1>3 DEF HandlerStep, App, Main!Handle, Main!HealthStart, Main!CreateThread,
              Main!StartThread, Main!StartThreadFails, Main!StartHostTimer,
              Main!HealthStop, Main!StopHostTimer, Main!SaveToggle,
              Main!SaveToggleFails, Main!SetEnabled, Main!Calling, Main!Started,
              Main!Applied, Main!HandlerReturns, Main!HandlerRaises, Main!RollsBack,
              Main!Exit, Main!control, Main!shutdownVars, Main!resources
<1>4. CASE RunRaises \/ KeyboardInterrupt \/ TerminatedEarly
  BY <1>4 DEF App, RunRaises, KeyboardInterrupt, TerminatedEarly, Return, Main!At,
              Main!Exit, launchVars
<1>5. CASE Shutdown
  BY <1>5 DEF App, Shutdown, Main!Shutdown, Main!ShutdownStops, Main!ShutdownRaises,
              Main!ShutdownCloses, Main!HandlerRaises, Main!RollsBack,
              Main!HandlerReturns, Main!Exit, Main!control, launchVars
<1>6. CASE Resume \/ Event
  BY <1>6 DEF App, Resume, Event, Main!Toggle, Main!HostLost, Main!Quit,
              Main!FirstSignal, Main!SecondSignal, Main!BeginShutdown,
              Main!HandlersInstalled, Main!At, Main!Exit, Main!control,
              Main!shutdownVars, Main!resources, launchVars
<1>7. CASE \/ LoginStarts \/ WorkerStep \/ ChildStep
           \/ Ended \/ UNCHANGED programVars
  BY <1>7 DEF LoginStarts, WorkerStep, ChildStep, Ended, programVars, mainVars,
              launchVars
<1> QED BY <1>1, <1>2, <1>3, <1>4, <1>5, <1>6, <1>7 DEF ProgramNext

\* Without an application there is nothing, and no handler runs before it is
\* installed.
LEMMA NothingYetStep ==
    ProgramIInv /\ [ProgramNext]_programVars => NothingYet'
<1> SUFFICES ASSUME ProgramIInv, [ProgramNext]_programVars
             PROVE  NothingYet'
  OBVIOUS
<1> USE NoneIsNoValue DEF ProgramIInv, NothingYet, Places, workerVars, vars
<1>1. CASE Launch
  BY <1>1 DEF Launch, Launching, Usage, ConfigFails, Version, CheckOnly, CreateApp,
              Return, Main!Exit, launchVars
<1>2. CASE RunStep
  BY <1>2 DEF RunStep, App, Main!Run, Main!StartupFails, Main!At, Main!Reach, Main!Exit,
              Main!InitializeQt, Main!InstallSignalHandlers, Main!DetectTrayHost,
              Main!CreateTray, Main!CreateOperators, Main!CreateTrayHostMonitor,
              Main!LoadProfiles, Main!StartMonitoring, Main!StartPaused,
              Main!StartTimers, Main!EnterEventLoop, Main!LeaveEventLoop,
              Main!control, Main!shutdownVars, Main!resources, launchVars
<1>3. CASE HandlerStep
  BY <1>3 DEF HandlerStep, App, Main!Handle, Main!HealthStart, Main!CreateThread,
              Main!StartThread, Main!StartThreadFails, Main!StartHostTimer,
              Main!HealthStop, Main!StopHostTimer, Main!SaveToggle,
              Main!SaveToggleFails, Main!SetEnabled, Main!Calling, Main!Started,
              Main!Applied, Main!HandlerReturns, Main!HandlerRaises, Main!RollsBack,
              Main!Exit, Main!control, Main!shutdownVars, Main!resources
<1>4. CASE RunRaises \/ KeyboardInterrupt \/ TerminatedEarly
  BY <1>4 DEF App, RunRaises, KeyboardInterrupt, TerminatedEarly, Return, Main!At,
              Main!Exit, launchVars
<1>5. CASE Shutdown
  BY <1>5 DEF App, Shutdown, Main!Shutdown, Main!ShutdownStops, Main!ShutdownRaises,
              Main!ShutdownCloses, Main!HandlerRaises, Main!RollsBack,
              Main!HandlerReturns, Main!Exit, Main!control, launchVars
<1>6. CASE Resume \/ Event
  BY <1>6 DEF App, Resume, Event, Main!Toggle, Main!HostLost, Main!Quit,
              Main!FirstSignal, Main!SecondSignal, Main!BeginShutdown,
              Main!HandlersInstalled, Main!At, Main!Exit, Main!control,
              Main!shutdownVars, Main!resources, launchVars
<1>7. CASE \/ LoginStarts \/ WorkerStep \/ ChildStep
           \/ Ended \/ UNCHANGED programVars
  BY <1>7 DEF LoginStarts, WorkerStep, ChildStep, Ended, programVars, mainVars,
              launchVars,
              App, ChildExits, PipesClose
<1> QED BY <1>1, <1>2, <1>3, <1>4, <1>5, <1>6, <1>7 DEF ProgramNext

\* 2 is the exit code of the command line only, 143 that of an early SIGTERM.
LEMMA ExitCodesStep ==
    ProgramIInv /\ [ProgramNext]_programVars => ExitCodes'
<1> SUFFICES ASSUME ProgramIInv, [ProgramNext]_programVars
             PROVE  ExitCodes'
  OBVIOUS
<1> USE NoneIsNoValue DEF ProgramIInv, ExitCodes, NothingYet, Places
<1>1. CASE Launch
  BY <1>1 DEF Launch, Launching, Usage, ConfigFails, Version, CheckOnly, CreateApp,
              Return, Main!Exit, launchVars
<1>2. CASE RunStep
  BY <1>2 DEF RunStep, App, Main!Run, Main!StartupFails, Main!At, Main!Reach, Main!Exit,
              Main!InitializeQt, Main!InstallSignalHandlers, Main!DetectTrayHost,
              Main!CreateTray, Main!CreateOperators, Main!CreateTrayHostMonitor,
              Main!LoadProfiles, Main!StartMonitoring, Main!StartPaused,
              Main!StartTimers, Main!EnterEventLoop, Main!LeaveEventLoop,
              Main!control, Main!shutdownVars, Main!resources, launchVars
<1>3. CASE HandlerStep
  BY <1>3 DEF HandlerStep, App, Main!Handle, Main!HealthStart, Main!CreateThread,
              Main!StartThread, Main!StartThreadFails, Main!StartHostTimer,
              Main!HealthStop, Main!StopHostTimer, Main!SaveToggle,
              Main!SaveToggleFails, Main!SetEnabled, Main!Calling, Main!Started,
              Main!Applied, Main!HandlerReturns, Main!HandlerRaises, Main!RollsBack,
              Main!Exit, Main!control, Main!shutdownVars, Main!resources
<1>4. CASE RunRaises \/ KeyboardInterrupt \/ TerminatedEarly
  BY <1>4 DEF App, RunRaises, KeyboardInterrupt, TerminatedEarly, Return, Main!At,
              Main!Exit, launchVars
<1>5. CASE Shutdown
  BY <1>5 DEF App, Shutdown, Main!Shutdown, Main!ShutdownStops, Main!ShutdownRaises,
              Main!ShutdownCloses, Main!HandlerRaises, Main!RollsBack,
              Main!HandlerReturns, Main!Exit, Main!control, launchVars
<1>6. CASE Resume \/ Event
  BY <1>6 DEF App, Resume, Event, Main!Toggle, Main!HostLost, Main!Quit,
              Main!FirstSignal, Main!SecondSignal, Main!BeginShutdown,
              Main!HandlersInstalled, Main!At, Main!Exit, Main!control,
              Main!shutdownVars, Main!resources, launchVars
<1>7. CASE \/ LoginStarts \/ WorkerStep \/ ChildStep
           \/ Ended \/ UNCHANGED programVars
  BY <1>7 DEF LoginStarts, WorkerStep, ChildStep, Ended, programVars, mainVars,
              launchVars
<1> QED BY <1>1, <1>2, <1>3, <1>4, <1>5, <1>6, <1>7 DEF ProgramNext

\* Each step of shutdown() leaves what the next one and the event loop rely on,
\* whichever handler called it.
LEMMA ShutdownStep ==
    ProgramIInv /\ [ProgramNext]_programVars => ShutdownInOrder'
<1> SUFFICES ASSUME ProgramIInv, [ProgramNext]_programVars
             PROVE  ShutdownInOrder'
  OBVIOUS
<1> USE NoneIsNoValue DEF ProgramIInv, ShutdownInOrder, NothingYet, Places
<1>1. CASE Launch
  BY <1>1 DEF Launch, Launching, Usage, ConfigFails, Version, CheckOnly, CreateApp,
              Return, Main!Exit, launchVars
<1>2. CASE RunStep
  BY <1>2 DEF RunStep, App, Main!Run, Main!StartupFails, Main!At, Main!Reach, Main!Exit,
              Main!InitializeQt, Main!InstallSignalHandlers, Main!DetectTrayHost,
              Main!CreateTray, Main!CreateOperators, Main!CreateTrayHostMonitor,
              Main!LoadProfiles, Main!StartMonitoring, Main!StartPaused,
              Main!StartTimers, Main!EnterEventLoop, Main!LeaveEventLoop,
              Main!control, Main!shutdownVars, Main!resources, launchVars
<1>3. CASE HandlerStep
  BY <1>3 DEF HandlerStep, App, Main!Handle, Main!HealthStart, Main!CreateThread,
              Main!StartThread, Main!StartThreadFails, Main!StartHostTimer,
              Main!HealthStop, Main!StopHostTimer, Main!SaveToggle,
              Main!SaveToggleFails, Main!SetEnabled, Main!Calling, Main!Started,
              Main!Applied, Main!HandlerReturns, Main!HandlerRaises, Main!RollsBack,
              Main!Exit, Main!control, Main!shutdownVars, Main!resources
<1>4. CASE RunRaises \/ KeyboardInterrupt \/ TerminatedEarly
  BY <1>4 DEF App, RunRaises, KeyboardInterrupt, TerminatedEarly, Return, Main!At,
              Main!Exit, launchVars
<1>5. CASE Shutdown
  <2>1. CASE Main!ShutdownStops
    <3>1. /\ frame = "stop" /\ frame' = "close" /\ ~running'
          /\ step' = step /\ handler' = handler
          /\ shuttingDown' = shuttingDown /\ quitPosted' = quitPosted
          /\ interrupted' = interrupted
      BY <2>1 DEF Main!ShutdownStops, Main!control
    <3>2. ~quitPosted
      BY <3>1
    <3> QED BY <3>1, <3>2
  <2>2. CASE Main!ShutdownRaises
    BY <2>2 DEF Main!ShutdownRaises, Main!HandlerRaises, Main!HandlerReturns,
                Main!Exit, Main!control
  <2>3. CASE Main!ShutdownCloses
    <3>1. frame' = "none" /\ shuttingDown' /\ ~running'
      BY <2>3 DEF Main!ShutdownCloses
    <3>2. /\ step' = step /\ ~hostTimer' /\ ~pumpTimer' /\ tray' # "visible"
          /\ handler' = handler /\ interrupted' = interrupted
      BY <2>3 DEF Main!ShutdownCloses, Main!control
    <3>3. quitPosted' => step = "loop"
      BY <2>3 DEF Main!ShutdownCloses
    <3>4. frame # "none" /\ ~interrupted => handler = "none"
      OBVIOUS
    <3> QED BY <2>3, <3>1, <3>2, <3>3, <3>4 DEF Main!ShutdownCloses
  <2> QED BY <1>5, <2>1, <2>2, <2>3 DEF Shutdown, Main!Shutdown
<1>6. CASE Resume \/ Event
  <2>1. CASE Main!Quit \/ Main!FirstSignal
    <3>1. UNCHANGED <<step, handler, tray, running, hostTimer, pumpTimer, quitPosted>>
      BY <2>1 DEF Main!Quit, Main!FirstSignal, Main!control, Main!resources
    <3>2. CASE shuttingDown
      BY <2>1, <3>1, <3>2 DEF Main!Quit, Main!FirstSignal, Main!BeginShutdown
    <3>3. CASE ~shuttingDown
      <4>1. shuttingDown' /\ frame' = "stop" /\ interrupted' = (handler # "none")
        BY <2>1, <3>3 DEF Main!Quit, Main!FirstSignal, Main!BeginShutdown
      <4> QED BY <3>1, <3>3, <4>1
    <3> QED BY <3>2, <3>3
  <2>2. CASE Main!SecondSignal
    BY <2>2 DEF Main!SecondSignal, Main!Exit, Main!control, Main!shutdownVars,
                Main!resources
  <2>3. ASSUME NEW kind, Main!Toggle(kind)
        PROVE  ShutdownInOrder'
    BY <2>3 DEF Main!Toggle, Main!At, Main!shutdownVars, Main!resources
  <2>4. CASE Main!HostLost
    BY <2>4 DEF Main!HostLost, Main!At, Main!shutdownVars, Main!resources
  <2> QED BY <1>6, <2>1, <2>2, <2>3, <2>4 DEF Resume, Event
<1>7. CASE \/ LoginStarts \/ WorkerStep \/ ChildStep
           \/ Ended \/ UNCHANGED programVars
  BY <1>7 DEF LoginStarts, WorkerStep, ChildStep, Ended, programVars, mainVars,
              launchVars
<1> QED BY <1>1, <1>2, <1>3, <1>4, <1>5, <1>6, <1>7 DEF ProgramNext

\* The two ways to exit code 0: the event loop was told to exit, or nothing had
\* been started.
LEMMA CleanExitStep ==
    ProgramIInv /\ [ProgramNext]_programVars => CleanExit'
<1> SUFFICES ASSUME ProgramIInv, [ProgramNext]_programVars
             PROVE  CleanExit'
  OBVIOUS
<1> USE NoneIsNoValue DEF ProgramIInv, CleanExit, NothingYet, ShutdownInOrder, Places
<1>1. CASE Launch
  BY <1>1 DEF Launch, Launching, Usage, ConfigFails, Version, CheckOnly, CreateApp,
              Return, Main!Exit, launchVars
<1>2. CASE RunStep
  BY <1>2 DEF RunStep, App, Main!Run, Main!StartupFails, Main!At, Main!Reach, Main!Exit,
              Main!InitializeQt, Main!InstallSignalHandlers, Main!DetectTrayHost,
              Main!CreateTray, Main!CreateOperators, Main!CreateTrayHostMonitor,
              Main!LoadProfiles, Main!StartMonitoring, Main!StartPaused,
              Main!StartTimers, Main!EnterEventLoop, Main!LeaveEventLoop,
              Main!control, Main!shutdownVars, Main!resources, launchVars
<1>3. CASE HandlerStep
  BY <1>3 DEF HandlerStep, App, Main!Handle, Main!HealthStart, Main!CreateThread,
              Main!StartThread, Main!StartThreadFails, Main!StartHostTimer,
              Main!HealthStop, Main!StopHostTimer, Main!SaveToggle,
              Main!SaveToggleFails, Main!SetEnabled, Main!Calling, Main!Started,
              Main!Applied, Main!HandlerReturns, Main!HandlerRaises, Main!RollsBack,
              Main!Exit, Main!control, Main!shutdownVars, Main!resources
<1>4. CASE RunRaises \/ KeyboardInterrupt \/ TerminatedEarly
  BY <1>4 DEF App, RunRaises, KeyboardInterrupt, TerminatedEarly, Return, Main!At,
              Main!Exit, launchVars
<1>5. CASE Shutdown
  BY <1>5 DEF App, Shutdown, Main!Shutdown, Main!ShutdownStops, Main!ShutdownRaises,
              Main!ShutdownCloses, Main!HandlerRaises, Main!RollsBack,
              Main!HandlerReturns, Main!Exit, Main!control, launchVars
<1>6. CASE Resume \/ Event
  BY <1>6 DEF App, Resume, Event, Main!Toggle, Main!HostLost, Main!Quit,
              Main!FirstSignal, Main!SecondSignal, Main!BeginShutdown,
              Main!HandlersInstalled, Main!At, Main!Exit, Main!control,
              Main!shutdownVars, Main!resources, launchVars
<1>7. CASE \/ LoginStarts \/ WorkerStep \/ ChildStep
           \/ Ended \/ UNCHANGED programVars
  BY <1>7 DEF LoginStarts, WorkerStep, ChildStep, Ended, programVars, mainVars,
              launchVars
<1> QED BY <1>1, <1>2, <1>3, <1>4, <1>5, <1>6, <1>7 DEF ProgramNext

\* Nothing that run(), the user or the worker does starts anything in safe mode.
LEMMA SafeModeStep ==
    ProgramIInv /\ [ProgramNext]_programVars => SafeModeHolds'
<1> SUFFICES ASSUME ProgramIInv, [ProgramNext]_programVars
             PROVE  SafeModeHolds'
  OBVIOUS
<1> USE NoneIsNoValue DEF ProgramIInv, SafeModeHolds, NothingYet, Places, workerVars, vars
<1>1. CASE Launch
  <2>1. CASE CreateApp
    <3>1. safeAsked' => SafeModeRequested(launch)
      BY <2>1 DEF CreateApp, SafeModeRequested, EnvSafe, SettingsSafeMode
    <3> QED BY <2>1, <3>1 DEF CreateApp, Launching
  <2>2. CASE Usage \/ ConfigFails \/ Version \/ CheckOnly
    BY <2>2 DEF Usage, ConfigFails, Version, CheckOnly, Return, Main!Exit, launchVars
  <2> QED BY <1>1, <2>1, <2>2 DEF Launch
<1>2. CASE RunStep
  BY <1>2 DEF RunStep, App, Main!Run, Main!StartupFails, Main!At, Main!Reach, Main!Exit,
              Main!InitializeQt, Main!InstallSignalHandlers, Main!DetectTrayHost,
              Main!CreateTray, Main!CreateOperators, Main!CreateTrayHostMonitor,
              Main!LoadProfiles, Main!StartMonitoring, Main!StartPaused,
              Main!StartTimers, Main!EnterEventLoop, Main!LeaveEventLoop,
              Main!control, Main!shutdownVars, Main!resources, launchVars
<1>3. CASE HandlerStep
  <2>1. /\ safeAsked' = safeAsked /\ pc' = pc /\ child' = child
        /\ monitored' = (monitored \/ (thread' = "started" /\ running'))
    BY <1>3 DEF HandlerStep
  <2> SUFFICES ASSUME safeAsked PROVE SafeModeHolds'
    BY <2>1
  <2>2. at \notin {"start", "create_thread", "start_thread", "start_timer"}
    OBVIOUS
  <2>3. ~Main!RollsBack
    <3>1. monitoringEnabled = FALSE
      BY DEF Flags
    <3>2. (handler = "resume") = FALSE
      OBVIOUS
    <3> QED BY <3>1, <3>2 DEF Main!RollsBack
  <2>4. /\ ~monitoringEnabled' /\ handler' \in {"none", "pause"}
        /\ thread' = "none" /\ ~hostTimer'
    <3>1. CASE Main!HealthStop \/ Main!SaveToggle \/ Main!SaveToggleFails
      BY <2>3, <3>1 DEF Main!HealthStop, Main!SaveToggle, Main!SaveToggleFails,
         Main!HandlerRaises, Main!HandlerReturns, Main!Exit, Main!control, Main!resources
    <3>2. CASE Main!StopHostTimer
      BY <3>2 DEF Main!StopHostTimer, Main!Applied, Main!HandlerReturns
    <3>3. CASE Main!SetEnabled
      BY <3>3 DEF Main!SetEnabled, Main!HandlerReturns, Main!resources
    <3>4. ~(\/ Main!HealthStart \/ Main!CreateThread \/ Main!StartThread
            \/ Main!StartThreadFails \/ Main!StartHostTimer)
      BY <2>2 DEF Main!HealthStart, Main!CreateThread, Main!StartThread,
         Main!StartThreadFails, Main!StartHostTimer, Main!Calling
    <3> QED BY <1>3, <3>1, <3>2, <3>3, <3>4 DEF HandlerStep, Main!Handle
  <2> QED BY <2>1, <2>4
<1>4. CASE RunRaises \/ KeyboardInterrupt \/ TerminatedEarly
  BY <1>4 DEF App, RunRaises, KeyboardInterrupt, TerminatedEarly, Return, Main!At,
              Main!Exit, launchVars
<1>5. CASE Shutdown
  BY <1>5 DEF App, Shutdown, Main!Shutdown, Main!ShutdownStops, Main!ShutdownRaises,
              Main!ShutdownCloses, Main!HandlerRaises, Main!RollsBack,
              Main!HandlerReturns, Main!Exit, Main!control, launchVars
<1>6. CASE Resume \/ Event
  BY <1>6 DEF App, Resume, Event, Main!Toggle, Main!HostLost, Main!Quit,
              Main!FirstSignal, Main!SecondSignal, Main!BeginShutdown,
              Main!HandlersInstalled, Main!At, Main!Exit, Main!control,
              Main!shutdownVars, Main!resources, launchVars
<1>7. CASE \/ LoginStarts \/ WorkerStep \/ ChildStep
           \/ Ended \/ UNCHANGED programVars
  <2>1. Caller => pc # "idle"
    BY DEF Caller, CreateWrapper, CreateWrapperFails, RejectWrapper, Spawn,
           SpawnFails, Completes, PollExpires, Terminate, EndsInGrace,
           GraceExpires, Reap, Cleanup
  <2>2. CASE LoginStarts
    BY <2>2 DEF LoginStarts, mainVars, launchVars
  <2>3. CASE WorkerStep
    BY <2>1, <2>3 DEF WorkerStep, mainVars, launchVars
  <2>4. CASE ChildStep
    BY <2>4 DEF ChildStep, ChildExits, PipesClose, mainVars, launchVars
  <2>5. CASE Ended \/ UNCHANGED programVars
    BY <2>5 DEF Ended, programVars, mainVars, launchVars
  <2> QED BY <1>7, <2>2, <2>3, <2>4, <2>5
<1> QED BY <1>1, <1>2, <1>3, <1>4, <1>5, <1>6, <1>7 DEF ProgramNext

LEMMA InitProgramIInv == ProgramInit => ProgramIInv
<1> SUFFICES ASSUME ProgramInit PROVE ProgramIInv
  OBVIOUS
<1>1. /\ launch \in Launches /\ ~safeAsked /\ ~monitoringEnabled
      /\ ~monitored /\ pc = "idle" /\ child = "none"
  BY DEF ProgramInit, Init
<1>2. /\ step = "qt" /\ frame = "none" /\ exitCode = None /\ tray = "none"
      /\ thread = "none" /\ health = FALSE /\ running = FALSE
      /\ hostTimer = FALSE /\ pumpTimer = FALSE /\ shuttingDown = FALSE
      /\ signalled = FALSE /\ quitPosted = FALSE /\ interrupted = FALSE
      /\ handler = "none" /\ at = "none"
  BY DEF ProgramInit, Main!Init
<1>3. Places
  BY <1>1, <1>2 DEF Places, Main!Steps, Main!Handlers, Main!Calls
<1>4. Flags /\ ResourceFlags
  BY <1>2 DEF ProgramInit, Flags, ResourceFlags
<1>5. NothingYet /\ ExitCodes /\ ShutdownInOrder /\ SafeModeHolds
  BY <1>1, <1>2, NoneIsNoValue
  DEF NothingYet, ExitCodes, ShutdownInOrder, SafeModeHolds
<1>6. CleanExit
  BY <1>1, NoneIsNoValue DEF CleanExit
<1> QED BY <1>3, <1>4, <1>5, <1>6 DEF ProgramIInv

LEMMA ProgramIInvStep == ProgramIInv /\ [ProgramNext]_programVars => ProgramIInv'
<1> SUFFICES ASSUME ProgramIInv, [ProgramNext]_programVars PROVE ProgramIInv'
  OBVIOUS
<1>1. Places' /\ Flags' /\ ResourceFlags'
  BY PlacesStep, FlagsStep, ResourceFlagsStep DEF ProgramIInv
<1> QED
  BY <1>1, NothingYetStep, ExitCodesStep, ShutdownStep, CleanExitStep, SafeModeStep
  DEF ProgramIInv

LEMMA ProgramInvariance == ProgramSpec => []ProgramIInv
BY InitProgramIInv, ProgramIInvStep, PTL DEF ProgramSpec

-----------------------------------------------------------------------------

\* The variables of both threads keep their types, and each exit code of
\* main() comes from where it should.
THEOREM ProgramTypeCorrect == ProgramSpec => []ProgramTypeOK
<1>1. ProgramIInv /\ IInv => ProgramTypeOK
  <2> SUFFICES ASSUME ProgramIInv, IInv PROVE ProgramTypeOK
    OBVIOUS
  <2>1. exitCode \notin {2, 143} => Main!TypeOK
    <3> SUFFICES ASSUME exitCode \notin {2, 143} PROVE Main!TypeOK
      OBVIOUS
    <3>1. exitCode \in {None, 0, 1, 130} /\ (step = "ended") = (exitCode # None)
      BY DEF ProgramIInv, Places
    <3> QED BY <3>1 DEF ProgramIInv, Places, Flags, ResourceFlags, Main!TypeOK
  <2>2. launch \in Launches \cup {None} /\ safeAsked \in BOOLEAN /\ monitored \in BOOLEAN
    BY DEF ProgramIInv, Places, Flags
  <2> QED BY <2>1, <2>2, IInvImplies DEF ProgramIInv, ExitCodes, ProgramTypeOK
<1> QED BY <1>1, ProgramInvariance, WorkerImplementsCommand, Invariance, PTL

\* An application that exits with 0 has stopped its monitor and closed its
\* surface, in whatever order Quit, signals and KeyboardInterrupt met.
THEOREM ExitsClean == ProgramSpec => []CleanExit
<1>1. ProgramIInv => CleanExit
  BY DEF ProgramIInv
<1> QED BY <1>1, ProgramInvariance, PTL

\* Where the settings ask for safe mode no monitor thread, no heartbeat and no
\* login command is ever started.
THEOREM SafeModeIsSafe == ProgramSpec => []SafeModeStartsNothing
<1>1. ProgramIInv => SafeModeStartsNothing
  BY DEF ProgramIInv, SafeModeHolds, SafeModeStartsNothing
<1> QED BY <1>1, ProgramInvariance, PTL
=============================================================================
