------------------------------ MODULE Lifecycle ------------------------------
(***************************************************************************)
(* AutologinApp.run, its signal handlers and shutdown()                    *)
(* (aws_sso_autologin/__main__.py), from the QApplication to the exit code,*)
(* and what the handlers of the event loop do to the health operator and   *)
(* the heartbeat timer: toggles, their rollbacks and the loss of the host. *)
(*                                                                         *)
(* Everything here runs on the main thread.  A SIGINT or SIGTERM handler   *)
(* runs between two Python instructions: between two steps of run() or of  *)
(* a handler, while the event loop idles (the pump timer lets Python in),  *)
(* or inside shutdown(), whose join waits for up to five seconds.          *)
(* QApplication.quit does nothing before exec() has been entered.          *)
(***************************************************************************)
EXTENDS Naturals

CONSTANT None

Steps == {"qt", "install", "detect", "tray", "operators", "host_monitor",
          "load", "start", "timers", "exec", "loop", "ended"}

Handlers == {"none", "startup", "resume", "pause", "undo", "lost"}

Calls == {"none", "start", "create_thread", "start_thread", "start_timer",
          "stop", "stop_timer", "write", "set"}

VARIABLES
    monitoringEnabled,   \* _monitoring_enabled
    step,                \* where run() is
    handler,             \* who is using the health operator: run() as it starts,
                         \* a toggle, its rollback, or the heartbeat that lost the host
    at,                  \* where that is
    frame,               \* where shutdown() is: "none", "stop" or "close"
    exitCode,            \* of the process, or None
    shuttingDown,        \* _is_shutting_down
    signalled,           \* _signal_shutdown_requested
    quitPosted,          \* the event loop was told to exit
    interrupted,         \* history: shutdown() was called on top of a handler
    tray,                \* "none", "visible" or "closed"
    health,              \* the operators exist
    running,             \* the health operator's _running
    thread,              \* its _monitor_thread: "none", "created" or "started"
    hostTimer,           \* the heartbeat timer is active
    pumpTimer            \* the signal pump timer is active

vars == <<monitoringEnabled, step, handler, at, frame, exitCode, shuttingDown,
          signalled, quitPosted, interrupted, tray, health, running, thread,
          hostTimer, pumpTimer>>

control == <<handler, at>>
shutdownVars == <<frame, shuttingDown, signalled, quitPosted, interrupted>>
resources == <<tray, health, running, thread, hostTimer, pumpTimer>>

Init ==
    /\ monitoringEnabled \in BOOLEAN
    /\ step = "qt"
    /\ handler = "none"
    /\ at = "none"
    /\ frame = "none"
    /\ exitCode = None
    /\ shuttingDown = FALSE
    /\ signalled = FALSE
    /\ quitPosted = FALSE
    /\ interrupted = FALSE
    /\ tray = "none"
    /\ health = FALSE
    /\ running = FALSE
    /\ thread = "none"
    /\ hostTimer = FALSE
    /\ pumpTimer = FALSE

-----------------------------------------------------------------------------
(* run().  Its steps wait for the handlers it calls, and while a signal      *)
(* handler runs shutdown() on top.                                          *)

At(s) == step = s /\ handler = "none" /\ frame = "none"

Exit(code) ==
    /\ step' = "ended"
    /\ exitCode' = code

\* A step that went well, with the resources it leaves to its caller.
Reach(s) ==
    step' = s /\ UNCHANGED <<exitCode, monitoringEnabled, control, shutdownVars>>

InitializeQt == At("qt") /\ Reach("install") /\ UNCHANGED resources

InstallSignalHandlers == At("install") /\ Reach("detect") /\ UNCHANGED resources

DetectTrayHost == At("detect") /\ Reach("tray") /\ UNCHANGED resources

CreateTray ==
    /\ At("tray")
    /\ Reach("operators")
    /\ tray' = "visible"
    /\ UNCHANGED <<health, running, thread, hostTimer, pumpTimer>>

CreateOperators ==
    /\ At("operators")
    /\ Reach("host_monitor")
    /\ health' = TRUE
    /\ UNCHANGED <<tray, running, thread, hostTimer, pumpTimer>>

\* The heartbeat timer exists and is not started; the signals are wired.
CreateTrayHostMonitor == At("host_monitor") /\ Reach("load") /\ UNCHANGED resources

\* Without profiles the program goes on with an error in the tray.
LoadProfiles == At("load") /\ Reach("start") /\ UNCHANGED resources

StartMonitoring ==
    /\ At("start")
    /\ monitoringEnabled
    /\ handler' = "startup"
    /\ at' = "start"
    /\ UNCHANGED <<monitoringEnabled, step, exitCode, shutdownVars, resources>>

StartPaused ==
    /\ At("start")
    /\ ~monitoringEnabled
    /\ Reach("timers")
    /\ UNCHANGED resources

StartTimers ==
    /\ At("timers")
    /\ Reach("exec")
    /\ pumpTimer' = TRUE
    /\ hostTimer' = monitoringEnabled
    /\ UNCHANGED <<tray, health, running, thread>>

\* exec(): quit() has an effect from here on.
EnterEventLoop == At("exec") /\ Reach("loop") /\ UNCHANGED resources

\* A step of the startup fails: run() returns 1 and cleans up nothing.
StartupFails ==
    /\ \E s \in {"qt", "detect", "tray", "operators", "host_monitor"} : At(s)
    /\ Exit(1)
    /\ UNCHANGED <<monitoringEnabled, control, shutdownVars, resources>>

LeaveEventLoop ==
    /\ At("loop")
    /\ quitPosted
    /\ Exit(0)
    /\ UNCHANGED <<monitoringEnabled, control, shutdownVars, resources>>

Run ==
    \/ InitializeQt
    \/ InstallSignalHandlers
    \/ DetectTrayHost
    \/ CreateTray
    \/ CreateOperators
    \/ CreateTrayHostMonitor
    \/ LoadProfiles
    \/ StartMonitoring
    \/ StartPaused
    \/ StartTimers
    \/ EnterEventLoop
    \/ LeaveEventLoop

-----------------------------------------------------------------------------
(* The handlers, and the calls of the health operator they consist of.      *)

\* _on_toggle_monitoring.  The target was fixed at the click; once the tray
\* is closed, a toggle that is still posted does nothing.
Toggle(kind) ==
    /\ At("loop")
    /\ tray = "visible"
    /\ handler' = kind
    /\ at' = IF kind = "resume" THEN "start" ELSE "stop"
    /\ UNCHANGED <<monitoringEnabled, step, exitCode, shutdownVars, resources>>

\* _on_tray_host_heartbeat finds the host lost, in pause mode.
HostLost ==
    /\ At("loop")
    /\ hostTimer
    /\ monitoringEnabled' = FALSE
    /\ handler' = "lost"
    /\ at' = "stop"
    /\ UNCHANGED <<step, exitCode, shutdownVars, resources>>

Calling(call) == at = call /\ frame = "none" /\ step # "ended"

HandlerReturns == handler' = "none" /\ at' = "none"

\* After start(): the startup returns to run(), the others start the timer.
Started ==
    \/ /\ handler = "startup"
       /\ HandlerReturns
       /\ step' = "timers"
    \/ /\ handler # "startup"
       /\ at' = "start_timer"
       /\ UNCHANGED <<handler, step>>

\* After _apply_runtime_monitoring_state: a toggle is saved.
Applied ==
    \/ /\ handler \in {"resume", "pause"}
       /\ at' = "write"
       /\ UNCHANGED handler
    \/ /\ handler \notin {"resume", "pause"}
       /\ HandlerReturns

\* The toggle is inside the try statement and changes something.
RollsBack ==
    /\ handler \in {"resume", "pause"}
    /\ at # "set"
    /\ monitoringEnabled # (handler = "resume")

\* An exception in the handler, or in a shutdown() on top of it.  It ends the
\* startup, makes a toggle roll back, and is logged and dropped in the rollback,
\* in the tray and in Qt.
HandlerRaises ==
    \/ /\ handler = "startup"
       /\ Exit(1)
       /\ UNCHANGED control
    \/ /\ RollsBack
       /\ handler' = "undo"
       /\ at' = IF monitoringEnabled THEN "start" ELSE "stop"
       /\ UNCHANGED <<step, exitCode>>
    \/ /\ handler # "startup"
       /\ ~RollsBack
       /\ HandlerReturns
       /\ UNCHANGED <<step, exitCode>>

\* HealthOperator.start.
HealthStart ==
    /\ Calling("start")
    /\ \/ /\ running
          /\ Started
          /\ UNCHANGED running
       \/ /\ ~running
          /\ running' = TRUE
          /\ at' = "create_thread"
          /\ UNCHANGED <<handler, step>>
    /\ UNCHANGED <<monitoringEnabled, exitCode, shutdownVars, tray, health, thread,
                   hostTimer, pumpTimer>>

CreateThread ==
    /\ Calling("create_thread")
    /\ thread' = "created"
    /\ at' = "start_thread"
    /\ UNCHANGED <<monitoringEnabled, step, handler, exitCode, shutdownVars, tray,
                   health, running, hostTimer, pumpTimer>>

StartThread ==
    /\ Calling("start_thread")
    /\ thread' = "started"
    /\ Started
    /\ UNCHANGED <<monitoringEnabled, exitCode, shutdownVars, tray, health, running,
                   hostTimer, pumpTimer>>

StartThreadFails ==
    /\ Calling("start_thread")
    /\ HandlerRaises
    /\ UNCHANGED <<monitoringEnabled, shutdownVars, resources>>

StartHostTimer ==
    /\ Calling("start_timer")
    /\ hostTimer' = TRUE
    /\ Applied
    /\ UNCHANGED <<monitoringEnabled, step, exitCode, shutdownVars, tray, health,
                   running, thread, pumpTimer>>

\* HealthOperator.stop.  The join of a thread that was never started raises.
HealthStop ==
    /\ Calling("stop")
    /\ running' = FALSE
    /\ \/ /\ thread = "created"
          /\ HandlerRaises
       \/ /\ thread # "created"
          /\ at' = "stop_timer"
          /\ UNCHANGED <<handler, step, exitCode>>
    /\ UNCHANGED <<monitoringEnabled, shutdownVars, tray, health, thread, hostTimer,
                   pumpTimer>>

StopHostTimer ==
    /\ Calling("stop_timer")
    /\ hostTimer' = FALSE
    /\ Applied
    /\ UNCHANGED <<monitoringEnabled, step, exitCode, shutdownVars, tray, health,
                   running, thread, pumpTimer>>

SaveToggle ==
    /\ Calling("write")
    /\ at' = "set"
    /\ UNCHANGED <<monitoringEnabled, step, handler, exitCode, shutdownVars, resources>>

SaveToggleFails ==
    /\ Calling("write")
    /\ HandlerRaises
    /\ UNCHANGED <<monitoringEnabled, shutdownVars, resources>>

SetEnabled ==
    /\ Calling("set")
    /\ monitoringEnabled' = (handler = "resume")
    /\ HandlerReturns
    /\ UNCHANGED <<step, exitCode, shutdownVars, resources>>

Handle ==
    \/ HealthStart
    \/ CreateThread
    \/ StartThread
    \/ StartThreadFails
    \/ StartHostTimer
    \/ HealthStop
    \/ StopHostTimer
    \/ SaveToggle
    \/ SaveToggleFails
    \/ SetEnabled

-----------------------------------------------------------------------------
(* shutdown(), called by the Quit row and by the signal handler.            *)

BeginShutdown ==
    IF shuttingDown
    THEN UNCHANGED <<shuttingDown, frame, interrupted>>
    ELSE shuttingDown' = TRUE /\ frame' = "stop" /\ interrupted' = (handler # "none")

Quit ==
    /\ At("loop")
    /\ tray = "visible"
    /\ BeginShutdown
    /\ UNCHANGED <<monitoringEnabled, step, control, exitCode, signalled, quitPosted,
                   resources>>

HandlersInstalled == step \notin {"qt", "install", "ended"}

FirstSignal ==
    /\ HandlersInstalled
    /\ ~signalled
    /\ signalled' = TRUE
    /\ BeginShutdown
    /\ UNCHANGED <<monitoringEnabled, step, control, exitCode, quitPosted, resources>>

\* Mutant: exits with 128 + SIGTERM.
SecondSignal_ShellCode ==
    /\ HandlersInstalled
    /\ signalled
    /\ Exit(143)
    /\ UNCHANGED <<monitoringEnabled, control, shutdownVars, resources>>

SecondSignal ==
    /\ HandlersInstalled
    /\ signalled
    /\ Exit(130)
    /\ UNCHANGED <<monitoringEnabled, control, shutdownVars, resources>>

\* Mutant: closes the surface without stopping the monitor.
ShutdownStops_NotMonitor ==
    /\ step # "ended"
    /\ frame = "stop"
    /\ thread # "created"
    /\ frame' = "close"
    /\ UNCHANGED <<monitoringEnabled, step, control, exitCode, shuttingDown, signalled,
                   quitPosted, interrupted, resources>>

\* HealthOperator.stop, with the join of the monitor thread.
ShutdownStops ==
    /\ step # "ended"
    /\ frame = "stop"
    /\ thread # "created"
    /\ running' = FALSE
    /\ frame' = "close"
    /\ UNCHANGED <<monitoringEnabled, step, control, exitCode, shuttingDown, signalled,
                   quitPosted, interrupted, tray, health, thread, hostTimer, pumpTimer>>

\* The monitor thread was created and never started, because a signal
\* interrupted start() or because the start failed: join() raises, and the rest
\* of shutdown() is skipped.  The exception leaves the signal handler at the
\* point it interrupted, or the slot of the Quit row.
ShutdownRaises ==
    /\ step # "ended"
    /\ frame = "stop"
    /\ thread = "created"
    /\ running' = FALSE
    /\ frame' = "none"
    /\ HandlerRaises
    /\ UNCHANGED <<monitoringEnabled, shuttingDown, signalled, quitPosted, interrupted,
                   tray, health, thread, hostTimer, pumpTimer>>

\* Timers, dialog and tray are closed and the event loop is told to exit.
ShutdownCloses ==
    /\ step # "ended"
    /\ frame = "close"
    /\ frame' = "none"
    /\ hostTimer' = FALSE
    /\ pumpTimer' = FALSE
    /\ tray' = IF tray = "visible" THEN "closed" ELSE tray
    /\ quitPosted' = (step = "loop")
    /\ UNCHANGED <<monitoringEnabled, step, control, exitCode, shuttingDown, signalled,
                   interrupted, health, running, thread>>

Shutdown == ShutdownStops \/ ShutdownRaises \/ ShutdownCloses

Ended == step = "ended" /\ UNCHANGED vars

Next ==
    \/ Run
    \/ StartupFails
    \/ \E kind \in {"resume", "pause"} : Toggle(kind)
    \/ HostLost
    \/ Handle
    \/ Quit
    \/ FirstSignal
    \/ SecondSignal
    \/ Shutdown
    \/ Ended

Spec == Init /\ [][Next]_vars

\* The main thread keeps running.  Nobody has to click or to send a signal.
FairSpec == Spec /\ WF_vars(Run) /\ WF_vars(Handle) /\ WF_vars(Shutdown)

-----------------------------------------------------------------------------

TypeOK ==
    /\ monitoringEnabled \in BOOLEAN
    /\ step \in Steps
    /\ handler \in Handlers
    /\ at \in Calls
    /\ frame \in {"none", "stop", "close"}
    /\ exitCode \in {None, 0, 1, 130}
    /\ (step = "ended") = (exitCode # None)
    /\ shuttingDown \in BOOLEAN
    /\ signalled \in BOOLEAN
    /\ quitPosted \in BOOLEAN
    /\ interrupted \in BOOLEAN
    /\ tray \in {"none", "visible", "closed"}
    /\ health \in BOOLEAN
    /\ running \in BOOLEAN
    /\ thread \in {"none", "created", "started"}
    /\ hostTimer \in BOOLEAN
    /\ pumpTimer \in BOOLEAN

\* shutdown() has been called from the event loop and has not finished.
CalledFromLoop == step = "loop" /\ frame = "stop"

\* "On first termination signal, the app must ... execute the standard
\* shutdown path" (design spec): the process ends.  A signal that arrives
\* before exec() breaks it: quit() is lost, run() starts what shutdown()
\* stopped, and no later Quit gets past _is_shutting_down.  (After exec() a
\* signal may break it too: see ShutdownRaises and LoopShutdownEnds of Program.)
FirstSignalEnds == signalled ~> exitCode # None
=============================================================================
