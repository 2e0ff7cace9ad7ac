--------------------------------- MODULE App ---------------------------------
(***************************************************************************)
(* AutologinApp (aws_sso_autologin/__main__.py) and StatusTray (tray.py):  *)
(* the GUI thread, composed with the health monitor's threads.             *)
(*                                                                         *)
(* The GUI thread runs one handler at a time.  A click in the menu posts a *)
(* toggle whose target is fixed at the click; the event loop may deliver a *)
(* check result or a heartbeat before it applies the toggle.  A handler    *)
(* that stops monitoring blocks in join() while the monitor threads run.   *)
(* Pauses are written to the state store, whose writes may raise after     *)
(* they have changed the store's memory (module StateStore).               *)
(***************************************************************************)
EXTENDS Naturals, Sequences

CONSTANTS
    ProfileList, Monitors, Results, MaxQueue,   \* see HealthMonitor
    ThreadStartMayFail, None,
    MaxPending,         \* bound on the toggles clicked and not yet applied
    WriteMayFail,       \* TRUE: writes of the state store may raise
    HostMayFail,        \* TRUE: the tray host may stop answering
    LostThreshold,      \* failed pings after which the tray host is lost
    TrayLossBehavior    \* AWS_SSO_AUTOLOGIN_TRAY_LOSS_BEHAVIOR

ASSUME AppAssumption ==
    /\ MaxPending \in Nat
    /\ WriteMayFail \in BOOLEAN
    /\ HostMayFail \in BOOLEAN
    /\ LostThreshold \in Nat \ {0}
    /\ TrayLossBehavior \in {"pause", "continue"}

VARIABLES
    running, pausedProfiles, monitorThread, gui, mpc, next, result,
    statusQueue, checksAfterStop   \* the health monitor

VARIABLES
    monitoringEnabled,   \* app._monitoring_enabled
    profileStatus,       \* app._profile_status
    awaiting,            \* app._awaiting_initial_status
    savedPaused,         \* the profiles the state store's memory has as paused
    handler,             \* the handler that stop() or a rollback splits, or "none"
    hostTimer,           \* the heartbeat timer is active
    heartbeatDue,        \* it may expire before the pending toggles are applied
    hostUp,              \* environment: the tray host answers
    hostFailures,        \* tray_host.consecutive_failures, up to the threshold
    trayMonitoring,      \* tray._monitoring_enabled
    trayStatus,          \* tray._profiles
    initialized,         \* tray._initialized
    globalError,         \* tray._global_error_summary is set (by the tray host)
    pending              \* singleShot(0) toggles, oldest first

healthVars == <<running, pausedProfiles, monitorThread, gui, mpc, next, result,
                statusQueue, checksAfterStop>>
appVars == <<monitoringEnabled, profileStatus, awaiting, savedPaused, handler>>
host == <<hostUp, hostFailures>>
hostVars == <<hostTimer, heartbeatDue, host>>
trayVars == <<trayMonitoring, trayStatus, initialized, globalError, pending>>
vars == <<healthVars, appVars, hostVars, trayVars>>

Health == INSTANCE HealthMonitor

Profiles == Health!Profiles

\* The assumptions of HealthMonitor, and a toggle of None is the global one.
ASSUME MonitorAssumption ==
    /\ ProfileList \in Seq(Profiles)
    /\ Results \subseteq {"active", "expired", "determinate", "indeterminate"}
    /\ MaxQueue \in Nat \ {0}
    /\ ThreadStartMayFail \in BOOLEAN
    /\ None \notin Monitors \cup Profiles

SomeMonitored(paused) == \E p \in Profiles : p \notin paused

\* The state in which run() enters the event loop: _load_profiles and
\* _start_monitoring are done.  Monitoring may be off because it was saved as
\* paused, or in safe mode.
Init ==
    /\ savedPaused \in SUBSET Profiles
    /\ pausedProfiles = savedPaused
    /\ monitoringEnabled \in BOOLEAN
    /\ running = monitoringEnabled
    /\ \E m \in Monitors :
          /\ monitorThread = IF running THEN m ELSE None
          /\ mpc = [n \in Monitors |-> IF running /\ n = m THEN "loop" ELSE "none"]
    /\ gui = "idle"
    /\ next = [m \in Monitors |-> 1]
    /\ result = [m \in Monitors |-> None]
    /\ statusQueue = <<>>
    /\ checksAfterStop = [m \in Monitors |-> 0]
    /\ profileStatus =
          [p \in Profiles |->
              [state |-> IF monitoringEnabled /\ p \notin savedPaused
                         THEN "syncing" ELSE "ok",
               enabled |-> p \notin savedPaused]]
    /\ awaiting = (monitoringEnabled /\ SomeMonitored(savedPaused))
    /\ handler = "none"
    /\ hostTimer = monitoringEnabled
    /\ heartbeatDue = TRUE
    /\ hostUp = TRUE
    /\ hostFailures = 0
    /\ trayMonitoring = monitoringEnabled
    /\ trayStatus = profileStatus
    /\ initialized = ~awaiting
    /\ globalError = FALSE
    /\ pending = <<>>

-----------------------------------------------------------------------------
(* The menu.                                                                *)

\* The event loop is between two handlers.
EventLoop == handler = "none" /\ gui = "idle"

\* _on_first_row_triggered; with a global error the row shows diagnostics.
ClickFirstRow ==
    /\ EventLoop
    /\ ~globalError
    /\ Len(pending) < MaxPending
    /\ pending' = Append(pending, [profile |-> None, target |-> ~trayMonitoring])
    /\ UNCHANGED <<healthVars, appVars, hostVars, trayMonitoring, trayStatus,
                   initialized, globalError>>

\* _on_profile_selected on a row whose effective state is OK or paused.
ClickProfile(p) ==
    /\ EventLoop
    /\ trayMonitoring
    /\ trayStatus[p].state = "ok"
    /\ Len(pending) < MaxPending
    /\ pending' = Append(pending, [profile |-> p, target |-> ~trayStatus[p].enabled])
    /\ UNCHANGED <<healthVars, appVars, hostVars, trayMonitoring, trayStatus,
                   initialized, globalError>>

\* The event loop takes the oldest posted toggle.
NextToggle(p, target) ==
    /\ EventLoop
    /\ pending # <<>>
    /\ Head(pending) = [profile |-> p, target |-> target]

TakeToggle(p, target) == NextToggle(p, target) /\ pending' = Tail(pending)

\* A toggle is posted with no delay and the timer's interval is 30 seconds:
\* at most one heartbeat, the one that is due, overtakes it.
ApplyNext(p, target) ==
    /\ TakeToggle(p, target)
    /\ heartbeatDue' = (heartbeatDue \/ pending' = <<>>)

\* QTimer.start() restarts the interval.
StartTimer ==
    /\ hostTimer' = TRUE
    /\ heartbeatDue' = (pending' = <<>>)

-----------------------------------------------------------------------------
(* _on_toggle_monitoring and _apply_toggle.                                 *)

\* start() returns at once when the monitor is running already.
StartMonitor == Health!Start \/ (running /\ UNCHANGED healthVars)

Resume ==
    /\ TakeToggle(None, TRUE)
    /\ StartMonitor
    /\ StartTimer
    /\ monitoringEnabled' = TRUE
    /\ awaiting' = SomeMonitored(savedPaused)
    /\ trayMonitoring' = TRUE
    /\ UNCHANGED <<profileStatus, savedPaused, handler, host, trayStatus,
                   initialized, globalError>>

\* A toggle that raises rolls back what it changes.
RollsBack(target, rollback) ==
    handler' = IF monitoringEnabled = target THEN "none" ELSE rollback

\* Monitoring is started, the write raises.
ResumeRefused ==
    /\ WriteMayFail
    /\ TakeToggle(None, TRUE)
    /\ StartMonitor
    /\ StartTimer
    /\ RollsBack(TRUE, "roll_back_resume")
    /\ UNCHANGED <<monitoringEnabled, profileStatus, awaiting, savedPaused, host,
                   trayMonitoring, trayStatus, initialized, globalError>>

\* The monitor thread cannot be started.
ResumeFails ==
    /\ ApplyNext(None, TRUE)
    /\ Health!StartFails
    /\ RollsBack(TRUE, "roll_back_resume")
    /\ UNCHANGED <<monitoringEnabled, profileStatus, awaiting, savedPaused,
                   hostTimer, host, trayMonitoring, trayStatus, initialized,
                   globalError>>

RollBackResume ==
    /\ handler = "roll_back_resume"
    /\ Health!Stop
    /\ hostTimer' = FALSE
    /\ handler' = "none"
    /\ UNCHANGED <<monitoringEnabled, profileStatus, awaiting, savedPaused,
                   heartbeatDue, host, trayVars>>

\* The rollback of a resume that failed to start the thread fails to join it,
\* which is logged; the timer is not reached.
RollBackResumeFails ==
    /\ handler = "roll_back_resume"
    /\ Health!StopRaises
    /\ handler' = "none"
    /\ UNCHANGED <<monitoringEnabled, profileStatus, awaiting, savedPaused,
                   hostVars, trayVars>>

\* The pause handler up to the join inside stop().
BeginPause ==
    /\ ApplyNext(None, FALSE)
    /\ Health!Stop
    /\ handler' = "pause"
    /\ UNCHANGED <<monitoringEnabled, profileStatus, awaiting, savedPaused,
                   hostTimer, host, trayMonitoring, trayStatus, initialized,
                   globalError>>

Pause ==
    /\ handler = "pause"
    /\ gui = "idle"
    /\ hostTimer' = FALSE
    /\ monitoringEnabled' = FALSE
    /\ awaiting' = FALSE
    /\ trayMonitoring' = FALSE
    /\ handler' = "none"
    /\ UNCHANGED <<healthVars, profileStatus, savedPaused, heartbeatDue, host,
                   trayStatus, initialized, globalError, pending>>

\* Mutant: the refused pause is not rolled back.
PauseRefused_NoRollback ==
    /\ WriteMayFail
    /\ handler = "pause"
    /\ gui = "idle"
    /\ hostTimer' = FALSE
    /\ handler' = "none"
    /\ UNCHANGED <<healthVars, monitoringEnabled, profileStatus, awaiting,
                   savedPaused, heartbeatDue, host, trayVars>>

\* The write raises.
PauseRefused ==
    /\ WriteMayFail
    /\ handler = "pause"
    /\ gui = "idle"
    /\ hostTimer' = FALSE
    /\ RollsBack(FALSE, "roll_back_pause")
    /\ UNCHANGED <<healthVars, monitoringEnabled, profileStatus, awaiting,
                   savedPaused, heartbeatDue, host, trayVars>>

\* The monitor thread was never started and cannot be joined.
PauseFails ==
    /\ ApplyNext(None, FALSE)
    /\ Health!StopRaises
    /\ RollsBack(FALSE, "roll_back_pause")
    /\ UNCHANGED <<monitoringEnabled, profileStatus, awaiting, savedPaused,
                   hostTimer, host, trayMonitoring, trayStatus, initialized,
                   globalError>>

\* What was running before is started again, although the stopped thread may
\* still be in its last pass.
RollBackPause ==
    /\ handler = "roll_back_pause"
    /\ Health!Start
    /\ UNCHANGED trayVars
    /\ StartTimer
    /\ handler' = "none"
    /\ UNCHANGED <<monitoringEnabled, profileStatus, awaiting, savedPaused, host>>

\* The thread cannot be started again, which is logged: _running is set, and
\* there is no thread and no timer.
RollBackPauseFails ==
    /\ handler = "roll_back_pause"
    /\ Health!StartFails
    /\ handler' = "none"
    /\ UNCHANGED <<monitoringEnabled, profileStatus, awaiting, savedPaused,
                   hostVars, trayVars>>

-----------------------------------------------------------------------------
(* _on_toggle_profile_monitoring and _apply_profile_monitoring_toggle.      *)

SavePause(p, enabled) ==
    savedPaused' = IF enabled THEN savedPaused \ {p} ELSE savedPaused \cup {p}

\* A resumed OK profile waits for its next result.
Toggled(status, enabled) ==
    [state |-> IF enabled /\ status.state = "ok" /\ ~status.enabled
               THEN "syncing" ELSE status.state,
     enabled |-> enabled]

\* Mutant: saves the pause and shows it, but does not tell the operator.
ToggleProfile_OnlySaves(p, enabled) ==
    /\ ApplyNext(p, enabled)
    /\ SavePause(p, enabled)
    /\ profileStatus' = [profileStatus EXCEPT ![p] = Toggled(@, enabled)]
    /\ trayStatus' = [trayStatus EXCEPT ![p] = Toggled(@, enabled)]
    /\ UNCHANGED <<healthVars, monitoringEnabled, awaiting, handler, hostTimer,
                   host, trayMonitoring, initialized, globalError>>

ToggleProfile(p, enabled) ==
    /\ ApplyNext(p, enabled)
    /\ Health!SetProfileMonitoringEnabled(p, enabled)
    /\ SavePause(p, enabled)
    /\ profileStatus' = [profileStatus EXCEPT ![p] = Toggled(@, enabled)]
    /\ trayStatus' = [trayStatus EXCEPT ![p] = Toggled(@, enabled)]
    /\ UNCHANGED <<monitoringEnabled, awaiting, handler, hostTimer, host,
                   trayMonitoring, initialized, globalError>>

\* The write raises with the store's memory changed.
ToggleProfileRefused(p, enabled) ==
    /\ WriteMayFail
    /\ NextToggle(p, enabled)
    /\ Health!SetProfileMonitoringEnabled(p, enabled)
    /\ SavePause(p, enabled)
    /\ handler' = "roll_back_profile"
    /\ UNCHANGED <<monitoringEnabled, profileStatus, awaiting, hostVars,
                   trayVars>>

\* The operator is set back to what the status says; the store is not.
RollBackProfile(p) ==
    /\ handler = "roll_back_profile"
    /\ pending' = Tail(pending)
    /\ heartbeatDue' = (heartbeatDue \/ pending' = <<>>)
    /\ Head(pending).profile = p
    /\ handler' = "none"
    /\ Health!SetProfileMonitoringEnabled(p, profileStatus[p].enabled)
    /\ UNCHANGED <<monitoringEnabled, profileStatus, awaiting, savedPaused,
                   hostTimer, host, trayMonitoring, trayStatus, initialized,
                   globalError>>

-----------------------------------------------------------------------------
(* _on_status_change: the status slot of the queued signal.                 *)

\* Mutant: a determinate failure is not mapped to a profile state.
StateOf_Unmapped(r) == CASE r = "active" -> "ok"
                         [] r = "expired" -> "syncing"
                         [] r = "determinate" -> "determinate"
                         [] r = "indeterminate" -> "warning"

StateOf(r) == CASE r = "active" -> "ok"
                [] r = "expired" -> "syncing"
                [] r = "determinate" -> "error"
                [] r = "indeterminate" -> "warning"

\* Mutant: an error is left on any result.
NewStatus_NotSticky(p, r) ==
    IF ~profileStatus[p].enabled /\ profileStatus[p].state = "ok"
    THEN profileStatus[p]
    ELSE [state |-> StateOf(r), enabled |-> p \notin savedPaused]

\* Mutant: an error is never left.
NewStatus_Stuck(p, r) ==
    IF profileStatus[p].state = "error" THEN profileStatus[p]
    ELSE [state |-> StateOf(r), enabled |-> p \notin savedPaused]

\* A paused OK profile ignores results; an error is left by "active" only.
NewStatus(p, r) ==
    LET current == profileStatus[p] IN
    IF \/ ~current.enabled /\ current.state = "ok"
       \/ current.state = "error" /\ r # "active"
    THEN current
    ELSE [state |-> StateOf(r), enabled |-> p \notin savedPaused]

UpdateProfile(p, status) == trayStatus' = [trayStatus EXCEPT ![p] = status]

\* Mutant: the tray is told what the check said, not what the app made of it.
OnStatusChange_RawTray ==
    /\ EventLoop
    /\ Health!Deliver
    /\ LET p == Head(statusQueue).profile
           r == Head(statusQueue).result
       IN  /\ profileStatus' = [profileStatus EXCEPT ![p] = NewStatus(p, r)]
           /\ trayStatus' = [trayStatus EXCEPT ![p].state = StateOf(r)]
    /\ initialized' = (initialized \/ awaiting)
    /\ awaiting' = FALSE
    /\ UNCHANGED <<monitoringEnabled, savedPaused, handler, hostVars,
                   trayMonitoring, globalError, pending>>

OnStatusChange ==
    /\ EventLoop
    /\ Health!Deliver
    /\ LET p == Head(statusQueue).profile
           status == NewStatus(p, Head(statusQueue).result)
       IN  /\ profileStatus' = [profileStatus EXCEPT ![p] = status]
           /\ UpdateProfile(p, status)
    /\ initialized' = (initialized \/ awaiting)
    /\ awaiting' = FALSE
    /\ UNCHANGED <<monitoringEnabled, savedPaused, handler, hostVars,
                   trayMonitoring, globalError, pending>>

-----------------------------------------------------------------------------
(* _on_tray_host_heartbeat and ConcreteTrayHost.ping.                       *)

HeartbeatExpires ==
    /\ EventLoop
    /\ hostTimer
    /\ heartbeatDue
    /\ heartbeatDue' = (pending = <<>>)

PingSucceeds ==
    /\ HeartbeatExpires
    /\ hostUp
    /\ hostFailures' = 0

HeartbeatPasses ==
    /\ PingSucceeds
    /\ globalError' = FALSE
    /\ UNCHANGED <<healthVars, appVars, hostTimer, hostUp, trayMonitoring,
                   trayStatus, initialized, pending>>

PingFails ==
    /\ HeartbeatExpires
    /\ ~hostUp
    /\ hostFailures' = IF hostFailures < LostThreshold THEN hostFailures + 1
                                                       ELSE hostFailures

HeartbeatFails ==
    /\ PingFails
    /\ hostFailures' < LostThreshold
    /\ UNCHANGED <<healthVars, appVars, hostTimer, hostUp, trayVars>>

\* Mutant: monitoring goes on when the host is lost.
HostLost_KeepsMonitoring ==
    /\ PingFails
    /\ hostFailures' = LostThreshold
    /\ globalError' = TRUE
    /\ UNCHANGED <<healthVars, appVars, hostTimer, hostUp, trayMonitoring,
                   trayStatus, initialized, pending>>

\* The lost host is announced; unless told to continue, monitoring and the
\* heartbeat stop, and the saved state keeps what the user chose.  A monitor
\* thread that was never started has no heartbeat timer beside it, so stop()
\* does not raise here.
HostLost ==
    /\ PingFails
    /\ hostFailures' = LostThreshold
    /\ globalError' = TRUE
    /\ IF TrayLossBehavior = "continue"
       THEN UNCHANGED <<healthVars, monitoringEnabled, hostTimer, trayMonitoring>>
       ELSE /\ Health!Stop
            /\ monitoringEnabled' = FALSE
            /\ hostTimer' = FALSE
            /\ trayMonitoring' = FALSE
    /\ UNCHANGED <<profileStatus, awaiting, savedPaused, handler, hostUp,
                   trayStatus, initialized, pending>>

\* Environment: the desktop's tray host goes away and comes back.
HostFlips ==
    /\ HostMayFail
    /\ hostUp' = ~hostUp
    /\ UNCHANGED <<healthVars, appVars, hostTimer, heartbeatDue, hostFailures,
                   trayVars>>

-----------------------------------------------------------------------------
(* The other threads.                                                       *)

MonitorStep(m) ==
    /\ Health!Monitor(m)
    /\ UNCHANGED <<appVars, hostVars, trayVars>>

\* The join in stop() ends, or gives up.
JoinReturns ==
    /\ Health!JoinReturns
    /\ UNCHANGED <<appVars, hostVars, trayVars>>

Click == ClickFirstRow \/ \E p \in Profiles : ClickProfile(p)

Handle ==
    \/ Resume
    \/ ResumeRefused
    \/ ResumeFails
    \/ RollBackResume
    \/ RollBackResumeFails
    \/ BeginPause
    \/ Pause
    \/ PauseRefused
    \/ PauseFails
    \/ RollBackPause
    \/ RollBackPauseFails
    \/ \E p \in Profiles, enabled \in BOOLEAN : ToggleProfile(p, enabled)
    \/ \E p \in Profiles, enabled \in BOOLEAN : ToggleProfileRefused(p, enabled)
    \/ \E p \in Profiles : RollBackProfile(p)

Heartbeat == HeartbeatPasses \/ HeartbeatFails \/ HostLost

Next ==
    \/ Click
    \/ Handle
    \/ OnStatusChange
    \/ Heartbeat
    \/ HostFlips
    \/ JoinReturns
    \/ \E m \in Monitors : MonitorStep(m)

Spec == Init /\ [][Next]_vars

\* The Qt event loop serves every posted toggle, every result and every
\* timeout of the heartbeat timer, however often the user clicks; threads run,
\* checks and joins end.  Clicks and the tray host are free.
Fairness ==
    /\ SF_vars(Handle)
    /\ SF_vars(OnStatusChange)
    /\ SF_vars(Heartbeat)
    /\ WF_vars(JoinReturns)
    /\ \A m \in Monitors : WF_vars(MonitorStep(m))

FairSpec == Spec /\ Fairness

-----------------------------------------------------------------------------

Statuses == [state : {"ok", "syncing", "warning", "error"}, enabled : BOOLEAN]

TypeOK ==
    /\ Health!TypeOK
    /\ monitoringEnabled \in BOOLEAN
    /\ profileStatus \in [Profiles -> Statuses]
    /\ awaiting \in BOOLEAN
    /\ savedPaused \subseteq Profiles
    /\ handler \in {"none", "pause", "roll_back_resume", "roll_back_pause",
                    "roll_back_profile"}
    /\ hostTimer \in BOOLEAN
    /\ heartbeatDue \in BOOLEAN
    /\ hostUp \in BOOLEAN
    /\ hostFailures \in 0..LostThreshold
    /\ trayMonitoring \in BOOLEAN
    /\ trayStatus \in [Profiles -> Statuses]
    /\ initialized \in BOOLEAN
    /\ globalError \in BOOLEAN
    /\ pending \in Seq([profile : Profiles \cup {None}, target : BOOLEAN])
    /\ Len(pending) <= MaxPending

\* Whenever the event loop is free, what the monitor does, what the app
\* believes and what the menu offers agree, also after refused writes and
\* their rollbacks, repeated toggles and the loss of the tray host.  Only the
\* heartbeat timer stays off where a rollback could not start the thread.
MonitoringAgrees ==
    EventLoop => /\ running = monitoringEnabled
                 /\ trayMonitoring = monitoringEnabled
                 /\ hostTimer = (monitoringEnabled /\ ~Health!NeverStarted)

\* The menu shows the status the app aggregates, although the two are
\* updated by different code on every path.
TrayShowsStatus == trayStatus = profileStatus

\* While the store can be written, a profile is skipped by the monitor if and
\* only if its row is shown as paused and its pause is the saved one.
PauseAgrees ==
    EventLoop => \A p \in Profiles :
        /\ p \in pausedProfiles <=> ~profileStatus[p].enabled
        /\ p \in pausedProfiles <=> p \in savedPaused

\* "Profiles with per-profile monitoring paused are skipped ... until resumed"
\* (design spec), and "Refused state writes must fail loudly to callers so
\* runtime toggle rollback can execute": no row is shown as paused while its
\* profile is still checked.  A refused pause breaks it at the next result:
\* the operator is set back, the store's memory is not.
ShownPauseIsObeyed ==
    EventLoop =>
        \A p \in Profiles : ~trayStatus[p].enabled => p \in pausedProfiles

\* "error is sticky until explicit session_check_success_active" (state
\* machine design): pauses, resumes, retries and other results keep it.
StickyError ==
    [][\A p \in Profiles :
          profileStatus[p].state = "error" /\ profileStatus'[p].state # "error"
          => Head(statusQueue) = [profile |-> p, result |-> "active"]]_vars

\* Losing the tray host in "pause" mode stops the checks and keeps them
\* stopped, whatever toggles were posted at that moment.
HostLossPauses ==
    globalError /\ EventLoop /\ TrayLossBehavior = "pause" => ~running

\* "Global error action remains visible while 30-second retries continue,
\* then auto-returns to toggle state after recovery" (UX design): the error
\* goes away once the host answers again for good.
HostErrorClears == <>[]hostUp => <>[]~globalError

\* However many results, toggles and threads from before a pause are still
\* on their way, a profile that stays monitored and keeps being found active
\* is shown as OK in the end.
ActiveProfileShowsOK ==
    \A p \in Profiles :
        <>[](/\ running
             /\ p \notin pausedProfiles
             /\ \A m \in Monitors : result[m] \in {None, "active"})
        => <>[](trayStatus[p].state = "ok")
=============================================================================
