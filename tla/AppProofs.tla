------------------------------ MODULE AppProofs ------------------------------
(***************************************************************************)
(* Proofs about App for any profiles, any number of monitor threads, any   *)
(* bounds on pending toggles and undelivered results, either reaction to   *)
(* a lost tray host, and a state store that can or cannot be written.      *)
(***************************************************************************)
EXTENDS App, TLAPS

\* The health monitor with what HealthMonitorProofs says about it.
Monitoring == INSTANCE HealthMonitorProofs

\* The two instances of HealthMonitor are about the same variables.
LEMMA SameMonitor ==
    /\ Health!TypeOK <=> Monitoring!TypeOK
    /\ Health!Start => Monitoring!Start
    /\ Health!StartFails => Monitoring!StartFails
    /\ Health!Stop => Monitoring!Stop
    /\ Health!StopRaises => Monitoring!StopRaises
    /\ Health!JoinReturns => Monitoring!JoinReturns
    /\ Health!Deliver => Monitoring!Deliver
    /\ \A p \in Profiles, enabled \in BOOLEAN :
          Health!SetProfileMonitoringEnabled(p, enabled)
          => Monitoring!SetProfileMonitoringEnabled(p, enabled)
    /\ \A m \in Monitors : Health!Monitor(m) => Monitoring!Monitor(m)
    /\ UNCHANGED healthVars <=> UNCHANGED Monitoring!vars
    /\ Profiles = Monitoring!Profiles
<1>1. Profiles = Monitoring!Profiles /\ Health!Profiles = Monitoring!Profiles
  BY DEF Profiles, Health!Profiles, Monitoring!Profiles
<1>2. Health!TypeOK <=> Monitoring!TypeOK
  BY <1>1 DEF Health!TypeOK, Monitoring!TypeOK, Health!MonitorStates,
              Monitoring!MonitorStates
<1>3. /\ Health!Start => Monitoring!Start
      /\ Health!StartFails => Monitoring!StartFails
      /\ Health!JoinReturns => Monitoring!JoinReturns
      /\ Health!Deliver => Monitoring!Deliver
  BY DEF Health!Start, Monitoring!Start, Health!StartFails, Monitoring!StartFails,
         Health!NewThread, Monitoring!NewThread, Health!JoinReturns,
         Monitoring!JoinReturns, Health!InPass, Monitoring!InPass,
         Health!Deliver, Monitoring!Deliver, Health!threadVars,
         Monitoring!threadVars
<1>4. (Health!Stop => Monitoring!Stop) /\ (Health!StopRaises => Monitoring!StopRaises)
  BY DEF Health!Stop, Monitoring!Stop, Health!StopRaises, Monitoring!StopRaises,
         Health!NeverStarted, Monitoring!NeverStarted, Health!threadVars,
         Monitoring!threadVars
<1>5. \A p \in Profiles, enabled \in BOOLEAN :
          Health!SetProfileMonitoringEnabled(p, enabled)
          => Monitoring!SetProfileMonitoringEnabled(p, enabled)
  BY DEF Health!SetProfileMonitoringEnabled,
         Monitoring!SetProfileMonitoringEnabled, Health!threadVars,
         Monitoring!threadVars
<1>6. ASSUME NEW m \in Monitors, Health!Monitor(m) PROVE Monitoring!Monitor(m)
  BY <1>6
  DEF Health!Monitor, Monitoring!Monitor, Health!LoopContinue,
      Monitoring!LoopContinue, Health!LoopExit, Monitoring!LoopExit,
      Health!SkipPaused, Monitoring!SkipPaused, Health!StartCheck,
      Monitoring!StartCheck, Health!CheckReturns, Monitoring!CheckReturns,
      Health!EmitStatus, Monitoring!EmitStatus, Health!PassDone,
      Monitoring!PassDone, Health!Wake, Monitoring!Wake
<1>7. UNCHANGED healthVars <=> UNCHANGED Monitoring!vars
  BY DEF healthVars, Monitoring!vars, Monitoring!threadVars
<1> QED BY <1>1, <1>2, <1>3, <1>4, <1>5, <1>6, <1>7

\* Whatever the application does, it does to the monitor what HealthMonitor
\* says the GUI thread may do.
LEMMA HealthStep == TypeOK /\ [Next]_vars => [Monitoring!Next]_(Monitoring!vars)
<1> SUFFICES ASSUME TypeOK, [Next]_vars
             PROVE  [Monitoring!Next]_(Monitoring!vars)
  OBVIOUS
<1> USE SameMonitor DEF Monitoring!Next
<1>1. CASE Click \/ HostFlips \/ UNCHANGED vars
  BY <1>1 DEF Click, ClickFirstRow, ClickProfile, HostFlips, vars
<1>2. CASE Heartbeat
  BY <1>2 DEF Heartbeat, HeartbeatPasses, HeartbeatFails, HostLost
<1>3. CASE OnStatusChange
  BY <1>3 DEF OnStatusChange
<1>4. CASE JoinReturns
  BY <1>4 DEF JoinReturns
<1>5. ASSUME NEW m \in Monitors, MonitorStep(m)
      PROVE  [Monitoring!Next]_(Monitoring!vars)
  BY <1>5 DEF MonitorStep
<1>6. CASE \/ Resume \/ ResumeRefused \/ ResumeFails \/ RollBackResume
           \/ RollBackResumeFails
  BY <1>6 DEF Resume, ResumeRefused, ResumeFails, RollBackResume,
              RollBackResumeFails, StartMonitor
<1>9. CASE \/ BeginPause \/ Pause \/ PauseRefused \/ PauseFails \/ RollBackPause
           \/ RollBackPauseFails
  BY <1>9 DEF BeginPause, Pause, PauseRefused, PauseFails, RollBackPause,
              RollBackPauseFails
<1>7. ASSUME NEW p \in Profiles, NEW enabled \in BOOLEAN,
             ToggleProfile(p, enabled) \/ ToggleProfileRefused(p, enabled)
      PROVE  [Monitoring!Next]_(Monitoring!vars)
  BY <1>7 DEF ToggleProfile, ToggleProfileRefused
<1>8. ASSUME NEW p \in Profiles, RollBackProfile(p)
      PROVE  [Monitoring!Next]_(Monitoring!vars)
  <2>1. profileStatus[p].enabled \in BOOLEAN
    BY DEF TypeOK, Statuses
  <2> QED BY <1>8, <2>1 DEF RollBackProfile
<1> QED
  BY <1>1, <1>2, <1>3, <1>4, <1>5, <1>6, <1>7, <1>8, <1>9 DEF Next, Handle

-----------------------------------------------------------------------------
(* Types.                                                                   *)

Toggles == [profile : Profiles \cup {None}, target : BOOLEAN]

\* Posting a toggle and taking the oldest one keep the type of the queue.
LEMMA QueueType ==
    ASSUME NEW S, NEW q \in Seq(S)
    PROVE  /\ Len(q) \in Nat
           /\ \A e \in S : Append(q, e) \in Seq(S) /\ Len(Append(q, e)) = Len(q) + 1
           /\ q # <<>> => /\ Head(q) \in S
                          /\ Tail(q) \in Seq(S)
                          /\ Len(Tail(q)) = Len(q) - 1
OBVIOUS

\* What the rollback of a profile relies on: its toggle is still the oldest.
TogglePending == handler = "roll_back_profile" => pending # <<>>

PendingOK == pending \in Seq(Toggles) /\ Len(pending) <= MaxPending

LEMMA PendingStep ==
    TypeOK /\ TogglePending /\ [Next]_vars => PendingOK' /\ TogglePending'
<1> SUFFICES ASSUME TypeOK, TogglePending, [Next]_vars
             PROVE  PendingOK' /\ TogglePending'
  OBVIOUS
<1> USE QueueType, AppAssumption DEF PendingOK, TogglePending
<1>1. pending \in Seq(Toggles) /\ Len(pending) <= MaxPending
  BY DEF TypeOK, Toggles
<1>2. CASE UNCHANGED pending /\ handler' # "roll_back_profile"
  BY <1>1, <1>2
<1>3. CASE pending' = Tail(pending) /\ pending # <<>> /\ handler' # "roll_back_profile"
  BY <1>1, <1>3
<1>4. ASSUME NEW t \in Toggles, pending' = Append(pending, t), Len(pending) < MaxPending,
             EventLoop, UNCHANGED handler
      PROVE  PendingOK' /\ TogglePending'
  BY <1>1, <1>4 DEF EventLoop
<1>5. CASE UNCHANGED <<pending, handler>>
  BY <1>1, <1>5
<1>6. CASE Click
  <2>1. CASE ClickFirstRow
    <3>1. [profile |-> None, target |-> ~trayMonitoring] \in Toggles
      BY DEF Toggles
    <3> QED BY <2>1, <3>1, <1>4 DEF ClickFirstRow, appVars
  <2>2. ASSUME NEW p \in Profiles, ClickProfile(p) PROVE PendingOK' /\ TogglePending'
    <3>1. [profile |-> p, target |-> ~trayStatus[p].enabled] \in Toggles
      BY DEF Toggles
    <3> QED BY <2>2, <3>1, <1>4 DEF ClickProfile, appVars
  <2> QED BY <1>6, <2>1, <2>2 DEF Click
<1>7. CASE Handle
  <2>1. CASE Resume \/ BeginPause
    BY <2>1, <1>3 DEF Resume, BeginPause, ApplyNext, TakeToggle, NextToggle, EventLoop
  <2>2. CASE ResumeRefused \/ ResumeFails \/ PauseFails
    BY <2>2, <1>3 DEF ResumeRefused, ResumeFails, PauseFails, ApplyNext, TakeToggle,
                      NextToggle, RollsBack
  <2>3. CASE \/ RollBackResume \/ RollBackResumeFails \/ Pause \/ PauseRefused
             \/ RollBackPause \/ RollBackPauseFails
    BY <2>3, <1>2 DEF RollBackResume, RollBackResumeFails, Pause, PauseRefused,
                      RollBackPause, RollBackPauseFails, RollsBack, trayVars
  <2>4. ASSUME NEW p \in Profiles, NEW enabled \in BOOLEAN, ToggleProfile(p, enabled)
        PROVE  PendingOK' /\ TogglePending'
    BY <2>4, <1>3 DEF ToggleProfile, ApplyNext, TakeToggle, NextToggle, EventLoop
  <2>5. ASSUME NEW p \in Profiles, NEW enabled \in BOOLEAN,
               ToggleProfileRefused(p, enabled)
        PROVE  PendingOK' /\ TogglePending'
    BY <2>5, <1>1 DEF ToggleProfileRefused, NextToggle, trayVars
  <2>6. ASSUME NEW p \in Profiles, RollBackProfile(p)
        PROVE  PendingOK' /\ TogglePending'
    BY <2>6, <1>3 DEF RollBackProfile
  <2> QED BY <1>7, <2>1, <2>2, <2>3, <2>4, <2>5, <2>6 DEF Handle
<1>8. CASE OnStatusChange \/ Heartbeat \/ HostFlips \/ JoinReturns \/ UNCHANGED vars
  BY <1>8, <1>5
  DEF OnStatusChange, Heartbeat, HeartbeatPasses, HeartbeatFails, HostLost, HostFlips,
      JoinReturns, appVars, trayVars, vars
<1>9. ASSUME NEW m \in Monitors, MonitorStep(m) PROVE PendingOK' /\ TogglePending'
  BY <1>9, <1>5 DEF MonitorStep, appVars, trayVars
<1> QED BY <1>6, <1>7, <1>8, <1>9 DEF Next

\* What a toggle or a result makes of a status is a status.
LEMMA StatusType ==
    ASSUME TypeOK, NEW p \in Profiles
    PROVE  /\ \A enabled \in BOOLEAN : Toggled(profileStatus[p], enabled) \in Statuses
           /\ \A enabled \in BOOLEAN : Toggled(trayStatus[p], enabled) \in Statuses
           /\ \A r \in Results : NewStatus(p, r) \in Statuses
<1>1. profileStatus[p] \in Statuses /\ trayStatus[p] \in Statuses
  BY DEF TypeOK
<1>2. ASSUME NEW status \in Statuses, NEW enabled \in BOOLEAN
      PROVE  Toggled(status, enabled) \in Statuses
  BY DEF Toggled, Statuses
<1>3. ASSUME NEW r \in Results PROVE NewStatus(p, r) \in Statuses
  <2>1. StateOf(r) \in {"ok", "syncing", "warning", "error"}
    BY MonitorAssumption DEF StateOf
  <2>2. [state |-> StateOf(r), enabled |-> p \notin savedPaused] \in Statuses
    BY <2>1 DEF Statuses
  <2> QED BY <1>1, <2>2 DEF NewStatus
<1> QED BY <1>1, <1>2, <1>3

\* The result that is delivered names a profile and an outcome.
LEMMA HeadType ==
    ASSUME TypeOK, statusQueue # <<>>
    PROVE  /\ Head(statusQueue) \in [profile : Profiles, result : Results]
           /\ Head(statusQueue).profile \in Profiles
           /\ Head(statusQueue).result \in Results
<1>1. statusQueue \in Seq([profile : Profiles, result : Results])
  BY SameMonitor DEF TypeOK, Monitoring!TypeOK
<1>2. Head(statusQueue) \in [profile : Profiles, result : Results]
  BY <1>1, QueueType
<1>3. \A h \in [profile : Profiles, result : Results] :
          h.profile \in Profiles /\ h.result \in Results
  OBVIOUS
<1> QED BY <1>2, <1>3

StatusOK ==
    /\ profileStatus \in [Profiles -> Statuses]
    /\ trayStatus \in [Profiles -> Statuses]

\* The status changes in two ways only: a toggle of a profile and a result.
LEMMA StatusStep ==
    ASSUME TypeOK, [Next]_vars
    PROVE  \/ UNCHANGED <<profileStatus, trayStatus>>
           \/ \E p \in Profiles, enabled \in BOOLEAN : ToggleProfile(p, enabled)
           \/ OnStatusChange
<1>1. CASE Click \/ HostFlips \/ JoinReturns \/ Heartbeat \/ UNCHANGED vars
  BY <1>1 DEF Click, ClickFirstRow, ClickProfile, HostFlips, JoinReturns, Heartbeat,
              HeartbeatPasses, HeartbeatFails, HostLost, vars, appVars, trayVars
<1>2. ASSUME NEW m \in Monitors, MonitorStep(m)
      PROVE  UNCHANGED <<profileStatus, trayStatus>>
  BY <1>2 DEF MonitorStep, appVars, trayVars
<1>3. CASE Handle
  BY <1>3 DEF Handle, Resume, ResumeRefused, ResumeFails, RollBackResume,
              RollBackResumeFails, BeginPause, Pause, PauseRefused, PauseFails,
              RollBackPause, RollBackPauseFails, ToggleProfileRefused, RollBackProfile,
              trayVars
<1> QED BY <1>1, <1>2, <1>3 DEF Next

LEMMA StatusTypeStep == TypeOK /\ [Next]_vars => StatusOK'
<1> SUFFICES ASSUME TypeOK, [Next]_vars PROVE StatusOK'
  OBVIOUS
<1> USE DEF StatusOK
<1>1. StatusOK
  BY DEF TypeOK
<1>2. ASSUME NEW p \in Profiles, NEW enabled \in BOOLEAN, ToggleProfile(p, enabled)
      PROVE  StatusOK'
  BY <1>1, <1>2, StatusType DEF ToggleProfile
<1>3. CASE OnStatusChange
  <2> DEFINE p == Head(statusQueue).profile
             status == NewStatus(p, Head(statusQueue).result)
  <2>1. statusQueue # <<>>
    BY <1>3, SameMonitor DEF OnStatusChange, Monitoring!Deliver
  <2>2. p \in Profiles /\ status \in Statuses
    BY <2>1, HeadType, StatusType
  <2>3. /\ profileStatus' = [profileStatus EXCEPT ![p] = status]
        /\ trayStatus' = [trayStatus EXCEPT ![p] = status]
    BY <1>3 DEF OnStatusChange, UpdateProfile
  <2> QED BY <1>1, <2>2, <2>3
<1> QED BY <1>1, <1>2, <1>3, StatusStep

Switches ==
    /\ monitoringEnabled \in BOOLEAN
    /\ trayMonitoring \in BOOLEAN
    /\ hostTimer \in BOOLEAN
    /\ heartbeatDue \in BOOLEAN
    /\ hostUp \in BOOLEAN
    /\ awaiting \in BOOLEAN
    /\ initialized \in BOOLEAN
    /\ globalError \in BOOLEAN

\* The flags of the application, the tray and the heartbeat stay Boolean.
LEMMA SwitchesStep == TypeOK /\ [Next]_vars => Switches'
<1> SUFFICES ASSUME TypeOK, [Next]_vars PROVE Switches'
  OBVIOUS
<1> USE DEF Switches
<1>1. Switches
  BY DEF TypeOK
<1> USE <1>1
<1>2. CASE \/ Resume \/ ResumeRefused \/ ResumeFails \/ RollBackResume
           \/ RollBackResumeFails
  BY <1>2 DEF Resume, ResumeRefused, ResumeFails, RollBackResume, RollBackResumeFails,
              RollsBack, StartTimer, ApplyNext, SomeMonitored, host, hostVars, trayVars
<1>7. CASE \/ BeginPause \/ Pause \/ PauseRefused \/ PauseFails \/ RollBackPause
           \/ RollBackPauseFails
  BY <1>7 DEF BeginPause, Pause, PauseRefused, PauseFails, RollBackPause,
              RollBackPauseFails, RollsBack, StartTimer, ApplyNext, host, hostVars,
              trayVars
<1>3. ASSUME NEW p \in Profiles, NEW enabled \in BOOLEAN,
             \/ ToggleProfile(p, enabled) \/ ToggleProfileRefused(p, enabled)
             \/ RollBackProfile(p)
      PROVE  Switches'
  BY <1>3 DEF ToggleProfile, ToggleProfileRefused, RollBackProfile, ApplyNext, SavePause,
              host, hostVars, trayVars
<1>4. CASE Heartbeat
  BY <1>4, AppAssumption
  DEF Heartbeat, HeartbeatPasses, HeartbeatFails, HostLost, PingSucceeds, PingFails,
      HeartbeatExpires, appVars, trayVars
<1>5. CASE Click \/ OnStatusChange \/ HostFlips \/ JoinReturns \/ UNCHANGED vars
  BY <1>5 DEF Click, ClickFirstRow, ClickProfile, OnStatusChange, HostFlips, JoinReturns,
              appVars, host, hostVars, trayVars, vars
<1>6. ASSUME NEW m \in Monitors, MonitorStep(m) PROVE Switches'
  BY <1>6 DEF MonitorStep, appVars, host, hostVars, trayVars
<1> QED BY <1>2, <1>3, <1>4, <1>5, <1>6, <1>7 DEF Next, Handle

Counters ==
    /\ savedPaused \subseteq Profiles
    /\ handler \in {"none", "pause", "roll_back_resume", "roll_back_pause",
                    "roll_back_profile"}
    /\ hostFailures \in 0..LostThreshold

\* Only profiles are paused, and failed pings are counted up to the threshold.
LEMMA CountersStep == TypeOK /\ [Next]_vars => Counters'
<1> SUFFICES ASSUME TypeOK, [Next]_vars PROVE Counters'
  OBVIOUS
<1> USE DEF Counters
<1>1. Counters
  BY DEF TypeOK
<1> USE <1>1
<1>2. CASE \/ Resume \/ ResumeRefused \/ ResumeFails \/ RollBackResume
           \/ RollBackResumeFails
  BY <1>2 DEF Resume, ResumeRefused, ResumeFails, RollBackResume, RollBackResumeFails,
              RollsBack, StartTimer, ApplyNext, SomeMonitored, host, hostVars, trayVars
<1>7. CASE \/ BeginPause \/ Pause \/ PauseRefused \/ PauseFails \/ RollBackPause
           \/ RollBackPauseFails
  BY <1>7 DEF BeginPause, Pause, PauseRefused, PauseFails, RollBackPause,
              RollBackPauseFails, RollsBack, StartTimer, ApplyNext, host, hostVars,
              trayVars
<1>3. ASSUME NEW p \in Profiles, NEW enabled \in BOOLEAN,
             \/ ToggleProfile(p, enabled) \/ ToggleProfileRefused(p, enabled)
             \/ RollBackProfile(p)
      PROVE  Counters'
  BY <1>3 DEF ToggleProfile, ToggleProfileRefused, RollBackProfile, ApplyNext, SavePause,
              host, hostVars, trayVars
<1>4. CASE Heartbeat
  BY <1>4, AppAssumption
  DEF Heartbeat, HeartbeatPasses, HeartbeatFails, HostLost, PingSucceeds, PingFails,
      HeartbeatExpires, appVars, trayVars
<1>5. CASE Click \/ OnStatusChange \/ HostFlips \/ JoinReturns \/ UNCHANGED vars
  BY <1>5 DEF Click, ClickFirstRow, ClickProfile, OnStatusChange, HostFlips, JoinReturns,
              appVars, host, hostVars, trayVars, vars
<1>6. ASSUME NEW m \in Monitors, MonitorStep(m) PROVE Counters'
  BY <1>6 DEF MonitorStep, appVars, host, hostVars, trayVars
<1> QED BY <1>2, <1>3, <1>4, <1>5, <1>6, <1>7 DEF Next, Handle

LEMMA InitTypeOK == Init => TypeOK
<1> SUFFICES ASSUME Init PROVE TypeOK
  OBVIOUS
<1> USE AppAssumption, MonitorAssumption
<1>1. Monitoring!TypeOK
  <2>1. /\ Len(ProfileList) \in Nat
        /\ next \in [Monitors -> 1..(Len(ProfileList) + 1)]
    BY DEF Init
  <2>2. /\ monitorThread \in Monitors \cup {None}
        /\ mpc \in [Monitors -> {"none", "loop"}]
    BY DEF Init
  <2>3. /\ statusQueue \in Seq([profile : Monitoring!Profiles, result : Results])
        /\ Len(statusQueue) <= MaxQueue
    BY DEF Init
  <2>4. pausedProfiles \subseteq Monitoring!Profiles
    BY SameMonitor DEF Init
  <2>5. \A m \in Monitors : mpc[m] \notin {"sts", "emit"}
    BY <2>2
  <2>6. mpc \in [Monitors -> Monitoring!MonitorStates]
    BY <2>2 DEF Monitoring!MonitorStates
  <2> QED BY <2>1, <2>2, <2>3, <2>4, <2>5, <2>6 DEF Init, Monitoring!TypeOK
<1>2. PendingOK
  BY DEF Init, PendingOK
<1>3. StatusOK
  <2>1. \A p \in Profiles :
            [state |-> IF monitoringEnabled /\ p \notin savedPaused THEN "syncing" ELSE "ok",
             enabled |-> p \notin savedPaused] \in Statuses
    BY DEF Statuses
  <2>2. profileStatus \in [Profiles -> Statuses]
    BY <2>1 DEF Init
  <2> QED BY <2>2 DEF Init, StatusOK
<1>4. Switches
  <2>1. monitoringEnabled \in BOOLEAN /\ awaiting \in BOOLEAN
    BY DEF Init
  <2> QED BY <2>1 DEF Init, Switches
<1>5. Counters
  BY DEF Init, Counters
<1> QED
  BY <1>1, <1>2, <1>3, <1>4, <1>5, SameMonitor
  DEF TypeOK, PendingOK, Toggles, StatusOK, Switches, Counters

LEMMA TypeStep == TypeOK /\ TogglePending /\ [Next]_vars => TypeOK' /\ TogglePending'
<1> SUFFICES ASSUME TypeOK, TogglePending, [Next]_vars
             PROVE  TypeOK' /\ TogglePending'
  OBVIOUS
<1>1. Monitoring!TypeOK'
  <2>1. Monitoring!TypeOK /\ [Monitoring!Next]_(Monitoring!vars)
    BY SameMonitor, HealthStep DEF TypeOK
  <2> QED BY <2>1, Monitoring!TypeStep, MonitorAssumption, SameMonitor
<1>2. (Health!TypeOK <=> Monitoring!TypeOK)'
  BY SameMonitor DEF Health!TypeOK, Monitoring!TypeOK, Health!MonitorStates,
     Monitoring!MonitorStates, Profiles, Health!Profiles, Monitoring!Profiles
<1> QED
  BY <1>1, <1>2, PendingStep, StatusTypeStep, SwitchesStep, CountersStep
  DEF TypeOK, PendingOK, Toggles, StatusOK, Switches, Counters

LEMMA TypeInvariance == Spec => [](TypeOK /\ TogglePending)
<1>1. Init => TogglePending
  BY DEF Init, TogglePending
<1> QED BY <1>1, InitTypeOK, TypeStep, PTL DEF Spec

\* Every variable of the composed application keeps its type: the operator's
\* threads, the statuses the app and the tray keep, the posted toggles.
THEOREM AppTypeCorrect == Spec => []TypeOK
BY TypeInvariance, PTL

\* The guarantees of the health monitor hold inside the application, with its
\* rollbacks and its reaction to a lost tray host: the thread that stop() would
\* join has not ended while monitoring is on, and a stopped thread begins at most
\* one check per profile.
THEOREM AppKeepsMonitorPromises ==
    Spec => [](Monitoring!RunningHasMonitor /\ Monitoring!StopEndsWithThePass)
<1> DEFINE MInv == Monitoring!RunningHasMonitor /\ Monitoring!ChecksWithinPass
<1>1. Init => MInv
  BY MonitorAssumption
  DEF Init, Monitoring!RunningHasMonitor, Monitoring!ChecksWithinPass,
      Monitoring!PassBound
<1>2. TypeOK /\ MInv /\ [Next]_vars => MInv'
  BY HealthStep, SameMonitor, Monitoring!RunningStep, Monitoring!ChecksStep,
     MonitorAssumption
  DEF TypeOK
<1>3. TypeOK /\ MInv => Monitoring!StopEndsWithThePass
  BY SameMonitor, MonitorAssumption
  DEF TypeOK, Monitoring!TypeOK, Monitoring!ChecksWithinPass, Monitoring!PassBound,
      Monitoring!StopEndsWithThePass
<1> QED BY <1>1, <1>2, <1>3, TypeInvariance, PTL DEF Spec

-----------------------------------------------------------------------------
(* What the app, the monitor and the menu agree about.                      *)

\* Posting a toggle never moves the ones before it; taking one moves them up.
NoResume ==
    \A i \in 1..Len(pending) : pending[i].profile = None => ~pending[i].target

\* A click asks for the opposite of what the menu shows: once a toggle that
\* changes it is posted, every later one asks for the same.
ClicksAgree ==
    \A i, j \in 1..Len(pending) :
        /\ i < j
        /\ pending[i].profile = None
        /\ pending[j].profile = None
        /\ pending[i].target # trayMonitoring
        => pending[j].target = pending[i].target

\* MonitoringAgrees speaks of a free event loop.  In between, a handler that was
\* split by a join or by a rollback has told some of the parties only; which
\* ones, and what the rollback will find, depends on the handler.
Agreement ==
    /\ handler \in {"none", "roll_back_profile"} =>
          /\ running = monitoringEnabled
          /\ trayMonitoring = monitoringEnabled
          /\ hostTimer <=> monitoringEnabled /\ ~Health!NeverStarted
    /\ handler = "pause" => ~running /\ trayMonitoring = monitoringEnabled
    /\ handler = "roll_back_resume" =>
          /\ ~monitoringEnabled
          /\ ~trayMonitoring
          /\ Health!NeverStarted => ~hostTimer
    /\ handler = "roll_back_pause" =>
          /\ monitoringEnabled
          /\ trayMonitoring
          /\ ~running
          /\ ~hostTimer

\* A resume that finds _running set by a start that failed would start the
\* timer of a monitor without a thread.  None is posted: it would have been
\* clicked before the pause whose rollback failed, and applied before it.
NoIdleResume ==
    /\ handler # "roll_back_resume" /\ running /\ Health!NeverStarted => NoResume
    /\ handler \in {"pause", "roll_back_pause"} /\ trayMonitoring => NoResume

\* A heartbeat that may still come before the posted toggles finds no resume
\* among them: one that is posted while monitoring is on is a pause, and one
\* that was posted before starts the timer's interval again when it is applied.
NoLateResume == hostTimer /\ heartbeatDue => NoResume

SwitchInv ==
    /\ Agreement
    /\ ClicksAgree
    /\ NoIdleResume
    /\ NoLateResume

\* What the calls of the application make of _running.
LEMMA RunningAfter ==
    /\ StartMonitor /\ running \in BOOLEAN => running' = TRUE
    /\ Health!Start \/ Health!StartFails => running' = TRUE /\ ~running
    /\ Health!Stop \/ Health!StopRaises => running' = FALSE
    /\ Health!Deliver => UNCHANGED running
    /\ Health!JoinReturns => UNCHANGED running
    /\ \A m \in Monitors : Health!Monitor(m) => UNCHANGED running
    /\ \A p, enabled :
          Health!SetProfileMonitoringEnabled(p, enabled) => UNCHANGED running
    /\ UNCHANGED healthVars => UNCHANGED running
BY DEF StartMonitor, Health!Start, Health!StartFails, Health!Stop, Health!StopRaises,
       Health!Deliver, Health!JoinReturns,
       Health!SetProfileMonitoringEnabled, Health!Monitor, Health!LoopContinue,
       Health!LoopExit, Health!SkipPaused, Health!StartCheck, Health!CheckReturns,
       Health!EmitStatus, Health!PassDone, Health!Wake, healthVars

\* Only start() changes whether the last thread was started.
LEMMA NeverStartedAfter ==
    ASSUME TypeOK
    PROVE  /\ Health!Start => ~Health!NeverStarted'
           /\ Health!StartFails => Health!NeverStarted'
           /\ Health!Stop => ~Health!NeverStarted
           /\ Health!StopRaises => Health!NeverStarted
           /\ \/ Health!Stop \/ Health!StopRaises \/ Health!Deliver
              \/ Health!JoinReturns \/ UNCHANGED healthVars
              \/ \E p, enabled : Health!SetProfileMonitoringEnabled(p, enabled)
              \/ \E m \in Monitors : Health!Monitor(m)
              => (Health!NeverStarted' <=> Health!NeverStarted)
<1> USE MonitorAssumption DEF Health!NeverStarted
<1>1. mpc \in [Monitors -> Health!MonitorStates] /\ monitorThread \in Monitors \cup {None}
  BY DEF TypeOK, Health!TypeOK
<1>2. (Health!Start => ~Health!NeverStarted') /\ (Health!StartFails => Health!NeverStarted')
  BY <1>1 DEF Health!Start, Health!StartFails, Health!NewThread
<1>3. /\ Health!Stop => ~Health!NeverStarted
      /\ Health!StopRaises => Health!NeverStarted
      /\ \/ Health!Stop \/ Health!StopRaises \/ Health!Deliver
         \/ Health!JoinReturns \/ UNCHANGED healthVars
         \/ \E p, enabled : Health!SetProfileMonitoringEnabled(p, enabled)
         => (Health!NeverStarted' <=> Health!NeverStarted)
  BY DEF Health!Stop, Health!StopRaises, Health!Deliver, Health!JoinReturns, healthVars,
         Health!SetProfileMonitoringEnabled, Health!threadVars
<1>4. ASSUME NEW m \in Monitors, Health!Monitor(m)
      PROVE  Health!NeverStarted' <=> Health!NeverStarted
  <2>1. /\ UNCHANGED monitorThread
        /\ \/ UNCHANGED mpc
           \/ mpc[m] # "created" /\ \E s : s # "created" /\ mpc' = [mpc EXCEPT ![m] = s]
    BY <1>4
    DEF Health!Monitor, Health!LoopContinue, Health!LoopExit, Health!SkipPaused,
        Health!StartCheck, Health!CheckReturns, Health!EmitStatus, Health!PassDone,
        Health!Wake
  <2> QED BY <1>1, <2>1
<1> QED BY <1>2, <1>3, <1>4

\* What the queue of posted toggles does to the two facts about it.
LEMMA NoResumeKept ==
    ASSUME pending \in Seq(Toggles), NoResume
    PROVE  /\ pending # <<>> /\ pending' = Tail(pending) => NoResume'
           /\ \A t \in Toggles :
                 (t.profile = None => ~t.target) /\ pending' = Append(pending, t)
                 => NoResume'
           /\ UNCHANGED pending => NoResume'
<1>1. ASSUME pending # <<>>, pending' = Tail(pending) PROVE NoResume'
  BY <1>1 DEF NoResume
<1>2. ASSUME NEW t \in Toggles, t.profile = None => ~t.target,
             pending' = Append(pending, t)
      PROVE  NoResume'
  BY <1>2 DEF NoResume
<1> QED BY <1>1, <1>2 DEF NoResume

LEMMA ClicksKept ==
    ASSUME pending \in Seq(Toggles), ClicksAgree, UNCHANGED trayMonitoring,
           trayMonitoring \in BOOLEAN
    PROVE  /\ pending # <<>> /\ pending' = Tail(pending) => ClicksAgree'
           /\ \A t \in Toggles :
                 /\ t.profile = None => t.target = ~trayMonitoring
                 /\ pending' = Append(pending, t)
                 => ClicksAgree'
           /\ UNCHANGED pending => ClicksAgree'
<1>1. ASSUME pending # <<>>, pending' = Tail(pending) PROVE ClicksAgree'
  BY <1>1 DEF ClicksAgree
<1>2. ASSUME NEW t \in Toggles, t.profile = None => t.target = ~trayMonitoring,
             pending' = Append(pending, t)
      PROVE  ClicksAgree'
  <2>1. \A i \in 1..Len(pending) : pending[i] \in Toggles
    OBVIOUS
  <2>2. \A i \in 1..Len(pending) : pending'[i] = pending[i]
    BY <1>2
  <2>3. Len(pending') = Len(pending) + 1 /\ pending'[Len(pending) + 1] = t
    BY <1>2
  <2> SUFFICES ASSUME NEW i \in 1..Len(pending'), NEW j \in 1..Len(pending'), i < j,
                      pending'[i].profile = None, pending'[j].profile = None,
                      pending'[i].target # trayMonitoring
               PROVE  pending'[j].target = pending'[i].target
    BY DEF ClicksAgree
  <2>4. i \in 1..Len(pending)
    BY <2>3
  <2>5. pending[i].target \in BOOLEAN /\ pending'[i] = pending[i]
    BY <2>1, <2>2, <2>4 DEF Toggles
  <2>6. CASE j \in 1..Len(pending)
    BY <2>2, <2>4, <2>6 DEF ClicksAgree
  <2>7. CASE j = Len(pending) + 1
    BY <1>2, <2>3, <2>5, <2>7
  <2> QED BY <2>3, <2>6, <2>7
<1> QED BY <1>1, <1>2 DEF ClicksAgree

\* After a toggle that changes what the menu shows, there is none back.
LEMMA HeadChanges ==
    ASSUME pending \in Seq(Toggles), ClicksAgree, NEW target \in BOOLEAN,
           pending # <<>>, Head(pending) = [profile |-> None, target |-> target],
           target # trayMonitoring, pending' = Tail(pending)
    PROVE  \A i \in 1..Len(pending') :
              pending'[i].profile = None => pending'[i].target = target
<1>1. 1 \in 1..Len(pending) /\ Head(pending) = pending[1]
  OBVIOUS
<1>2. pending[1].profile = None /\ pending[1].target = target
  BY <1>1
<1>3. ASSUME NEW i \in 1..Len(pending') PROVE i + 1 \in 1..Len(pending)
                                             /\ pending'[i] = pending[i + 1] /\ 1 < i + 1
  OBVIOUS
<1> QED BY <1>1, <1>2, <1>3 DEF ClicksAgree

LEMMA EmptyHasNoResume == pending = <<>> => NoResume
BY DEF NoResume

\* A resume at the head is a resume in the queue.
LEMMA HeadIsResume ==
    ASSUME pending \in Seq(Toggles), pending # <<>>,
           Head(pending) = [profile |-> None, target |-> TRUE]
    PROVE  ~NoResume
<1>1. 1 \in 1..Len(pending) /\ Head(pending) = pending[1]
  OBVIOUS
<1> QED BY <1>1 DEF NoResume

\* What a toggle of the first row, its failures and its rollbacks make of who
\* believes what.
LEMMA ToggleAgreement ==
    ASSUME TypeOK, SwitchInv,
           \/ Resume \/ ResumeRefused \/ ResumeFails \/ RollBackResume
           \/ RollBackResumeFails \/ BeginPause \/ Pause \/ PauseRefused
           \/ PauseFails \/ RollBackPause \/ RollBackPauseFails
    PROVE  Agreement'
<1> USE RunningAfter, NeverStartedAfter DEF SwitchInv, Agreement
<1>1. /\ running \in BOOLEAN /\ monitoringEnabled \in BOOLEAN
      /\ trayMonitoring \in BOOLEAN /\ hostTimer \in BOOLEAN
      /\ pending \in Seq(Toggles)
  BY DEF TypeOK, Health!TypeOK, Toggles
<1>2. CASE Resume \/ ResumeRefused
  <2>1. handler = "none" /\ ~NoResume /\ running' = TRUE /\ hostTimer' = TRUE
    BY <1>1, <1>2, HeadIsResume
    DEF Resume, ResumeRefused, TakeToggle, NextToggle, EventLoop, StartTimer
  <2>2. ~Health!NeverStarted'
    <3>1. CASE Health!Start
      BY <3>1
    <3>2. CASE running /\ UNCHANGED healthVars
      BY <2>1, <3>2 DEF NoIdleResume
    <3> QED BY <1>2, <3>1, <3>2 DEF Resume, ResumeRefused, StartMonitor
  <2>3. CASE Resume
    BY <1>1, <2>1, <2>2, <2>3 DEF Resume
  <2>4. CASE ResumeRefused
    BY <1>1, <2>1, <2>2, <2>4 DEF ResumeRefused, RollsBack
  <2> QED BY <1>2, <2>3, <2>4
<1>3. CASE ResumeFails
  BY <1>1, <1>3 DEF ResumeFails, RollsBack, ApplyNext, TakeToggle, NextToggle, EventLoop
<1>4. CASE RollBackResume \/ Pause
  <2>1. CASE RollBackResume
    <3>1. ~running' /\ hostTimer' = FALSE /\ handler' = "none"
      BY <2>1 DEF RollBackResume
    <3>2. ~monitoringEnabled' /\ ~trayMonitoring'
      BY <2>1 DEF RollBackResume, trayVars
    <3>3. running' \in BOOLEAN /\ UNCHANGED <<monitoringEnabled, trayMonitoring>>
      BY <2>1 DEF RollBackResume, trayVars, Health!Stop
    <3> QED BY <1>1, <3>1, <3>2, <3>3
  <2>2. CASE Pause
    BY <1>1, <2>2 DEF Pause
  <2> QED BY <1>4, <2>1, <2>2
<1>5. CASE RollBackResumeFails
  BY <1>1, <1>5 DEF RollBackResumeFails, hostVars, trayVars
<1>6. CASE BeginPause
  BY <1>1, <1>6 DEF BeginPause, ApplyNext, TakeToggle, NextToggle, EventLoop
<1>7. CASE PauseRefused
  BY <1>1, <1>7 DEF PauseRefused, RollsBack, trayVars
<1>8. CASE PauseFails
  BY <1>1, <1>8 DEF PauseFails, RollsBack, ApplyNext, TakeToggle, NextToggle, EventLoop
<1>9. CASE RollBackPause
  BY <1>1, <1>9 DEF RollBackPause, StartTimer, trayVars
<1>10. CASE RollBackPauseFails
  BY <1>1, <1>10 DEF RollBackPauseFails, hostVars, trayVars
<1> QED
  BY <1>2, <1>3, <1>4, <1>5, <1>6, <1>7, <1>8, <1>9, <1>10

LEMMA AgreementStep ==
    TypeOK /\ SwitchInv /\ [Next]_vars => Agreement'
<1> SUFFICES ASSUME TypeOK, SwitchInv, [Next]_vars PROVE Agreement'
  OBVIOUS
<1> USE RunningAfter, NeverStartedAfter DEF SwitchInv, Agreement
<1>1. /\ running \in BOOLEAN /\ monitoringEnabled \in BOOLEAN
      /\ trayMonitoring \in BOOLEAN /\ hostTimer \in BOOLEAN
  BY DEF TypeOK, Health!TypeOK
<1>2. ASSUME NEW p \in Profiles, NEW enabled \in BOOLEAN,
             \/ ToggleProfile(p, enabled) \/ ToggleProfileRefused(p, enabled)
             \/ RollBackProfile(p)
      PROVE  Agreement'
  <2>1. UNCHANGED running /\ (Health!NeverStarted' <=> Health!NeverStarted)
    BY <1>2 DEF ToggleProfile, ToggleProfileRefused, RollBackProfile
  <2> QED
    BY <1>1, <1>2, <2>1
    DEF ToggleProfile, ToggleProfileRefused, RollBackProfile, ApplyNext, TakeToggle,
        NextToggle, EventLoop, hostVars, trayVars
<1>3. CASE Heartbeat
  <2>1. CASE HostLost /\ TrayLossBehavior # "continue"
    BY <1>1, <2>1 DEF HostLost, PingFails, HeartbeatExpires, EventLoop
  <2>2. CASE \/ HeartbeatPasses \/ HeartbeatFails
             \/ HostLost /\ TrayLossBehavior = "continue"
    <3>1. UNCHANGED <<running, monitoringEnabled, handler, trayMonitoring, hostTimer>>
      BY <2>2 DEF HeartbeatPasses, HeartbeatFails, HostLost, appVars, trayVars
    <3>2. Health!NeverStarted' <=> Health!NeverStarted
      BY <2>2 DEF HeartbeatPasses, HeartbeatFails, HostLost
    <3> QED BY <3>1, <3>2
  <2> QED BY <1>3, <2>1, <2>2 DEF Heartbeat
<1>4. CASE Click \/ OnStatusChange \/ HostFlips \/ JoinReturns \/ UNCHANGED vars
  <2>1. UNCHANGED <<running, monitoringEnabled, handler, trayMonitoring, hostTimer>>
    BY <1>4 DEF Click, ClickFirstRow, ClickProfile, OnStatusChange, HostFlips,
                JoinReturns, appVars, hostVars, trayVars, vars
  <2>2. Health!NeverStarted' <=> Health!NeverStarted
    BY <1>4 DEF Click, ClickFirstRow, ClickProfile, OnStatusChange, HostFlips,
                JoinReturns, vars
  <2> QED BY <2>1, <2>2
<1>5. ASSUME NEW m \in Monitors, MonitorStep(m) PROVE Agreement'
  <2>1. UNCHANGED <<running, monitoringEnabled, handler, trayMonitoring, hostTimer>>
    BY <1>5 DEF MonitorStep, appVars, hostVars, trayVars
  <2>2. Health!NeverStarted' <=> Health!NeverStarted
    BY <1>5 DEF MonitorStep
  <2> QED BY <2>1, <2>2
<1> QED
  BY <1>2, <1>3, <1>4, <1>5, ToggleAgreement DEF Next, Handle

LEMMA ClicksStep ==
    TypeOK /\ TogglePending /\ SwitchInv /\ [Next]_vars => ClicksAgree'
<1> SUFFICES ASSUME TypeOK, TogglePending, SwitchInv, [Next]_vars PROVE ClicksAgree'
  OBVIOUS
<1> USE DEF SwitchInv
<1>1. pending \in Seq(Toggles) /\ trayMonitoring \in BOOLEAN
  BY DEF TypeOK, Toggles
<1>2. CASE UNCHANGED <<pending, trayMonitoring>>
  BY <1>1, <1>2, ClicksKept
<1>3. CASE pending # <<>> /\ pending' = Tail(pending) /\ UNCHANGED trayMonitoring
  BY <1>1, <1>3, ClicksKept
<1>4. CASE Click
  <2>1. CASE ClickFirstRow
    <3>1. [profile |-> None, target |-> ~trayMonitoring] \in Toggles
      BY DEF Toggles
    <3> QED BY <1>1, <2>1, <3>1, ClicksKept DEF ClickFirstRow
  <2>2. ASSUME NEW p \in Profiles, ClickProfile(p) PROVE ClicksAgree'
    <3>1. [profile |-> p, target |-> ~trayStatus[p].enabled] \in Toggles /\ p # None
      BY MonitorAssumption DEF Toggles
    <3> QED BY <1>1, <2>2, <3>1, ClicksKept DEF ClickProfile
  <2> QED BY <1>4, <2>1, <2>2 DEF Click
<1>5. CASE Resume
  <2>1. /\ pending # <<>> /\ Head(pending) = [profile |-> None, target |-> TRUE]
        /\ pending' = Tail(pending) /\ trayMonitoring' = TRUE
    BY <1>5 DEF Resume, TakeToggle, NextToggle
  <2>2. CASE trayMonitoring
    BY <1>1, <1>3, <2>1, <2>2
  <2>3. CASE ~trayMonitoring
    <3>1. \A i \in 1..Len(pending') :
              pending'[i].profile = None => pending'[i].target = TRUE
      BY <1>1, <2>1, <2>3, HeadChanges
    <3> QED BY <2>1, <3>1 DEF ClicksAgree
  <2> QED BY <1>1, <2>2, <2>3
<1>6. CASE Pause
  <2>1. UNCHANGED pending /\ trayMonitoring' = FALSE /\ handler = "pause"
    BY <1>6 DEF Pause
  <2>2. CASE trayMonitoring
    <3>1. NoResume'
      BY <1>1, <2>1, <2>2, NoResumeKept DEF NoIdleResume
    <3>2. pending' \in Seq(Toggles)
      BY <1>1, <2>1
    <3>3. \A t \in Toggles : t.target \in BOOLEAN
      BY DEF Toggles
    <3>4. \A i \in 1..Len(pending') : pending'[i] \in Toggles
      BY <3>2
    <3>5. \A i \in 1..Len(pending') : pending'[i].target \in BOOLEAN
      BY <3>3, <3>4
    <3> QED BY <2>1, <3>1, <3>5 DEF NoResume, ClicksAgree
  <2>3. CASE ~trayMonitoring
    BY <1>1, <1>2, <2>1, <2>3
  <2> QED BY <1>1, <2>2, <2>3
<1>7. CASE ResumeRefused \/ ResumeFails \/ BeginPause \/ PauseFails
  BY <1>3, <1>7 DEF ResumeRefused, ResumeFails, BeginPause, PauseFails, ApplyNext,
                    TakeToggle, NextToggle
<1>8. CASE \/ RollBackResume \/ RollBackResumeFails \/ PauseRefused \/ RollBackPause
           \/ RollBackPauseFails
  BY <1>2, <1>8 DEF RollBackResume, RollBackResumeFails, PauseRefused, RollBackPause,
                    RollBackPauseFails, trayVars
<1>9. ASSUME NEW p \in Profiles, NEW enabled \in BOOLEAN,
             \/ ToggleProfile(p, enabled) \/ ToggleProfileRefused(p, enabled)
             \/ RollBackProfile(p)
      PROVE  ClicksAgree'
  BY <1>2, <1>3, <1>9 DEF ToggleProfile, ToggleProfileRefused, RollBackProfile,
      ApplyNext, TakeToggle, NextToggle, TogglePending, trayVars
<1>10. CASE Heartbeat
  <2>1. CASE HostLost /\ TrayLossBehavior # "continue"
    <3>1. NoResume /\ UNCHANGED pending /\ trayMonitoring' = FALSE
      BY <2>1 DEF HostLost, PingFails, HeartbeatExpires, NoLateResume
    <3>2. NoResume'
      BY <1>1, <3>1, NoResumeKept
    <3>3. \A t \in Toggles : t.target \in BOOLEAN
      BY DEF Toggles
    <3>4. \A i \in 1..Len(pending') : pending'[i] \in Toggles
      BY <1>1, <3>1
    <3>5. \A i \in 1..Len(pending') : pending'[i].target \in BOOLEAN
      BY <3>3, <3>4
    <3> QED BY <3>1, <3>2, <3>5 DEF NoResume, ClicksAgree
  <2>2. CASE \/ HeartbeatPasses \/ HeartbeatFails
             \/ HostLost /\ TrayLossBehavior = "continue"
    BY <1>2, <2>2 DEF HeartbeatPasses, HeartbeatFails, HostLost, trayVars
  <2> QED BY <1>10, <2>1, <2>2 DEF Heartbeat
<1>11. CASE \/ OnStatusChange \/ HostFlips \/ JoinReturns \/ UNCHANGED vars
            \/ \E m \in Monitors : MonitorStep(m)
  BY <1>2, <1>11 DEF OnStatusChange, HostFlips, JoinReturns, MonitorStep, trayVars, vars
<1> QED
  BY <1>4, <1>5, <1>6, <1>7, <1>8, <1>9, <1>10, <1>11 DEF Next, Handle

LEMMA IdleStep ==
    TypeOK /\ TogglePending /\ SwitchInv /\ [Next]_vars => NoIdleResume'
<1> SUFFICES ASSUME TypeOK, TogglePending, SwitchInv, [Next]_vars PROVE NoIdleResume'
  OBVIOUS
<1> USE RunningAfter, NeverStartedAfter DEF SwitchInv, NoIdleResume
<1>1. /\ pending \in Seq(Toggles) /\ trayMonitoring \in BOOLEAN
      /\ running \in BOOLEAN /\ monitoringEnabled \in BOOLEAN
  BY DEF TypeOK, Health!TypeOK, Toggles
<1>2. NoResume /\ (UNCHANGED pending \/ (pending # <<>> /\ pending' = Tail(pending)))
      => NoResume'
  BY <1>1, NoResumeKept
<1>3. CASE Click
  <2>1. /\ UNCHANGED <<running, trayMonitoring, handler>> /\ handler = "none"
        /\ Health!NeverStarted' <=> Health!NeverStarted
    BY <1>3 DEF Click, ClickFirstRow, ClickProfile, EventLoop, appVars
  <2>2. SUFFICES ASSUME NoResume, trayMonitoring PROVE NoResume'
    BY <1>1, <2>1 DEF Agreement
  <2>3. CASE ClickFirstRow
    <3>1. [profile |-> None, target |-> ~trayMonitoring] \in Toggles
      BY DEF Toggles
    <3> QED BY <1>1, <2>2, <2>3, <3>1, NoResumeKept DEF ClickFirstRow
  <2>4. ASSUME NEW p \in Profiles, ClickProfile(p) PROVE NoResume'
    <3>1. [profile |-> p, target |-> ~trayStatus[p].enabled] \in Toggles /\ p # None
      BY MonitorAssumption DEF Toggles
    <3> QED BY <1>1, <2>2, <2>4, <3>1, NoResumeKept DEF ClickProfile
  <2> QED BY <1>3, <2>3, <2>4 DEF Click
<1>4. CASE Resume \/ ResumeRefused
  <2>1. /\ handler = "none" /\ pending # <<>> /\ pending' = Tail(pending)
        /\ handler' \notin {"pause", "roll_back_pause"}
    BY <1>4 DEF Resume, ResumeRefused, RollsBack, TakeToggle, NextToggle, EventLoop
  <2>2. CASE Health!Start
    BY <2>1, <2>2
  <2>3. CASE running /\ UNCHANGED healthVars
    BY <1>2, <2>1, <2>3
  <2> QED BY <1>4, <2>2, <2>3 DEF Resume, ResumeRefused, StartMonitor
<1>5. CASE ResumeFails
  BY <1>1, <1>5 DEF ResumeFails, RollsBack, ApplyNext, TakeToggle, NextToggle, EventLoop,
                    Agreement
<1>6. CASE BeginPause \/ PauseFails
  <2>1. /\ ~running' /\ pending # <<>> /\ pending' = Tail(pending)
        /\ Head(pending) = [profile |-> None, target |-> FALSE]
        /\ UNCHANGED trayMonitoring
    BY <1>6 DEF BeginPause, PauseFails, ApplyNext, TakeToggle, NextToggle
  <2>2. trayMonitoring => NoResume'
    BY <1>1, <2>1, HeadChanges DEF NoResume
  <2> QED BY <2>1, <2>2
<1>7. CASE RollBackResume \/ RollBackResumeFails \/ Pause \/ RollBackPause
  <2>1. CASE RollBackResume \/ RollBackResumeFails
    BY <2>1 DEF RollBackResume, RollBackResumeFails
  <2>2. CASE Pause
    BY <2>2 DEF Pause, Agreement
  <2>3. CASE RollBackPause
    BY <2>3 DEF RollBackPause
  <2> QED BY <1>7, <2>1, <2>2, <2>3
<1>8. CASE PauseRefused
  <2>1. ~running' /\ UNCHANGED <<pending, trayMonitoring>> /\ handler = "pause"
    BY <1>8 DEF PauseRefused, Agreement, trayVars
  <2> QED BY <1>2, <2>1
<1>9. CASE RollBackPauseFails
  <2>1. UNCHANGED <<pending, trayMonitoring>> /\ handler = "roll_back_pause"
        /\ handler' = "none"
    BY <1>9 DEF RollBackPauseFails, trayVars
  <2>2. NoResume
    BY <2>1 DEF Agreement
  <2> QED BY <1>2, <2>1, <2>2
<1>10. ASSUME NEW p \in Profiles, NEW enabled \in BOOLEAN,
              \/ ToggleProfile(p, enabled) \/ ToggleProfileRefused(p, enabled)
              \/ RollBackProfile(p)
       PROVE  NoIdleResume'
  <2>1. UNCHANGED running /\ (Health!NeverStarted' <=> Health!NeverStarted)
    BY <1>10 DEF ToggleProfile, ToggleProfileRefused, RollBackProfile
  <2>2. /\ UNCHANGED pending \/ (pending # <<>> /\ pending' = Tail(pending))
        /\ handler \in {"none", "roll_back_profile"}
        /\ handler' \in {"none", "roll_back_profile"}
    BY <1>10 DEF ToggleProfile, ToggleProfileRefused, RollBackProfile, ApplyNext,
        TakeToggle, NextToggle, EventLoop, TogglePending, trayVars
  <2> QED BY <1>2, <2>1, <2>2
<1>11. CASE Heartbeat
  <2>1. /\ UNCHANGED <<pending, handler>> /\ handler = "none"
        /\ running' => running
        /\ Health!NeverStarted' <=> Health!NeverStarted
    BY <1>11
    DEF Heartbeat, HeartbeatPasses, HeartbeatFails, HostLost, PingSucceeds, PingFails,
        HeartbeatExpires, EventLoop, appVars, trayVars
  <2> QED BY <1>2, <2>1
<1>12. CASE \/ OnStatusChange \/ HostFlips \/ JoinReturns \/ UNCHANGED vars
            \/ \E m \in Monitors : MonitorStep(m)
  <2>1. UNCHANGED <<pending, handler, trayMonitoring>>
    BY <1>12 DEF OnStatusChange, HostFlips, JoinReturns, MonitorStep, appVars, trayVars,
                 vars
  <2>2. UNCHANGED running /\ (Health!NeverStarted' <=> Health!NeverStarted)
    BY <1>12 DEF OnStatusChange, HostFlips, JoinReturns, MonitorStep, vars
  <2> QED BY <1>2, <2>1, <2>2
<1> QED
  BY <1>3, <1>4, <1>5, <1>6, <1>7, <1>8, <1>9, <1>10, <1>11, <1>12 DEF Next, Handle

LEMMA LateStep ==
    TypeOK /\ TogglePending /\ SwitchInv /\ [Next]_vars => NoLateResume'
<1> SUFFICES ASSUME TypeOK, TogglePending, SwitchInv, [Next]_vars PROVE NoLateResume'
  OBVIOUS
<1> USE DEF SwitchInv, NoLateResume
<1>1. pending \in Seq(Toggles)
  BY DEF TypeOK, Toggles
<1>2. NoResume /\ (UNCHANGED pending \/ (pending # <<>> /\ pending' = Tail(pending)))
      => NoResume'
  BY <1>1, NoResumeKept
<1>3. pending' = <<>> => NoResume'
  BY DEF NoResume
<1>4. CASE Click
  <2>1. UNCHANGED <<hostTimer, heartbeatDue>> /\ handler = "none"
    BY <1>4 DEF Click, ClickFirstRow, ClickProfile, EventLoop, hostVars
  <2>2. hostTimer => trayMonitoring
    BY <2>1 DEF Agreement
  <2>3. SUFFICES ASSUME NoResume, trayMonitoring PROVE NoResume'
    BY <2>1, <2>2
  <2>4. CASE ClickFirstRow
    <3>1. [profile |-> None, target |-> ~trayMonitoring] \in Toggles
      BY DEF Toggles
    <3> QED BY <1>1, <2>3, <2>4, <3>1, NoResumeKept DEF ClickFirstRow
  <2>5. ASSUME NEW p \in Profiles, ClickProfile(p) PROVE NoResume'
    <3>1. [profile |-> p, target |-> ~trayStatus[p].enabled] \in Toggles /\ p # None
      BY MonitorAssumption DEF Toggles
    <3> QED BY <1>1, <2>3, <2>5, <3>1, NoResumeKept DEF ClickProfile
  <2> QED BY <1>4, <2>4, <2>5 DEF Click
<1>5. CASE Resume \/ ResumeRefused \/ RollBackPause
  <2>1. heartbeatDue' => pending' = <<>>
    BY <1>5 DEF Resume, ResumeRefused, RollBackPause, StartTimer
  <2> QED BY <1>3, <2>1
<1>6. CASE RollBackResume \/ Pause \/ PauseRefused
  BY <1>6 DEF RollBackResume, Pause, PauseRefused
<1>7. CASE ResumeFails \/ BeginPause \/ PauseFails
  <2>1. /\ UNCHANGED hostTimer /\ heartbeatDue' = (heartbeatDue \/ pending' = <<>>)
        /\ pending # <<>> /\ pending' = Tail(pending)
    BY <1>7 DEF ResumeFails, BeginPause, PauseFails, ApplyNext, TakeToggle, NextToggle
  <2> QED BY <1>2, <1>3, <2>1
<1>8. CASE RollBackResumeFails \/ RollBackPauseFails
  BY <1>2, <1>8 DEF RollBackResumeFails, RollBackPauseFails, hostVars, trayVars
<1>9. ASSUME NEW p \in Profiles, NEW enabled \in BOOLEAN,
             \/ ToggleProfile(p, enabled) \/ ToggleProfileRefused(p, enabled)
             \/ RollBackProfile(p)
      PROVE  NoLateResume'
  <2>1. CASE ToggleProfileRefused(p, enabled)
    BY <1>2, <2>1 DEF ToggleProfileRefused, hostVars, trayVars
  <2>2. CASE ToggleProfile(p, enabled) \/ RollBackProfile(p)
    <3>1. /\ UNCHANGED hostTimer /\ heartbeatDue' = (heartbeatDue \/ pending' = <<>>)
          /\ pending # <<>> /\ pending' = Tail(pending)
      BY <2>2 DEF ToggleProfile, RollBackProfile, ApplyNext, TakeToggle, NextToggle,
                  TogglePending
    <3> QED BY <1>2, <1>3, <3>1
  <2> QED BY <1>9, <2>1, <2>2
<1>10. CASE Heartbeat
  <2>1. hostTimer /\ heartbeatDue /\ UNCHANGED pending
    BY <1>10 DEF Heartbeat, HeartbeatPasses, HeartbeatFails, HostLost, PingSucceeds,
                 PingFails, HeartbeatExpires, trayVars
  <2> QED BY <1>2, <2>1
<1>11. CASE \/ OnStatusChange \/ HostFlips \/ JoinReturns \/ UNCHANGED vars
            \/ \E m \in Monitors : MonitorStep(m)
  BY <1>2, <1>11 DEF OnStatusChange, HostFlips, JoinReturns, MonitorStep, hostVars,
                     trayVars, vars
<1> QED
  BY <1>4, <1>5, <1>6, <1>7, <1>8, <1>9, <1>10, <1>11 DEF Next, Handle

LEMMA SwitchInvariance == Spec => []SwitchInv
<1>1. Init => SwitchInv
  BY MonitorAssumption
  DEF Init, SwitchInv, Agreement, ClicksAgree, NoIdleResume, NoLateResume, NoResume,
      Health!NeverStarted
<1>2. TypeOK /\ TogglePending /\ SwitchInv /\ [Next]_vars => SwitchInv'
  BY AgreementStep, ClicksStep, IdleStep, LateStep DEF SwitchInv
<1> QED BY <1>1, <1>2, TypeInvariance, PTL DEF Spec

\* Whenever the event loop is free, the monitor, the app, the menu and the
\* heartbeat agree on whether monitoring is on; a thread that could not be
\* started leaves the heartbeat's timer off, and nothing else.
THEOREM MonitoringIsAgreed == Spec => []MonitoringAgrees
<1>1. TypeOK /\ SwitchInv => MonitoringAgrees
  <2> SUFFICES ASSUME TypeOK, SwitchInv PROVE MonitoringAgrees
    OBVIOUS
  <2>1. hostTimer \in BOOLEAN
    BY DEF TypeOK
  <2> QED BY <2>1 DEF SwitchInv, Agreement, MonitoringAgrees, EventLoop
<1> QED BY <1>1, TypeInvariance, SwitchInvariance, PTL

-----------------------------------------------------------------------------
(* The loss of the tray host.                                               *)

\* HostLossPauses is not inductive: a resume that was posted before the loss
\* would start the monitor again.  There is none, and none can be posted while
\* the first row shows the error.
LossIsFinal ==
    globalError /\ TrayLossBehavior = "pause" =>
        /\ ~running
        /\ ~monitoringEnabled
        /\ ~trayMonitoring
        /\ ~hostTimer
        /\ handler # "roll_back_resume"
        /\ NoResume

LEMMA LossStep ==
    TypeOK /\ TogglePending /\ SwitchInv /\ LossIsFinal /\ [Next]_vars => LossIsFinal'
<1> SUFFICES ASSUME TypeOK, TogglePending, SwitchInv, LossIsFinal, [Next]_vars
             PROVE  LossIsFinal'
  OBVIOUS
<1> USE DEF SwitchInv, LossIsFinal
<1>1. pending \in Seq(Toggles)
  BY DEF TypeOK, Toggles
<1>2. NoResume /\ (UNCHANGED pending \/ (pending # <<>> /\ pending' = Tail(pending)))
      => NoResume'
  BY <1>1, NoResumeKept
<1>3. CASE Click
  <2>1. UNCHANGED <<running, monitoringEnabled, trayMonitoring, hostTimer, handler,
                    globalError>>
    BY <1>3, RunningAfter
    DEF Click, ClickFirstRow, ClickProfile, appVars, hostVars
  <2>2. CASE ClickFirstRow
    BY <2>1, <2>2 DEF ClickFirstRow
  <2>3. ASSUME NEW p \in Profiles, ClickProfile(p) PROVE LossIsFinal'
    <3>1. [profile |-> p, target |-> ~trayStatus[p].enabled] \in Toggles /\ p # None
      BY MonitorAssumption DEF Toggles
    <3>2. NoResume => NoResume'
      BY <1>1, <2>3, <3>1, NoResumeKept DEF ClickProfile
    <3> QED BY <2>1, <3>2
  <2> QED BY <1>3, <2>2, <2>3 DEF Click
<1>4. CASE Resume \/ ResumeRefused \/ ResumeFails
  <2>1. ~NoResume
    BY <1>1, <1>4, HeadIsResume
    DEF Resume, ResumeRefused, ResumeFails, ApplyNext, TakeToggle, NextToggle
  <2>2. globalError' = globalError
    BY <1>4 DEF Resume, ResumeRefused, ResumeFails
  <2> QED BY <2>1, <2>2
<1>5. CASE \/ RollBackResume \/ RollBackResumeFails \/ RollBackPause
           \/ RollBackPauseFails
  <2>1. globalError' = globalError
        /\ handler \in {"roll_back_resume", "roll_back_pause"}
    BY <1>5 DEF RollBackResume, RollBackResumeFails, RollBackPause, RollBackPauseFails,
                trayVars
  <2> QED BY <2>1 DEF Agreement
<1>6. CASE Pause \/ PauseRefused
  <2>1. UNCHANGED <<running, pending, globalError>> /\ ~hostTimer'
        /\ handler' # "roll_back_resume"
    BY <1>6, RunningAfter DEF Pause, PauseRefused, RollsBack, trayVars
  <2>2. (monitoringEnabled' => monitoringEnabled) /\ (trayMonitoring' => trayMonitoring)
    <3>1. CASE Pause
      BY <3>1 DEF Pause
    <3>2. CASE PauseRefused
      BY <3>2 DEF PauseRefused, trayVars
    <3> QED BY <1>6, <3>1, <3>2
  <2> QED BY <1>2, <2>1, <2>2
<1>7. CASE BeginPause \/ PauseFails
  <2>1. /\ pending # <<>> /\ pending' = Tail(pending) /\ ~running'
        /\ UNCHANGED <<globalError, monitoringEnabled, trayMonitoring, hostTimer>>
        /\ handler' # "roll_back_resume"
    BY <1>7, RunningAfter
    DEF BeginPause, PauseFails, RollsBack, ApplyNext, TakeToggle, NextToggle
  <2> QED BY <1>2, <2>1
<1>8. ASSUME NEW p \in Profiles, NEW enabled \in BOOLEAN,
             \/ ToggleProfile(p, enabled) \/ ToggleProfileRefused(p, enabled)
             \/ RollBackProfile(p)
      PROVE  LossIsFinal'
  <2>1. UNCHANGED running /\ handler' # "roll_back_resume"
    BY <1>8, RunningAfter
    DEF ToggleProfile, ToggleProfileRefused, RollBackProfile, ApplyNext, TakeToggle,
        NextToggle, EventLoop
  <2>2. UNCHANGED <<globalError, monitoringEnabled, trayMonitoring, hostTimer>>
    BY <1>8 DEF ToggleProfile, ToggleProfileRefused, RollBackProfile, hostVars, trayVars
  <2>3. UNCHANGED pending \/ (pending # <<>> /\ pending' = Tail(pending))
    BY <1>8 DEF ToggleProfile, ToggleProfileRefused, RollBackProfile, ApplyNext,
                TakeToggle, NextToggle, TogglePending, trayVars
  <2> QED BY <1>2, <2>1, <2>2, <2>3
<1>9. CASE Heartbeat
  <2>1. hostTimer /\ heartbeatDue /\ handler = "none" /\ NoResume
        /\ UNCHANGED <<pending, handler>>
    BY <1>9
    DEF Heartbeat, HeartbeatPasses, HeartbeatFails, HostLost, PingSucceeds, PingFails,
        HeartbeatExpires, EventLoop, NoLateResume, appVars, trayVars
  <2>2. globalError' /\ TrayLossBehavior = "pause" =>
            ~running' /\ ~monitoringEnabled' /\ ~trayMonitoring' /\ ~hostTimer'
    BY <1>9, <2>1, RunningAfter
    DEF Heartbeat, HeartbeatPasses, HeartbeatFails, HostLost, appVars, trayVars
  <2> QED BY <1>2, <2>1, <2>2
<1>10. CASE \/ OnStatusChange \/ HostFlips \/ JoinReturns \/ UNCHANGED vars
            \/ \E m \in Monitors : MonitorStep(m)
  <2>1. UNCHANGED <<running, monitoringEnabled, trayMonitoring, hostTimer, handler,
                    globalError, pending>>
    BY <1>10, RunningAfter
    DEF OnStatusChange, HostFlips, JoinReturns, MonitorStep, appVars, hostVars,
        trayVars, vars
  <2> QED BY <1>2, <2>1
<1> QED
  BY <1>3, <1>4, <1>5, <1>6, <1>7, <1>8, <1>9, <1>10 DEF Next, Handle

\* Losing the tray host in "pause" mode stops the checks for good, whatever
\* toggles were posted at that moment.
THEOREM HostLossIsFinal == Spec => []HostLossPauses
<1>1. Init => LossIsFinal
  BY DEF Init, LossIsFinal
<1>2. LossIsFinal => HostLossPauses
  BY DEF LossIsFinal, HostLossPauses
<1> QED BY <1>1, <1>2, TypeInvariance, SwitchInvariance, LossStep, PTL DEF Spec

-----------------------------------------------------------------------------
(* What the rows show.                                                      *)

LEMMA ShownStep == TypeOK /\ TrayShowsStatus /\ [Next]_vars => TrayShowsStatus'
<1> SUFFICES ASSUME TypeOK, TrayShowsStatus, [Next]_vars PROVE TrayShowsStatus'
  OBVIOUS
<1> USE DEF TrayShowsStatus
<1>1. ASSUME NEW p \in Profiles, NEW enabled \in BOOLEAN, ToggleProfile(p, enabled)
      PROVE  TrayShowsStatus'
  BY <1>1 DEF ToggleProfile
<1>2. CASE OnStatusChange
  BY <1>2 DEF OnStatusChange, UpdateProfile
<1> QED BY <1>1, <1>2, StatusStep

\* The menu shows the status the application keeps, after every toggle, every
\* result and every rollback.
THEOREM TrayShows == Spec => []TrayShowsStatus
<1>1. Init => TrayShowsStatus
  BY DEF Init, TrayShowsStatus
<1> QED BY <1>1, TypeInvariance, ShownStep, PTL DEF Spec

\* Only a delivered "active" takes a profile out of the error.
LEMMA ErrorStep ==
    ASSUME TypeOK, [Next]_vars, NEW p \in Profiles,
           profileStatus[p].state = "error", profileStatus'[p].state # "error"
    PROVE  Head(statusQueue) = [profile |-> p, result |-> "active"]
<1>1. profileStatus \in [Profiles -> Statuses]
  BY DEF TypeOK
<1>2. ASSUME NEW q \in Profiles, NEW enabled \in BOOLEAN, ToggleProfile(q, enabled)
      PROVE  FALSE
  <2>1. Toggled(profileStatus[p], enabled).state = "error"
    BY DEF Toggled
  <2>2. profileStatus'[p] \in {profileStatus[p], Toggled(profileStatus[p], enabled)}
    BY <1>1, <1>2 DEF ToggleProfile
  <2> QED BY <2>1, <2>2
<1>3. CASE OnStatusChange
  <2> DEFINE h == Head(statusQueue)
  <2>1. statusQueue # <<>>
    BY <1>3, SameMonitor DEF OnStatusChange, Monitoring!Deliver
  <2>2. h \in [profile : Profiles, result : Results]
    BY <2>1, HeadType
  <2>3. profileStatus' = [profileStatus EXCEPT ![h.profile] = NewStatus(h.profile, h.result)]
    BY <1>3 DEF OnStatusChange
  <2>4. h.profile = p
    BY <1>1, <2>2, <2>3
  <2>5. profileStatus'[p] = NewStatus(p, h.result)
    BY <1>1, <2>3, <2>4
  <2>6. h.result = "active"
    BY <2>5 DEF NewStatus
  <2> QED BY <2>2, <2>4, <2>6
<1> QED BY <1>2, <1>3, StatusStep

\* Pauses, resumes, rollbacks, late results and the loss of the tray host keep
\* a profile's error; the explicit success of a check ends it.
THEOREM ErrorIsSticky == Spec => StickyError
<1>1. TypeOK /\ [Next]_vars
      => [\A p \in Profiles :
             profileStatus[p].state = "error" /\ profileStatus'[p].state # "error"
             => Head(statusQueue) = [profile |-> p, result |-> "active"]]_vars
  BY ErrorStep
<1> QED BY <1>1, TypeInvariance, PTL DEF Spec, StickyError

-----------------------------------------------------------------------------
(* Pauses of single profiles.                                               *)

\* PauseAgrees holds while every write succeeds.  It is true of each step then,
\* and what it relies on is that no rollback is under way.
PausesInStep ==
    ~WriteMayFail =>
        /\ handler # "roll_back_profile"
        /\ \A p \in Profiles :
              /\ p \in pausedProfiles <=> ~profileStatus[p].enabled
              /\ p \in pausedProfiles <=> p \in savedPaused

\* Only a toggle of a profile changes what the monitor skips.
LEMMA PausedAfter ==
    /\ StartMonitor => UNCHANGED pausedProfiles
    /\ Health!Start \/ Health!StartFails => UNCHANGED pausedProfiles
    /\ Health!Stop \/ Health!StopRaises => UNCHANGED pausedProfiles
    /\ Health!Deliver => UNCHANGED pausedProfiles
    /\ Health!JoinReturns => UNCHANGED pausedProfiles
    /\ \A m \in Monitors : Health!Monitor(m) => UNCHANGED pausedProfiles
    /\ \A p, enabled :
          Health!SetProfileMonitoringEnabled(p, enabled)
          => pausedProfiles' = IF enabled THEN pausedProfiles \ {p}
                                          ELSE pausedProfiles \cup {p}
    /\ UNCHANGED healthVars => UNCHANGED pausedProfiles
BY DEF StartMonitor, Health!Start, Health!StartFails, Health!Stop, Health!StopRaises,
       Health!Deliver, Health!JoinReturns,
       Health!SetProfileMonitoringEnabled, Health!Monitor, Health!LoopContinue,
       Health!LoopExit, Health!SkipPaused, Health!StartCheck, Health!CheckReturns,
       Health!EmitStatus, Health!PassDone, Health!Wake, healthVars

LEMMA PauseStep == TypeOK /\ PausesInStep /\ [Next]_vars => PausesInStep'
<1> SUFFICES ASSUME TypeOK, PausesInStep, [Next]_vars, ~WriteMayFail PROVE PausesInStep'
  BY DEF PausesInStep
<1> USE DEF PausesInStep
<1>1. profileStatus \in [Profiles -> Statuses]
  BY DEF TypeOK
<1>2. ASSUME NEW p \in Profiles, NEW enabled \in BOOLEAN, ToggleProfile(p, enabled)
      PROVE  PausesInStep'
  <2>1. /\ pausedProfiles' = IF enabled THEN pausedProfiles \ {p}
                                        ELSE pausedProfiles \cup {p}
        /\ savedPaused' = IF enabled THEN savedPaused \ {p} ELSE savedPaused \cup {p}
        /\ profileStatus' = [profileStatus EXCEPT ![p] = Toggled(@, enabled)]
        /\ UNCHANGED handler
    BY <1>2, PausedAfter DEF ToggleProfile, SavePause
  <2>2. ASSUME NEW q \in Profiles
        PROVE  /\ q = p => profileStatus'[q].enabled = enabled
               /\ q # p => profileStatus'[q] = profileStatus[q]
    BY <1>1, <2>1 DEF Toggled
  <2> QED BY <2>1, <2>2
<1>3. CASE OnStatusChange
  <2> DEFINE h == Head(statusQueue)
  <2>1. statusQueue # <<>>
    BY <1>3, SameMonitor DEF OnStatusChange, Monitoring!Deliver
  <2>2. h.profile \in Profiles
    BY <2>1, HeadType
  <2>3. /\ profileStatus' = [profileStatus EXCEPT ![h.profile] = NewStatus(h.profile, h.result)]
        /\ UNCHANGED <<pausedProfiles, savedPaused, handler>>
    BY <1>3, PausedAfter DEF OnStatusChange
  <2>4. NewStatus(h.profile, h.result).enabled
            \in {profileStatus[h.profile].enabled, h.profile \notin savedPaused}
    BY DEF NewStatus
  <2>5. ASSUME NEW q \in Profiles
        PROVE  /\ q = h.profile => profileStatus'[q] = NewStatus(h.profile, h.result)
               /\ q # h.profile => profileStatus'[q] = profileStatus[q]
    BY <1>1, <2>3
  <2> QED BY <2>2, <2>3, <2>4, <2>5
<1>4. CASE \/ Resume \/ BeginPause \/ Pause \/ JoinReturns \/ HostFlips \/ Heartbeat
           \/ Click \/ UNCHANGED vars
  <2>1. UNCHANGED <<pausedProfiles, savedPaused, profileStatus>>
    BY <1>4, PausedAfter
    DEF Resume, BeginPause, Pause, JoinReturns, HostFlips, Heartbeat, HeartbeatPasses,
        HeartbeatFails, HostLost, Click, ClickFirstRow, ClickProfile, appVars, vars
  <2>2. handler' \in {handler, "pause", "none"}
    BY <1>4
    DEF Resume, BeginPause, Pause, JoinReturns, HostFlips, Heartbeat, HeartbeatPasses,
        HeartbeatFails, HostLost, Click, ClickFirstRow, ClickProfile, appVars, vars
  <2> QED BY <2>1, <2>2
<1>7. CASE \/ ResumeFails \/ RollBackResume \/ RollBackResumeFails \/ PauseFails
           \/ RollBackPause \/ RollBackPauseFails
  <2>1. UNCHANGED <<pausedProfiles, savedPaused, profileStatus>>
    BY <1>7, PausedAfter
    DEF ResumeFails, RollBackResume, RollBackResumeFails, PauseFails, RollBackPause,
        RollBackPauseFails
  <2>2. handler' # "roll_back_profile"
    BY <1>7
    DEF ResumeFails, RollBackResume, RollBackResumeFails, PauseFails, RollBackPause,
        RollBackPauseFails, RollsBack
  <2> QED BY <2>1, <2>2
<1>5. ASSUME NEW m \in Monitors, MonitorStep(m) PROVE PausesInStep'
  BY <1>5, PausedAfter DEF MonitorStep, appVars
<1>6. /\ ~ResumeRefused /\ ~PauseRefused
      /\ \A p \in Profiles, enabled \in BOOLEAN : ~ToggleProfileRefused(p, enabled)
      /\ \A p \in Profiles : ~RollBackProfile(p)
  BY DEF ResumeRefused, PauseRefused, ToggleProfileRefused, RollBackProfile
<1> QED BY <1>2, <1>3, <1>4, <1>5, <1>6, <1>7 DEF Next, Handle

\* While writes succeed, the monitor skips exactly the profiles that are shown
\* and saved as paused, whatever results are still on their way.
THEOREM PausesAgree == Spec => [](~WriteMayFail => PauseAgrees)
<1>1. Init => PausesInStep
  <2> SUFFICES ASSUME Init PROVE PausesInStep
    OBVIOUS
  <2>1. \A p \in Profiles : profileStatus[p].enabled = (p \notin savedPaused)
    BY DEF Init
  <2> QED BY <2>1 DEF Init, PausesInStep
<1>2. PausesInStep => (~WriteMayFail => PauseAgrees)
  BY DEF PausesInStep, PauseAgrees
<1> QED BY <1>1, <1>2, TypeInvariance, PauseStep, PTL DEF Spec
=============================================================================
