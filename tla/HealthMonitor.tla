---------------------------- MODULE HealthMonitor ----------------------------
(***************************************************************************)
(* HealthOperator (aws_sso_autologin/operator.py): the thread that checks  *)
(* every profile, and the start, stop and pause calls the GUI thread makes *)
(* on it.  stop() clears _running and joins the thread for 5 seconds only, *)
(* while one check may take 10 seconds and more, and the thread looks at   *)
(* _running only between two passes over the profiles.                     *)
(*                                                                         *)
(* The outcome of a check is arbitrary: "active", "expired" (an explicit   *)
(* expiry, which asks the login operator for a login), "determinate"       *)
(* (permission denied, check error) or "indeterminate" (timeout, other).   *)
(* Results go to the GUI thread through a queued Qt signal, in order.      *)
(***************************************************************************)
EXTENDS Naturals, Sequences

CONSTANTS
    ProfileList,   \* _profiles: the profiles in the order they are checked
    Monitors,      \* identities of monitor threads (bounds the live ones)
    Results,       \* the check outcomes considered
    MaxQueue,      \* bound on the undelivered results
    ThreadStartMayFail,   \* TRUE: Thread.start() may raise
    None

Profiles == {ProfileList[i] : i \in DOMAIN ProfileList}

ASSUME HealthAssumption ==
    /\ ProfileList \in Seq(Profiles)
    /\ Results \subseteq {"active", "expired", "determinate", "indeterminate"}
    /\ MaxQueue \in Nat \ {0}
    /\ ThreadStartMayFail \in BOOLEAN
    /\ None \notin Monitors

VARIABLES
    running,          \* _running
    pausedProfiles,   \* _paused_profiles
    monitorThread,    \* _monitor_thread: the last thread created
    gui,              \* "idle", or "joining" inside stop()
    mpc,              \* where each monitor thread is; "created" if its start failed
    next,             \* the index it has reached in _profiles
    result,           \* the outcome of its last check
    statusQueue,      \* results emitted, not yet delivered to the GUI thread
    checksAfterStop   \* history: checks begun since the last stop() while stopped

threadVars == <<mpc, next, result>>
vars == <<running, pausedProfiles, monitorThread, gui, threadVars,
          statusQueue, checksAfterStop>>

Init ==
    /\ running = FALSE
    /\ pausedProfiles \in SUBSET Profiles
    /\ monitorThread = None
    /\ gui = "idle"
    /\ mpc = [m \in Monitors |-> "none"]
    /\ next = [m \in Monitors |-> 1]
    /\ result = [m \in Monitors |-> None]
    /\ statusQueue = <<>>
    /\ checksAfterStop = [m \in Monitors |-> 0]

-----------------------------------------------------------------------------
(* The GUI thread.                                                          *)

\* Mutant: start() creates a thread only if there never was one.
Start_ReusesThread ==
    /\ gui = "idle"
    /\ ~running
    /\ running' = TRUE
    /\ IF monitorThread # None
       THEN UNCHANGED <<monitorThread, mpc>>
       ELSE \E m \in Monitors : /\ mpc[m] = "none"
                                /\ mpc' = [mpc EXCEPT ![m] = "loop"]
                                /\ monitorThread' = m
    /\ UNCHANGED <<pausedProfiles, gui, next, result, statusQueue, checksAfterStop>>

\* A new thread takes the place of one that was never started.
NewThread(m, state) ==
    /\ mpc[m] \in {"none", "created"}
    /\ monitorThread' = m
    /\ mpc' = [n \in Monitors |->
                  IF n = m THEN state
                  ELSE IF mpc[n] = "created" THEN "none" ELSE mpc[n]]

\* start() returns at once if _running is set.
Start ==
    /\ gui = "idle"
    /\ ~running
    /\ running' = TRUE
    /\ \E m \in Monitors : NewThread(m, "loop")
    /\ UNCHANGED <<pausedProfiles, gui, next, result, statusQueue, checksAfterStop>>

\* Thread.start() raises out of start(), which has set _running already.
StartFails ==
    /\ ThreadStartMayFail
    /\ gui = "idle"
    /\ ~running
    /\ running' = TRUE
    /\ \E m \in Monitors : NewThread(m, "created")
    /\ UNCHANGED <<pausedProfiles, gui, next, result, statusQueue, checksAfterStop>>

NeverStarted == monitorThread # None /\ mpc[monitorThread] = "created"

Stop ==
    /\ gui = "idle"
    /\ ~NeverStarted
    /\ running' = FALSE
    /\ gui' = IF monitorThread = None THEN "idle" ELSE "joining"
    /\ checksAfterStop' = [m \in Monitors |-> 0]
    /\ UNCHANGED <<pausedProfiles, monitorThread, threadVars, statusQueue>>

\* join() of a thread that was never started raises out of stop().
StopRaises ==
    /\ gui = "idle"
    /\ NeverStarted
    /\ running' = FALSE
    /\ checksAfterStop' = [m \in Monitors |-> 0]
    /\ UNCHANGED <<pausedProfiles, monitorThread, gui, threadVars, statusQueue>>

InPass(m) == mpc[m] \in {"check", "sts", "emit"}

\* join(timeout=5): the thread ended, or it is inside a pass and took longer
\* than 5 seconds.  A sleeping thread looks at _running every second.
JoinReturns ==
    /\ gui = "joining"
    /\ mpc[monitorThread] = "none" \/ InPass(monitorThread)
    /\ gui' = "idle"
    /\ UNCHANGED <<running, pausedProfiles, monitorThread, threadVars,
                   statusQueue, checksAfterStop>>

SetProfileMonitoringEnabled(p, enabled) ==
    /\ gui = "idle"
    /\ pausedProfiles' = IF enabled THEN pausedProfiles \ {p}
                                    ELSE pausedProfiles \cup {p}
    /\ UNCHANGED <<running, monitorThread, gui, threadVars, statusQueue,
                   checksAfterStop>>

\* The Qt event loop hands the oldest result to the status slot.
Deliver ==
    /\ gui = "idle"
    /\ statusQueue # <<>>
    /\ statusQueue' = Tail(statusQueue)
    /\ UNCHANGED <<running, pausedProfiles, monitorThread, gui, threadVars,
                   checksAfterStop>>

-----------------------------------------------------------------------------
(* A monitor thread.                                                        *)

\* Mutant: the loop condition is not evaluated again.
LoopContinue_Unguarded(m) ==
    /\ mpc[m] = "loop"
    /\ mpc' = [mpc EXCEPT ![m] = "check"]
    /\ UNCHANGED <<running, pausedProfiles, monitorThread, gui, next, result,
                   statusQueue, checksAfterStop>>

LoopContinue(m) ==
    /\ mpc[m] = "loop"
    /\ running
    /\ mpc' = [mpc EXCEPT ![m] = "check"]
    /\ UNCHANGED <<running, pausedProfiles, monitorThread, gui, next, result,
                   statusQueue, checksAfterStop>>

LoopExit(m) ==
    /\ mpc[m] = "loop"
    /\ ~running
    /\ mpc' = [mpc EXCEPT ![m] = "none"]
    /\ UNCHANGED <<running, pausedProfiles, monitorThread, gui, next, result,
                   statusQueue, checksAfterStop>>

\* Mutant: a paused profile ends the pass (break for continue).
SkipPaused_EndsPass(m) ==
    /\ mpc[m] = "check"
    /\ next[m] <= Len(ProfileList)
    /\ ProfileList[next[m]] \in pausedProfiles
    /\ mpc' = [mpc EXCEPT ![m] = "sleep"]
    /\ UNCHANGED <<running, pausedProfiles, monitorThread, gui, next, result,
                   statusQueue, checksAfterStop>>

SkipPaused(m) ==
    /\ mpc[m] = "check"
    /\ next[m] <= Len(ProfileList)
    /\ ProfileList[next[m]] \in pausedProfiles
    /\ next' = [next EXCEPT ![m] = @ + 1]
    /\ UNCHANGED <<running, pausedProfiles, monitorThread, gui, mpc, result,
                   statusQueue, checksAfterStop>>

StartCheck(m) ==
    /\ mpc[m] = "check"
    /\ next[m] <= Len(ProfileList)
    /\ ProfileList[next[m]] \notin pausedProfiles
    /\ mpc' = [mpc EXCEPT ![m] = "sts"]
    /\ checksAfterStop' = [checksAfterStop EXCEPT ![m] = IF running THEN @ ELSE @ + 1]
    /\ UNCHANGED <<running, pausedProfiles, monitorThread, gui, next, result,
                   statusQueue>>

\* Mutant: an exception in the check is swallowed without a fallback result.
CheckReturns_NoFallback(m, r) ==
    /\ mpc[m] = "sts"
    /\ mpc' = [mpc EXCEPT ![m] = "emit"]
    /\ result' = [result EXCEPT ![m] = IF r = "determinate" THEN None ELSE r]
    /\ UNCHANGED <<running, pausedProfiles, monitorThread, gui, next,
                   statusQueue, checksAfterStop>>

\* get_session_info returns, and check_and_renew_with_info asks for a login
\* if the outcome is "expired".  An exception becomes "determinate".
CheckReturns(m, r) ==
    /\ mpc[m] = "sts"
    /\ mpc' = [mpc EXCEPT ![m] = "emit"]
    /\ result' = [result EXCEPT ![m] = r]
    /\ UNCHANGED <<running, pausedProfiles, monitorThread, gui, next,
                   statusQueue, checksAfterStop>>

EmitStatus(m) ==
    /\ mpc[m] = "emit"
    /\ Len(statusQueue) < MaxQueue
    /\ statusQueue' = Append(statusQueue,
                             [profile |-> ProfileList[next[m]], result |-> result[m]])
    /\ mpc' = [mpc EXCEPT ![m] = "check"]
    /\ next' = [next EXCEPT ![m] = @ + 1]
    /\ result' = [result EXCEPT ![m] = None]
    /\ UNCHANGED <<running, pausedProfiles, monitorThread, gui, checksAfterStop>>

\* Mutant: a finished pass begins the next one without looking at _running.
PassDone_NeverEnds(m) ==
    /\ mpc[m] = "check"
    /\ next[m] > Len(ProfileList)
    /\ next' = [next EXCEPT ![m] = 1]
    /\ UNCHANGED <<running, pausedProfiles, monitorThread, gui, mpc, result,
                   statusQueue, checksAfterStop>>

PassDone(m) ==
    /\ mpc[m] = "check"
    /\ next[m] > Len(ProfileList)
    /\ mpc' = [mpc EXCEPT ![m] = "sleep"]
    /\ next' = [next EXCEPT ![m] = 1]
    /\ UNCHANGED <<running, pausedProfiles, monitorThread, gui, result,
                   statusQueue, checksAfterStop>>

\* 30 seconds passed, or a one-second slice ended and _running is clear.
Wake(m) ==
    /\ mpc[m] = "sleep"
    /\ mpc' = [mpc EXCEPT ![m] = "loop"]
    /\ UNCHANGED <<running, pausedProfiles, monitorThread, gui, next, result,
                   statusQueue, checksAfterStop>>

Monitor(m) ==
    \/ LoopContinue(m)
    \/ LoopExit(m)
    \/ SkipPaused(m)
    \/ StartCheck(m)
    \/ \E r \in Results : CheckReturns(m, r)
    \/ EmitStatus(m)
    \/ PassDone(m)
    \/ Wake(m)

Next ==
    \/ Start
    \/ StartFails
    \/ Stop
    \/ StopRaises
    \/ JoinReturns
    \/ \E p \in Profiles, enabled \in BOOLEAN : SetProfileMonitoringEnabled(p, enabled)
    \/ Deliver
    \/ \E m \in Monitors : Monitor(m)

Spec == Init /\ [][Next]_vars

\* Threads are scheduled and checks end (each has a timeout); the GUI thread
\* returns from join() and its event loop serves posted events between two
\* calls, however often the user clicks (hence strong fairness).  Nobody has to press a menu
\* row, so Start, Stop and SetProfileMonitoringEnabled are not fair.
Fairness ==
    /\ WF_vars(JoinReturns)
    /\ SF_vars(Deliver)
    /\ \A m \in Monitors : WF_vars(Monitor(m))

FairSpec == Spec /\ Fairness

-----------------------------------------------------------------------------

MonitorStates == {"none", "created", "loop", "check", "sts", "emit", "sleep"}

TypeOK ==
    /\ running \in BOOLEAN
    /\ pausedProfiles \subseteq Profiles
    /\ monitorThread \in Monitors \cup {None}
    /\ gui \in {"idle", "joining"}
    /\ mpc \in [Monitors -> MonitorStates]
    /\ next \in [Monitors -> 1..(Len(ProfileList) + 1)]
    /\ result \in [Monitors -> Results \cup {None}]
    /\ statusQueue \in Seq([profile : Profiles, result : Results])
    /\ Len(statusQueue) <= MaxQueue
    /\ checksAfterStop \in [Monitors -> Nat]
    /\ \A m \in Monitors :
          /\ mpc[m] \in {"sts", "emit"} => next[m] <= Len(ProfileList)
          /\ mpc[m] = "emit" => result[m] \in Results

\* While monitoring is on, the thread stop() would join has not ended, however
\* start and stop interleave with a thread that has not noticed the stop yet:
\* it is alive, or it could not be started, which nothing repairs but a stop.
RunningHasMonitor ==
    running => monitorThread # None /\ mpc[monitorThread] # "none"

\* What stop() guarantees although it may return before the thread has
\* ended: the thread finishes at most the pass it is in, so it begins no more
\* than one check per profile before monitoring is switched on again.
StopEndsWithThePass ==
    ~running => \A m \in Monitors : checksAfterStop[m] <= Len(ProfileList)

\* A profile that stays monitored, by a thread that could be started, is checked
\* again and again, whatever happened to other profiles, to earlier threads, to
\* earlier starts and to earlier passes.
Checking(p) == \E m \in Monitors : mpc[m] = "sts" /\ ProfileList[next[m]] = p

MonitoredProfilesAreChecked ==
    \A p \in Profiles :
        <>[](running /\ ~NeverStarted /\ p \notin pausedProfiles) => []<>Checking(p)

\* After a stop that is not undone, every monitor thread ends.
StoppedMonitorsEnd ==
    <>[]~running => <>[](\A m \in Monitors : mpc[m] \in {"none", "created"})

\* "Every 30 seconds run `aws sts get-caller-identity --profile <profile>` for
\* each tracked SSO profile" (design spec): one thread runs the 30-second loop.
\* Two threads that both wait between two passes while monitoring is on will
\* both begin another pass, for as long as monitoring stays on.
OneMonitorLoop ==
    \A m, n \in Monitors : running /\ mpc[m] = "sleep" /\ mpc[n] = "sleep" => m = n
=============================================================================
