------------------------------- MODULE Renewal -------------------------------
(***************************************************************************)
(* From a session check to a login: SessionChecker (checker.py) classifies *)
(* what `aws sts get-caller-identity` did, SessionOperator (operator.py)   *)
(* asks for a login if the session is explicitly expired or invalid.  The  *)
(* monitor threads of HealthMonitor are composed here with the login queue *)
(* of LoginQueue, so that pauses, stops and stale checks meet logins that  *)
(* wait, run or cool down.                                                 *)
(*                                                                         *)
(* The clock of LoginQueue is replaced by the order of events that the     *)
(* constants of the code imply: a check takes at most 10 seconds and 3 of  *)
(* grace, a login 180 and 3, a lock 300.  The lock of a profile therefore  *)
(* outlasts its login and every check that was under way when it ended.    *)
(***************************************************************************)
EXTENDS Naturals, Sequences

CONSTANTS
    ProfileList, Monitors, MaxQueue, None,   \* see HealthMonitor
    Threads,                                 \* see LoginQueue
    Answers                                  \* the outcomes of a check considered

VARIABLES
    running, pausedProfiles, monitorThread, gui, mpc, next, result,
    statusQueue, checksAfterStop   \* the health monitor

VARIABLES
    queue, profileLocks, processing, pc, job, unserved, lastStart   \* the login queue

VARIABLES
    old,       \* the set of monitors whose check began before the profile's last
               \* login ended
    asked,     \* history: profiles with an explicit expiry accepted since their
               \* last pop from the login queue
    licensed   \* history: workers that popped a profile with such an answer

healthVars == <<running, pausedProfiles, monitorThread, gui, mpc, next, result,
                statusQueue, checksAfterStop>>
loginVars == <<queue, profileLocks, processing, pc, job, unserved, lastStart>>
licences == <<asked, licensed>>
vars == <<healthVars, loginVars, old, licences>>

-----------------------------------------------------------------------------
(* SessionChecker and SessionOperator.                                      *)

\* The groups of words the checker looks for in what the command wrote.
Cues == {"expired", "denied", "timed_out"}

\* How the command may end: a timeout and a failed start raise.
Outcomes ==
    [ends : {"zero"}, cues : {{}}]
        \cup [ends : {"nonzero"}, cues : SUBSET Cues]
        \cup [ends : {"raises"}, cues : {{}, {"timed_out"}}]

ASSUME AnswersAssumption == Answers \subseteq Outcomes

FailureType(o) ==
    CASE o.ends = "zero" -> "none"
      [] o.ends = "nonzero" /\ "expired" \in o.cues -> "expired_or_invalid"
      [] o.ends = "nonzero" /\ o.cues \cap {"expired", "denied"} = {"denied"}
            -> "permission_denied"
      [] o.ends # "zero" /\ o.cues = {"timed_out"} -> "timeout"
      [] o.ends = "nonzero" /\ o.cues = {} -> "other"
      [] o.ends = "raises" /\ o.cues = {} -> "check_error"

\* What the application makes of it (_status_from_session, _session_to_event).
Class(o) ==
    CASE FailureType(o) = "none" -> "active"
      [] FailureType(o) = "expired_or_invalid" -> "expired"
      [] FailureType(o) \in {"permission_denied", "check_error"} -> "determinate"
      [] FailureType(o) \in {"timeout", "other"} -> "indeterminate"

\* Mutant: every inactive session is worth a login.
Triggers_AnyInactive(o) == o.ends # "zero"

\* check_and_renew_with_info asks for a login.
Triggers(o) == FailureType(o) = "expired_or_invalid"

\* Threads can be started here: what a failed start leaves behind is in
\* HealthMonitor and LoginQueue.
Health == INSTANCE HealthMonitor
    WITH Results <- {Class(o) : o \in Answers}, ThreadStartMayFail <- FALSE

Profiles == Health!Profiles

\* The assumptions of HealthMonitor and LoginQueue.
ASSUME RenewalAssumption ==
    /\ ProfileList \in Seq(Profiles)
    /\ MaxQueue \in Nat \ {0}
    /\ None \notin Nat \cup Monitors \cup Profiles

\* Times are not told apart here: a lock is set (0) or not.
Login == INSTANCE LoginQueue
    WITH Profiles <- Profiles, now <- 0, LockSeconds <- 1, LoginTimeout <- 1,
         MaxTime <- 0, ThreadStartMayFail <- FALSE

Init ==
    /\ Health!Init
    /\ Login!Init
    /\ old = {}
    /\ asked = {}
    /\ licensed = {}

-----------------------------------------------------------------------------

Checked(m) == ProfileList[next[m]]

\* An answer counts for a login if it names the expiry and the check began
\* after the last login of the profile ended.
Counts(m, o) == o.ends = "nonzero" /\ "expired" \in o.cues /\ m \notin old

Ask(m, o) ==
    /\ asked' = IF Counts(m, o) THEN asked \cup {Checked(m)} ELSE asked
    /\ UNCHANGED licensed

\* get_session_info and check_and_renew_with_info; enqueue refuses a profile
\* that is locked.
CheckReturns(m) ==
    \E o \in Answers :
        /\ Health!CheckReturns(m, Class(o))
        /\ old' = old \ {m}
        /\ IF Triggers(o) /\ ~Login!IsProfileLocked(Checked(m))
           THEN Login!Enqueue(Checked(m)) /\ Ask(m, o)
           ELSE UNCHANGED <<loginVars, licences>>

EmitStatus(m) == Health!EmitStatus(m) /\ UNCHANGED <<loginVars, old, licences>>

Monitor(m) ==
    \/ CheckReturns(m)
    \/ EmitStatus(m)
    \/ /\ \/ Health!LoopContinue(m)
          \/ Health!LoopExit(m)
          \/ Health!SkipPaused(m)
          \/ Health!StartCheck(m)
          \/ Health!PassDone(m)
          \/ Health!Wake(m)
       /\ UNCHANGED <<loginVars, old, licences>>

\* The calls of the GUI thread: none of them reaches the login queue.
JoinReturns == Health!JoinReturns /\ UNCHANGED <<loginVars, old, licences>>
Deliver == Health!Deliver /\ UNCHANGED <<loginVars, old, licences>>
Call ==
    /\ \/ Health!Start
       \/ Health!Stop
       \/ \E p \in Profiles, enabled \in BOOLEAN :
             Health!SetProfileMonitoringEnabled(p, enabled)
    /\ UNCHANGED <<loginVars, old, licences>>

\* A pop uses up the answers its profile has; the worker keeps that there were.
TakeNext(t) ==
    /\ Login!TakeNext(t)
    /\ asked' = asked \ {Head(queue)}
    /\ licensed' = IF Head(queue) \in asked THEN licensed \cup {t} ELSE licensed \ {t}
    /\ UNCHANGED old

StartOrDrop(t) ==
    /\ Login!AcquireProfileLock(t) \/ Login!DropLocked(t)
    /\ licensed' = licensed \ {t}
    /\ UNCHANGED <<old, asked>>

\* A check that is under way when a login of its profile ends is overtaken.
FinishLogin(t) ==
    /\ Login!FinishLogin(t)
    /\ old' = old \cup {m \in Monitors : mpc[m] = "sts" /\ Checked(m) = job[t]}
    /\ UNCHANGED licences

Worker(t) ==
    /\ UNCHANGED healthVars
    /\ \/ TakeNext(t)
       \/ Login!WorkerExit(t) /\ UNCHANGED <<old, licences>>
       \/ StartOrDrop(t)
       \/ FinishLogin(t)

LoggingIn(p) == \E t \in Threads : pc[t] = "login" /\ job[t] = p

\* 300 seconds since the login started: it has ended, and so have the checks
\* that were under way.
LockExpires(p) ==
    /\ profileLocks[p] # None
    /\ ~LoggingIn(p)
    /\ \A m \in old : Checked(m) # p
    /\ profileLocks' = [profileLocks EXCEPT ![p] = None]
    /\ UNCHANGED <<healthVars, queue, processing, pc, job, unserved, lastStart,
                   old, licences>>

Next ==
    \/ Call
    \/ JoinReturns
    \/ Deliver
    \/ \E m \in Monitors : Monitor(m)
    \/ \E t \in Threads : Worker(t)
    \/ \E p \in Profiles : LockExpires(p)

Spec == Init /\ [][Next]_vars

\* As in HealthMonitor and LoginQueue; time passes until a lock expires; and a
\* thread that emits does not wait for another one for ever, because the real
\* signal queue has no bound.  AWS may answer anything, and nobody has to start
\* or resume monitoring.
FairSpec ==
    /\ Spec
    /\ WF_vars(JoinReturns)
    /\ SF_vars(Deliver)
    /\ \A m \in Monitors : WF_vars(Monitor(m)) /\ SF_vars(EmitStatus(m))
    /\ \A t \in Threads : WF_vars(Worker(t))
    /\ \A p \in Profiles : WF_vars(LockExpires(p))

-----------------------------------------------------------------------------

\* "If and only if state is authoritatively expired/unauthorized by explicit
\* classifier" (design spec): every login goes back to the pop of a profile for
\* which an explicit expiry was accepted after its previous pop, in a check that
\* no login of the profile had overtaken by then.  Access denied, timeouts,
\* unclear failures and answers from before a login that has ended meanwhile
\* never log a user in.  The answer may still be older than the profile's last
\* login: one that comes between that login's pop and its lock queues a second
\* login, which starts if others keep it waiting until the lock has expired.
LoginNeedsExpiry ==
    [][\A t \in Threads : pc[t] = "acquire" /\ pc'[t] = "login" => t \in licensed]_vars

\* check_and_renew_with_info sees an explicit expiry of p.
SaysExpired(p) ==
    \E m \in Monitors : mpc[m] = "emit" /\ Checked(m) = p /\ result[m] = "expired"

\* As long as checks of a profile keep finding it expired, logins of it keep
\* starting, although most of these answers meet a queue, a login or a lock.
ExpiredIsRenewed ==
    \A p \in Profiles : []<>SaysExpired(p) => []<>LoggingIn(p)

\* A pause does not empty the login queue (the design spec says that it
\* prevents new commands), but what was queued ends: after a stop or a pause
\* that is not undone the profile is in the end neither wanted nor logged in.
PausedLoginsEnd ==
    \A p \in Profiles :
        (<>[]~running \/ <>[](p \in pausedProfiles))
            => <>[](p \notin Login!Wanted /\ ~LoggingIn(p))
=============================================================================
