---------------------------- MODULE RenewalProofs ----------------------------
(***************************************************************************)
(* Proofs about Renewal for any profiles, any number of monitor threads    *)
(* and workers, and any answers of a check.                                *)
(***************************************************************************)
EXTENDS Renewal, TLAPS

Classes == {Class(o) : o \in Answers}

\* The health monitor and the login queue with what their proofs say about them.
Monitoring == INSTANCE HealthMonitorProofs
    WITH Results <- {Class(o) : o \in Answers}, ThreadStartMayFail <- FALSE
Queueing == INSTANCE LoginQueueProofs
    WITH Profiles <- Profiles, now <- 0, LockSeconds <- 1, LoginTimeout <- 1,
         MaxTime <- 0, ThreadStartMayFail <- FALSE

-----------------------------------------------------------------------------
(* The classes of answers.                                                  *)

LEMMA OutcomeKinds ==
    ASSUME NEW o \in Outcomes
    PROVE  /\ o.ends \in {"zero", "nonzero", "raises"}
           /\ o.cues \subseteq Cues
           /\ o.ends = "zero" => o.cues = {}
           /\ o.ends = "raises" => o.cues = {} \/ o.cues = {"timed_out"}
BY DEF Outcomes, Cues

\* Every outcome has a failure type; only a non-zero exit with a word for the
\* expiry is an explicit expiry, whatever else it says.
LEMMA FailureTypes ==
    ASSUME NEW o \in Outcomes
    PROVE  /\ FailureType(o) \in {"none", "expired_or_invalid", "permission_denied",
                                  "timeout", "other", "check_error"}
           /\ Triggers(o) <=> o.ends = "nonzero" /\ "expired" \in o.cues
<1>1. CASE o.ends = "zero"
  BY <1>1, OutcomeKinds DEF FailureType, Triggers
<1>2. CASE o.ends = "nonzero" /\ "expired" \in o.cues
  <2>1. o.cues \cap {"expired", "denied"} # {"denied"} /\ o.cues # {"timed_out"} /\ o.cues # {}
    BY <1>2
  <2> QED BY <1>2, <2>1 DEF FailureType, Triggers
<1>3. CASE o.ends = "nonzero" /\ "expired" \notin o.cues /\ "denied" \in o.cues
  <2>1. o.cues \cap {"expired", "denied"} = {"denied"} /\ o.cues # {"timed_out"} /\ o.cues # {}
    BY <1>3
  <2> QED BY <1>3, <2>1 DEF FailureType, Triggers
<1>4. CASE o.ends = "nonzero" /\ "expired" \notin o.cues /\ "denied" \notin o.cues
  <2>1. o.cues \cap {"expired", "denied"} # {"denied"}
    BY <1>4
  <2>2. o.cues = {} \/ o.cues = {"timed_out"}
    BY <1>4, OutcomeKinds DEF Cues
  <2> QED BY <1>4, <2>1, <2>2 DEF FailureType, Triggers
<1>5. CASE o.ends = "raises"
  BY <1>5, OutcomeKinds DEF FailureType, Triggers
<1> QED BY <1>1, <1>2, <1>3, <1>4, <1>5, OutcomeKinds

LEMMA ClassType == Classes \subseteq {"active", "expired", "determinate", "indeterminate"}
<1> SUFFICES ASSUME NEW o \in Answers
             PROVE  Class(o) \in {"active", "expired", "determinate", "indeterminate"}
  BY DEF Classes
<1>1. o \in Outcomes
  BY AnswersAssumption
<1> QED BY <1>1, FailureTypes DEF Class

-----------------------------------------------------------------------------
(* The two components.                                                      *)

LEMMA MonitorStep ==
    [Next]_vars => [Health!Next]_(Health!vars)
<1> SUFFICES ASSUME [Next]_vars PROVE [Health!Next]_(Health!vars)
  OBVIOUS
<1> USE DEF Health!Next
<1>1. ASSUME UNCHANGED healthVars PROVE UNCHANGED Health!vars
  BY <1>1 DEF healthVars, Health!vars, Health!threadVars
<1>2. CASE Call
  BY <1>2 DEF Call, Profiles
<1>3. CASE JoinReturns \/ Deliver
  BY <1>3 DEF JoinReturns, Deliver
<1>4. ASSUME NEW m \in Monitors, Monitor(m) PROVE [Health!Next]_(Health!vars)
  <2>1. Health!Monitor(m)
    BY <1>4 DEF Monitor, CheckReturns, EmitStatus, Health!Monitor
  <2> QED BY <2>1
<1>5. ASSUME NEW t \in Threads, Worker(t) PROVE [Health!Next]_(Health!vars)
  BY <1>1, <1>5 DEF Worker
<1>6. ASSUME NEW p \in Profiles, LockExpires(p) PROVE [Health!Next]_(Health!vars)
  BY <1>1, <1>6 DEF LockExpires
<1>7. CASE UNCHANGED vars
  BY <1>1, <1>7 DEF vars
<1> QED BY <1>2, <1>3, <1>4, <1>5, <1>6, <1>7 DEF Next

\* With the login queue behind it the monitor does nothing that HealthMonitor
\* does not do: requests, refused requests, logins and locks do not hold up or
\* disturb the threads.
THEOREM RenewalImplementsMonitor == Spec => Health!Spec
<1>1. Init => Health!Init
  BY DEF Init
<1> QED BY <1>1, MonitorStep, PTL DEF Spec, Health!Spec

\* The two instances of HealthMonitor are about the same variables.
LEMMA SameMonitor == (Health!Init => Monitoring!Init) /\ (Health!Next => Monitoring!Next)
<1>1. Health!Init => Monitoring!Init
  BY DEF Health!Init, Monitoring!Init, Health!Profiles, Monitoring!Profiles
<1>2. /\ Health!Start => Monitoring!Start
      /\ Health!StartFails => Monitoring!StartFails
  BY DEF Health!Start, Monitoring!Start, Health!StartFails, Monitoring!StartFails,
         Health!NewThread, Monitoring!NewThread
<1>3. /\ Health!Stop => Monitoring!Stop
      /\ Health!StopRaises => Monitoring!StopRaises
  BY DEF Health!Stop, Monitoring!Stop, Health!StopRaises, Monitoring!StopRaises,
         Health!NeverStarted, Monitoring!NeverStarted, Health!threadVars,
         Monitoring!threadVars
<1>4. /\ Health!JoinReturns => Monitoring!JoinReturns
      /\ Health!Deliver => Monitoring!Deliver
  BY DEF Health!JoinReturns, Monitoring!JoinReturns, Health!InPass,
         Monitoring!InPass, Health!Deliver, Monitoring!Deliver,
         Health!threadVars, Monitoring!threadVars
<1>5. ASSUME NEW p \in Health!Profiles, NEW enabled \in BOOLEAN,
             Health!SetProfileMonitoringEnabled(p, enabled)
      PROVE  /\ Monitoring!SetProfileMonitoringEnabled(p, enabled)
             /\ p \in Monitoring!Profiles
  BY <1>5
  DEF Health!SetProfileMonitoringEnabled, Monitoring!SetProfileMonitoringEnabled,
      Health!threadVars, Monitoring!threadVars, Health!Profiles, Monitoring!Profiles
<1>6. ASSUME NEW m \in Monitors, Health!Monitor(m) PROVE Monitoring!Monitor(m)
  BY <1>6
  DEF Health!Monitor, Monitoring!Monitor, Health!LoopContinue,
      Monitoring!LoopContinue, Health!LoopExit, Monitoring!LoopExit,
      Health!SkipPaused, Monitoring!SkipPaused, Health!StartCheck,
      Monitoring!StartCheck, Health!CheckReturns, Monitoring!CheckReturns,
      Health!EmitStatus, Monitoring!EmitStatus, Health!PassDone,
      Monitoring!PassDone, Health!Wake, Monitoring!Wake
<1> QED
  BY <1>1, <1>2, <1>3, <1>4, <1>5, <1>6 DEF Health!Next, Monitoring!Next

LEMMA MonitorAssumptions ==
    /\ ProfileList \in Seq(Monitoring!Profiles)
    /\ MaxQueue \in Nat \ {0}
    /\ None \notin Monitors
    /\ FALSE \in BOOLEAN
    /\ {Class(o) : o \in Answers}
          \subseteq {"active", "expired", "determinate", "indeterminate"}
    /\ Profiles = Monitoring!Profiles
BY RenewalAssumption, ClassType DEF Classes, Profiles, Health!Profiles, Monitoring!Profiles

LEMMA MonitorTypes ==
    /\ Init => Monitoring!TypeOK
    /\ Monitoring!TypeOK /\ [Next]_vars => Monitoring!TypeOK'
<1>1. Init => Monitoring!TypeOK
  BY SameMonitor, Monitoring!InitTypeOK, MonitorAssumptions DEF Init
<1>2. ASSUME Monitoring!TypeOK, [Next]_vars PROVE Monitoring!TypeOK'
  <2>1. Monitoring!Next \/ UNCHANGED Monitoring!vars
    BY <1>2, MonitorStep, SameMonitor
    DEF Health!vars, Monitoring!vars, Health!threadVars, Monitoring!threadVars
  <2> QED BY <1>2, <2>1, Monitoring!TypeStep, MonitorAssumptions
<1> QED BY <1>1, <1>2

\* The guarantees of the health monitor hold with the login queue behind it.
THEOREM RenewalKeepsMonitorPromises ==
    Spec => [](Monitoring!RunningHasMonitor /\ Monitoring!StopEndsWithThePass)
<1> DEFINE MInv == Monitoring!RunningHasMonitor /\ Monitoring!ChecksWithinPass
<1>1. Init => MInv
  BY MonitorAssumptions, SameMonitor
  DEF Init, Monitoring!Init, Monitoring!RunningHasMonitor,
      Monitoring!ChecksWithinPass, Monitoring!PassBound
<1>2. ASSUME Monitoring!TypeOK, MInv, [Next]_vars PROVE MInv'
  <2>1. Monitoring!Next \/ UNCHANGED Monitoring!vars
    BY <1>2, MonitorStep, SameMonitor
    DEF Health!vars, Monitoring!vars, Health!threadVars, Monitoring!threadVars
  <2> QED
    BY <1>2, <2>1, Monitoring!RunningStep, Monitoring!ChecksStep, MonitorAssumptions
<1>3. ASSUME Monitoring!TypeOK, MInv PROVE Monitoring!StopEndsWithThePass
  <2>1. Len(ProfileList) \in Nat
    BY Monitoring!ProfileListType, MonitorAssumptions
  <2>2. \A m \in Monitors : /\ next[m] \in 1..(Len(ProfileList) + 1)
                            /\ checksAfterStop[m] \in Nat
                            /\ mpc[m] \in {"sts", "emit"} => next[m] <= Len(ProfileList)
    BY <1>3 DEF Monitoring!TypeOK
  <2> QED
    BY <1>3, <2>1, <2>2
    DEF Monitoring!ChecksWithinPass, Monitoring!PassBound,
        Monitoring!StopEndsWithThePass
<1>4. MInv => Monitoring!RunningHasMonitor
  OBVIOUS
<1> HIDE DEF MInv
<1> QED BY <1>1, <1>2, <1>3, <1>4, MonitorTypes, PTL DEF Spec

-----------------------------------------------------------------------------
(* The login side.                                                          *)

\* The two instances of LoginQueue are about the same variables.
LEMMA SameLogin ==
    /\ Login!Init => Queueing!Init
    /\ \A p \in Profiles : Login!Enqueue(p) => Queueing!Enqueue(p)
    /\ \A t \in Threads :
          /\ Login!TakeNext(t) => Queueing!TakeNext(t)
          /\ Login!WorkerExit(t) => Queueing!WorkerExit(t)
          /\ Login!AcquireProfileLock(t) => Queueing!AcquireProfileLock(t)
          /\ Login!DropLocked(t) => Queueing!DropLocked(t)
          /\ Login!FinishLogin(t) => Queueing!FinishLogin(t)
<1>1. Login!Init => Queueing!Init
  BY DEF Login!Init, Queueing!Init
<1>2. \A p \in Profiles : Login!Enqueue(p) => Queueing!Enqueue(p)
  BY DEF Login!Enqueue, Queueing!Enqueue, Login!IsProfileLocked,
         Queueing!IsProfileLocked, Login!InQueue, Queueing!InQueue,
         Login!StartWorker, Queueing!StartWorker
<1>3. \A t \in Threads :
          /\ Login!TakeNext(t) => Queueing!TakeNext(t)
          /\ Login!WorkerExit(t) => Queueing!WorkerExit(t)
          /\ Login!FinishLogin(t) => Queueing!FinishLogin(t)
  BY DEF Login!TakeNext, Queueing!TakeNext, Login!WorkerExit, Queueing!WorkerExit,
         Login!FinishLogin, Queueing!FinishLogin
<1>4. \A t \in Threads :
          /\ Login!AcquireProfileLock(t) => Queueing!AcquireProfileLock(t)
          /\ Login!DropLocked(t) => Queueing!DropLocked(t)
  BY DEF Login!AcquireProfileLock, Queueing!AcquireProfileLock, Login!DropLocked,
         Queueing!DropLocked, Login!IsProfileLocked, Queueing!IsProfileLocked
<1> QED BY <1>1, <1>2, <1>3, <1>4

LEMMA LoginAssumptions ==
    /\ 1 \in Nat
    /\ 1 \in Nat \ {0}
    /\ 0 \in Nat
    /\ FALSE \in BOOLEAN
    /\ None \notin Nat
    /\ None \notin Profiles
BY RenewalAssumption

\* A check that is overtaken by a login stays where it is until it returns.
OldStays ==
    /\ old' \subseteq old
    /\ \A m \in old' : mpc[m] = "sts" => mpc'[m] = "sts" /\ next'[m] = next[m]

\* What a step does to the login queue: nothing, the request of a check, the
\* work of a worker, or the end of a lock.
Quiet == UNCHANGED <<loginVars, licences>> /\ OldStays

Requests(m, o) ==
    /\ mpc[m] = "sts"
    /\ Triggers(o)
    /\ Queueing!Enqueue(Checked(m))
    /\ Ask(m, o)
    /\ OldStays

Works(t) ==
    /\ UNCHANGED healthVars
    /\ \/ Queueing!WorkerExit(t) /\ UNCHANGED <<old, licences>>
       \/ /\ Queueing!TakeNext(t)
          /\ asked' = asked \ {Head(queue)}
          /\ licensed' = IF Head(queue) \in asked
                         THEN licensed \cup {t} ELSE licensed \ {t}
          /\ UNCHANGED old
       \/ /\ Queueing!AcquireProfileLock(t) \/ Queueing!DropLocked(t)
          /\ licensed' = licensed \ {t}
          /\ UNCHANGED <<old, asked>>
       \/ /\ Queueing!FinishLogin(t)
          /\ old' = old \cup {m \in Monitors : mpc[m] = "sts" /\ Checked(m) = job[t]}
          /\ UNCHANGED licences

LEMMA LoginSteps ==
    ASSUME Monitoring!TypeOK, old \subseteq Monitors, [Next]_vars
    PROVE  \/ Quiet
           \/ \E m \in Monitors, o \in Answers : Requests(m, o)
           \/ \E t \in Threads : Works(t)
           \/ \E p \in Profiles : LockExpires(p)
<1>1. ASSUME UNCHANGED <<mpc, next, loginVars, old, licences>> PROVE Quiet
  BY <1>1 DEF Quiet, OldStays
<1>2. CASE Call
  <2>1. \A m \in Monitors : mpc[m] = "sts" => mpc'[m] = "sts" /\ next'[m] = next[m]
    BY <1>2 DEF Monitoring!TypeOK, Call, Health!Start, Health!Stop,
                Health!SetProfileMonitoringEnabled, Health!NewThread,
                Health!threadVars
  <2> QED BY <1>2, <2>1 DEF Call, Quiet, OldStays
<1>3. CASE JoinReturns \/ Deliver \/ UNCHANGED vars
  <2>1. UNCHANGED <<mpc, next, loginVars, old, licences>>
    BY <1>3 DEF JoinReturns, Deliver, Health!JoinReturns, Health!Deliver,
                Health!threadVars, vars, healthVars
  <2> QED BY <1>1, <2>1
<1>4. ASSUME NEW m \in Monitors, Monitor(m)
      PROVE  Quiet \/ \E o \in Answers : Requests(m, o)
  <2>1. ASSUME NEW o \in Answers, Health!CheckReturns(m, Class(o)), old' = old \ {m}
        PROVE  OldStays /\ mpc[m] = "sts" /\ UNCHANGED next
    BY <2>1 DEF Monitoring!TypeOK, Health!CheckReturns, OldStays
  <2>2. ASSUME NEW o \in Answers, Health!CheckReturns(m, Class(o)), old' = old \ {m},
               Triggers(o), Login!Enqueue(Checked(m)), Ask(m, o)
        PROVE  Requests(m, o)
    <3>1. Checked(m) \in Profiles
      BY <2>1, <2>2, MonitorAssumptions DEF Monitoring!TypeOK, Checked
    <3> QED BY <2>1, <2>2, <3>1, SameLogin DEF Requests
  <2>3. CASE CheckReturns(m)
    BY <2>1, <2>2, <2>3 DEF CheckReturns, Quiet
  <2>4. CASE ~CheckReturns(m)
    <3>1. UNCHANGED <<loginVars, old, licences>>
      BY <1>4, <2>4 DEF Monitor, EmitStatus
    <3>2. \A n \in Monitors : mpc[n] = "sts" => mpc'[n] = "sts" /\ next'[n] = next[n]
      BY <1>4, <2>4
      DEF Monitoring!TypeOK, Monitor, EmitStatus, Health!EmitStatus,
          Health!LoopContinue, Health!LoopExit, Health!SkipPaused,
          Health!StartCheck, Health!PassDone, Health!Wake
    <3> QED BY <3>1, <3>2 DEF Quiet, OldStays
  <2> QED BY <2>3, <2>4
<1>5. ASSUME NEW t \in Threads, Worker(t) PROVE Works(t)
  BY <1>5, SameLogin DEF Worker, TakeNext, StartOrDrop, FinishLogin, Works
<1> QED BY <1>2, <1>3, <1>4, <1>5 DEF Next

-----------------------------------------------------------------------------
(* Every login goes back to an answer.  A login starts for a profile that a *)
(* worker has popped, so the answers that count have to cover what is       *)
(* queued, and the licences what is popped.  A request adds an entry only   *)
(* if the profile is not locked, and a check that was overtaken by a login  *)
(* meets the lock of that login; hence a request that counts for nothing is *)
(* refused.                                                                 *)

LoginTypes ==
    /\ Queueing!TypeOK
    /\ Queueing!OneWorker
    /\ old \subseteq Monitors
    /\ asked \subseteq Profiles
    /\ licensed \subseteq Threads

\* A profile is queued at most once.
OneEntry == \A i, j \in 1..Len(queue) : queue[i] = queue[j] => i = j

\* A login runs under the lock of its profile, and so does a check that it
\* overtook.
LoginsAreLocked ==
    \A t \in Threads : pc[t] = "login" => profileLocks[job[t]] # None

OldIsLocked == \A m \in old : mpc[m] = "sts" /\ profileLocks[Checked(m)] # None

AskedCovers ==
    /\ \A p \in Profiles : Queueing!InQueue(p) => p \in asked
    /\ \A t \in Threads : pc[t] = "acquire" => t \in licensed

RenewalIInv ==
    /\ Monitoring!TypeOK
    /\ LoginTypes
    /\ OneEntry
    /\ LoginsAreLocked
    /\ OldIsLocked
    /\ AskedCovers

\* A step of the login queue, but for the end of a lock, is one of LoginQueue.
LEMMA QueueNext ==
    ASSUME Monitoring!TypeOK, old \subseteq Monitors,
           \/ Quiet
           \/ \E m \in Monitors, o \in Answers : Requests(m, o)
           \/ \E t \in Threads : Works(t)
    PROVE  Queueing!Next \/ UNCHANGED Queueing!vars
<1>1. CASE Quiet
  BY <1>1 DEF Quiet, loginVars, Queueing!vars
<1>2. ASSUME NEW m \in Monitors, NEW o \in Answers, Requests(m, o) PROVE Queueing!Next
  <2>1. Checked(m) \in Profiles
    BY <1>2, MonitorAssumptions DEF Monitoring!TypeOK, Checked, Requests
  <2> QED BY <1>2, <2>1 DEF Requests, Queueing!Next
<1>3. ASSUME NEW t \in Threads, Works(t) PROVE Queueing!Next
  BY <1>3 DEF Works, Queueing!Next, Queueing!Worker
<1> QED BY <1>1, <1>2, <1>3

LEMMA LoginTypesStep ==
    ASSUME Monitoring!TypeOK, LoginTypes, [Next]_vars
    PROVE  LoginTypes'
<1> USE DEF LoginTypes
<1>1. CASE \E p \in Profiles : LockExpires(p)
  BY <1>1 DEF LockExpires, licences, Queueing!TypeOK, Queueing!OneWorker
<1>2. CASE ~\E p \in Profiles : LockExpires(p)
  <2>1. Queueing!TypeOK' /\ Queueing!OneWorker'
    BY <1>2, LoginSteps, QueueNext, Queueing!TypeStep, Queueing!OneWorkerStep,
       LoginAssumptions
  <2>2. old' \subseteq Monitors
    BY <1>2, LoginSteps DEF Quiet, OldStays, Requests, Works
  <2>3. ASSUME NEW m \in Monitors, NEW o \in Answers, Requests(m, o)
        PROVE  asked' \subseteq Profiles /\ licensed' \subseteq Threads
    <3>1. Checked(m) \in Profiles
      BY <2>3, MonitorAssumptions DEF Monitoring!TypeOK, Checked, Requests
    <3> QED BY <2>3, <3>1 DEF Requests, Ask
  <2>4. asked' \subseteq Profiles /\ licensed' \subseteq Threads
    BY <1>2, <2>3, LoginSteps DEF Quiet, Works, licences
  <2> QED BY <2>1, <2>2, <2>4
<1> QED BY <1>1, <1>2

\* A profile is locked exactly if it has an entry: time stands still here.
LEMMA LockedIsEntry ==
    ASSUME LoginTypes, NEW p \in Profiles
    PROVE  Queueing!IsProfileLocked(p) <=> profileLocks[p] # None
<1>1. profileLocks[p] # None => profileLocks[p] \in Nat
  BY DEF LoginTypes, Queueing!TypeOK
<1> QED BY <1>1 DEF Queueing!IsProfileLocked

LEMMA OneEntryStep ==
    ASSUME Monitoring!TypeOK, LoginTypes, OneEntry, [Next]_vars
    PROVE  OneEntry'
<1>1. queue \in Seq(Profiles) /\ Len(queue) \in Nat
  BY DEF LoginTypes, Queueing!TypeOK
<1>2. ASSUME UNCHANGED queue PROVE OneEntry'
  BY <1>2 DEF OneEntry
<1>3. ASSUME NEW p \in Profiles, Queueing!Enqueue(p) PROVE OneEntry'
  <2>1. CASE Queueing!InQueue(p)
    BY <1>2, <1>3, <2>1 DEF Queueing!Enqueue
  <2>2. CASE ~Queueing!InQueue(p)
    <3>1. queue' = Append(queue, p)
      BY <1>3, <2>2 DEF Queueing!Enqueue
    <3>2. /\ Len(queue') = Len(queue) + 1
          /\ queue'[Len(queue) + 1] = p
          /\ \A i \in 1..Len(queue) : queue'[i] = queue[i] /\ queue[i] # p
      BY <1>1, <2>2, <3>1 DEF Queueing!InQueue
    <3> QED BY <1>1, <3>2 DEF OneEntry
  <2> QED BY <2>1, <2>2
<1>4. ASSUME NEW t \in Threads, Queueing!TakeNext(t) PROVE OneEntry'
  <2>1. /\ Len(queue') = Len(queue) - 1
        /\ \A i \in 1..(Len(queue) - 1) : queue'[i] = queue[i + 1]
    BY <1>1, <1>4 DEF Queueing!TakeNext
  <2> QED BY <1>1, <2>1 DEF OneEntry
<1>5. CASE Quiet
  BY <1>2, <1>5 DEF Quiet, loginVars
<1>6. ASSUME NEW m \in Monitors, NEW o \in Answers, Requests(m, o) PROVE OneEntry'
  <2>1. Checked(m) \in Profiles
    BY <1>6, MonitorAssumptions DEF Monitoring!TypeOK, Checked, Requests
  <2> QED BY <1>3, <1>6, <2>1 DEF Requests
<1>7. ASSUME NEW t \in Threads, Works(t) PROVE OneEntry'
  <2>1. Queueing!TakeNext(t) \/ UNCHANGED queue
    BY <1>7 DEF Works, Queueing!WorkerExit, Queueing!AcquireProfileLock,
                Queueing!DropLocked, Queueing!FinishLogin
  <2> QED BY <1>2, <1>4, <2>1
<1>8. ASSUME NEW p \in Profiles, LockExpires(p) PROVE OneEntry'
  BY <1>2, <1>8 DEF LockExpires
<1>9. old \subseteq Monitors
  BY DEF LoginTypes
<1> QED BY <1>5, <1>6, <1>7, <1>8, <1>9, LoginSteps

LEMMA LoginsAreLockedStep ==
    ASSUME Monitoring!TypeOK, LoginTypes, LoginsAreLocked, [Next]_vars
    PROVE  LoginsAreLocked'
<1>1. /\ profileLocks \in [Profiles -> Nat \cup {None}]
      /\ pc \in [Threads -> {"none", "loop", "acquire", "login"}]
      /\ job \in [Threads -> Profiles \cup {None}]
      /\ \A t \in Threads : pc[t] \in {"acquire", "login"} => job[t] \in Profiles
  BY DEF LoginTypes, Queueing!TypeOK
<1>2. CASE Quiet
  BY <1>2 DEF Quiet, loginVars, LoginsAreLocked
<1>3. ASSUME NEW m \in Monitors, NEW o \in Answers, Requests(m, o)
      PROVE  LoginsAreLocked'
  <2> DEFINE p == Checked(m)
  <2>1. p \in Profiles
    BY <1>3, MonitorAssumptions DEF Monitoring!TypeOK, Checked, Requests
  <2>2. profileLocks[p] = None
    BY <1>3, <2>1, LockedIsEntry DEF Requests, Queueing!Enqueue
  <2>3. /\ UNCHANGED <<profileLocks, job>>
        /\ \A t \in Threads : pc'[t] = "login" => pc[t] = "login"
    BY <1>1, <1>3, <2>1, <2>2 DEF Requests, Queueing!Enqueue, Queueing!StartWorker
  <2> QED BY <2>3 DEF LoginsAreLocked
<1>4. ASSUME NEW t \in Threads, Works(t) PROVE LoginsAreLocked'
  <2>1. CASE Queueing!AcquireProfileLock(t)
    BY <1>1, <2>1, LoginAssumptions DEF Queueing!AcquireProfileLock, LoginsAreLocked
  <2>2. CASE ~Queueing!AcquireProfileLock(t)
    <3>1. UNCHANGED profileLocks
      BY <1>4, <2>2 DEF Works, Queueing!TakeNext, Queueing!WorkerExit,
                        Queueing!DropLocked, Queueing!FinishLogin
    <3>2. \A u \in Threads : pc'[u] = "login" => pc[u] = "login" /\ job'[u] = job[u]
      BY <1>1, <1>4, <2>2
      DEF Works, Queueing!TakeNext, Queueing!WorkerExit, Queueing!DropLocked,
          Queueing!FinishLogin
    <3> QED BY <3>1, <3>2 DEF LoginsAreLocked
  <2> QED BY <2>1, <2>2
<1>5. ASSUME NEW p \in Profiles, LockExpires(p) PROVE LoginsAreLocked'
  <2>1. \A t \in Threads : pc[t] = "login" => job[t] # p
    BY <1>5 DEF LockExpires, LoggingIn
  <2> QED BY <1>1, <1>5, <2>1 DEF LockExpires, LoginsAreLocked
<1>6. old \subseteq Monitors
  BY DEF LoginTypes
<1> QED BY <1>2, <1>3, <1>4, <1>5, <1>6, LoginSteps

LEMMA OldIsLockedStep ==
    ASSUME Monitoring!TypeOK, LoginTypes, LoginsAreLocked, OldIsLocked, [Next]_vars
    PROVE  OldIsLocked'
<1>1. /\ profileLocks \in [Profiles -> Nat \cup {None}]
      /\ old \subseteq Monitors
      /\ \A t \in Threads : pc[t] \in {"acquire", "login"} => job[t] \in Profiles
  BY DEF LoginTypes, Queueing!TypeOK
<1>2. ASSUME NEW m \in Monitors, mpc[m] = "sts" PROVE Checked(m) \in Profiles
  BY <1>2, MonitorAssumptions DEF Monitoring!TypeOK, Checked
<1>3. ASSUME OldStays, UNCHANGED profileLocks PROVE OldIsLocked'
  BY <1>3 DEF OldStays, OldIsLocked, Checked
<1>4. CASE Quiet
  BY <1>3, <1>4 DEF Quiet, loginVars
<1>5. ASSUME NEW m \in Monitors, NEW o \in Answers, Requests(m, o) PROVE OldIsLocked'
  <2>1. Checked(m) \in Profiles
    BY <1>2, <1>5 DEF Requests
  <2>2. profileLocks[Checked(m)] = None
    BY <1>5, <2>1, LockedIsEntry DEF Requests, Queueing!Enqueue
  <2>3. UNCHANGED profileLocks
    BY <1>1, <1>5, <2>1, <2>2 DEF Requests, Queueing!Enqueue
  <2> QED BY <1>3, <1>5, <2>3 DEF Requests
<1>6. ASSUME NEW t \in Threads, Works(t) PROVE OldIsLocked'
  <2>1. UNCHANGED <<mpc, next>> /\ \A m \in Monitors : Checked(m)' = Checked(m)
    BY <1>6 DEF Works, healthVars, Checked
  <2>2. CASE Queueing!FinishLogin(t)
    <3>1. /\ UNCHANGED profileLocks
          /\ profileLocks[job[t]] # None
          /\ old' = old \cup {m \in Monitors : mpc[m] = "sts" /\ Checked(m) = job[t]}
      BY <1>6, <2>2
      DEF Works, LoginsAreLocked, Queueing!FinishLogin, Queueing!TakeNext,
          Queueing!WorkerExit, Queueing!AcquireProfileLock, Queueing!DropLocked
    <3> QED BY <1>1, <2>1, <3>1 DEF OldIsLocked
  <2>3. CASE ~Queueing!FinishLogin(t)
    <3>1. UNCHANGED old
      BY <1>6, <2>3 DEF Works
    <3>2. \A p \in Profiles : profileLocks[p] # None => profileLocks'[p] # None
      BY <1>1, <1>6, <2>3, LoginAssumptions
      DEF Works, Queueing!TakeNext, Queueing!WorkerExit,
          Queueing!AcquireProfileLock, Queueing!DropLocked
    <3> QED BY <1>1, <1>2, <2>1, <3>1, <3>2 DEF OldIsLocked
  <2> QED BY <2>2, <2>3
<1>7. ASSUME NEW p \in Profiles, LockExpires(p) PROVE OldIsLocked'
  <2>1. UNCHANGED <<mpc, next, old>> /\ \A m \in Monitors : Checked(m)' = Checked(m)
    BY <1>7 DEF LockExpires, healthVars, Checked
  <2>2. \A q \in Profiles \ {p} : profileLocks'[q] = profileLocks[q]
    BY <1>1, <1>7 DEF LockExpires
  <2>3. \A m \in old : Checked(m) \in Profiles \ {p}
    BY <1>1, <1>2, <1>7 DEF LockExpires, OldIsLocked
  <2> QED BY <1>1, <2>1, <2>2, <2>3 DEF OldIsLocked
<1> QED BY <1>1, <1>4, <1>5, <1>6, <1>7, LoginSteps

\* The answers that count keep covering what is queued and what is popped.
LEMMA AskedCoversStep ==
    ASSUME Monitoring!TypeOK, LoginTypes, OneEntry, OldIsLocked, AskedCovers,
           [Next]_vars
    PROVE  AskedCovers'
<1>1. /\ profileLocks \in [Profiles -> Nat \cup {None}]
      /\ old \subseteq Monitors
      /\ pc \in [Threads -> {"none", "loop", "acquire", "login"}]
      /\ job \in [Threads -> Profiles \cup {None}]
      /\ queue \in Seq(Profiles)
      /\ Queueing!TypeOK
  BY DEF LoginTypes, Queueing!TypeOK
<1>2. ASSUME asked \subseteq asked',
             licensed' = licensed,
             \A q \in Profiles : Queueing!InQueue(q)' => Queueing!InQueue(q) \/ q \in asked',
             \A u \in Threads : pc'[u] = "acquire" => pc[u] = "acquire"
      PROVE  AskedCovers'
  BY <1>2 DEF AskedCovers
<1>3. CASE \/ Quiet
           \/ \E p \in Profiles : LockExpires(p)
           \/ \E t \in Threads : Works(t) /\ Queueing!WorkerExit(t)
           \/ \E t \in Threads : Works(t) /\ Queueing!FinishLogin(t)
  <2>1. UNCHANGED <<queue, asked, licensed>>
    BY <1>3 DEF Quiet, loginVars, licences, LockExpires, Works, Queueing!WorkerExit,
                Queueing!FinishLogin, Queueing!TakeNext,
                Queueing!AcquireProfileLock, Queueing!DropLocked
  <2>2. \A u \in Threads : pc'[u] = "acquire" => pc[u] = "acquire"
    BY <1>1, <1>3 DEF Quiet, loginVars, LockExpires, Queueing!WorkerExit,
                      Queueing!FinishLogin
  <2>3. \A q \in Profiles : Queueing!InQueue(q)' => Queueing!InQueue(q)
    BY <2>1 DEF Queueing!InQueue
  <2> QED BY <1>2, <2>1, <2>2, <2>3
\* A request: the profile is not locked, so no login has overtaken the check
\* and the answer counts.
<1>4. ASSUME NEW m \in Monitors, NEW o \in Answers, Requests(m, o)
      PROVE  AskedCovers'
  <2> DEFINE p == Checked(m)
  <2>1. p \in Profiles
    BY <1>4, MonitorAssumptions DEF Monitoring!TypeOK, Checked, Requests
  <2>2. profileLocks[p] = None
    BY <1>4, <2>1, LockedIsEntry DEF Requests, Queueing!Enqueue
  <2>3. m \notin old
    BY <2>2 DEF OldIsLocked
  <2>4. Counts(m, o)
    <3>1. o \in Outcomes
      BY AnswersAssumption
    <3> QED BY <1>4, <2>3, <3>1, FailureTypes DEF Requests, Counts
  <2>5. asked' = asked \cup {p} /\ licensed' = licensed
    BY <1>4, <2>4 DEF Requests, Ask
  <2>6. queue' = queue \/ queue' = Append(queue, p)
    BY <1>4 DEF Requests, Queueing!Enqueue
  <2>7. \A q \in Profiles : Queueing!InQueue(q)' => Queueing!InQueue(q) \/ q = p
    BY <1>1, <2>1, <2>6, Queueing!InQueueAppend, LoginAssumptions
    DEF Queueing!InQueue
  <2>8. \A u \in Threads : pc'[u] = "acquire" => pc[u] = "acquire"
    BY <1>1, <1>4 DEF Requests, Queueing!Enqueue, Queueing!StartWorker
  <2> QED BY <1>2, <2>5, <2>7, <2>8
\* A pop: what was queued is popped with its answers, and it was queued once.
<1>5. ASSUME NEW t \in Threads, Works(t), Queueing!TakeNext(t)
      PROVE  AskedCovers'
  <2> DEFINE p == Head(queue)
  <2>1. p \in Profiles /\ Queueing!InQueue(p)
    BY <1>1, <1>5, Queueing!InQueueTail, LoginAssumptions DEF Queueing!TakeNext
  <2>2. p \in asked
    BY <2>1 DEF AskedCovers
  <2>3. asked' = asked \ {p} /\ licensed' = licensed \cup {t}
    BY <1>5, <2>2 DEF Works, Queueing!TakeNext, Queueing!WorkerExit,
                Queueing!AcquireProfileLock, Queueing!DropLocked,
                Queueing!FinishLogin
  <2>4. \A u \in Threads : pc'[u] = "acquire" => pc[u] = "acquire" \/ u = t
    BY <1>1, <1>5 DEF Queueing!TakeNext
  <2>5. \A q \in Profiles : Queueing!InQueue(q)' => Queueing!InQueue(q)
    BY <1>1, <1>5, Queueing!InQueueTail, LoginAssumptions DEF Queueing!TakeNext
  <2>6. \A i \in 1..Len(queue') : queue'[i] # p
    <3>1. /\ Len(queue) \in Nat
          /\ Len(queue') = Len(queue) - 1
          /\ p = queue[1]
          /\ \A i \in 1..(Len(queue) - 1) : queue'[i] = queue[i + 1]
      BY <1>1, <1>5 DEF Queueing!TakeNext
    <3>2. \A i \in 1..(Len(queue) - 1) : queue[i + 1] # queue[1]
      BY <3>1 DEF OneEntry
    <3>3. ASSUME NEW i \in 1..Len(queue'), queue'[i] = p PROVE FALSE
      BY <3>1, <3>2, <3>3
    <3> QED BY <3>3
  <2>7. \A q \in Profiles : Queueing!InQueue(q)' => q # p
    BY <2>6 DEF Queueing!InQueue
  <2>8. \A q \in Profiles : Queueing!InQueue(q)' => q \in asked'
    BY <2>3, <2>5, <2>7 DEF AskedCovers
  <2>9. \A u \in Threads : pc'[u] = "acquire" => u \in licensed'
    BY <2>3, <2>4 DEF AskedCovers
  <2> QED BY <2>8, <2>9 DEF AskedCovers
\* A login starts, or is dropped: the worker has nothing popped any more.
<1>6. ASSUME NEW t \in Threads, Works(t),
             Queueing!AcquireProfileLock(t) \/ Queueing!DropLocked(t)
      PROVE  AskedCovers'
  <2>1. UNCHANGED <<queue, asked>> /\ licensed' = licensed \ {t}
    BY <1>6 DEF Works, Queueing!AcquireProfileLock, Queueing!DropLocked,
                Queueing!TakeNext, Queueing!WorkerExit, Queueing!FinishLogin
  <2>2. \A u \in Threads : pc'[u] = "acquire" => pc[u] = "acquire" /\ u # t
    BY <1>1, <1>6 DEF Queueing!AcquireProfileLock, Queueing!DropLocked
  <2>3. \A q \in Profiles : Queueing!InQueue(q)' => q \in asked'
    BY <2>1 DEF AskedCovers, Queueing!InQueue
  <2>4. \A u \in Threads : pc'[u] = "acquire" => u \in licensed'
    BY <2>1, <2>2 DEF AskedCovers
  <2> QED BY <2>3, <2>4 DEF AskedCovers
<1>7. ASSUME NEW t \in Threads, Works(t)
      PROVE  AskedCovers'
  BY <1>3, <1>5, <1>6, <1>7 DEF Works
<1> QED BY <1>1, <1>3, <1>4, <1>7, LoginSteps

LEMMA RenewalInvariance == Spec => []RenewalIInv
<1>1. Init => RenewalIInv
  <2>1. ASSUME Init PROVE RenewalIInv
    <3>1. Queueing!Init
      BY <2>1, SameLogin DEF Init
    <3>2. Queueing!TypeOK /\ Queueing!OneWorker
      BY <3>1, Queueing!InitTypeOK, LoginAssumptions
      DEF Queueing!Init, Queueing!OneWorker
    <3>3. Monitoring!TypeOK
      BY <2>1, MonitorTypes
    <3>4. LoginTypes
      BY <2>1, <3>2 DEF Init, LoginTypes
    <3>5. /\ Len(queue) = 0
          /\ old = {}
          /\ \A t \in Threads : pc[t] = "none"
      BY <2>1, <3>1 DEF Init, Queueing!Init
    <3>6. OneEntry /\ LoginsAreLocked /\ OldIsLocked /\ AskedCovers
      BY <3>5 DEF OneEntry, LoginsAreLocked, OldIsLocked, AskedCovers,
                  Queueing!InQueue, Queueing!Acquiring
    <3> QED BY <3>3, <3>4, <3>6 DEF RenewalIInv
  <2> QED BY <2>1
<1>2. RenewalIInv /\ [Next]_vars => RenewalIInv'
  BY MonitorTypes, LoginTypesStep, OneEntryStep, LoginsAreLockedStep,
     OldIsLockedStep, AskedCoversStep
  DEF RenewalIInv
<1> QED BY <1>1, <1>2, PTL DEF Spec

\* Requests of several monitor threads and locks that expire do not put two
\* worker threads into `aws sso login`.
THEOREM RenewalLoginsAreSerial == Spec => []Queueing!SerialLogins
<1>1. RenewalIInv => Queueing!SerialLogins
  BY DEF RenewalIInv, LoginTypes, Queueing!TypeOK, Queueing!OneWorker,
         Queueing!SerialLogins
<1> QED BY <1>1, RenewalInvariance, PTL

\* No login without an explicit expiry: a worker that starts a login has popped
\* a profile for which, since its pop before that, an answer was accepted that
\* named the expiry and that no login of the profile had overtaken.
THEOREM LoginsNeedExpiry == Spec => LoginNeedsExpiry
<1>1. RenewalIInv =>
          \A t \in Threads : pc[t] = "acquire" /\ pc'[t] = "login" => t \in licensed
  BY DEF RenewalIInv, AskedCovers
<1> QED BY <1>1, RenewalInvariance, PTL DEF LoginNeedsExpiry
=============================================================================
