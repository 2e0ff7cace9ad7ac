------------------------ MODULE HealthMonitorProofs ------------------------
(***************************************************************************)
(* Proofs about HealthMonitor for any list of profiles, any number of      *)
(* monitor threads and any bound on the undelivered results.               *)
(***************************************************************************)
EXTENDS HealthMonitor, TLAPS

LEMMA ProfileListType ==
    /\ ProfileList \in Seq(Profiles)
    /\ Len(ProfileList) \in Nat
    /\ \A i \in 1..Len(ProfileList) : ProfileList[i] \in Profiles
<1>1. ProfileList \in Seq(Profiles)
  BY HealthAssumption
<1> QED BY <1>1

\* Appending a result and taking the oldest one keep the type of the queue.
LEMMA QueueType ==
    ASSUME NEW S, NEW q \in Seq(S)
    PROVE  /\ Len(q) \in Nat
           /\ \A e \in S : Append(q, e) \in Seq(S) /\ Len(Append(q, e)) = Len(q) + 1
           /\ q # <<>> => /\ Head(q) \in S
                          /\ Tail(q) \in Seq(S)
                          /\ Len(Tail(q)) = Len(q) - 1
OBVIOUS

-----------------------------------------------------------------------------
(* Types.                                                                   *)

LEMMA InitTypeOK == Init => TypeOK
<1> SUFFICES ASSUME Init PROVE TypeOK
  OBVIOUS
<1>1. next \in [Monitors -> 1..(Len(ProfileList) + 1)]
  BY ProfileListType DEF Init
<1>2. statusQueue \in Seq([profile : Profiles, result : Results])
      /\ Len(statusQueue) <= MaxQueue
  BY HealthAssumption DEF Init
<1> QED BY <1>1, <1>2 DEF Init, TypeOK, MonitorStates

\* The calls of the GUI thread and the delivery of a result.
LEMMA CallTypeOK ==
    ASSUME TypeOK,
           \/ Start \/ StartFails \/ Stop \/ StopRaises \/ JoinReturns \/ Deliver
           \/ \E p \in Profiles, enabled \in BOOLEAN :
                 SetProfileMonitoringEnabled(p, enabled)
    PROVE  TypeOK'
<1>1. CASE Start \/ StartFails
  <2>1. ASSUME NEW m \in Monitors, NEW state \in {"loop", "created"},
               NewThread(m, state)
        PROVE  /\ monitorThread' \in Monitors
               /\ mpc' \in [Monitors -> MonitorStates]
               /\ \A n \in Monitors : mpc'[n] \in {"sts", "emit"} => mpc'[n] = mpc[n]
    BY <2>1 DEF TypeOK, MonitorStates, NewThread
  <2>2. /\ monitorThread' \in Monitors
        /\ mpc' \in [Monitors -> MonitorStates]
        /\ \A n \in Monitors : mpc'[n] \in {"sts", "emit"} => mpc'[n] = mpc[n]
    BY <1>1, <2>1 DEF Start, StartFails
  <2>3. /\ running' = TRUE
        /\ UNCHANGED <<pausedProfiles, gui, next, result, statusQueue, checksAfterStop>>
    BY <1>1 DEF Start, StartFails
  <2>4. \A m \in Monitors :
            /\ mpc'[m] \in {"sts", "emit"} => next'[m] <= Len(ProfileList)
            /\ mpc'[m] = "emit" => result'[m] \in Results
    BY <2>2, <2>3 DEF TypeOK
  <2>5. /\ next' \in [Monitors -> 1..(Len(ProfileList) + 1)]
        /\ result' \in [Monitors -> Results \cup {None}]
        /\ statusQueue' \in Seq([profile : Profiles, result : Results])
        /\ Len(statusQueue') <= MaxQueue
        /\ checksAfterStop' \in [Monitors -> Nat]
        /\ pausedProfiles' \subseteq Profiles
        /\ gui' \in {"idle", "joining"}
    BY <2>3 DEF TypeOK
  <2> QED BY <2>2, <2>3, <2>4, <2>5 DEF TypeOK
<1>2. CASE Stop \/ StopRaises
  <2>1. CASE Stop
    BY <2>1 DEF TypeOK, Stop, threadVars
  <2>2. CASE StopRaises
    BY <2>2 DEF TypeOK, StopRaises, threadVars
  <2> QED BY <1>2, <2>1, <2>2
<1>3. CASE JoinReturns
  BY <1>3 DEF TypeOK, JoinReturns, threadVars
<1>4. CASE Deliver
  <2>1. statusQueue' \in Seq([profile : Profiles, result : Results])
        /\ Len(statusQueue') <= MaxQueue
    BY <1>4, QueueType, HealthAssumption DEF TypeOK, Deliver
  <2> QED BY <1>4, <2>1 DEF TypeOK, Deliver, threadVars
<1>5. CASE \E p \in Profiles, enabled \in BOOLEAN :
              SetProfileMonitoringEnabled(p, enabled)
  BY <1>5 DEF TypeOK, SetProfileMonitoringEnabled, threadVars
<1> QED BY <1>1, <1>2, <1>3, <1>4, <1>5

LEMMA MonitorTypeOK ==
    ASSUME TypeOK, NEW m \in Monitors, Monitor(m)
    PROVE  TypeOK'
<1> USE ProfileListType
<1>1. CASE LoopContinue(m)
  BY <1>1 DEF TypeOK, MonitorStates, LoopContinue
<1>2. CASE LoopExit(m)
  BY <1>2 DEF TypeOK, MonitorStates, LoopExit
<1>3. CASE SkipPaused(m)
  BY <1>3 DEF TypeOK, SkipPaused
<1>4. CASE StartCheck(m)
  BY <1>4 DEF TypeOK, MonitorStates, StartCheck
<1>5. ASSUME NEW r \in Results, CheckReturns(m, r) PROVE TypeOK'
  BY <1>5 DEF TypeOK, MonitorStates, CheckReturns
<1>6. CASE EmitStatus(m)
  <2>1. [profile |-> ProfileList[next[m]], result |-> result[m]]
           \in [profile : Profiles, result : Results]
    BY <1>6 DEF TypeOK, EmitStatus
  <2>2. statusQueue' \in Seq([profile : Profiles, result : Results])
        /\ Len(statusQueue') <= MaxQueue
    BY <1>6, <2>1, QueueType, HealthAssumption DEF TypeOK, EmitStatus
  <2> QED BY <1>6, <2>2 DEF TypeOK, MonitorStates, EmitStatus
<1>7. CASE PassDone(m)
  BY <1>7 DEF TypeOK, MonitorStates, PassDone
<1>8. CASE Wake(m)
  BY <1>8 DEF TypeOK, MonitorStates, Wake
<1> QED
  BY <1>1, <1>2, <1>3, <1>4, <1>5, <1>6, <1>7, <1>8 DEF Monitor

LEMMA TypeStep == TypeOK /\ [Next]_vars => TypeOK'
<1> SUFFICES ASSUME TypeOK, [Next]_vars PROVE TypeOK'
  OBVIOUS
<1>1. ASSUME UNCHANGED vars PROVE TypeOK'
  BY <1>1 DEF TypeOK, vars, threadVars
<1> QED BY <1>1, CallTypeOK, MonitorTypeOK DEF Next

\* Every variable keeps its type; a thread inside a check is at an index of
\* _profiles, and a thread that emits has an outcome to emit.
THEOREM HealthTypeCorrect == Spec => []TypeOK
BY InitTypeOK, TypeStep, PTL DEF Spec

-----------------------------------------------------------------------------
(* Start and stop.                                                          *)

\* RunningHasMonitor is kept by start(), which makes a thread of its own, and
\* by the loop, which a thread leaves only when monitoring is off: it is
\* inductive relative to the types.
LEMMA RunningStep ==
    TypeOK /\ RunningHasMonitor /\ [Next]_vars => RunningHasMonitor'
<1> SUFFICES ASSUME TypeOK, RunningHasMonitor, [Next]_vars
             PROVE  RunningHasMonitor'
  OBVIOUS
<1> USE HealthAssumption
<1>1. CASE Start \/ StartFails
  BY <1>1 DEF TypeOK, RunningHasMonitor, Start, StartFails, NewThread
<1>2. CASE Stop \/ StopRaises
  BY <1>2 DEF RunningHasMonitor, Stop, StopRaises
<1>3. ASSUME NEW m \in Monitors, Monitor(m) PROVE RunningHasMonitor'
  <2>1. UNCHANGED <<running, monitorThread>>
    BY <1>3 DEF Monitor, LoopContinue, LoopExit, SkipPaused, StartCheck,
                CheckReturns, EmitStatus, PassDone, Wake
  <2>2. running => mpc'[m] # "none"
    BY <1>3 DEF TypeOK, Monitor, LoopContinue, LoopExit, SkipPaused, StartCheck,
                CheckReturns, EmitStatus, PassDone, Wake
  <2>3. \A n \in Monitors \ {m} : mpc'[n] = mpc[n]
    BY <1>3 DEF TypeOK, Monitor, LoopContinue, LoopExit, SkipPaused, StartCheck,
                CheckReturns, EmitStatus, PassDone, Wake
  <2> QED BY <2>1, <2>2, <2>3 DEF TypeOK, RunningHasMonitor
<1>4. CASE \/ JoinReturns \/ Deliver \/ UNCHANGED vars
           \/ \E p \in Profiles, enabled \in BOOLEAN :
                 SetProfileMonitoringEnabled(p, enabled)
  BY <1>4 DEF RunningHasMonitor, JoinReturns, Deliver, vars, threadVars,
              SetProfileMonitoringEnabled
<1> QED BY <1>1, <1>2, <1>3, <1>4 DEF Next

\* While monitoring is on, the thread that stop() would join has not ended.
THEOREM RunningIsMonitored == Spec => []RunningHasMonitor
<1>1. Init => RunningHasMonitor
  BY DEF Init, RunningHasMonitor
<1> QED BY <1>1, InitTypeOK, TypeStep, RunningStep, PTL DEF Spec

\* StopEndsWithThePass needs to know how far the pass is that a stop met: the
\* checks begun since then are at profiles before the next one, so a stopped
\* thread that has begun a check for each profile has reached the end.
PassBound(m) ==
    CASE mpc[m] = "check" -> next[m] - 1
      [] mpc[m] \in {"sts", "emit"} -> next[m]
      [] OTHER -> Len(ProfileList)

ChecksWithinPass ==
    ~running => \A m \in Monitors : checksAfterStop[m] <= PassBound(m)

LEMMA ChecksStep ==
    TypeOK /\ ChecksWithinPass /\ [Next]_vars => ChecksWithinPass'
<1> SUFFICES ASSUME TypeOK, ChecksWithinPass, [Next]_vars
             PROVE  ChecksWithinPass'
  OBVIOUS
<1> USE ProfileListType
<1>1. CASE Start \/ StartFails
  BY <1>1 DEF ChecksWithinPass, Start, StartFails
<1>2. CASE Stop \/ StopRaises
  BY <1>2 DEF TypeOK, ChecksWithinPass, PassBound, Stop, StopRaises, threadVars
<1>3. ASSUME NEW m \in Monitors, Monitor(m), ~running' PROVE ChecksWithinPass'
  <2>1. ~running
    BY <1>3 DEF Monitor, LoopContinue, LoopExit, SkipPaused, StartCheck,
                CheckReturns, EmitStatus, PassDone, Wake
  <2>2. \A n \in Monitors \ {m} :
            /\ mpc'[n] = mpc[n]
            /\ next'[n] = next[n]
            /\ checksAfterStop'[n] = checksAfterStop[n]
    BY <1>3 DEF TypeOK, Monitor, LoopContinue, LoopExit, SkipPaused, StartCheck,
                CheckReturns, EmitStatus, PassDone, Wake
  <2>3. checksAfterStop'[m] <= PassBound(m)'
    <3>1. CASE LoopExit(m)
      BY <2>1, <3>1 DEF TypeOK, ChecksWithinPass, PassBound, LoopExit
    <3>2. CASE SkipPaused(m)
      <4>1. checksAfterStop'[m] = checksAfterStop[m] /\ checksAfterStop[m] \in Nat
        BY <3>2 DEF TypeOK, SkipPaused
      <4>2. mpc'[m] = "check" /\ next'[m] = next[m] + 1 /\ next[m] \in Nat
        BY <3>2 DEF TypeOK, SkipPaused
      <4>3. checksAfterStop[m] <= next[m] - 1
        BY <2>1, <3>2 DEF ChecksWithinPass, PassBound, SkipPaused
      <4> QED BY <4>1, <4>2, <4>3 DEF PassBound
    <3>3. CASE StartCheck(m)
      BY <2>1, <3>3 DEF TypeOK, ChecksWithinPass, PassBound, StartCheck
    <3>4. ASSUME NEW r \in Results, CheckReturns(m, r)
          PROVE  checksAfterStop'[m] <= PassBound(m)'
      BY <2>1, <3>4 DEF TypeOK, ChecksWithinPass, PassBound, CheckReturns
    <3>5. CASE EmitStatus(m)
      BY <2>1, <3>5 DEF TypeOK, ChecksWithinPass, PassBound, EmitStatus
    <3>6. CASE PassDone(m)
      BY <2>1, <3>6 DEF TypeOK, ChecksWithinPass, PassBound, PassDone
    <3>7. CASE Wake(m)
      BY <2>1, <3>7 DEF TypeOK, ChecksWithinPass, PassBound, Wake
    <3> QED
      BY <1>3, <2>1, <3>1, <3>2, <3>3, <3>4, <3>5, <3>6, <3>7
      DEF Monitor, LoopContinue
  <2>4. \A n \in Monitors \ {m} : PassBound(n)' = PassBound(n)
    BY <2>2 DEF PassBound
  <2>5. \A n \in Monitors \ {m} : checksAfterStop'[n] <= PassBound(n)'
    BY <2>1, <2>2, <2>4 DEF ChecksWithinPass
  <2> QED BY <2>3, <2>5 DEF ChecksWithinPass
<1>4. CASE \/ JoinReturns \/ Deliver \/ UNCHANGED vars
           \/ \E p \in Profiles, enabled \in BOOLEAN :
                 SetProfileMonitoringEnabled(p, enabled)
  BY <1>4 DEF ChecksWithinPass, PassBound, JoinReturns, Deliver, vars, threadVars,
              SetProfileMonitoringEnabled
<1> QED BY <1>1, <1>2, <1>3, <1>4 DEF Next, ChecksWithinPass

\* After stop() a thread begins at most one check per profile before
\* monitoring is switched on again.
THEOREM StopIsBounded == Spec => []StopEndsWithThePass
<1>1. Init => ChecksWithinPass
  BY ProfileListType DEF Init, ChecksWithinPass, PassBound
<1>2. TypeOK /\ ChecksWithinPass => StopEndsWithThePass
  BY ProfileListType DEF TypeOK, ChecksWithinPass, PassBound, StopEndsWithThePass
<1> QED BY <1>1, <1>2, InitTypeOK, TypeStep, ChecksStep, PTL DEF Spec
=============================================================================
