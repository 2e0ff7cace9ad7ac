-------------------------- MODULE AwsCommandProofs --------------------------
(***************************************************************************)
(* Proofs about AwsCommand for any timeout and any grace period, whatever  *)
(* the child process does.                                                 *)
(***************************************************************************)
EXTENDS AwsCommand, TLAPS

\* EscalationInOrder alone does not say how far the escalation is at each
\* point: the thread polls while there is time left, terminates when there is
\* none, and kills at the end of the grace period.
EscalationFollowsPc ==
    /\ pc = "poll" => remaining > 0 /\ ~terminated /\ ~killed
    /\ pc = "terminate" => remaining = 0 /\ elapsed = Timeout /\ ~terminated /\ ~killed
    /\ pc = "grace" => remaining = 0 /\ elapsed = Timeout /\ terminated /\ ~killed
    /\ pc = "reap" => terminated /\ killed
    /\ outcome = "timeout" => pc \in {"cleanup", "idle"}

\* A child runs only inside a login.
ChildFollowsPc == child = "running" => pc \in {"poll", "terminate", "grace", "reap"}

\* A wrapper whose name is known is complete until the clean-up.
WrapperFollowsPc ==
    /\ pc = "wrapper" => ~named
    /\ named /\ pc # "idle" => wrapper = {"file", "dir"}
    /\ named /\ pc = "idle" /\ ~refused => wrapper = {}

IInv ==
    /\ TypeOK
    /\ EscalationFollowsPc
    /\ EscalationInOrder
    /\ ChildFollowsPc
    /\ WrapperFollowsPc

-----------------------------------------------------------------------------

LEMMA FreshClock ==
    /\ Timeout \in 0..Timeout
    /\ 0 \in 0..(Timeout + Grace)
    /\ Timeout + 0 = Timeout
BY CommandAssumption

LEMMA InitIInv == Init => IInv
BY FreshClock
   DEF Init, IInv, TypeOK, EscalationFollowsPc, EscalationInOrder, ChildFollowsPc,
       WrapperFollowsPc

LEMMA TypeStep == IInv /\ [Next]_vars => TypeOK'
<1> SUFFICES ASSUME IInv, [Next]_vars PROVE TypeOK'
  OBVIOUS
<1> USE CommandAssumption DEF IInv, TypeOK, childVars, signals, wrapperVars
<1>1. ASSUME NEW withBrowser \in BOOLEAN, StartLogin(withBrowser) PROVE TypeOK'
  BY <1>1 DEF StartLogin
<1>2. CASE CreateWrapper \/ CreateWrapperFails \/ RejectWrapper \/ SpawnFails \/ Cleanup
  BY <1>2 DEF CreateWrapper, CreateWrapperFails, RejectWrapper, SpawnFails, Cleanup,
              Remains
<1>3. CASE Spawn
  BY <1>3, FreshClock DEF Spawn
<1>4. CASE PollExpires
  BY <1>4 DEF PollExpires, EscalationFollowsPc
<1>5. CASE Completes \/ Terminate \/ EndsInGrace \/ Reap
  BY <1>5 DEF Completes, Terminate, EndsInGrace, Reap
<1>6. CASE GraceExpires
  BY <1>6 DEF GraceExpires, EscalationFollowsPc
<1>7. ASSUME NEW well \in BOOLEAN, NEW held \in BOOLEAN, ChildExits(well, held)
      PROVE  TypeOK'
  BY <1>7 DEF ChildExits
<1>8. CASE PipesClose
  BY <1>8 DEF PipesClose
<1>9. CASE UNCHANGED vars
  BY <1>9 DEF vars
<1> QED BY <1>1, <1>2, <1>3, <1>4, <1>5, <1>6, <1>7, <1>8, <1>9 DEF Next, Caller

\* Time passes, signals are sent and the outcome is reported in this order.
LEMMA EscalationStep ==
    IInv /\ [Next]_vars => EscalationFollowsPc' /\ EscalationInOrder'
<1> SUFFICES ASSUME IInv, [Next]_vars
             PROVE  EscalationFollowsPc' /\ EscalationInOrder'
  OBVIOUS
<1> DEFINE Escalation == EscalationFollowsPc /\ EscalationInOrder
<1> SUFFICES Escalation'
  OBVIOUS
<1> USE CommandAssumption
    DEF IInv, TypeOK, EscalationFollowsPc, EscalationInOrder, childVars, signals,
        wrapperVars
<1>1. ASSUME NEW withBrowser \in BOOLEAN, StartLogin(withBrowser) PROVE Escalation'
  BY <1>1 DEF StartLogin
<1>2. CASE CreateWrapper \/ CreateWrapperFails \/ RejectWrapper \/ SpawnFails \/ Cleanup
  BY <1>2 DEF CreateWrapper, CreateWrapperFails, RejectWrapper, SpawnFails, Cleanup,
              Remains
<1>3. CASE Spawn
  BY <1>3 DEF Spawn
<1>4. CASE PollExpires
  BY <1>4 DEF PollExpires
<1>5. CASE Completes \/ Terminate \/ EndsInGrace
  BY <1>5 DEF Completes, Terminate, EndsInGrace
<1>6. CASE GraceExpires \/ Reap
  BY <1>6 DEF GraceExpires, Reap
<1>7. ASSUME NEW well \in BOOLEAN, NEW held \in BOOLEAN, ChildExits(well, held)
      PROVE  Escalation'
  BY <1>7 DEF ChildExits
<1>8. CASE PipesClose \/ UNCHANGED vars
  BY <1>8 DEF PipesClose, vars
<1> QED BY <1>1, <1>2, <1>3, <1>4, <1>5, <1>6, <1>7, <1>8 DEF Next, Caller

\* The calling thread waits for the child on every way out of a login, and
\* every way passes the clean-up.
LEMMA ResourceStep ==
    IInv /\ [Next]_vars => ChildFollowsPc' /\ WrapperFollowsPc'
<1> SUFFICES ASSUME IInv, [Next]_vars PROVE ChildFollowsPc' /\ WrapperFollowsPc'
  OBVIOUS
<1> USE DEF IInv, TypeOK, ChildFollowsPc, WrapperFollowsPc, childVars, wrapperVars
<1>1. ASSUME NEW withBrowser \in BOOLEAN, StartLogin(withBrowser)
      PROVE  ChildFollowsPc' /\ WrapperFollowsPc'
  BY <1>1 DEF StartLogin
<1>2. CASE CreateWrapper \/ CreateWrapperFails \/ RejectWrapper \/ Spawn \/ SpawnFails
  BY <1>2 DEF CreateWrapper, CreateWrapperFails, RejectWrapper, Spawn, SpawnFails
<1>3. CASE \/ Completes \/ PollExpires \/ Terminate \/ EndsInGrace \/ GraceExpires
           \/ Reap
  BY <1>3 DEF Completes, PollExpires, Terminate, EndsInGrace, GraceExpires, Reap,
              Communicated
<1>4. CASE Cleanup
  <2>1. child' # "running"
    BY <1>4 DEF Cleanup
  <2>2. named' /\ ~refused' => wrapper' = {}
    BY <1>4 DEF Cleanup, Remains
  <2> QED BY <1>4, <2>1, <2>2 DEF Cleanup
<1>5. ASSUME NEW well \in BOOLEAN, NEW held \in BOOLEAN, ChildExits(well, held)
      PROVE  ChildFollowsPc' /\ WrapperFollowsPc'
  BY <1>5 DEF ChildExits
<1>6. CASE PipesClose
  BY <1>6 DEF PipesClose
<1>7. CASE UNCHANGED vars
  BY <1>7 DEF vars
<1> QED BY <1>1, <1>2, <1>3, <1>4, <1>5, <1>6, <1>7 DEF Next, Caller

LEMMA IInvStep == IInv /\ [Next]_vars => IInv'
BY TypeStep, EscalationStep, ResourceStep DEF IInv

\* What an invariant of the login command says: no child of its own is left
\* between two logins, the escalation keeps its order and its times, and a
\* wrapper exists as long as the child and no longer.
LEMMA IInvImplies ==
    IInv => TypeOK /\ NoChildLeft /\ EscalationInOrder /\ WrapperLifetime
BY DEF IInv, ChildFollowsPc, WrapperFollowsPc, NoChildLeft, WrapperLifetime

LEMMA Invariance == Spec => []IInv
BY InitIInv, IInvStep, PTL DEF Spec

-----------------------------------------------------------------------------

\* A login command terminates and kills its child in the documented order,
\* for every timeout and grace period.
THEOREM CommandEscalates == Spec => []EscalationInOrder
BY Invariance, IInvImplies, PTL

\* A login returns without a child of its own.
THEOREM CommandLeavesNoChild == Spec => []NoChildLeft
BY Invariance, IInvImplies, PTL

\* The browser wrapper of a login is complete as long as its child runs; a login
\* whose wrapper could be made, and whose removals the system did not refuse,
\* returns without anything of it.
THEOREM CommandKeepsWrapperForChild == Spec => []WrapperLifetime
BY Invariance, IInvImplies, PTL
=============================================================================
