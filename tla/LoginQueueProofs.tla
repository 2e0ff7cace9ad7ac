-------------------------- MODULE LoginQueueProofs --------------------------
(***************************************************************************)
(* Proofs about LoginQueue for any set of profiles, any number of worker   *)
(* threads, any lock period and any clock bound.                           *)
(***************************************************************************)
EXTENDS LoginQueue, TLAPS

LEMMA InitTypeOK == Init => TypeOK
<1> SUFFICES ASSUME Init PROVE TypeOK
  OBVIOUS
<1>1. queue \in Seq(Profiles)
  BY DEF Init
<1>2. /\ profileLocks \in [Profiles -> Nat \cup {None}]
      /\ lastStart \in [Profiles -> Nat \cup {None}]
      /\ job \in [Threads -> Profiles \cup {None}]
      /\ pc \in [Threads -> {"none", "loop", "acquire", "login"}]
  BY DEF Init
<1>3. \A t \in Threads : pc[t] \in {"acquire", "login"} => job[t] \in Profiles
  BY DEF Init
<1> QED BY <1>1, <1>2, <1>3 DEF Init, TypeOK

LEMMA TypeStep == TypeOK /\ [Next]_vars => TypeOK'
<1> SUFFICES ASSUME TypeOK, [Next]_vars PROVE TypeOK'
  OBVIOUS
<1> USE ConstantsAssumption
<1>1. ASSUME NEW p \in Profiles, Enqueue(p) PROVE TypeOK'
  <2>1. queue' \in Seq(Profiles)
    BY <1>1 DEF TypeOK, Enqueue
  <2>2. pc' \in [Threads -> {"none", "loop", "acquire", "login"}]
    BY <1>1 DEF TypeOK, Enqueue, StartWorker
  <2>3. \A t \in Threads : pc'[t] \in {"acquire", "login"} => job'[t] \in Profiles
    BY <1>1 DEF TypeOK, Enqueue, StartWorker
  <2>4. processing' \in BOOLEAN
    BY <1>1 DEF TypeOK, Enqueue, StartWorker
  <2> QED BY <1>1, <2>1, <2>2, <2>3, <2>4 DEF TypeOK, Enqueue
<1>2. ASSUME NEW t \in Threads, TakeNext(t) PROVE TypeOK'
  <2>1. Head(queue) \in Profiles /\ Tail(queue) \in Seq(Profiles)
    BY <1>2 DEF TypeOK, TakeNext
  <2> QED BY <1>2, <2>1 DEF TypeOK, TakeNext
<1>3. ASSUME NEW t \in Threads, WorkerExit(t) PROVE TypeOK'
  BY <1>3 DEF TypeOK, WorkerExit
<1>4. ASSUME NEW t \in Threads, AcquireProfileLock(t) PROVE TypeOK'
  BY <1>4 DEF TypeOK, AcquireProfileLock
<1>5. ASSUME NEW t \in Threads, DropLocked(t) PROVE TypeOK'
  BY <1>5 DEF TypeOK, DropLocked
<1>6. ASSUME NEW t \in Threads, FinishLogin(t) PROVE TypeOK'
  BY <1>6 DEF TypeOK, FinishLogin
<1>7. ASSUME Tick PROVE TypeOK'
  BY <1>7 DEF TypeOK, Tick
<1>8. ASSUME UNCHANGED vars PROVE TypeOK'
  BY <1>8 DEF TypeOK, vars
<1> QED
  BY <1>1, <1>2, <1>3, <1>4, <1>5, <1>6, <1>7, <1>8 DEF Next, Worker

\* Whatever happens, every variable keeps its type; in particular a worker
\* that holds the profile lock knows which profile it works on.
THEOREM TypeCorrect == Spec => []TypeOK
BY InitTypeOK, TypeStep, PTL DEF Spec

-----------------------------------------------------------------------------
(* The inductive invariant.  SerialLogins alone is not inductive: nothing   *)
(* in it keeps enqueue from starting a second worker while the first one    *)
(* is alive.  OneWorker ties the threads to the _processing flag.           *)

OneWorker ==
    /\ \A t \in Threads : pc[t] # "none" => processing
    /\ \A t, u \in Threads : pc[t] # "none" /\ pc[u] # "none" => t = u

\* A lock entry is the start of the profile's last login, and a profile
\* without an entry has cooled down.
LockIsLastStart ==
    \A p \in Profiles :
        /\ profileLocks[p] # None => lastStart[p] = profileLocks[p]
        /\ profileLocks[p] = None => \/ lastStart[p] = None
                                     \/ now >= lastStart[p] + LockSeconds

IInv == TypeOK /\ OneWorker /\ LockIsLastStart /\ RequestKept

LEMMA InitIInv == Init => IInv
<1> SUFFICES ASSUME Init PROVE IInv
  OBVIOUS
<1>1. OneWorker
  BY DEF Init, OneWorker
<1>2. LockIsLastStart
  BY DEF Init, LockIsLastStart
<1>3. RequestKept
  BY DEF Init, RequestKept
<1> QED BY <1>1, <1>2, <1>3, InitTypeOK DEF IInv

LEMMA OneWorkerStep == TypeOK /\ OneWorker /\ [Next]_vars => OneWorker'
<1> SUFFICES ASSUME TypeOK, OneWorker, [Next]_vars PROVE OneWorker'
  OBVIOUS
<1>1. ASSUME NEW p \in Profiles, Enqueue(p) PROVE OneWorker'
  <2>1. CASE processing
    BY <1>1, <2>1 DEF TypeOK, OneWorker, Enqueue
  <2>2. CASE ~processing
    <3>1. \A t \in Threads : pc[t] = "none"
      BY <2>2 DEF OneWorker
    <3> QED BY <1>1, <2>2, <3>1 DEF TypeOK, OneWorker, Enqueue, StartWorker
  <2> QED BY <2>1, <2>2
<1>2. ASSUME NEW t \in Threads, TakeNext(t) PROVE OneWorker'
  BY <1>2 DEF TypeOK, OneWorker, TakeNext
<1>3. ASSUME NEW t \in Threads, WorkerExit(t) PROVE OneWorker'
  BY <1>3 DEF TypeOK, OneWorker, WorkerExit
<1>4. ASSUME NEW t \in Threads, AcquireProfileLock(t) PROVE OneWorker'
  BY <1>4 DEF TypeOK, OneWorker, AcquireProfileLock
<1>5. ASSUME NEW t \in Threads, DropLocked(t) PROVE OneWorker'
  BY <1>5 DEF TypeOK, OneWorker, DropLocked
<1>6. ASSUME NEW t \in Threads, FinishLogin(t) PROVE OneWorker'
  BY <1>6 DEF TypeOK, OneWorker, FinishLogin
<1>7. ASSUME Tick PROVE OneWorker'
  BY <1>7 DEF OneWorker, Tick
<1>8. ASSUME UNCHANGED vars PROVE OneWorker'
  BY <1>8 DEF OneWorker, vars
<1> QED
  BY <1>1, <1>2, <1>3, <1>4, <1>5, <1>6, <1>7, <1>8 DEF Next, Worker

LEMMA LockIsLastStartStep ==
    TypeOK /\ LockIsLastStart /\ [Next]_vars => LockIsLastStart'
<1> SUFFICES ASSUME TypeOK, LockIsLastStart, [Next]_vars PROVE LockIsLastStart'
  OBVIOUS
<1> USE ConstantsAssumption
<1>1. ASSUME NEW p \in Profiles, Enqueue(p) PROVE LockIsLastStart'
  <2> SUFFICES ASSUME NEW q \in Profiles
               PROVE  /\ profileLocks'[q] # None => lastStart'[q] = profileLocks'[q]
                      /\ profileLocks'[q] = None => \/ lastStart'[q] = None
                                                     \/ now' >= lastStart'[q] + LockSeconds
    BY DEF LockIsLastStart
  <2>1. lastStart'[q] = lastStart[q] /\ now' = now
    BY <1>1 DEF Enqueue
  <2>2. CASE q = p
    BY <1>1, <2>1, <2>2 DEF TypeOK, LockIsLastStart, Enqueue, IsProfileLocked
  <2>3. CASE q # p
    BY <1>1, <2>1, <2>3 DEF TypeOK, LockIsLastStart, Enqueue
  <2> QED BY <2>2, <2>3
<1>2. ASSUME NEW t \in Threads, TakeNext(t) PROVE LockIsLastStart'
  BY <1>2 DEF LockIsLastStart, TakeNext
<1>3. ASSUME NEW t \in Threads, WorkerExit(t) PROVE LockIsLastStart'
  BY <1>3 DEF LockIsLastStart, WorkerExit
<1>4. ASSUME NEW t \in Threads, AcquireProfileLock(t) PROVE LockIsLastStart'
  <2>1. job[t] \in Profiles /\ now \in Nat /\ now # None
    BY <1>4 DEF TypeOK, AcquireProfileLock
  <2> SUFFICES ASSUME NEW q \in Profiles
               PROVE  /\ profileLocks'[q] # None => lastStart'[q] = profileLocks'[q]
                      /\ profileLocks'[q] = None => \/ lastStart'[q] = None
                                                     \/ now' >= lastStart'[q] + LockSeconds
    BY DEF LockIsLastStart
  <2>2. CASE q = job[t]
    BY <1>4, <2>1, <2>2 DEF TypeOK, AcquireProfileLock
  <2>3. CASE q # job[t]
    BY <1>4, <2>1, <2>3 DEF TypeOK, LockIsLastStart, AcquireProfileLock
  <2> QED BY <2>2, <2>3
<1>5. ASSUME NEW t \in Threads, DropLocked(t) PROVE LockIsLastStart'
  BY <1>5 DEF LockIsLastStart, DropLocked
<1>6. ASSUME NEW t \in Threads, FinishLogin(t) PROVE LockIsLastStart'
  BY <1>6 DEF LockIsLastStart, FinishLogin
<1>7. ASSUME Tick PROVE LockIsLastStart'
  BY <1>7 DEF TypeOK, LockIsLastStart, Tick
<1>8. ASSUME UNCHANGED vars PROVE LockIsLastStart'
  BY <1>8 DEF LockIsLastStart, vars
<1> QED
  BY <1>1, <1>2, <1>3, <1>4, <1>5, <1>6, <1>7, <1>8 DEF Next, Worker

\* What appending to and popping from the queue do to membership.
LEMMA InQueueAppend ==
    ASSUME TypeOK, NEW p \in Profiles, NEW q \in Profiles,
           queue' = Append(queue, p)
    PROVE  InQueue(q)' <=> InQueue(q) \/ q = p
<1> DEFINE n == Len(queue)
<1>1. queue \in Seq(Profiles) /\ n \in Nat
  BY DEF TypeOK
<1>2. /\ Len(queue') = n + 1
      /\ queue'[n + 1] = p
      /\ \A i \in 1..n : queue'[i] = queue[i]
  BY <1>1
<1>3. ASSUME InQueue(q) PROVE InQueue(q)'
  BY <1>1, <1>2, <1>3 DEF InQueue
<1>4. ASSUME q = p PROVE InQueue(q)'
  BY <1>1, <1>2, <1>4 DEF InQueue
<1>5. ASSUME InQueue(q)', q # p PROVE InQueue(q)
  <2>1. PICK i \in 1..(n + 1) : queue'[i] = q
    BY <1>2, <1>5 DEF InQueue
  <2>2. i \in 1..n
    BY <1>1, <1>2, <1>5, <2>1
  <2> QED BY <1>2, <2>1, <2>2 DEF InQueue
<1> QED BY <1>3, <1>4, <1>5

LEMMA InQueueTail ==
    ASSUME TypeOK, NEW q \in Profiles, queue # <<>>, queue' = Tail(queue)
    PROVE  /\ InQueue(q) => InQueue(q)' \/ q = Head(queue)
           /\ InQueue(q)' => InQueue(q)
           /\ InQueue(Head(queue))
<1> DEFINE n == Len(queue)
<1>1. queue \in Seq(Profiles) /\ n \in Nat /\ n > 0
  BY DEF TypeOK
<1>2. /\ Len(queue') = n - 1
      /\ Head(queue) = queue[1]
      /\ \A i \in 1..(n - 1) : queue'[i] = queue[i + 1]
  BY <1>1
<1>3. ASSUME InQueue(q), q # Head(queue) PROVE InQueue(q)'
  <2>1. PICK i \in 1..n : queue[i] = q
    BY <1>3 DEF InQueue
  <2>2. i - 1 \in 1..(n - 1) /\ queue'[i - 1] = q
    BY <1>1, <1>2, <1>3, <2>1
  <2> QED BY <1>2, <2>2 DEF InQueue
<1>4. ASSUME InQueue(q)' PROVE InQueue(q)
  <2>1. PICK i \in 1..(n - 1) : queue'[i] = q
    BY <1>2, <1>4 DEF InQueue
  <2>2. i + 1 \in 1..n /\ queue[i + 1] = q
    BY <1>1, <1>2, <2>1
  <2> QED BY <2>2 DEF InQueue
<1>5. InQueue(Head(queue))
  BY <1>1, <1>2 DEF InQueue
<1> QED BY <1>3, <1>4, <1>5

Acquiring(p) == \E t \in Threads : pc[t] = "acquire" /\ job[t] = p

LEMMA RequestKeptStep ==
    TypeOK /\ OneWorker /\ RequestKept /\ [Next]_vars => RequestKept'
<1> SUFFICES ASSUME TypeOK, OneWorker, RequestKept, [Next]_vars
             PROVE  RequestKept'
  OBVIOUS
<1> USE ConstantsAssumption
<1>a. \A q \in unserved : ~IsProfileLocked(q) /\ (InQueue(q) \/ Acquiring(q))
  BY DEF RequestKept, Acquiring
<1>b. SUFFICES \A q \in unserved' :
                   ~IsProfileLocked(q)' /\ (InQueue(q)' \/ Acquiring(q)')
  BY DEF RequestKept, Acquiring
<1>c. unserved \subseteq Profiles
  BY DEF TypeOK
<1>1. ASSUME NEW p \in Profiles, Enqueue(p),
             NEW q \in unserved'
      PROVE  ~IsProfileLocked(q)' /\ (InQueue(q)' \/ Acquiring(q)')
  <2>1. q \in Profiles /\ (q = p \/ q \in unserved)
    BY <1>1, <1>c DEF Enqueue
  <2>2. ~IsProfileLocked(q)'
    <3>1. CASE q = p
      BY <1>1, <3>1 DEF TypeOK, Enqueue, IsProfileLocked
    <3>2. CASE q # p
      <4>1. ~IsProfileLocked(q)
        BY <1>a, <2>1, <3>2
      <4> QED BY <1>1, <2>1, <3>2, <4>1 DEF TypeOK, Enqueue, IsProfileLocked
    <3> QED BY <3>1, <3>2
  <2>3. InQueue(q) \/ q = p => InQueue(q)'
    <3>1. CASE InQueue(p)
      BY <1>1, <3>1 DEF Enqueue, InQueue
    <3>2. CASE ~InQueue(p)
      BY <1>1, <2>1, <3>2, InQueueAppend DEF Enqueue
    <3> QED BY <3>1, <3>2
  <2>4. Acquiring(q) => Acquiring(q)'
    BY <1>1 DEF TypeOK, Acquiring, Enqueue, StartWorker
  <2> QED BY <1>a, <2>1, <2>2, <2>3, <2>4
<1>2. ASSUME NEW t \in Threads, TakeNext(t),
             NEW q \in unserved'
      PROVE  ~IsProfileLocked(q)' /\ (InQueue(q)' \/ Acquiring(q)')
  <2>1. q \in unserved /\ q \in Profiles
    BY <1>2, <1>c DEF TakeNext
  <2>2. ~IsProfileLocked(q)'
    BY <1>2, <1>a, <2>1 DEF TakeNext, IsProfileLocked
  <2>3. InQueue(q) => InQueue(q)' \/ q = Head(queue)
    BY <1>2, <2>1, InQueueTail DEF TakeNext
  <2>4. q = Head(queue) => Acquiring(q)'
    BY <1>2 DEF TypeOK, TakeNext, Acquiring
  <2>5. Acquiring(q) => Acquiring(q)'
    BY <1>2 DEF TypeOK, TakeNext, Acquiring
  <2> QED BY <1>a, <2>1, <2>2, <2>3, <2>4, <2>5
<1>3. ASSUME NEW t \in Threads, WorkerExit(t),
             NEW q \in unserved'
      PROVE  ~IsProfileLocked(q)' /\ (InQueue(q)' \/ Acquiring(q)')
  BY <1>3, <1>a DEF TypeOK, WorkerExit, IsProfileLocked, InQueue, Acquiring
<1>4. ASSUME NEW t \in Threads, AcquireProfileLock(t),
             NEW q \in unserved'
      PROVE  ~IsProfileLocked(q)' /\ (InQueue(q)' \/ Acquiring(q)')
  <2>1. q \in unserved /\ q \in Profiles /\ q # job[t]
    BY <1>4, <1>c DEF AcquireProfileLock
  <2>2. ~IsProfileLocked(q)'
    BY <1>4, <1>a, <2>1 DEF TypeOK, AcquireProfileLock, IsProfileLocked
  <2>3. InQueue(q) => InQueue(q)'
    BY <1>4 DEF AcquireProfileLock, InQueue
  <2>4. Acquiring(q) => Acquiring(q)'
    BY <1>4, <2>1 DEF TypeOK, AcquireProfileLock, Acquiring
  <2> QED BY <1>a, <2>1, <2>2, <2>3, <2>4
<1>5. ASSUME NEW t \in Threads, DropLocked(t),
             NEW q \in unserved'
      PROVE  ~IsProfileLocked(q)' /\ (InQueue(q)' \/ Acquiring(q)')
  <2>1. q \in unserved /\ ~IsProfileLocked(q)
    BY <1>5, <1>a DEF DropLocked
  <2>2. q # job[t]
    BY <1>5, <2>1 DEF DropLocked
  <2>3. Acquiring(q) => Acquiring(q)'
    BY <1>5, <2>2 DEF TypeOK, DropLocked, Acquiring
  <2> QED BY <1>5, <1>a, <2>1, <2>3 DEF DropLocked, IsProfileLocked, InQueue
<1>6. ASSUME NEW t \in Threads, FinishLogin(t),
             NEW q \in unserved'
      PROVE  ~IsProfileLocked(q)' /\ (InQueue(q)' \/ Acquiring(q)')
  BY <1>6, <1>a DEF TypeOK, FinishLogin, IsProfileLocked, InQueue, Acquiring
<1>7. ASSUME Tick,
             NEW q \in unserved'
      PROVE  ~IsProfileLocked(q)' /\ (InQueue(q)' \/ Acquiring(q)')
  <2>1. q \in unserved /\ q \in Profiles
    BY <1>7, <1>c DEF Tick
  <2>2. ~IsProfileLocked(q)'
    BY <1>7, <1>a, <2>1 DEF TypeOK, Tick, IsProfileLocked
  <2> QED BY <1>7, <1>a, <2>1, <2>2 DEF Tick, InQueue, Acquiring
<1>8. ASSUME UNCHANGED vars,
             NEW q \in unserved'
      PROVE  ~IsProfileLocked(q)' /\ (InQueue(q)' \/ Acquiring(q)')
  BY <1>8, <1>a DEF vars, IsProfileLocked, InQueue, Acquiring
<1> QED
  BY <1>1, <1>2, <1>3, <1>4, <1>5, <1>6, <1>7, <1>8 DEF Next, Worker

\* The invariant the theorems below rest on holds in every reachable state.
THEOREM Invariance == Spec => []IInv
<1>1. IInv /\ [Next]_vars => IInv'
  BY TypeStep, OneWorkerStep, LockIsLastStartStep, RequestKeptStep DEF IInv
<1> QED BY InitIInv, <1>1, PTL DEF Spec

\* At most one `aws sso login` runs at any time.
THEOREM LoginsAreSerial == Spec => []SerialLogins
<1>1. IInv => SerialLogins
  BY DEF IInv, OneWorker, SerialLogins
<1> QED BY Invariance, <1>1, PTL

\* An accepted request is never lost before a login of its profile starts.
THEOREM RequestsAreKept == Spec => []RequestKept
<1>1. IInv => RequestKept
  BY DEF IInv
<1> QED BY Invariance, <1>1, PTL

\* Two logins of one profile never start within LockSeconds of each other.
THEOREM LoginsCoolDown == Spec => Cooldown
<1>1. IInv /\ [Next]_vars => [CooldownStep]_vars
  <2> SUFFICES ASSUME IInv, [Next]_vars, NEW p \in Profiles, StartsLogin(p)
               PROVE  lastStart[p] = None \/ now >= lastStart[p] + LockSeconds
    BY DEF CooldownStep
  <2>1. PICK t \in Threads : pc[t] = "acquire" /\ job[t] = p /\ pc'[t] = "login"
    BY DEF StartsLogin
  <2>2. AcquireProfileLock(t)
    BY <2>1 DEF IInv, TypeOK, Next, Worker, Enqueue, StartWorker, TakeNext,
                WorkerExit, AcquireProfileLock, DropLocked, FinishLogin, Tick, vars
  <2>3. ~IsProfileLocked(p)
    BY <2>1, <2>2 DEF AcquireProfileLock
  <2> QED
    BY <2>3, ConstantsAssumption DEF IInv, TypeOK, LockIsLastStart, IsProfileLocked
<1> QED BY Invariance, <1>1, PTL DEF Spec, Cooldown

-----------------------------------------------------------------------------
(* The lost-wakeup argument needs threads to start: if Thread.start() may   *)
(* raise, _processing can stay set with no thread behind it.                *)

FlagHasWorker ==
    /\ queue # <<>> => processing
    /\ processing => \E t \in Threads : pc[t] # "none"

LEMMA FlagHasWorkerStep ==
    ASSUME ~ThreadStartMayFail
    PROVE  TypeOK /\ OneWorker /\ FlagHasWorker /\ [Next]_vars => FlagHasWorker'
<1> SUFFICES ASSUME TypeOK, OneWorker, FlagHasWorker, [Next]_vars
             PROVE  FlagHasWorker'
  OBVIOUS
<1>1. ASSUME NEW p \in Profiles, Enqueue(p) PROVE FlagHasWorker'
  <2>1. CASE processing
    BY <1>1, <2>1 DEF FlagHasWorker, Enqueue
  <2>2. CASE ~processing
    <3>1. StartWorker
      BY <1>1, <2>2 DEF Enqueue
    <3>2. PICK t \in Threads : pc' = [pc EXCEPT ![t] = "loop"]
      BY <3>1 DEF StartWorker
    <3>3. pc'[t] # "none"
      BY <3>2 DEF TypeOK
    <3> QED BY <3>1, <3>3 DEF FlagHasWorker, StartWorker
  <2> QED BY <2>1, <2>2
<1>2. ASSUME NEW t \in Threads, TakeNext(t) PROVE FlagHasWorker'
  <2>1. processing' /\ pc'[t] # "none"
    BY <1>2 DEF TypeOK, FlagHasWorker, TakeNext
  <2> QED BY <2>1 DEF FlagHasWorker
<1>3. ASSUME NEW t \in Threads, WorkerExit(t) PROVE FlagHasWorker'
  BY <1>3 DEF FlagHasWorker, WorkerExit
<1>4. ASSUME NEW t \in Threads,
             AcquireProfileLock(t) \/ DropLocked(t) \/ FinishLogin(t)
      PROVE  FlagHasWorker'
  <2>1. queue' = queue /\ processing' = processing
    BY <1>4 DEF AcquireProfileLock, DropLocked, FinishLogin
  <2>2. pc'[t] # "none"
    BY <1>4 DEF TypeOK, AcquireProfileLock, DropLocked, FinishLogin
  <2> QED BY <2>1, <2>2 DEF FlagHasWorker
<1>5. ASSUME Tick \/ UNCHANGED vars PROVE FlagHasWorker'
  BY <1>5 DEF FlagHasWorker, Tick, vars
<1> QED
  BY <1>1, <1>2, <1>3, <1>4, <1>5 DEF Next, Worker

\* If threads can be started, a queued request never waits for a worker that
\* is not there.
THEOREM NoLostWakeup ==
    ASSUME ~ThreadStartMayFail
    PROVE  Spec => []QueueHasWorker
<1>1. Init => FlagHasWorker
  BY DEF Init, FlagHasWorker
<1>2. IInv /\ FlagHasWorker /\ [Next]_vars => FlagHasWorker'
  BY FlagHasWorkerStep DEF IInv
<1>3. FlagHasWorker => QueueHasWorker
  BY DEF FlagHasWorker, QueueHasWorker
<1> QED BY Invariance, <1>1, <1>2, <1>3, PTL DEF Spec

-----------------------------------------------------------------------------
(* LoginQueue implements LoginService.                                      *)

LEMMA ActiveIsTheJob ==
    ASSUME OneWorker, NEW t \in Threads, pc[t] = "login"
    PROVE  Active = job[t]
<1> DEFINE u == CHOOSE x \in Threads : pc[x] = "login"
<1>1. u \in Threads /\ pc[u] = "login"
  OBVIOUS
<1>2. u = t
  BY <1>1 DEF OneWorker
<1> QED BY <1>2 DEF Active

LEMMA ActiveIsTheJobNext ==
    ASSUME OneWorker', NEW t \in Threads, pc'[t] = "login"
    PROVE  Active' = job'[t]
<1> DEFINE u == CHOOSE x \in Threads : pc'[x] = "login"
<1>1. u \in Threads /\ pc'[u] = "login"
  OBVIOUS
<1>2. u = t
  BY <1>1 DEF OneWorker
<1> QED BY <1>2 DEF Active

\* Threads that neither enter nor leave a login leave Active alone.
LEMMA ActiveUnchanged ==
    ASSUME OneWorker, OneWorker',
           \A t \in Threads : pc'[t] = "login" <=> pc[t] = "login",
           \A t \in Threads : pc[t] = "login" => job'[t] = job[t]
    PROVE  Active' = Active
<1>1. CASE \E t \in Threads : pc[t] = "login"
  <2>1. PICK t \in Threads : pc[t] = "login"
    BY <1>1
  <2>2. pc'[t] = "login" /\ job'[t] = job[t]
    BY <2>1
  <2>3. Active = job[t]
    BY <2>1, ActiveIsTheJob
  <2>4. Active' = job'[t]
    BY <2>2, ActiveIsTheJobNext
  <2> QED BY <2>2, <2>3, <2>4
<1>2. CASE \A t \in Threads : pc[t] # "login"
  BY <1>2 DEF Active
<1> QED BY <1>1, <1>2

LEMMA NobodyActive ==
    ASSUME \A t \in Threads : pc[t] # "login"
    PROVE  Active = None
BY DEF Active

LEMMA RefinementStep ==
    IInv /\ IInv' /\ [Next]_vars => [Service!Next]_(Service!vars)
<1> SUFFICES ASSUME IInv, IInv', [Next]_vars
             PROVE  Service!Next \/ UNCHANGED Service!vars
  OBVIOUS
<1> USE ConstantsAssumption
<1>t. TypeOK /\ OneWorker /\ LockIsLastStart /\ RequestKept /\ OneWorker'
  BY DEF IInv
<1>c. \A p \in Profiles : Service!CoolingDown(p) <=> IsProfileLocked(p)
  BY <1>t DEF TypeOK, LockIsLastStart, IsProfileLocked, Service!CoolingDown
<1>w. \A q : q \in Wanted <=> q \in Profiles /\ (InQueue(q) \/ Acquiring(q))
  BY DEF Wanted, Acquiring
<1>x. \A q : q \in Wanted' <=> q \in Profiles /\ (InQueue(q)' \/ Acquiring(q)')
  BY DEF Wanted, Acquiring
<1>1. ASSUME NEW p \in Profiles, Enqueue(p) PROVE Service!Request(p)
  <2>1. \A q \in Profiles : InQueue(q)' <=> InQueue(q) \/ q = p
    <3>1. CASE InQueue(p)
      BY <1>1, <3>1 DEF Enqueue, InQueue
    <3>2. CASE ~InQueue(p)
      BY <1>1, <1>t, <3>2, InQueueAppend DEF Enqueue
    <3> QED BY <3>1, <3>2
  <2>2. \A t \in Threads : \A s \in {"acquire", "login"} : pc'[t] = s <=> pc[t] = s
    BY <1>1, <1>t DEF TypeOK, Enqueue, StartWorker
  <2>3. \A q \in Profiles : Acquiring(q)' <=> Acquiring(q)
    BY <1>1, <2>2 DEF Acquiring, Enqueue
  <2>4. Wanted' = Wanted \cup {p}
    BY <1>w, <1>x, <2>1, <2>3
  <2>5. Active' = Active
    <3>1. \A t \in Threads : pc'[t] = "login" <=> pc[t] = "login"
      BY <2>2
    <3>2. job' = job
      BY <1>1 DEF Enqueue
    <3> QED BY <1>t, <3>1, <3>2, ActiveUnchanged
  <2> QED BY <1>1, <1>c, <2>4, <2>5 DEF Service!Request, Enqueue
<1>2. ASSUME NEW t \in Threads, TakeNext(t) PROVE UNCHANGED Service!vars
  <2>1. Head(queue) \in Profiles
    BY <1>2, <1>t DEF TypeOK, TakeNext
  <2>2. \A q \in Profiles : /\ InQueue(q) => InQueue(q)' \/ q = Head(queue)
                            /\ InQueue(q)' => InQueue(q)
                            /\ InQueue(Head(queue))
    BY <1>2, <1>t, InQueueTail DEF TakeNext
  <2>3. \A q \in Profiles : Acquiring(q)' <=> Acquiring(q) \/ q = Head(queue)
    <3>1. /\ pc[t] = "loop" /\ pc'[t] = "acquire" /\ job'[t] = Head(queue)
          /\ \A u \in Threads \ {t} : pc'[u] = pc[u] /\ job'[u] = job[u]
      BY <1>2, <1>t DEF TypeOK, TakeNext
    <3> QED BY <3>1 DEF Acquiring
  <2>4. Wanted' = Wanted
    BY <1>w, <1>x, <2>1, <2>2, <2>3
  <2>5. Active' = Active
    <3>1. /\ \A u \in Threads : pc'[u] = "login" <=> pc[u] = "login"
          /\ \A u \in Threads : pc[u] = "login" => job'[u] = job[u]
      BY <1>2, <1>t DEF TypeOK, TakeNext
    <3> QED BY <1>t, <3>1, ActiveUnchanged
  <2> QED BY <1>2, <2>4, <2>5 DEF TakeNext, Service!vars
<1>3. ASSUME NEW t \in Threads, WorkerExit(t) PROVE UNCHANGED Service!vars
  <2>1. Wanted' = Wanted
    <3>1. \A q \in Profiles : Acquiring(q)' <=> Acquiring(q)
      BY <1>3, <1>t DEF TypeOK, WorkerExit, Acquiring
    <3>2. \A q \in Profiles : InQueue(q)' <=> InQueue(q)
      BY <1>3 DEF WorkerExit, InQueue
    <3> QED BY <1>w, <1>x, <3>1, <3>2
  <2>2. Active' = Active
    <3>1. /\ \A u \in Threads : pc'[u] = "login" <=> pc[u] = "login"
          /\ \A u \in Threads : pc[u] = "login" => job'[u] = job[u]
      BY <1>3, <1>t DEF TypeOK, WorkerExit
    <3> QED BY <1>t, <3>1, ActiveUnchanged
  <2> QED BY <1>3, <2>1, <2>2 DEF WorkerExit, Service!vars
<1>4. ASSUME NEW t \in Threads, AcquireProfileLock(t) PROVE Service!Start(job[t])
  <2> DEFINE p == job[t]
  <2>1. p \in Profiles /\ Acquiring(p)
    BY <1>4, <1>t DEF TypeOK, AcquireProfileLock, Acquiring
  <2>2. \A u \in Threads : pc[u] # "none" => u = t
    BY <1>4, <1>t DEF OneWorker, AcquireProfileLock
  <2>3. \A u \in Threads : pc[u] # "login"
    BY <1>4, <2>2 DEF AcquireProfileLock
  <2>4. Active = None
    BY <2>3, NobodyActive
  <2>5. pc'[t] = "login" /\ job'[t] = p
    BY <1>4, <1>t DEF TypeOK, AcquireProfileLock
  <2>6. Active' = p
    BY <2>5, ActiveIsTheJobNext DEF IInv
  <2>7. Wanted' \in {Wanted, Wanted \ {p}}
    <3>1. \A q \in Profiles : InQueue(q)' <=> InQueue(q)
      BY <1>4 DEF AcquireProfileLock, InQueue
    <3>2. \A q \in Profiles : Acquiring(q) <=> q = p
      BY <1>4, <2>2 DEF AcquireProfileLock, Acquiring
    <3>3. \A q \in Profiles : ~Acquiring(q)'
      BY <1>4, <1>t, <2>2 DEF TypeOK, AcquireProfileLock, Acquiring
    <3>4. CASE InQueue(p)
      <4>1. Wanted' = Wanted
        BY <1>w, <1>x, <3>1, <3>2, <3>3, <3>4
      <4> QED BY <4>1
    <3>5. CASE ~InQueue(p)
      <4>1. Wanted' = Wanted \ {p}
        BY <1>w, <1>x, <3>1, <3>2, <3>3, <3>5
      <4> QED BY <4>1
    <3> QED BY <3>4, <3>5
  <2>8. ~Service!CoolingDown(p) /\ p \in Wanted
    BY <1>4, <1>c, <1>w, <2>1 DEF AcquireProfileLock
  <2> QED BY <1>4, <2>4, <2>6, <2>7, <2>8 DEF AcquireProfileLock, Service!Start
<1>5. ASSUME NEW t \in Threads, DropLocked(t)
      PROVE  Service!Drop(job[t]) \/ UNCHANGED Service!vars
  <2> DEFINE p == job[t]
  <2>1. p \in Profiles /\ Acquiring(p) /\ p \notin unserved
    BY <1>5, <1>t DEF TypeOK, DropLocked, Acquiring, RequestKept
  <2>2. \A q \in Profiles : InQueue(q)' <=> InQueue(q)
    BY <1>5 DEF DropLocked, InQueue
  <2>3. \A u \in Threads : pc[u] # "none" => u = t
    BY <1>5, <1>t DEF OneWorker, DropLocked
  <2>4. \A q \in Profiles : (Acquiring(q) <=> q = p) /\ ~Acquiring(q)'
    BY <1>5, <1>t, <2>3 DEF TypeOK, DropLocked, Acquiring
  <2>5. Active' = Active
    <3>1. /\ \A u \in Threads : pc'[u] = "login" <=> pc[u] = "login"
          /\ \A u \in Threads : pc[u] = "login" => job'[u] = job[u]
      BY <1>5, <1>t DEF TypeOK, DropLocked
    <3> QED BY <1>t, <3>1, ActiveUnchanged
  <2>6. CASE InQueue(p)
    <3>1. Wanted' = Wanted
      BY <1>w, <1>x, <2>2, <2>4, <2>6
    <3> QED BY <1>5, <2>5, <3>1 DEF DropLocked, Service!vars
  <2>7. CASE ~InQueue(p)
    <3>1. Wanted' = Wanted \ {p}
      BY <1>w, <1>x, <2>2, <2>4, <2>7
    <3>2. p \in Wanted \ unserved
      BY <1>w, <2>1
    <3> QED BY <1>5, <2>5, <3>1, <3>2 DEF DropLocked, Service!Drop
  <2> QED BY <2>6, <2>7
<1>6. ASSUME NEW t \in Threads, FinishLogin(t) PROVE Service!Finish
  <2>1. \A u \in Threads : pc[u] # "none" => u = t
    BY <1>6, <1>t DEF OneWorker, FinishLogin
  <2>2. Active = job[t] /\ job[t] # None
    BY <1>6, <1>t, ActiveIsTheJob DEF TypeOK, FinishLogin
  <2>3. \A u \in Threads : pc'[u] # "login" /\ pc'[u] # "acquire"
    BY <1>6, <1>t, <2>1 DEF TypeOK, FinishLogin
  <2>4. Active' = None
    BY <2>3 DEF Active
  <2>5. Wanted' = Wanted
    <3>1. \A q \in Profiles : InQueue(q)' <=> InQueue(q)
      BY <1>6 DEF FinishLogin, InQueue
    <3>2. \A q \in Profiles : ~Acquiring(q) /\ ~Acquiring(q)'
      BY <1>6, <2>1, <2>3 DEF FinishLogin, Acquiring
    <3> QED BY <1>w, <1>x, <3>1, <3>2
  <2> QED BY <1>6, <2>2, <2>4, <2>5 DEF FinishLogin, Service!Finish
<1>7. ASSUME Tick PROVE Service!Tick
  <2>1. Wanted' = Wanted /\ Active' = Active
    BY <1>7 DEF Tick, Wanted, Active, InQueue
  <2> QED BY <1>7, <2>1 DEF Tick, Service!Tick
<1>8. ASSUME UNCHANGED vars PROVE UNCHANGED Service!vars
  BY <1>8 DEF vars, Service!vars, Wanted, Active, InQueue
<1>9. CASE \E p \in Profiles : Enqueue(p)
  BY <1>1, <1>9 DEF Service!Next
<1>10. ASSUME NEW t \in Threads, Worker(t)
       PROVE  Service!Next \/ UNCHANGED Service!vars
  <2>1. pc[t] = "acquire" => job[t] \in Profiles
    BY <1>t DEF TypeOK
  <2> QED
    BY <1>2, <1>3, <1>4, <1>5, <1>6, <1>10, <2>1
       DEF Worker, AcquireProfileLock, DropLocked, Service!Next
<1> QED
  BY <1>7, <1>8, <1>9, <1>10 DEF Next, Service!Next

\* The login queue, with its flag, lock table and worker threads, does
\* nothing the login service does not allow.
THEOREM LoginQueueImplementsService == Spec => ImplementsLoginService
<1>1. Init => Service!Init
  <2> SUFFICES ASSUME Init PROVE Service!Init
    OBVIOUS
  <2>1. Wanted = {}
    BY DEF Init, Wanted, InQueue
  <2>2. Active = None
    BY NobodyActive DEF Init
  <2> QED BY <2>1, <2>2 DEF Init, Service!Init
<1>2. IInv /\ IInv' /\ [Next]_vars => [Service!Next]_(Service!vars)
  BY RefinementStep
<1> QED BY Invariance, <1>1, <1>2, PTL DEF Spec, ImplementsLoginService, Service!Spec
=============================================================================
