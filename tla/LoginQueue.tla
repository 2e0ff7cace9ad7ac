----------------------------- MODULE LoginQueue -----------------------------
(***************************************************************************)
(* LoginOperator (aws_sso_autologin/operator.py): the serial login queue.  *)
(* Any thread may call enqueue; a worker thread is started when none is    *)
(* processing, pops profiles one by one and runs `aws sso login` outside   *)
(* the lock.  A profile is locked from the start of its login for          *)
(* LockSeconds and nothing releases it earlier.                            *)
(*                                                                         *)
(* One action is one critical section of self._lock, or the end of a login *)
(* (an external command that ends within LoginTimeout, see AwsCommand).    *)
(* The browser override is a constant of the profile and is left out; so   *)
(* is the result of a login, which _process_queue discards.                *)
(***************************************************************************)
EXTENDS Naturals, Sequences

CONSTANTS
    Profiles,             \* profile names
    Threads,              \* identities a worker thread can have
    LockSeconds,          \* LOGIN_LOCK_SECONDS
    LoginTimeout,         \* SSO_LOGIN_TIMEOUT_SECONDS and the grace after it
    MaxTime,              \* bound on the clock (checking only)
    ThreadStartMayFail,   \* TRUE: Thread.start() may raise
    None

ASSUME ConstantsAssumption ==
    /\ LockSeconds \in Nat
    /\ LoginTimeout \in Nat \ {0}
    /\ MaxTime \in Nat
    /\ ThreadStartMayFail \in BOOLEAN
    /\ None \notin Nat
    /\ None \notin Profiles

VARIABLES
    now,           \* time.time()
    queue,         \* _queue
    profileLocks,  \* _profile_locks: the time a profile was locked, or None
    processing,    \* _processing
    pc,            \* where each worker thread is
    job,           \* profile_name of each worker thread
    unserved,      \* history: profiles accepted since their last login started
    lastStart      \* history: when the last login of a profile started

vars == <<now, queue, profileLocks, processing, pc, job, unserved, lastStart>>

Init ==
    /\ now = 0
    /\ queue = <<>>
    /\ profileLocks = [p \in Profiles |-> None]
    /\ processing = FALSE
    /\ pc = [t \in Threads |-> "none"]
    /\ job = [t \in Threads |-> None]
    /\ unserved = {}
    /\ lastStart = [p \in Profiles |-> None]

InQueue(p) == \E i \in 1..Len(queue) : queue[i] = p

IsProfileLocked(p) ==
    profileLocks[p] # None /\ now < profileLocks[p] + LockSeconds

\* The flag is set before the thread exists: a start that raises leaves the
\* flag set with nobody behind it, and the exception goes to the caller.
StartWorker ==
    /\ processing' = TRUE
    /\ \/ \E t \in Threads :
             /\ pc[t] = "none"
             /\ pc' = [pc EXCEPT ![t] = "loop"]
       \/ ThreadStartMayFail /\ UNCHANGED pc

\* Mutant: starts a worker whether or not one is processing.
Enqueue_AlwaysStartsWorker(p) ==
    /\ ~IsProfileLocked(p)
    /\ profileLocks' = [profileLocks EXCEPT ![p] = None]
    /\ queue' = IF InQueue(p) THEN queue ELSE Append(queue, p)
    /\ unserved' = unserved \cup {p}
    /\ StartWorker
    /\ UNCHANGED <<now, job, lastStart>>

\* Mutant: accepts a request for a locked profile.
Enqueue_Unchecked(p) ==
    /\ queue' = IF InQueue(p) THEN queue ELSE Append(queue, p)
    /\ unserved' = unserved \cup {p}
    /\ IF processing THEN UNCHANGED <<processing, pc>> ELSE StartWorker
    /\ UNCHANGED <<now, profileLocks, job, lastStart>>

\* enqueue on an unlocked profile (_is_profile_locked deletes an expired
\* entry).  On a locked one it returns LOCKED and changes nothing.
Enqueue(p) ==
    /\ ~IsProfileLocked(p)
    /\ profileLocks' = [profileLocks EXCEPT ![p] = None]
    /\ queue' = IF InQueue(p) THEN queue ELSE Append(queue, p)
    /\ unserved' = unserved \cup {p}
    /\ IF processing THEN UNCHANGED <<processing, pc>> ELSE StartWorker
    /\ UNCHANGED <<now, job, lastStart>>

\* Mutant: pops the queue without telling the login which profile it popped.
TakeNext_LosesJob(t) ==
    /\ pc[t] = "loop"
    /\ queue # <<>>
    /\ queue' = Tail(queue)
    /\ pc' = [pc EXCEPT ![t] = "acquire"]
    /\ UNCHANGED <<now, profileLocks, processing, job, unserved, lastStart>>

\* The two outcomes of the critical section of _process_queue.
TakeNext(t) ==
    /\ pc[t] = "loop"
    /\ queue # <<>>
    /\ job' = [job EXCEPT ![t] = Head(queue)]
    /\ queue' = Tail(queue)
    /\ pc' = [pc EXCEPT ![t] = "acquire"]
    /\ UNCHANGED <<now, profileLocks, processing, unserved, lastStart>>

\* Mutant: leaves the loop without clearing _processing.
WorkerExit_KeepsFlag(t) ==
    /\ pc[t] = "loop"
    /\ queue = <<>>
    /\ pc' = [pc EXCEPT ![t] = "none"]
    /\ UNCHANGED <<now, queue, profileLocks, processing, job, unserved, lastStart>>

WorkerExit(t) ==
    /\ pc[t] = "loop"
    /\ queue = <<>>
    /\ processing' = FALSE
    /\ pc' = [pc EXCEPT ![t] = "none"]
    /\ UNCHANGED <<now, queue, profileLocks, job, unserved, lastStart>>

\* Mutant: locks the profile without looking at the lock it replaces.
AcquireProfileLock_Unchecked(t) ==
    /\ pc[t] = "acquire"
    /\ profileLocks' = [profileLocks EXCEPT ![job[t]] = now]
    /\ lastStart' = [lastStart EXCEPT ![job[t]] = now]
    /\ unserved' = unserved \ {job[t]}
    /\ pc' = [pc EXCEPT ![t] = "login"]
    /\ UNCHANGED <<now, queue, processing, job>>

\* _acquire_profile_lock and the launch of the login.
AcquireProfileLock(t) ==
    /\ pc[t] = "acquire"
    /\ ~IsProfileLocked(job[t])
    /\ profileLocks' = [profileLocks EXCEPT ![job[t]] = now]
    /\ lastStart' = [lastStart EXCEPT ![job[t]] = now]
    /\ unserved' = unserved \ {job[t]}
    /\ pc' = [pc EXCEPT ![t] = "login"]
    /\ UNCHANGED <<now, queue, processing, job>>

\* _process_login returns LOCKED, which nobody looks at.
DropLocked(t) ==
    /\ pc[t] = "acquire"
    /\ IsProfileLocked(job[t])
    /\ pc' = [pc EXCEPT ![t] = "loop"]
    /\ job' = [job EXCEPT ![t] = None]
    /\ UNCHANGED <<now, queue, profileLocks, processing, unserved, lastStart>>

\* Mutant: releases the lock when the login ends (_release_profile_lock).
FinishLogin_ReleasesLock(t) ==
    /\ pc[t] = "login"
    /\ pc' = [pc EXCEPT ![t] = "loop"]
    /\ job' = [job EXCEPT ![t] = None]
    /\ profileLocks' = [profileLocks EXCEPT ![job[t]] = None]
    /\ UNCHANGED <<now, queue, processing, unserved, lastStart>>

\* The login command ended, well or badly.  The lock stays.
FinishLogin(t) ==
    /\ pc[t] = "login"
    /\ pc' = [pc EXCEPT ![t] = "loop"]
    /\ job' = [job EXCEPT ![t] = None]
    /\ UNCHANGED <<now, queue, profileLocks, processing, unserved, lastStart>>

\* Time does not pass a login's timeout: the command has ended by then.
Tick ==
    /\ now < MaxTime
    /\ \A t \in Threads : pc[t] = "login" => now < lastStart[job[t]] + LoginTimeout
    /\ now' = now + 1
    /\ UNCHANGED <<queue, profileLocks, processing, pc, job, unserved, lastStart>>

Worker(t) ==
    \/ TakeNext(t)
    \/ WorkerExit(t)
    \/ AcquireProfileLock(t)
    \/ DropLocked(t)
    \/ FinishLogin(t)

Next ==
    \/ \E p \in Profiles : Enqueue(p)
    \/ \E t \in Threads : Worker(t)
    \/ Tick

Spec == Init /\ [][Next]_vars

\* A running thread keeps running, and a login command ends (the timeout
\* escalation of aws.py sees to it).  Nothing obliges a caller to enqueue.
FairSpec == Spec /\ \A t \in Threads : WF_vars(Worker(t))

-----------------------------------------------------------------------------

TypeOK ==
    /\ now \in Nat
    /\ queue \in Seq(Profiles)
    /\ profileLocks \in [Profiles -> Nat \cup {None}]
    /\ processing \in BOOLEAN
    /\ pc \in [Threads -> {"none", "loop", "acquire", "login"}]
    /\ job \in [Threads -> Profiles \cup {None}]
    /\ \A t \in Threads : pc[t] \in {"acquire", "login"} => job[t] \in Profiles
    /\ unserved \subseteq Profiles
    /\ lastStart \in [Profiles -> Nat \cup {None}]

\* Logins are serial: two threads are never in `aws sso login` at once,
\* whatever the callers of enqueue do while a worker is leaving its loop.
SerialLogins ==
    \A t, u \in Threads : pc[t] = "login" /\ pc[u] = "login" => t = u

\* No lost wakeup: while a request is queued some worker thread is alive to
\* take it, although enqueue starts one only if _processing is clear.
QueueHasWorker ==
    queue # <<>> => processing /\ \E t \in Threads : pc[t] # "none"

\* An accepted request is never dropped before a login of its profile
\* starts: it is still queued or in the hands of a worker that will find
\* the profile unlocked, even if it raced with the previous login's lock.
RequestKept ==
    \A p \in unserved :
        /\ ~IsProfileLocked(p)
        /\ InQueue(p) \/ \E t \in Threads : pc[t] = "acquire" /\ job[t] = p

StartsLogin(p) == \E t \in Threads : pc[t] = "acquire" /\ job[t] = p /\ pc'[t] = "login"

\* Two logins of one profile start at least LockSeconds apart, also when the
\* profile was queued again in the window between the pop and the lock.
CooldownStep ==
    \A p \in Profiles :
        StartsLogin(p) => \/ lastStart[p] = None
                          \/ now >= lastStart[p] + LockSeconds

\* CooldownStep for every step of the login queue.
Cooldown == [][CooldownStep]_vars

\* Every accepted request is followed by a login of its profile.
RequestServed == \A p \in Profiles : p \in unserved ~> p \notin unserved

\* The refinement mapping.
Wanted ==
    {p \in Profiles :
        InQueue(p) \/ \E t \in Threads : pc[t] = "acquire" /\ job[t] = p}

Active ==
    IF \E t \in Threads : pc[t] = "login"
    THEN job[CHOOSE t \in Threads : pc[t] = "login"]
    ELSE None

Service == INSTANCE LoginService
    WITH Cooldown <- LockSeconds, wanted <- Wanted, active <- Active

\* The queue, its lock and its workers implement the login service: every
\* step is a step of LoginService or changes nothing it can see.
ImplementsLoginService == Service!Spec
=============================================================================
