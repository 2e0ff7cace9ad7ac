------------------------------ MODULE AwsCommand ------------------------------
(***************************************************************************)
(* One `aws sso login` after another, as run_sso_login executes them       *)
(* (aws_sso_autologin/aws.py): an optional browser wrapper, the child      *)
(* process, and the timeout escalation of _run_subprocess_with_escalation: *)
(* one-second polls up to the timeout, terminate, a grace period, kill.    *)
(*                                                                         *)
(* communicate() returns when the child is dead and its pipes are closed.  *)
(* The child may ignore the termination; a process it started (a browser)  *)
(* may keep the pipes open after its death.                                *)
(***************************************************************************)
EXTENDS Naturals

CONSTANTS
    Timeout,   \* seconds before the termination
    Grace      \* seconds between the termination and the kill

ASSUME CommandAssumption ==
    /\ Timeout \in Nat \ {0}
    /\ Grace \in Nat \ {0}

VARIABLES
    pc,          \* where the calling thread is
    remaining,   \* remaining_timeout
    elapsed,     \* history: seconds since the child was started
    child,       \* "none", "running" or "exited"
    exitedWell,  \* the child's exit status is 0
    terminated,  \* SIGTERM was sent to the child
    killed,      \* SIGKILL was sent to the child
    pipesOpen,   \* somebody holds the write end of the child's pipes
    wrapper,     \* what exists of this login's browser wrapper: "file", "dir"
    named,       \* run_sso_login knows wrapper_path and wrapper_dir
    refused,     \* history: the system refused to remove file or directory
    outcome      \* of the last login: "none", "ok", "failed" or "timeout"

vars == <<pc, remaining, elapsed, child, exitedWell, terminated, killed,
          pipesOpen, wrapper, named, refused, outcome>>

childVars == <<child, exitedWell, pipesOpen>>
signals == <<terminated, killed>>
wrapperVars == <<wrapper, named, refused>>

Init ==
    /\ pc = "idle"
    /\ remaining = Timeout
    /\ elapsed = 0
    /\ child = "none"
    /\ exitedWell = FALSE
    /\ terminated = FALSE
    /\ killed = FALSE
    /\ pipesOpen = FALSE
    /\ wrapper = {}
    /\ named = FALSE
    /\ refused = FALSE
    /\ outcome = "none"

-----------------------------------------------------------------------------
(* run_sso_login, in the worker thread.                                     *)

\* What an earlier login left of its wrapper is out of sight from here on.
StartLogin(withBrowser) ==
    /\ pc = "idle"
    /\ pc' = IF withBrowser THEN "wrapper" ELSE "spawn"
    /\ wrapper' = {}
    /\ named' = FALSE
    /\ refused' = FALSE
    /\ outcome' = "none"
    /\ UNCHANGED <<remaining, elapsed, childVars, signals>>

CreateWrapper ==
    /\ pc = "wrapper"
    /\ wrapper' = {"file", "dir"}
    /\ named' = TRUE
    /\ pc' = "spawn"
    /\ UNCHANGED <<remaining, elapsed, childVars, signals, refused, outcome>>

\* An exception in _create_browser_wrapper: before mkdtemp, or with the
\* directory or the file made.  The caller does not learn their names.
CreateWrapperFails ==
    /\ pc = "wrapper"
    /\ wrapper' \in {{}, {"dir"}, {"file", "dir"}}
    /\ pc' = "cleanup"
    /\ outcome' = "failed"
    /\ UNCHANGED <<remaining, elapsed, childVars, signals, named, refused>>

\* _validate_wrapper_path refuses what it finds at the path.
RejectWrapper ==
    /\ pc = "spawn"
    /\ named
    /\ pc' = "cleanup"
    /\ outcome' = "failed"
    /\ UNCHANGED <<remaining, elapsed, childVars, signals, wrapperVars>>

Spawn ==
    /\ pc = "spawn"
    /\ child' = "running"
    /\ exitedWell' = FALSE
    /\ pipesOpen' = TRUE
    /\ remaining' = Timeout
    /\ elapsed' = 0
    /\ terminated' = FALSE
    /\ killed' = FALSE
    /\ pc' = "poll"
    /\ UNCHANGED <<wrapperVars, outcome>>

\* The aws command is not installed.
SpawnFails ==
    /\ pc = "spawn"
    /\ pc' = "cleanup"
    /\ outcome' = "failed"
    /\ UNCHANGED <<remaining, elapsed, childVars, signals, wrapperVars>>

Communicated == child = "exited" /\ ~pipesOpen

Completes ==
    /\ pc = "poll"
    /\ Communicated
    /\ pc' = "cleanup"
    /\ outcome' = IF exitedWell THEN "ok" ELSE "failed"
    /\ UNCHANGED <<remaining, elapsed, childVars, signals, wrapperVars>>

\* A second passed without an end.
PollExpires ==
    /\ pc = "poll"
    /\ ~Communicated
    /\ remaining' = remaining - 1
    /\ elapsed' = elapsed + 1
    /\ pc' = IF remaining = 1 THEN "terminate" ELSE "poll"
    /\ UNCHANGED <<childVars, signals, wrapperVars, outcome>>

\* Mutant: kills at once.
Terminate_Kills ==
    /\ pc = "terminate"
    /\ terminated' = TRUE
    /\ killed' = TRUE
    /\ pc' = "grace"
    /\ UNCHANGED <<remaining, elapsed, childVars, wrapperVars, outcome>>

Terminate ==
    /\ pc = "terminate"
    /\ terminated' = TRUE
    /\ pc' = "grace"
    /\ UNCHANGED <<remaining, elapsed, childVars, killed, wrapperVars, outcome>>

EndsInGrace ==
    /\ pc = "grace"
    /\ Communicated
    /\ pc' = "cleanup"
    /\ outcome' = "timeout"
    /\ UNCHANGED <<remaining, elapsed, childVars, signals, wrapperVars>>

\* Mutant: gives up after the grace period without killing.
GraceExpires_GivesUp ==
    /\ pc = "grace"
    /\ ~Communicated
    /\ elapsed' = elapsed + Grace
    /\ pc' = "cleanup"
    /\ outcome' = "timeout"
    /\ UNCHANGED <<remaining, childVars, signals, wrapperVars>>

\* Mutant: waits for a child that ignored the termination.
GraceExpires_NoKill ==
    /\ pc = "grace"
    /\ ~Communicated
    /\ elapsed' = elapsed + Grace
    /\ pc' = "reap"
    /\ UNCHANGED <<remaining, childVars, signals, wrapperVars, outcome>>

GraceExpires ==
    /\ pc = "grace"
    /\ ~Communicated
    /\ elapsed' = elapsed + Grace
    /\ killed' = TRUE
    /\ pc' = "reap"
    /\ UNCHANGED <<remaining, childVars, terminated, wrapperVars, outcome>>

\* communicate() without a timeout.
Reap ==
    /\ pc = "reap"
    /\ Communicated
    /\ pc' = "cleanup"
    /\ outcome' = "timeout"
    /\ UNCHANGED <<remaining, elapsed, childVars, signals, wrapperVars>>

\* Mutant: removes the directory before the file that is in it.
Remains_DirectoryFirst(refusals) ==
    IF "file" \in refusals THEN wrapper ELSE wrapper \ {"file"}

\* What remains if the system refuses these removals.  A directory that is not
\* empty cannot be removed.
Remains(refusals) ==
    IF "file" \in refusals THEN wrapper ELSE wrapper \cap refusals

\* The finally clause with _cleanup_browser_wrapper, which only logs that it
\* could not remove something, and the return to the login queue.
Cleanup ==
    /\ pc = "cleanup"
    /\ \/ /\ named
          /\ \E refusals \in SUBSET {"file", "dir"} :
                /\ wrapper' = Remains(refusals)
                /\ refused' = (refusals # {})
       \/ /\ ~named
          /\ UNCHANGED <<wrapper, refused>>
    /\ pc' = "idle"
    /\ UNCHANGED <<remaining, elapsed, childVars, signals, named, outcome>>

Caller ==
    \/ CreateWrapper
    \/ CreateWrapperFails
    \/ RejectWrapper
    \/ Spawn
    \/ SpawnFails
    \/ Completes
    \/ PollExpires
    \/ Terminate
    \/ EndsInGrace
    \/ GraceExpires
    \/ Reap
    \/ Cleanup

-----------------------------------------------------------------------------
(* The operating system.                                                    *)

\* The child ends by itself, or by a signal.  Its pipes close with it unless
\* a descendant still holds them.
ChildExits(well, held) ==
    /\ child = "running"
    /\ child' = "exited"
    /\ exitedWell' = well
    /\ pipesOpen' = held
    /\ UNCHANGED <<pc, remaining, elapsed, signals, wrapperVars, outcome>>

PipesClose ==
    /\ child = "exited"
    /\ pipesOpen
    /\ pipesOpen' = FALSE
    /\ UNCHANGED <<pc, remaining, elapsed, child, exitedWell, signals,
                   wrapperVars, outcome>>

KilledChildDies == killed /\ \E held \in BOOLEAN : ChildExits(FALSE, held)

Next ==
    \/ \E withBrowser \in BOOLEAN : StartLogin(withBrowser)
    \/ Caller
    \/ \E well, held \in BOOLEAN : ChildExits(well, held)
    \/ PipesClose

Spec == Init /\ [][Next]_vars

-----------------------------------------------------------------------------

TypeOK ==
    /\ pc \in {"idle", "wrapper", "spawn", "poll", "terminate", "grace", "reap",
               "cleanup"}
    /\ remaining \in 0..Timeout
    /\ (pc = "poll") => remaining + elapsed = Timeout
    /\ elapsed \in 0..(Timeout + Grace)
    /\ child \in {"none", "running", "exited"}
    /\ exitedWell \in BOOLEAN
    /\ terminated \in BOOLEAN
    /\ killed \in BOOLEAN
    /\ pipesOpen \in BOOLEAN
    /\ wrapper \in SUBSET {"file", "dir"}
    /\ named \in BOOLEAN
    /\ refused \in BOOLEAN
    /\ outcome \in {"none", "ok", "failed", "timeout"}

\* run_sso_login returns with no child of its own left, whatever the child
\* does with the termination signal: the next login never runs beside it.
NoChildLeft == pc \in {"idle", "cleanup", "wrapper", "spawn"} => child # "running"

\* "send terminate, wait 3 seconds grace, then force kill" (design spec): no
\* child is terminated before the whole timeout has passed, none is killed
\* before it had its grace period, and a timeout is only reported after it.
EscalationInOrder ==
    /\ killed => terminated /\ elapsed >= Timeout + Grace
    /\ terminated => remaining = 0 /\ elapsed >= Timeout
    /\ outcome = "timeout" => terminated

\* A wrapper that was made is complete as long as the child may execute it,
\* also while the escalation goes on, and gone when the login returns, also if
\* it was refused, failed or timed out - unless the system refused the removal.
\* The design spec's "always" is more than the code does: what is left by a
\* refused removal, or by a creation that failed half-way (not named), stays.
WrapperLifetime ==
    named => /\ child = "running" => wrapper = {"file", "dir"}
             /\ pc = "idle" /\ ~refused => wrapper = {}

\* A process that outlives the dead child keeps communicate() waiting.
PipesHeld == child = "exited" /\ pipesOpen
=============================================================================
