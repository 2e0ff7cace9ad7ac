---------------------------- MODULE LoginService ----------------------------
(***************************************************************************)
(* What the login operator promises to its callers, without its queue, its *)
(* worker threads and its locks.  A request for a profile is refused while *)
(* the profile cools down from its last login; an accepted request stays   *)
(* wanted until it is dropped, which is allowed only once a login of the   *)
(* profile has started after it; logins run one at a time and two logins   *)
(* of one profile start at least Cooldown apart.                           *)
(***************************************************************************)
EXTENDS Naturals

CONSTANTS
    Profiles,  \* the profiles that may be logged in
    Cooldown,  \* LOGIN_LOCK_SECONDS
    None       \* "no_time", "no_profile"

VARIABLES
    now,        \* the clock
    wanted,     \* profiles with an accepted request not yet dropped
    unserved,   \* profiles requested since their last login started
    active,     \* the profile being logged in, or None
    lastStart   \* when the last login of each profile started, or None

vars == <<now, wanted, unserved, active, lastStart>>

CoolingDown(p) == lastStart[p] # None /\ now < lastStart[p] + Cooldown

Init ==
    /\ now = 0
    /\ wanted = {}
    /\ unserved = {}
    /\ active = None
    /\ lastStart = [p \in Profiles |-> None]

Request(p) ==
    /\ ~CoolingDown(p)
    /\ wanted' = wanted \cup {p}
    /\ unserved' = unserved \cup {p}
    /\ UNCHANGED <<now, active, lastStart>>

\* A second request accepted before the login started may outlive it: wanted
\* keeps p then.
Start(p) ==
    /\ p \in wanted
    /\ active = None
    /\ ~CoolingDown(p)
    /\ active' = p
    /\ lastStart' = [lastStart EXCEPT ![p] = now]
    /\ wanted' \in {wanted, wanted \ {p}}
    /\ unserved' = unserved \ {p}
    /\ UNCHANGED now

Finish ==
    /\ active # None
    /\ active' = None
    /\ UNCHANGED <<now, wanted, unserved, lastStart>>

Drop(p) ==
    /\ p \in wanted \ unserved
    /\ wanted' = wanted \ {p}
    /\ UNCHANGED <<now, unserved, active, lastStart>>

Tick ==
    /\ now' = now + 1
    /\ UNCHANGED <<wanted, unserved, active, lastStart>>

Next ==
    \/ \E p \in Profiles : Request(p) \/ Start(p) \/ Drop(p)
    \/ Finish
    \/ Tick

Spec == Init /\ [][Next]_vars
=============================================================================
