------------------------------ MODULE MCRenewal ------------------------------
(* Bounds for Renewal: two monitor threads (one that stop() gave up on), one *)
(* profile (LoginQueue has three), one result on its way; two ways to name   *)
(* an expiry and two that ask for no login, of one class each, because the   *)
(* monitor threads treat the classes other than "expired" alike.             *)
EXTENDS Renewal

CONSTANTS p1, m1, m2, t1

MCProfileList == <<p1>>
MCMonitors == {m1, m2}
MCThreads == {t1}
MCAnswers ==
    {[ends |-> "nonzero", cues |-> {"expired"}],
     [ends |-> "nonzero", cues |-> {"expired", "denied", "timed_out"}],
     [ends |-> "nonzero", cues |-> {"denied", "timed_out"}],
     [ends |-> "raises", cues |-> {}]}
=============================================================================
