---------------------------- MODULE MCStateStore ----------------------------
(* Bounds for StateStore: the global setting and two profiles, as many      *)
(* writes, failures and restarts as TLC finds states for.                   *)
EXTENDS StateStore

MCKeys == {"global", "p1", "p2"}
=============================================================================
