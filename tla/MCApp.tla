-------------------------------- MODULE MCApp --------------------------------
(* Bounds for App: one profile (what profiles share, the order of the       *)
(* checks, is in HealthMonitor), two monitor threads (the one stop() gave   *)
(* up on and its successor), one result on its way.                         *)
EXTENDS App, TLC

CONSTANTS m1, m2

MCProfileList == <<"p1">>
MCMonitors == {m1, m2}
MonitorSymmetry == Permutations(MCMonitors)
MCResults == {"active", "expired", "determinate", "indeterminate"}
MCTwoResults == {"active", "determinate"}
=============================================================================
