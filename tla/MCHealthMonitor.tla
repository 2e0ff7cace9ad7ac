--------------------------- MODULE MCHealthMonitor ---------------------------
(* Bounds for HealthMonitor: two profiles, two monitor threads alive at     *)
(* once (the one stop() gave up on and its successor).                      *)
EXTENDS HealthMonitor

CONSTANTS p1, p2, m1, m2

MCProfileList == <<p1, p2>>
MCMonitors == {m1, m2}
MCOneResult == {"determinate"}
=============================================================================
