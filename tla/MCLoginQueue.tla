---------------------------- MODULE MCLoginQueue ----------------------------
(* Bounds for LoginQueue: the clock passes two lock periods, so a profile  *)
(* can be locked, expire, be locked again and expire again.                *)
EXTENDS LoginQueue, TLC

CONSTANTS p1, p2, p3, t1, t2

MCProfiles == {p1, p2, p3}
MCThreads == {t1, t2}
=============================================================================
