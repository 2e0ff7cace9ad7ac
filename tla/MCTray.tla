------------------------------- MODULE MCTray -------------------------------
(* Bounds for Tray: three profiles, of which two fit into the root menu and *)
(* two into a submenu, so that the menu is flat, full and overflowing with  *)
(* a last submenu that is not full; one toggle and two rebuilds may wait.    *)
EXTENDS Tray

MCNameList == <<"p1", "p2", "p3">>
MCReport(n, state) == [name |-> n, status |-> [state |-> state, enabled |-> TRUE]]
MCReports ==
    {MCReport("p1", "ok"), MCReport("p1", "syncing"), MCReport("p1", "error"),
     MCReport("p2", "ok"), MCReport("p3", "warning")}
=============================================================================
