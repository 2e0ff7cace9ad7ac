-------------------------------- MODULE Tray --------------------------------
(***************************************************************************)
(* StatusTray (aws_sso_autologin/tray.py): what the tray knows and the     *)
(* three places where it shows it.  The icon follows every change at once, *)
(* the tooltip is refreshed by a single-shot timer that is not restarted   *)
(* while it runs, and the menu is built again at once except after a       *)
(* toggle, where the desktop gets 200 ms to dismiss the popup first.  Rows *)
(* of a menu that is out of date can still be clicked.                     *)
(*                                                                         *)
(* One action is one call of the application, one click, or one event of   *)
(* the Qt loop; all of them run on the GUI thread (module App says which   *)
(* calls the application makes when).  What ends without a change of the   *)
(* tray, a click that opens the diagnostics, is no action.                 *)
(***************************************************************************)
EXTENDS Naturals, Sequences, FiniteSets

CONSTANTS
    NameList,      \* the profile names in the order of the menu
    Reports,       \* the [name, status] the application reports
    MaxRoot,       \* MAX_PROFILES_IN_ROOT_MENU
    MaxSubmenu,    \* MAX_SUBMENU_PROFILES
    MaxPending,    \* bound on the toggles posted and not yet applied
    MaxRebuilds,   \* bound on the rebuilds scheduled
    None

Names == {NameList[i] : i \in DOMAIN NameList}
States == {"ok", "syncing", "warning", "error"}

ASSUME TrayAssumption ==
    /\ NameList \in Seq(Names)
    /\ \A i, j \in DOMAIN NameList : NameList[i] = NameList[j] => i = j
    /\ Reports \subseteq [name : Names, status : [state : States, enabled : BOOLEAN]]
    /\ MaxRoot \in Nat
    /\ MaxSubmenu \in Nat \ {0}
    /\ MaxPending \in Nat
    /\ MaxRebuilds \in Nat
    /\ None \notin Names

VARIABLES
    open,           \* tray_icon is not None
    profiles,       \* _profiles: the status of each profile known
    monitoring,     \* _monitoring_enabled
    initialized,    \* _initialized
    globalError,    \* _global_error_summary is set
    okCount,        \* _ok_count
    icon,           \* current_icon_state
    menu,           \* the labels and rows of _menu
    tooltip,        \* what the desktop shows as tooltip
    tooltipTimer,   \* _tooltip_timer is active
    rebuilds,       \* _rebuild_menu calls scheduled in 200 ms
    pending         \* singleShot(0) toggles, oldest first

known == <<profiles, monitoring, initialized, globalError>>
shown == <<okCount, icon, menu, tooltip>>
events == <<tooltipTimer, rebuilds, pending>>
vars == <<open, known, shown, events>>

-----------------------------------------------------------------------------
(* What is shown, as functions of what is known.                            *)

Known == DOMAIN profiles

EffectiveState(n) ==
    IF profiles[n].state = "ok" /\ ~(monitoring /\ profiles[n].enabled)
    THEN "paused_ok" ELSE profiles[n].state

OkProfiles == Cardinality({n \in Known : EffectiveState(n) \in {"ok", "paused_ok"}})

Effective == {EffectiveState(n) : n \in Known}

\* Mutant: a pause hides a warning.
IconState_PausedFirst ==
    IF globalError \/ "error" \in Effective THEN "error"
    ELSE IF ~initialized THEN "normal"
    ELSE IF Known = {} THEN "error"
    ELSE IF ~monitoring \/ Effective = {"paused_ok"} THEN "paused"
    ELSE IF "warning" \in Effective THEN "warning"
    ELSE "working"

IconState ==
    IF globalError \/ "error" \in Effective THEN "error"
    ELSE IF ~initialized THEN "normal"
    ELSE IF Known = {} THEN "error"
    ELSE IF "warning" \in Effective THEN "warning"
    ELSE IF ~monitoring \/ Effective = {"paused_ok"} THEN "paused"
    ELSE "working"

FirstRowLabel ==
    IF globalError THEN "show_error"
    ELSE IF monitoring THEN "pause" ELSE "resume"

\* Mutant: the label of a row forgets the global pause.
ProfileLabel_OwnPauseOnly(n) ==
    IF profiles[n].state = "ok"
    THEN IF profiles[n].enabled THEN "pause" ELSE "resume"
    ELSE IF profiles[n].state = "syncing" THEN "syncing" ELSE "show_details"

\* _format_profile_label; the two labels of a global pause are one here.
ProfileLabel(n) ==
    LET state == EffectiveState(n) IN
    IF state = "syncing" THEN "syncing"
    ELSE IF state \in {"warning", "error"} THEN "show_details"
    ELSE IF ~monitoring THEN "global_pause"
    ELSE IF state = "paused_ok" THEN "resume" ELSE "pause"

IsActionable(n) ==
    \/ EffectiveState(n) \in {"warning", "error"}
    \/ monitoring /\ profiles[n].state = "ok"

Row ==
    [n \in Known |->
        [name |-> n, label |-> ProfileLabel(n), actionable |-> IsActionable(n)]]

\* The names known, sorted: the rank of a place in the list is the number of
\* names known up to it.
Places == {i \in DOMAIN NameList : NameList[i] \in Known}
Rank(places, i) == Cardinality({k \in places : k <= i})
NamesAt(places) ==
    [r \in 1..Cardinality(places) |->
        NameList[CHOOSE i \in places : Rank(places, i) = r]]
ProfileNames == NamesAt(Places)

\* Mutant: a submenu ends one profile early.
Submenu_Short(names, g) ==
    SubSeq(names, MaxSubmenu * (g - 1) + 1, MaxSubmenu * g - 1)

\* The g-th chunk of _add_overflow_submenus.
Submenu(names, g) ==
    LET last == IF MaxSubmenu * g < Len(names) THEN MaxSubmenu * g ELSE Len(names)
    IN  SubSeq(names, MaxSubmenu * (g - 1) + 1, last)

Submenus(names) ==
    [g \in 1..((Len(names) + MaxSubmenu - 1) \div MaxSubmenu) |-> Submenu(names, g)]

Rows(names) == [i \in DOMAIN names |-> Row[names[i]]]

\* The menu _rebuild_menu builds; the Quit row is always there.
Menu ==
    LET names == ProfileNames
        overflow == Len(names) > MaxRoot
        chunks == Submenus(names)
    IN  [first |-> FirstRowLabel,
         root |-> IF overflow THEN <<>> ELSE Rows(names),
         submenus |-> IF overflow THEN [g \in DOMAIN chunks |-> Rows(chunks[g])]
                                  ELSE <<>>]

\* The state text is the icon's state in other words.
Tooltip(ok, iconState) == [ok |-> ok, total |-> Cardinality(Known), state |-> iconState]

-----------------------------------------------------------------------------
(* The steps the handlers end with, after the known state has changed.      *)

Recount == okCount' = OkProfiles'
RebuildMenu == menu' = Menu'
UpdateIconState == icon' = IF open THEN IconState' ELSE icon
ThrottledTooltipUpdate == tooltipTimer' = TRUE

Init ==
    /\ open = TRUE
    /\ profiles = [n \in {} |-> None]
    /\ monitoring \in BOOLEAN
    /\ initialized = FALSE
    /\ globalError = FALSE
    /\ okCount = 0
    /\ menu = Menu
    /\ icon = IconState
    /\ tooltip = Tooltip(okCount, icon)
    /\ tooltipTimer = FALSE
    /\ rebuilds = 0
    /\ pending = <<>>

-----------------------------------------------------------------------------
(* The application's calls.  It makes none after it has closed the tray.    *)

UpdateProfile(n, status) ==
    /\ open
    /\ profiles' = [k \in Known \cup {n} |-> IF k = n THEN status ELSE profiles[k]]
    /\ UNCHANGED <<monitoring, initialized, globalError>>
    /\ Recount
    /\ RebuildMenu
    /\ UpdateIconState
    /\ ThrottledTooltipUpdate
    /\ UNCHANGED <<open, tooltip, rebuilds, pending>>

SetInitialized ==
    /\ open
    /\ ~initialized
    /\ initialized' = TRUE
    /\ UNCHANGED <<profiles, monitoring, globalError>>
    /\ UpdateIconState
    /\ ThrottledTooltipUpdate
    /\ UNCHANGED <<open, okCount, menu, tooltip, rebuilds, pending>>

SetGlobalError(error) ==
    /\ open
    /\ globalError' = error
    /\ UNCHANGED <<profiles, monitoring, initialized>>
    /\ RebuildMenu
    /\ UpdateIconState
    /\ ThrottledTooltipUpdate
    /\ UNCHANGED <<open, okCount, tooltip, rebuilds, pending>>

\* The application has lost the tray host: set_monitoring_enabled(False), with
\* no callback.
StopMonitoring ==
    /\ open
    /\ monitoring' = FALSE
    /\ UNCHANGED <<profiles, initialized, globalError>>
    /\ RebuildMenu
    /\ UpdateIconState
    /\ ThrottledTooltipUpdate
    /\ UNCHANGED <<open, okCount, tooltip, rebuilds, pending>>

Close ==
    /\ open
    /\ open' = FALSE
    /\ tooltipTimer' = FALSE
    /\ UNCHANGED <<known, shown, rebuilds, pending>>

-----------------------------------------------------------------------------
(* Clicks on the menu as it is shown; what they do depends on what is known.*)

\* What _on_first_row_triggered and _on_profile_selected do now.
FirstRowEffect ==
    IF globalError THEN "show_error"
    ELSE IF monitoring THEN "pause" ELSE "resume"

RowEffect(n) ==
    IF EffectiveState(n) \in {"warning", "error"} THEN "show_details"
    ELSE IF EffectiveState(n) \in {"ok", "paused_ok"} /\ monitoring
    THEN IF profiles[n].enabled THEN "pause" ELSE "resume"
    ELSE "nothing"

Post(n, effect) ==
    /\ open
    /\ effect \in {"pause", "resume"}
    /\ Len(pending) < MaxPending
    /\ pending' = Append(pending, [profile |-> n, target |-> effect = "resume"])
    /\ UNCHANGED <<open, known, shown, tooltipTimer, rebuilds>>

ClickFirstRow == Post(None, FirstRowEffect)

RowsShown ==
    {menu.root[i] : i \in DOMAIN menu.root}
        \cup UNION {{menu.submenus[g][i] : i \in DOMAIN menu.submenus[g]} :
                    g \in DOMAIN menu.submenus}

ClickRow(row) == row.actionable /\ Post(row.name, RowEffect(row.name))

-----------------------------------------------------------------------------
(* The events of the Qt loop.                                               *)

TakeToggle(n, target) ==
    /\ pending # <<>>
    /\ Head(pending) = [profile |-> n, target |-> target]
    /\ pending' = Tail(pending)

ScheduleRebuild ==
    /\ rebuilds < MaxRebuilds
    /\ rebuilds' = rebuilds + 1

\* Mutant: a toggle leaves the menu as it is.
ApplyToggle_NoRebuild(target) ==
    /\ TakeToggle(None, target)
    /\ open
    /\ monitoring' = target
    /\ UNCHANGED <<profiles, initialized, globalError>>
    /\ UpdateIconState
    /\ ThrottledTooltipUpdate
    /\ UNCHANGED <<open, okCount, menu, tooltip, rebuilds>>

ApplyToggle(target) ==
    /\ TakeToggle(None, target)
    /\ open
    /\ monitoring' = target
    /\ UNCHANGED <<profiles, initialized, globalError>>
    /\ UpdateIconState
    /\ ThrottledTooltipUpdate
    /\ ScheduleRebuild
    /\ UNCHANGED <<open, okCount, menu, tooltip>>

\* Mutant: keeps the state the row shows instead of the profile's own.
ApplyProfileToggle_StoresShown(n, target) ==
    /\ TakeToggle(n, target)
    /\ n \in Known
    /\ profiles' = [profiles EXCEPT ![n] = [state |-> EffectiveState(n),
                                           enabled |-> target]]
    /\ UNCHANGED <<monitoring, initialized, globalError>>
    /\ Recount
    /\ UpdateIconState
    /\ ThrottledTooltipUpdate
    /\ ScheduleRebuild
    /\ UNCHANGED <<open, menu, tooltip>>

\* A resumed OK profile waits for its next result.  Unlike the global toggle
\* this one is applied by a closed tray too.
ApplyProfileToggle(n, target) ==
    /\ TakeToggle(n, target)
    /\ n \in Known
    /\ profiles' =
          [profiles EXCEPT ![n] =
              [state |-> IF target /\ @.state = "ok" /\ ~@.enabled
                         THEN "syncing" ELSE @.state,
               enabled |-> target]]
    /\ UNCHANGED <<monitoring, initialized, globalError>>
    /\ Recount
    /\ UpdateIconState
    /\ ThrottledTooltipUpdate
    /\ ScheduleRebuild
    /\ UNCHANGED <<open, menu, tooltip>>

\* The callback raised, or the tray is closed: the tray stays as it is.
DropToggle(n, target) ==
    /\ TakeToggle(n, target)
    /\ UNCHANGED <<open, known, shown, tooltipTimer, rebuilds>>

DelayedRebuild ==
    /\ rebuilds > 0
    /\ rebuilds' = rebuilds - 1
    /\ UNCHANGED <<open, known, okCount, icon, tooltip, tooltipTimer, pending>>
    /\ RebuildMenu

\* A timer that fires over a closed tray does nothing but end.
UpdateTooltip ==
    /\ tooltipTimer
    /\ tooltipTimer' = FALSE
    /\ tooltip' = IF open THEN Tooltip(okCount, icon) ELSE tooltip
    /\ UNCHANGED <<open, known, okCount, icon, menu, rebuilds, pending>>

Next ==
    \/ \E report \in Reports : UpdateProfile(report.name, report.status)
    \/ SetInitialized
    \/ \E error \in BOOLEAN : SetGlobalError(error)
    \/ StopMonitoring
    \/ Close
    \/ ClickFirstRow
    \/ \E row \in RowsShown : ClickRow(row)
    \/ \E target \in BOOLEAN : ApplyToggle(target)
    \/ \E n \in Names, target \in BOOLEAN : ApplyProfileToggle(n, target)
    \/ \E n \in Names \cup {None}, target \in BOOLEAN : DropToggle(n, target)
    \/ DelayedRebuild
    \/ UpdateTooltip

Spec == Init /\ [][Next]_vars

-----------------------------------------------------------------------------

ShownStates == States \cup {"paused_ok"}
IconStates == {"normal", "working", "paused", "warning", "error"}
RowType ==
    [name : Names,
     label : {"syncing", "show_details", "global_pause", "resume", "pause"},
     actionable : BOOLEAN]

TypeOK ==
    /\ open \in BOOLEAN
    /\ Known \subseteq Names
    /\ profiles \in [Known -> [state : States, enabled : BOOLEAN]]
    /\ monitoring \in BOOLEAN
    /\ initialized \in BOOLEAN
    /\ globalError \in BOOLEAN
    /\ okCount \in Nat
    /\ icon \in IconStates
    /\ menu.first \in {"show_error", "pause", "resume"}
    /\ RowsShown \subseteq RowType
    /\ tooltip.state \in IconStates
    /\ tooltip.ok \in Nat
    /\ tooltip.total \in Nat
    /\ tooltipTimer \in BOOLEAN
    /\ rebuilds \in 0..MaxRebuilds
    /\ pending \in Seq([profile : Names \cup {None}, target : BOOLEAN])

\* Nothing the open tray shows stays out of date: whatever calls, clicks and
\* timers interleave, the icon is that of the present state, the menu is
\* unless a rebuild is scheduled, and the tooltip is unless its timer runs.
ViewsAreFresh ==
    open =>
        /\ icon = IconState
        /\ rebuilds = 0 => menu = Menu
        /\ ~tooltipTimer =>
              tooltip = [ok |-> Cardinality({n \in Known : profiles[n].state = "ok"}),
                         total |-> Cardinality(Known), state |-> IconState]

\* "Status precedence is fixed to: global error > profile error > warning >
\* paused > working.  The normal icon is shown only at startup" (design spec):
\* no toggle, result or startup order lets a milder state hide a worse one.
IconTellsWorst ==
    open =>
        LET states == {profiles[n].state : n \in Known}
            healthy == {n \in Known : profiles[n].state = "ok"}
        IN  /\ globalError \/ "error" \in states => icon = "error"
            /\ icon = "normal" => ~initialized
            /\ icon \in {"paused", "working"} => initialized /\ "warning" \notin states
            /\ icon = "working" => /\ monitoring
                                    /\ \/ states # {"ok"}
                                       \/ \E n \in healthy : profiles[n].enabled
            /\ icon = "error" => globalError \/ "error" \in states \/ Known = {}

\* How many rows of the menu are for a profile, in the root and in submenus.
RowPlaces(n) ==
    {<<0, i>> : i \in {k \in DOMAIN menu.root : menu.root[k].name = n}}
        \cup UNION {{<<g, i>> : i \in {k \in DOMAIN menu.submenus[g] :
                                        menu.submenus[g][k].name = n}} :
                    g \in DOMAIN menu.submenus}

\* However many profiles there are and wherever the overflow menus are cut,
\* every profile has exactly one row, also while the menu is out of date, and
\* no row leads to a profile the tray does not have (_on_profile_selected
\* would raise).
EveryProfileHasOneRow ==
    /\ \A n \in Known : \E place \in RowPlaces(n) : RowPlaces(n) = {place}
    /\ \A row \in RowsShown : row.name \in Known

\* "Row text must show both the current state and the action that will happen
\* on selection when the row is actionable" (design spec), and else offer none:
\* label, enablement and effect of a row are decided by three functions, which
\* agree as long as the menu is up to date.
RowsDoWhatTheySay ==
    open /\ rebuilds = 0 =>
        /\ menu.first = FirstRowEffect
        /\ \A row \in RowsShown :
              IF row.actionable
              THEN row.label = RowEffect(row.name)
              ELSE /\ row.label \notin {"pause", "resume", "show_details"}
                   /\ RowEffect(row.name) = "nothing"
=============================================================================
