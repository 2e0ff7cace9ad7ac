# A verification model of aws-sso-autologin

`aws-sso-autologin` is a tray program. It checks the AWS SSO sessions of a
user's profiles every 30 seconds, runs `aws sso login` for a profile whose
session has expired, and lets the user pause all monitoring or one profile. This
directory holds TLA+ modules of its concurrent and fault-prone parts, TLC
configurations that check them on small instances, and proofs, checked by TLAPS,
of their safety properties for every value of the constants.

Paths below are relative to `src/aws_sso_autologin/`. "Design spec" is
`docs/leyline/specs/2026-05-09-aws-sso-autologin-design.md`, "UX design" is
`docs/leyline/design/2026-05-09-aws-sso-autologin-ux.md`, "safe-run spec" is
`docs/leyline/specs/2026-05-09-ai-safe-run-test-design.md`.

## 1. Inventory

### Threads

| Thread | Runs | Started by |
| --- | --- | --- |
| GUI thread (Qt event loop) | the menu, toggles, status slot, heartbeat, startup, shutdown, signal handlers | the program |
| health monitor (one, at times two) | `HealthOperator._monitor_loop` | `start()`, from the GUI thread |
| login worker (at most one) | `LoginOperator._process_queue` | `enqueue()`, from a monitor thread |
| child process | `aws sts ...`, `aws sso login`, and the browser it starts | monitor threads and the login worker |

The monitor threads read `_running` and `_paused_profiles` without a lock. Results
go from the monitor threads to the GUI thread through a queued Qt signal. Expired
sessions go from the monitor threads to the login queue, under its lock. Pauses go
from the GUI thread to the state file and are read back from the store's memory.

### Components

| Component | State | Operations | What makes it correct |
| --- | --- | --- | --- |
| Login queue (`operator.py` 46-280) | `_queue`, `_profile_locks`, `_processing`, the worker thread | `enqueue`, pop, lock, login, leave the loop | logins are serial; no accepted request is lost or left without a worker; two logins of a profile are 300 s apart |
| Health monitor (`operator.py` 360-505) | `_running`, `_paused_profiles`, `_monitor_thread` | `start`, `stop`, pause of a profile, the loop, emission of results | monitoring that is on has a thread that has not ended; a stop takes effect; monitored profiles are checked for ever |
| Session check and renewal (`checker.py`, `operator.py` 283-357) | none | classify the output of `aws sts`, ask for a login | a login only after an explicit expiry that was not overtaken by a login; lasting expiry leads to logins |
| Application (`__main__.py`) | `_monitoring_enabled`, `_profile_status`, `_awaiting_initial_status`, timers | toggles and rollbacks, status slot, heartbeat | the monitor, the status, the menu and the store agree; errors are sticky |
| Tray menu (`tray.py`) | its own copy of the statuses and of the monitoring flag, error, `_initialized`; what is shown: icon, menu, tooltip | calls of the application, clicks, which post toggles, delayed rebuilds, the tooltip timer | it shows what the application believes, nothing shown stays out of date, rows do what they say |
| State store (`state.py`) | `_state`, `state.json` | setters, `_write`, `_load` | settings survive restarts and failed writes |
| Tray-host heartbeat (`service.py`, `__main__.py` 315-374) | consecutive failures, the 30 s timer | `ping` | a lost host pauses monitoring and its error goes away |
| Settings and command line (`settings.py`, `__main__.py` 75-138, 1155-1243) | environment variables | three layers per setting, the commands of `main()` | safe mode starts nothing |
| Lifecycle (`__main__.py` 831-1037) | resources, `_is_shutting_down`, `_signal_shutdown_requested` | `run`, signal handlers, `shutdown` | the process ends when told, with nothing left behind |
| AWS command execution (`aws.py`) | the child, its pipes, the browser wrapper | poll, terminate, grace, kill, cleanup | every call returns, in time, leaving no child; the wrapper is there as long as the child may need it, and goes |
| Profile discovery, mode policy, log classifier, logger, watchdog | little or none | | see section 8 |

### Hard behaviour

* the window between the pop of a profile and its lock; a worker that leaves while
  a request comes in; a thread that fails to start (`operator.py` 150-183);
* `stop()` gives up after 5 seconds on a thread that may take longer, and
  `start()` then makes a second one (`operator.py` 423-439);
* `start()` sets `_running` before it makes the thread: a start that raises, or a signal
  handler in between, leaves a thread that cannot be joined (`operator.py` 425-438);
* results that were under way while the profile or all monitoring was paused and
  resumed, and toggles whose target was fixed at the click;
* writes of the state file that raise after the memory has changed, and a process
  that dies inside a write;
* a tray host that is lost and comes back;
* a menu that is rebuilt 200 ms after a toggle and can be clicked before;
* checks that are under way while a login ends, and logins queued before a pause;
* signals during startup, inside a toggle, its rollback or the host-loss handler, and
  during shutdown; a process that ends while its login worker waits;
* children that ignore `SIGTERM`, and descendants that keep the pipes open.

`PROJECT.json` lists each of them as a hazard at its line, with the properties that
watch it, or a note why none does.

## 2. Modules

| Module | Models | Lines of the code |
| --- | --- | --- |
| `LoginService` | what the login operator promises: an abstract specification | `operator.py` 46-280 |
| `LoginQueue` | the queue, its locks and its worker threads | `operator.py` 46-280 |
| `HealthMonitor` | `HealthOperator` and its threads | `operator.py` 360-505, `checker.py` |
| `StateStore` | `AppStateStore`, crashes and restarts | `state.py` |
| `App` | `AutologinApp` and `StatusTray` on the GUI thread, composed with `HealthMonitor` | `__main__.py`, `tray.py`, `service.py` |
| `Tray` | `StatusTray`: what it knows and what it shows | `tray.py` 570-1094 |
| `Renewal` | from a session check to a login: `HealthMonitor` and `LoginQueue` composed | `checker.py`, `operator.py` 283-505 |
| `Lifecycle` | startup, signals, shutdown, and what the event loop's handlers do to the monitor and the heartbeat | `__main__.py` 554-599, 831-1037, `operator.py` 423-439 |
| `AwsCommand` | `run_sso_login` and the timeout escalation | `aws.py` 135-605 |
| `Program` | the process: command line and safe mode, then `Lifecycle` and `AwsCommand` side by side | `__main__.py` 75-210, 1155-1243, `settings.py` |
| `MC*` | constants of the runs | |
| `*Proofs` | theorems about `LoginQueue`, `HealthMonitor`, `StateStore`, `App`, `Tray`, `Renewal`, `AwsCommand` and `Program` (section 5) | |

`App` takes its monitor actions from `HealthMonitor` (`Health == INSTANCE
HealthMonitor`): a handler of the GUI thread is one action that conjoins
`Health!Start`, `Health!Stop`, `Health!SetProfileMonitoringEnabled` or
`Health!Deliver` with what the handler does to the application and the tray.
`Renewal` composes the monitor threads with the login queue (`Health == INSTANCE
HealthMonitor`, `Login == INSTANCE LoginQueue`): the end of a check is
`Health!CheckReturns` and, for an expired session, `Login!Enqueue` in one step.
`Program` extends `AwsCommand` and takes the main thread from `Lifecycle`.
`LoginQueue` treats a login as two events at most `LoginTimeout` apart; `AwsCommand`
is the module that looks inside it. `App` models of the tray what the application
depends on (statuses, icon, posted toggles), `Tray` all of it, for any order of the
application's calls. Definitions named `<Action>_<Change>` are mutated forms of an
action; no specification uses them. Each one breaks a property of a run and so shows
that the property depends on that part of the code.

### State and actions

`LoginQueue`. One action is one critical section of `LoginOperator._lock`, or the
end of a login. `pc[t]` is where a worker thread is: `"loop"` before the critical
section of `_process_queue`, `"acquire"` between the pop and the lock, `"login"`
in `execute_login`. `unserved` (profiles accepted since their last login started)
and `lastStart` are history variables. An `enqueue` of a locked profile changes
nothing and is no action.

`HealthMonitor`. `mpc[m]` is where a monitor thread is: `"loop"` at the loop
condition, `"check"` before the next profile of a pass, `"sts"` in
`get_session_info`, `"emit"` with a result, `"sleep"` between two passes.
`stop()` is two actions: `Stop` clears `_running`, `JoinReturns` ends the join, at
the end of the thread or, for a thread inside a pass, at any time (the timeout).
A sleeping thread looks at `_running` every second, so the join outlasts it.
`Thread.start()` may raise (`StartFails`, if `ThreadStartMayFail`): `_running` is then
set and `_monitor_thread` is a thread that is `"created"` for ever, whose join raises out
of `stop()` (`StopRaises`); the next `start()` makes a new one (`NewThread`).
Outcomes have four classes: `active`, `expired`, `determinate` (permission denied
and check errors, which lead to an error row) and `indeterminate` (timeouts and
the rest, a warning row).

`App`. `handler` is not `"none"` while a handler is between two of its parts: the
pause handler around the join, and the two rollbacks. `pending` holds the toggles
posted by `QTimer.singleShot(0)`. The event loop may deliver a result, or the one
heartbeat that is due (`heartbeatDue`), before it applies them; a timer that was
just started does not expire before toggles that were posted earlier.
`savedPaused` is what the store's memory answers; `WriteMayFail` lets its writes
raise after they have changed it, which `StateStore` justifies. Results, clicks
and heartbeats wait while `stop()` joins; monitor threads do not. A toggle whose thread
cannot be started or joined (`ResumeFails`, `PauseFails`) rolls back like one whose write
is refused, and a rollback that raises itself (`RollBackResumeFails`,
`RollBackPauseFails`) is dropped, as the code logs it and goes on.

`Tray`. What the tray knows (`profiles`, `monitoring`, `initialized`, `globalError`) is
apart from what it shows (`icon`, `menu`, `tooltip`). `IconState`, `Menu` and `Tooltip`
are the functions that derive one from the other (`ProfileNames`, the sorted names, puts
each known profile at its rank in the order of names); a handler ends with the steps that
the code ends with (`Recount`, `RebuildMenu`, `UpdateIconState`,
`ThrottledTooltipUpdate`, `ScheduleRebuild`). `menu` keeps its rows as they were
built, so that a click meets a menu that is out of date. Labels are named after what
they announce.

`Renewal`. An answer of `aws sts` is how the command ended and which groups of words
are in its output; `FailureType` is the checker's order of tests. The clock of
`LoginQueue` is replaced by the order of events that the constants imply: a lock of
300 s outlasts a login (180 and 3) and every check that was under way when the login
ended (10 and 3). `old` are these checks. Two history variables say which answers
count: `asked`, the profiles for which an explicit expiry was accepted (in a check that
no login had overtaken) since they were last popped, and `licensed`, the workers that
popped such a profile. A pop uses up all answers of its profile, so that an answer from
before a pop counts for that login only. Threads can be started here: what a failed start
leaves behind is in `HealthMonitor` and `LoginQueue`.

`StateStore`. A setter is a sequence of actions (set the memory, check the path,
make the temporary file, dump, replace, chmod) and `Restart` may come between any
two. The removal of the temporary file after a failed write may be refused itself
(`WriteAndUnlinkFail`); what it leaves, like what a dead process leaves, is
`orphans`. `acked`, `settled` (the keys whose last call was acknowledged) and `before` are
history variables. A load that finds a symlink ignores the file, and the next write
replaces it: nothing is settled then.

`Lifecycle`. `step` is where `run()` is; `handler` and `at` say who is using the health
operator (the startup, a toggle, its rollback, the heartbeat that lost the host) and
which line it is at; `frame` is where a `shutdown()` on top of them is. A signal may come
between any two steps of the model: of `run()`, of a handler, of `HealthOperator.start`
(set `_running`, create the thread, start it) and of `shutdown()`. An exception
(`HandlerRaises`: a thread that cannot be started or joined, a refused write, also one
that a nested `shutdown()` raises) ends the startup, makes a toggle roll back, and is
dropped in the rollback, in the tray and in Qt. `interrupted` (history) is set when
`shutdown()` was called on top of a handler.

`AwsCommand`. `pc` is where the worker thread is in `run_sso_login`; `elapsed`
counts the seconds since the child was started. `communicate()` returns when the child
is dead and its pipes are closed (`Communicated`). `wrapper` is what exists of this login's browser wrapper, its file and its directory; `named` says whether the caller
knows their names. A creation that fails half-way leaves what it has made and is not
named; a removal may be refused (`Remains`, `refused`), the directory's also because the
file is still in it.

`Program`. `launch` is the command line, the environment, `config.yaml` and the saved
preference until `main()` has made the application; then `Lifecycle` runs, and logins
may start as soon as a monitor thread has run (`monitored`, history). A `-h`, which the
parser does not know, or a `--help` beside a wrong option (`bad_help`) leaves `main()` as an
exception. A user's resume ends safe mode (`safeAsked`). The worker stops with the process
(`WorkerIsDaemon`), its child does not. Signals before the handlers are
`KeyboardInterrupt` and `TerminatedEarly`.

## 3. Runs that hold

| Run | Properties | Shows |
| --- | --- | --- |
| `LoginQueue` | `TypeOK`, `SerialLogins`, `QueueHasWorker`, `RequestKept`, `Cooldown`, `RequestServed`, `ImplementsLoginService` | Three profiles, two threads: logins are serial although a worker may be leaving while another is started; no wakeup is lost; no accepted request is lost, also at the second in which a lock expires, and each is followed by a login; two logins of a profile are apart; the queue implements `LoginService` |
| `HealthMonitor` | `TypeOK`, `RunningHasMonitor`, `StopEndsWithThePass`, `MonitoredProfilesAreChecked`, `StoppedMonitorsEnd` | two live threads, and starts that fail: monitoring that is on has a `_monitor_thread` that has not ended; a stopped thread begins at most one check per profile more, and ends; profiles that are monitored by a thread that could be started are checked again and again |
| `StateStore` | `TypeOK`, `WritesAreAtomic`, `TempIsRemoved`, `RestartKeepsSettings` | any step of a write fails, symlinks come and go, the process dies and restarts at any step: the file is replaced as a whole or not at all, setters leave no temporary file that they were allowed to remove, settled settings are there after a restart |
| `App` | `TypeOK`, `MonitoringAgrees`, `TrayShowsStatus`, `HostLossPauses` | two toggles clicked ahead, refused writes and failed thread starts with their rollbacks, which may fail too, a tray host that comes and goes: the monitor, the application, the menu and, but for a thread that was never started, the timer agree; the menu shows the application's status; a lost host keeps monitoring stopped |
| `AppLive` | `PauseAgrees`, `StickyError`, `ActiveProfileShowsOK` | with a store that can be written, what is skipped, shown and saved as paused agree; only an active session clears an error; a monitored profile that is found active is shown as OK in the end |
| `Tray` | `TypeOK`, `ViewsAreFresh`, `EveryProfileHasOneRow`, `RowsDoWhatTheySay`, `IconTellsWorst` | calls, clicks on old menus, rebuilds and timers in any order: icon, menu and tooltip are those of the present state unless an update is on its way; no profile is lost or doubled by the overflow menus; label, enablement and effect of a row agree; no milder state hides a worse one |
| `Renewal` | `LoginNeedsExpiry`, `ExpiredIsRenewed`, `PausedLoginsEnd` | two monitor threads, pauses and stops against the login queue: each login goes back to the pop of a profile with an explicit expiry that was accepted since its previous pop, in a check that no login had overtaken; a session that stays expired is logged in again and again; after a pause that lasts, the logins that were queued end |
| `Program` | `ProgramTypeOK`, `CleanExit`, `SafeModeStartsNothing`, `NoChildLeft`, `EscalationInOrder`, `WrapperLifetime`, `LoopShutdownEnds`, `LoginReturns` | exit code 0 means a complete shutdown, after which only a toggle that it interrupted can have started the monitor again; safe mode, from any layer, starts neither checks nor logins before the user resumes; the escalation is in order and leaves no child; a wrapper that was made is complete while the child runs, and is removed unless the system refuses that; a shutdown begun in the event loop ends the process, also inside a toggle and while a login hangs, unless the monitor thread was created and never started; every login returns or the process ends, as long as nobody keeps the pipes of a dead child for ever |

### Bounds

* `LoginQueue`: three profiles (one logged in, one queued, one between) and two
  thread identities (a leaving worker and its successor; the proofs cover any
  number). `LockSeconds` 3, `LoginTimeout` 2 and `MaxTime` 6 let a lock expire
  while other logins run and be taken again. The code's values (300; 180 and 3)
  have the same order. The clock stops at `MaxTime`, and so may the system:
  this run and `Tray`, where a closed tray stops, do not check for deadlock. In the runs
  `Thread.start()` succeeds (`ThreadStartMayFail` is `FALSE`), because a queue whose
  worker could not be started may stop for good; the theorems of section 5 other
  than `NoLostWakeup` also hold if it may raise. None of them says that a request is
  served then: it stays queued behind nobody.
* `HealthMonitor`: two profiles (a pass with a profile left to check), two
  monitor threads, one undelivered result (the thread waits for room; a Qt queue
  has no bound, and a longer one only adds stale results), thread starts that may fail
  at any time. The run uses one outcome because the monitor treats them alike.
* `App`: one profile (what profiles share, the order of their checks, is in
  `HealthMonitor`), two monitor threads (the one that `stop()` gave up on and its
  successor; a resume waits for a third), two toggles clicked ahead in `App` and
  one in `AppLive`, one result under way. Thread starts may fail in `App`. `App` has the
  outcomes active and determinate (an error and what ends it), `AppLive` all four. `AppLive` has
  neither refused writes nor failed thread starts nor a tray host that fails: a refused
  pause breaks `PauseAgrees` (see `AppRefused`). `LostThreshold` is 2 (3, as in the code, in
  `AppHostError`).
* `Tray`: three profiles, of which two fit into the root menu and two into a submenu
  (40 and 20 in the code), so that the menu is flat, full, and overflowing with a
  last submenu that is not full; one posted toggle, two scheduled rebuilds.
* `Renewal`: one profile, because profiles meet in the queue only, which the run
  `LoginQueue` has with three; two monitor threads and one login thread; four
  answers: the expiry alone, the expiry among other words, a denial that mentions a
  timeout, and a command that cannot be run.
* `StateStore`: three keys. `Program`: a timeout of three seconds and a grace
  of one, where the code has 180 and 3; any number of logins follow one another;
  startup, signals and shutdown have no bound.

Monitor threads are interchangeable, so their permutations are used as a symmetry
where only safety is checked.

### Fairness

`LoginQueue`: weak fairness of each worker thread (threads run; a login ends, which
`LoginReturns` shows under its own assumption). `HealthMonitor` and `App`: weak
fairness of monitor threads and of the join (a check returns after its timeout and grace,
if nobody holds the pipes of its killed child: `communicate()` after the kill has no
timeout, `aws.py` 268, so that this is the same assumption as in `LoginReturns`); strong
fairness of the event loop's handlers, because clicks can disable them for a
moment for ever and the event loop serves posted events in order. `Renewal`: both;
time passes until a lock expires; and strong fairness of the emission of a result,
because the signal queue of the model holds one result and that of Qt has no bound.
`Program`: the main thread (`run()`, handlers, `shutdown()`) and the worker thread run, and
a killed process dies.
Nobody has to click, pause, quit, send a signal or answer; no session has to expire;
no child has to exit by itself or on `SIGTERM`; the tray host is free.

## 4. Where the code and its documents disagree

Each of these has a run that TLC ends with a counterexample, and a finding in
`PROJECT.json` that quotes the document.

| Run, property | The document | The code |
| --- | --- | --- |
| `HealthMonitorTwo`, `OneMonitorLoop` | every 30 seconds one check per profile (191) | pause and resume during a slow pass: two loops from then on |
| `AppRefused`, `ShownPauseIsObeyed` | paused profiles are skipped (192) | after a refused pause the row says paused and the profile is checked |
| `AppHostError`, `HostErrorClears` | the error goes away after recovery (UX design 198) | the loss stops the timer that would notice |
| `LifecycleSignal`, `FirstSignalEnds` | the first signal shuts the program down (261) | not before `exec()` |

Seen in the code while modelling it, without a run of their own:

* a pass over the profiles does not look at `_running`, so checks begin after
  `stop()` has returned (design spec 599 says a pause blocks new commands within a
  second); `StopEndsWithThePass` states the bound that does hold;
* a refused change stays in the store's memory, and the next write of another key
  stores it (253);
* a result from before a pause ends the syncing of a resumed row (`README.md` 94
  of the repository says a fresh check does), and a result between the click and
  the toggle, or a check under way at the pause, may leave a paused row in syncing,
  warning or error, which offers no resume (`README.md` 17);
* a pause before the first result leaves the startup icon for as long as it lasts (UX
  design 190 and 195): it clears `_awaiting_initial_status` (`__main__.py` 569), without
  which no result initializes the tray. Only a global resume with a profile that is not
  paused sets it again: paused, resumed globally and then profile by profile, a tray may be
  monitored and keep the startup icon;
* a shutdown that is called while the monitor thread is created and not started (a signal
  between `operator.py` 430 and 431, or an earlier `Thread.start()` that raised) ends in the
  exception of `join()`: `quit()` is not called, the exception is dropped by the rollback
  (`__main__.py` 562), the tray (850) or Qt, and no later Quit gets past
  `_is_shutting_down` (UX design 169). `LoopShutdownEnds` leaves out that state and
  shows that no other is stuck;
* a toggle that a signal interrupts goes on after the nested `shutdown()`: a resume starts
  the monitor or the heartbeat again, and the process exits with 0 with it running (design
  spec 217: quit prevents new command starts). `CleanExit` states what does hold;
* after `kill()` the code waits in `communicate()` without a timeout for whoever
  holds the child's pipes (603); `LoginReturns` therefore assumes that nobody does so
  for ever;
* "always clean up wrapper file" (276): the creation of the browser wrapper may fail after
  its directory or file was made, and the caller does not know the names to remove; a
  removal that the system refuses is only logged (`aws.py` 598-605). `WrapperLifetime`
  states what does hold;
* a request between the pop of a profile and its lock stays queued, and after a login
  that failed, if other logins keep it waiting until the lock has expired, the worker runs
  it as a second login that no new classifier hit asked for (326). `LoginNeedsExpiry`
  states the bound that holds: an answer counts for the next pop of its profile, and must
  come from a check that no ended login had overtaken; it may be older than the last login
  of the profile;
* pauses do not clear the queue of pending logins, and quitting neither ends nor waits
  for a login under way: its child outlives the program (217, 223);
  `PausedLoginsEnd` and `LoopShutdownEnds` state what does hold;
* a click on a menu that awaits its rebuild after a toggle does the opposite of its
  label;
* the icon shows a warning or an error while monitoring is paused, as the design spec
  (91) and the UX design (189) say; `2026-05-10-profile-state-machine-error-visibility-design.md`
  (16, 147, 227) and the UX document of the same name (52) want the paused icon
  "regardless of profile states";
* `-h` and a `--help` beside a wrong option end in an uncaught exception of the parser
  (`__main__.py` 1171-1174);
* the environment may ask for safe mode with `true`, `yes` or `on`: the settings log
  `safe_mode=False` and the application starts paused;
* `--check-only` succeeds although the discovery of profiles found nothing (150-153);
* profiles are discovered once, without the 30-second retry (188), and one failed
  probe drops a profile for the whole run;
* `main()` consults neither the mode policy nor the watchdog (safe-run spec), and
  `run_normal` imports a function that does not exist (`__main__.py` 1106).

## 5. Proofs

Each `*Proofs` module extends the module it is about. Its theorems hold for every
value of the constants that satisfies the assumptions of that module:

| Module | Assumption | Says |
| --- | --- | --- |
| `LoginQueue` | `ConstantsAssumption` | times and bounds are naturals, the timeout is not 0, `None` is neither a time nor a profile |
| `HealthMonitor` | `HealthAssumption` | the profiles form a sequence, results are of the four classes, the bound on undelivered results is positive, `None` is no thread |
| `StateStore` | `StoreAssumption` | `WriteMayFail` is a Boolean |
| `AwsCommand` | `CommandAssumption` | timeout and grace are positive naturals |
| `Program` | `NoneAssumption` | `None` is neither an exit code nor a launch |
| `App` | `AppAssumption`, `MonitorAssumption` | types of the bounds; those of `HealthMonitor` |
| `Tray` | `TrayAssumption` | the list of names has no duplicate, a submenu holds at least one row, what is reported has its type |
| `Renewal` | `AnswersAssumption`, `RenewalAssumption` | answers are outcomes of a command; those of `HealthMonitor` and `LoginQueue` |

Nothing is assumed about the number of profiles, threads, keys or names. `None` stands
for Python's `None`; the code needs no more of it than that it is none of its other values.

### Theorems

| Module | Theorem | Property |
| --- | --- | --- |
| `LoginQueueProofs` | `TypeCorrect` | `TypeOK` |
| | `Invariance` | the inductive invariant `IInv` |
| | `LoginsAreSerial` | `SerialLogins` |
| | `RequestsAreKept` | `RequestKept` |
| | `LoginsCoolDown` | `Cooldown` |
| | `NoLostWakeup` | `QueueHasWorker`, if thread starts do not fail |
| | `LoginQueueImplementsService` | `ImplementsLoginService` (refinement) |
| `HealthMonitorProofs` | `HealthTypeCorrect` | `TypeOK` |
| | `RunningIsMonitored` | `RunningHasMonitor` |
| | `StopIsBounded` | `StopEndsWithThePass` |
| `StateStoreProofs` | `StoreTypeCorrect` | `TypeOK` |
| | `AtomicWrites` | `WritesAreAtomic` |
| | `NoTempLeft` | `TempIsRemoved` |
| | `SettingsSurvive` | `RestartKeepsSettings` |
| `AwsCommandProofs` | `CommandEscalates` | `EscalationInOrder` |
| | `CommandLeavesNoChild` | `NoChildLeft` |
| | `CommandKeepsWrapperForChild` | `WrapperLifetime` |
| `ProgramProofs` | `WorkerImplementsCommand` | `ProgramSpec` implements `Spec` of `AwsCommand` (refinement) |
| | `ProgramEscalates`, `ProgramLeavesNoChild`, `ProgramKeepsWrapperForChild` | the three properties of `AwsCommand`, of the program |
| | `ProgramTypeCorrect` | `ProgramTypeOK` |
| | `ExitsClean` | `CleanExit` |
| | `SafeModeIsSafe` | `SafeModeStartsNothing` |
| `AppProofs` | `AppTypeCorrect` | `TypeOK` |
| | `AppKeepsMonitorPromises` | `RunningHasMonitor` and `StopEndsWithThePass` inside the application |
| | `MonitoringIsAgreed` | `MonitoringAgrees` |
| | `HostLossIsFinal` | `HostLossPauses` |
| | `TrayShows` | `TrayShowsStatus` |
| | `ErrorIsSticky` | `StickyError` |
| | `PausesAgree` | `PauseAgrees`, if writes do not fail (with failing writes it is false, see `AppRefused`) |
| `TrayProofs` | `TrayTypeCorrect` | `TypeOK` |
| | `TrayViewsAreFresh` | `ViewsAreFresh` |
| | `IconIsWorst` | `IconTellsWorst` |
| | `OneRowEach` | `EveryProfileHasOneRow` |
| | `RowsAreHonest` | `RowsDoWhatTheySay` |
| `RenewalProofs` | `RenewalImplementsMonitor` | `Spec` implements `Spec` of `HealthMonitor` (refinement) |
| | `RenewalKeepsMonitorPromises` | `RunningHasMonitor` and `StopEndsWithThePass`, with the login queue behind the monitor |
| | `RenewalLoginsAreSerial` | `SerialLogins`, with the monitor threads in front of the queue |
| | `LoginsNeedExpiry` | `LoginNeedsExpiry` |

So every safety property of the passing runs is a theorem.

### The inductive invariants

Hardly one of these properties is inductive as it stands. What has to be known in
addition is the argument why the code works:

* **Login queue** (`IInv`). A second worker starts when `_processing` is clear, so
  `SerialLogins` needs `OneWorker`: at most one thread is alive, and only with the flag
  set. `RequestKept` and `Cooldown` need `LockIsLastStart`: a lock was set when
  the profile's last login started, and is deleted only after it has expired.
  `NoLostWakeup` needs the converse of `OneWorker` (a set flag has a live thread), which
  a thread start that raises would break. The refinement maps `wanted` to the profiles
  that are queued or between pop and lock and `active` to the profile of the thread in
  `"login"`, which is well defined because of `OneWorker`.
* **Health monitor**. `RunningHasMonitor` is inductive relative to the types.
  `StopEndsWithThePass` needs `ChecksWithinPass`: the checks that a thread has begun
  since the stop are at profiles that its pass has already come to (`PassBound`).
* **State store**. `DiskFollowsStep` ties the file to the step that the setter is
  at; `SettledEverywhere` says that a settled key has its acknowledged value in memory
  and in the file, which is what a restart at any moment needs.
* **Login command**. `EscalationFollowsPc` gives for each place in `run_sso_login` the
  signals that have been sent, the time that has passed and the time that remains;
  `ChildFollowsPc` says where a child can exist, `WrapperFollowsPc` that a wrapper with a
  known name is complete until the cleanup, and what a refusal may leave after it.
* **Program**. `NothingYet` (before the application is made nothing runs, and a handler is
  at one of its calls), `ExitCodes` (which code can come from where), `ShutdownInOrder` (a
  `shutdown()` that is closing has stopped the monitor, unless it was called on top of one
  no handler is under way, and only a complete one posts the quit) and `SafeModeHolds`
  (asked for safe mode, neither the startup nor a rollback reaches a start). The login
  worker is handled by refinement: the properties of `AwsCommand` carry over from
  `WorkerImplementsCommand`.
* **Application**. `MonitoringAgrees` speaks of a free event loop; `Agreement` adds what
  each half of a split handler, and of a rollback that fails, has told to whom. It is
  inductive together with three facts on the toggles that wait (`SwitchInv`): once one that
  changes the menu's switch is posted, every later one asks for the same (`ClicksAgree`);
  no resume waits that would meet a monitor without a thread (`NoIdleResume`) or that a
  heartbeat may overtake (`NoLateResume`). `HostLossPauses` needs the last one and
  `LossIsFinal` (after the loss no resume is pending). `PausesInStep`
  adds to `PauseAgrees` that no rollback is under way. The promises of the monitor carry
  over because each step of the application is a step of `HealthMonitor` (`HealthStep`).
* **Tray**. The lemmas are about the operators: `RankBijection` and `NamesListed` (sorting
  lists each profile once), `ChunkOf` and `SubmenuEntries` (each place of the sorted list
  falls into one submenu and no submenu is empty), `MenuComplete` (a menu has one row of
  each profile). `ViewsAreFresh` then follows from one lemma per way in which a handler
  ends (`Refreshed`), and `EveryProfileHasOneRow` from the fact that no handler changes
  the set of profiles without building the menu.
* **Renewal** (`RenewalIInv`). The answers that count have to cover each profile that is
  queued, and the licences each worker between pop and lock (`AskedCovers`), also if the
  profile is queued again between the two. This holds because a profile is queued once
  (`OneEntry`), because a login runs under its lock (`LoginsAreLocked`), and because a
  check that a login overtook meets the lock of that login (`OldIsLocked`): a request that
  would count for nothing is refused.

Each proof that a step preserves an invariant has a lemma per part of the invariant and a
step per action.

### Only model-checked

* All liveness properties (`RequestServed`, `MonitoredProfilesAreChecked`,
  `StoppedMonitorsEnd`, `ActiveProfileShowsOK`, `ExpiredIsRenewed`,
  `PausedLoginsEnd`, `LoopShutdownEnds`, `LoginReturns`): they rest on fairness, whose
  definition contains `ENABLED`, which the prover cannot treat.
* That `App` and `Renewal` together do what `LoginService` promises: `Renewal` replaces
  the clock of `LoginQueue` by an order of events, so its steps that end a lock are no
  steps of `LoginQueue`.
* The counterexamples of section 4, by their nature.

## 6. Abstractions that hold for the whole project

Log records, dialogs, the wording of labels and tooltips and the texts of errors are left
out. Names are model values. The browser override of a profile is a constant of it.
Exceptions are modelled where the code lets them leave a function. `time.time()` only
advances.

## 7. Plan

1. `LoginService`, `LoginQueue` and its proofs; `HealthMonitor`; `StateStore`; `App`;
   `Lifecycle`; `AwsCommand`: done.
2. `Renewal`, the composition of the monitor threads with the login queue; `Program`, the
   composition of the lifecycle with a login under way, and safe mode: done.
3. `Tray`: done.
4. Proofs of the safety properties of the passing runs, in all eight components that
   have theorems: done.
5. Left: `App` as an implementation of an abstract application in which a toggle is
   one step (status, pause and store change together), with its refinement proved;
   that the application, from the first start on, implements `HealthMonitor`; a theorem
   on `Lifecycle` alone, apart from what `ProgramProofs` says of it.

## 8. Not modelled

* Profile discovery (`aws.py` 608-827): sequential parsing, no state outlives a call.
* The settings other than safe mode: they are resolved in the same three layers and
  are constants here (the browser of a profile, the behaviour at the loss of the host)
  or about logging only.
* `mode_policy.py`, `watchdog.py` and `run_with_mode`, `run_check_only`, `run_normal`,
  `main_entrypoint` of `__main__.py`: `main()` reaches none of them.
* `classifier.py`: a batch tool over log files that the program does not import.
* `logger.py`: formatting and redaction of text.
* In `operator.py`: `force_check`, `get_all_profiles_needing_renewal`,
  `wait_for_completion` and the monitor's heartbeat, which the program never calls or
  never reads.
* In `tray.py`: the dialogs, `remove_profile` and the status window, which nobody opens,
  and the drawing of icons.
* Detection and pinging of the tray host: D-Bus and X11 calls.
* Clock changes.
