# A TLA+ model of retrosaver

retrosaver shows XScreenSaver modules on GNOME/Wayland. A user-level daemon
registers idle-time watches with Mutter, and turns their signals into a
screensaver, then a lock, then a blank display. While it runs it holds GNOME's
own `idle-delay` at 0, because anything else would blank the screen and end the
module; it gives the user's value back when it goes.

The modules here describe that program in TLA+. TLC explores them on small
instances; the central ones also carry theorems that TLAPS proves for every
value of the constants. Line numbers in comments are those of the source tree
this directory lives beside.

1. [The system](#the-system)
2. [The modules](#the-modules)
3. [Daemon](#daemon)
4. [IdleDelay](#idledelay)
5. [Saver](#saver)
6. [Runtime](#runtime)
7. [ConfigFile and Settings](#configfile-and-settings)
8. [Pump and SignalQueue](#pump-and-signalqueue)
9. [Selection](#selection)
10. [What is proved](#what-is-proved)
11. [What the code does not hold to](#what-the-code-does-not-hold-to)
12. [What is left out](#what-is-left-out)
13. [The plan](#the-plan)
14. [Running it](#running-it)

## The system

| Component | State | Operations |
|---|---|---|
| **daemon** (`internal/daemon`) | the `machine`: stage, generation, watches, the saver on screen, launches under way, counts of swaps and deaths, the modules used; the configuration | one event loop (`Run`'s `select`): a watch fired, a launch finished, the module exited, one of several modules exited, the lock state changed, the file changed, SIGTERM, a connection lost |
| **config** (`internal/config`) | the settings file | parse, validate, set keys atomically |
| **window** (`internal/window`) | savers: X windows, module processes, the unclutter process; `retrosaver.pid`, `retrosaver.module`, `retrosaver.unclutter.pid` | Launch, LaunchEach, Replace, Stop; StopRunning and RunningModule from another process |
| **idle** (`internal/idle`) | Mutter's watches, behind D-Bus; the pump's two channels | add and remove watches, read the idle time, deliver `WatchFired`, Close |
| **session** (`internal/session`) | GNOME's `idle-delay`, the saved value `idle-delay.orig`, logind's `LockedHint`; the lock watcher's pump | save, own, restore, clear; lock; follow the lock state |
| **watch** (`internal/watch`) | an inotify watch on the file's directory, a settle timer | report that the file has changed, once it has settled |
| **modules** (`internal/modules`) | the modules installed | list, include, exclude, pick |
| **cli** (`cmd/retrosaver`) | none of its own, but for the goroutine that turns SIGHUP and file changes into reloads | setup, teardown, stop, run, daemon, config, list, preview |
| **unit** (`systemd/retrosaver.service`) | the unit's state | start, restart, `ExecStopPost=retrosaver stop` |
| **gui** (`gui`) | what its rows show, the changes waiting to be written, the ticks and their mode, the preview's process | load, queue and save settings through the command line; switch the service; preview |

**How they interact.** The daemon calls session, idle and window directly, and
is told what happens by channels: a pump goroutine turns D-Bus signals into
watch IDs, another turns logind's into lock changes, each launch has its own
goroutine that sends its result, each saver has a channel that closes when its
module dies and each of several modules a message when it exits. A change of the
settings file comes to the daemon through inotify, three goroutines and their
channels. The daemon, the shell commands, the settings window and systemd share
`idle-delay`, the saved value, the settings file and the runtime files, and no
lock protects any of them.

**Which behaviours are hard.** They are listed with their lines under `hazards`
in `PROJECT.json`. In short:

- a launch takes seconds, and everything may have changed when it is done:
  the user came back, the session was locked, the settings were reloaded, or
  another launch has begun;
- Mutter's signals are asynchronous: they arrive late, for watches that have
  been removed, or for a stage already passed;
- every call to the outside can fail by itself, in the middle of a sequence of
  them (re-arming three watches, taking `idle-delay`, adding the active watch);
- modules die when they like, also while they are stopped or replaced, and may
  ignore SIGTERM;
- the daemon may die anywhere, systemd starts it again, and meanwhile shell
  commands write the same setting and the same files;
- channels are bounded, and whoever sends either waits or drops: a signal
  dropped is a stage that never comes, a change dropped a reload that must come
  some other way;
- process numbers are used again, and a PID file outlives what it names.

**What makes each component correct.**

- *daemon*: stages only run forward until the user returns; a module is on
  screen in the saver stage only, never behind the lock shield; the result of
  an abandoned launch is discarded; the stages ahead stay armed; the user's
  return is always noticed; no module is lost; swaps stay ahead of the clock;
  relaunches are capped.
- *session, cli, unit*: the user's `idle-delay` survives every order of setup,
  teardown, stop, crash and restart; nobody takes it from a running daemon.
- *window*: no two modules in a window; no module in a destroyed window; a
  process we ended is never reported as having died, and one that died always
  is; the runtime files name the saver on screen; between processes, a stop ends
  what is ours, all of it, and nobody else's.
- *idle, session's lock watcher*: signals arrive in order, none is lost while
  there is room, the end of the connection is told last, Close returns.
- *config, watch, gui*: a set changes what it was asked to and nothing else; no
  change of the file is missed; what the user chose in the window is what the
  file says.
- *modules*: what is ticked is what can be shown; every module gets its turn; no
  module is on two monitors while there are others.

## The modules

| Module | Stands for |
|---|---|
| `Schedule` | the policy as the settings state it: which stages are enabled, when each begins, which swap is next (`config.go`, `arm`, `armCycle`) |
| `Daemon` | `daemon.go`, every handler, with Mutter, logind, the launches and the user around it |
| `ScreensaverPolicy` | the abstract specification `Daemon` implements |
| `MCDaemon` | the configurations TLC runs `Daemon` on |
| `DaemonProofs`, `DaemonPromise` | the theorems on `Daemon` |
| `IdleDelay`, `IdleDelayProofs` | the owner of `idle-delay`: session.go, setup, teardown, stop, the unit; the theorems on it |
| `Saver`, `SaverProofs` | window.go inside one process: launches, processes, Replace, Stop, the runtime files; the theorems on it |
| `Runtime`, `MCRuntime`, `RuntimeProofs` | the PID file between processes: the daemon, `run`, `stop`; the theorems on it |
| `ConfigFile` | the settings file: how it parses, how a set edits it (config.go, write.go) |
| `Settings`, `MCSettings`, `SettingsProofs` | who writes the file and how a change gets to the daemon (watch.go, `reloadTriggers`, the settings window); the theorems on both |
| `Pump`, `PumpProofs` | the two signal pumps (idle.go, lockwatch.go), and that they implement `SignalQueue` |
| `SignalQueue` | the abstract specification of a subscription |
| `Selection`, `MCSelection`, `SelectionProofs` | which modules are shown (modules.go, `pick`, `pickSet`, `pickForRun`, the window's ticks); the theorems on it |

`Daemon` is the centre, and takes as single steps what the others open up:
`IdleDelay` what is around the daemon's process, with the daemon reduced to
taking, blanking and giving back; `Saver` what is inside one `Launch`, `Replace`
or `Stop`, with the event loop reduced to calling them in any order that loop
may; `Runtime` what several such processes do to each other; `Settings` what
comes before a `Reload`; `Pump` what comes before a watch fires or the lock
changes; `Selection` what `pick` chooses.

The modules share their assumptions rather than their variables. `Daemon` never
drops a signal and reads them in order: `Pump` shows when that is so. `Daemon`'s
`Reload` takes any configuration at any time: `Settings` shows which one, and
that it comes. `Saver` lets the loop adopt, discard or stop as `Daemon` does.

## Daemon

**State.** The variables carry the names of the fields of `machine`. The loop
handles one event at a time, so a handler is one action and contains all the
calls it makes. What runs beside the loop are actions of their own.

| Code | Actions |
|---|---|
| `Run` up to the loop | `Connected`, `NotConnected` |
| `handleWatch` | `OnUnknownWatch`, `OnPassedStage`, `OnSaver`, `OnCycle`, `OnLock`, `OnBlank`, `OnActive` |
| `handleLaunch` | `OnUnwantedLaunch`, `OnFailedLaunch`, `OnLaunchUp` |
| `onModuleExit`, `onCopyExit` | `OnModuleExit`, `OnCopyExit`, `OnCopyExitPanic` |
| `onLockChange`, the watcher's end | `OnLockIgnored`, `OnLockStops`, `LockWatcherLost` |
| `reload`, SIGTERM, a lost connection, `fatal` | `Reload`, `Terminate`, `LoseMutter`, `Die` |
| the launch goroutine | `LaunchReturns` |
| module processes, Mutter, the clock, the user, logind | `ModuleDies`, `Fire`, `Tick`, `Activity`, `SessionLocks`, `UserUnlocks` |

**Abstractions.** Times are ticks, and a threshold is a number of them. A watch
is a record of its kind, threshold and generation, which tells apart what
Mutter's fresh IDs tell apart. A launch is a record that passes from
`"starting"` to `"up"`, `"failed"` or `"canceled"`; one module for all monitors
counts as one process, since the first copy to exit stands for all of them.
Which module is picked is left out; that none can be picked is the fault
`"pick"`. A call to the outside either takes effect or fails, and fails only
when its name is in `Faults`; what the environment may do is in `Events`. Each
run turns on the faults its question needs, so that the others do not multiply
its states.

**Bounds.** `MaxIdle` stops the clock past the last threshold. `MaxGen` allows
no new activity, reload or lock from that generation on, so it bounds how often
things start over: one or two times is enough for the results of one period to
arrive in the next. `LaunchId` bounds the launches alive at once: a record is
free again once its launch is done with. `MaxFired` and `MaxLocks` bound the
signals undelivered at a time; when the queue is full Mutter waits, so that
nothing is dropped. That is what `Pump` shows of the code as long as fewer than
`signalBuffer` = 32 signals wait; the daemon holds five watches at most (saver,
cycle, lock, blank and user-active: one more than idle.go:39 says).

**Fairness** (`Fairness`, used by the run `locks` only). Go's `select` takes a
ready case at random, so a case that stays ready is taken in the end: each
group of cases is weakly fair. A launch returns within a bounded time (its
startup grace and timeouts), Mutter delivers what is due, and the clock runs.
Nothing is assumed of the user, of modules, or of logind.

| Run | Asks | Instance |
|---|---|---|
| `stages` | Does the daemon implement `ScreensaverPolicy` (`KeepsPromise`), do stages only run forward, are those ahead armed, is an abandoned launch never shown, is a blank remembered? | all stages, or the saver alone, with reloads between them; activity, deaths, SIGTERM, Mutter lost; failing launches, watches and `idle-delay` |
| `swaps` | Is no module lost, does a dead module have a replacement, does a live one stay, is there one swap ahead at most, before the lock stage and never in the past? | a swap every tick, up to the lock stage or for ever; three launches, so that a swap overlaps a replacement |
| `monitors` | Is whatever is on screen watched the way it was launched? | one to three monitors, plugged in and out between count and launch; every fault but failing watches and launches; a `SAVER_DELAY` of 0, which cannot be armed |
| `locks` | Is nothing shown behind the shield, is the user's return always noticed? And in the end: does the user get the desktop, does an idle session reach its last stage, does a dead module go? | locks and unlocks from elsewhere, a lost lock watcher, deaths, failing launches; fairness, no symmetry |
| `shield` | see [what the code does not hold to](#what-the-code-does-not-hold-to) | |

`SwapsAreAhead` is checked with an idle time that can be read: when `IdleTime`
fails, `armCycle` counts from 0 and may arm swaps that have passed.

Symmetry in `LaunchId` is used only where no liveness property is checked; the
daemon never compares launches other than for equality. Deadlock is not an
error in these instances, since a process that has returned does nothing more.

`locks` has a lock stage but no swaps: with swaps `NothingBehindShield` does
not hold, which is the run `shield`. `ReturnIsNoticed` is checked with no
failing `AddUserActiveWatch` (see below for what happens with one). `TypeOK` is more than types: it bounds the
relaunch counts by `maxRelaunches`.

## IdleDelay

Every process is separate here, and every read or write of the setting or of
the saved file is a step: two `setup` commands that may overlap, `teardown`, a
`retrosaver stop` from a shell, the unit's `ExecStopPost`, the daemon, which
may die at any point, and systemd with `Restart=always`.

The restore that four of them make is the same code
(`session.RestoreIdleDelay`): `ReadSaved` then `WriteDelay`, with the default
when there is no file. `saved` distinguishes a missing file, an empty one
(created exclusively and not yet filled) and a value. `value` is what a process
has read and is reset when it is done, which is bookkeeping.

A failing `systemctl disable --now` does not stop a teardown, which prints
"(continuing)" and restores and clears: `DisableFails`, under a unit that still
runs, after systemd was told to stop it or without (`TeardownBegins`). Failing
for a unit that was never enabled is `TeardownDisables`: the unit is inactive.
Two histories, which no guard reads, say what may go wrong from outside:
`blind`, the restorers that go on although a daemon runs (such a teardown, and a
`stop` that looked before the daemon started), and `forced`, that such a
teardown has been.

| Run | Asks | Instance |
|---|---|---|
| `idledelay` | Is the daemon's own 0 or blank value never saved as the user's, is a value restored whenever all is quiet, does nobody but one of `blind` restore under a daemon that owns it, does auto-lock come back after a crash? | two setups, a `systemctl` that fails in setup and in teardown, an ExecStopPost that fails at its pkill; setup and teardown apart |

`OwnerKeepsDelay` lets two others write: a setup puts the 0 there that the
daemon starts from, also over a blank value, which the daemon does not notice;
and each of `blind`, once. The other three hold until `forced`: a teardown that
goes on clears the saved value under a daemon, whose next reset puts 0 back, and
the next setup then records 0 (see
[below](#what-the-code-does-not-hold-to)).

**Fairness.** systemd goes on, and so does what it runs: the daemon's start and
exit, the restore on both sides, and a teardown that has begun. Nothing is
assumed of what the user begins, and nothing is assumed to fail. `AutoLockComesBack` needs no more, but for an
ExecStopPost that does not fail for ever: `cmdStop` returns on an error of
`StopRunning` before it restores (action `StopFails`), and a daemon that then
keeps dying before it owns `idle-delay` leaves it at 0.

`OneAtATime` keeps setup and teardown from overlapping in the passing run.
Nothing in the code does: with it off, a setup that read 0 while a daemon ran
creates the file after teardown has cleared it, and `OwnValueNeverSaved` fails.
It is listed as a hazard. It also fails, without overlap, when the disk does:
setup 1 creates the file, setup 2 finds it there and takes `idle-delay`, setup 1
cannot fill it and removes it, and the next setup records 0.

Assumed: gsettings' reads and writes are atomic, the unit is stopped by teardown
only (not by `systemctl stop`), one command of each kind other
than setup runs at a time, and commands are not killed half way. A failure to
enable the unit after `idle-delay` was taken leaves the setting at 0; the code reports that
error and no more, and `AtRest` excludes a setup that failed and was not
repeated.

## Saver

A launch runs on its goroutine, each module process has one that reaps it and
one that watches it, Stop takes its grace periods, and the loop, the launches
and a `retrosaver stop` from another shell share the runtime files.

| Code | Actions |
|---|---|
| `LaunchContext`, `LaunchEach`, `awaitStartup` | `LaunchBegins`, `StartChild`, `StartChildFails`, `AwaitFails`, `LaunchReturns` |
| `watch`, `child.stop`, `reap` | `WatchWakes`, `Report`, `WatchReleased`, `Escalate`, `Reaped` |
| `Stop`, `clearStateFor` | the Stop of a failed launch, `StopSaver`, `Discard`; `CloseScreen`, `ClearState` |
| `Replace` | `Replace`, `ReplaceStarts`, `ReplaceFails`, `ReplaceChecks`, `ReplaceWrites` |
| `StopRunning` | `StopRunning` |
| the daemon's loop | `Adopt`, and the above |

A process is alive, exited with its `Wait` not yet returned (after SIGKILL, when
a helper holds its stderr open), or reaped. One that exits otherwise is reaped
at once, since until then a signal has no effect on it. Opening the windows is
part of a launch's first step, which the loop cannot see inside of; starting
unclutter and `writeState` are one step. PIDs are not reused and `StopRunning`
is one step, once in a behaviour: its `/proc` checks against reused PIDs are
therefore not exercised.

**Bounds.** Two launches, so that a swap has an outgoing and an incoming saver;
up to two windows each, any number up to that; three processes, so that one
saver with two modules can have one replaced, or a second saver can start
beside it. A process ends when it likes, ignores SIGTERM as long as it likes,
and a `Wait` lasts up to `WaitDelay`.

**Fairness.** Goroutines are scheduled, timers fire, `cmd.WaitDelay` bounds
`Wait`, and the loop receives from `Exits` of the saver on screen, and of no
other. Since processes are finitely many, liveness is stated as `[]<>`: a
process that is never reported makes its property false for ever.

| Run | Asks | Instance |
|---|---|---|
| `saver` | One module per window; modules gone before their windows; no process that was signalled is reported; the files name the saver on screen; deaths are reported; stops end and leave no goroutine behind | `OneLaunch` and `WritesApart` hold |

The two assumptions are about `StateNamesSaver` alone, and both can fail in the
daemon. `WritesApart` off lets a launch write the PID file between Replace's
check of it and its rewrite: the saver it brings up is then named by no file
once the old one has been stopped. `OneLaunch` off lets two launches be in
flight, write the files in one order and be adopted in the other; stopping the
one adopted first then clears the files of the other. The other properties of
the run hold with both assumptions off as well.

## Runtime

Several processes put up savers: the daemon, and `retrosaver run` commands. Each
writes the one PID file when its startup grace is over and clears it when it
stops; `retrosaver stop`, from shells or as ExecStopPost, reads it. `Saver` has
the inside of one of them; here starting all modules of a saver is a step, and
stopping them is another, so that the reads and writes of the file can be apart.

| Code | Actions |
|---|---|
| `cmdRun`'s look, `startLaunch` | `RunLooks` (with `RunningModule`), `DaemonLaunches` |
| `launch` | `NoWindow`, `StartModules`, `GraceEnds` (writeState), `LaunchReturns` |
| `Stop`, `clearStateFor`, `clearState` | `StopsSaver`, `ReadsState`, `RemovesState` |
| a signal before `NotifyContext`, a kill, a crash | `RunDies`, `DaemonDies` |
| `StopRunning` and `terminate`, a goroutine per number | `StopBegins`, `StopReads` (`processMatches`), `StopTerms`, `StopWaits`, `StopPkills`, `StopRemoves` |
| the kernel | `ProcessExits`, `Recycled` |

pkill may be missing, which `pkillPrefix` ignores, or fail, which `StopRunning`
reports at its end: either way the files are cleared, and `StopPkills` signals
nobody. A module of a dead daemon that its ExecStopPost did not read in the file
(`named`) is then `"lost"` (`Missed`); one it did read has been ended before.

`proc` says what runs under each number and what has been done to it: `of` whom
it is, or what its host left it as, `found` by a stop, `asked` to end after its daemon died, `late` to
take the number. These, `named` and `stale` are history, which no guard reads.

| Run | Asks | Instance |
|---|---|---|
| `runtime` | Does a stop signal a stranger only if the number changed hands after it looked; is what it found gone when it returns; is a dead daemon's module always told to go, if the file names it or pkill works; does the file go with the last saver, but for a `run` that died? | the daemon and a `run`, either of which may die at any point, two stops of which one may be ExecStopPost, each with a pkill that works or not, three numbers, one stranger |

**Bounds.** Three numbers: two savers with a module each, and one left of an
earlier one or taken by a stranger. Two stops, since two may find the same
process; they are interchangeable, and so are the numbers, which TLC uses as
symmetry. One module per saver: the loops over several are the same steps.
unclutter and the other two runtime files are left out; they are written and
removed after the PID file, by the same code.

## ConfigFile and Settings

`ConfigFile` has no state. A file is a sequence of lines, a line an assignment
of a key, with a value the parser takes or `Bad`, or one of three other things.
`Parse` and `Load` are config.go's, `Edited` and `Accepts` are what `Set` writes
and when it refuses.

`Settings` puts the writers at one end and the daemon at the other.

| Code | Actions |
|---|---|
| `config set` (`Set`, `writeAtomic`) | `RunSet`, `SetReads`, `SetRenames`, `SetFails`, `SetEnds`, also for the window's two kinds of save |
| editors that rename, or write in place; `installConfig` | `Replace`; `EditorOpens`, `EditorCloses`; `InstallLooks`, `InstallOpens`, `InstallWrites` |
| the window: `load`, `queue`, `flush`, `on_close` | `OpenWindow`, `WindowLoads`, `TryAgain`, `Change`, `Flush`, `SaveSucceeds`, `SaveFailed`, `CloseWindow` |
| watch.go: `read`, `run` | `Reads`, `ReadFails`; `Hears`, `Settles`, `RunReturns` |
| `reloadTriggers` | `RelayHears`, `RelaySends`, `WatchIsOver`, `Hangup` |
| the daemon: start, `reload` | `Starts`, `StartsWatch`, `Dies`; `TakesReload`, `ReadsFile`, `Applies` |

Every channel on the way has a capacity of one and is sent to without waiting,
so it is a Boolean. inotify's queue is one too: events that name the file are
the same to `mentions`. `excused` and `gap` are history: the first that somebody
but the window wrote, the second that the file changed between the start's load
and its watch.

**Fairness.** The goroutines and the loop run and the settle timer fires.
Nothing is owed by the user, by systemd, or by what may fail; the timer is not
assumed to wait for quiet, so a settle may come early.

| Run | Asks | Instance |
|---|---|---|
| `settings` | Is no change missed, does what the user chose reach the file, does a set leave the rest alone, does the daemon catch up in the end? | two keys with two values each; a command, an editor and the window; files with a key twice, an unknown key, a refused value overridden |

**Bounds.** Two keys tell the key that is set from the rest, two values a change
from none. `Apart` splits the instance: sets and the window with no daemon, to
which a set is a rename, and all writers' events with one. `CloseWhileSaving`
off keeps the window open until its save is done.

## Pump and SignalQueue

godbus puts a signal in the registered channel, or drops it when that is full;
the pump takes it out and waits to hand it to the loop; the loop reads, and is
also the one that calls Close. `Connect`, `pump` and `Close` are the same in
idle.go and lockwatch.go but for the sizes (32 and 8, 16 and 1), which are
`SignalBuffer` and `FiredBuffer`.

| Code | Actions |
|---|---|
| `Connect`, `WatchLocks` | `Register`, `AddMatch`, `StartPump` |
| godbus and the bus | `Emit`, `Drop` |
| `pump` | `Take`, `HandOver`, `SeeEnd`, `Stopped` |
| the loop, `Close` | `Receive`, `ReceiveClosed`; `CloseDone`, `RemoveSignal`, `CloseConn`, `Wait` |

`SignalQueue` is what the loop may count on: a queue whose length is what waits
in both channels and in the pump's hand, that may lose a signal only when it is
at least `Room` long, and tells of the end when it is empty. `sent` carries a
bit that alternates, so that a signal sent twice is two steps.

**Fairness.** Both goroutines run. The loop returns to its select because every
call it makes has a timeout (`callTimeout`). Nothing makes it call Close.

| Run | Asks | Instance |
|---|---|---|
| `pump` | Does the pump implement `SignalQueue`, with its liveness; does Close always return? | two signals and one that means nothing to the loop; 3 and 2 slots, so that both can fill with the pump in between |

## Selection

`Daemon` says when a launch is wanted, `Selection` what it may choose: a launch
may be wanted at any time in the saver stage, may fail, and two may overlap.
`Picks` and `PickSets` are the sets of what `pick` and `pickSet` may return,
with the `used` they leave. `Land`, `Fail`, `Exit`, `CopyExit` are the handlers
as far as names go. `Tick` is the settings window's `selection_updates` saved
and reloaded, which resets the daemon.

`since` counts, for each module, how many others have been picked since it was
picked itself or on screen; it stops at `Longest`, the
bound checked when every module is selectable. `overlap` remembers, for the rest
of an idle cycle, that a launch was wanted with another in flight.

| Run | Asks | Instance |
|---|---|---|
| `selection` | Are the modules of a set different while the selection allows it; with one launch at a time in flight, does every module get its turn before twice as many have been picked as there are, and is a swap skipped only when there is nothing else; is what is ticked what may be picked? | four modules, two monitors, two launches in flight, two tries each |
| `unticked` | see below | |

**Bounds.** Four modules are a pool that is larger than, equal to and smaller
than what two monitors need, as ticks come and go. Picking is exhaustive:
`rand.IntN` is any choice.

## What is proved

There is no bound on the constants beyond the named assumptions: for `Daemon`,
`ConfigsAssumption` (configurations are records of naturals), `NoneAssumption`
(`None` is no launch), `BoundsAssumption` (bounds are naturals, at least one
monitor), `DelaysAssumption` (both delays are positive); for the others, that
names that differ in the code differ (such as `Runtime`'s `RunsAssumption`: a
`run` is not the daemon), that sizes are positive, and that the modules installed
are finitely many and not none (`Selection`'s `InstalledAssumption`).

Some theorems assume more, each what the run that checks the property assumes
too, and each because the property is false without it:

| Theorem | Assumes | Without it |
|---|---|---|
| `ReturnsAreNoticed` | `"addActive" \notin Faults` | the user-active watch may be missing in the last stage |
| `SwapsStayAhead` | `"idletime" \notin Faults` | `armCycle` counts from 0 and arms swaps that have passed |
| `NothingIsBehindShield` | `SwapsOff`: no configuration swaps; `LockIsRead`: `"locked" \notin Faults` | two launches of one generation, see the run `shield`; a lock that cannot be read counts as none |
| `FilesNameSaver` | `OneLaunch`, `WritesApart` | see [Saver](#saver) |
| `ChoicesLand` | `~CloseWhileSaving` | the older of two saves may rename last |
| `DaemonKeepsDelay`, `OwnValueIsNeverSaved`, `RestoredWhenQuiet` | `OneAtATime`; the last two `Sound`, which adds a gsettings and a disk that work. None assumes that `systemctl` works: the properties name what a failing `disable` does | see [IdleDelay](#idledelay) |

| Theorem | Module | Says |
|---|---|---|
| `TypeCorrect` | `DaemonProofs` | `Spec => []TypeOK`, with the relaunch caps |
| `ModulesStayInSaverStage` | `DaemonProofs` | a module is on screen in the saver stage only |
| `AbandonedLaunchesStayOff` | `DaemonProofs` | what is on screen is of this generation and was not cancelled |
| `StagesRunForward` | `DaemonProofs` | a stage that goes down goes to idle, in a new generation, with nothing left over |
| `ModulesAreKept` | `DaemonProofs` | a module that came up is on screen or waits in the channel |
| `DeadModulesAreReplaced` | `DaemonProofs` | a dead module is kept only with the launch `machine.cancel` names still coming |
| `ExitsAreNoticed` | `DaemonProofs` | what is on screen is watched as it was launched, or known to be dead |
| `LiveModulesStay` | `DaemonProofs` | in the saver stage a running module goes only for one that came up, or for a lock |
| `BlankingRemembered` | `DaemonPromise` | `idle-delay` is non-zero exactly when the daemon remembers having blanked |
| `DaemonKeepsPromise` | `DaemonPromise` | `Spec => ScreensaverPolicy` under the refinement mapping |
| `StagesAreArmed` | `DaemonPromise` | every stage ahead has its watch pending, at the time the configuration gives it |
| `ReturnsAreNoticed` | `DaemonPromise` | in a stage, and only there, a user-active watch is pending |
| `SwapsStayAhead` | `DaemonPromise` | one swap at most, before the lock stage, ahead of the clock |
| `NothingIsBehindShield` | `DaemonPromise` | once told of a lock, the daemon shows nothing and has nothing coming |
| `ChangesAreNotMissed` | `SettingsProofs` | while the watch is up, a change of the file is in the daemon or on its way there |
| `SetsChangeOnlyWhatIsAsked` | `SettingsProofs` | a set across which nobody wrote gives a file that parses to what was there, with what was asked for changed |
| `ChoicesLand` | `SettingsProofs` | when no save is left, the file says what the user chose in the window |
| `SignalsComeInOrder` | `PumpProofs` | `Pump` implements the safety part of `SignalQueue`, for all buffer sizes |
| `DaemonKeepsDelay` | `IdleDelayProofs` | with setup and teardown apart (`OneAtATime`), and whatever fails, nobody restores under a daemon that owns `idle-delay` but a `stop` that looked before it started and a teardown whose `disable` failed |
| `OwnValueIsNeverSaved` | `IdleDelayProofs` | with that, and a gsettings and a disk that work (`Sound`), what the daemon puts in the setting is never saved as the user's, until such a teardown |
| `RestoredWhenQuiet` | `IdleDelayProofs` | under `Sound`, a value of the user's is back whenever all is quiet, until such a teardown |
| `OneModuleInWindow` | `SaverProofs` | two modules never draw in one window |
| `WindowsOutliveModules` | `SaverProofs` | no module is alive with its windows gone |
| `SignalsAreNotReports` | `SaverProofs` | a process that was signalled is never reported as having died |
| `FilesNameSaver` | `SaverProofs` | between operations the runtime files name the saver on screen |
| `StopsSpareStrangers` | `RuntimeProofs` | a stop signals only what was a module when it looked, or took the number of one since |
| `WhatIsFoundIsStopped` | `RuntimeProofs` | when no stop is at work, nothing one has found still runs |
| `CrashIsCleanedUp` | `RuntimeProofs` | ExecStopPost leaves no module of a dead daemon without a signal: none the file named, and no other unless pkill failed |
| `NoFileIsLeft` | `RuntimeProofs` | the PID file goes with the last saver and the last stop, but for a `run` that died without its Stop |
| `MonitorsDiffer` | `SelectionProofs` | the modules of a set, picked or on screen, differ while the selection allows it |
| `TurnsAreTaken` | `SelectionProofs` | with one launch at a time in flight, a module has its turn before twice as many have been picked as are selectable |
| `SwapsAreNotSkipped` | `SelectionProofs` | with one launch at a time in flight, a swap is skipped only when there is nothing else to show |
| `TickedArePicked` | `SelectionProofs` | what is ticked is what may be picked |
| `LaunchesFindASet` | `SelectionProofs` | `pickSet` finds a set exactly when some module is selectable |

**Daemon.** `TypeOK` is inductive by itself; its proof has a lemma per
operator that a handler is made of and a step per action. The safety properties
are not inductive. That the module on screen is of this generation depends on
`handleLaunch`, which takes an `"up"` launch from the queue; so what is queued
has to be known. `SafeInv` adds to `TypeOK`:

- `ScreenOK`: what is on screen came up, in this generation, in the saver stage;
- `QueueOK`: the queue holds launches that have settled, each once, and never
  the one on screen;
- `LaunchesOK`: no launch is of a generation to come, and one of this
  generation was cancelled only if the lock stage has begun. This is what makes
  the generation counter do its work: a cancelled launch that came up all the
  same is either of an earlier generation or met outside the saver stage, and
  `handleLaunch` discards it on those two grounds without looking at whether it
  was cancelled.

`WatchedInv` adds what the loop knows of the module on screen, and the parts
hold each other up. The launch `machine.cancel` names is still coming
(`CancelOK`): whatever takes its result or cancels it clears the field. That is
why a dead module may be kept while `machine.cancel` is set (`DeadOK`). A module
that is dead and kept was watched on Done, so it is one for all monitors
(`ChannelOK`), and a launch that came up is on screen or in the channel
(`NotLost`). `LiveModuleStays` speaks of steps; it needs that a module the loop
believes dead has no process left (`StaysInv`), for `closeDead` takes it down
without looking.

For the refinement, `PromiseInv` adds what is remembered of blanking, and
`View` lists the six things a step can do to the variables the policy speaks
of. One lemma shows that every action has a view, another that every view is a
policy step or a stutter.

`ArmInv` is about the watches. The daemon knows only watches that Mutter holds,
and Mutter holds none of a generation to come (`HeldOK`): so a watch that is
registered is new, and has not fired, even where `RemoveWatch` failed and an
old one is still there. Those known for the stages are exactly the ones of one
configuration and generation (`StagesOK`), and each is pending until its stage
has begun (`PendingOK`): a signal is taken from the queue only by the action
that enters the stage, or is ignored because the stage has passed.
`machine.activeArmed` says whether a user-active watch is known (`ArmedOK`);
`ReturnIsNoticed` follows once every stage arms it.

`SwapInv`: no swap is scheduled in the idle state, so `onSaver` arms the first
on top of none, and `onCycle` drops the one it counts before it arms the next.
That the next is ahead of the clock is arithmetic: `PastQuotient` and
`NextSwapAhead` give that the first multiple past a quotient rounded down is
past the dividend.

`ShieldInv` is what `onLockChange` relies on when it looks at `machine.cancel`
and the screen, and at nothing else. Without swaps at most one launch is coming,
and `machine.cancel` names it (`OneComing`): with `WatchedInv`'s `CancelOK` it is
an equivalence. The last lock change on its way is to the state the session is in
(`LocksOK`), so a daemon with none on its way has been told, and what it was
told last either stopped everything or found nothing to stop. From there on
only a launch that reads the lock state can begin. With swaps `OneComing` is
what fails, and it fails as the run `shield` shows.

**Settings.** `NoChangeMissed` is inductive once two things are known of the
other end (`MissInv`): a watch that is up belongs to a daemon that is up, and a
daemon between its load and its watch has the file's settings unless `gap` says
otherwise. Every write either raises an event or opens a file in place, whose
event is still to come; every step of the way hands the change to the next
stage, or reads the file itself. `SetsChangeOnlyWhatIsAsked` is about the
editing: the last assignment of each key is replaced or one is appended
(`ReplacedIs`, `AppendedIs`), so `Parse` of the result is what was asked for
(`ParseApply`); `EditInv` carries from `SetReads` to `SetRenames` that the edit
of what was read parses. `LandInv` adds what becomes of the user's choices: as
long as nobody else wrote and no save failed, they are the file's settings with
the save in flight, then the one made on closing, then the changes still queued
put over them (`WillBe`), and a save that has read has read the file as it is.
`OneSave` says that there is one save at a time and whose it is; it is what
`CloseWhileSaving` breaks.

**Saver.** `SaverInv` is a correspondence between windows, children and
processes. The i-th child of a saver draws in its i-th window (`SlotsOK`), and
every process that is alive is the child in its slot (`AliveOK`): Replace puts
the new process in a slot only once the old one has gone, and Stop destroys the
windows only once every child has. `WatchOK` has why a signal is never taken for
a death: a process is signalled only with its saver closing or itself retired,
and its watch asks for both before it reports. None of this needs the two
assumptions; the files do. `FilesInv` adds that a launch that was not cancelled
is alone beside the saver on screen (`AloneOK`), and that the files name the
launch that came up last, or else what is on screen, by its old first process
while Replace is about to rewrite them (`FilesOK`).

**Runtime.** Four parts, which are inductive together. A stop signals what
`processMatches` has seen to be a module (`StrangersSpared`). What a stop found
and has not seen the end of is held by one that waits (`FoundIsHeld`). An
ExecStopPost runs for a dead daemon and alone, since systemd starts no other
before it has ended; while it waits, each module of that daemon the file named
has had its SIGTERM or is about to, so that after a pkill, whether that worked
or not, only what is lost has had none (`PostIsAlone`). And a PID file has somebody who will remove
it: the saver it names, one that has read that it is named, a stop, or the
ExecStopPost to come (`FileIsWatched`).

**Pump.** The mapping puts the two channels and the pump's hand end to end:
handing over moves a boundary inside that sequence, taking out a signal the loop
does not want removes one in the middle (`RemoveMiddle`). `PumpInv` says that
the pump's hand is empty unless it waits to send, that the channel is registered
before a rule matches, and that an ended pump in an open subscription has
nothing left.

**IdleDelay.** `TurnInv` says who may be at work when: a restore only in a
daemon that leaves, in its ExecStopPost, in a `stop` that found none or is
`blind`, or in a teardown that has seen the unit stop or is. `OwnInv`, which
holds until `forced`, adds what each value may be: while there is no
saved file, the daemon's values are nowhere, not in the setting, nor in what a
setup has read; and they are in the setting only while somebody is on the way to
put the other back.

**Selection.** `pickSet` is a loop, so `PickSets` is a recursive function, and
what it computes takes an induction over the monitors. The library's induction
theorems take an operator as a parameter, which the provers cannot be given;
`Induction` and `Recursion` are proved here for sets instead, from the
well-foundedness of the finite sets, and the set to use them with is written
down where they are used. The invariants they carry describe what a loop has
picked so far (`PickedSet`, `Try`):

- the modules differ, or there are no others left to pick (`Apart`);
- what is left in `used` is one of three things (`Leaves`): what it was, and none
  of the modules were in it; what is on screen, and the set shows something
  else; or nothing, and the modules picked, with those on screen, are all there
  are. In the last two everything selectable was used or picked, which is why a
  pool is started over only once it is used up.

`PickInv` is the inductive invariant. `Typed` and `SetsApart` hold whatever
overlaps, and give `MonitorsDiffer`. `Alone` is what holds with one launch at a
time in flight: what is in flight is used; something on screen is used too,
unless everything is on screen (`Anchored`); and every module waits its turn
(`Waits`). `Anchored` is what `SwapsAreNotSkipped` needs: a set that is the one
on screen is not all fresh, so the pool was started over, and started over with
nothing else to show. `Waits` counts. A module that is used was picked less long
ago than there are used modules; one that is not used has at most one round
behind it besides. A pick uses one more module, which raises the bound by what
it adds to the counts; and when a pool is started over, every module has been
used, so every count is below one pool, and the round that begins adds at most
one more.

**Only model-checked:** liveness (in `locks`, `idledelay`, `saver`, `settings`,
`pump`), which the prover does not do under fairness. Every safety property that
a passing run checks is stated by a theorem.

## What the code does not hold to

Two have a run whose counterexample shows it, and an entry under `findings` that
quotes the lines.

- `shield`: two launches of one generation in flight. The first result clears
  `machine.cancel`; a lock that comes with nothing on screen, since the first
  brought no module or its module has gone again, is then ignored, and the
  second module is put up behind the shield.
- `unticked`: nothing ticked, in the mode "Only ticked modules". INCLUDE is
  written empty, and an empty INCLUDE allows every module, where the window says
  there is nothing to show.

The others have none; the models contain the behaviour, and the passing
properties are stated, or the instances chosen, so as not to claim it.

*Daemon and savers.*

- A monitor plugged in between counting the monitors and opening the windows
  gives a saver more windows than names. When the module on the last one exits,
  `onCopyExit` (daemon.go:1206) indexes `currentNames` out of range
  (`OnCopyExitPanic`). When it exits on one of several and the pool is no larger
  than the monitors, the replacement may be a module another monitor shows.
- Adding the user-active watch fails in the last stage, which is not the lock
  stage switched off: the comment says "let the next stage try again"
  (daemon.go:530), there is none, and nothing notices the user.
- Launches that overlap are picked against what is on screen, not what is in
  flight: the second may be the set the first has put up, or be skipped for it.
  Each may start the pool over, so a module may wait longer for its turn than two
  rounds: two launches in flight stay within them with two monitors and four
  modules, three do not.
  With two selectable modules a retry may pick the one that has just failed.
- Two launches in flight, or a launch and a Replace, leave the saver on screen
  named by no file ([Saver](#saver)).

*Between processes.*

- `retrosaver stop` sees no daemon, one starts and takes `idle-delay`, and stop
  then restores it under that daemon (`OwnerKeepsDelay` names the exception).
- `teardown`'s restore fails and it clears the saved value all the same; the
  next setup records the daemon's 0 as the user's own. With `"gsettings"` in
  `Faults`, `OwnValueNeverSaved` fails this way.
- `systemctl disable --now` fails and `teardown` goes on (main.go:567): it
  restores and clears under a daemon that believes it holds 0. That daemon's
  next reset puts 0 back, and the next setup records 0 as the user's, after
  "GNOME owns the idle policy again" (main.go:583). `OwnerKeepsDelay` names it,
  and the other three properties of `idledelay` hold until then (`forced`).
- ExecStopPost returns on a failing pkill before it restores, against
  "restores it whenever the service stops" (retrosaver.service:15).
- Two `run` commands look for a running module before either has written its
  file, which is half a second or more later, and both come up, against
  "Refuses to stack a second module over a running one" (retrosaver.1:71). The
  daemon does not look at all.
- `run` catches signals only once its launch is done: Ctrl-C before that ends
  it, its windows go, and its module, in a process group of its own, is left
  (`RunDies`), against "ends it and clears the screen" (retrosaver.1:74).
- With pkill missing, or failing, a module that is in no file survives
  `retrosaver stop` and the ExecStopPost of a daemon that died, and the files are
  cleared all the same (window.go:657); a missing one is not reported.
- Between SIGTERM and SIGKILL `terminate` does not look again at what runs under
  the number.
- `clearStateFor` reads the file and then removes it: a saver that another
  process writes in between goes unnamed.

*Settings.*

- A change between the daemon's load and its watch is not seen until the next
  (`gap`), and a SIGHUP before `signal.Notify` ends the process.
- The watch is on one directory: a set through a symlink renames in another, and
  a directory removed and made again is not watched any more.
- Two sets, or a set and an editor, lose one of the changes; `installConfig`
  writes over a file made since it looked.
- A window closed with one save in flight and another waiting starts the second
  beside it, and the older may rename last, against "this one is newer"
  (retrosaver-settings:627): `EditsLand` fails with `CloseWhileSaving`. A save
  that fails on closing is told to nobody.
- A file written in place is read half-way when another reload comes: the daemon
  runs on the defaults until the save ends. A read that fails with the settle
  timer armed drops that change.

## What is left out

| Part | Why |
|---|---|
| X11: windows, geometry, `settle`, ring buffers; module arguments | calls to a server with no state of the program's own; `Saver` and `Runtime` have that opening the windows takes time, fails, or is cancelled. `settle` (screen.go:191) returns success at the deadline on the first window of the wrong size, without looking at the windows after it |
| how the graphical session is found, D-Bus names | look-ups at start, with an error path `Daemon` has as `"connect"` |
| what `Discover` finds, `info.go`, `list`, `config` output | reading and formatting |
| `preview`, and the window's preview button | one process and an inhibitor, which touch nothing of the daemon's |
| the window's service switch | runs setup and teardown, which are in `IdleDelay`; what it shows is a snapshot |
| spelling, quoting and ranges of settings | a value is one the parser takes or not |
| overflow of the idle thresholds | after 292 years of seconds |

## The plan

Done, in this order: `Schedule`, `Daemon`, `ScreensaverPolicy` and the refinement
with their theorems; `IdleDelay`; `Saver`; `ConfigFile` and `Settings`; `Pump`
and `SignalQueue`; `Selection`; `Runtime`; the theorems on `Settings`, `Pump` and
`IdleDelay`; those on `Runtime` and `Saver`, and the rest of `Daemon`'s and
`Settings`'; those on `Selection`.

Nothing of the plan is left. What remains unproved is liveness, which stays with
TLC; what remains unmodelled is in the table above.

## Running it

    tlc -config MCDaemonStages.cfg MCDaemon.tla
    tlc -config IdleDelayOwned.cfg IdleDelay.tla
    tlc -config SaverStop.cfg Saver.tla
    tlc -config Runtime.cfg MCRuntime.tla
    tlc -config Settings.cfg MCSettings.tla
    tlc -config Pump.cfg Pump.tla
    tlc -config Selection.cfg MCSelection.tla
    tlapm DaemonProofs.tla
    tlapm DaemonPromise.tla
    tlapm IdleDelayProofs.tla
    tlapm SaverProofs.tla
    tlapm RuntimeProofs.tla
    tlapm SettingsProofs.tla
    tlapm PumpProofs.tla
    tlapm SelectionProofs.tla

`PROJECT.json` lists every run with its module, configuration and properties,
the lines each definition stands for, and for each property a mutated
definition that breaks it.
