------------------------------- MODULE Daemon -------------------------------
(***************************************************************************)
(* The retrosaver daemon: one event loop that turns idle-time signals into *)
(* a screensaver, a lock and a blank display, with module launches running *)
(* beside it on goroutines of their own (internal/daemon/daemon.go).       *)
(*                                                                         *)
(* The loop handles one event at a time, so a handler is one action.  What *)
(* runs beside the loop are actions of their own: Mutter's idle monitor,   *)
(* the launches, the module processes, the user, and logind.  One          *)
(* behaviour is the life of one process, from Run to its return.           *)
(***************************************************************************)
EXTENDS Schedule, Sequences, FiniteSets

CONSTANTS
    Configs,          \* the configurations the user may save
    LaunchId,         \* launches, in flight or on screen, told apart
    None,             \* no launch
    Monitors,         \* how many monitors there can be
    MaxRelaunches,    \* maxRelaunches
    BlankIdleDelay,   \* blankIdleDelay
    UserIdleDelay,    \* the idle-delay the user had before retrosaver
    Faults,           \* the calls that may fail in this instance
    Events,           \* what the environment may do in this instance
    MaxIdle,          \* bound: the idle clock stops here
    MaxGen,           \* bound: no new user activity, reload or lock from here
    MaxFired,         \* bound: idle signals undelivered at a time
    MaxLocks          \* bound: lock changes undelivered at a time

ASSUME ConfigsAssumption == Configs \subseteq Config
ASSUME NoneAssumption == None \notin LaunchId
ASSUME BoundsAssumption ==
    /\ Monitors \in Nat \ {0}
    /\ MaxRelaunches \in Nat
    /\ MaxIdle \in Nat /\ MaxGen \in Nat /\ MaxFired \in Nat /\ MaxLocks \in Nat
ASSUME DelaysAssumption ==
    BlankIdleDelay \in Nat \ {0} /\ UserIdleDelay \in Nat \ {0}

VARIABLES
    run,            \* where Run is: "starting", "running", or how it returned
    fatal,          \* machine.fatal is set
    cfg,            \* Daemon.cfg
    stage,          \* machine.stage
    gen,            \* machine.gen
    watches,        \* machine.watches: the watches whose signals are known
    activeArmed,    \* machine.activeArmed
    cancel,         \* the launch machine.cancel would cancel, or None
    launched,       \* launches whose results wait on machine.launched
    launches,       \* every launch: its context, its outcome, its processes
    current,        \* the launch machine.current came from, or None
    watching,       \* which of current's channels Run selects on
    dead,           \* machine.dead
    blanked,        \* machine.blanked
    attempts, cycles, deaths, monitorDeaths,
    idle,           \* Mutter: how long the session has been idle
    registered,     \* Mutter: the watches it holds
    spent,          \* Mutter: those that have fired since the clock was reset
    fired,          \* idle signals on their way to the daemon
    sessionLocked,  \* logind: LockedHint
    lockWatch,      \* the lock watcher is up
    locks,          \* lock changes on their way to the daemon
    idleDelay       \* GNOME's idle-delay setting

saverVars == <<launches, cancel, current, watching, dead>>
countVars == <<attempts, cycles, deaths, monitorDeaths>>
watchVars == <<watches, activeArmed, registered, spent>>
lockVars == <<sessionLocked, lockWatch, locks>>
delayVars == <<blanked, idleDelay>>
loopVars == <<run, fatal, cfg>>
vars == <<loopVars, stage, gen, watchVars, launched, saverVars, countVars,
          delayVars, idle, fired, lockVars>>

-----------------------------------------------------------------------------
(* The stages, in the order the idle sequence goes through them. *)
stageIdle == 0
stageSaver == 1
stageLock == 2
stageBlank == 3

Monitor == 1..Monitors

(***************************************************************************)
(* A launch is in flight ("starting"), has brought a module up, or has     *)
(* failed, either by itself or because its context was cancelled.  `names' *)
(* counts the modules it was asked for: one for all monitors, or one each. *)
(* `alive' are the module processes running and `exits' those that died    *)
(* and still have to be reported; a single module counts as one process,   *)
(* since the first copy to exit stands for all.                            *)
(***************************************************************************)
Launch == [st : {"none", "starting", "up", "failed", "canceled"}, gen : Nat,
           names : 0..Monitors, canceled : BOOLEAN,
           alive : SUBSET Monitor, exits : SUBSET Monitor]
NoLaunch == [st |-> "none", gen |-> 0, names |-> 0, canceled |-> FALSE,
             alive |-> {}, exits |-> {}]
NewLaunch(n) == [st |-> "starting", gen |-> gen, names |-> n,
                 canceled |-> FALSE, alive |-> {}, exits |-> {}]

Outcomes(ok, fault, failed) == {ok} \cup (IF fault \in Faults THEN {failed} ELSE {})

Running == run = "running" /\ ~fatal

Init ==
    /\ run = "starting" /\ fatal = FALSE
    /\ cfg \in Configs
    /\ stage = stageIdle /\ gen = 0
    /\ watches = {} /\ activeArmed = FALSE
    /\ cancel = None /\ launched = <<>>
    /\ launches = [l \in LaunchId |-> NoLaunch]
    /\ current = None /\ watching = "none" /\ dead = FALSE /\ blanked = FALSE
    /\ attempts = 0 /\ cycles = 0 /\ deaths = 0
    /\ monitorDeaths = [i \in Monitor |-> 0]
    /\ idle \in {0, MaxIdle}
    /\ registered = {} /\ spent = {} /\ fired = <<>>
    /\ sessionLocked \in {FALSE, "lock" \in Events}
    /\ lockWatch = FALSE /\ locks = <<>>
    /\ idleDelay \in {UserIdleDelay, BlankIdleDelay}

-----------------------------------------------------------------------------
(* Pieces the handlers are made of.                                        *)

(* Arming adds the idle watches in order, and stops at the first failure.  *)
(* AddIdleWatch refuses an interval of 0, so SAVER_DELAY=0 arms nothing.   *)
Armings(c, g) ==
    IF c.saverDelay = 0 THEN {{}}
    ELSE {IdleWatches(c, g)}
         \cup (IF "addIdle" \in Faults
               THEN {ArmedBefore(c, g, w) : w \in IdleWatches(c, g)} ELSE {})

(* RemoveWatch's failures are logged and otherwise ignored. *)
Removals(ws) == IF "removeWatch" \in Faults THEN SUBSET ws ELSE {ws}

ActiveWatch == Watch("active", 0, gen)

(* ensureActiveWatch: the watches it adds, {} also standing for a failure. *)
ActiveArmings ==
    IF activeArmed THEN {{}} ELSE Outcomes({ActiveWatch}, "addActive", {})

(* armCycle with `done' swaps counted: the watch it adds, if any. *)
CycleArmings(n) ==
    IF SwapFits(cfg, n)
    THEN Outcomes({Watch("cycle", SwapAt(cfg, n), gen)}, "addIdle", {})
    ELSE {{}}

SwapNumbers(done) ==
    Outcomes(NextSwap(cfg, done, idle), "idletime", done + 1)

(* armCycle, on top of the watches known and those Mutter holds. *)
ArmCycle(done, known, held) ==
    IF CycleEnabled(cfg)
    THEN \E n \in SwapNumbers(done) : \E new \in CycleArmings(n) :
            /\ cycles' = n - 1
            /\ watches' = known \cup new
            /\ registered' = held \cup new
    ELSE cycles' = done /\ watches' = known /\ registered' = held

Register(new) ==
    /\ watches' = watches \cup new
    /\ registered' = registered \cup new
    /\ spent' = spent

(* ensureActiveWatch on its own, as onLock and onBlank call it. *)
EnsureActiveWatch(new) ==
    /\ activeArmed' = (activeArmed \/ new # {})
    /\ fatal' = (~activeArmed /\ new = {} /\ ~LockEnabled(cfg))

RearmQuietly(c, g, armed) ==
    /\ activeArmed' = FALSE
    /\ watches' = armed
    /\ registered' = (registered \ watches) \cup armed
    /\ spent' = spent \ watches
    /\ fatal' = FALSE

RearmStillArmed(c, g, armed) ==
    /\ activeArmed' = activeArmed
    /\ watches' = armed
    /\ registered' = (registered \ watches) \cup armed
    /\ spent' = spent \ watches
    /\ fatal' = (armed # IdleWatches(c, g))

(* rearm: drop every watch, register a fresh set.  Failing leaves too few, *)
(* and is fatal.                                                           *)
Rearm(c, g, armed) ==
    \E removed \in Removals(watches) :
        /\ activeArmed' = FALSE
        /\ watches' = armed
        /\ registered' = (registered \ removed) \cup armed
        /\ spent' = spent \ removed
        /\ fatal' = (armed # IdleWatches(c, g))

(* stopSaver: the launch in flight is cancelled, the module on screen      *)
(* stopped and forgotten.                                                  *)
Abandon(l) == IF l = cancel THEN [launches[l] EXCEPT !.canceled = TRUE]
              ELSE launches[l]
Abandoned == [l \in LaunchId |-> IF l = current THEN NoLaunch ELSE Abandon(l)]

StopSaverKept ==
    /\ launches' = Abandoned
    /\ cancel' = None /\ watching' = "none" /\ dead' = FALSE
    /\ UNCHANGED current

StopSaver ==
    /\ launches' = Abandoned
    /\ cancel' = None /\ current' = None
    /\ watching' = "none" /\ dead' = FALSE

RestoreAssumed ==
    /\ blanked' = FALSE
    /\ idleDelay' \in IF blanked THEN Outcomes(0, "setDelay", idleDelay) ELSE {idleDelay}

(* reset: back to the idle state.  A failure to take idle-delay back is    *)
(* remembered, for the next reset to try again.                            *)
RestoreBlanked ==
    \/ /\ blanked
       /\ blanked' = FALSE /\ idleDelay' = 0
    \/ /\ blanked => "setDelay" \in Faults
       /\ UNCHANGED delayVars

ResetMidway ==
    /\ gen' = gen + 1
    /\ StopSaver
    /\ RestoreBlanked
    /\ UNCHANGED <<stage, countVars>>

Reset ==
    /\ gen' = gen + 1
    /\ StopSaver
    /\ RestoreBlanked
    /\ stage' = stageIdle
    /\ attempts' = 0 /\ cycles' = 0 /\ deaths' = 0
    /\ monitorDeaths' = [i \in Monitor |-> 0]

(* locked: the session's lock state, FALSE when it cannot be read. *)
LockReadings == Outcomes(sessionLocked, "locked", FALSE)

(* monitors: how many modules a launch is for. *)
NameCounts ==
    IF ~cfg.different THEN {1}
    ELSE IF "hotplug" \in Faults THEN Monitor ELSE {Monitors}

(***************************************************************************)
(* startLaunch, called with `tries' attempts made, launches `ls' and       *)
(* `pending' for machine.cancel: it launches, or finds no module to        *)
(* launch, or finds only the one on screen.  A launch already in flight is *)
(* neither waited for nor cancelled; machine.cancel just stops naming it.  *)
(***************************************************************************)
Launches(tries, ls) ==
    \E l \in LaunchId, n \in NameCounts :
        /\ ls[l].st = "none"
        /\ launches' = [ls EXCEPT ![l] = NewLaunch(n)]
        /\ cancel' = l
        /\ attempts' = tries + 1

SameModules(n) == current # None /\ ~dead /\ launches[current].names = n

NothingToLaunch == "pick" \in Faults \/ \E n \in NameCounts : SameModules(n)

StartLaunch(tries, ls, pending) ==
    \/ Launches(tries, ls)
    \/ /\ NothingToLaunch
       /\ launches' = ls /\ cancel' = pending /\ attempts' = tries

-----------------------------------------------------------------------------
(* shutdown, from Run's defer: it also runs when a handler panics.  One    *)
(* result can be in the channel; a second would be stuck behind it.  The   *)
(* rest of the machine's fields go with the process.                       *)
Teardown(outcome) ==
    /\ run' = outcome
    /\ gen' = gen + 1
    /\ launches' = [l \in LaunchId |->
            IF launched # <<>> /\ l = Head(launched) THEN NoLaunch ELSE Abandoned[l]]
    /\ launched' = IF launched = <<>> THEN <<>> ELSE Tail(launched)
    /\ cancel' = None /\ current' = None
    /\ watching' = "none" /\ dead' = FALSE
    /\ idleDelay' \in Outcomes(UserIdleDelay, "setDelay", idleDelay)
    /\ registered' = {} /\ spent' = {} /\ fired' = <<>>
    /\ lockWatch' = FALSE /\ locks' = <<>>
    /\ stage' = stageIdle /\ watches' = {} /\ activeArmed' = FALSE
    /\ fatal' = FALSE /\ blanked' = FALSE
    /\ attempts' = 0 /\ cycles' = 0 /\ deaths' = 0
    /\ monitorDeaths' = [i \in Monitor |-> 0]
    /\ UNCHANGED <<cfg, idle, sessionLocked>>

(* Run up to its loop.  It connects and takes idle-delay before anything   *)
(* has to be undone, so failing at either returns with no teardown; a      *)
(* failure to arm returns through it.  Doing without the lock watcher is   *)
(* allowed.                                                                *)
Connected ==
    /\ run = "starting"
    /\ idleDelay' = 0
    /\ \E armed \in Armings(cfg, gen) :
        /\ watches' = armed /\ registered' = armed /\ spent' = {}
        /\ fatal' = (armed # IdleWatches(cfg, gen))
    /\ run' = "running"
    /\ lockWatch' \in Outcomes("lock" \in Events, "watchLocks", FALSE)
    /\ UNCHANGED <<cfg, stage, gen, activeArmed, launched, saverVars, countVars,
                   blanked, idle, fired, sessionLocked, locks>>

NotConnected ==
    /\ run = "starting"
    /\ "connect" \in Faults
    /\ run' = "failed"
    /\ UNCHANGED <<fatal, cfg, stage, gen, watchVars, launched, saverVars,
                   countVars, delayVars, idle, fired, lockVars>>

Start == Connected \/ NotConnected

(* SIGTERM, the bus connection dropping, and a handler that set fatal. *)
Terminate == Running /\ "terminate" \in Events /\ Teardown("stopped")
LoseMutter == Running /\ "loseMutter" \in Events /\ Teardown("failed")
Die == run = "running" /\ fatal /\ Teardown("failed")

-----------------------------------------------------------------------------
(* handleWatch: one action per kind of watch.                              *)

ReachedExactly(s) == stage = s
ReachedAnything(s) == stage > stageIdle

(* Stages only ever advance until a reset: a signal for a stage already    *)
(* reached, late or repeated, is ignored.                                  *)
Reached(s) == stage >= s

Signalled(kind) ==
    /\ Running
    /\ fired # <<>>
    /\ Head(fired) \in watches
    /\ Head(fired).kind = kind
    /\ fired' = Tail(fired)

OnUnknownWatch ==
    /\ Running
    /\ fired # <<>>
    /\ Head(fired) \notin watches
    /\ fired' = Tail(fired)
    /\ UNCHANGED <<loopVars, stage, gen, watchVars, launched, saverVars,
                   countVars, delayVars, idle, lockVars>>

OnPassedStage ==
    /\ \/ Signalled("saver") /\ Reached(stageSaver)
       \/ Signalled("lock") /\ Reached(stageLock)
       \/ Signalled("blank") /\ Reached(stageBlank)
    /\ UNCHANGED <<loopVars, stage, gen, watchVars, launched, saverVars,
                   countVars, delayVars, idle, lockVars>>

OnSaver ==
    /\ Signalled("saver") /\ ~Reached(stageSaver)
    /\ stage' = stageSaver
    /\ \E active \in ActiveArmings :
        /\ EnsureActiveWatch(active)
        /\ \/ /\ TRUE \in LockReadings
              /\ Register(active)
              /\ UNCHANGED <<saverVars, countVars>>
           \/ /\ FALSE \in LockReadings
              /\ ArmCycle(cycles, watches \cup active, registered \cup active)
              /\ spent' = spent
              /\ StartLaunch(attempts, launches, cancel)
              /\ UNCHANGED <<current, watching, dead, deaths, monitorDeaths>>
    /\ UNCHANGED <<run, cfg, gen, launched, delayVars, idle, lockVars>>

(* The fired watch is dropped, whatever the stage; then, in the saver      *)
(* stage of an unlocked session, its successor is armed and a swap begun.  *)
OnCycle ==
    /\ Signalled("cycle")
    /\ \E removed \in Removals({Head(fired)}) :
        LET known == watches \ {Head(fired)}
            held == registered \ removed
        IN  /\ spent' = spent \ removed
            /\ \/ /\ stage # stageSaver \/ TRUE \in LockReadings
                  /\ watches' = known /\ registered' = held
                  /\ UNCHANGED <<saverVars, countVars>>
               \/ /\ stage = stageSaver /\ FALSE \in LockReadings
                  /\ ArmCycle(cycles + 1, known, held)
                  /\ StartLaunch(0, launches, cancel)
                  /\ UNCHANGED <<current, watching, dead, deaths, monitorDeaths>>
    /\ UNCHANGED <<loopVars, stage, gen, activeArmed, launched, delayVars, idle,
                   lockVars>>

OnLock ==
    /\ Signalled("lock") /\ ~Reached(stageLock)
    /\ stage' = stageLock
    /\ \E active \in ActiveArmings : EnsureActiveWatch(active) /\ Register(active)
    /\ StopSaver
    /\ \/ /\ sessionLocked' = TRUE
          /\ locks' = IF lockWatch /\ ~sessionLocked THEN Append(locks, TRUE) ELSE locks
       \/ "lockSession" \in Faults /\ UNCHANGED <<sessionLocked, locks>>
    /\ UNCHANGED <<run, cfg, gen, launched, countVars, delayVars, idle, lockWatch>>

OnBlank ==
    /\ Signalled("blank") /\ ~Reached(stageBlank)
    /\ stage' = stageBlank
    /\ \E active \in ActiveArmings : EnsureActiveWatch(active) /\ Register(active)
    /\ StopSaver
    /\ \/ idleDelay' = BlankIdleDelay /\ blanked' = TRUE
       \/ "setDelay" \in Faults /\ UNCHANGED delayVars
    /\ UNCHANGED <<run, cfg, gen, launched, countVars, idle, lockVars>>

OnActive ==
    /\ Signalled("active")
    /\ Reset
    /\ \E armed \in Armings(cfg, gen + 1) : Rearm(cfg, gen + 1, armed)
    /\ UNCHANGED <<run, cfg, launched, idle, lockVars>>

(* reload: a file that cannot be read, or that changes nothing, changes    *)
(* nothing here either; one that changes only INCLUDE or EXCLUDE resets as  *)
(* any other does.                                                         *)
Reload ==
    /\ Running /\ "reload" \in Events
    /\ \E c \in Configs :
        \/ /\ c = cfg
           /\ UNCHANGED vars
        \/ /\ gen < MaxGen
           /\ cfg' = c
           /\ Reset
           /\ \E armed \in Armings(c, gen + 1) : Rearm(c, gen + 1, armed)
           /\ UNCHANGED <<run, launched, idle, fired, lockVars>>

-----------------------------------------------------------------------------
(* handleLaunch: one action per outcome, on the result at the head of the  *)
(* channel.                                                                *)

Result == launches[Head(launched)]
Received == [launches EXCEPT ![Head(launched)] = NoLaunch]

Landed ==
    /\ Running
    /\ launched # <<>>
    /\ launched' = Tail(launched)

(* machine.cancel once the result is in: a stale one leaves it alone. *)
CancelLeft == IF Result.gen = gen THEN None ELSE cancel

UnwantedIfLate(r) == stage >= stageLock

(* The user came back or a later stage began while it was starting. *)
Unwanted(r) == r.gen # gen \/ stage >= stageLock

OnUnwantedLaunch ==
    /\ Landed
    /\ Unwanted(Result)
    /\ launches' = Received
    /\ cancel' = CancelLeft
    /\ UNCHANGED <<loopVars, stage, gen, watchVars, current, watching, dead,
                   countVars, delayVars, idle, fired, lockVars>>

CloseDeadNever(ls) ==
    cancel' = None /\ launches' = ls /\ UNCHANGED <<dead, current>>
CloseAnyway(ls) ==
    /\ cancel' = None /\ dead' = FALSE /\ current' = None
    /\ launches' = [l \in LaunchId |-> IF l = current THEN NoLaunch ELSE ls[l]]

(* closeDead, when nothing is on its way to replace the dead module. *)
CloseDead(ls) ==
    /\ cancel' = None
    /\ dead' = FALSE
    /\ current' = IF dead THEN None ELSE current
    /\ launches' = IF dead THEN [ls EXCEPT ![current] = NoLaunch] ELSE ls

Retryable(r) == r.st = "failed" /\ attempts < 2

OnFailedLaunch ==
    /\ Landed
    /\ ~Unwanted(Result)
    /\ Result.st # "up"
    /\ \/ /\ Retryable(Result)
          /\ Launches(attempts, Received)
          /\ UNCHANGED <<current, dead>>
       \/ /\ Retryable(Result) => NothingToLaunch
          /\ CloseDead(Received)
          /\ UNCHANGED attempts
    /\ UNCHANGED <<loopVars, stage, gen, watchVars, watching, cycles, deaths,
                   monitorDeaths, delayVars, idle, fired, lockVars>>

OutgoingKept == launches
ChannelByConfig(r) == IF cfg.different THEN "exits" ELSE "done"

(* The outgoing module is stopped only now that its replacement is up. *)
OutgoingStopped ==
    [l \in LaunchId |-> IF l = current THEN NoLaunch ELSE launches[l]]
Channel(r) == IF r.names > 1 THEN "exits" ELSE "done"

OnLaunchUp ==
    /\ Landed
    /\ ~Unwanted(Result)
    /\ Result.st = "up"
    /\ launches' = OutgoingStopped
    /\ current' = Head(launched)
    /\ watching' = Channel(Result)
    /\ dead' = FALSE
    /\ cancel' = CancelLeft
    /\ UNCHANGED <<loopVars, stage, gen, watchVars, countVars, delayVars, idle,
                   fired, lockVars>>

-----------------------------------------------------------------------------
(* onModuleExit: the module on screen, the same on every monitor, exited.  *)
(* A saver that was stopped closes Done too, which is why Run must not be  *)
(* selecting on it any more.                                               *)
DoneClosed ==
    /\ watching = "done"
    /\ current = None \/ launches[current].alive = {}

RelaunchesOverrun == deaths > MaxRelaunches
RelaunchesSpent == deaths >= MaxRelaunches

OnModuleExit ==
    /\ Running
    /\ DoneClosed
    /\ watching' = "none"
    /\ \/ /\ cancel # None
          /\ dead' = TRUE
          /\ UNCHANGED <<launches, cancel, current, attempts, deaths>>
       \/ /\ cancel = None
          /\ stage # stageSaver \/ RelaunchesSpent \/ TRUE \in LockReadings
          /\ dead' = FALSE /\ current' = None
          /\ launches' = [launches EXCEPT ![current] = NoLaunch]
          /\ UNCHANGED <<cancel, attempts, deaths>>
       \/ /\ stage = stageSaver /\ cancel = None
          /\ ~RelaunchesSpent /\ FALSE \in LockReadings
          /\ deaths' = deaths + 1
          /\ \/ /\ Launches(0, launches)
                /\ dead' = TRUE
                /\ UNCHANGED current
             \/ /\ "pick" \in Faults
                /\ attempts' = 0 /\ cancel' = None
                /\ dead' = FALSE /\ current' = None
                /\ launches' = [launches EXCEPT ![current] = NoLaunch]
    /\ UNCHANGED <<loopVars, stage, gen, watchVars, launched, cycles,
                   monitorDeaths, delayVars, idle, fired, lockVars>>

-----------------------------------------------------------------------------
(* onCopyExit: the module on one monitor exited, each monitor having its   *)
(* own.  Modules are picked for that monitor, `tries' of them, until one   *)
(* starts or there is a reason to leave the monitor black.                 *)

CopyExited(i) ==
    /\ Running
    /\ watching = "exits" /\ current # None
    /\ i \in launches[current].exits

RelaunchesLeft(i) == MaxRelaunches - monitorDeaths[i]

Tries(i) == {n \in 0..RelaunchesLeft(i) : n > 1 => "replace" \in Faults}

MayRelaunch == stage = stageSaver /\ cancel = None /\ FALSE \in LockReadings

GivesUp(i, tries) ==
    \/ tries = RelaunchesLeft(i) /\ (tries > 0 => "replace" \in Faults)
    \/ tries > 0 /\ "pick" \in Faults
    \/ tries > 0 /\ "replace" \in Faults /\ TRUE \in LockReadings

Reported(i) == [launches EXCEPT ![current].exits = @ \ {i}]
Replaced(i) == [launches EXCEPT ![current].exits = @ \ {i},
                                ![current].alive = @ \cup {i}]

OnCopyExit ==
    \E i \in Monitor :
        /\ CopyExited(i)
        /\ \/ /\ stage # stageSaver \/ cancel # None \/ TRUE \in LockReadings
              /\ launches' = Reported(i)
              /\ UNCHANGED monitorDeaths
           \/ /\ MayRelaunch
              /\ \E tries \in Tries(i) :
                    /\ GivesUp(i, tries)
                    /\ monitorDeaths' = [monitorDeaths EXCEPT ![i] = @ + tries]
              /\ launches' = Reported(i)
           \/ /\ MayRelaunch
              /\ i <= launches[current].names
              /\ \E tries \in Tries(i) \ {0} :
                    monitorDeaths' = [monitorDeaths EXCEPT ![i] = @ + tries]
              /\ launches' = Replaced(i)
        /\ UNCHANGED <<loopVars, stage, gen, watchVars, launched, cancel,
                       current, watching, dead, attempts, cycles, deaths,
                       delayVars, idle, fired, lockVars>>

(* The name of the replacement is stored under the monitor's number; with  *)
(* more windows than names that index is out of range.                     *)
OnCopyExitPanic ==
    \E i \in Monitor :
        /\ CopyExited(i)
        /\ MayRelaunch
        /\ i > launches[current].names
        /\ Tries(i) # {0}
        /\ Teardown("panicked")

-----------------------------------------------------------------------------
(* onLockChange, and the lock watcher's channel closing.                   *)

LockChanged == Running /\ locks # <<>> /\ locks' = Tail(locks)

LaunchingShown == current # None
Launching == current # None \/ cancel # None

OnLockIgnored ==
    /\ LockChanged
    /\ ~Head(locks) \/ stage # stageSaver \/ ~Launching
    /\ UNCHANGED <<loopVars, stage, gen, watchVars, launched, saverVars,
                   countVars, delayVars, idle, fired, sessionLocked, lockWatch>>

OnLockStops ==
    /\ LockChanged
    /\ Head(locks) /\ stage = stageSaver /\ Launching
    /\ gen' = gen + 1
    /\ StopSaver
    /\ UNCHANGED <<loopVars, stage, watchVars, launched, countVars, delayVars,
                   idle, fired, sessionLocked, lockWatch>>

LockWatcherLost ==
    /\ Running /\ lockWatch /\ "loseLocks" \in Events
    /\ lockWatch' = FALSE
    /\ UNCHANGED <<loopVars, stage, gen, watchVars, launched, saverVars,
                   countVars, delayVars, idle, fired, sessionLocked, locks>>

-----------------------------------------------------------------------------
(* What runs beside the loop.                                              *)

(* A launch returns, and its goroutine queues the result.  One whose       *)
(* context was cancelled may still have got its module up.  A launch of    *)
(* several modules succeeds with those that survived the startup grace.    *)
LaunchUp(l, windows, alive) ==
    launches' = [launches EXCEPT ![l].st = "up", ![l].alive = alive,
                                 ![l].exits = windows \ alive]

WindowCounts(n) == IF "hotplug" \in Faults THEN Monitor ELSE {n}

LaunchReturns(l) ==
    /\ run = "running"
    /\ launches[l].st = "starting"
    /\ launched' = Append(launched, l)
    /\ \/ /\ launches[l].names = 1
          /\ LaunchUp(l, {1}, {1})
       \/ /\ launches[l].names > 1
          /\ \E w \in WindowCounts(launches[l].names) :
                \E alive \in SUBSET (1..w) \ {{}} :
                    /\ "copyFails" \notin Faults => alive = 1..w
                    /\ LaunchUp(l, 1..w, alive)
       \/ /\ "launch" \in Faults
          /\ launches' = [launches EXCEPT ![l].st = "failed"]
       \/ /\ launches[l].canceled
          /\ launches' = [launches EXCEPT ![l].st = "canceled"]
    /\ UNCHANGED <<loopVars, stage, gen, watchVars, cancel, current, watching,
                   dead, countVars, delayVars, idle, fired, lockVars>>

ModuleDies(l, i) ==
    /\ run = "running" /\ "die" \in Events
    /\ launches[l].st = "up" /\ i \in launches[l].alive
    /\ launches' = [launches EXCEPT ![l].alive = @ \ {i},
                        ![l].exits = IF launches[l].names > 1 THEN @ \cup {i} ELSE @]
    /\ UNCHANGED <<loopVars, stage, gen, watchVars, launched, cancel, current,
                   watching, dead, countVars, delayVars, idle, fired, lockVars>>

(* Mutter: an idle watch fires once the session has been idle for its      *)
(* threshold, at once if it already has; a user-active watch fires at the  *)
(* first activity, at once if the user is active now.  Whether a watch     *)
(* that has fired fires again after the clock is reset is left open.       *)
Due(w) == IF w.kind = "active" THEN idle = 0 ELSE idle >= w.at

Fire(w) ==
    /\ run = "running"
    /\ w \in registered \ spent /\ Due(w)
    /\ Len(fired) < MaxFired
    /\ spent' = spent \cup {w}
    /\ fired' = Append(fired, w)
    /\ UNCHANGED <<loopVars, stage, gen, watches, activeArmed, registered,
                   launched, saverVars, countVars, delayVars, idle, lockVars>>

Quiet == \A w \in registered \ spent : w.kind # "active"

Tick ==
    /\ run = "running"
    /\ idle < MaxIdle
    /\ idle = 0 => Quiet
    /\ idle' = idle + 1
    /\ UNCHANGED <<loopVars, stage, gen, watchVars, launched, saverVars,
                   countVars, delayVars, fired, lockVars>>

UserActivity ==
    /\ run = "running" /\ "activity" \in Events
    /\ idle > 0 /\ gen < MaxGen
    /\ idle' = 0
    /\ spent' \in {spent, {}}
    /\ UNCHANGED <<loopVars, stage, gen, watches, activeArmed, registered,
                   launched, saverVars, countVars, delayVars, fired>>

Activity == UserActivity /\ UNCHANGED lockVars

LockChange(locked) ==
    /\ sessionLocked # locked
    /\ Len(locks) < MaxLocks
    /\ sessionLocked' = locked
    /\ locks' = IF lockWatch THEN Append(locks, locked) ELSE locks
    /\ UNCHANGED lockWatch

(* A lock can come from elsewhere; unlocking takes the user. *)
SessionLocks ==
    /\ run = "running" /\ "lock" \in Events /\ gen < MaxGen
    /\ LockChange(TRUE)
    /\ UNCHANGED <<loopVars, stage, gen, watchVars, launched, saverVars,
                   countVars, delayVars, idle, fired>>

UserUnlocks == UserActivity /\ LockChange(FALSE)

-----------------------------------------------------------------------------
(* Run's select, one operator per case. *)
HandleWatch ==
    \/ OnUnknownWatch \/ OnPassedStage
    \/ OnSaver \/ OnCycle \/ OnLock \/ OnBlank \/ OnActive
HandleLaunch == OnUnwantedLaunch \/ OnFailedLaunch \/ OnLaunchUp
HandleExit == OnModuleExit \/ OnCopyExit \/ OnCopyExitPanic
HandleLockChange == OnLockIgnored \/ OnLockStops \/ LockWatcherLost

Loop ==
    \/ HandleWatch \/ HandleLaunch \/ HandleExit \/ HandleLockChange
    \/ Reload \/ Terminate \/ LoseMutter \/ Die

LaunchSettles == \E l \in LaunchId : LaunchReturns(l)
ProcessDies == \E l \in LaunchId, i \in Monitor : ModuleDies(l, i)
MutterFires == \E w \in registered : Fire(w)

Environment ==
    \/ LaunchSettles \/ ProcessDies \/ MutterFires \/ Tick
    \/ Activity \/ SessionLocks \/ UserUnlocks

Next == Start \/ Loop \/ Environment

Spec == Init /\ [][Next]_vars

(* select takes a ready case at random, so none that stays ready is passed *)
(* over for ever; a launch returns within a bounded time, Mutter delivers  *)
(* what is due, and the idle clock runs.  Nothing is assumed of the user,  *)
(* of module processes or of logind.                                       *)
Fairness ==
    /\ WF_vars(HandleWatch)
    /\ WF_vars(HandleLaunch)
    /\ WF_vars(HandleExit)
    /\ WF_vars(OnLockIgnored \/ OnLockStops)
    /\ WF_vars(Die)
    /\ WF_vars(LaunchSettles)
    /\ WF_vars(MutterFires)
    /\ WF_vars(Tick)

FairSpec == Spec /\ Fairness

-----------------------------------------------------------------------------
(* What all this implements.                                               *)

PhaseNames == <<"idle", "saver", "lock", "blank">>
Phase == IF run = "starting" THEN "off"
         ELSE IF run = "running" THEN PhaseNames[stage + 1] ELSE "over"

Promise == INSTANCE ScreensaverPolicy WITH
    phase <- Phase, shown <- (current # None), delay <- idleDelay

-----------------------------------------------------------------------------
(* Properties.                                                             *)

LoopTypeOK ==
    /\ run \in {"starting", "running", "stopped", "failed", "panicked"}
    /\ fatal \in BOOLEAN
    /\ cfg \in Configs
    /\ stage \in stageIdle..stageBlank
    /\ gen \in Nat
    /\ idle \in Nat

WatchTypeOK ==
    /\ watches \subseteq Watches /\ activeArmed \in BOOLEAN
    /\ registered \subseteq Watches /\ spent \subseteq registered
    /\ fired \in Seq(Watches)

SaverTypeOK ==
    /\ launched \in Seq(LaunchId)
    /\ launches \in [LaunchId -> Launch]
    /\ cancel \in LaunchId \cup {None}
    /\ current \in LaunchId \cup {None}
    /\ watching \in {"none", "done", "exits"}
    /\ dead \in BOOLEAN

CountTypeOK ==
    /\ attempts \in Nat /\ cycles \in Nat
    /\ deaths \in 0..MaxRelaunches
    /\ monitorDeaths \in [Monitor -> 0..MaxRelaunches]

SessionTypeOK ==
    /\ sessionLocked \in BOOLEAN /\ lockWatch \in BOOLEAN
    /\ locks \in Seq(BOOLEAN)
    /\ blanked \in BOOLEAN
    /\ idleDelay \in Nat

(* Every variable has its type; in particular no idle period relaunches     *)
(* modules more often than maxRelaunches, on any monitor (daemon.go:48).    *)
TypeOK ==
    LoopTypeOK /\ WatchTypeOK /\ SaverTypeOK /\ CountTypeOK /\ SessionTypeOK

(* A module is on screen only in the saver stage of a running daemon: never *)
(* over the desktop of a user who is back, never behind the lock or blank   *)
(* stage (daemon.go, stopSaver and handleLaunch).                           *)
ModuleOnlyInSaverStage ==
    current # None => run = "running" /\ stage = stageSaver

(* A launch abandoned by a reset, a lock or a later stage is never adopted  *)
(* when its result arrives, even if its module came up (the generation      *)
(* counter, daemon.go:979).                                                 *)
StaleLaunchNeverShown ==
    current # None => launches[current].gen = gen /\ ~launches[current].canceled

(* Every module that came up is either on screen or on its way to be taken  *)
(* or discarded: no handler loses one (handleLaunch, closeDead).            *)
InChannel(l) == \E i \in DOMAIN launched : launched[i] = l
NoModuleLost ==
    \A l \in LaunchId : run = "running" /\ launches[l].st = "up" => l = current \/ InChannel(l)

(* The daemon waits on the channel of a module only while that module is    *)
(* current, and keeps a dead module only with a launch of this generation   *)
(* in flight to replace it (daemon.go:437-448, onModuleExit, closeDead).    *)
InFlight(l) == launches[l].st = "starting" \/ InChannel(l)
Coming(l) == InFlight(l) /\ launches[l].gen = gen /\ ~launches[l].canceled
DeadModuleHasReplacement ==
    /\ watching # "none" => current # None /\ ~dead
    /\ dead => current # None /\ cancel # None /\ Coming(cancel)

(* A module on screen is watched the way it was launched, or already known  *)
(* to be dead: no swap between one module for all monitors and one for each *)
(* leaves a module whose exit nobody would notice (handleLaunch).           *)
ScreenIsWatched ==
    Running /\ current # None =>
        IF launches[current].names > 1 THEN watching = "exits"
        ELSE watching = "done" \/ dead

(* While a stage is on, the user coming back will be noticed: the           *)
(* user-active watch is known, and waits in Mutter or has fired into the    *)
(* queue (ensureActiveWatch).  In the idle state none is armed, so no       *)
(* signal is wasted on a user already active.                               *)
Waiting(w) == w \in registered \ spent \/ \E i \in DOMAIN fired : fired[i] = w
Awaited(kind) == \E w \in watches : w.kind = kind /\ Waiting(w)
ReturnIsNoticed ==
    Running => (stage # stageIdle <=> Awaited("active"))

(* Every stage still ahead has its watch pending, at the idle time the      *)
(* current configuration gives it: idle-delay is 0, so nothing else would   *)
(* lock or blank the session (arm, rearm, reload).                          *)
StagesAheadAreArmed ==
    Running =>
        \E g \in 0..gen :
            /\ {w \in watches : w.kind \in {"saver", "lock", "blank"}} = IdleWatches(cfg, g)
            /\ \A w \in IdleWatches(cfg, g) :
                    \/ Waiting(w)
                    \/ w.kind = "saver" /\ stage >= stageSaver
                    \/ w.kind = "lock" /\ stage >= stageLock
                    \/ w.kind = "blank" /\ stage = stageBlank

(* GNOME blanks on its own only when the daemon told it to, and the daemon  *)
(* remembers so, which is what makes the next reset undo it, also after a   *)
(* reset that failed to (onBlank, reset).                                   *)
BlankIsRemembered == run = "running" => (idleDelay # 0 <=> blanked)

(* Once the daemon has been told that the session is locked, nothing is     *)
(* shown behind the shield and nothing is on its way there (onLockChange,   *)
(* and the lock checks of onSaver, onCycle, onModuleExit, onCopyExit).      *)
NothingBehindShield ==
    Running /\ sessionLocked /\ lockWatch /\ locks = <<>> =>
        /\ current = None
        /\ \A l \in LaunchId : ~Coming(l) \/ stage # stageSaver

(* The daemon keeps its promise: see ScreensaverPolicy.                     *)
KeepsPromise == Promise!Policy

(* At most one swap is scheduled at a time, before the lock stage, counted  *)
(* from the ones idled through; and it is scheduled for a moment still      *)
(* ahead, also when the daemon starts on a session long idle: no burst of   *)
(* launches (armCycle, onCycle).                                            *)
OneSwap ==
    Running =>
        /\ \A v, w \in watches : v.kind = "cycle" /\ w.kind = "cycle" => v = w
        /\ \A w \in watches : w.kind = "cycle" =>
                /\ LockEnabled(cfg) => w.at < LockAt(cfg)
                /\ w.at = SwapAt(cfg, cycles + 1)

SwapsAreAhead ==
    /\ []OneSwap
    /\ [][\A w \in watches' \ watches : w.kind = "cycle" => w.at > idle]_vars

(* A stage is left only forwards, or back to idle by a reset that starts a  *)
(* new generation with no module and no counts left over.                   *)
StagesOnlyAdvance ==
    [][stage' < stage => /\ stage' = stageIdle /\ gen' > gen
                         /\ current' = None /\ cancel' = None
                         /\ deaths' = 0 /\ attempts' = 0 /\ cycles' = 0]_vars

(* In the saver stage a module that is running leaves the screen only when  *)
(* its replacement is up, or when the session was locked: a swap that       *)
(* fails, or another launch's result, never takes it down.                  *)
LiveModuleStays ==
    [][current # None /\ current' # current /\ stage' = stageSaver /\ run' = "running" =>
        \/ current' # None /\ launches[current'].st = "up"
        \/ current' = None /\ launches[current].alive = {}
        \/ current' = None /\ locks # <<>> /\ Head(locks)]_vars

(* Whoever comes back finds the desktop: activity during a stage leads to   *)
(* the idle state, or the process is gone.                                  *)
UserGetsDesktop ==
    (stage # stageIdle /\ idle = 0 /\ run = "running")
        ~> (stage = stageIdle \/ run # "running")

LastStage(c) == IF BlankEnabled(c) THEN stageBlank
                ELSE IF LockEnabled(c) THEN stageLock ELSE stageSaver

(* A session left alone locks, and blanks, when that is configured.         *)
IdleSessionReachesLastStage ==
    (run = "running" /\ idle = MaxIdle)
        ~> (stage = LastStage(cfg) \/ idle < MaxIdle \/ run # "running")

(* A dead module's windows do not stay: it is replaced or closed.           *)
DeadModuleGoes == dead ~> ~dead
=============================================================================
