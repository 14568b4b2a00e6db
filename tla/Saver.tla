------------------------------- MODULE Saver -------------------------------
(***************************************************************************)
(* internal/window: launching a saver, watching its module processes,      *)
(* replacing one of them, stopping all of them, and the runtime files that *)
(* let `retrosaver stop` find them from another shell.                     *)
(*                                                                         *)
(* Daemon.tla takes Launch, Replace and Stop as single steps.  Here each   *)
(* is opened up: a launch runs on its own goroutine, every module process  *)
(* has a reaper and a watch goroutine, Stop takes its grace periods, and   *)
(* the event loop, the launches and a `retrosaver stop` share the runtime  *)
(* files.  The event loop is whatever daemon.go may do with savers: start  *)
(* a launch, cancel it, adopt its result, Replace on the saver on screen,  *)
(* stop it.                                                                *)
(***************************************************************************)
EXTENDS Naturals, Sequences, FiniteSets, Functions

CONSTANTS
    Launches,       \* bound: launches made in a behaviour
    Windows,        \* bound: monitors, and so windows of one saver
    MaxPids,        \* bound: module processes started in a behaviour
    Unclutter,      \* TRUE: there is an unclutter binary, and it starts
    Launchers,      \* what launches go through: LaunchContext, LaunchEach
    OneLaunch,      \* TRUE: a launch starts only when no other is in flight
    WritesApart     \* TRUE: no launch writes its state between Replace's
                    \*       readPIDs and its writeState

ASSUME SaverAssumption ==
    /\ Windows \in Nat \ {0}
    /\ MaxPids \in Nat
    /\ Launches \in Nat
    /\ Launchers \subseteq {"LaunchContext", "LaunchEach"}
    /\ {Unclutter, OneLaunch, WritesApart} \subseteq BOOLEAN

(* A saver is known by the number of its launch; None is no saver. *)
Savers == 1 .. Launches
None == 0
Pids == 1 .. MaxPids
Slots == 1 .. Windows

VARIABLES
    phase,      \* [Savers -> Phases]: where the launch, then the Stop, is
    children,   \* [Savers -> Seq(Pids)]: Saver.children, primary first
    proc,       \* [Pids -> Processes]
    unclutter,  \* the savers whose unclutter is running
    cancelled,  \* the launches in flight whose context is cancelled
    pidFile,    \* retrosaver.pid; <<>> when there is none
    uncFile,    \* the saver retrosaver.unclutter.pid was written for, or None
    current,    \* the saver on screen: machine.current, or None
    loop,       \* what the event loop is inside of
    cli         \* a `retrosaver stop` has run; bound: one in a behaviour

vars == <<phase, children, proc, unclutter, cancelled, pidFile, uncFile,
          current, loop, cli>>
launchVars == <<unclutter, cancelled, current, cli>>
fileVars == <<pidFile, uncFile>>

(* A launch goes from "starting" to "up", a Stop from "stopping" to "gone". *)
InFlight == {"starting", "grace"}
Ended == {"stopping", "clearing", "gone"}
Phases == {"none", "up"} \cup InFlight \cup Ended

(***************************************************************************)
(* The event loop is free, in the Stop of a saver, or in a Replace: `on`   *)
(* is that saver, or the slot, and `first` Replace's variable of that name. *)
(***************************************************************************)
Idle == [at |-> "free", on |-> 0, first |-> 0]
InStop(s) == IF s = None THEN Idle ELSE [Idle EXCEPT !.at = "stop", !.on = s]

(* The channel Saver.stopping is closed. *)
Stopping(s) == s # None /\ phase[s] \in Ended

(***************************************************************************)
(* One module process.  "reaped" is child.done closed, "exited" a process  *)
(* that SIGKILL ended and whose Wait has not returned.  One that exits     *)
(* otherwise is reaped at once: until it is, a signal has no effect on it. *)
(* watch is its watch goroutine, asked whether child.stop signalled it.    *)
(***************************************************************************)
NoProcess == [saver |-> None, slot |-> 1, life |-> "free", watch |-> "off",
              asked |-> FALSE, retired |-> FALSE]

NewChild(s, i, w) == [NoProcess EXCEPT !.saver = s, !.slot = i,
                                       !.life = "alive", !.watch = w]

Life(p) == proc[p].life
Alive == {p \in Pids : Life(p) = "alive"}
Free == {p \in Pids : Life(p) = "free"}
FreshPid == CHOOSE p \in Free : TRUE

Init ==
    /\ phase = [s \in Savers |-> "none"]
    /\ children = [s \in Savers |-> <<>>]
    /\ proc = [p \in Pids |-> NoProcess]
    /\ unclutter = {}
    /\ cancelled = {}
    /\ pidFile = <<>>
    /\ uncFile = None
    /\ current = None
    /\ loop = Idle
    /\ cli = FALSE

-----------------------------------------------------------------------------
(* The runtime files *)

(* firstPID: the PID the runtime state is known by, 0 for no process. *)
First(pids) == IF pids = <<>> THEN 0 ELSE Head(pids)

(* Mutant: clearStateFor clears whatever the file names. *)
NamesAnyone(first) == pidFile # <<>>

(* The PID file still names the saver whose first process is `first`. *)
Names(first) == pidFile # <<>> /\ Head(pidFile) = first

(* writeState: it leaves the unclutter file alone without an unclutter. *)
WriteState(s) ==
    /\ pidFile' = children[s]
    /\ uncFile' = IF Unclutter THEN s ELSE uncFile

ClearFiles ==
    /\ pidFile' = <<>>
    /\ uncFile' = None

-----------------------------------------------------------------------------
(* Stop, and child.stop for each process *)

(* child.stop sends SIGTERM to the groups of those of ps that have not     *)
(* been reaped.                                                            *)
Signalled(ps) ==
    [p \in Pids |-> IF p \in ps /\ Life(p) # "reaped"
                   THEN [proc[p] EXCEPT !.asked = TRUE]
                   ELSE proc[p]]

(* Stop up to the wait: stopping is closed, unclutter told to go, and      *)
(* every process signalled.  For None there is nothing to stop.            *)
BeginStop(s) ==
    IF s = None THEN UNCHANGED <<phase, unclutter, proc>>
    ELSE /\ phase' = [phase EXCEPT ![s] = "stopping"]
         /\ unclutter' = unclutter \ {s}
         /\ proc' = Signalled(Range(children[s]))

ProcStep(p, new) ==
    /\ proc' = [proc EXCEPT ![p] = new]
    /\ UNCHANGED <<phase, children, loop>>
    /\ UNCHANGED launchVars
    /\ UNCHANGED fileVars

(* SIGKILL, when the grace is over and the process is still there. *)
Escalate(p) ==
    /\ proc[p].asked
    /\ Life(p) = "alive"
    /\ ProcStep(p, [proc[p] EXCEPT !.life = "exited"])

(* Mutant: child.stop does not wait for the process it signalled. *)
StopAsksOnly(p) == proc[p].asked \/ Life(p) = "reaped"

(* child.stop returns for p.  Its first wait ends only with the process,   *)
(* the second one also after another grace: a pipe that a helper holds     *)
(* can delay Wait.                                                         *)
StopReturned(p) == Life(p) \in {"exited", "reaped"}

(* Mutant: Stop closes the screen as soon as the first process is gone. *)
SomeStopped(s) ==
    children[s] = <<>> \/ \E p \in Range(children[s]) : StopReturned(p)

(* wg.Wait in Stop: child.stop has returned for every process. *)
AllStopped(s) == \A p \in Range(children[s]) : StopReturned(p)

(* The event loop is free again when the Stop it is inside of returns. *)
LoopAfter(s) == IF loop = InStop(s) THEN Idle ELSE loop

(* Stop after the wait: the windows go and clearStateFor reads the PID     *)
(* file, ...                                                               *)
CloseScreen(s) ==
    /\ phase[s] = "stopping"
    /\ AllStopped(s)
    /\ \/ /\ Names(First(children[s]))
          /\ phase' = [phase EXCEPT ![s] = "clearing"]
          /\ UNCHANGED loop
       \/ /\ ~Names(First(children[s]))
          /\ phase' = [phase EXCEPT ![s] = "gone"]
          /\ loop' = LoopAfter(s)
    /\ UNCHANGED <<children, proc>>
    /\ UNCHANGED launchVars
    /\ UNCHANGED fileVars

(* ... and clearState removes the files. *)
ClearState(s) ==
    /\ phase[s] = "clearing"
    /\ ClearFiles
    /\ phase' = [phase EXCEPT ![s] = "gone"]
    /\ loop' = LoopAfter(s)
    /\ UNCHANGED <<children, proc>>
    /\ UNCHANGED launchVars

-----------------------------------------------------------------------------
(* launch, on a goroutine of its own *)

(* startLaunch, and openScreen: with no X server, a window that is not     *)
(* managed within windowDeadline or a cancelled launch there is no saver.  *)
(* With OneLaunch every earlier launch has been dealt with.                *)
LaunchBegins(s) ==
    /\ loop.at = "free"
    /\ phase[s] = "none"
    /\ \A t \in Savers : phase[t] = "none" => s <= t
    /\ OneLaunch => \A t \in Savers : phase[t] \in {"none", "gone"} \/ t = current
    /\ \E opened \in {"starting", "gone"} : phase' = [phase EXCEPT ![s] = opened]
    /\ UNCHANGED <<children, proc, loop>>
    /\ UNCHANGED launchVars
    /\ UNCHANGED fileVars

(* startChild for the next window.  openScreen made one per monitor there  *)
(* was, so any may be the last; then watchChildren starts every watch.     *)
StartChild(s) ==
    LET i == Len(children[s]) + 1
        c == FreshPid
        started == [proc EXCEPT ![c] = NewChild(s, i, "off")]
        watched == [p \in Pids |-> IF started[p].saver = s
                                  THEN [started[p] EXCEPT !.watch = "waiting"]
                                  ELSE started[p]]
    IN  /\ phase[s] = "starting"
        /\ Free # {}
        /\ children' = [children EXCEPT ![s] = Append(@, c)]
        /\ \/ /\ i < Windows
              /\ proc' = started
              /\ UNCHANGED phase
           \/ /\ proc' = watched
              /\ phase' = [phase EXCEPT ![s] = "grace"]
        /\ UNCHANGED loop
        /\ UNCHANGED launchVars
        /\ UNCHANGED fileVars

(* A module that cannot be started: those that were are stopped. *)
StartChildFails(s) ==
    /\ phase[s] = "starting"
    /\ BeginStop(s)
    /\ cancelled' = cancelled \ {s}
    /\ UNCHANGED <<children, loop, current, cli>>
    /\ UNCHANGED fileVars

(* Saver.done: the first thing a watch does is to close it. *)
DoneClosed(s) == \E p \in Pids : proc[p].saver = s
                                 /\ proc[p].watch \notin {"off", "waiting"}

(* awaitStartup fails on the first exit, awaitAny when all have exited. *)
StartupFailed(s) ==
    \/ "LaunchContext" \in Launchers /\ DoneClosed(s)
    \/ /\ "LaunchEach" \in Launchers
       /\ \A p \in Range(children[s]) : Life(p) = "reaped"

(* The grace ends: a failed or cancelled launch stops what it started. *)
AwaitFails(s) ==
    /\ phase[s] = "grace"
    /\ StartupFailed(s) \/ s \in cancelled
    /\ BeginStop(s)
    /\ cancelled' = cancelled \ {s}
    /\ UNCHANGED <<children, loop, current, cli>>
    /\ UNCHANGED fileVars

(* The grace ends by its timer, whichever other channel is ready too; then *)
(* startUnclutter and writeState.                                          *)
LaunchReturns(s) ==
    /\ phase[s] = "grace"
    /\ WritesApart => loop.at # "write"
    /\ phase' = [phase EXCEPT ![s] = "up"]
    /\ unclutter' = IF Unclutter THEN unclutter \cup {s} ELSE unclutter
    /\ WriteState(s)
    /\ UNCHANGED <<children, proc, loop, cancelled, current, cli>>

-----------------------------------------------------------------------------
(* The event loop *)

(* handleLaunch with a saver that is wanted: the outgoing one is stopped. *)
Adopt(s) ==
    /\ loop.at = "free"
    /\ phase[s] = "up"
    /\ s # current
    /\ s \notin cancelled
    /\ current' = s
    /\ loop' = InStop(current)
    /\ BeginStop(current)
    /\ UNCHANGED <<children, cancelled, cli>>
    /\ UNCHANGED fileVars

(* handleLaunch with a saver of an earlier generation. *)
Discard(s) ==
    /\ loop.at = "free"
    /\ phase[s] = "up"
    /\ s \in cancelled
    /\ BeginStop(s)
    /\ cancelled' = cancelled \ {s}
    /\ loop' = InStop(s)
    /\ UNCHANGED <<children, current, cli>>
    /\ UNCHANGED fileVars

(* The launches whose result the event loop has not received. *)
Pending == {s \in Savers : s # current /\ phase[s] \in InFlight \cup {"up"}}

(* stopSaver: cancel what is in flight, stop what is on screen. *)
StopSaver ==
    /\ loop.at = "free"
    /\ current # None \/ Pending # {}
    /\ current' = None
    /\ loop' = InStop(current)
    /\ BeginStop(current)
    /\ cancelled' = cancelled \cup Pending
    /\ UNCHANGED <<children, cli>>
    /\ UNCHANGED fileVars

(* Replace on slot i: the process there is retired, then stopped. *)
Replace(i) ==
    /\ loop.at = "free"
    /\ current # None
    /\ i \in DOMAIN children[current]
    /\ LET old == children[current][i]
       IN  proc' = [Signalled({old}) EXCEPT ![old].retired = TRUE]
    /\ loop' = [at |-> "old", on |-> i, first |-> First(children[current])]
    /\ UNCHANGED <<phase, children>>
    /\ UNCHANGED launchVars
    /\ UNCHANGED fileVars

(* Replace: the process in its slot has been stopped. *)
OutgoingStopped ==
    /\ loop.at = "old"
    /\ StopReturned(children[current][loop.on])

(* The children once c has the slot. *)
WithChild(i, c) == [children EXCEPT ![current][i] = c]

(* The first PID Replace compares the PID file with, the one from before. *)
FirstBefore(pids) == loop.first

(* Replace: the new process draws in the same window and is watched. *)
ReplaceStarts ==
    LET i == loop.on
        c == FreshPid
    IN  /\ OutgoingStopped
        /\ Free # {}
        /\ proc' = [proc EXCEPT ![c] = NewChild(current, i, "waiting")]
        /\ children' = WithChild(i, c)
        /\ loop' = [loop EXCEPT !.at = "check",
                                !.first = FirstBefore(WithChild(i, c)[current])]
        /\ UNCHANGED phase
        /\ UNCHANGED launchVars
        /\ UNCHANGED fileVars

(* Replace: the module cannot be started and the slot keeps the process    *)
(* that was stopped.                                                       *)
ReplaceFails ==
    /\ OutgoingStopped
    /\ loop' = Idle
    /\ UNCHANGED <<phase, children, proc>>
    /\ UNCHANGED launchVars
    /\ UNCHANGED fileVars

(* Replace reads the PID file: does it still name this saver, ...          *)
ReplaceChecks ==
    /\ loop.at = "check"
    /\ loop' = IF Names(loop.first) THEN [loop EXCEPT !.at = "write"] ELSE Idle
    /\ UNCHANGED <<phase, children, proc>>
    /\ UNCHANGED launchVars
    /\ UNCHANGED fileVars

(* ... and rewrites it. *)
ReplaceWrites ==
    /\ loop.at = "write"
    /\ WriteState(current)
    /\ loop' = Idle
    /\ UNCHANGED <<phase, children, proc>>
    /\ UNCHANGED launchVars

-----------------------------------------------------------------------------
(* The watch goroutine of each process *)

(* Mutant: watch does not look at child.retired. *)
SilentWhenStopping(p) == Stopping(proc[p].saver)

(* Mutant: watch reports only the first exit of a saver, as Done does. *)
SilentAfterFirst(p) ==
    proc[p].retired \/ Stopping(proc[p].saver) \/ DoneClosed(proc[p].saver)

(* watch says nothing of a retired process or of a saver being stopped. *)
Silent(p) == proc[p].retired \/ Stopping(proc[p].saver)

WatchWakes(p) ==
    /\ proc[p].watch = "waiting"
    /\ Life(p) = "reaped"
    /\ ProcStep(p, [proc[p] EXCEPT !.watch = IF Silent(p) THEN "over" ELSE "sending"])

(* Someone receives from Exits. *)
Report(p) ==
    /\ proc[p].watch = "sending"
    /\ ProcStep(p, [proc[p] EXCEPT !.watch = "reported"])

(* Mutant: watch sends without the case of Saver.stopping. *)
NeverReleased(p) == FALSE

(* The other case of watch's select: Saver.stopping is closed. *)
Released(p) == Stopping(proc[p].saver)

WatchReleased(p) ==
    /\ proc[p].watch = "sending"
    /\ Released(p)
    /\ ProcStep(p, [proc[p] EXCEPT !.watch = "over"])

-----------------------------------------------------------------------------
(* Module processes: they exit when they like, heed SIGTERM or not, and a  *)
(* killed one is reaped some time after.                                   *)

ModuleExits(p) ==
    /\ Life(p) = "alive"
    /\ ProcStep(p, [proc[p] EXCEPT !.life = "reaped"])

Reaped(p) ==
    /\ Life(p) = "exited"
    /\ ProcStep(p, [proc[p] EXCEPT !.life = "reaped"])

-----------------------------------------------------------------------------
(* StopRunning, in a `retrosaver stop` from another shell *)

(* The modules and the unclutter the files name are terminated, pkill      *)
(* sends SIGTERM to every module (those the files do not name need not     *)
(* heed it, and exit by themselves if they do), and the files are removed. *)
StopRunning ==
    /\ ~cli
    /\ cli' = TRUE
    /\ unclutter' = unclutter \ {uncFile}
    /\ proc' = [p \in Pids |-> IF p \in Alive \cap Range(pidFile)
                             THEN [proc[p] EXCEPT !.life = "reaped"]
                             ELSE proc[p]]
    /\ ClearFiles
    /\ UNCHANGED <<phase, children, cancelled, current, loop>>

-----------------------------------------------------------------------------
StopStep == \/ \E p \in Pids : Escalate(p)
            \/ \E s \in Savers : CloseScreen(s) \/ ClearState(s)

LaunchStep(s) == \/ LaunchBegins(s) \/ StartChild(s) \/ StartChildFails(s)
                 \/ AwaitFails(s) \/ LaunchReturns(s)

LoopStep == \/ \E s \in Savers : Adopt(s) \/ Discard(s)
            \/ StopSaver
            \/ \E i \in Slots : Replace(i)
            \/ ReplaceStarts \/ ReplaceFails \/ ReplaceChecks \/ ReplaceWrites

WatchStep(p) == WatchWakes(p) \/ Report(p) \/ WatchReleased(p)

ProcessStep(p) == ModuleExits(p) \/ Reaped(p)

Next == \/ \E s \in Savers : LaunchStep(s)
        \/ \E p \in Pids : WatchStep(p) \/ ProcessStep(p)
        \/ StopStep
        \/ LoopStep
        \/ StopRunning

Spec == Init /\ [][Next]_vars

(* Goroutines are scheduled, timers fire, cmd.WaitDelay bounds Wait.  The  *)
(* event loop receives from the Exits of the saver on screen only; nothing *)
(* is assumed of modules, of the user or of the launches.                  *)
Fairness ==
    /\ \A p \in Pids :
          /\ WF_vars(Escalate(p) \/ Reaped(p))
          /\ WF_vars(\/ WatchWakes(p) \/ WatchReleased(p)
                     \/ Report(p) /\ proc[p].saver = current)
    /\ WF_vars(\E s \in Savers : CloseScreen(s) \/ ClearState(s))

FairSpec == Spec /\ Fairness

-----------------------------------------------------------------------------
(* Properties *)

(* A window never has two modules drawing in it: Replace starts the new    *)
(* one only once the old one is gone, however late it goes and whether or  *)
(* not it heeds SIGTERM (window.go Replace).                               *)
OneModulePerWindow ==
    \A p, q \in Alive :
        proc[p].saver = proc[q].saver /\ proc[p].slot = proc[q].slot => p = q

(* No module is left drawing in a window that has been destroyed, on any   *)
(* path into Stop: a swap, the user's return, a failed or cancelled launch *)
(* (the comment before screen.close in Stop).                              *)
ModulesGoBeforeWindows ==
    \A p \in Alive : phase[proc[p].saver] \notin {"clearing", "gone"}

(* A process that Stop or Replace signalled is never reported on Exits,    *)
(* even to a reader that is waiting when Stop is called (Exits, watch).    *)
SignalledNeverReported ==
    \A p \in Pids : proc[p].watch = "reported" => ~proc[p].asked

(* Between operations, the runtime files name the saver on screen, all its *)
(* processes and its unclutter, through swaps, failed launches and         *)
(* replacements (clearStateFor, Replace), until a `retrosaver stop`.       *)
StateNamesSaver ==
    (current # None /\ loop.at = "free" /\ Pending = {} /\ ~cli)
        => /\ pidFile = children[current]
           /\ current \in unclutter => uncFile = current

Unreported(p) == /\ Life(p) = "reaped"
                 /\ proc[p].saver = current
                 /\ proc[p].watch # "reported"
                 /\ ~proc[p].retired

(* Each module that exits on the saver on screen is reported on Exits,     *)
(* unless the saver is stopped or the process replaced first; with         *)
(* LaunchEach that includes one that exited during the grace.  (Processes  *)
(* are finitely many: one that is never reported makes this false for      *)
(* ever.)                                                                  *)
DeathsAreReported == []<>(\A p \in Pids : ~Unreported(p))

Lingers(p) == /\ Stopping(proc[p].saver)
              /\ proc[p].watch \in {"waiting", "sending"}

(* A Stop always returns, with a module that ignores SIGTERM or a Wait     *)
(* that is held up too, and leaves no watch goroutine blocked on Exits.    *)
StopEnds ==
    []<>(/\ \A s \in Savers : phase[s] \notin {"stopping", "clearing"}
         /\ \A p \in Pids : ~Lingers(p))

=============================================================================
