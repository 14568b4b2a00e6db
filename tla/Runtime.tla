------------------------------ MODULE Runtime ------------------------------
(***************************************************************************)
(* The PID file between processes.  The daemon and any number of           *)
(* `retrosaver run' commands each put up a saver and name its processes in *)
(* the same file; `retrosaver stop', from a shell or as the unit's         *)
(* ExecStopPost, reads them there and ends them (internal/window/          *)
(* window.go, cmdRun of cmd/retrosaver/main.go).  Nothing locks the file,  *)
(* a process may die at any point, and the number of one that has ended    *)
(* may be given to a process that is none of ours.                         *)
(*                                                                         *)
(* Saver models one process: how it starts, replaces, watches and stops    *)
(* its modules, with its unclutter.  Here starting them all is one step,   *)
(* and so is stopping them; unclutter and the other two runtime files,     *)
(* which are written and removed after this one, are left out.             *)
(***************************************************************************)
EXTENDS Naturals, SequencesExt

CONSTANTS
    Runs,           \* the `retrosaver run' commands
    Stops,          \* the `retrosaver stop' commands there may be at a time
    Pids,           \* process numbers
    Windows,        \* the monitors, and so the modules of one saver
    MaxStrangers,   \* bound: others that have one of the numbers at a time
    MayBeKilled     \* the daemon may be killed, or crash

Hosts == Runs \cup {"daemon"}

ASSUME RunsAssumption == Runs \cap {"daemon", "dead", "lost", "nobody"} = {}
ASSUME BoundsAssumption ==
    /\ IsFiniteSet(Pids) /\ Windows \in Nat \ {0} /\ MaxStrangers \in Nat
    /\ MayBeKilled \in BOOLEAN

VARIABLES
    host,       \* where each launch, then each Stop, is; and its processes
    proc,       \* what runs under each number, and what has been done to it
    pidFile,    \* retrosaver.pid; <<>> when there is none
    stop,       \* where each StopRunning is, and what it has found
    stale       \* history: a `run' died without a Stop, and no stop has
                \* removed the file since

vars == <<host, proc, pidFile, stop, stale>>

NoSaver == [at |-> "none", pids |-> <<>>]
NoStop == [at |-> "idle", post |-> FALSE, named |-> {}, todo |-> {}, waits |-> {}]

(* of is the host that started a process, "dead" for a daemon that died,   *)
(* "nobody" for a `run' that did, "lost" when neither the file nor pkill    *)
(* led that daemon's ExecStopPost to it.  found: a stop has it to end.      *)
(* asked: it was left by the daemon, and sent SIGTERM since.  late: it took *)
(* a number that a stop was about to signal.  Of a stop, named is what the  *)
(* file named when an ExecStopPost read it.                                 *)
Free == [kind |-> "free", of |-> "nobody", found |-> FALSE, asked |-> FALSE, late |-> FALSE]
Kind(p) == proc[p].kind
Unused == {p \in Pids : Kind(p) = "free"}

Init ==
    /\ host = [h \in Hosts |-> NoSaver]
    /\ proc = [p \in Pids |-> Free]
    /\ pidFile = <<>>
    /\ stop = [s \in Stops |-> NoStop]
    /\ stale = FALSE

Started(h) == {p \in Pids : proc[p].of = h}

Goto(h, at) == host' = [host EXCEPT ![h].at = at]
Change(new) == proc' = [p \in Pids |-> IF p \in DOMAIN new THEN new[p] ELSE proc[p]]

-----------------------------------------------------------------------------
(* A launch: in the daemon, or in a `run' that has seen no module running. *)

(* RunningModule: a process the PID file names is a module, whoever's.     *)
RunningModule == \E p \in ToSet(pidFile) : Kind(p) = "module"

RunLooks(r) ==
    /\ host[r].at = "none" /\ ~RunningModule
    /\ Goto(r, "launching")
    /\ UNCHANGED <<proc, pidFile, stop, stale>>

(* The daemon does not look.                                               *)
DaemonLaunches ==
    /\ host["daemon"].at = "none"
    /\ Goto("daemon", "launching")
    /\ UNCHANGED <<proc, pidFile, stop, stale>>

(* openScreen fails, or is cancelled.                                      *)
NoWindow(h) ==
    /\ host[h].at = "launching"
    /\ Goto(h, "none")
    /\ UNCHANGED <<proc, pidFile, stop, stale>>

StartModules(h) ==
    /\ host[h].at = "launching"
    /\ \E pids \in SetToAllKPermutations(Unused) :
        /\ Len(pids) = Windows
        /\ host' = [host EXCEPT ![h] = [at |-> "grace", pids |-> pids]]
        /\ Change([p \in ToSet(pids) |-> [Free EXCEPT !.kind = "module", !.of = h]])
    /\ UNCHANGED <<pidFile, stop, stale>>

(* The grace is over: writeState.                                          *)
GraceEnds(h) ==
    /\ host[h].at = "grace"
    /\ pidFile' = host[h].pids /\ Goto(h, "written")
    /\ UNCHANGED <<proc, stop, stale>>

LaunchReturns(h) ==
    /\ host[h].at = "written"
    /\ Goto(h, "up")
    /\ UNCHANGED <<proc, pidFile, stop, stale>>

-----------------------------------------------------------------------------
(* Saver.Stop: after a launch that failed or was abandoned, when a module  *)
(* exits or the user comes back, when a `run' is told to stop.             *)

(* Its own processes end, and it waits for them.  It signals none that it  *)
(* has reaped, so a number that is another's by now is left alone.         *)
StopsSaver(h) ==
    /\ host[h].at \in {"grace", "up"}
    /\ Goto(h, "clear")
    /\ Change([p \in Started(h) |-> Free])
    /\ UNCHANGED <<pidFile, stop, stale>>

(* The PID file names this saver: its first process.                       *)
Names(h) == pidFile # <<>> /\ Head(pidFile) = Head(host[h].pids)

(* clearStateFor reads the file ...                                        *)
ReadsState(h) ==
    /\ host[h].at = "clear"
    /\ host' = [host EXCEPT ![h] = IF Names(h) THEN [@ EXCEPT !.at = "remove"] ELSE NoSaver]
    /\ UNCHANGED <<proc, pidFile, stop, stale>>

(* Mutant: the file is left to whoever comes next. *)
LeavesState(h) ==
    /\ host[h].at = "remove"
    /\ host' = [host EXCEPT ![h] = NoSaver]
    /\ UNCHANGED <<proc, pidFile, stop, stale>>

(* ... and removes it.                                                     *)
RemovesState(h) ==
    /\ host[h].at = "remove"
    /\ pidFile' = <<>> /\ host' = [host EXCEPT ![h] = NoSaver]
    /\ UNCHANGED <<proc, stop, stale>>

-----------------------------------------------------------------------------
(* A host that dies leaves its processes to themselves.                    *)

(* cmdRun catches signals only once the launch is done: before that Ctrl-C *)
(* ends it where it is, as SIGKILL does later.                             *)
RunDies(r) ==
    /\ host[r].at # "none"
    /\ host' = [host EXCEPT ![r] = NoSaver]
    /\ Change([p \in Started(r) |-> [proc[p] EXCEPT !.of = "nobody"]])
    /\ stale' = TRUE
    /\ UNCHANGED <<pidFile, stop>>

(* The unit runs ExecStopPost before it starts another.                    *)
DaemonDies ==
    /\ MayBeKilled /\ host["daemon"].at \notin {"none", "dead"}
    /\ host' = [host EXCEPT !["daemon"] = [NoSaver EXCEPT !.at = "dead"]]
    /\ Change([p \in Started("daemon") |-> [proc[p] EXCEPT !.of = "dead"]])
    /\ UNCHANGED <<pidFile, stop, stale>>

ProcessExits(p) ==
    /\ Kind(p) # "free"
    /\ proc' = [proc EXCEPT ![p] = Free]
    /\ UNCHANGED <<host, pidFile, stop, stale>>

StopHas(s, p) == p \in stop[s].todo \cup stop[s].waits

(* A number comes to somebody else's process.                              *)
Recycled(p) ==
    /\ Kind(p) = "free"
    /\ Cardinality({q \in Pids : Kind(q) = "stranger"}) < MaxStrangers
    /\ LET late == \E s \in Stops : StopHas(s, p)
       IN  proc' = [proc EXCEPT ![p] = [Free EXCEPT !.kind = "stranger", !.late = late]]
    /\ UNCHANGED <<host, pidFile, stop, stale>>

-----------------------------------------------------------------------------
(* StopRunning.  Each number the file names is checked against /proc, then *)
(* terminated on a goroutine of its own: SIGTERM, a wait, SIGKILL.         *)

(* From a shell, at any time, or as the ExecStopPost of a daemon that died. *)
StopBegins(s) ==
    /\ stop[s].at = "idle"
    /\ \E post \in {FALSE, host["daemon"].at = "dead" /\ \A q \in Stops : ~stop[q].post} :
          stop' = [stop EXCEPT ![s].at = "read", ![s].post = post]
    /\ UNCHANGED <<host, proc, pidFile, stale>>

Finds(s, ps) ==
    /\ stop' = [stop EXCEPT ![s].at = "wait", ![s].todo = ps,
                            ![s].named = IF stop[s].post THEN ToSet(pidFile) ELSE {}]
    /\ Change([p \in ps |-> [proc[p] EXCEPT !.found = TRUE]])

(* Mutant: what runs under a number is not looked at. *)
StopReadsUnchecked(s) ==
    /\ stop[s].at = "read"
    /\ Finds(s, ToSet(pidFile))
    /\ UNCHANGED <<host, pidFile, stale>>

(* Mutant: a process whose parent has gone passes for a stranger. *)
StopReadsChildren(s) ==
    /\ stop[s].at = "read"
    /\ Finds(s, {p \in ToSet(pidFile) : Kind(p) = "module" /\ proc[p].of \in Hosts})
    /\ UNCHANGED <<host, pidFile, stale>>

StopReads(s) ==
    /\ stop[s].at = "read"
    /\ Finds(s, {p \in ToSet(pidFile) : Kind(p) = "module"})
    /\ UNCHANGED <<host, pidFile, stale>>

Told(p) == [proc[p] EXCEPT !.asked = (proc[p].of = "dead")]

StopTerms(s, p) ==
    /\ p \in stop[s].todo
    /\ stop' = [stop EXCEPT ![s].todo = @ \ {p}, ![s].waits = @ \cup {p}]
    /\ proc' = [proc EXCEPT ![p] = Told(p)]
    /\ UNCHANGED <<host, pidFile, stale>>

(* Mutant: it gives up on one that ignores SIGTERM. *)
StopGivesUp(s, p) ==
    /\ p \in stop[s].waits
    /\ stop' = [stop EXCEPT ![s].waits = @ \ {p}]
    /\ UNCHANGED <<host, proc, pidFile, stale>>

(* It has gone, or is killed.                                              *)
StopWaits(s, p) ==
    /\ p \in stop[s].waits
    /\ stop' = [stop EXCEPT ![s].waits = @ \ {p}]
    /\ proc' = [proc EXCEPT ![p] = Free]
    /\ UNCHANGED <<host, pidFile, stale>>

(* pkill is missing, or fails: the daemon's ExecStopPost has done what it   *)
(* will for what the file did not name.                                     *)
Missed(s, p) ==
    IF stop[s].post /\ proc[p].of = "dead" /\ p \notin stop[s].named
    THEN [proc[p] EXCEPT !.of = "lost"] ELSE proc[p]

(* The backstop: pkill sends every module of this user SIGTERM, if it works. *)
StopPkills(s) ==
    /\ stop[s].at = "wait" /\ stop[s].todo \cup stop[s].waits = {}
    /\ stop' = [stop EXCEPT ![s].at = "remove", ![s].named = {}]
    /\ \E works \in BOOLEAN :
          Change([p \in {q \in Pids : Kind(q) = "module"} |->
                     IF works THEN Told(p) ELSE Missed(s, p)])
    /\ UNCHANGED <<host, pidFile, stale>>

(* clearState, whatever the file names by now.                             *)
StopRemoves(s) ==
    /\ stop[s].at = "remove"
    /\ pidFile' = <<>> /\ stale' = FALSE
    /\ stop' = [stop EXCEPT ![s] = NoStop]
    /\ host' = IF stop[s].post THEN [host EXCEPT !["daemon"] = NoSaver] ELSE host
    /\ UNCHANGED proc

-----------------------------------------------------------------------------
Saver(h) ==
    \/ NoWindow(h) \/ StartModules(h) \/ GraceEnds(h) \/ LaunchReturns(h)
    \/ StopsSaver(h) \/ ReadsState(h) \/ RemovesState(h)

Stop(s) ==
    \/ StopBegins(s) \/ StopReads(s) \/ StopPkills(s) \/ StopRemoves(s)
    \/ \E p \in Pids : StopTerms(s, p) \/ StopWaits(s, p)

Next ==
    \/ \E r \in Runs : RunLooks(r) \/ RunDies(r)
    \/ DaemonLaunches \/ DaemonDies
    \/ \E h \in Hosts : Saver(h)
    \/ \E p \in Pids : ProcessExits(p) \/ Recycled(p)
    \/ \E s \in Stops : Stop(s)

Spec == Init /\ [][Next]_vars

-----------------------------------------------------------------------------
(* Properties.                                                             *)

(* A stop signals somebody else's process only if that took the number of  *)
(* one of ours after the stop had looked: a file that names numbers others *)
(* have by now, after a crash or a slow exit, harms nobody ("Without this, *)
(* `retrosaver stop' can kill a stranger", StopRunning).  Between its      *)
(* SIGTERM and its SIGKILL terminate does not look again.                  *)
StrangersSpared ==
    \A s \in Stops, p \in Pids :
        StopHas(s, p) /\ Kind(p) = "stranger" => proc[p].late

(* What a stop found running is gone when it returns, also a module that   *)
(* ignores SIGTERM, and whatever the daemon, a `run' or another stop did   *)
(* to it or to the file meanwhile (terminate).                             *)
StopTakesWhatItFound ==
    (\A s \in Stops : stop[s].at = "idle") => \A p \in Pids : ~proc[p].found

(* After a daemon has died and ExecStopPost has run, no module of it is    *)
(* left that was not told to end: what the file named has been, even where *)
(* pkill is missing or fails, and whoever else stops things meanwhile; what *)
(* the file does not name, since it was still starting, or since somebody   *)
(* else had written it, has been unless pkill failed, and then it is lost   *)
(* ("Backstop for anything the state files lost track of", StopRunning).    *)
CrashLeavesNothing ==
    \A p \in Pids :
        Kind(p) = "module" /\ proc[p].of = "dead" /\ host["daemon"].at # "dead"
            => proc[p].asked

(* The PID file does not outlive the last saver, with two processes that   *)
(* write and clear it in any order: no file is left to stand for a saver   *)
(* that is not there (Stop, clearStateFor).  Left out is a `run' that died *)
(* without its Stop, interrupted while it launched or killed, until a stop *)
(* has removed the file.                                                   *)
FileGoesWithLast ==
    /\ \A h \in Hosts : host[h].at = "none"
    /\ \A s \in Stops : stop[s].at = "idle"
    /\ ~stale
    => pidFile = <<>>
=============================================================================
