---------------------------- MODULE RuntimeProofs ----------------------------
(***************************************************************************)
(* The invariants of Runtime, for any number of `run' and `stop' commands, *)
(* of process numbers and of monitors, and any reuse of the numbers.       *)
(***************************************************************************)
EXTENDS Runtime, FiniteSetTheorems, SequenceTheorems, TLAPS

Saving == {"none", "launching", "grace", "written", "up", "clear", "remove", "dead"}

Places == [at : Saving, pids : Seq(Pids)]

Processes ==
    [kind : {"free", "module", "stranger"}, of : Hosts \cup {"dead", "lost", "nobody"},
     found : BOOLEAN, asked : BOOLEAN, late : BOOLEAN]

Commands ==
    [at : {"idle", "read", "wait", "remove"}, post : BOOLEAN,
     named : SUBSET Pids, todo : SUBSET Pids, waits : SUBSET Pids]

Typed ==
    /\ host \in [Hosts -> Places]
    /\ proc \in [Pids -> Processes]
    /\ pidFile \in Seq(Pids)
    /\ stop \in [Stops -> Commands]
    /\ stale \in BOOLEAN

(* Whatever a stop found and has not seen the end of is in the hands of a  *)
(* stop that waits.                                                        *)
FoundIsHeld ==
    /\ \A s \in Stops, p \in Pids : StopHas(s, p) => stop[s].at = "wait"
    /\ \A p \in Pids : proc[p].found => \E s \in Stops : StopHas(s, p)

(* An ExecStopPost runs for a daemon that died, and one at a time.  While  *)
(* it waits, what the file named has been told to end or is about to be;   *)
(* after its pkill, so is whatever that daemon left and is not lost.       *)
Asked(p) == Kind(p) = "module" /\ proc[p].of = "dead" => proc[p].asked

PostIsAlone ==
    \A s \in Stops :
        stop[s].post =>
            /\ host["daemon"].at = "dead"
            /\ \A t \in Stops : stop[t].post => s = t
            /\ stop[s].at = "wait" =>
                \A p \in Pids : p \in stop[s].named => p \in stop[s].todo \/ Asked(p)
            /\ stop[s].at = "remove" => \A p \in Pids : Asked(p)

(* A PID file has somebody who will remove it: the saver it names, one     *)
(* that has read that it is named, a stop, or the ExecStopPost to come.    *)
Responsible ==
    \/ stale
    \/ \E s \in Stops : stop[s].at # "idle"
    \/ host["daemon"].at = "dead"
    \/ \E h \in Hosts : host[h].at \in {"written", "up", "clear"} /\ pidFile = host[h].pids
    \/ \E h \in Hosts : host[h].at = "remove"

FileIsWatched == pidFile # <<>> => Responsible

RuntimeInv ==
    /\ Typed
    /\ StrangersSpared
    /\ FoundIsHeld
    /\ PostIsAlone /\ CrashLeavesNothing
    /\ FileIsWatched

-----------------------------------------------------------------------------
LEMMA TypedInit == Init => Typed
<1> SUFFICES ASSUME Init PROVE Typed
  OBVIOUS
<1>1. NoSaver \in Places /\ NoStop \in Commands /\ Free \in Processes
  BY DEF NoSaver, NoStop, Free, Places, Processes, Commands, Saving
<1>2. pidFile \in Seq(Pids) /\ stale \in BOOLEAN
  BY EmptySeq DEF Init
<1>3. host \in [Hosts -> Places] /\ proc \in [Pids -> Processes] /\ stop \in [Stops -> Commands]
  BY <1>1 DEF Init
<1> QED
  BY <1>2, <1>3 DEF Typed

(* What Change leaves under each number.                                   *)
LEMMA ChangeIs ==
    ASSUME Typed, NEW new, \A p \in DOMAIN new : new[p] \in Processes, Change(new)
    PROVE  /\ proc' \in [Pids -> Processes]
           /\ \A p \in Pids : proc'[p] = IF p \in DOMAIN new THEN new[p] ELSE proc[p]
BY DEF Change, Typed

LEMMA PidsOfSaver ==
    ASSUME NEW pids \in SetToAllKPermutations(Unused)
    PROVE  pids \in Seq(Pids) /\ ToSet(pids) \subseteq Unused
<1>1. PICK s \in SUBSET Unused : pids \in SetToSeqs(s)
  BY DEF SetToAllKPermutations
<1>2. Cardinality(s) \in Nat
  BY <1>1, BoundsAssumption, FS_Subset, FS_CardinalityType DEF Unused
<1>3. pids \in [1..Cardinality(s) -> s] /\ s \subseteq Pids
  BY <1>1 DEF SetToSeqs, Unused
<1>4. pids \in Seq(Pids)
  BY <1>2, <1>3
<1> QED
  BY <1>1, <1>3, <1>4 DEF ToSet

LEMMA SaverTyped ==
    ASSUME Typed, NEW h \in Hosts, Saver(h)
    PROVE  Typed'
<1>1. CASE NoWindow(h) \/ GraceEnds(h) \/ LaunchReturns(h)
  BY <1>1 DEF NoWindow, GraceEnds, LaunchReturns, Goto, Typed, Places, Saving
<1>2. CASE StartModules(h)
  <2> PICK pids \in SetToAllKPermutations(Unused) :
        /\ host' = [host EXCEPT ![h] = [at |-> "grace", pids |-> pids]]
        /\ Change([p \in ToSet(pids) |-> [Free EXCEPT !.kind = "module", !.of = h]])
    BY <1>2 DEF StartModules
  <2>1. [Free EXCEPT !.kind = "module", !.of = h] \in Processes
    BY DEF Free, Processes
  <2>2. proc' \in [Pids -> Processes]
    BY <2>1, ChangeIs
  <2>3. host' \in [Hosts -> Places]
    BY PidsOfSaver DEF Typed, Places, Saving
  <2> QED
    BY <1>2, <2>2, <2>3 DEF StartModules, Typed
<1>3. CASE StopsSaver(h)
  <2>1. Free \in Processes
    BY DEF Free, Processes
  <2>2. proc' \in [Pids -> Processes]
    BY <1>3, <2>1, ChangeIs DEF StopsSaver
  <2> QED
    BY <1>3, <2>2 DEF StopsSaver, Goto, Typed, Places, Saving
<1>4. CASE ReadsState(h) \/ RemovesState(h)
  <2>1. NoSaver \in Places /\ [host[h] EXCEPT !.at = "remove"] \in Places
    BY DEF NoSaver, Places, Saving, Typed
  <2>2. host' \in [Hosts -> Places]
    BY <1>4, <2>1 DEF ReadsState, RemovesState, Typed
  <2> QED
    BY <1>4, <2>2, EmptySeq DEF ReadsState, RemovesState, Typed
<1> QED
  BY <1>1, <1>2, <1>3, <1>4 DEF Saver

LEMMA DeathTyped ==
    ASSUME Typed, (\E r \in Runs : RunLooks(r) \/ RunDies(r)) \/ DaemonLaunches \/ DaemonDies
    PROVE  Typed'
<1>1. CASE (\E r \in Runs : RunLooks(r)) \/ DaemonLaunches
  <2> PICK h \in Hosts : Goto(h, "launching") /\ UNCHANGED <<proc, pidFile, stop, stale>>
    BY <1>1 DEF RunLooks, DaemonLaunches, Hosts
  <2> QED
    BY DEF Goto, Typed, Places, Saving
<1>2. NoSaver \in Places /\ [NoSaver EXCEPT !.at = "dead"] \in Places
  BY EmptySeq DEF NoSaver, Places, Saving
<1>3. ASSUME NEW p \in Pids, NEW of \in {"dead", "nobody"}
      PROVE  [proc[p] EXCEPT !.of = of] \in Processes
  BY DEF Typed, Processes
<1>4. ASSUME NEW r \in Runs, RunDies(r)
      PROVE  Typed'
  <2>1. proc' \in [Pids -> Processes]
    BY <1>3, <1>4, ChangeIs DEF RunDies, Started
  <2> QED
    BY <1>2, <1>4, <2>1 DEF RunDies, Typed
<1>5. CASE DaemonDies
  <2>1. proc' \in [Pids -> Processes]
    BY <1>3, <1>5, ChangeIs DEF DaemonDies, Started
  <2> QED
    BY <1>2, <1>5, <2>1 DEF DaemonDies, Typed
<1> QED
  BY <1>1, <1>4, <1>5

LEMMA KernelTyped ==
    ASSUME Typed, NEW p \in Pids, ProcessExits(p) \/ Recycled(p)
    PROVE  Typed'
<1>1. /\ Free \in Processes
      /\ \A late \in BOOLEAN : [Free EXCEPT !.kind = "stranger", !.late = late] \in Processes
  BY DEF Free, Processes
<1>2. (\E s \in Stops : StopHas(s, p)) \in BOOLEAN
  OBVIOUS
<1> QED
  BY <1>1, <1>2 DEF ProcessExits, Recycled, Typed

LEMMA StopTyped ==
    ASSUME Typed, NEW s \in Stops, Stop(s)
    PROVE  Typed'
<1>1. \A p \in Pids :
          /\ Told(p) \in Processes /\ Missed(s, p) \in Processes
          /\ [proc[p] EXCEPT !.found = TRUE] \in Processes
  BY DEF Told, Missed, Typed, Processes
<1>2. Free \in Processes /\ NoStop \in Commands /\ NoSaver \in Places
  BY EmptySeq DEF Free, Processes, NoStop, Commands, NoSaver, Places, Saving
<1>3. CASE StopBegins(s)
  <2> PICK post \in BOOLEAN :
        stop' = [stop EXCEPT ![s].at = "read", ![s].post = post]
    BY <1>3 DEF StopBegins
  <2>1. stop' \in [Stops -> Commands]
    BY DEF Typed, Commands
  <2> QED
    BY <1>3, <2>1 DEF StopBegins, Typed
<1>4. CASE StopReads(s)
  <2> PICK ps : ps = {p \in ToSet(pidFile) : Kind(p) = "module"} /\ Finds(s, ps)
    BY <1>4 DEF StopReads
  <2>1. ToSet(pidFile) \subseteq Pids /\ ps \subseteq Pids
    BY DEF ToSet, Typed
  <2>2. proc' \in [Pids -> Processes]
    BY <1>1, <2>1, ChangeIs DEF Finds
  <2>3. stop' \in [Stops -> Commands]
    <3>1. (IF stop[s].post THEN ToSet(pidFile) ELSE {}) \in SUBSET Pids
      BY <2>1
    <3>2. PICK named \in SUBSET Pids :
            stop' = [stop EXCEPT ![s].at = "wait", ![s].todo = ps, ![s].named = named]
      BY <3>1, Zenon DEF Finds
    <3>3. stop[s] \in Commands /\ ps \in SUBSET Pids
      BY <2>1 DEF Typed
    <3>4. [stop[s] EXCEPT !.at = "wait", !.todo = ps, !.named = named] \in Commands
      BY <3>3 DEF Commands
    <3>5. stop' = [stop EXCEPT ![s] = [stop[s] EXCEPT !.at = "wait", !.todo = ps, !.named = named]]
      BY <3>2 DEF Typed
    <3> QED
      BY <3>4, <3>5 DEF Typed
  <2> QED
    BY <1>4, <2>2, <2>3 DEF StopReads, Typed
<1>5. ASSUME NEW p \in Pids, StopTerms(s, p) \/ StopWaits(s, p)
      PROVE  Typed'
  <2>1. stop' \in [Stops -> Commands]
    <3>1. CASE StopTerms(s, p)
      BY <3>1 DEF StopTerms, Typed, Commands
    <3>2. CASE StopWaits(s, p)
      BY <3>2 DEF StopWaits, Typed, Commands
    <3> QED
      BY <1>5, <3>1, <3>2
  <2> QED
    BY <1>1, <1>2, <1>5, <2>1 DEF StopTerms, StopWaits, Typed
<1>6. CASE StopPkills(s)
  <2> PICK works \in BOOLEAN :
        Change([p \in {q \in Pids : Kind(q) = "module"} |->
                   IF works THEN Told(p) ELSE Missed(s, p)])
    BY <1>6, Zenon DEF StopPkills
  <2>1. proc' \in [Pids -> Processes]
    BY <1>1, ChangeIs
  <2> QED
    BY <1>6, <2>1 DEF StopPkills, Typed, Commands
<1>7. CASE StopRemoves(s)
  BY <1>2, <1>7, EmptySeq DEF StopRemoves, Typed
<1> QED
  BY <1>3, <1>4, <1>5, <1>6, <1>7 DEF Stop

LEMMA NextTyped ==
    ASSUME Typed, [Next]_vars
    PROVE  Typed'
<1>1. CASE UNCHANGED vars
  BY <1>1 DEF vars, Typed
<1> QED
  BY <1>1, SaverTyped, DeathTyped, KernelTyped, StopTyped DEF Next

-----------------------------------------------------------------------------
(* What a saver, and the death of one, does to a process: it ends it,      *)
(* starts it, or leaves it behind.                                         *)
Orphaned(p) ==
    \E of \in {"dead", "nobody"} :
        /\ proc'[p] = [proc[p] EXCEPT !.of = of]
        /\ of = "dead" => host["daemon"].at # "dead" /\ host'["daemon"].at = "dead"

HostsView(p) ==
    \/ proc'[p] \in {proc[p], Free}
    \/ \E h \in Hosts : proc'[p] = [Free EXCEPT !.kind = "module", !.of = h]
    \/ Orphaned(p)

HostStep ==
    \/ \E h \in Hosts : Saver(h)
    \/ \E r \in Runs : RunLooks(r) \/ RunDies(r)
    \/ DaemonLaunches \/ DaemonDies

LEMMA HostSteps ==
    ASSUME Typed, HostStep
    PROVE  stop' = stop /\ \A p \in Pids : HostsView(p)
<1>1. ASSUME NEW h \in Hosts, Saver(h)
      PROVE  stop' = stop /\ \A p \in Pids : HostsView(p)
  <2>1. CASE StartModules(h)
    BY <2>1 DEF StartModules, Change, HostsView
  <2>2. CASE StopsSaver(h)
    BY <2>2 DEF StopsSaver, Change, HostsView
  <2> QED
    BY <1>1, <2>1, <2>2
    DEF Saver, NoWindow, GraceEnds, LaunchReturns, ReadsState, RemovesState, HostsView, Typed
<1>2. ASSUME NEW r \in Runs, RunLooks(r) \/ RunDies(r)
      PROVE  stop' = stop /\ \A p \in Pids : HostsView(p)
  BY <1>2 DEF RunLooks, RunDies, Change, HostsView, Orphaned, Typed
<1>3. CASE DaemonLaunches
  BY <1>3 DEF DaemonLaunches, HostsView, Typed
<1>4. CASE DaemonDies
  <2>1. host'["daemon"].at = "dead"
    BY <1>4 DEF DaemonDies, Typed, Hosts
  <2> QED
    BY <1>4, <2>1 DEF DaemonDies, Change, HostsView, Orphaned, Typed
<1> QED
  BY <1>1, <1>2, <1>3, <1>4 DEF HostStep

LEMMA HostsLeave ==
    ASSUME Typed, NEW p \in Pids, HostsView(p)
    PROVE  /\ proc'[p].kind = "stranger" => proc[p].kind = "stranger" /\ proc'[p].late = proc[p].late
           /\ proc'[p].found => proc[p].found
           /\ proc'[p].kind = "module" /\ proc'[p].of = "dead" =>
                \/ proc'[p] = proc[p]
                \/ host["daemon"].at # "dead" /\ host'["daemon"].at = "dead"
<1> USE DEF Typed, Processes, Free
<1>1. CASE proc'[p] \in {proc[p], Free}
  BY <1>1
<1>2. ASSUME NEW h \in Hosts, proc'[p] = [Free EXCEPT !.kind = "module", !.of = h]
      PROVE  proc'[p].kind = "module" /\ proc'[p].of # "dead" /\ ~proc'[p].found
  BY <1>2, RunsAssumption DEF Hosts
<1>3. CASE Orphaned(p)
  BY <1>3 DEF Orphaned
<1> QED
  BY <1>1, <1>2, <1>3 DEF HostsView

(* The backstop tells every module, or marks what the ExecStopPost missed. *)
LEMMA PkillLeaves ==
    ASSUME Typed, NEW s \in Stops, StopPkills(s)
    PROVE  /\ \A p \in Pids : proc'[p] \in {proc[p], Told(p), Missed(s, p)}
           /\ \/ \A p \in Pids : Kind(p) = "module" => proc'[p] = Told(p)
              \/ \A p \in Pids : Kind(p) = "module" => proc'[p] = Missed(s, p)
           /\ \A p \in Pids : Kind(p) # "module" => proc'[p] = proc[p]
<1> PICK works \in BOOLEAN :
      Change([p \in {q \in Pids : Kind(q) = "module"} |->
                 IF works THEN Told(p) ELSE Missed(s, p)])
  BY Zenon DEF StopPkills
<1>1. CASE works
  BY <1>1 DEF Change, Typed
<1>2. CASE ~works
  BY <1>2 DEF Change, Typed
<1> QED
  BY <1>1, <1>2

(* How the cases of Next group.                                            *)
LEMMA StepIs ==
    ASSUME [Next]_vars
    PROVE  \/ HostStep
           \/ \E p \in Pids : ProcessExits(p) \/ Recycled(p)
           \/ \E s \in Stops : Stop(s)
           \/ UNCHANGED vars
BY DEF Next, HostStep

-----------------------------------------------------------------------------
(* Strangers.                                                              *)
LEMMA StrangersStep ==
    ASSUME Typed, StrangersSpared, [Next]_vars
    PROVE  StrangersSpared'
<1> SUFFICES ASSUME NEW s \in Stops, NEW p \in Pids, StopHas(s, p)', Kind(p)' = "stranger"
             PROVE  proc'[p].late
  BY DEF StrangersSpared
<1> USE DEF StrangersSpared, StopHas, Kind
<1>1. CASE UNCHANGED vars
  BY <1>1 DEF vars
<1>2. CASE HostStep
  <2>1. StopHas(s, p) /\ HostsView(p)
    BY <1>2, HostSteps
  <2>2. Kind(p) = "stranger" /\ proc'[p].late = proc[p].late
    BY <2>1, HostsLeave
  <2> QED
    BY <2>1, <2>2
<1>3. ASSUME NEW q \in Pids, ProcessExits(q) \/ Recycled(q)
      PROVE  proc'[p].late
  <2>1. CASE ProcessExits(q)
    BY <1>3, <2>1 DEF ProcessExits, Free, Typed, Processes
  <2>2. CASE Recycled(q)
    <3>1. (\E t \in Stops : StopHas(t, p)) /\ StopHas(s, p)
      BY <2>2 DEF Recycled
    <3> QED
      BY <2>2, <3>1 DEF Recycled, Free, Typed, Processes
  <2> QED
    BY <1>3, <2>1, <2>2
<1>4. ASSUME NEW t \in Stops, Stop(t)
      PROVE  proc'[p].late
  <2>1. CASE StopBegins(t)
    BY <2>1 DEF StopBegins, Typed, Commands
  <2>2. CASE StopReads(t)
    <3> PICK ps : ps = {q \in ToSet(pidFile) : Kind(q) = "module"} /\ Finds(t, ps)
      BY <2>2 DEF StopReads
    <3>1. /\ \A u \in Stops \ {t} : stop'[u] = stop[u]
          /\ stop'[t].todo = ps /\ stop'[t].waits = stop[t].waits
      BY DEF Finds, Typed, Commands
    <3>2. proc'[p] = IF p \in ps THEN [proc[p] EXCEPT !.found = TRUE] ELSE proc[p]
      BY DEF Finds, Change, Typed
    <3>3. Kind(p) = "stranger" /\ p \notin ps /\ proc'[p] = proc[p]
      BY <3>2 DEF Typed, Processes
    <3> QED
      BY <3>1, <3>3
  <2>3. ASSUME NEW q \in Pids, StopTerms(t, q)
        PROVE  proc'[p].late
    BY <2>3 DEF StopTerms, Told, Typed, Commands, Processes
  <2>4. ASSUME NEW q \in Pids, StopWaits(t, q)
        PROVE  proc'[p].late
    BY <2>4 DEF StopWaits, Free, Typed, Commands, Processes
  <2>5. CASE StopPkills(t)
    <3>1. \A q \in Pids : proc'[q] \in {proc[q], Told(q), Missed(t, q)}
      BY <2>5, PkillLeaves
    <3>2. Kind(p) = "stranger" /\ proc'[p].late = proc[p].late
      BY <3>1 DEF Told, Missed, Typed, Processes
    <3>3. StopHas(s, p)
      BY <2>5 DEF StopPkills, Typed, Commands
    <3> QED
      BY <3>2, <3>3
  <2>6. CASE StopRemoves(t)
    BY <2>6 DEF StopRemoves, NoStop, Typed, Commands
  <2> QED
    BY <1>4, <2>1, <2>2, <2>3, <2>4, <2>5, <2>6 DEF Stop
<1> QED
  BY <1>1, <1>2, <1>3, <1>4, StepIs

-----------------------------------------------------------------------------
(* What a stop has found.                                                  *)
LEMMA HeldStep ==
    ASSUME Typed, FoundIsHeld, [Next]_vars
    PROVE  FoundIsHeld'
<1> USE DEF StopHas
<1>1. CASE UNCHANGED vars
  BY <1>1 DEF vars, FoundIsHeld
<1>2. CASE HostStep
  BY <1>2, HostSteps, HostsLeave DEF FoundIsHeld
<1>3. ASSUME NEW q \in Pids, ProcessExits(q) \/ Recycled(q)
      PROVE  FoundIsHeld'
  <2>1. stop' = stop /\ \A p \in Pids : proc'[p].found => proc[p].found
    <3>1. CASE ProcessExits(q)
      BY <3>1 DEF ProcessExits, Free, Typed, Processes
    <3>2. CASE Recycled(q)
      BY <3>2 DEF Recycled, Free, Typed, Processes
    <3> QED
      BY <1>3, <3>1, <3>2
  <2> QED
    BY <2>1 DEF FoundIsHeld
<1>4. ASSUME NEW t \in Stops, Stop(t)
      PROVE  FoundIsHeld'
  <2>1. CASE StopBegins(t)
    BY <2>1 DEF StopBegins, FoundIsHeld, Typed, Commands
  <2>2. CASE StopReads(t)
    <3> PICK ps : ps = {p \in ToSet(pidFile) : Kind(p) = "module"} /\ Finds(t, ps)
      BY <2>2 DEF StopReads
    <3>1. /\ \A s \in Stops \ {t} : stop'[s] = stop[s]
          /\ stop'[t].at = "wait" /\ stop'[t].todo = ps /\ stop'[t].waits = stop[t].waits
      BY DEF Typed, Finds, Commands
    <3>2. \A p \in Pids : ~StopHas(t, p)
      BY <2>2 DEF StopReads, FoundIsHeld
    <3>3. \A p \in Pids \ ps : proc'[p] = proc[p]
      BY DEF Finds, Change, Typed
    <3> QED
      BY <3>1, <3>2, <3>3 DEF FoundIsHeld
  <2>3. ASSUME NEW q \in Pids, StopTerms(t, q)
        PROVE  FoundIsHeld'
    <3>1. \A s \in Stops : stop'[s].at = stop[s].at /\ \A p \in Pids : StopHas(s, p)' <=> StopHas(s, p)
      BY <2>3 DEF StopTerms, Typed, Commands
    <3>2. \A p \in Pids : proc'[p].found = proc[p].found
      BY <2>3 DEF StopTerms, Told, Typed, Processes
    <3> QED
      BY <3>1, <3>2 DEF FoundIsHeld
  <2>4. ASSUME NEW q \in Pids, StopWaits(t, q)
        PROVE  FoundIsHeld'
    <3>1. \A s \in Stops : stop'[s].at = stop[s].at /\ \A p \in Pids \ {q} : StopHas(s, p)' <=> StopHas(s, p)
      BY <2>4 DEF StopWaits, Typed, Commands
    <3>2. \A p \in Pids : IF p = q THEN ~proc'[p].found ELSE proc'[p] = proc[p]
      BY <2>4 DEF StopWaits, Free, Typed, Processes
    <3>3. \A s \in Stops : StopHas(s, q)' => StopHas(s, q)
      BY <2>4 DEF StopWaits, Typed, Commands
    <3> QED
      BY <3>1, <3>2, <3>3 DEF FoundIsHeld
  <2>5. CASE StopPkills(t)
    <3>1. \A p \in Pids : proc'[p].found = proc[p].found
      BY <2>5, PkillLeaves DEF Told, Missed, Typed, Processes
    <3>2. \A s \in Stops : stop'[s].todo = stop[s].todo /\ stop'[s].waits = stop[s].waits
      BY <2>5 DEF StopPkills, Typed, Commands
    <3>3. \A s \in Stops \ {t} : stop'[s] = stop[s]
      BY <2>5 DEF StopPkills, Typed
    <3>4. \A p \in Pids : ~StopHas(t, p)
      BY <2>5 DEF StopPkills
    <3> QED
      BY <3>1, <3>2, <3>3, <3>4 DEF FoundIsHeld
  <2>6. CASE StopRemoves(t)
    <3>1. \A p \in Pids : ~StopHas(t, p) /\ ~StopHas(t, p)'
      BY <2>6 DEF StopRemoves, NoStop, FoundIsHeld, Typed
    <3>2. proc' = proc /\ \A s \in Stops \ {t} : stop'[s] = stop[s]
      BY <2>6 DEF StopRemoves, Typed
    <3> QED
      BY <3>1, <3>2 DEF FoundIsHeld
  <2> QED
    BY <1>4, <2>1, <2>2, <2>3, <2>4, <2>5, <2>6 DEF Stop
<1> QED
  BY <1>1, <1>2, <1>3, <1>4, StepIs

-----------------------------------------------------------------------------
(* What a dead daemon has left.                                            *)

(* Only its ExecStopPost ends the daemon's being dead.                     *)
LEMMA DeadStays ==
    ASSUME Typed, HostStep, host["daemon"].at = "dead"
    PROVE  host'["daemon"].at = "dead"
<1> USE DEF Typed, Places, Hosts
<1>1. ASSUME NEW h \in Hosts, Saver(h)
      PROVE  host'["daemon"] = host["daemon"]
  <2>1. h # "daemon"
    BY <1>1
    DEF Saver, NoWindow, StartModules, GraceEnds, LaunchReturns, StopsSaver, ReadsState, RemovesState
  <2> QED
    BY <1>1, <2>1
    DEF Saver, NoWindow, StartModules, GraceEnds, LaunchReturns, StopsSaver, ReadsState, RemovesState, Goto
<1>2. ASSUME NEW r \in Runs, RunLooks(r) \/ RunDies(r)
      PROVE  host'["daemon"] = host["daemon"]
  BY <1>2, RunsAssumption DEF RunLooks, RunDies, Goto
<1>3. ~DaemonLaunches /\ ~DaemonDies
  BY DEF DaemonLaunches, DaemonDies
<1> QED
  BY <1>1, <1>2, <1>3 DEF HostStep

(* A step that leaves every stop as it is, and nobody untold.              *)
LEMMA PostKept ==
    ASSUME Typed, PostIsAlone, CrashLeavesNothing, stop' = stop,
           host["daemon"].at = "dead" => host'["daemon"].at = "dead",
           host["daemon"].at = "dead" \/ host'["daemon"].at # "dead" =>
               \A p \in Pids : Asked(p) => Asked(p)'
    PROVE  PostIsAlone' /\ CrashLeavesNothing'
BY DEF PostIsAlone, CrashLeavesNothing, Asked, Kind

(* A stop reads, tells, or sees the end of what the file named.            *)
LEMMA PostTold ==
    ASSUME Typed, PostIsAlone, CrashLeavesNothing, NEW t \in Stops, host' = host,
           \A p \in Pids : Asked(p) => Asked(p)',
           \A s \in Stops \ {t} : stop'[s] = stop[s],
           stop'[t].post = stop[t].post, stop'[t].at # "remove",
           stop'[t].post /\ stop'[t].at = "wait" =>
               \A p \in Pids : p \in stop'[t].named => p \in stop'[t].todo \/ Asked(p)'
    PROVE  PostIsAlone' /\ CrashLeavesNothing'
<1>1. \A s \in Stops : stop'[s].post = stop[s].post
  OBVIOUS
<1>2. CrashLeavesNothing'
  BY DEF CrashLeavesNothing, Asked, Kind
<1>3. ASSUME NEW s \in Stops, stop'[s].post
      PROVE  /\ stop'[s].at = "wait" =>
                  \A p \in Pids : p \in stop'[s].named => p \in stop'[s].todo \/ Asked(p)'
             /\ stop'[s].at = "remove" => \A p \in Pids : Asked(p)'
  <2>1. CASE s = t
    BY <1>3, <2>1
  <2>2. CASE s # t
    BY <1>3, <2>2 DEF PostIsAlone
  <2> QED
    BY <2>1, <2>2
<1>4. PostIsAlone'
  BY <1>1, <1>3 DEF PostIsAlone
<1> QED
  BY <1>2, <1>4

LEMMA PostStep ==
    ASSUME Typed, FoundIsHeld, PostIsAlone, CrashLeavesNothing, [Next]_vars
    PROVE  PostIsAlone' /\ CrashLeavesNothing'
<1>1. CASE UNCHANGED vars
  BY <1>1, PostKept DEF vars, Asked, Kind
<1>2. CASE HostStep
  <2>1. stop' = stop /\ \A p \in Pids : HostsView(p)
    BY <1>2, HostSteps
  <2>2. host["daemon"].at = "dead" => host'["daemon"].at = "dead"
    BY <1>2, DeadStays
  <2>3. host["daemon"].at = "dead" \/ host'["daemon"].at # "dead" =>
            \A p \in Pids : Asked(p) => Asked(p)'
    BY <2>1, HostsLeave DEF Asked, Kind
  <2> QED
    BY <2>1, <2>2, <2>3, PostKept
<1>3. ASSUME NEW q \in Pids, ProcessExits(q) \/ Recycled(q)
      PROVE  PostIsAlone' /\ CrashLeavesNothing'
  <2>1. UNCHANGED <<stop, host>>
    BY <1>3 DEF ProcessExits, Recycled
  <2>2. \A p \in Pids : Asked(p) => Asked(p)'
    <3>1. CASE ProcessExits(q)
      BY <3>1 DEF ProcessExits, Free, Typed, Processes, Asked, Kind
    <3>2. CASE Recycled(q)
      BY <3>2 DEF Recycled, Free, Typed, Processes, Asked, Kind
    <3> QED
      BY <1>3, <3>1, <3>2
  <2> QED
    BY <2>1, <2>2, PostKept
<1>4. ASSUME NEW t \in Stops, Stop(t)
      PROVE  PostIsAlone' /\ CrashLeavesNothing'
  <2>1. CASE StopBegins(t)
    <3> PICK post \in {FALSE, host["daemon"].at = "dead" /\ \A q \in Stops : ~stop[q].post} :
          stop' = [stop EXCEPT ![t].at = "read", ![t].post = post]
      BY <2>1 DEF StopBegins
    <3>1. /\ \A s \in Stops \ {t} : stop'[s] = stop[s]
          /\ stop'[t].at = "read" /\ stop'[t].post = post
      BY DEF Typed, Commands
    <3>2. UNCHANGED <<host, proc>>
      BY <2>1 DEF StopBegins
    <3>3. stop'[t].post => host["daemon"].at = "dead" /\ \A q \in Stops : ~stop[q].post
      BY <3>1
    <3>4. stop'[t].at = "read" /\ \A s \in Stops \ {t} : stop'[s] = stop[s]
      BY <3>1
    <3>5. ASSUME NEW s \in Stops, stop'[s].post
          PROVE  /\ host["daemon"].at = "dead"
                 /\ \A u \in Stops : stop'[u].post => s = u
                 /\ stop'[s].at = "wait" =>
                      \A p \in Pids : p \in stop'[s].named => p \in stop'[s].todo \/ Asked(p)
                 /\ stop'[s].at = "remove" => \A p \in Pids : Asked(p)
      <4>1. CASE s = t
        BY <3>3, <3>4, <3>5, <4>1
      <4>2. CASE s # t
        BY <3>3, <3>4, <3>5, <4>2 DEF PostIsAlone
      <4> QED
        BY <4>1, <4>2
    <3>6. \A p \in Pids : Asked(p)' <=> Asked(p)
      BY <3>2 DEF Asked, Kind
    <3>7. PostIsAlone'
      BY <3>2, <3>5, <3>6 DEF PostIsAlone
    <3> QED
      BY <3>2, <3>7 DEF CrashLeavesNothing, Kind
  <2>2. CASE StopReads(t)
    <3> PICK ps : ps = {p \in ToSet(pidFile) : Kind(p) = "module"} /\ Finds(t, ps)
      BY <2>2 DEF StopReads
    <3>1. /\ \A s \in Stops \ {t} : stop'[s] = stop[s]
          /\ stop'[t].at = "wait" /\ stop'[t].todo = ps /\ stop'[t].post = stop[t].post
          /\ stop'[t].named \subseteq ToSet(pidFile)
      BY DEF Finds, Typed, Commands
    <3>2. \A p \in Pids : proc'[p] = IF p \in ps THEN [proc[p] EXCEPT !.found = TRUE] ELSE proc[p]
      BY DEF Finds, Change, Typed
    <3>3. \A p \in Pids : Asked(p) => Asked(p)'
      BY <3>2 DEF Typed, Processes, Asked, Kind
    <3>4. \A p \in Pids : p \in ToSet(pidFile) => p \in ps \/ Asked(p)'
      BY <3>2 DEF Asked, Kind
    <3>5. host' = host
      BY <2>2 DEF StopReads
    <3> QED
      BY <3>1, <3>3, <3>4, <3>5, PostTold
  <2>3. ASSUME NEW q \in Pids, StopTerms(t, q)
        PROVE  PostIsAlone' /\ CrashLeavesNothing'
    <3>1. /\ \A s \in Stops \ {t} : stop'[s] = stop[s]
          /\ stop'[t].at = stop[t].at /\ stop'[t].todo = stop[t].todo \ {q}
          /\ stop'[t].post = stop[t].post /\ stop'[t].named = stop[t].named
      BY <2>3 DEF StopTerms, Typed, Commands
    <3>2. Asked(q)' /\ \A p \in Pids : Asked(p) => Asked(p)'
      BY <2>3 DEF StopTerms, Told, Typed, Processes, Asked, Kind
    <3>3. stop[t].at = "wait"
      BY <2>3 DEF StopTerms, FoundIsHeld, StopHas
    <3>4. host' = host
      BY <2>3 DEF StopTerms
    <3>5. stop[t].post => \A p \in Pids : p \in stop[t].named => p \in stop[t].todo \/ Asked(p)
      BY <3>3 DEF PostIsAlone
    <3>6. stop'[t].post => \A p \in Pids : p \in stop'[t].named => p \in stop'[t].todo \/ Asked(p)'
      BY <3>1, <3>2, <3>5
    <3> QED
      BY <3>1, <3>2, <3>3, <3>4, <3>6, PostTold
  <2>4. ASSUME NEW q \in Pids, StopWaits(t, q)
        PROVE  PostIsAlone' /\ CrashLeavesNothing'
    <3>1. /\ \A s \in Stops \ {t} : stop'[s] = stop[s]
          /\ stop'[t].at = stop[t].at /\ stop'[t].todo = stop[t].todo
          /\ stop'[t].post = stop[t].post /\ stop'[t].named = stop[t].named
      BY <2>4 DEF StopWaits, Typed, Commands
    <3>2. \A p \in Pids : Asked(p) => Asked(p)'
      BY <2>4 DEF StopWaits, Free, Typed, Processes, Asked, Kind
    <3>3. stop[t].at = "wait"
      BY <2>4 DEF StopWaits, FoundIsHeld, StopHas
    <3>4. host' = host
      BY <2>4 DEF StopWaits
    <3>5. stop[t].post => \A p \in Pids : p \in stop[t].named => p \in stop[t].todo \/ Asked(p)
      BY <3>3 DEF PostIsAlone
    <3>6. stop'[t].post => \A p \in Pids : p \in stop'[t].named => p \in stop'[t].todo \/ Asked(p)'
      BY <3>1, <3>2, <3>5
    <3> QED
      BY <3>1, <3>2, <3>3, <3>4, <3>6, PostTold
  <2>5. CASE StopPkills(t)
    <3>1. /\ \A s \in Stops \ {t} : stop'[s] = stop[s]
          /\ stop'[t].post = stop[t].post /\ stop'[t].at = "remove" /\ host' = host
          /\ stop[t].at = "wait" /\ stop[t].todo = {}
      BY <2>5 DEF StopPkills, Typed, Commands
    <3>2. CASE stop[t].post \/ \A p \in Pids : Kind(p) = "module" => proc'[p] = Told(p)
      <4>1. \A p \in Pids : Asked(p)'
        <5>1. CASE \A p \in Pids : Kind(p) = "module" => proc'[p] = Told(p)
          BY <2>5, <5>1, PkillLeaves DEF Told, Typed, Processes, Asked, Kind
        <5>2. CASE stop[t].post /\ \A p \in Pids : Kind(p) = "module" => proc'[p] = Missed(t, p)
          <6>1. \A p \in Pids : p \in stop[t].named => Asked(p)
            BY <3>1, <5>2 DEF PostIsAlone
          <6> QED
            BY <2>5, <5>2, <6>1, PkillLeaves DEF Missed, Typed, Processes, Asked, Kind
        <5> QED
          BY <2>5, <3>2, <5>1, <5>2, PkillLeaves
      <4>2. \A s \in Stops : stop'[s].post =>
                /\ host["daemon"].at = "dead" /\ \A u \in Stops : stop'[u].post => s = u
        BY <3>1 DEF PostIsAlone
      <4> QED
        BY <3>1, <4>1, <4>2 DEF PostIsAlone, CrashLeavesNothing, Asked, Kind
    <3>3. CASE ~stop[t].post /\ \A p \in Pids : Kind(p) = "module" => proc'[p] = Missed(t, p)
      <4>1. \A p \in Pids : proc'[p] = proc[p]
        BY <2>5, <3>3, PkillLeaves DEF Missed
      <4>2. \A p \in Pids : Asked(p)' <=> Asked(p)
        BY <4>1 DEF Asked, Kind
      <4>3. PostIsAlone'
        BY <3>1, <3>3, <4>2 DEF PostIsAlone
      <4> QED
        BY <3>1, <4>1, <4>3 DEF CrashLeavesNothing, Kind
    <3> QED
      BY <2>5, <3>2, <3>3, PkillLeaves
  <2>6. CASE StopRemoves(t)
    <3>1. proc' = proc /\ ~stop'[t].post /\ \A s \in Stops \ {t} : stop'[s] = stop[s]
      BY <2>6 DEF StopRemoves, NoStop, Typed, Commands
    <3>2. \A p \in Pids : Asked(p)' <=> Asked(p)
      BY <3>1 DEF Asked, Kind
    <3>3. CASE stop[t].post
      <4>1. (\A s \in Stops : ~stop'[s].post) /\ \A p \in Pids : Asked(p)
        BY <2>6, <3>1, <3>3 DEF PostIsAlone, StopRemoves
      <4> QED
        BY <3>1, <3>2, <4>1 DEF PostIsAlone, CrashLeavesNothing, Asked, Kind
    <3>4. CASE ~stop[t].post
      <4>1. host' = host
        BY <2>6, <3>4 DEF StopRemoves
      <4> QED
        BY <3>1, <3>2, <4>1 DEF PostIsAlone, CrashLeavesNothing, Kind
    <3> QED
      BY <3>3, <3>4
  <2> QED
    BY <1>4, <2>1, <2>2, <2>3, <2>4, <2>5, <2>6 DEF Stop
<1> QED
  BY <1>1, <1>2, <1>3, <1>4, StepIs

-----------------------------------------------------------------------------
(* The PID file.                                                           *)

Named == {"written", "up", "clear"}

LEMMA WatchKept ==
    ASSUME Typed, FileIsWatched, UNCHANGED <<pidFile, stale>>,
           \A s \in Stops : stop[s].at # "idle" => stop'[s].at # "idle",
           \A h \in Hosts :
               /\ host[h].at \in Named => host'[h].at \in Named /\ host'[h].pids = host[h].pids
               /\ host[h].at \in {"remove", "dead"} => host'[h].at = host[h].at
    PROVE  FileIsWatched'
BY DEF FileIsWatched, Responsible, Named, Hosts

LEMMA FileStep ==
    ASSUME Typed, FileIsWatched, [Next]_vars
    PROVE  FileIsWatched'
<1> USE DEF Typed, Places, Named
<1>1. CASE UNCHANGED vars
  BY <1>1 DEF vars, FileIsWatched, Responsible
<1>2. ASSUME NEW h \in Hosts, Saver(h)
      PROVE  FileIsWatched'
  <2>1. CASE NoWindow(h)
    BY <2>1, WatchKept DEF NoWindow, Goto
  <2>2. CASE StartModules(h)
    BY <2>2, WatchKept DEF StartModules
  <2>3. CASE GraceEnds(h)
    BY <2>3 DEF GraceEnds, Goto, FileIsWatched, Responsible
  <2>4. CASE LaunchReturns(h)
    BY <2>4, WatchKept DEF LaunchReturns, Goto
  <2>5. CASE StopsSaver(h)
    BY <2>5, WatchKept DEF StopsSaver, Goto
  <2>6. CASE ReadsState(h)
    <3>1. CASE Names(h)
      BY <2>6, <3>1 DEF ReadsState, FileIsWatched, Responsible
    <3>2. CASE ~Names(h) /\ pidFile # <<>>
      <4>1. pidFile # host[h].pids
        BY <3>2 DEF Names
      <4>2. UNCHANGED <<stop, stale, pidFile>> /\ \A g \in Hosts \ {h} : host'[g] = host[g]
        BY <2>6 DEF ReadsState
      <4>3. host[h].at = "clear"
        BY <2>6 DEF ReadsState
      <4> QED
        BY <3>2, <4>1, <4>2, <4>3 DEF FileIsWatched, Responsible, Hosts
    <3>3. CASE pidFile = <<>>
      BY <2>6, <3>3 DEF ReadsState, FileIsWatched
    <3> QED
      BY <3>1, <3>2, <3>3
  <2>7. CASE RemovesState(h)
    BY <2>7 DEF RemovesState, FileIsWatched
  <2> QED
    BY <1>2, <2>1, <2>2, <2>3, <2>4, <2>5, <2>6, <2>7 DEF Saver
<1>3. CASE DaemonLaunches
  BY <1>3, WatchKept DEF DaemonLaunches, Goto, Hosts
<1>4. CASE DaemonDies
  BY <1>4 DEF DaemonDies, FileIsWatched, Responsible, Hosts
<1>5. ASSUME NEW r \in Runs, RunLooks(r)
      PROVE  FileIsWatched'
  BY <1>5, WatchKept DEF RunLooks, Goto, Hosts
<1>6. ASSUME NEW r \in Runs, RunDies(r)
      PROVE  FileIsWatched'
  BY <1>6 DEF RunDies, FileIsWatched, Responsible
<1>7. ASSUME NEW p \in Pids, ProcessExits(p) \/ Recycled(p)
      PROVE  FileIsWatched'
  BY <1>7, WatchKept DEF ProcessExits, Recycled
<1>8. ASSUME NEW s \in Stops, Stop(s)
      PROVE  FileIsWatched'
  <2>1. CASE StopRemoves(s)
    BY <2>1 DEF StopRemoves, FileIsWatched
  <2>2. CASE StopBegins(s)
    <3>1. \A t \in Stops : stop'[t].at # "idle" \/ stop'[t] = stop[t]
      BY <2>2 DEF StopBegins, Commands
    <3> QED
      BY <2>2, <3>1, WatchKept DEF StopBegins
  <2>3. CASE StopReads(s)
    BY <2>3, WatchKept DEF StopReads, Finds, Commands
  <2>4. ASSUME NEW p \in Pids, StopTerms(s, p)
        PROVE  FileIsWatched'
    BY <2>4, WatchKept DEF StopTerms, Commands
  <2>5. ASSUME NEW p \in Pids, StopWaits(s, p)
        PROVE  FileIsWatched'
    BY <2>5, WatchKept DEF StopWaits, Commands
  <2>6. CASE StopPkills(s)
    BY <2>6, WatchKept DEF StopPkills, Commands
  <2> QED
    BY <1>8, <2>1, <2>2, <2>3, <2>4, <2>5, <2>6 DEF Stop
<1> QED
  BY <1>1, <1>2, <1>3, <1>4, <1>5, <1>6, <1>7, <1>8 DEF Next

-----------------------------------------------------------------------------
LEMMA RuntimeStart == Init => RuntimeInv
<1> SUFFICES ASSUME Init PROVE RuntimeInv
  OBVIOUS
<1>1. (\A p \in Pids : proc[p] = Free) /\ \A s \in Stops : stop[s] = NoStop
  BY DEF Init
<1>2. StrangersSpared
  BY <1>1 DEF StrangersSpared, StopHas, NoStop
<1>3. FoundIsHeld
  BY <1>1 DEF FoundIsHeld, StopHas, NoStop, Free
<1>4. PostIsAlone /\ CrashLeavesNothing
  BY <1>1 DEF PostIsAlone, CrashLeavesNothing, NoStop, Free, Kind
<1>5. FileIsWatched
  BY DEF Init, FileIsWatched
<1> QED
  BY <1>2, <1>3, <1>4, <1>5, TypedInit DEF RuntimeInv

LEMMA RuntimeInvariant == Spec => []RuntimeInv
<1>1. RuntimeInv /\ [Next]_vars => RuntimeInv'
  BY NextTyped, StrangersStep, HeldStep, PostStep, FileStep DEF RuntimeInv
<1> QED
  BY <1>1, RuntimeStart, PTL DEF Spec

(* StopRunning signals a process only if it was a module when the stop     *)
(* looked, or took the number of one since, with any number of stops and   *)
(* of savers, whatever is in the PID file.                                 *)
THEOREM StopsSpareStrangers == Spec => []StrangersSpared
<1>1. RuntimeInv => StrangersSpared
  BY DEF RuntimeInv
<1> QED
  BY <1>1, RuntimeInvariant, PTL

(* Once no stop is at work, nothing that one found is still running.       *)
THEOREM WhatIsFoundIsStopped == Spec => []StopTakesWhatItFound
<1>1. RuntimeInv => StopTakesWhatItFound
  <2> SUFFICES ASSUME RuntimeInv, \A s \in Stops : stop[s].at = "idle", NEW p \in Pids, proc[p].found
               PROVE  FALSE
    BY DEF StopTakesWhatItFound
  <2> QED
    BY DEF RuntimeInv, FoundIsHeld
<1> QED
  BY <1>1, RuntimeInvariant, PTL

(* ExecStopPost leaves no module of the daemon that died without a signal, *)
(* but for those the file did not name when pkill is missing or fails.     *)
THEOREM CrashIsCleanedUp == Spec => []CrashLeavesNothing
<1>1. RuntimeInv => CrashLeavesNothing
  BY DEF RuntimeInv
<1> QED
  BY <1>1, RuntimeInvariant, PTL

(* The PID file is gone when the last saver and the last stop are, but for *)
(* a `run' that died without its Stop.                                     *)
THEOREM NoFileIsLeft == Spec => []FileGoesWithLast
<1>1. RuntimeInv => FileGoesWithLast
  BY DEF RuntimeInv, FileIsWatched, Responsible, FileGoesWithLast, Hosts
<1> QED
  BY <1>1, RuntimeInvariant, PTL
=============================================================================
