----------------------------- MODULE SaverProofs -----------------------------
(***************************************************************************)
(* The invariants of Saver, for any number of launches, of monitors and of *)
(* processes, however launches overlap; and, with one launch at a time,    *)
(* what the runtime files name.                                            *)
(***************************************************************************)
EXTENDS Saver, SequenceTheorems, TLAPS

SaverOrNone == Savers \cup {None}

Processes ==
    [saver : SaverOrNone, slot : Nat, life : {"free", "alive", "exited", "reaped"},
     watch : {"off", "waiting", "sending", "reported", "over"},
     asked : BOOLEAN, retired : BOOLEAN]

Loops == [at : {"free", "stop", "old", "check", "write"}, on : Nat, first : Nat]

Typed ==
    /\ phase \in [Savers -> Phases]
    /\ children \in [Savers -> Seq(Pids)]
    /\ proc \in [Pids -> Processes]
    /\ unclutter \in SUBSET Savers
    /\ cancelled \in SUBSET Savers
    /\ pidFile \in Seq(Pids)
    /\ uncFile \in SaverOrNone
    /\ current \in SaverOrNone
    /\ loop \in Loops
    /\ cli \in BOOLEAN

(* The i-th child of a saver draws in its i-th window, and every process   *)
(* that is alive is a child of its saver: Replace puts the new one where   *)
(* the old one was, once that has gone.                                    *)
SlotsOK ==
    \A s \in Savers :
        /\ phase[s] = "none" => children[s] = <<>>
        /\ \A i \in DOMAIN children[s] :
              LET p == children[s][i]
              IN  proc[p].saver = s /\ proc[p].slot = i /\ Life(p) # "free"

AliveOK ==
    \A p \in Alive :
        LET s == proc[p].saver
        IN  /\ s \in Savers /\ phase[s] \notin {"clearing", "gone"}
            /\ proc[p].slot \in DOMAIN children[s] /\ children[s][proc[p].slot] = p

(* What is on screen is up, and stays while Replace is at work on it.      *)
CurrentOK == current # None => phase[current] = "up" /\ current \notin cancelled

Replacing == loop.at \in {"old", "check", "write"}

LoopOK ==
    Replacing =>
        /\ current # None /\ loop.on \in DOMAIN children[current]
        /\ loop.first \in Pids /\ Life(loop.first) # "free" /\ proc[loop.first].saver = current
        /\ loop.at = "old" => loop.first = First(children[current])

(* A process is signalled only with its saver closing, or retired; and     *)
(* what is on its way to Exits had gone by itself.                         *)
WatchOK ==
    \A p \in Pids :
        /\ proc[p].asked => proc[p].retired \/ Stopping(proc[p].saver)
        /\ proc[p].watch \in {"sending", "reported"} => Life(p) = "reaped" /\ ~proc[p].asked

SaverInv == Typed /\ SlotsOK /\ AliveOK /\ CurrentOK /\ LoopOK /\ WatchOK

-----------------------------------------------------------------------------
(* With one launch at a time, one that is not cancelled is alone beside    *)
(* the saver on screen; and there is none to cancel while one is there.    *)
Wanted(s) == phase[s] \in InFlight \cup {"up"} /\ s \notin cancelled /\ s # current

AloneOK ==
    /\ \A s \in Savers : Wanted(s) =>
          \A t \in Savers \ {s, current} : phase[t] \in {"none", "gone"}
    /\ \A s \in cancelled : phase[s] \in InFlight \cup {"up"} /\ s # current
    /\ current # None => cancelled = {}
    /\ ~Unclutter => unclutter = {}

UnclutterNamed(s) == s \in unclutter => uncFile = s

Arrived(s) == Wanted(s) /\ phase[s] = "up"

(* The files name the launch that came up last, or else what is on screen, *)
(* by its old first process while Replace is about to rewrite them.        *)
FilesOK ==
    ~cli =>
        /\ \A s \in Savers : Arrived(s) =>
              pidFile = children[s] /\ UnclutterNamed(s) /\ loop.at # "write"
        /\ current # None =>
              /\ \A s \in Savers : phase[s] # "clearing"
              /\ \/ \E s \in Savers : Arrived(s)
                 \/ /\ UnclutterNamed(current)
                    /\ IF loop.at \in {"check", "write"} THEN Names(loop.first)
                       ELSE pidFile = children[current]

FilesInv == SaverInv /\ AloneOK /\ FilesOK

-----------------------------------------------------------------------------
(* Types.                                                                  *)

LEMMA Numbers ==
    /\ Savers \subseteq Nat \ {0} /\ Pids \subseteq Nat \ {0} /\ Slots \subseteq Nat \ {0}
    /\ None \notin Savers /\ SaverOrNone \subseteq Nat
BY SaverAssumption DEF Savers, Pids, Slots, SaverOrNone, None

LEMMA FreshIsFree ==
    ASSUME Free # {}
    PROVE  FreshPid \in Pids /\ Life(FreshPid) = "free"
<1>1. FreshPid \in Free
  BY DEF FreshPid
<1> QED
  BY <1>1 DEF Free

LEMMA LoopsTyped ==
    /\ Idle \in Loops
    /\ \A s \in SaverOrNone : InStop(s) \in Loops
BY Numbers DEF Idle, InStop, Loops

LEMMA LoopAfterTyped ==
    ASSUME Typed, NEW s \in Savers
    PROVE  LoopAfter(s) \in Loops
BY LoopsTyped DEF LoopAfter, Typed

LEMMA SignalledTyped ==
    ASSUME Typed, NEW ps
    PROVE  Signalled(ps) \in [Pids -> Processes]
BY DEF Signalled, Typed, Processes

LEMMA BeginStopTyped ==
    ASSUME Typed, NEW s \in SaverOrNone, BeginStop(s)
    PROVE  /\ phase' \in [Savers -> Phases]
           /\ proc' \in [Pids -> Processes]
           /\ unclutter' \in SUBSET Savers
<1>1. CASE s = None
  BY <1>1 DEF BeginStop, Typed
<1>2. CASE s # None
  <2>1. "stopping" \in Phases
    BY DEF Phases, Ended
  <2> QED
    BY <1>2, <2>1, SignalledTyped DEF BeginStop, Typed, SaverOrNone
<1> QED
  BY <1>1, <1>2

LEMMA FirstTyped ==
    ASSUME NEW pids \in Seq(Pids)
    PROVE  /\ First(pids) \in Nat
           /\ pids # <<>> => First(pids) \in Pids /\ 1 \in DOMAIN pids /\ First(pids) = pids[1]
<1>1. CASE pids = <<>>
  BY <1>1 DEF First
<1>2. CASE pids # <<>>
  <2>1. Len(pids) \in Nat /\ Len(pids) # 0 /\ DOMAIN pids = 1 .. Len(pids)
    BY <1>2, EmptySeq, LenProperties
  <2>2. pids[1] \in Pids /\ Head(pids) = pids[1]
    BY <2>1, ElementOfSeq
  <2>3. First(pids) = Head(pids)
    BY <1>2 DEF First
  <2>4. 1 \in DOMAIN pids
    BY <2>1
  <2>5. Pids \subseteq Nat
    BY Numbers
  <2> QED
    BY <2>2, <2>3, <2>4, <2>5
<1> QED
  BY <1>1, <1>2

LEMMA NewChildTyped ==
    ASSUME NEW s \in Savers, NEW i \in Nat, NEW w \in {"off", "waiting"}
    PROVE  NewChild(s, i, w) \in Processes
BY DEF NewChild, NoProcess, Processes, SaverOrNone

LEMMA InitTyped == Init => Typed
<1> SUFFICES ASSUME Init PROVE Typed
  OBVIOUS
<1>1. NoProcess \in Processes
  BY DEF NoProcess, Processes, SaverOrNone
<1>2. children \in [Savers -> Seq(Pids)] /\ pidFile \in Seq(Pids)
  BY EmptySeq DEF Init
<1>3. phase \in [Savers -> Phases]
  BY DEF Init, Phases
<1> QED
  BY <1>1, <1>2, <1>3, LoopsTyped DEF Init, Typed, SaverOrNone

LEMMA ProcStepTyped ==
    ASSUME Typed, NEW p \in Pids, NEW new \in Processes, ProcStep(p, new)
    PROVE  Typed'
BY DEF ProcStep, launchVars, fileVars, Typed

LEMMA ProcessTyped ==
    ASSUME Typed, NEW p \in Pids, WatchStep(p) \/ ProcessStep(p) \/ Escalate(p)
    PROVE  Typed'
<1>1. /\ \A w \in {"over", "sending", "reported"} : [proc[p] EXCEPT !.watch = w] \in Processes
      /\ \A l \in {"exited", "reaped"} : [proc[p] EXCEPT !.life = l] \in Processes
  BY DEF Typed, Processes
<1>2. CASE WatchWakes(p)
  <2>1. (IF Silent(p) THEN "over" ELSE "sending") \in {"over", "sending", "reported"}
    OBVIOUS
  <2> QED
    BY <1>1, <1>2, <2>1, ProcStepTyped DEF WatchWakes
<1>3. CASE Report(p) \/ WatchReleased(p)
  BY <1>1, <1>3, ProcStepTyped DEF Report, WatchReleased
<1>4. CASE ModuleExits(p) \/ Reaped(p) \/ Escalate(p)
  BY <1>1, <1>4, ProcStepTyped DEF ModuleExits, Reaped, Escalate
<1> QED
  BY <1>2, <1>3, <1>4 DEF WatchStep, ProcessStep

LEMMA ScreenTyped ==
    ASSUME Typed, NEW s \in Savers, CloseScreen(s) \/ ClearState(s)
    PROVE  Typed'
<1>1. {"clearing", "gone"} \subseteq Phases
  BY DEF Phases, Ended
<1>2. CASE CloseScreen(s)
  BY <1>1, <1>2, LoopAfterTyped DEF CloseScreen, launchVars, fileVars, Typed
<1>3. CASE ClearState(s)
  <2>1. pidFile' \in Seq(Pids) /\ uncFile' \in SaverOrNone
    BY <1>3, EmptySeq DEF ClearState, ClearFiles, SaverOrNone
  <2> QED
    BY <1>1, <1>3, <2>1, LoopAfterTyped DEF ClearState, launchVars, Typed
<1> QED
  BY <1>2, <1>3

LEMMA WriteTyped ==
    ASSUME Typed, NEW s \in Savers, WriteState(s)
    PROVE  pidFile' \in Seq(Pids) /\ uncFile' \in SaverOrNone
BY DEF WriteState, Typed, SaverOrNone

LEMMA LaunchTyped ==
    ASSUME Typed, NEW s \in Savers, LaunchStep(s)
    PROVE  Typed'
<1>1. {"starting", "grace", "up", "gone"} \subseteq Phases
  BY DEF Phases, Ended, InFlight
<1>2. CASE LaunchBegins(s)
  BY <1>1, <1>2 DEF LaunchBegins, launchVars, fileVars, Typed
<1>3. CASE StartChild(s)
  <2> DEFINE i == Len(children[s]) + 1
             c == FreshPid
             started == [proc EXCEPT ![c] = NewChild(s, i, "off")]
  <2>1. c \in Pids /\ i \in Nat
    BY <1>3, FreshIsFree, LenProperties DEF StartChild, Typed
  <2>2. started \in [Pids -> Processes]
    BY <2>1, NewChildTyped DEF Typed
  <2>3. [p \in Pids |-> IF started[p].saver = s THEN [started[p] EXCEPT !.watch = "waiting"]
                         ELSE started[p]] \in [Pids -> Processes]
    <3> HIDE DEF started
    <3> QED BY <2>2 DEF Processes
  <2>4. children' \in [Savers -> Seq(Pids)]
    BY <1>3, <2>1, AppendProperties DEF StartChild, Typed
  <2>5. proc' \in [Pids -> Processes] /\ phase' \in [Savers -> Phases]
    BY <1>1, <1>3, <2>2, <2>3 DEF StartChild, Typed
  <2> QED
    BY <1>3, <2>4, <2>5 DEF StartChild, launchVars, fileVars, Typed
<1>4. CASE StartChildFails(s) \/ AwaitFails(s)
  <2>1. BeginStop(s) /\ cancelled' = cancelled \ {s} /\ UNCHANGED <<children, loop, current, cli, fileVars>>
    BY <1>4 DEF StartChildFails, AwaitFails
  <2> QED
    BY <2>1, BeginStopTyped DEF fileVars, Typed, SaverOrNone
<1>5. CASE LaunchReturns(s)
  BY <1>1, <1>5, WriteTyped DEF LaunchReturns, Typed
<1> QED
  BY <1>2, <1>3, <1>4, <1>5 DEF LaunchStep

LEMMA LoopTyped ==
    ASSUME Typed, LoopOK, LoopStep
    PROVE  Typed'
<1>1. ASSUME NEW s \in Savers, Adopt(s)
      PROVE  Typed'
  BY <1>1, BeginStopTyped, LoopsTyped DEF Adopt, fileVars, Typed, SaverOrNone
<1>2. ASSUME NEW s \in Savers, Discard(s)
      PROVE  Typed'
  BY <1>2, BeginStopTyped, LoopsTyped DEF Discard, fileVars, Typed, SaverOrNone
<1>3. CASE StopSaver
  BY <1>3, BeginStopTyped, LoopsTyped DEF StopSaver, Pending, fileVars, Typed, SaverOrNone
<1>4. ASSUME NEW i \in Slots, Replace(i)
      PROVE  Typed'
  <2>1. proc' \in [Pids -> Processes]
    <3> DEFINE old == children[current][i]
               f == Signalled({old})
    <3>1. f \in [Pids -> Processes] /\ proc' = [f EXCEPT ![old].retired = TRUE]
      BY <1>4, SignalledTyped DEF Replace
    <3> HIDE DEF f, old
    <3> QED
      BY <3>1 DEF Processes
  <2>2. current \in Savers /\ i \in Nat
    BY <1>4, Numbers DEF Replace, Typed, SaverOrNone
  <2>3. loop' \in Loops
    BY <1>4, <2>2, FirstTyped DEF Replace, Loops, Typed
  <2> QED
    BY <1>4, <2>1, <2>3 DEF Replace, launchVars, fileVars, Typed
<1>5. CASE ReplaceStarts
  <2>1. current \in Savers /\ FreshPid \in Pids /\ loop.on \in Nat
    BY <1>5, FreshIsFree DEF ReplaceStarts, OutgoingStopped, LoopOK, Replacing, Typed, Loops, SaverOrNone
  <2>2. loop.on \in DOMAIN children[current]
    BY <1>5 DEF ReplaceStarts, OutgoingStopped, LoopOK, Replacing
  <2>3. proc' \in [Pids -> Processes]
    BY <1>5, <2>1, NewChildTyped DEF ReplaceStarts, Typed
  <2>4. children' \in [Savers -> Seq(Pids)]
    <3>1. children[current] \in Seq(Pids)
      BY <2>1 DEF Typed
    <3>2. [children[current] EXCEPT ![loop.on] = FreshPid] \in Seq(Pids)
      BY <2>1, <2>2, <3>1, ExceptSeq
    <3> QED
      BY <1>5, <2>1, <3>2 DEF ReplaceStarts, WithChild, Typed
  <2>5. loop' \in Loops
    BY <1>5 DEF ReplaceStarts, FirstBefore, Loops, Typed
  <2> QED
    BY <1>5, <2>3, <2>4, <2>5 DEF ReplaceStarts, launchVars, fileVars, Typed
<1>6. CASE ReplaceFails \/ ReplaceChecks
  <2>1. loop' \in Loops
    BY <1>6, LoopsTyped DEF ReplaceFails, ReplaceChecks, Loops, Typed
  <2> QED
    BY <1>6, <2>1 DEF ReplaceFails, ReplaceChecks, launchVars, fileVars, Typed
<1>7. CASE ReplaceWrites
  <2>1. current \in Savers
    BY <1>7 DEF ReplaceWrites, LoopOK, Replacing, Typed, SaverOrNone
  <2> QED
    BY <1>7, <2>1, WriteTyped, LoopsTyped DEF ReplaceWrites, launchVars, Typed
<1> QED
  BY <1>1, <1>2, <1>3, <1>4, <1>5, <1>6, <1>7 DEF LoopStep

LEMMA StopRunningTyped ==
    ASSUME Typed, StopRunning
    PROVE  Typed'
<1>1. proc' \in [Pids -> Processes]
  BY DEF StopRunning, Typed, Processes
<1>2. pidFile' \in Seq(Pids) /\ uncFile' \in SaverOrNone
  BY EmptySeq DEF StopRunning, ClearFiles, SaverOrNone
<1> QED
  BY <1>1, <1>2 DEF StopRunning, Typed

LEMMA NextTyped ==
    ASSUME Typed, LoopOK, [Next]_vars
    PROVE  Typed'
<1>1. CASE UNCHANGED vars
  BY <1>1 DEF vars, Typed
<1> QED
  BY <1>1, ProcessTyped, ScreenTyped, LaunchTyped, LoopTyped, StopRunningTyped DEF Next, StopStep

-----------------------------------------------------------------------------
(* What a step does to a process that it does not start, and to a phase.   *)

Kept(p) ==
    /\ proc'[p].saver = proc[p].saver /\ proc'[p].slot = proc[p].slot
    /\ proc'[p].life = "free" <=> Life(p) = "free"
    /\ proc'[p].life = "alive" => Life(p) = "alive"

LEMMA SignalledKeeps ==
    ASSUME Typed, NEW p \in Pids, NEW ps
    PROVE  /\ Signalled(ps)[p].saver = proc[p].saver /\ Signalled(ps)[p].slot = proc[p].slot
           /\ Signalled(ps)[p].life = Life(p) /\ Signalled(ps)[p].watch = proc[p].watch
           /\ Signalled(ps)[p].retired = proc[p].retired
           /\ Signalled(ps)[p].asked /\ ~proc[p].asked => p \in ps /\ Life(p) # "reaped"
BY DEF Signalled, Typed, Processes, Life

LEMMA BeginStopKeeps ==
    ASSUME Typed, NEW s \in SaverOrNone, BeginStop(s), NEW p \in Pids
    PROVE  Kept(p)
<1>1. CASE s = None
  BY <1>1 DEF BeginStop, Kept, Life
<1>2. CASE s # None
  BY <1>2, SignalledKeeps DEF BeginStop, Kept, Life
<1> QED
  BY <1>1, <1>2

LEMMA ProcStepKeeps ==
    ASSUME Typed, NEW q \in Pids, NEW new, ProcStep(q, new),
           new.saver = proc[q].saver, new.slot = proc[q].slot,
           new.life = "free" <=> Life(q) = "free", new.life = "alive" => Life(q) = "alive"
    PROVE  children' = children /\ \A p \in Pids : Kept(p)
BY DEF ProcStep, Kept, Typed, Life

LEMMA ReplaceKeeps ==
    ASSUME Typed, NEW i, Replace(i)
    PROVE  children' = children /\ \A p \in Pids : Kept(p)
<1> DEFINE f == Signalled({children[current][i]})
<1>1. /\ f \in [Pids -> Processes] /\ children' = children
      /\ \E old : proc' = [f EXCEPT ![old].retired = TRUE]
  BY SignalledTyped DEF Replace
<1>2. \A p \in Pids : f[p].saver = proc[p].saver /\ f[p].slot = proc[p].slot /\ f[p].life = Life(p)
  BY SignalledKeeps
<1> HIDE DEF f
<1> QED
  BY <1>1, <1>2 DEF Kept, Processes, Life

LEMMA ProcessesKept ==
    ASSUME Typed, LoopOK, [Next]_vars,
           \A s \in Savers : ~StartChild(s), ~ReplaceStarts
    PROVE  children' = children /\ \A p \in Pids : Kept(p)
<1> USE DEF Life
<1>1. CASE UNCHANGED vars
  BY <1>1 DEF vars, Kept
<1>2. ASSUME NEW q \in Pids, WatchStep(q) \/ ProcessStep(q) \/ Escalate(q)
      PROVE  children' = children /\ \A p \in Pids : Kept(p)
  <2>1. CASE WatchWakes(q)
    BY <2>1, ProcStepKeeps DEF WatchWakes, Typed, Processes
  <2>2. CASE Report(q) \/ WatchReleased(q)
    BY <2>2, ProcStepKeeps DEF Report, WatchReleased, Typed, Processes
  <2>3. CASE ModuleExits(q) \/ Reaped(q) \/ Escalate(q)
    BY <2>3, ProcStepKeeps DEF ModuleExits, Reaped, Escalate, Typed, Processes
  <2> QED
    BY <1>2, <2>1, <2>2, <2>3 DEF WatchStep, ProcessStep
<1>3. ASSUME NEW s \in Savers, CloseScreen(s) \/ ClearState(s)
      PROVE  children' = children /\ \A p \in Pids : Kept(p)
  BY <1>3 DEF CloseScreen, ClearState, Kept
<1>4. ASSUME NEW s \in Savers, LaunchStep(s)
      PROVE  children' = children /\ \A p \in Pids : Kept(p)
  <2>1. CASE LaunchBegins(s) \/ LaunchReturns(s)
    BY <2>1 DEF LaunchBegins, LaunchReturns, Kept
  <2>2. CASE StartChildFails(s) \/ AwaitFails(s)
    <3>1. BeginStop(s) /\ children' = children /\ s \in SaverOrNone
      BY <2>2 DEF StartChildFails, AwaitFails, SaverOrNone
    <3> QED
      BY <3>1, BeginStopKeeps
  <2> QED
    BY <1>4, <2>1, <2>2 DEF LaunchStep
<1>5. CASE LoopStep
  <2>1. CASE (\E s \in Savers : Adopt(s) \/ Discard(s)) \/ StopSaver
    <3> PICK s \in SaverOrNone : BeginStop(s) /\ children' = children
      BY <2>1 DEF Adopt, Discard, StopSaver, Typed, SaverOrNone
    <3> QED
      BY BeginStopKeeps
  <2>2. ASSUME NEW i \in Slots, Replace(i)
        PROVE  children' = children /\ \A p \in Pids : Kept(p)
    BY <2>2, ReplaceKeeps
  <2>3. CASE ReplaceFails \/ ReplaceChecks \/ ReplaceWrites
    BY <2>3 DEF ReplaceFails, ReplaceChecks, ReplaceWrites, Kept
  <2> QED
    BY <1>5, <2>1, <2>2, <2>3 DEF LoopStep
<1>6. CASE StopRunning
  BY <1>6 DEF StopRunning, Alive, Kept, Typed, Processes
<1> QED
  BY <1>1, <1>2, <1>3, <1>4, <1>5, <1>6 DEF Next, StopStep

(* A Stop, once begun, goes on to its end; the windows go when all of the  *)
(* processes have.                                                         *)
PhaseMoves(s) ==
    /\ phase'[s] = "none" => phase[s] = "none"
    /\ phase[s] \in Ended => phase'[s] \in Ended
    /\ phase'[s] \in {"clearing", "gone"} =>
          \/ phase[s] \in {"none", "clearing", "gone"}
          \/ phase[s] = "stopping" /\ AllStopped(s)

LEMMA BeginStopMoves ==
    ASSUME Typed, NEW s \in SaverOrNone, BeginStop(s), NEW t \in Savers,
           s # None => phase[s] \in InFlight \cup {"up"}
    PROVE  PhaseMoves(t) /\ (t # s => phase'[t] = phase[t])
BY DEF BeginStop, PhaseMoves, Typed, InFlight, Ended, SaverOrNone

LEMMA PhasesMove ==
    ASSUME Typed, CurrentOK, [Next]_vars, NEW t \in Savers
    PROVE  PhaseMoves(t)
<1> USE DEF InFlight, Ended
<1>1. CASE phase' = phase
  BY <1>1 DEF PhaseMoves
<1>2. ASSUME NEW q \in Pids, WatchStep(q) \/ ProcessStep(q) \/ Escalate(q)
      PROVE  phase' = phase
  BY <1>2 DEF WatchStep, WatchWakes, Report, WatchReleased, ProcessStep, ModuleExits, Reaped,
              Escalate, ProcStep
<1>3. ASSUME NEW s \in Savers, CloseScreen(s) \/ ClearState(s)
      PROVE  PhaseMoves(t)
  BY <1>3 DEF CloseScreen, ClearState, PhaseMoves, Typed
<1>4. ASSUME NEW s \in Savers, LaunchStep(s)
      PROVE  PhaseMoves(t)
  <2>1. CASE LaunchBegins(s) \/ StartChild(s) \/ LaunchReturns(s)
    BY <2>1 DEF LaunchBegins, StartChild, LaunchReturns, PhaseMoves, Typed
  <2>2. CASE StartChildFails(s) \/ AwaitFails(s)
    BY <2>2, BeginStopMoves DEF StartChildFails, AwaitFails, SaverOrNone
  <2> QED
    BY <1>4, <2>1, <2>2 DEF LaunchStep
<1>5. CASE LoopStep
  <2>1. CASE (\E s \in Savers : Adopt(s) \/ Discard(s)) \/ StopSaver
    <3> PICK s \in SaverOrNone : BeginStop(s) /\ (s # None => phase[s] = "up")
      BY <2>1 DEF Adopt, Discard, StopSaver, CurrentOK, Typed, SaverOrNone
    <3> QED
      BY BeginStopMoves
  <2>2. CASE ~((\E s \in Savers : Adopt(s) \/ Discard(s)) \/ StopSaver)
    BY <1>1, <1>5, <2>2
    DEF LoopStep, Replace, ReplaceStarts, ReplaceFails, ReplaceChecks, ReplaceWrites
  <2> QED
    BY <2>1, <2>2
<1>6. CASE StopRunning \/ UNCHANGED vars
  BY <1>1, <1>6 DEF StopRunning, vars
<1> QED
  BY <1>1, <1>2, <1>3, <1>4, <1>5, <1>6 DEF Next, StopStep

-----------------------------------------------------------------------------
(* Children and their slots.                                               *)

LEMMA ChildIsPid ==
    ASSUME Typed, NEW s \in Savers, NEW i \in DOMAIN children[s]
    PROVE  children[s][i] \in Pids /\ i \in Nat
BY LenProperties, ElementOfSeq DEF Typed

(* A step that starts no process.                                          *)
LEMMA SlotsKept ==
    ASSUME Typed, SlotsOK, AliveOK, children' = children,
           \A p \in Pids : Kept(p), \A s \in Savers : PhaseMoves(s)
    PROVE  SlotsOK' /\ AliveOK'
<1>1. SlotsOK'
  <2> SUFFICES ASSUME NEW s \in Savers
               PROVE  /\ phase'[s] = "none" => children[s] = <<>>
                      /\ \A i \in DOMAIN children[s] :
                            LET p == children[s][i]
                            IN  proc'[p].saver = s /\ proc'[p].slot = i /\ proc'[p].life # "free"
    BY DEF SlotsOK, Life
  <2>1. phase'[s] = "none" => children[s] = <<>>
    BY DEF SlotsOK, PhaseMoves
  <2>2. ASSUME NEW i \in DOMAIN children[s]
        PROVE  LET p == children[s][i]
               IN  proc'[p].saver = s /\ proc'[p].slot = i /\ proc'[p].life # "free"
    BY ChildIsPid DEF SlotsOK, Kept
  <2> QED
    BY <2>1, <2>2
<1>2. ASSUME NEW p \in Pids, proc'[p].life = "alive"
      PROVE  /\ proc'[p].saver \in Savers /\ phase'[proc'[p].saver] \notin {"clearing", "gone"}
             /\ proc'[p].slot \in DOMAIN children[proc'[p].saver]
             /\ children[proc'[p].saver][proc'[p].slot] = p
  <2> DEFINE s == proc[p].saver
  <2>1. p \in Alive /\ proc'[p].saver = s /\ proc'[p].slot = proc[p].slot
    BY <1>2 DEF Kept, Alive
  <2>2. /\ s \in Savers /\ phase[s] \notin {"clearing", "gone"}
        /\ proc[p].slot \in DOMAIN children[s] /\ children[s][proc[p].slot] = p
    BY <2>1 DEF AliveOK
  <2>3. phase[s] # "none"
    BY <2>2, EmptySeq DEF SlotsOK
  <2>4. ~AllStopped(s)
    BY <2>1, <2>2 DEF AllStopped, StopReturned, Alive, Range
  <2>5. phase'[s] \notin {"clearing", "gone"}
    BY <2>2, <2>3, <2>4 DEF PhaseMoves
  <2> QED
    BY <2>1, <2>2, <2>5
<1> QED
  BY <1>1, <1>2 DEF AliveOK, Alive, Life

(* StartChild and ReplaceStarts: the process c gets the slot i of s, where *)
(* nothing is alive.                                                       *)
Fills(s, i, c) ==
    /\ Life(c) = "free" /\ phase'[s] \notin {"none", "clearing", "gone"}
    /\ children' \in [Savers -> Seq(Pids)]
    /\ \A t \in Savers \ {s} : children'[t] = children[t] /\ phase'[t] = phase[t]
    /\ i \in DOMAIN children'[s] /\ children'[s][i] = c
    /\ DOMAIN children[s] \cup {i} = DOMAIN children'[s]
    /\ \A j \in DOMAIN children[s] \ {i} : children'[s][j] = children[s][j]
    /\ i \in DOMAIN children[s] => Life(children[s][i]) # "alive"
    /\ proc'[c].saver = s /\ proc'[c].slot = i /\ proc'[c].life = "alive"
    /\ \A p \in Pids \ {c} : Kept(p)

LEMMA SlotsFilled ==
    ASSUME Typed, SlotsOK, AliveOK, NEW s \in Savers, NEW i \in Nat, NEW c \in Pids,
           Fills(s, i, c)
    PROVE  SlotsOK' /\ AliveOK'
<1> USE DEF Fills
<1>1. \A t \in Savers : \A j \in DOMAIN children[t] : children[t][j] \in Pids \ {c}
  BY ChildIsPid DEF SlotsOK
<1>2. ASSUME NEW t \in Savers
      PROVE  /\ phase'[t] = "none" => children'[t] = <<>>
             /\ \A j \in DOMAIN children'[t] :
                   LET p == children'[t][j]
                   IN  proc'[p].saver = t /\ proc'[p].slot = j /\ proc'[p].life # "free"
  <2>1. CASE t # s
    BY <1>1, <2>1 DEF SlotsOK, Kept
  <2>2. CASE t = s
    <3>1. ASSUME NEW j \in DOMAIN children'[s], j # i
          PROVE  j \in DOMAIN children[s] /\ children'[s][j] = children[s][j]
      BY <3>1
    <3> QED
      BY <1>1, <2>2, <3>1 DEF SlotsOK, Kept
  <2> QED
    BY <2>1, <2>2
<1>3. ASSUME NEW p \in Pids, proc'[p].life = "alive"
      PROVE  /\ proc'[p].saver \in Savers /\ phase'[proc'[p].saver] \notin {"clearing", "gone"}
             /\ proc'[p].slot \in DOMAIN children'[proc'[p].saver]
             /\ children'[proc'[p].saver][proc'[p].slot] = p
  <2>1. CASE p = c
    BY <2>1
  <2>2. CASE p # c
    <3> DEFINE t == proc[p].saver
    <3>1. p \in Alive /\ proc'[p].saver = t /\ proc'[p].slot = proc[p].slot
      BY <1>3, <2>2 DEF Kept, Alive
    <3>2. /\ t \in Savers /\ phase[t] \notin {"clearing", "gone"}
          /\ proc[p].slot \in DOMAIN children[t] /\ children[t][proc[p].slot] = p
      BY <3>1 DEF AliveOK
    <3>3. t = s => proc[p].slot # i
      BY <3>1, <3>2 DEF Alive
    <3> QED
      BY <3>1, <3>2, <3>3
  <2> QED
    BY <2>1, <2>2
<1> QED
  BY <1>2, <1>3 DEF SlotsOK, AliveOK, Alive, Life

LEMMA StartChildProcs ==
    ASSUME Typed, NEW s \in Savers, StartChild(s)
    PROVE  /\ FreshPid \in Pids /\ Life(FreshPid) = "free"
           /\ proc'[FreshPid].saver = s /\ proc'[FreshPid].slot = Len(children[s]) + 1
           /\ proc'[FreshPid].life = "alive" /\ ~proc'[FreshPid].asked
           /\ proc'[FreshPid].watch \in {"off", "waiting"}
           /\ \A p \in Pids \ {FreshPid} :
                 /\ Kept(p) /\ proc'[p].life = Life(p)
                 /\ proc'[p].asked = proc[p].asked /\ proc'[p].retired = proc[p].retired
                 /\ proc'[p].watch \in {"waiting", proc[p].watch}
<1> DEFINE i == Len(children[s]) + 1
           c == FreshPid
           started == [proc EXCEPT ![c] = NewChild(s, i, "off")]
<1>1. c \in Pids /\ Life(c) = "free" /\ i \in Nat
  BY FreshIsFree, LenProperties DEF StartChild, Typed
<1>2. /\ started \in [Pids -> Processes]
      /\ started[c].saver = s /\ started[c].slot = i /\ started[c].life = "alive"
      /\ ~started[c].asked /\ started[c].watch = "off"
      /\ \A p \in Pids \ {c} : started[p] = proc[p]
  BY <1>1, NewChildTyped DEF Typed, NewChild, NoProcess
<1> HIDE DEF started
<1>3. \A p \in Pids : /\ proc'[p].saver = started[p].saver /\ proc'[p].slot = started[p].slot
                       /\ proc'[p].life = started[p].life /\ proc'[p].asked = started[p].asked
                       /\ proc'[p].retired = started[p].retired
                       /\ proc'[p].watch \in {"waiting", started[p].watch}
  <2>1. CASE proc' = started
    BY <2>1
  <2>2. CASE proc' = [p \in Pids |-> IF started[p].saver = s
                                     THEN [started[p] EXCEPT !.watch = "waiting"] ELSE started[p]]
    BY <1>2, <2>2 DEF Processes
  <2> QED
    BY <2>1, <2>2 DEF StartChild, started
<1>4. proc'[c].life = "alive" /\ proc'[c].saver = s /\ proc'[c].slot = i
  BY <1>1, <1>2, <1>3
<1>5. ~proc'[c].asked /\ proc'[c].watch \in {"off", "waiting"}
  BY <1>1, <1>2, <1>3
<1>6. ASSUME NEW p \in Pids \ {c}
      PROVE  /\ Kept(p) /\ proc'[p].life = Life(p)
             /\ proc'[p].asked = proc[p].asked /\ proc'[p].retired = proc[p].retired
             /\ proc'[p].watch \in {"waiting", proc[p].watch}
  BY <1>2, <1>3 DEF Kept, Life
<1> QED
  BY <1>1, <1>4, <1>5, <1>6

LEMMA StartChildSlots ==
    ASSUME Typed, SlotsOK, AliveOK, NEW s \in Savers, StartChild(s)
    PROVE  SlotsOK' /\ AliveOK'
<1> DEFINE i == Len(children[s]) + 1
           c == FreshPid
<1>1. /\ c \in Pids /\ Life(c) = "free"
      /\ proc'[c].saver = s /\ proc'[c].slot = i /\ proc'[c].life = "alive"
      /\ \A p \in Pids \ {c} : Kept(p)
  BY StartChildProcs
<1>2. children[s] \in Seq(Pids) /\ DOMAIN children[s] = 1 .. Len(children[s]) /\ i \in Nat
  BY LenProperties DEF Typed
<1>3. /\ children'[s] = Append(children[s], c)
      /\ \A t \in Savers \ {s} : children'[t] = children[t] /\ phase'[t] = phase[t]
      /\ phase'[s] \notin {"none", "clearing", "gone"}
  BY DEF StartChild, Typed
<1>4. /\ children'[s] \in Seq(Pids) /\ Len(children'[s]) = i /\ children'[s][i] = c
      /\ \A j \in 1 .. Len(children[s]) : children'[s][j] = children[s][j]
  BY <1>1, <1>2, <1>3, AppendProperties
<1>5. DOMAIN children'[s] = 1 .. i
  BY <1>4, LenProperties
<1>6. DOMAIN children[s] \cup {i} = DOMAIN children'[s] /\ i \notin DOMAIN children[s]
  BY <1>2, <1>5
<1>7. children' \in [Savers -> Seq(Pids)]
  BY <1>3, <1>4 DEF StartChild, Typed
<1>8. \A j \in DOMAIN children[s] \ {i} : children'[s][j] = children[s][j]
  BY <1>2, <1>4
<1>9. i \in DOMAIN children'[s] /\ (i \in DOMAIN children[s] => Life(children[s][i]) # "alive")
  BY <1>6
<1>10. children'[s][i] = c /\ i \in Nat
  BY <1>2, <1>4
<1> HIDE DEF i, c
<1>11. Fills(s, i, c)
  BY <1>1, <1>3, <1>6, <1>7, <1>8, <1>9, <1>10 DEF Fills
<1> QED
  BY <1>1, <1>10, <1>11, SlotsFilled

LEMMA ReplaceStartsIs ==
    ASSUME Typed, LoopOK, ReplaceStarts
    PROVE  /\ current \in Savers /\ loop.on \in DOMAIN children[current] /\ loop.on \in Nat
           /\ FreshPid \in Pids /\ Life(FreshPid) = "free"
           /\ Life(children[current][loop.on]) # "alive"
<1>1. loop.at = "old" /\ StopReturned(children[current][loop.on])
  BY DEF ReplaceStarts, OutgoingStopped
<1>2. current \in Savers /\ loop.on \in DOMAIN children[current]
  BY <1>1 DEF LoopOK, Replacing, Typed, SaverOrNone
<1> QED
  BY <1>1, <1>2, FreshIsFree DEF ReplaceStarts, StopReturned, Typed, Loops

LEMMA ReplaceStartsSlots ==
    ASSUME Typed, SlotsOK, AliveOK, CurrentOK, LoopOK, ReplaceStarts
    PROVE  SlotsOK' /\ AliveOK'
<1> DEFINE i == loop.on
           c == FreshPid
<1>1. /\ current \in Savers /\ i \in DOMAIN children[current] /\ i \in Nat
      /\ c \in Pids /\ Life(c) = "free" /\ Life(children[current][i]) # "alive"
  BY ReplaceStartsIs
<1>2. children' = [children EXCEPT ![current][i] = c] /\ phase' = phase
      /\ proc' = [proc EXCEPT ![c] = NewChild(current, i, "waiting")]
  BY DEF ReplaceStarts, WithChild
<1>3. children' \in [Savers -> Seq(Pids)]
  BY LoopTyped DEF LoopStep, Typed
<1>4. /\ \A t \in Savers \ {current} : children'[t] = children[t]
      /\ children'[current] = [children[current] EXCEPT ![i] = c]
  BY <1>1, <1>2 DEF Typed
<1>5. /\ DOMAIN children'[current] = DOMAIN children[current] /\ children'[current][i] = c
      /\ \A j \in DOMAIN children[current] \ {i} : children'[current][j] = children[current][j]
  BY <1>1, <1>4
<1>6. phase'[current] \notin {"none", "clearing", "gone"}
  BY <1>1, <1>2, Numbers DEF CurrentOK
<1>7. /\ proc'[c].saver = current /\ proc'[c].slot = i /\ proc'[c].life = "alive"
      /\ \A p \in Pids \ {c} : Kept(p)
  BY <1>1, <1>2 DEF Typed, NewChild, NoProcess, Kept, Life
<1> HIDE DEF i, c
<1>8. Fills(current, i, c)
  BY <1>1, <1>2, <1>3, <1>4, <1>5, <1>6, <1>7 DEF Fills
<1> QED
  BY <1>1, <1>8, SlotsFilled

LEMMA SlotsStep ==
    ASSUME SaverInv, [Next]_vars
    PROVE  SlotsOK' /\ AliveOK'
<1> USE DEF SaverInv
<1>1. CASE (\A s \in Savers : ~StartChild(s)) /\ ~ReplaceStarts
  BY <1>1, ProcessesKept, PhasesMove, SlotsKept
<1>2. ASSUME NEW s \in Savers, StartChild(s)
      PROVE  SlotsOK' /\ AliveOK'
  BY <1>2, StartChildSlots
<1>3. CASE ReplaceStarts
  BY <1>3, ReplaceStartsSlots
<1> QED
  BY <1>1, <1>2, <1>3

-----------------------------------------------------------------------------
(* The saver on screen, and the event loop.                                *)

LEMMA CurrentStep ==
    ASSUME SaverInv, [Next]_vars
    PROVE  CurrentOK'
<1> USE DEF SaverInv, InFlight, Ended
<1>0. current # None => current \in Savers
  BY DEF Typed, SaverOrNone
<1>1. ASSUME current' = current, cancelled' \subseteq cancelled,
             current # None => phase'[current] = phase[current]
      PROVE  CurrentOK'
  BY <1>1 DEF CurrentOK
<1>2. ASSUME NEW q \in Pids, WatchStep(q) \/ ProcessStep(q) \/ Escalate(q)
      PROVE  CurrentOK'
  BY <1>1, <1>2 DEF WatchStep, WatchWakes, Report, WatchReleased, ProcessStep, ModuleExits, Reaped,
              Escalate, ProcStep, launchVars
<1>3. ASSUME NEW s \in Savers, CloseScreen(s) \/ ClearState(s)
      PROVE  CurrentOK'
  <2>1. s # current /\ UNCHANGED <<current, cancelled>>
    BY <1>3, Numbers DEF CloseScreen, ClearState, CurrentOK, launchVars
  <2> QED
    BY <1>0, <1>1, <1>3, <2>1 DEF CloseScreen, ClearState, Typed
<1>4. ASSUME NEW s \in Savers, LaunchStep(s)
      PROVE  CurrentOK'
  <2>1. s # current
    BY <1>4, Numbers DEF LaunchStep, LaunchBegins, StartChild, StartChildFails, AwaitFails,
                         LaunchReturns, CurrentOK
  <2>2. CASE LaunchBegins(s) \/ StartChild(s) \/ LaunchReturns(s)
    BY <1>0, <1>1, <2>1, <2>2 DEF LaunchBegins, StartChild, LaunchReturns, launchVars, Typed
  <2>3. CASE StartChildFails(s) \/ AwaitFails(s)
    <3>1. BeginStop(s) /\ current' = current /\ cancelled' \subseteq cancelled
      BY <2>3 DEF StartChildFails, AwaitFails
    <3> QED
      BY <1>0, <1>1, <2>1, <3>1 DEF BeginStop, Typed
  <2> QED
    BY <1>4, <2>2, <2>3 DEF LaunchStep
<1>5. ASSUME NEW s \in Savers, Adopt(s)
      PROVE  CurrentOK'
  <2>1. phase'[s] = phase[s]
    BY <1>5 DEF Adopt, BeginStop, Typed
  <2> QED
    BY <1>5, <2>1 DEF Adopt, CurrentOK
<1>6. ASSUME NEW s \in Savers, Discard(s)
      PROVE  CurrentOK'
  <2>1. s # current
    BY <1>6, Numbers DEF Discard, CurrentOK
  <2> QED
    BY <1>0, <1>1, <1>6, <2>1 DEF Discard, BeginStop, Typed
<1>7. CASE StopSaver
  BY <1>7 DEF StopSaver, CurrentOK
<1>8. CASE (\E i \in Slots : Replace(i)) \/ ReplaceStarts \/ ReplaceFails \/ ReplaceChecks \/ ReplaceWrites
  BY <1>1, <1>8 DEF Replace, ReplaceStarts, ReplaceFails, ReplaceChecks, ReplaceWrites, launchVars
<1>9. CASE StopRunning \/ UNCHANGED vars
  BY <1>1, <1>9 DEF StopRunning, vars
<1> QED
  BY <1>2, <1>3, <1>4, <1>5, <1>6, <1>7, <1>8, <1>9 DEF Next, StopStep, LoopStep

(* A step that leaves Replace where it was.                                *)
LEMMA LoopKept ==
    ASSUME SaverInv, UNCHANGED <<loop, current>>, \A p \in Pids : Kept(p) \/ Life(p) = "free",
           current # None => children'[current] = children[current]
    PROVE  LoopOK'
BY DEF SaverInv, LoopOK, Replacing, Kept, Life

LEMMA LoopOther ==
    ASSUME ~Replacing'
    PROVE  LoopOK'
BY DEF LoopOK

LEMMA LoopNext ==
    ASSUME SaverInv, [Next]_vars
    PROVE  LoopOK'
<1> USE DEF SaverInv, InFlight, Ended
<1>1. CASE UNCHANGED <<loop, current>> /\ (\A s \in Savers : ~StartChild(s)) /\ ~ReplaceStarts
  BY <1>1, ProcessesKept, LoopKept
<1>2. ASSUME NEW s \in Savers, StartChild(s)
      PROVE  LoopOK'
  <2>1. s # current /\ FreshPid \in Pids /\ Life(FreshPid) = "free"
    BY <1>2, Numbers, FreshIsFree DEF StartChild, CurrentOK
  <2>2. current # None => children'[current] = children[current]
    BY <1>2, <2>1 DEF StartChild, Typed, SaverOrNone
  <2>3. ASSUME NEW p \in Pids, p # FreshPid
        PROVE  Kept(p)
    BY <1>2, <2>3, StartChildProcs
  <2> QED
    BY <1>2, <2>1, <2>2, <2>3, LoopKept DEF StartChild, launchVars
<1>3. CASE ReplaceStarts
  <2>1. /\ loop'.at = "check" /\ loop'.on = loop.on /\ loop'.first = loop.first /\ current' = current
    BY <1>3 DEF ReplaceStarts, FirstBefore, launchVars, Typed, Loops
  <2>2. LoopOK /\ Replacing /\ loop.first \in Pids /\ Life(loop.first) # "free"
    BY <1>3 DEF ReplaceStarts, OutgoingStopped, LoopOK, Replacing
  <2>3. proc'[loop.first] = proc[loop.first]
    BY <1>3, <2>2, ReplaceStartsIs DEF ReplaceStarts, Typed
  <2>4. DOMAIN children'[current] = DOMAIN children[current]
    BY <1>3, ReplaceStartsIs DEF ReplaceStarts, WithChild, Typed
  <2> QED
    BY <2>1, <2>2, <2>3, <2>4 DEF LoopOK, Replacing, Life
<1>4. ASSUME NEW s \in Savers, CloseScreen(s) \/ ClearState(s)
      PROVE  LoopOK'
  <2>1. loop' = loop \/ loop' = Idle
    BY <1>4 DEF CloseScreen, ClearState, LoopAfter
  <2>2. CASE loop' = loop
    BY <1>4, <2>2, LoopKept DEF CloseScreen, ClearState, launchVars, Kept, Life
  <2>3. CASE loop' = Idle
    BY <2>3, LoopOther DEF Idle, Replacing
  <2> QED
    BY <2>1, <2>2, <2>3
<1>5. CASE (\E s \in Savers : Adopt(s) \/ Discard(s)) \/ StopSaver
  <2>1. \E s : loop' = InStop(s)
    BY <1>5 DEF Adopt, Discard, StopSaver
  <2> QED
    BY <2>1, LoopOther DEF InStop, Idle, Replacing
<1>6. ASSUME NEW i \in Slots, Replace(i)
      PROVE  LoopOK'
  <2>1. /\ loop' = [at |-> "old", on |-> i, first |-> First(children[current])]
        /\ current' = current /\ current # None /\ current \in Savers
        /\ i \in DOMAIN children[current] /\ children' = children
    BY <1>6 DEF Replace, launchVars, Typed, SaverOrNone
  <2>2. children[current] \in Seq(Pids) /\ children[current] # <<>>
    BY <2>1, EmptySeq DEF Typed
  <2>3. 1 \in DOMAIN children[current] /\ First(children[current]) = children[current][1]
    BY <2>2, FirstTyped
  <2> DEFINE f == First(children[current])
  <2>4. f \in Pids /\ Life(f) # "free" /\ proc[f].saver = current
    BY <2>1, <2>3, ChildIsPid DEF SlotsOK
  <2>5. Kept(f)
    BY <1>6, <2>4, ReplaceKeeps
  <2>6. proc'[f].life # "free" /\ proc'[f].saver = current
    BY <2>4, <2>5 DEF Kept, Life
  <2> QED
    BY <2>1, <2>4, <2>6 DEF LoopOK, Life
<1>7. CASE ReplaceFails \/ ReplaceWrites
  BY <1>7, LoopOther DEF ReplaceFails, ReplaceWrites, Idle, Replacing
<1>8. CASE ReplaceChecks
  <2>1. CASE loop' = Idle
    BY <2>1, LoopOther DEF Idle, Replacing
  <2>2. CASE loop' = [loop EXCEPT !.at = "write"]
    <3>1. loop'.at = "write" /\ loop'.on = loop.on /\ loop'.first = loop.first
      BY <2>2 DEF Typed, Loops
    <3>2. UNCHANGED <<current, children, proc>> /\ loop.at = "check"
      BY <1>8 DEF ReplaceChecks, launchVars
    <3> QED
      BY <3>1, <3>2 DEF LoopOK, Replacing, Life
  <2> QED
    BY <1>8, <2>1, <2>2 DEF ReplaceChecks
<1>9. ASSUME NEW s \in Savers, LaunchStep(s), ~StartChild(s)
      PROVE  UNCHANGED <<loop, current>> /\ children' = children
  BY <1>9 DEF LaunchStep, LaunchBegins, StartChildFails, AwaitFails, LaunchReturns, launchVars
<1>10. ASSUME NEW q \in Pids, WatchStep(q) \/ ProcessStep(q) \/ Escalate(q)
       PROVE  UNCHANGED <<loop, current>>
  BY <1>10 DEF WatchStep, WatchWakes, Report, WatchReleased, ProcessStep, ModuleExits, Reaped,
               Escalate, ProcStep, launchVars
<1>11. CASE StopRunning \/ UNCHANGED vars
  BY <1>1, <1>2, <1>3, <1>11 DEF StopRunning, vars
<1> QED
  BY <1>1, <1>2, <1>3, <1>4, <1>5, <1>6, <1>7, <1>8, <1>9, <1>10, <1>11 DEF Next, StopStep, LoopStep

-----------------------------------------------------------------------------
(* Signals and reports.                                                    *)

(* After the step p is as WatchOK wants it, or was signalled before and    *)
(* has the saver it had.                                                   *)
Told(p) ==
    /\ proc'[p].saver # None
    /\ phase'[proc'[p].saver] \in Ended

WatchView(p) ==
    /\ \/ ~proc'[p].asked
       \/ proc'[p].retired
       \/ Told(p)
       \/ /\ proc[p].asked
          /\ ~proc[p].retired
          /\ proc'[p].saver = proc[p].saver
    /\ \/ proc'[p].watch \notin {"sending", "reported"}
       \/ /\ proc'[p].life = "reaped"
          /\ ~proc'[p].asked

LEMMA WatchKept ==
    ASSUME Typed, WatchOK, NEW p \in Pids, WatchView(p),
           \A s \in Savers : PhaseMoves(s)
    PROVE  /\ \/ ~proc'[p].asked
              \/ proc'[p].retired
              \/ Told(p)
           /\ \/ proc'[p].watch \notin {"sending", "reported"}
              \/ /\ proc'[p].life = "reaped"
                 /\ ~proc'[p].asked
<1>1. ASSUME proc[p].asked, ~proc[p].retired, proc'[p].saver = proc[p].saver
      PROVE  Told(p)
  <2>1. proc[p].saver # None /\ phase[proc[p].saver] \in Ended
    BY <1>1 DEF WatchOK, Stopping
  <2>2. proc[p].saver \in Savers
    BY <2>1 DEF Typed, Processes, SaverOrNone
  <2> QED
    BY <1>1, <2>1, <2>2 DEF PhaseMoves, Told
<1> QED
  BY <1>1 DEF WatchView

LEMMA SameWatched ==
    ASSUME Typed, WatchOK, NEW p \in Pids,
           proc'[p].asked => proc[p].asked,
           proc[p].retired => proc'[p].retired,
           proc'[p].saver = proc[p].saver,
           \/ proc'[p].watch \notin {"sending", "reported"}
           \/ /\ proc[p].watch \in {"sending", "reported"}
              /\ Life(p) = "reaped" => proc'[p].life = "reaped"
    PROVE  WatchView(p)
<1>1. proc[p].watch \in {"sending", "reported"} => /\ Life(p) = "reaped"
                                                   /\ ~proc[p].asked
  BY DEF WatchOK
<1> QED
  BY <1>1 DEF WatchView

LEMMA BeginStopWatch ==
    ASSUME Typed, SlotsOK, WatchOK, NEW s \in SaverOrNone, BeginStop(s), NEW p \in Pids
    PROVE  WatchView(p)
<1> USE DEF Life
<1>1. CASE s = None
  BY <1>1, SameWatched DEF BeginStop
<1>2. CASE s # None
  <2> DEFINE ps == Range(children[s])
  <2>1. s \in Savers /\ proc' = Signalled(ps) /\ phase'[s] = "stopping"
    BY <1>2 DEF BeginStop, SaverOrNone, Typed
  <2>2. p \in ps => proc[p].saver = s
    BY <2>1 DEF Range, SlotsOK
  <2> HIDE DEF ps
  <2>3. /\ proc'[p].saver = proc[p].saver
        /\ proc'[p].life = proc[p].life
        /\ proc'[p].watch = proc[p].watch
        /\ proc[p].retired => proc'[p].retired
    BY <2>1, SignalledKeeps
  <2>4. CASE proc'[p].asked => proc[p].asked
    BY <2>3, <2>4, SameWatched
  <2>5. CASE proc'[p].asked /\ ~proc[p].asked
    <3>1. p \in ps /\ Life(p) # "reaped"
      BY <2>1, <2>5, SignalledKeeps
    <3>2. Told(p)
      BY <1>2, <2>1, <2>2, <2>3, <3>1 DEF Told, Ended
    <3>3. proc[p].watch \notin {"sending", "reported"}
      BY <3>1 DEF WatchOK
    <3> QED
      BY <2>3, <3>2, <3>3 DEF WatchView
  <2> QED
    BY <2>4, <2>5
<1> QED
  BY <1>1, <1>2

LEMMA ProcStepWatch ==
    ASSUME Typed, WatchOK, NEW q \in Pids, NEW new, ProcStep(q, new),
           new.saver = proc[q].saver, new.asked => proc[q].asked, proc[q].retired => new.retired,
           \/ new.watch \notin {"sending", "reported"}
           \/ /\ new.life = "reaped"
              /\ ~new.asked
    PROVE  \A p \in Pids : WatchView(p)
<1>1. ASSUME NEW p \in Pids, p # q
      PROVE  WatchView(p)
  <2>1. proc'[p] = proc[p]
    BY <1>1 DEF ProcStep, Typed
  <2> QED
    BY <2>1, SameWatched DEF Life
<1>2. proc'[q] = new
  BY DEF ProcStep, Typed
<1>3. WatchView(q)
  BY <1>2 DEF WatchView
<1> QED
  BY <1>1, <1>3

LEMMA WatchNext ==
    ASSUME SaverInv, [Next]_vars
    PROVE  WatchOK'
<1> USE DEF SaverInv, Life
<1>1. ASSUME NEW q \in Pids, WatchStep(q) \/ ProcessStep(q) \/ Escalate(q)
      PROVE  \A p \in Pids : WatchView(p)
  <2> USE DEF Typed, Processes
  <2>1. CASE WatchWakes(q)
    <3> DEFINE new == [proc[q] EXCEPT !.watch = IF Silent(q) THEN "over" ELSE "sending"]
    <3>1. /\ new.saver = proc[q].saver
          /\ new.asked => proc[q].asked
          /\ proc[q].retired => new.retired
          /\ new.life = "reaped"
          /\ Silent(q) => new.watch = "over"
      BY <2>1 DEF WatchWakes
    <3>2. ~Silent(q) => ~proc[q].asked
      BY DEF WatchOK, Silent
    <3>3. ProcStep(q, new)
      BY <2>1 DEF WatchWakes
    <3> HIDE DEF new
    <3> QED
      BY <3>1, <3>2, <3>3, ProcStepWatch
  <2>2. CASE Report(q)
    <3> DEFINE new == [proc[q] EXCEPT !.watch = "reported"]
    <3>1. proc[q].life = "reaped" /\ ~proc[q].asked
      BY <2>2 DEF Report, WatchOK
    <3>2. /\ new.saver = proc[q].saver
          /\ proc[q].retired => new.retired
          /\ new.life = "reaped"
          /\ ~new.asked
      BY <3>1
    <3>3. ProcStep(q, new)
      BY <2>2 DEF Report
    <3> HIDE DEF new
    <3> QED
      BY <3>2, <3>3, ProcStepWatch
  <2>3. CASE WatchReleased(q)
    BY <2>3, ProcStepWatch DEF WatchReleased
  <2>4. CASE ModuleExits(q) \/ Reaped(q) \/ Escalate(q)
    <3>1. proc[q].watch \notin {"sending", "reported"}
      BY <2>4 DEF ModuleExits, Reaped, Escalate, WatchOK
    <3> QED
      BY <2>4, <3>1, ProcStepWatch DEF ModuleExits, Reaped, Escalate
  <2> QED
    BY <1>1, <2>1, <2>2, <2>3, <2>4 DEF WatchStep, ProcessStep
<1>2. ASSUME proc' = proc
      PROVE  \A p \in Pids : WatchView(p)
  BY <1>2, SameWatched
<1>3. ASSUME NEW s \in Savers, LaunchStep(s)
      PROVE  \A p \in Pids : WatchView(p)
  <2>1. CASE LaunchBegins(s) \/ LaunchReturns(s)
    BY <1>2, <2>1 DEF LaunchBegins, LaunchReturns
  <2>2. CASE StartChild(s)
    <3>1. WatchView(FreshPid)
      BY <2>2, StartChildProcs DEF WatchView
    <3>2. ASSUME NEW p \in Pids \ {FreshPid}
          PROVE  WatchView(p)
      <4>1. /\ Kept(p)
            /\ proc'[p].life = Life(p)
            /\ proc'[p].asked = proc[p].asked
            /\ proc'[p].retired = proc[p].retired
            /\ proc'[p].watch \in {"waiting", proc[p].watch}
        BY <2>2, StartChildProcs
      <4> QED
        BY <4>1, SameWatched DEF Kept
    <3> QED
      BY <3>1, <3>2
  <2>3. CASE StartChildFails(s) \/ AwaitFails(s)
    <3>1. BeginStop(s) /\ s \in SaverOrNone
      BY <2>3 DEF StartChildFails, AwaitFails, SaverOrNone
    <3> QED
      BY <3>1, BeginStopWatch
  <2> QED
    BY <1>3, <2>1, <2>2, <2>3 DEF LaunchStep
<1>4. ASSUME (\E s \in Savers : Adopt(s) \/ Discard(s)) \/ StopSaver
      PROVE  \A p \in Pids : WatchView(p)
  <2>1. \E s \in SaverOrNone : BeginStop(s)
    BY <1>4 DEF Adopt, Discard, StopSaver, Typed, SaverOrNone
  <2> QED
    BY <2>1, BeginStopWatch
<1>5. ASSUME NEW i \in Slots, Replace(i), NEW p \in Pids
      PROVE  WatchView(p)
  <2> DEFINE old == children[current][i]
             f == Signalled({old})
  <2>1. f \in [Pids -> Processes] /\ proc' = [f EXCEPT ![old].retired = TRUE]
    BY <1>5, SignalledTyped DEF Replace
  <2>2. /\ f[p].saver = proc[p].saver
        /\ f[p].watch = proc[p].watch
        /\ f[p].life = Life(p)
        /\ proc[p].retired => f[p].retired
        /\ f[p].asked /\ ~proc[p].asked => p = old /\ Life(p) # "reaped"
    BY SignalledKeeps
  <2> HIDE DEF f, old
  <2>3. CASE p # old
    <3>1. proc'[p] = f[p]
      BY <2>1, <2>3
    <3> QED
      BY <2>2, <2>3, <3>1, SameWatched
  <2>4. CASE p = old
    <3>1. /\ proc'[p].retired
          /\ proc'[p].saver = f[p].saver
          /\ proc'[p].watch = f[p].watch
          /\ proc'[p].life = f[p].life
          /\ proc'[p].asked => f[p].asked
      BY <2>1, <2>4 DEF Processes
    <3>2. proc[p].watch \in {"sending", "reported"} => /\ Life(p) = "reaped"
                                                       /\ ~proc[p].asked
      BY DEF WatchOK
    <3> QED
      BY <2>2, <3>1, <3>2 DEF WatchView
  <2> QED
    BY <2>3, <2>4
<1>6. ASSUME ReplaceStarts
      PROVE  \A p \in Pids : WatchView(p)
  <2>1. /\ proc' = [proc EXCEPT ![FreshPid] = NewChild(current, loop.on, "waiting")]
        /\ FreshPid \in Pids
    BY <1>6, ReplaceStartsIs DEF ReplaceStarts
  <2>2. proc'[FreshPid] = NewChild(current, loop.on, "waiting")
    BY <2>1 DEF Typed
  <2>3. ~proc'[FreshPid].asked /\ proc'[FreshPid].watch = "waiting"
    BY <2>2 DEF NewChild, NoProcess
  <2>4. WatchView(FreshPid)
    BY <2>3 DEF WatchView
  <2>5. ASSUME NEW p \in Pids, p # FreshPid
        PROVE  WatchView(p)
    <3>1. proc'[p] = proc[p]
      BY <2>1, <2>5 DEF Typed
    <3> QED
      BY <3>1, SameWatched
  <2> QED
    BY <2>4, <2>5
<1>7. ASSUME ReplaceFails \/ ReplaceChecks \/ ReplaceWrites \/ UNCHANGED vars
      PROVE  \A p \in Pids : WatchView(p)
  BY <1>2, <1>7 DEF ReplaceFails, ReplaceChecks, ReplaceWrites, vars
<1>8. ASSUME NEW s \in Savers, CloseScreen(s) \/ ClearState(s)
      PROVE  \A p \in Pids : WatchView(p)
  BY <1>2, <1>8 DEF CloseScreen, ClearState
<1>9. ASSUME StopRunning, NEW p \in Pids
      PROVE  WatchView(p)
  <2>1. CASE proc'[p] = proc[p]
    BY <2>1, SameWatched
  <2>2. CASE proc'[p] = [proc[p] EXCEPT !.life = "reaped"]
    <3>1. /\ proc'[p].saver = proc[p].saver
          /\ proc'[p].watch = proc[p].watch
          /\ proc'[p].asked => proc[p].asked
          /\ proc[p].retired => proc'[p].retired
          /\ proc'[p].life = "reaped"
      BY <2>2 DEF Typed, Processes
    <3> QED
      BY <3>1, SameWatched
  <2> QED
    BY <1>9, <2>1, <2>2 DEF StopRunning
<1>10. ASSUME NEW p \in Pids
       PROVE  WatchView(p)
  BY <1>1, <1>3, <1>4, <1>5, <1>6, <1>7, <1>8, <1>9 DEF Next, StopStep, LoopStep
<1>11. \A s \in Savers : PhaseMoves(s)
  BY PhasesMove
<1>12. ASSUME NEW p \in Pids
       PROVE  /\ \/ ~proc'[p].asked
                 \/ proc'[p].retired
                 \/ Told(p)
              /\ \/ proc'[p].watch \notin {"sending", "reported"}
                 \/ /\ proc'[p].life = "reaped"
                    /\ ~proc'[p].asked
  BY <1>10, <1>11, WatchKept
<1> QED
  BY <1>12 DEF WatchOK, Stopping, Told

-----------------------------------------------------------------------------
(* The invariant.                                                          *)

LEMMA InitSaverInv == Init => SaverInv
<1> SUFFICES ASSUME Init PROVE SaverInv
  OBVIOUS
<1>1. Typed
  BY InitTyped
<1>2. /\ \A s \in Savers : children[s] = <<>> /\ phase[s] = "none"
      /\ \A p \in Pids : proc[p] = NoProcess
      /\ current = None /\ loop = Idle
  BY DEF Init
<1>3. SlotsOK
  BY <1>2, EmptySeq DEF SlotsOK
<1>4. AliveOK /\ WatchOK
  BY <1>2 DEF AliveOK, WatchOK, Alive, Life, NoProcess
<1>5. CurrentOK /\ LoopOK
  BY <1>2 DEF CurrentOK, LoopOK, Replacing, Idle
<1> QED
  BY <1>1, <1>3, <1>4, <1>5 DEF SaverInv

LEMMA NextSaverInv ==
    ASSUME SaverInv, [Next]_vars
    PROVE  SaverInv'
BY NextTyped, SlotsStep, CurrentStep, LoopNext, WatchNext DEF SaverInv

LEMMA SaverInvariant == Spec => []SaverInv
BY InitSaverInv, NextSaverInv, PTL DEF Spec

(* Two modules never draw in one window (OneModulePerWindow): a process    *)
(* that is alive is the child in its slot, however late the one Replace    *)
(* stopped there goes and however the launches overlap.                    *)
THEOREM OneModuleInWindow == Spec => []OneModulePerWindow
<1>1. SaverInv => OneModulePerWindow
  BY DEF SaverInv, AliveOK, OneModulePerWindow
<1> QED
  BY <1>1, SaverInvariant, PTL

(* No module is alive with its windows gone (ModulesGoBeforeWindows), on   *)
(* every path into Stop, with any number of launches and of processes.     *)
THEOREM WindowsOutliveModules == Spec => []ModulesGoBeforeWindows
<1>1. SaverInv => ModulesGoBeforeWindows
  BY DEF SaverInv, AliveOK, ModulesGoBeforeWindows
<1> QED
  BY <1>1, SaverInvariant, PTL

(* What Stop or Replace signalled is never reported on Exits               *)
(* (SignalledNeverReported): the watch asks first whether the process is   *)
(* retired or its saver closing, and only those are signalled.             *)
THEOREM SignalsAreNotReports == Spec => []SignalledNeverReported
<1>1. SaverInv => SignalledNeverReported
  BY DEF SaverInv, WatchOK, SignalledNeverReported
<1> QED
  BY <1>1, SaverInvariant, PTL

-----------------------------------------------------------------------------
(* One launch at a time.                                                   *)

(* What is on screen is neither in flight nor being stopped.               *)
LEMMA CurrentIsUp ==
    ASSUME SaverInv
    PROVE  /\ current # None => current \in Savers /\ phase[current] = "up"
           /\ current = None => current \notin Savers
BY Numbers DEF SaverInv, Typed, SaverOrNone, CurrentOK

LEMMA AloneKept ==
    ASSUME AloneOK, UNCHANGED <<phase, current, cancelled, unclutter>>
    PROVE  AloneOK'
BY DEF AloneOK, Wanted

LEMMA AloneLaunch ==
    ASSUME OneLaunch, SaverInv, AloneOK, NEW s \in Savers, LaunchStep(s)
    PROVE  AloneOK'
<1> USE DEF InFlight, Ended, SaverInv
<1>0. s # current /\ phase \in [Savers -> Phases]
  BY CurrentIsUp DEF LaunchStep, LaunchBegins, StartChild, StartChildFails, AwaitFails,
                     LaunchReturns, Typed
<1>1. CASE LaunchBegins(s)
  <2>1. \A t \in Savers : ~Wanted(t)
    BY <1>1 DEF LaunchBegins, Wanted
  <2>2. /\ \A t \in Savers \ {current} : phase[t] \in {"none", "gone"}
        /\ \A t \in Savers \ {s} : phase'[t] = phase[t]
        /\ phase[s] = "none"
        /\ UNCHANGED <<current, cancelled, unclutter>>
    BY <1>0, <1>1 DEF LaunchBegins, launchVars
  <2>3. \A t \in Savers : Wanted(t)' => t = s
    BY <2>1, <2>2 DEF Wanted
  <2>4. \A t \in cancelled' : phase'[t] = phase[t] /\ t \in cancelled
    BY <2>2 DEF AloneOK, Typed
  <2> QED
    BY <2>2, <2>3, <2>4 DEF AloneOK
<1>2. CASE StartChild(s) \/ LaunchReturns(s)
  <2>1. /\ phase[s] \in InFlight
        /\ phase'[s] \in InFlight \cup {"up"}
        /\ \A t \in Savers \ {s} : phase'[t] = phase[t]
        /\ UNCHANGED <<current, cancelled>>
    BY <1>0, <1>2 DEF StartChild, LaunchReturns, launchVars
  <2>2. ~Unclutter => unclutter' = unclutter
    BY <1>2 DEF StartChild, LaunchReturns, launchVars
  <2>3. \A t \in Savers : Wanted(t)' => Wanted(t)
    BY <2>1 DEF Wanted
  <2>4. \A t \in cancelled' : phase'[t] \in InFlight \cup {"up"} /\ t # current'
    BY <2>1 DEF AloneOK, Typed
  <2>5. ASSUME NEW t \in Savers, Wanted(t)', NEW u \in Savers \ {t, current}
        PROVE  phase'[u] \in {"none", "gone"}
    <3>1. phase[u] \in {"none", "gone"}
      BY <2>3, <2>5 DEF AloneOK
    <3> QED
      BY <2>1, <3>1
  <2> QED
    BY <2>1, <2>2, <2>4, <2>5 DEF AloneOK
<1>3. CASE StartChildFails(s) \/ AwaitFails(s)
  <2>1. /\ phase[s] \in InFlight
        /\ phase' = [phase EXCEPT ![s] = "stopping"]
        /\ cancelled' = cancelled \ {s}
        /\ unclutter' = unclutter \ {s}
        /\ current' = current
    BY <1>3, Numbers DEF StartChildFails, AwaitFails, BeginStop
  <2>2. \A t \in Savers : ~Wanted(t)'
    BY <1>0, <2>1 DEF AloneOK, Wanted
  <2>3. \A t \in cancelled' : phase'[t] = phase[t] /\ t # current
    BY <1>0, <2>1 DEF AloneOK, Typed
  <2> QED
    BY <2>1, <2>2, <2>3 DEF AloneOK
<1> QED
  BY <1>1, <1>2, <1>3 DEF LaunchStep

LEMMA AloneScreen ==
    ASSUME SaverInv, AloneOK, NEW s \in Savers, CloseScreen(s) \/ ClearState(s)
    PROVE  AloneOK' /\ (phase'[s] = "clearing" => \A t \in Savers : ~Wanted(t))
<1> USE DEF InFlight, Ended, SaverInv
<1>1. /\ s # current
      /\ phase[s] \in {"stopping", "clearing"}
      /\ phase'[s] \in {"clearing", "gone"}
      /\ \A t \in Savers \ {s} : phase'[t] = phase[t]
      /\ UNCHANGED <<current, cancelled, unclutter>>
  BY CurrentIsUp DEF CloseScreen, ClearState, launchVars, Typed
<1>2. \A t \in Savers : ~Wanted(t)
  BY <1>1 DEF AloneOK, Wanted
<1>3. \A t \in Savers : ~Wanted(t)'
  BY <1>1, <1>2 DEF Wanted
<1>4. \A t \in cancelled' : phase'[t] \in InFlight \cup {"up"} /\ t # current'
  BY <1>1 DEF AloneOK, Typed
<1> QED
  BY <1>1, <1>2, <1>3, <1>4 DEF AloneOK

(* Once the event loop has adopted, discarded or stopped, no launch that   *)
(* is still wanted is left.                                                *)
LEMMA AloneLoop ==
    ASSUME SaverInv, AloneOK,
           StopSaver \/ \E s \in Savers : Adopt(s) \/ Discard(s)
    PROVE  AloneOK' /\ \A t \in Savers : ~Wanted(t)'
<1> USE DEF InFlight, Ended, SaverInv
<1>0. phase \in [Savers -> Phases]
  BY DEF Typed
<1>1. ASSUME NEW s \in Savers, Adopt(s)
      PROVE  AloneOK' /\ \A t \in Savers : ~Wanted(t)'
  <2>1. Wanted(s) /\ current' = s /\ cancelled' = cancelled /\ unclutter' \subseteq unclutter
    BY <1>1 DEF Adopt, BeginStop, Wanted
  <2>2. /\ current \in Savers => phase'[current] = "stopping"
        /\ \A t \in Savers \ {current} : phase'[t] = phase[t]
    BY <1>0, <1>1, CurrentIsUp DEF Adopt, BeginStop
  <2>3. \A t \in Savers \ {s, current} : phase[t] \in {"none", "gone"}
    BY <2>1 DEF AloneOK
  <2>4. \A t \in Savers : ~Wanted(t)'
    BY <2>1, <2>2, <2>3 DEF Wanted
  <2>5. cancelled = {}
    BY <2>1, <2>3 DEF AloneOK, Wanted, Typed
  <2> QED
    BY <2>1, <2>4, <2>5 DEF AloneOK
<1>2. ASSUME NEW s \in Savers, Discard(s)
      PROVE  AloneOK' /\ \A t \in Savers : ~Wanted(t)'
  <2>1. /\ phase' = [phase EXCEPT ![s] = "stopping"]
        /\ phase[s] = "up"
        /\ unclutter' = unclutter \ {s}
        /\ cancelled' = cancelled \ {s}
        /\ s \in cancelled
        /\ current' = current
    BY <1>2, Numbers DEF Discard, BeginStop
  <2>2. s # current
    BY <2>1 DEF AloneOK
  <2>3. \A t \in Savers : ~Wanted(t)'
    BY <1>0, <2>1, <2>2 DEF AloneOK, Wanted
  <2>4. \A t \in cancelled' : phase'[t] = phase[t]
    BY <1>0, <2>1 DEF Typed
  <2> QED
    BY <2>1, <2>3, <2>4 DEF AloneOK
<1>3. ASSUME StopSaver
      PROVE  AloneOK' /\ \A t \in Savers : ~Wanted(t)'
  <2>1. /\ current' = None
        /\ cancelled' = cancelled \cup Pending
        /\ unclutter' \subseteq unclutter
        /\ current \in Savers => phase'[current] = "stopping"
        /\ \A t \in Savers \ {current} : phase'[t] = phase[t]
    BY <1>0, <1>3, CurrentIsUp DEF StopSaver, BeginStop
  <2>2. \A t \in Savers : ~Wanted(t)'
    BY <2>1 DEF Wanted, Pending
  <2>3. \A t \in cancelled' : t \in Savers /\ t # current /\ phase[t] \in InFlight \cup {"up"}
    BY <2>1 DEF AloneOK, Pending, Typed
  <2>4. \A t \in cancelled' : phase'[t] \in InFlight \cup {"up"} /\ t # current'
    BY <2>1, <2>3, Numbers
  <2> QED
    BY <2>1, <2>2, <2>4 DEF AloneOK
<1> QED
  BY <1>1, <1>2, <1>3

LEMMA AloneStep ==
    ASSUME OneLaunch, SaverInv, AloneOK, [Next]_vars
    PROVE  AloneOK'
<1>1. ASSUME NEW s \in Savers, LaunchStep(s)
      PROVE  AloneOK'
  BY <1>1, AloneLaunch
<1>2. ASSUME NEW s \in Savers, CloseScreen(s) \/ ClearState(s)
      PROVE  AloneOK'
  BY <1>2, AloneScreen
<1>3. CASE StopSaver \/ \E s \in Savers : Adopt(s) \/ Discard(s)
  BY <1>3, AloneLoop
<1>4. ASSUME NEW q \in Pids, WatchStep(q) \/ ProcessStep(q) \/ Escalate(q)
      PROVE  AloneOK'
  BY <1>4, AloneKept DEF WatchStep, WatchWakes, Report, WatchReleased, ProcessStep, ModuleExits,
              Reaped, Escalate, ProcStep, launchVars
<1>5. CASE (\E i \in Slots : Replace(i)) \/ ReplaceStarts \/ ReplaceFails \/ ReplaceChecks \/ ReplaceWrites
  BY <1>5, AloneKept DEF Replace, ReplaceStarts, ReplaceFails, ReplaceChecks, ReplaceWrites, launchVars
<1>6. CASE StopRunning
  BY <1>6 DEF StopRunning, AloneOK, Wanted
<1>7. CASE UNCHANGED vars
  BY <1>7, AloneKept DEF vars
<1> QED
  BY <1>1, <1>2, <1>3, <1>4, <1>5, <1>6, <1>7 DEF Next, StopStep, LoopStep

-----------------------------------------------------------------------------
(* What the files name.                                                    *)

LEMMA FirstIsOwn ==
    ASSUME Typed, SlotsOK, NEW s \in Savers, children[s] # <<>>
    PROVE  First(children[s]) \in Pids /\ proc[First(children[s])].saver = s
<1>1. children[s] \in Seq(Pids)
  BY DEF Typed
<1>2. 1 \in DOMAIN children[s] /\ First(children[s]) = children[s][1] /\ First(children[s]) \in Pids
  BY <1>1, FirstTyped
<1> QED
  BY <1>2 DEF SlotsOK

(* The PID file names one saver at most.                                   *)
LEMMA NamedIsOwn ==
    ASSUME Typed, SlotsOK, NEW s \in Savers, Names(First(children[s]))
    PROVE  pidFile # <<>> /\ proc[Head(pidFile)].saver = s
<1>1. pidFile # <<>> /\ Head(pidFile) = First(children[s])
  BY DEF Names
<1>2. Head(pidFile) \in Pids
  BY <1>1, FirstTyped DEF Typed, First
<1>3. children[s] # <<>>
  BY <1>1, <1>2, Numbers DEF First
<1> QED
  BY <1>1, <1>3, FirstIsOwn

LEMMA FileIsOwn ==
    ASSUME Typed, SlotsOK, NEW s \in Savers, pidFile = children[s], pidFile # <<>>
    PROVE  proc[Head(pidFile)].saver = s
BY FirstIsOwn DEF First

(* Whatever the files name while there is a saver on screen, it is that    *)
(* saver, or a launch that came up.                                        *)
LEMMA NamesNoOther ==
    ASSUME FilesInv, ~cli, current # None, NEW s \in Savers, Names(First(children[s]))
    PROVE  phase[s] = "up"
<1> USE DEF FilesInv, SaverInv
<1>1. pidFile # <<>> /\ proc[Head(pidFile)].saver = s
  BY NamedIsOwn
<1>2. CASE \E x \in Savers : Arrived(x)
  BY <1>1, <1>2, FileIsOwn DEF FilesOK, Arrived
<1>3. CASE loop.at \in {"check", "write"} /\ Names(loop.first)
  <2>1. Head(pidFile) = loop.first /\ proc[loop.first].saver = current
    BY <1>3 DEF Names, LoopOK, Replacing
  <2> QED
    BY <1>1, <2>1, CurrentIsUp
<1>4. CASE pidFile = children[current]
  BY <1>1, <1>4, CurrentIsUp, FileIsOwn
<1> QED
  BY <1>2, <1>3, <1>4 DEF FilesOK

(* A step of the files' neighbours.                                        *)
LEMMA FilesKept ==
    ASSUME Typed, FilesOK, cli' = cli,
           UNCHANGED <<current, pidFile, uncFile>>, unclutter' \subseteq unclutter,
           current # None => children'[current] = children[current] /\ current \in Savers,
           \A s \in Savers : Arrived(s)' <=> Arrived(s),
           \A s \in Savers : Arrived(s) => children'[s] = children[s],
           \A s \in Savers : phase'[s] = "clearing" => phase[s] = "clearing" \/ cli \/ current = None,
           loop'.at \in {"check", "write"} <=> loop.at \in {"check", "write"},
           loop'.at = "write" => loop.at = "write",
           loop'.at \in {"check", "write"} => loop'.first = loop.first
    PROVE  FilesOK'
BY DEF FilesOK, UnclutterNamed, Names

LEMMA FilesLaunch ==
    ASSUME OneLaunch, WritesApart, FilesInv, NEW s \in Savers, LaunchStep(s)
    PROVE  FilesOK'
<1> USE DEF InFlight, Ended, FilesInv, SaverInv
<1>0. s # current /\ phase \in [Savers -> Phases]
  BY CurrentIsUp DEF LaunchStep, LaunchBegins, StartChild, StartChildFails, AwaitFails,
                     LaunchReturns, Typed
<1>1. CASE LaunchBegins(s) \/ StartChild(s)
  <2>1. /\ phase[s] \notin {"up", "clearing"}
        /\ phase'[s] \notin {"up", "clearing"}
        /\ \A t \in Savers \ {s} : phase'[t] = phase[t] /\ children'[t] = children[t]
        /\ UNCHANGED <<loop, unclutter, cancelled, current, cli, pidFile, uncFile>>
    BY <1>0, <1>1 DEF LaunchBegins, StartChild, launchVars, fileVars, Typed
  <2>2. \A t \in Savers : Arrived(t)' <=> Arrived(t)
    BY <2>1 DEF Arrived, Wanted
  <2> QED
    BY <1>0, <2>1, <2>2, CurrentIsUp, FilesKept DEF Arrived
<1>2. CASE StartChildFails(s) \/ AwaitFails(s)
  <2>1. /\ phase[s] \in InFlight
        /\ phase' = [phase EXCEPT ![s] = "stopping"]
        /\ unclutter' = unclutter \ {s}
        /\ cancelled' = cancelled \ {s}
        /\ UNCHANGED <<children, loop, current, cli, pidFile, uncFile>>
    BY <1>2, Numbers DEF StartChildFails, AwaitFails, BeginStop, fileVars
  <2>2. \A t \in Savers : Arrived(t)' <=> Arrived(t)
    BY <1>0, <2>1 DEF Arrived, Wanted
  <2> QED
    BY <1>0, <2>1, <2>2, CurrentIsUp, FilesKept
<1>3. CASE LaunchReturns(s)
  <2>1. /\ phase[s] = "grace" /\ phase' = [phase EXCEPT ![s] = "up"]
        /\ pidFile' = children[s] /\ children' = children
        /\ UNCHANGED <<loop, cancelled, current, cli>>
        /\ loop.at # "write"
    BY <1>3 DEF LaunchReturns, WriteState
  <2>2. s \in unclutter' => uncFile' = s
    BY <1>3 DEF LaunchReturns, WriteState, AloneOK
  <2>3. \A t \in Savers \ {s} : ~Wanted(t)
    BY <1>0, <2>1 DEF AloneOK
  <2>4. \A t \in Savers \ {s} : ~Arrived(t)'
    BY <1>0, <2>1, <2>3 DEF Arrived, Wanted
  <2>5. current # None => Arrived(s)'
    BY <1>0, <2>1 DEF AloneOK, Arrived, Wanted
  <2>6. ~cli' => (current' # None => \A t \in Savers : phase'[t] # "clearing")
    BY <1>0, <2>1 DEF FilesOK
  <2> QED
    BY <2>1, <2>2, <2>4, <2>5, <2>6 DEF FilesOK, UnclutterNamed
<1> QED
  BY <1>1, <1>2, <1>3 DEF LaunchStep

LEMMA FilesScreen ==
    ASSUME FilesInv, NEW s \in Savers, CloseScreen(s) \/ ClearState(s)
    PROVE  FilesOK'
<1> USE DEF InFlight, Ended, FilesInv, SaverInv
<1>1. /\ s # current
      /\ phase[s] \in {"stopping", "clearing"}
      /\ phase'[s] \in {"clearing", "gone"}
      /\ \A t \in Savers \ {s} : phase'[t] = phase[t]
      /\ UNCHANGED <<current, cancelled, unclutter, children, cli>>
  BY CurrentIsUp DEF CloseScreen, ClearState, launchVars, Typed
<1>2. \A t \in Savers : ~Arrived(t) /\ ~Arrived(t)'
  BY <1>1 DEF AloneOK, Arrived, Wanted
<1>3. CASE current = None
  BY <1>1, <1>2, <1>3 DEF FilesOK
<1>4. CASE current # None /\ ~cli
  <2>1. CloseScreen(s)
    BY <1>4 DEF ClearState, FilesOK
  <2>2. ~Names(First(children[s]))
    BY <1>1, <1>4, NamesNoOther
  <2>3. phase'[s] = "gone" /\ UNCHANGED <<pidFile, uncFile>>
    BY <2>1, <2>2 DEF CloseScreen, fileVars, Typed
  <2>4. loop' = loop \/ (loop = InStop(s) /\ loop' = Idle)
    BY <2>1 DEF CloseScreen, LoopAfter
  <2>5. loop'.at = loop.at \/ (loop.at = "stop" /\ loop'.at = "free")
    <3>1. InStop(s).at = "stop" /\ Idle.at = "free"
      BY Numbers DEF InStop, Idle
    <3> QED
      BY <2>4, <3>1
  <2>6. loop'.at \in {"check", "write"} => loop' = loop
    BY <2>4 DEF Idle
  <2> QED
    BY <1>1, <1>2, <1>4, <2>3, <2>5, <2>6, CurrentIsUp, FilesKept
<1>5. CASE cli
  BY <1>1, <1>5 DEF FilesOK
<1> QED
  BY <1>3, <1>4, <1>5

LEMMA FilesLoop ==
    ASSUME FilesInv, StopSaver \/ \E s \in Savers : Adopt(s) \/ Discard(s)
    PROVE  FilesOK'
<1> USE DEF InFlight, Ended, FilesInv, SaverInv
<1>1. \A t \in Savers : ~Arrived(t)'
  BY AloneLoop DEF Arrived
<1>2. ASSUME NEW s \in Savers, Adopt(s)
      PROVE  FilesOK'
  <2>1. /\ Wanted(s) /\ Arrived(s) /\ current' = s
        /\ UNCHANGED <<pidFile, uncFile, cli, children>>
        /\ unclutter' \subseteq unclutter
        /\ loop' = InStop(current)
    BY <1>2 DEF Adopt, BeginStop, Wanted, Arrived, fileVars
  <2>2. \A t \in Savers : phase'[t] # "clearing"
    <3>1. \A t \in Savers \ {s, current} : phase[t] \in {"none", "gone"}
      BY <2>1 DEF AloneOK
    <3>2. \A t \in Savers : phase'[t] = phase[t] \/ phase'[t] = "stopping"
      BY <1>2 DEF Adopt, BeginStop, Typed
    <3> QED
      BY <2>1, <3>1, <3>2, CurrentIsUp DEF Arrived
  <2>3. loop'.at \notin {"check", "write"}
    BY <2>1 DEF InStop, Idle
  <2>4. ~cli => pidFile = children[s] /\ UnclutterNamed(s)
    BY <2>1 DEF FilesOK
  <2> QED
    BY <1>1, <2>1, <2>2, <2>3, <2>4 DEF FilesOK, UnclutterNamed
<1>3. ASSUME NEW s \in Savers, Discard(s)
      PROVE  FilesOK'
  <2>1. current' = None
    BY <1>3 DEF Discard, AloneOK
  <2> QED
    BY <1>1, <2>1 DEF FilesOK
<1>4. CASE StopSaver
  BY <1>1, <1>4 DEF StopSaver, FilesOK
<1> QED
  BY <1>2, <1>3, <1>4

LEMMA FilesReplace ==
    ASSUME FilesInv,
           (\E i \in Slots : Replace(i)) \/ ReplaceStarts \/ ReplaceFails \/ ReplaceChecks \/ ReplaceWrites
    PROVE  FilesOK'
<1> USE DEF FilesInv, SaverInv
<1>0. UNCHANGED <<phase, unclutter, cancelled, current, cli>>
  BY DEF Replace, ReplaceStarts, ReplaceFails, ReplaceChecks, ReplaceWrites, launchVars
<1>1. \A t \in Savers : Arrived(t)' <=> Arrived(t)
  BY <1>0 DEF Arrived, Wanted
<1>2. CASE (\E i \in Slots : Replace(i)) \/ ReplaceFails
  <2>1. /\ loop.at \notin {"check", "write"}
        /\ loop'.at \notin {"check", "write"}
        /\ UNCHANGED <<pidFile, uncFile, children>>
    <3>1. ASSUME NEW i \in Slots, Replace(i)
          PROVE  /\ loop.at \notin {"check", "write"}
                 /\ loop'.at \notin {"check", "write"}
                 /\ UNCHANGED <<pidFile, uncFile, children>>
      BY <3>1 DEF Replace, fileVars
    <3>2. CASE ReplaceFails
      BY <3>2 DEF ReplaceFails, OutgoingStopped, Idle, fileVars
    <3> QED
      BY <1>2, <3>1, <3>2
  <2> QED
    BY <1>0, <1>1, <2>1, CurrentIsUp, FilesKept
<1>3. CASE ReplaceStarts
  <2>1. /\ loop.at = "old" /\ loop'.at = "check" /\ loop'.first = loop.first
        /\ UNCHANGED <<pidFile, uncFile>>
        /\ loop.first = First(children[current])
        /\ current \in Savers
    BY <1>3, ReplaceStartsIs
    DEF ReplaceStarts, OutgoingStopped, FirstBefore, LoopOK, Replacing, Typed, Loops, fileVars
  <2>2. \A t \in Savers \ {current} : children'[t] = children[t]
    BY <1>3 DEF ReplaceStarts, WithChild, Typed
  <2>3. \A t \in Savers : Arrived(t) => t # current
    BY DEF Arrived, Wanted
  <2>4. pidFile = children[current] => Names(loop.first)
    <3>1. children[current] # <<>>
      BY <1>3, ReplaceStartsIs, EmptySeq
    <3> QED
      BY <2>1, <3>1 DEF Names, First
  <2> QED
    BY <1>0, <1>1, <2>1, <2>2, <2>3, <2>4 DEF FilesOK, UnclutterNamed, Names
<1>4. CASE ReplaceChecks
  <2>1. UNCHANGED <<pidFile, uncFile, children>> /\ loop.at = "check"
    BY <1>4 DEF ReplaceChecks, fileVars
  <2>2. CASE Names(loop.first)
    <3>1. loop'.at = "write" /\ loop'.first = loop.first
      BY <1>4, <2>2 DEF ReplaceChecks, Typed, Loops
    <3>2. ASSUME ~cli, NEW t \in Savers, Arrived(t)
          PROVE  FALSE
      <4>1. pidFile = children[t] /\ pidFile # <<>> /\ Head(pidFile) = loop.first
        BY <2>2, <3>2 DEF FilesOK, Names
      <4>2. proc[loop.first].saver = t
        BY <4>1, FileIsOwn
      <4>3. proc[loop.first].saver = current
        BY <2>1 DEF LoopOK, Replacing
      <4> QED
        BY <3>2, <4>2, <4>3 DEF Arrived, Wanted
    <3> QED
      BY <1>0, <1>1, <2>1, <2>2, <3>1, <3>2 DEF FilesOK, UnclutterNamed, Names
  <2>3. CASE ~Names(loop.first)
    <3>1. loop'.at = "free"
      BY <1>4, <2>3 DEF ReplaceChecks, Idle
    <3> QED
      BY <1>0, <1>1, <2>1, <2>3, <3>1 DEF FilesOK, UnclutterNamed, Names
  <2> QED
    BY <2>2, <2>3
<1>5. CASE ReplaceWrites
  <2>1. /\ loop.at = "write" /\ loop'.at = "free"
        /\ pidFile' = children[current] /\ children' = children
    BY <1>5 DEF ReplaceWrites, WriteState, Idle
  <2>2. current \in unclutter => uncFile' = current
    BY <1>5 DEF ReplaceWrites, WriteState, AloneOK
  <2> QED
    BY <1>0, <1>1, <2>1, <2>2 DEF FilesOK, UnclutterNamed
<1> QED
  BY <1>2, <1>3, <1>4, <1>5

LEMMA FilesStep ==
    ASSUME OneLaunch, WritesApart, FilesInv, [Next]_vars
    PROVE  FilesOK'
<1> USE DEF FilesInv, SaverInv
<1>1. ASSUME NEW s \in Savers, LaunchStep(s)
      PROVE  FilesOK'
  BY <1>1, FilesLaunch
<1>2. ASSUME NEW s \in Savers, CloseScreen(s) \/ ClearState(s)
      PROVE  FilesOK'
  BY <1>2, FilesScreen
<1>3. CASE StopSaver \/ \E s \in Savers : Adopt(s) \/ Discard(s)
  BY <1>3, FilesLoop
<1>4. CASE UNCHANGED <<phase, children, loop, launchVars, fileVars>>
  <2>1. \A t \in Savers : Arrived(t)' <=> Arrived(t)
    BY <1>4 DEF Arrived, Wanted, launchVars
  <2> QED
    BY <1>4, <2>1, CurrentIsUp, FilesKept DEF launchVars, fileVars
<1>5. ASSUME NEW q \in Pids, WatchStep(q) \/ ProcessStep(q) \/ Escalate(q)
      PROVE  UNCHANGED <<phase, children, loop, launchVars, fileVars>>
  BY <1>5 DEF WatchStep, WatchWakes, Report, WatchReleased, ProcessStep, ModuleExits,
              Reaped, Escalate, ProcStep
<1>6. CASE (\E i \in Slots : Replace(i)) \/ ReplaceStarts \/ ReplaceFails \/ ReplaceChecks \/ ReplaceWrites
  BY <1>6, FilesReplace
<1>7. CASE StopRunning
  BY <1>7 DEF StopRunning, FilesOK
<1>8. CASE UNCHANGED vars
  BY <1>4, <1>8 DEF vars, launchVars, fileVars
<1> QED
  BY <1>1, <1>2, <1>3, <1>4, <1>5, <1>6, <1>7, <1>8 DEF Next, StopStep, LoopStep

LEMMA InitFilesInv == Init => FilesInv
<1> SUFFICES ASSUME Init PROVE FilesInv
  OBVIOUS
<1>1. AloneOK /\ FilesOK
  BY DEF Init, AloneOK, FilesOK, Wanted, Arrived, InFlight
<1> QED
  BY <1>1, InitSaverInv DEF FilesInv

(* With one launch at a time and none writing its state while Replace does, *)
(* the runtime files name the saver on screen between operations, all its  *)
(* processes and its unclutter (StateNamesSaver): only a launch that came  *)
(* up and what is on screen are ever named, and clearStateFor finds itself *)
(* named only with nothing on screen.                                      *)
THEOREM FilesNameSaver ==
    ASSUME OneLaunch, WritesApart
    PROVE  Spec => []StateNamesSaver
<1>1. FilesInv /\ [Next]_vars => FilesInv'
  BY NextSaverInv, AloneStep, FilesStep DEF FilesInv
<1>2. FilesInv => StateNamesSaver
  <2> SUFFICES ASSUME FilesInv, current # None, loop.at = "free", Pending = {}, ~cli
               PROVE  pidFile = children[current] /\ (current \in unclutter => uncFile = current)
    BY DEF StateNamesSaver
  <2>1. \A t \in Savers : ~Arrived(t)
    BY DEF Pending, Arrived, Wanted
  <2> QED
    BY <2>1 DEF FilesInv, FilesOK, UnclutterNamed
<1> QED
  BY <1>1, <1>2, InitFilesInv, PTL DEF Spec
=============================================================================
