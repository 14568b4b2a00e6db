---------------------------- MODULE DaemonPromise ---------------------------
(***************************************************************************)
(* The daemon implements ScreensaverPolicy: every step of it, for every    *)
(* configuration and choice of faults, is a step of the policy or none.    *)
(* Then what the policy does not speak of: the watches that make the next  *)
(* stage and the user's return come, the swaps, and the lock shield.       *)
(***************************************************************************)
EXTENDS DaemonProofs

(***************************************************************************)
(* Nothing has begun while Run is still starting, and GNOME's idle-delay   *)
(* is what the daemon remembers having made it.                            *)
(***************************************************************************)
PromiseInv ==
    /\ SafeInv
    /\ run = "starting" => stage = stageIdle /\ ~blanked
    /\ BlankIsRemembered

Ended == {"stopped", "failed", "panicked"}

(* What a step may do to the variables the policy speaks of. *)
Stutters == UNCHANGED <<run, stage, delayVars>> /\ (current' = None <=> current = None)
Shows == UNCHANGED <<run, stage, delayVars>> /\ run = "running" /\ stage = stageSaver
Starts == Connected
Advances(s) ==
    /\ run = "running" /\ run' = run /\ stage < s /\ stage' = s
    /\ current' = None
    /\ \/ UNCHANGED delayVars
       \/ s = stageBlank /\ idleDelay' = BlankIdleDelay /\ blanked' = TRUE
Returns ==
    /\ run = "running" /\ run' = run /\ stage' = stageIdle
    /\ current' = None /\ RestoreBlanked
Ends ==
    /\ run' \in Ended /\ current' = None
    /\ idleDelay' \in {idleDelay, UserIdleDelay}

View ==
    \/ Stutters \/ Shows \/ Starts \/ Returns \/ Ends
    \/ \E s \in 1..3 : Advances(s)

LEMMA TeardownEnds ==
    ASSUME NEW outcome \in Ended, Teardown(outcome)
    PROVE  Ends
BY DEF Teardown, Ends, Outcomes

(* Every step has one of these views. *)
LEMMA EveryStepHasAView ==
    ASSUME PromiseInv, [Next]_vars
    PROVE  View
<1>1. CASE Start
  <2>1. CASE Connected
    BY <2>1 DEF View, Starts
  <2>2. CASE NotConnected
    <3>1. run' = "failed" /\ idleDelay' = idleDelay /\ current' = current /\ run = "starting"
      BY <2>2 DEF NotConnected, saverVars, delayVars
    <3>2. current = None
      BY <3>1 DEF PromiseInv, SafeInv, ScreenOK
    <3> QED
      BY <3>1, <3>2 DEF View, Ends, Ended
  <2> QED
    BY <1>1, <2>1, <2>2 DEF Start
<1>2. CASE OnUnknownWatch \/ OnPassedStage \/ OnCycle \/ OnUnwantedLaunch
           \/ OnLockIgnored \/ LockWatcherLost \/ OnCopyExit \/ Environment
           \/ UNCHANGED vars
  <2>1. Stutters
    BY <1>2 DEF OnUnknownWatch, OnPassedStage, OnCycle, OnUnwantedLaunch, OnLockIgnored,
                LockWatcherLost, OnCopyExit, Environment, LaunchSettles, LaunchReturns,
                ProcessDies, ModuleDies, MutterFires, Fire, Tick, Activity, SessionLocks,
                UserUnlocks, UserActivity, vars, loopVars, saverVars, Stutters
  <2> QED
    BY <2>1 DEF View
<1>3. CASE OnSaver
  <2>1. /\ run = "running" /\ run' = run /\ ~Reached(stageSaver) /\ stage' = stageSaver
        /\ current' = current /\ UNCHANGED delayVars
    BY <1>3 DEF OnSaver, Signalled, Running, saverVars
  <2>2. stage < 1 /\ current = None
    BY <2>1 DEF Reached, PromiseInv, SafeInv, TypeOK, LoopTypeOK, ScreenOK,
                stageIdle, stageSaver, stageBlank
  <2>3. Advances(1)
    BY <2>1, <2>2 DEF Advances, stageSaver
  <2> QED
    BY <2>3 DEF View
<1>4. CASE OnLock \/ OnBlank
  <2>1. \E s \in {stageLock, stageBlank} :
            /\ run = "running" /\ run' = run /\ ~Reached(s) /\ stage' = s
            /\ current' = None
            /\ \/ UNCHANGED delayVars
               \/ s = stageBlank /\ idleDelay' = BlankIdleDelay /\ blanked' = TRUE
    BY <1>4 DEF OnLock, OnBlank, Signalled, Running, StopSaver
  <2>2. \E s \in {stageLock, stageBlank} : Advances(s)
    BY <2>1 DEF Advances, Reached, PromiseInv, SafeInv, TypeOK, LoopTypeOK,
                stageIdle, stageLock, stageBlank
  <2> QED
    BY <2>2 DEF View, stageLock, stageBlank
<1>5. CASE OnActive \/ Reload
  <2>1. CASE UNCHANGED vars
    BY <2>1 DEF View, Stutters, vars, loopVars, saverVars
  <2>2. CASE run = "running" /\ Reset /\ UNCHANGED run
    BY <2>2 DEF View, Returns, Reset, StopSaver
  <2> QED
    BY <1>5, <2>1, <2>2 DEF OnActive, Reload, Signalled, Running
<1>6. CASE OnFailedLaunch \/ OnLaunchUp \/ OnModuleExit \/ OnLockStops
  <2>1. UNCHANGED <<run, stage, delayVars>> /\ run = "running"
    BY <1>6 DEF OnFailedLaunch, OnLaunchUp, OnModuleExit, OnLockStops, Landed, LockChanged,
                Running, loopVars
  <2>2. CASE stage = stageSaver
    BY <2>1, <2>2 DEF View, Shows
  <2>3. CASE stage # stageSaver
    <3>1. current = None
      BY <2>3 DEF PromiseInv, SafeInv, ScreenOK
    <3>2. PromiseInv /\ SafeInv'
      BY SafeStep DEF PromiseInv
    <3>3. current' = None
      BY <2>1, <2>3, <3>2 DEF SafeInv, ScreenOK
    <3> QED
      BY <2>1, <3>1, <3>3 DEF View, Stutters
  <2> QED
    BY <2>2, <2>3
<1>7. CASE OnCopyExitPanic \/ Terminate \/ LoseMutter \/ Die
  <2>1. \E outcome \in Ended : Teardown(outcome)
    BY <1>7 DEF OnCopyExitPanic, Terminate, LoseMutter, Die, Ended
  <2> QED
    BY <2>1, TeardownEnds DEF View
<1> QED
  BY <1>1, <1>2, <1>3, <1>4, <1>5, <1>6, <1>7
  DEF Next, Loop, HandleWatch, HandleLaunch, HandleExit, HandleLockChange

LEMMA PromiseInit ==
    Init => PromiseInv
BY SafeInit DEF Init, PromiseInv, BlankIsRemembered

LEMMA PromiseStep ==
    PromiseInv /\ [Next]_vars => PromiseInv'
<1> SUFFICES ASSUME PromiseInv, [Next]_vars PROVE PromiseInv'
  OBVIOUS
<1>1. SafeInv'
  BY SafeStep DEF PromiseInv
<1>2. CASE Stutters
  BY <1>1, <1>2 DEF Stutters, delayVars, PromiseInv, BlankIsRemembered
<1>3. CASE Shows
  BY <1>1, <1>3 DEF Shows, delayVars, PromiseInv, BlankIsRemembered
<1>4. CASE Starts
  <2>1. run = "starting" /\ run' = "running" /\ idleDelay' = 0 /\ blanked' = blanked
    BY <1>4 DEF Starts, Connected
  <2> QED
    BY <1>1, <2>1 DEF PromiseInv, BlankIsRemembered
<1>5. ASSUME NEW s \in 1..3, Advances(s)
      PROVE  PromiseInv'
  BY <1>1, <1>5, DelaysAssumption DEF Advances, delayVars, PromiseInv, BlankIsRemembered
<1>6. CASE Returns
  BY <1>1, <1>6 DEF Returns, RestoreBlanked, delayVars, PromiseInv, BlankIsRemembered
<1>7. CASE Ends
  BY <1>1, <1>7 DEF Ends, Ended, PromiseInv, BlankIsRemembered
<1> QED
  BY <1>2, <1>3, <1>4, <1>5, <1>6, <1>7, EveryStepHasAView DEF View

LEMMA PromiseAlways == Spec => []PromiseInv
<1> QED
  BY PromiseInit, PromiseStep, PTL DEF Spec

(* GNOME blanks the display on its own only when the daemon told it to, and *)
(* the daemon remembers so, which is what makes the next reset undo it,     *)
(* also after one that failed to (onBlank, reset).                          *)
THEOREM BlankingRemembered == Spec => []BlankIsRemembered
<1>1. PromiseInv => BlankIsRemembered
  BY DEF PromiseInv
<1> QED
  BY <1>1, PromiseAlways, PTL

(***************************************************************************)
(* The refinement.                                                         *)
(***************************************************************************)

(* The phases in order. *)
LEMMA PhaseOrder ==
    /\ Promise!Phases = PhaseNames
    /\ Promise!On = {"idle", "saver", "lock", "blank"}
    /\ Promise!Rank("idle") = 1 /\ Promise!Rank("saver") = 2
    /\ Promise!Rank("lock") = 3 /\ Promise!Rank("blank") = 4
<1>1. /\ Promise!Phases[1] = "idle" /\ Promise!Phases[2] = "saver"
      /\ Promise!Phases[3] = "lock" /\ Promise!Phases[4] = "blank"
  BY DEF Promise!Phases
<1>2. \A k \in 1..4 : k \in {1, 2, 3, 4}
  OBVIOUS
<1>3. Promise!Phases = PhaseNames
  BY DEF Promise!Phases, PhaseNames
<1>4. Promise!On = {"idle", "saver", "lock", "blank"}
  <2>1. \A k \in 1..4 : k = 1 \/ k = 2 \/ k = 3 \/ k = 4
    OBVIOUS
  <2> QED
    BY <1>1, <2>1 DEF Promise!On
<1>5. \A i \in 1..4 : Promise!Rank(Promise!Phases[i]) = i
  BY <1>1, <1>2 DEF Promise!Rank
<1> QED
  BY <1>1, <1>3, <1>4, <1>5

LEMMA PhaseOfStage ==
    ASSUME PromiseInv
    PROVE  /\ run = "starting" <=> Phase = "off"
           /\ run = "running" <=> Phase \in Promise!On
           /\ run = "running" => Promise!Rank(Phase) = stage + 1 /\ Phase = PhaseNames[stage + 1]
           /\ run = "running" => (stage = stageSaver <=> Phase = "saver")
           /\ run \in Ended => Phase = "over"
<1>1. stage \in 0..3 /\ run \in {"starting", "running"} \cup Ended
  BY DEF PromiseInv, SafeInv, TypeOK, LoopTypeOK, stageIdle, stageBlank, Ended
<1>2. /\ PhaseNames[1] = "idle" /\ PhaseNames[2] = "saver"
      /\ PhaseNames[3] = "lock" /\ PhaseNames[4] = "blank"
  BY DEF PhaseNames
<1>3. stage = 0 \/ stage = 1 \/ stage = 2 \/ stage = 3
  BY <1>1
<1> QED
  BY <1>1, <1>2, <1>3, PhaseOrder DEF Phase, Ended, stageSaver

LEMMA StepRefines ==
    PromiseInv /\ [Next]_vars => [Promise!PolicyNext]_(Promise!policyVars)
<1> SUFFICES ASSUME PromiseInv, [Next]_vars
             PROVE  Promise!PolicyNext \/ UNCHANGED Promise!policyVars
  OBVIOUS
<1>1. PromiseInv'
  BY PromiseStep
<1>2. CASE Stutters
  BY <1>2 DEF Stutters, Phase, delayVars, Promise!policyVars
<1>3. CASE Shows
  <2>1. Phase = "saver" /\ Phase' = Phase /\ idleDelay' = idleDelay
    BY <1>3, PhaseOfStage DEF Shows, Phase, delayVars
  <2>2. CASE current = None /\ current' # None
    BY <2>1, <2>2 DEF Promise!PolicyNext, Promise!Show
  <2>3. CASE current # None /\ current' = None
    BY <2>1, <2>3 DEF Promise!PolicyNext, Promise!Hide
  <2>4. CASE (current = None) <=> (current' = None)
    BY <2>1, <2>4 DEF Promise!policyVars
  <2> QED
    BY <2>2, <2>3, <2>4
<1>4. CASE Starts
  <2>1. /\ run = "starting" /\ run' = "running" /\ idleDelay' = 0
        /\ stage' = stage /\ current' = current
    BY <1>4 DEF Starts, Connected, saverVars
  <2>2. Phase = "off" /\ Phase' = "idle"
    BY <2>1 DEF Phase, PhaseNames, PromiseInv, stageIdle
  <2> QED
    BY <2>1, <2>2 DEF Promise!PolicyNext, Promise!TakeOver
<1>5. ASSUME NEW s \in 1..3, Advances(s)
      PROVE  Promise!PolicyNext
  <2>1. /\ run = "running" /\ run' = "running" /\ stage < s /\ stage' = s
        /\ current' = None
        /\ idleDelay' \in {idleDelay} \cup (IF s = 3 THEN {BlankIdleDelay} ELSE {})
    BY <1>5 DEF Advances, delayVars, stageBlank
  <2>2. Phase \in Promise!On /\ Promise!Rank(Phase) = stage + 1
    BY <2>1, PhaseOfStage
  <2>3. Phase' = Promise!Phases[s + 1]
    BY <2>1, PhaseOrder DEF Phase
  <2>4. Promise!Rank(Promise!Phases[s + 1]) = s + 1
        /\ (Promise!Phases[s + 1] = "blank" <=> s = 3)
    <3>1. s = 1 \/ s = 2 \/ s = 3
      OBVIOUS
    <3> QED
      BY <3>1, PhaseOrder DEF PhaseNames
  <2>5. stage \in 0..3 /\ Promise!Rank(Phase) < Promise!Rank(Promise!Phases[s + 1])
    BY <2>1, <2>2, <2>4 DEF PromiseInv, SafeInv, TypeOK, LoopTypeOK, stageIdle, stageBlank
  <2>6. Promise!Advance(Promise!Phases[s + 1])
    BY <2>1, <2>2, <2>3, <2>4, <2>5 DEF Promise!Advance
  <2> QED
    BY <2>6 DEF Promise!PolicyNext
<1>6. CASE Returns
  <2>1. /\ run = "running" /\ run' = "running" /\ stage' = 0 /\ current' = None
        /\ idleDelay' \in {0, idleDelay}
    BY <1>6 DEF Returns, RestoreBlanked, delayVars, stageIdle
  <2>2. Phase \in Promise!On
    BY <2>1, PhaseOfStage
  <2>3. Phase' = "idle"
    BY <2>1 DEF Phase, PhaseNames
  <2> QED
    BY <2>1, <2>2, <2>3 DEF Promise!PolicyNext, Promise!Return
<1>7. CASE Ends
  <2>1. Phase' = "over"
    BY <1>7 DEF Ends, Ended, Phase
  <2> QED
    BY <1>7, <2>1 DEF Ends, Promise!PolicyNext, Promise!End
<1> QED
  BY <1>2, <1>3, <1>4, <1>5, <1>6, <1>7, EveryStepHasAView DEF View

LEMMA InitRefines ==
    Init => Promise!PolicyInit
BY DEF Init, Phase, Promise!PolicyInit

(* The daemon implements ScreensaverPolicy: the phases only run forward     *)
(* until someone is back, a module is shown in the saver phase alone, and   *)
(* GNOME gets a delay of its own only for the blank phase (daemon.go:1-29). *)
THEOREM DaemonKeepsPromise == Spec => KeepsPromise
<1>1. Spec => [][Promise!PolicyNext]_(Promise!policyVars)
  BY StepRefines, PromiseAlways, PTL DEF Spec
<1> QED
  BY <1>1, InitRefines, PTL DEF Spec, KeepsPromise, Promise!Policy

(***************************************************************************)
(* The watches.  The daemon knows only watches that Mutter holds, and one  *)
(* it registers is new: all that Mutter holds are of this generation or an *)
(* earlier one, also those that could not be removed.  A watch that is     *)
(* known is pending until the stage it announces has begun.                *)
(***************************************************************************)
HeldOK ==
    /\ watches \subseteq registered
    /\ \A w \in registered : w.gen <= gen
    /\ \A w \in registered : w.kind = "active" /\ w.gen = gen => activeArmed

ArmedOK ==
    /\ activeArmed => \E w \in watches : w.kind = "active"
    /\ \A w \in watches : w.kind = "active" => activeArmed
    /\ stage = stageIdle => ~activeArmed

Passed(kind) ==
    \/ kind = "cycle"
    \/ kind = "saver" /\ stage >= stageSaver
    \/ kind = "lock" /\ stage >= stageLock
    \/ kind = "blank" /\ stage = stageBlank

PendingOK == \A w \in watches : Waiting(w) \/ Passed(w.kind)

IdleKinds == {"saver", "lock", "blank"}

StagesOK ==
    Running => \E g \in 0..gen : {w \in watches : w.kind \in IdleKinds} = IdleWatches(cfg, g)

Armed == HeldOK /\ ArmedOK /\ PendingOK /\ StagesOK

ArmInv == PromiseInv /\ Armed

(* A step that lets swaps go, adds a swap or the user-active watch, and     *)
(* takes no pending watch away but for its stage.                          *)
LEMMA ArmedMore ==
    ASSUME ArmInv, TypeOK', NEW added,
           \A w \in added : /\ w.gen = gen /\ w.kind \in {"cycle", "active"}
                            /\ w.kind = "active" => ~activeArmed /\ stage' # stageIdle /\ Waiting(w)',
           added \subseteq watches', watches' \subseteq watches \cup added,
           \A w \in watches : w.kind # "cycle" => w \in watches',
           watches' \subseteq registered', registered' \subseteq registered \cup added,
           activeArmed => activeArmed',
           activeArmed' => activeArmed \/ \E w \in added : w.kind = "active",
           \A w \in added : w.kind = "active" => activeArmed',
           gen' >= gen, stage' >= stage, cfg' = cfg, Running' => Running,
           \A w \in watches : Waiting(w) /\ w.kind # "cycle" => Waiting(w)' \/ Passed(w.kind)'
    PROVE  Armed'
<1> USE DEF ArmInv, Armed
<1>1. /\ gen \in Nat /\ gen' \in Nat
      /\ stage \in 0..3 /\ stage' \in 0..3
      /\ watches \subseteq Watches /\ registered \subseteq Watches
      /\ activeArmed \in BOOLEAN /\ activeArmed' \in BOOLEAN
  BY DEF PromiseInv, SafeInv, TypeOK, LoopTypeOK, WatchTypeOK, stageIdle, stageBlank
<1>2. \A w \in registered : w.gen \in Nat
  BY <1>1 DEF Watches
<1>3. HeldOK'
  <2>1. ASSUME NEW w \in registered'
        PROVE  /\ w.gen <= gen'
               /\ w.kind = "active" /\ w.gen = gen' => activeArmed'
    <3>1. CASE w \in added
      BY <1>1, <3>1
    <3>2. CASE w \in registered
      BY <1>1, <1>2, <3>2 DEF HeldOK
    <3> QED
      BY <3>1, <3>2
  <2> QED
    BY <2>1 DEF HeldOK
<1>4. ArmedOK'
  <2>1. ASSUME NEW w \in watches', w.kind = "active"
        PROVE  activeArmed'
    BY <2>1 DEF ArmedOK
  <2>2. ASSUME activeArmed'
        PROVE  \E w \in watches' : w.kind = "active"
    BY <2>2 DEF ArmedOK
  <2>3. stage' = stageIdle => ~activeArmed'
    BY <1>1 DEF ArmedOK, stageIdle
  <2> QED
    BY <2>1, <2>2, <2>3 DEF ArmedOK
<1>5. PendingOK'
  <2>1. ASSUME NEW w \in watches'
        PROVE  Waiting(w)' \/ Passed(w.kind)'
    <3>1. CASE w \in added
      BY <3>1 DEF Passed
    <3>2. CASE w \in watches
      BY <1>1, <3>2 DEF PendingOK, Passed, stageSaver, stageLock, stageBlank
    <3> QED
      BY <3>1, <3>2
  <2> QED
    BY <2>1 DEF PendingOK
<1>6. StagesOK'
  <2> SUFFICES ASSUME Running'
               PROVE  \E g \in 0..gen' : {w \in watches' : w.kind \in IdleKinds} = IdleWatches(cfg, g)
    BY DEF StagesOK
  <2>1. PICK g \in 0..gen : {w \in watches : w.kind \in IdleKinds} = IdleWatches(cfg, g)
    BY DEF StagesOK
  <2>2. {w \in watches' : w.kind \in IdleKinds} = {w \in watches : w.kind \in IdleKinds}
    BY DEF IdleKinds
  <2>3. g \in 0..gen'
    BY <1>1
  <2> QED
    BY <2>1, <2>2, <2>3
<1> QED
  BY <1>3, <1>4, <1>5, <1>6

(* A step that leaves the watches alone. *)
LEMMA ArmedKept ==
    ASSUME ArmInv, TypeOK', UNCHANGED <<cfg, watches, activeArmed, registered>>,
           gen' >= gen, stage' >= stage, Running' => Running,
           \A w \in watches : Waiting(w) /\ w.kind # "cycle" => Waiting(w)' \/ Passed(w.kind)'
    PROVE  Armed'
<1>1. watches' \subseteq registered'
  BY DEF ArmInv, Armed, HeldOK
<1> DEFINE added == {}
<1>2. /\ \A w : w \notin added
      /\ added \subseteq watches' /\ watches' \subseteq watches \cup added
      /\ registered' \subseteq registered \cup added
      /\ \A w \in watches : w \in watches'
      /\ activeArmed => activeArmed'
      /\ activeArmed' => activeArmed
  OBVIOUS
<1> HIDE DEF added
<1> QED
  BY <1>1, <1>2, ArmedMore

LEMMA Waits ==
    ASSUME spent' \subseteq spent, registered' = registered, fired' = fired
    PROVE  \A w \in watches : Waiting(w) => Waiting(w)'
BY DEF Waiting

LEMMA Numbered ==
    ASSUME ArmInv
    PROVE  gen \in Nat /\ stage \in 0..3
BY DEF ArmInv, PromiseInv, SafeInv, TypeOK, LoopTypeOK, stageIdle, stageBlank

LEMMA Untouched ==
    ASSUME ArmInv, TypeOK', UNCHANGED <<cfg, watchVars, fired>>,
           gen' >= gen, stage' >= stage, Running' => Running
    PROVE  Armed'
BY ArmedKept, Waits DEF watchVars

(* What arming registers is new. *)
LEMMA ArmingsAre ==
    ASSUME NEW c, NEW g, NEW armed \in Armings(c, g)
    PROVE  \A w \in armed : w.gen = g /\ w.kind \in IdleKinds
BY DEF Armings, IdleWatches, ArmedBefore, Watch, IdleKinds

LEMMA RearmArmed ==
    ASSUME ArmInv, TypeOK', gen' = gen + 1, stage' = stageIdle,
           NEW armed \in Armings(cfg', gen + 1), Rearm(cfg', gen + 1, armed)
    PROVE  Armed'
<1>1. gen \in Nat
  BY DEF ArmInv, PromiseInv, SafeInv, TypeOK, LoopTypeOK
<1>2. \A w \in armed : w.gen = gen' /\ w.kind \in IdleKinds
  BY ArmingsAre
<1>3. \A w \in registered : w.gen \in Nat /\ w.gen <= gen
  BY DEF ArmInv, Armed, HeldOK, PromiseInv, SafeInv, TypeOK, WatchTypeOK, Watches
<1>4. spent \subseteq registered
  BY DEF ArmInv, PromiseInv, SafeInv, TypeOK, WatchTypeOK
<1>5. PICK removed : /\ ~activeArmed' /\ watches' = armed
                     /\ registered' = (registered \ removed) \cup armed
                     /\ spent' = spent \ removed
                     /\ fatal' = (armed # IdleWatches(cfg', gen + 1))
  BY DEF Rearm
<1>6. HeldOK'
  BY <1>1, <1>2, <1>3, <1>5 DEF HeldOK, IdleKinds
<1>7. ArmedOK'
  BY <1>2, <1>5 DEF ArmedOK, IdleKinds
<1>8. PendingOK'
  <2>1. \A w \in armed : w \notin spent
    BY <1>1, <1>2, <1>3, <1>4
  <2>2. \A w \in watches' : w \in registered' \ spent'
    BY <1>5, <2>1
  <2> QED
    BY <2>2 DEF PendingOK, Waiting
<1>9. StagesOK'
  <2>1. ~fatal' => {w \in watches' : w.kind \in IdleKinds} = IdleWatches(cfg', gen')
    BY <1>2, <1>5
  <2>2. gen' \in 0..gen'
    BY <1>1
  <2> QED
    BY <2>1, <2>2 DEF StagesOK, Running
<1> QED
  BY <1>6, <1>7, <1>8, <1>9 DEF Armed

LEMMA TeardownArmed ==
    ASSUME NEW outcome, outcome # "running", Teardown(outcome)
    PROVE  Armed'
BY DEF Teardown, Armed, HeldOK, ArmedOK, PendingOK, StagesOK, Running

(* A signal that is taken was the last of its watch only.                  *)
LEMMA OthersWait ==
    ASSUME ArmInv, fired # <<>>, fired' = Tail(fired), NEW w, w # Head(fired), Waiting(w),
           w \in registered \ spent => w \in registered' \ spent'
    PROVE  Waiting(w)'
<1>1. CASE w \in registered \ spent
  BY <1>1 DEF Waiting
<1>2. CASE \E i \in DOMAIN fired : fired[i] = w
  <2>1. fired \in Seq(Watches)
    BY DEF ArmInv, PromiseInv, SafeInv, TypeOK, WatchTypeOK
  <2> PICK i \in DOMAIN fired : fired[i] = w
    BY <1>2
  <2>2. i # 1 /\ i - 1 \in DOMAIN fired' /\ fired'[i - 1] = w
    BY <2>1
  <2> QED
    BY <2>2 DEF Waiting
<1> QED
  BY <1>1, <1>2 DEF Waiting

(* The user-active watch, when it is added, is not one that has fired.     *)
LEMMA ActiveIsNew ==
    ASSUME ArmInv, NEW active \in ActiveArmings, NEW w \in active
    PROVE  /\ ~activeArmed
           /\ w.gen = gen /\ w.kind = "active"
           /\ w \notin registered /\ w \notin spent
<1>1. w = Watch("active", 0, gen) /\ ~activeArmed
  BY DEF ActiveArmings, ActiveWatch, Outcomes
<1>2. w.gen = gen /\ w.kind = "active"
  BY <1>1 DEF Watch
<1>3. w \notin registered
  BY <1>1, <1>2 DEF ArmInv, Armed, HeldOK
<1>4. spent \subseteq registered
  BY DEF ArmInv, PromiseInv, SafeInv, TypeOK, WatchTypeOK
<1> QED
  BY <1>1, <1>2, <1>3, <1>4

LEMMA CycleIsNew ==
    ASSUME NEW n, NEW new \in CycleArmings(n), NEW w \in new
    PROVE  w.gen = gen /\ w.kind = "cycle"
BY DEF CycleArmings, Watch, Outcomes

LEMMA ArmCycleAdds ==
    ASSUME NEW done, NEW known, NEW held, ArmCycle(done, known, held)
    PROVE  \E new : /\ \A w \in new : w.gen = gen /\ w.kind = "cycle"
                    /\ watches' = known \cup new
                    /\ registered' = held \cup new
<1>1. CASE CycleEnabled(cfg)
  <2> PICK n \in SwapNumbers(done) : \E new \in CycleArmings(n) :
              watches' = known \cup new /\ registered' = held \cup new
    BY <1>1 DEF ArmCycle
  <2> QED
    BY CycleIsNew
<1>2. CASE ~CycleEnabled(cfg)
  <2>1. watches' = known /\ registered' = held
    BY <1>2 DEF ArmCycle
  <2>2. watches' = known \cup {} /\ registered' = held \cup {}
    BY <2>1, Zenon
  <2> WITNESS {}
  <2> QED
    BY <2>2
<1> QED
  BY <1>1, <1>2

(* A stage begins: its signal is taken, and the user-active watch ensured. *)
LEMMA StageArmed ==
    ASSUME ArmInv, TypeOK', NEW active \in ActiveArmings, EnsureActiveWatch(active),
           NEW new, \A w \in new : w.gen = gen /\ w.kind = "cycle",
           watches' = (watches \cup active) \cup new,
           registered' = (registered \cup active) \cup new, spent' = spent,
           fired # <<>>, fired' = Tail(fired), NEW kind, Head(fired).kind = kind, Passed(kind)',
           Running, UNCHANGED <<cfg, gen>>, stage' >= stage, stage' # stageIdle
    PROVE  Armed'
<1> DEFINE added == active \cup new
<1>1. \A w \in active : /\ ~activeArmed /\ w.gen = gen /\ w.kind = "active"
                        /\ w \in registered' \ spent'
  BY ActiveIsNew
<1>2. \A w \in added : /\ w.gen = gen /\ w.kind \in {"cycle", "active"}
                       /\ w.kind = "active" => w \in active
  BY <1>1
<1>3. /\ added \subseteq watches' /\ watches' \subseteq watches \cup added
      /\ \A w \in watches : w \in watches'
  OBVIOUS
<1>4. registered' \subseteq registered \cup added /\ watches' \subseteq registered'
  BY DEF ArmInv, Armed, HeldOK
<1>5. activeArmed \in BOOLEAN /\ gen \in Nat
  BY DEF ArmInv, PromiseInv, SafeInv, TypeOK, LoopTypeOK, WatchTypeOK
<1>6. /\ activeArmed => activeArmed'
      /\ active # {} => activeArmed'
      /\ activeArmed' => activeArmed \/ active # {}
  BY <1>5 DEF EnsureActiveWatch
<1>7. ASSUME NEW w \in watches, Waiting(w)
      PROVE  Waiting(w)' \/ Passed(w.kind)'
  <2>1. CASE w = Head(fired)
    BY <2>1
  <2>2. CASE w # Head(fired)
    BY <1>7, <2>2, OthersWait
  <2> QED
    BY <2>1, <2>2
<1>8. \A w \in added : w.kind = "active" => ~activeArmed /\ stage' # stageIdle /\ Waiting(w)'
  BY <1>1, <1>2 DEF Waiting
<1>9. activeArmed' => activeArmed \/ \E w \in added : w.kind = "active"
  BY <1>1, <1>6
<1>10. \A w \in added : w.kind = "active" => activeArmed'
  BY <1>2, <1>6
<1> HIDE DEF added
<1> QED
  BY <1>2, <1>3, <1>4, <1>5, <1>6, <1>7, <1>8, <1>9, <1>10, ArmedMore

LEMMA ActiveAlone ==
    ASSUME ArmInv, TypeOK', NEW active \in ActiveArmings, EnsureActiveWatch(active),
           Register(active), fired # <<>>, fired' = Tail(fired),
           NEW kind, Head(fired).kind = kind, Passed(kind)',
           Running, UNCHANGED <<cfg, gen>>, stage' >= stage, stage' # stageIdle
    PROVE  Armed'
<1> DEFINE new == {}
<1>1. /\ watches' = (watches \cup active) \cup new
      /\ registered' = (registered \cup active) \cup new
      /\ spent' = spent
      /\ \A w : w \notin new
  BY DEF Register
<1> HIDE DEF new
<1> QED
  BY <1>1, StageArmed

(* A swap's signal is taken: the cycle watch goes and another may come.     *)
LEMMA CycleTaken ==
    ASSUME ArmInv, TypeOK', Running, fired # <<>>, fired' = Tail(fired),
           Head(fired).kind = "cycle", Head(fired) \in watches,
           UNCHANGED <<loopVars, stage, gen, activeArmed>>,
           NEW removed, removed \subseteq {Head(fired)}, spent' = spent \ removed,
           NEW new, \A w \in new : w.gen = gen /\ w.kind = "cycle",
           watches' = (watches \ {Head(fired)}) \cup new,
           registered' = (registered \ removed) \cup new
    PROVE  Armed'
<1>1. /\ new \subseteq watches' /\ watches' \subseteq watches \cup new
      /\ registered' \subseteq registered \cup new
  OBVIOUS
<1>2. \A w \in watches : w.kind # "cycle" => w \in watches'
  OBVIOUS
<1>3. watches' \subseteq registered'
  BY DEF ArmInv, Armed, HeldOK
<1>4. /\ gen' >= gen /\ stage' >= stage /\ cfg' = cfg /\ (Running' => Running)
      /\ activeArmed' = activeArmed
  <2>1. gen \in Nat /\ stage \in 0..3
    BY Numbered DEF ArmInv, PromiseInv, SafeInv
  <2> QED
    BY <2>1 DEF loopVars, Running
<1>5. \A w \in watches : Waiting(w) /\ w.kind # "cycle" => Waiting(w)' \/ Passed(w.kind)'
  <2> SUFFICES ASSUME NEW w \in watches, Waiting(w), w.kind # "cycle"
               PROVE  Waiting(w)'
    OBVIOUS
  <2> QED
    BY OthersWait
<1>6. \A w \in new : /\ w.gen = gen /\ w.kind \in {"cycle", "active"}
                    /\ w.kind = "active" => ~activeArmed /\ stage' # stageIdle /\ Waiting(w)'
  OBVIOUS
<1>7. \A w \in new : w.kind = "active" => activeArmed'
  OBVIOUS
<1>8. /\ activeArmed => activeArmed'
      /\ activeArmed' => activeArmed \/ \E w \in new : w.kind = "active"
  BY <1>4
<1> QED
  BY <1>1, <1>2, <1>3, <1>4, <1>5, <1>6, <1>7, <1>8, ArmedMore

LEMMA HandleWatchArmed ==
    ASSUME ArmInv, TypeOK', HandleWatch
    PROVE  Armed'
<1>0. /\ gen \in Nat /\ stage \in 0..3
      /\ TypeOK
  BY Numbered DEF ArmInv, PromiseInv, SafeInv
<1>1. CASE OnUnknownWatch
  <2>1. /\ UNCHANGED <<loopVars, stage, gen, watchVars>>
        /\ fired # <<>> /\ fired' = Tail(fired) /\ Head(fired) \notin watches
    BY <1>1 DEF OnUnknownWatch
  <2>2. \A w \in watches : Waiting(w) => Waiting(w)'
    BY <2>1, OthersWait DEF watchVars
  <2> QED
    BY <1>0, <2>1, <2>2, ArmedKept DEF loopVars, watchVars, Running
<1>2. CASE OnPassedStage
  <2>1. /\ UNCHANGED <<loopVars, stage, gen, watchVars>>
        /\ fired # <<>> /\ fired' = Tail(fired)
        /\ \/ Head(fired).kind = "saver" /\ Reached(stageSaver)
           \/ Head(fired).kind = "lock" /\ Reached(stageLock)
           \/ Head(fired).kind = "blank" /\ Reached(stageBlank)
    BY <1>2 DEF OnPassedStage, Signalled
  <2> DEFINE kind == Head(fired).kind
  <2>2. Passed(kind)
    BY <1>0, <2>1 DEF Passed, Reached, stageBlank
  <2>3. ASSUME NEW w \in watches, Waiting(w)
        PROVE  Waiting(w)' \/ Passed(w.kind)'
    <3>1. CASE w = Head(fired)
      <4>1. Passed(w.kind)
        BY <2>2, <3>1
      <4> QED
        BY <2>1, <4>1 DEF Passed
    <3>2. CASE w # Head(fired)
      BY <2>1, <2>3, <3>2, OthersWait DEF watchVars
    <3> QED
      BY <3>1, <3>2
  <2> QED
    BY <1>0, <2>1, <2>3, ArmedKept DEF loopVars, watchVars, Running
<1>3. CASE OnSaver
  <2> PICK active \in ActiveArmings :
        /\ EnsureActiveWatch(active)
        /\ \/ Register(active)
           \/ /\ ArmCycle(cycles, watches \cup active, registered \cup active)
              /\ spent' = spent
    BY <1>3 DEF OnSaver
  <2>1. /\ Running /\ fired # <<>> /\ fired' = Tail(fired)
        /\ Head(fired).kind = "saver"
        /\ stage' = stageSaver /\ ~Reached(stageSaver)
        /\ UNCHANGED <<cfg, gen>>
    BY <1>3 DEF OnSaver, Signalled
  <2>2. Passed("saver")' /\ stage' >= stage /\ stage' # stageIdle
    BY <1>0, <2>1 DEF Passed, Reached, stageSaver, stageIdle
  <2>3. CASE Register(active)
    BY <2>1, <2>2, <2>3, ActiveAlone
  <2>4. CASE ArmCycle(cycles, watches \cup active, registered \cup active) /\ spent' = spent
    <3> PICK new : /\ \A w \in new : w.gen = gen /\ w.kind = "cycle"
                   /\ watches' = (watches \cup active) \cup new
                   /\ registered' = (registered \cup active) \cup new
      BY <2>4, ArmCycleAdds
    <3> QED
      BY <2>1, <2>2, <2>4, StageArmed
  <2> QED
    BY <2>3, <2>4
<1>4. CASE OnCycle
  <2>1. /\ Running /\ fired # <<>> /\ fired' = Tail(fired)
        /\ Head(fired).kind = "cycle" /\ Head(fired) \in watches
        /\ UNCHANGED <<loopVars, stage, gen, activeArmed>>
    BY <1>4 DEF OnCycle, Signalled
  <2> DEFINE known == watches \ {Head(fired)}
  <2>2. \E removed \in Removals({Head(fired)}) :
          /\ spent' = spent \ removed
          /\ \/ watches' = known /\ registered' = registered \ removed
             \/ ArmCycle(cycles + 1, known, registered \ removed)
    BY <1>4 DEF OnCycle
  <2> PICK removed \in Removals({Head(fired)}) :
          /\ spent' = spent \ removed
          /\ \/ watches' = known /\ registered' = registered \ removed
             \/ ArmCycle(cycles + 1, known, registered \ removed)
    BY <2>2
  <2>3. removed \subseteq {Head(fired)}
    BY DEF Removals
  <2>4. \E new : /\ \A w \in new : w.gen = gen /\ w.kind = "cycle"
                 /\ watches' = known \cup new
                 /\ registered' = (registered \ removed) \cup new
    <3>1. CASE watches' = known /\ registered' = registered \ removed
      <4>1. watches' = known \cup {} /\ registered' = (registered \ removed) \cup {}
        BY <3>1
      <4> WITNESS {}
      <4> QED
        BY <4>1
    <3>2. CASE ArmCycle(cycles + 1, known, registered \ removed)
      BY <3>2, ArmCycleAdds
    <3> QED
      BY <3>1, <3>2
  <2> PICK new : /\ \A w \in new : w.gen = gen /\ w.kind = "cycle"
                 /\ watches' = known \cup new
                 /\ registered' = (registered \ removed) \cup new
    BY <2>4
  <2> HIDE DEF known
  <2> QED
    BY <2>1, <2>3, <2>4, CycleTaken DEF known
<1>5. CASE OnLock \/ OnBlank
  <2> PICK active \in ActiveArmings : EnsureActiveWatch(active) /\ Register(active)
    BY <1>5 DEF OnLock, OnBlank
  <2>1. /\ Running /\ fired # <<>> /\ fired' = Tail(fired) /\ UNCHANGED <<cfg, gen>>
    BY <1>5 DEF OnLock, OnBlank, Signalled
  <2>2. CASE OnLock
    <3>1. Head(fired).kind = "lock" /\ stage' = stageLock /\ ~Reached(stageLock)
      BY <2>2 DEF OnLock, Signalled
    <3>2. Passed("lock")' /\ stage' >= stage /\ stage' # stageIdle
      BY <1>0, <3>1 DEF Passed, Reached, stageLock, stageIdle
    <3> QED
      BY <2>1, <3>1, <3>2, ActiveAlone
  <2>3. CASE OnBlank
    <3>1. Head(fired).kind = "blank" /\ stage' = stageBlank /\ ~Reached(stageBlank)
      BY <2>3 DEF OnBlank, Signalled
    <3>2. Passed("blank")' /\ stage' >= stage /\ stage' # stageIdle
      BY <1>0, <3>1 DEF Passed, Reached, stageBlank, stageIdle
    <3> QED
      BY <2>1, <3>1, <3>2, ActiveAlone
  <2> QED
    BY <1>5, <2>2, <2>3
<1>6. CASE OnActive
  <2> PICK armed \in Armings(cfg, gen + 1) : Rearm(cfg, gen + 1, armed)
    BY <1>6 DEF OnActive
  <2>1. gen' = gen + 1 /\ stage' = stageIdle /\ cfg' = cfg
    BY <1>6 DEF OnActive, Reset
  <2> QED
    BY <2>1, RearmArmed
<1> QED
  BY <1>1, <1>2, <1>3, <1>4, <1>5, <1>6 DEF HandleWatch

LEMMA EnvironmentArmed ==
    ASSUME ArmInv, TypeOK', Environment
    PROVE  Armed'
<1>0. gen \in Nat /\ stage \in 0..3
  BY Numbered
<1>1. UNCHANGED <<run, fatal, cfg, stage, gen, watches, activeArmed, registered>>
  BY DEF Environment, LaunchSettles, LaunchReturns, ProcessDies, ModuleDies, MutterFires, Fire,
         Tick, Activity, SessionLocks, UserUnlocks, UserActivity, loopVars, watchVars
<1>2. CASE \E w \in registered : Fire(w)
  <2> PICK f \in registered : Fire(f)
    BY <1>2
  <2>1. fired' = Append(fired, f) /\ spent' = spent \cup {f}
    BY DEF Fire
  <2>2. fired \in Seq(Watches) /\ f \in Watches
    BY DEF ArmInv, PromiseInv, SafeInv, TypeOK, WatchTypeOK
  <2>3. /\ Len(fired) + 1 \in DOMAIN fired' /\ fired'[Len(fired) + 1] = f
        /\ \A i \in DOMAIN fired : i \in DOMAIN fired' /\ fired'[i] = fired[i]
    BY <2>1, <2>2
  <2>4. \A w \in watches : Waiting(w) => Waiting(w)'
    BY <1>1, <2>1, <2>3 DEF Waiting
  <2> QED
    BY <1>0, <1>1, <2>4, ArmedKept DEF Running
<1>3. CASE ~\E w \in registered : Fire(w)
  <2>1. fired' = fired /\ spent' \subseteq spent
    BY <1>3 DEF Environment, LaunchSettles, LaunchReturns, ProcessDies, ModuleDies, MutterFires,
                Tick, Activity, SessionLocks, UserUnlocks, UserActivity, watchVars
  <2>2. \A w \in watches : Waiting(w) => Waiting(w)'
    BY <1>1, <2>1, Waits
  <2> QED
    BY <1>0, <1>1, <2>2, ArmedKept DEF Running
<1> QED
  BY <1>2, <1>3

LEMMA StartArmed ==
    ASSUME ArmInv, TypeOK', Start
    PROVE  Armed'
<1>1. CASE NotConnected
  <2>1. UNCHANGED <<cfg, watchVars, fired, stage, gen>> /\ run' = "failed"
    BY <1>1 DEF NotConnected
  <2> QED
    BY <2>1, Numbered, Untouched DEF Running
<1>2. CASE Connected
  <2> PICK armed \in Armings(cfg, gen) :
        /\ watches' = armed /\ registered' = armed /\ spent' = {}
        /\ fatal' = (armed # IdleWatches(cfg, gen))
    BY <1>2 DEF Connected
  <2>1. /\ UNCHANGED <<cfg, stage, gen, activeArmed>>
        /\ run = "starting"
    BY <1>2 DEF Connected
  <2>2. gen \in Nat /\ stage = stageIdle /\ ~activeArmed
    BY <2>1, Numbered DEF ArmInv, Armed, ArmedOK, PromiseInv
  <2>3. \A w \in armed : w.gen = gen /\ w.kind \in IdleKinds
    BY ArmingsAre
  <2>4. HeldOK' /\ ArmedOK'
    BY <2>1, <2>2, <2>3 DEF HeldOK, ArmedOK, IdleKinds
  <2>5. PendingOK'
    BY DEF PendingOK, Waiting
  <2>6. StagesOK'
    <3>1. ~fatal' => {w \in watches' : w.kind \in IdleKinds} = IdleWatches(cfg', gen')
      BY <2>1, <2>3
    <3>2. gen' \in 0..gen'
      BY <2>1, <2>2
    <3> QED
      BY <3>1, <3>2 DEF StagesOK, Running
  <2> QED
    BY <2>4, <2>5, <2>6 DEF Armed
<1> QED
  BY <1>1, <1>2 DEF Start

LEMMA ArmedStep ==
    ArmInv /\ [Next]_vars => ArmInv'
<1> SUFFICES ASSUME ArmInv, [Next]_vars PROVE Armed'
  BY PromiseStep DEF ArmInv
<1>0. TypeOK' /\ gen \in Nat /\ stage \in 0..3
  BY PromiseStep, Numbered DEF ArmInv, PromiseInv, SafeInv
<1>1. CASE Start
  BY <1>0, <1>1, StartArmed
<1>2. CASE HandleWatch
  BY <1>0, <1>2, HandleWatchArmed
<1>3. CASE HandleLaunch \/ OnModuleExit \/ OnCopyExit \/ HandleLockChange
  <2>1. /\ UNCHANGED <<loopVars, stage, watchVars, fired>>
        /\ gen' = gen \/ gen' = gen + 1
    BY <1>3
    DEF HandleLaunch, OnUnwantedLaunch, OnFailedLaunch, OnLaunchUp, OnModuleExit, OnCopyExit,
        HandleLockChange, OnLockIgnored, OnLockStops, LockWatcherLost
  <2> QED
    BY <1>0, <2>1, Untouched DEF loopVars, Running
<1>4. CASE Reload
  <2>1. CASE UNCHANGED vars
    BY <1>0, <2>1, Untouched DEF vars, loopVars, Running
  <2>2. CASE ~UNCHANGED vars
    <3> PICK c \in Configs :
          /\ cfg' = c /\ Reset
          /\ \E armed \in Armings(c, gen + 1) : Rearm(c, gen + 1, armed)
      BY <1>4, <2>2 DEF Reload
    <3>1. gen' = gen + 1 /\ stage' = stageIdle
      BY DEF Reset
    <3> QED
      BY <1>0, <3>1, RearmArmed
  <2> QED
    BY <2>1, <2>2
<1>5. CASE OnCopyExitPanic \/ Terminate \/ LoseMutter \/ Die
  <2>1. \E outcome \in Ended : Teardown(outcome)
    BY <1>5 DEF OnCopyExitPanic, Terminate, LoseMutter, Die, Ended
  <2> QED
    BY <2>1, TeardownArmed DEF Ended
<1>6. CASE Environment
  BY <1>0, <1>6, EnvironmentArmed
<1>7. CASE UNCHANGED vars
  BY <1>0, <1>7, Untouched DEF vars, loopVars, Running
<1> QED
  BY <1>1, <1>2, <1>3, <1>4, <1>5, <1>6, <1>7 DEF Next, Loop, HandleExit

LEMMA ArmAlways == Spec => []ArmInv
<1>1. Init => ArmInv
  <2> SUFFICES ASSUME Init PROVE Armed
    BY PromiseInit DEF ArmInv
  <2> QED
    BY DEF Init, Armed, HeldOK, ArmedOK, PendingOK, StagesOK, Running
<1> QED
  BY <1>1, ArmedStep, PTL DEF Spec

(* Every stage that lies ahead is armed (StagesAheadAreArmed), for every    *)
(* configuration, through reloads, resets and arming that fails: either     *)
(* its watch waits in Mutter or its signal is on its way.                   *)
THEOREM StagesAreArmed == Spec => []StagesAheadAreArmed
<1>1. ArmInv => StagesAheadAreArmed
  <2> SUFFICES ASSUME ArmInv, Running
               PROVE  \E g \in 0..gen :
                        /\ {w \in watches : w.kind \in IdleKinds} = IdleWatches(cfg, g)
                        /\ \A w \in IdleWatches(cfg, g) :
                              \/ Waiting(w)
                              \/ w.kind = "saver" /\ stage >= stageSaver
                              \/ w.kind = "lock" /\ stage >= stageLock
                              \/ w.kind = "blank" /\ stage = stageBlank
    BY DEF StagesAheadAreArmed, IdleKinds
  <2> PICK g \in 0..gen : {w \in watches : w.kind \in IdleKinds} = IdleWatches(cfg, g)
    BY DEF ArmInv, Armed, StagesOK
  <2>1. ASSUME NEW w \in IdleWatches(cfg, g)
        PROVE  \/ Waiting(w)
               \/ w.kind = "saver" /\ stage >= stageSaver
               \/ w.kind = "lock" /\ stage >= stageLock
               \/ w.kind = "blank" /\ stage = stageBlank
    <3>1. w \in watches /\ w.kind \in IdleKinds
      OBVIOUS
    <3> QED
      BY <3>1 DEF ArmInv, Armed, PendingOK, Passed, IdleKinds
  <2> QED
    BY <2>1
<1> QED
  BY <1>1, ArmAlways, PTL

(* While Mutter accepts the user-active watch, the user's return is noticed *)
(* in every stage (ReturnIsNoticed), and no such watch is left for a user   *)
(* who is active already (ensureActiveWatch, rearm).                        *)
THEOREM ReturnsAreNoticed ==
    ASSUME "addActive" \notin Faults
    PROVE  Spec => []ReturnIsNoticed
<1> DEFINE StageArms == stage # stageIdle => activeArmed
<1>1. Init => StageArms
  BY DEF Init
<1>2. ArmInv /\ StageArms /\ [Next]_vars => StageArms'
  <2> SUFFICES ASSUME ArmInv, StageArms, [Next]_vars, stage' # stageIdle
               PROVE  activeArmed'
    OBVIOUS
  <2>1. CASE UNCHANGED stage /\ (activeArmed => activeArmed')
    BY <2>1
  <2>2. ASSUME NEW active \in ActiveArmings, EnsureActiveWatch(active)
        PROVE  activeArmed'
    BY <2>2 DEF ActiveArmings, Outcomes, EnsureActiveWatch
  <2>3. CASE OnSaver \/ OnLock \/ OnBlank
    BY <2>2, <2>3 DEF OnSaver, OnLock, OnBlank
  <2>4. \/ UNCHANGED <<stage, activeArmed>>
        \/ OnSaver \/ OnLock \/ OnBlank
    <3>1. CASE HandleWatch
      BY <3>1 DEF HandleWatch, OnUnknownWatch, OnPassedStage, OnCycle, OnActive, Reset, watchVars
    <3>2. CASE HandleLaunch \/ HandleLockChange \/ HandleExit
      BY <3>2 DEF HandleLaunch, OnUnwantedLaunch, OnFailedLaunch, OnLaunchUp,
                  HandleLockChange, OnLockIgnored, OnLockStops, LockWatcherLost,
                  HandleExit, OnModuleExit, OnCopyExit, OnCopyExitPanic, Teardown, watchVars
    <3>3. CASE Reload
      BY <3>3 DEF Reload, Reset, vars, watchVars
    <3>4. CASE Start \/ Terminate \/ LoseMutter \/ Die \/ UNCHANGED vars
      BY <3>4 DEF Start, Connected, NotConnected, Terminate, LoseMutter, Die, Teardown, vars, watchVars
    <3>5. CASE Environment
      BY <3>5 DEF Environment, LaunchSettles, LaunchReturns, ProcessDies, ModuleDies,
                  MutterFires, Fire, Tick, Activity, SessionLocks, UserUnlocks, UserActivity, watchVars
    <3> QED
      BY <3>1, <3>2, <3>3, <3>4, <3>5 DEF Next, Loop
  <2> QED
    BY <2>3, <2>4
<1>3. ArmInv /\ StageArms => ReturnIsNoticed
  <2> SUFFICES ASSUME ArmInv, StageArms
               PROVE  stage # stageIdle <=> Awaited("active")
    BY DEF ReturnIsNoticed
  <2>1. ASSUME stage # stageIdle
        PROVE  Awaited("active")
    <3> PICK w \in watches : w.kind = "active"
      BY <2>1 DEF ArmInv, Armed, ArmedOK
    <3>1. Waiting(w)
      BY DEF ArmInv, Armed, PendingOK, Passed
    <3> QED
      BY <3>1 DEF Awaited
  <2>2. ASSUME Awaited("active")
        PROVE  stage # stageIdle
    BY <2>2 DEF Awaited, ArmInv, Armed, ArmedOK
  <2> QED
    BY <2>1, <2>2
<1> QED
  BY <1>1, <1>2, <1>3, ArmAlways, PTL DEF Spec

(***************************************************************************)
(* Swaps.  That one at most is scheduled is inductive with the idle state, *)
(* in which none is: onSaver arms the first on top of nothing.             *)
(***************************************************************************)
NoSwap(ws) == \A w \in ws : w.kind # "cycle"

SwapsOK == OneSwap /\ (Running /\ stage = stageIdle => NoSwap(watches))

SwapInv == TypeOK /\ SwapsOK

(* A quotient rounded down, and the first multiple past it.                *)
LEMMA PastQuotient ==
    ASSUME NEW d \in Nat \ {0}, NEW x \in Int, NEW n \in Int, n >= (x \div d) + 1
    PROVE  n * d > x
<1> DEFINE q == x \div d
<1>1. q \in Int /\ x < (q + 1) * d
  OBVIOUS
<1> HIDE DEF q
<1>2. (q + 1) * d <= n * d
  <2>1. n - (q + 1) \in Nat
    BY <1>1 DEF q
  <2>2. (n - (q + 1)) * d >= 0
    BY <2>1
  <2>3. (n - (q + 1)) * d = n * d - (q + 1) * d
    BY <1>1
  <2> QED
    BY <1>1, <2>2, <2>3
<1> QED
  BY <1>1, <1>2

(* The next swap comes after those counted, and after the moment it is     *)
(* counted at.                                                             *)
LEMMA NextSwapAhead ==
    ASSUME NEW c \in Config, CycleEnabled(c), NEW done \in Nat, NEW t \in Nat
    PROVE  /\ NextSwap(c, done, t) \in Nat /\ NextSwap(c, done, t) > done
           /\ SwapAt(c, NextSwap(c, done, t)) > t
<1> DEFINE x == t - c.saverDelay
           d == c.cycleAfter
           passed == x \div d
           n == NextSwap(c, done, t)
<1>1. c.saverDelay \in Nat /\ d \in Nat \ {0} /\ x \in Int
  BY DEF Config, CycleEnabled
<1>2. passed \in Int
  BY <1>1
<1>3. n = IF passed > done THEN passed + 1 ELSE done + 1
  BY DEF NextSwap
<1>4. SwapAt(c, n) = c.saverDelay + n * d
  BY DEF SwapAt
<1> HIDE DEF n, d
<1>5. n \in Nat /\ n > done /\ n >= passed + 1
  <2> HIDE DEF passed
  <2> QED
    BY <1>2, <1>3
<1>6. n * d > x
  <2> HIDE DEF x
  <2> QED
    BY <1>1, <1>5, PastQuotient
<1>7. n * d \in Int
  BY <1>1, <1>5
<1>8. SwapAt(c, n) > t
  <2> DEFINE m == n * d
  <2> HIDE DEF m
  <2>1. m \in Int /\ m > t - c.saverDelay /\ SwapAt(c, n) = c.saverDelay + m
    BY <1>4, <1>6, <1>7 DEF m
  <2> QED
    BY <1>1, <2>1
<1> QED
  BY <1>5, <1>8 DEF n

LEMMA SwapsFewer ==
    ASSUME SwapsOK, \A w \in watches' : w.kind = "cycle" => w \in watches,
           UNCHANGED <<cfg, cycles>>, Running' => Running,
           stage' = stageIdle => stage = stageIdle
    PROVE  SwapsOK'
<1>1. OneSwap'
  <2> SUFFICES ASSUME Running'
               PROVE  /\ \A v, w \in watches' : v.kind = "cycle" /\ w.kind = "cycle" => v = w
                      /\ \A w \in watches' : w.kind = "cycle" =>
                            /\ LockEnabled(cfg) => w.at < LockAt(cfg)
                            /\ w.at = SwapAt(cfg, cycles + 1)
    BY DEF OneSwap
  <2> QED
    BY DEF SwapsOK, OneSwap
<1>2. Running' /\ stage' = stageIdle => NoSwap(watches')
  BY DEF SwapsOK, NoSwap
<1> QED
  BY <1>1, <1>2 DEF SwapsOK

LEMMA SwapsNone ==
    ASSUME NoSwap(watches')
    PROVE  SwapsOK'
BY DEF NoSwap, SwapsOK, OneSwap

(* What armCycle adds is the next swap, and the only one.                  *)
LEMMA ArmCycleSwaps ==
    ASSUME TypeOK, NEW done \in Nat, NEW known, NEW held, NoSwap(known),
           ArmCycle(done, known, held), UNCHANGED cfg, stage' # stageIdle
    PROVE  /\ SwapsOK'
           /\ \A w \in watches' \ known :
                 "idletime" \notin Faults /\ w.kind = "cycle" => w.at > idle
<1>0. cfg \in Config /\ cfg \in Configs /\ idle \in Nat
  BY ConfigsAssumption DEF TypeOK, LoopTypeOK
<1>1. CASE ~CycleEnabled(cfg)
  <2>1. watches' = known
    BY <1>1 DEF ArmCycle
  <2>2. NoSwap(watches')
    BY <2>1
  <2> QED
    BY <2>1, <2>2, SwapsNone
<1>2. CASE CycleEnabled(cfg)
  <2> PICK n \in SwapNumbers(done) :
            \E new \in CycleArmings(n) : cycles' = n - 1 /\ watches' = known \cup new
    BY <1>2 DEF ArmCycle
  <2> PICK new \in CycleArmings(n) : cycles' = n - 1 /\ watches' = known \cup new
    OBVIOUS
  <2>1. n \in Nat
    BY <1>0, <1>2, SwapNumbersTyped
  <2> DEFINE w0 == Watch("cycle", SwapAt(cfg, n), gen)
  <2>2. \A w \in new : w = w0 /\ SwapFits(cfg, n)
    BY DEF CycleArmings, Outcomes
  <2>3. w0.kind = "cycle" /\ w0.at = SwapAt(cfg, n)
    BY DEF Watch
  <2> HIDE DEF w0
  <2>4. \A w \in watches' : w.kind = "cycle" => w = w0 /\ SwapFits(cfg, n)
    BY <2>2 DEF NoSwap
  <2>5. cycles' + 1 = n
    BY <2>1
  <2>6. OneSwap'
    <3>1. \A v, w \in watches' : v.kind = "cycle" /\ w.kind = "cycle" => v = w
      BY <2>4
    <3>2. ASSUME NEW w \in watches', w.kind = "cycle"
          PROVE  /\ LockEnabled(cfg) => w.at < LockAt(cfg)
                 /\ w.at = SwapAt(cfg, cycles' + 1)
      BY <2>3, <2>4, <2>5, <3>2 DEF SwapFits
    <3> QED
      BY <3>1, <3>2 DEF OneSwap
  <2>7. SwapsOK'
    BY <2>6 DEF SwapsOK
  <2>8. ASSUME NEW w \in watches' \ known, "idletime" \notin Faults
        PROVE  w.at > idle
    <3>1. n = NextSwap(cfg, done, idle)
      BY <2>8 DEF SwapNumbers, Outcomes
    <3>2. w.at = SwapAt(cfg, n)
      BY <2>2, <2>3
    <3> QED
      BY <1>0, <1>2, <3>1, <3>2, NextSwapAhead
  <2> QED
    BY <2>7, <2>8
<1> QED
  BY <1>1, <1>2

(* New swaps are ahead of the clock, when it can be read.                  *)
NewSwapsAhead ==
    "idletime" \notin Faults =>
        \A w \in watches' \ watches : w.kind = "cycle" => w.at > idle

LEMMA NoSwapOf ==
    /\ \A c \in Configs, g \in Nat : \A armed \in Armings(c, g) : NoSwap(armed)
    /\ \A active \in ActiveArmings : NoSwap(active)
<1>1. ASSUME NEW c \in Configs, NEW g \in Nat, NEW armed \in Armings(c, g)
      PROVE  NoSwap(armed)
  <2>1. armed \subseteq IdleWatches(c, g)
    BY DEF Armings, ArmedBefore
  <2> QED
    BY <2>1 DEF NoSwap, IdleWatches, Watch
<1>2. ASSUME NEW active \in ActiveArmings
      PROVE  NoSwap(active)
  BY DEF ActiveArmings, ActiveWatch, Outcomes, NoSwap, Watch
<1> QED
  BY <1>1, <1>2

LEMMA HandleWatchSwaps ==
    ASSUME SwapInv, HandleWatch
    PROVE  SwapsOK' /\ NewSwapsAhead
<1>0. /\ stage \in 0..3 /\ gen \in Nat /\ cycles \in Nat /\ cfg \in Configs
      /\ SwapsOK /\ TypeOK
  BY DEF SwapInv, TypeOK, LoopTypeOK, CountTypeOK, stageIdle, stageBlank
<1>1. CASE OnUnknownWatch \/ OnPassedStage
  <2>1. UNCHANGED <<loopVars, stage, watches, cycles>>
    BY <1>1 DEF OnUnknownWatch, OnPassedStage, watchVars, countVars
  <2> QED
    BY <1>0, <2>1, SwapsFewer DEF NewSwapsAhead, loopVars, Running
<1>2. CASE OnSaver
  <2> PICK active \in ActiveArmings :
        \/ Register(active) /\ UNCHANGED countVars
        \/ ArmCycle(cycles, watches \cup active, registered \cup active)
    BY <1>2 DEF OnSaver
  <2>1. /\ Running /\ UNCHANGED <<run, cfg>> /\ stage' = stageSaver /\ stage = stageIdle
    BY <1>0, <1>2 DEF OnSaver, Signalled, Reached, stageSaver, stageIdle
  <2>2. stage' # stageIdle
    BY <2>1 DEF stageSaver, stageIdle
  <2>3. NoSwap(watches \cup active)
    BY <1>0, <2>1, NoSwapOf DEF SwapsOK, NoSwap
  <2>4. CASE Register(active) /\ UNCHANGED countVars
    BY <2>3, <2>4, SwapsNone DEF Register, NewSwapsAhead, NoSwap
  <2>5. CASE ArmCycle(cycles, watches \cup active, registered \cup active)
    <3> DEFINE known == watches \cup active
    <3>1. \A w \in watches' \ known :
             "idletime" \notin Faults /\ w.kind = "cycle" => w.at > idle
      BY <1>0, <2>1, <2>2, <2>3, <2>5, ArmCycleSwaps
    <3>2. SwapsOK'
      BY <1>0, <2>1, <2>2, <2>3, <2>5, ArmCycleSwaps
    <3> QED
      BY <2>3, <3>1, <3>2 DEF NewSwapsAhead, NoSwap
  <2> QED
    BY <2>4, <2>5
<1>3. CASE OnCycle
  <2> DEFINE known == watches \ {Head(fired)}
  <2>1. /\ Running /\ UNCHANGED <<loopVars, stage>>
        /\ Head(fired) \in watches /\ Head(fired).kind = "cycle"
    BY <1>3 DEF OnCycle, Signalled
  <2>2. NoSwap(known)
    BY <1>0, <2>1 DEF SwapsOK, OneSwap, NoSwap
  <2>3. \/ watches' = known
        \/ /\ stage = stageSaver
           /\ \E held : ArmCycle(cycles + 1, known, held)
    BY <1>3 DEF OnCycle
  <2> HIDE DEF known
  <2>4. CASE watches' = known
    BY <2>2, <2>4, SwapsNone DEF NewSwapsAhead, known
  <2>5. CASE stage = stageSaver /\ \E held : ArmCycle(cycles + 1, known, held)
    <3> PICK held : ArmCycle(cycles + 1, known, held)
      BY <2>5
    <3>1. stage' # stageIdle /\ cycles + 1 \in Nat /\ UNCHANGED cfg
      BY <1>0, <2>1, <2>5 DEF stageSaver, stageIdle, loopVars
    <3>2. /\ SwapsOK'
          /\ \A w \in watches' \ known :
                 "idletime" \notin Faults /\ w.kind = "cycle" => w.at > idle
      BY <1>0, <2>2, <3>1, ArmCycleSwaps
    <3> QED
      BY <3>2 DEF NewSwapsAhead, known
  <2> QED
    BY <2>3, <2>4, <2>5
<1>4. CASE OnLock \/ OnBlank
  <2> PICK active \in ActiveArmings : Register(active)
    BY <1>4 DEF OnLock, OnBlank
  <2>1. /\ Running /\ UNCHANGED <<run, cfg, cycles>> /\ stage' # stageIdle
    <3>1. stage' \in {stageLock, stageBlank} /\ UNCHANGED <<run, cfg, countVars>>
      BY <1>4 DEF OnLock, OnBlank
    <3>2. Running
      BY <1>4 DEF OnLock, OnBlank, Signalled
    <3> QED
      BY <3>1, <3>2 DEF countVars, stageLock, stageBlank, stageIdle
  <2>2. \A w \in watches' : w.kind = "cycle" => w \in watches
    BY NoSwapOf DEF Register, NoSwap
  <2> QED
    BY <1>0, <2>1, <2>2, SwapsFewer DEF NewSwapsAhead
<1>5. CASE OnActive
  <2> PICK armed \in Armings(cfg, gen + 1) : Rearm(cfg, gen + 1, armed)
    BY <1>5 DEF OnActive
  <2>1. watches' = armed /\ NoSwap(armed)
    BY <1>0, NoSwapOf DEF Rearm
  <2> QED
    BY <2>1, SwapsNone DEF NewSwapsAhead, NoSwap
<1> QED
  BY <1>1, <1>2, <1>3, <1>4, <1>5 DEF HandleWatch

LEMMA SwapStep ==
    SwapInv /\ [Next]_vars => SwapInv' /\ NewSwapsAhead
<1> SUFFICES ASSUME SwapInv, [Next]_vars
             PROVE  SwapsOK' /\ NewSwapsAhead
  BY TypeStep DEF SwapInv
<1>0. gen \in Nat /\ cfg \in Configs /\ SwapsOK
  BY DEF SwapInv, TypeOK, LoopTypeOK
<1>1. CASE NoSwap(watches')
  BY <1>1, SwapsNone DEF NewSwapsAhead, NoSwap
<1>2. CASE UNCHANGED <<loopVars, stage, watches, cycles>>
  BY <1>0, <1>2, SwapsFewer DEF NewSwapsAhead, loopVars, Running
<1>3. CASE Start
  <2>1. CASE Connected
    BY <1>0, <1>1, <2>1, NoSwapOf DEF Connected
  <2>2. CASE NotConnected
    <3>1. ~Running' /\ watches' = watches
      BY <2>2 DEF NotConnected, Running, watchVars
    <3> QED
      BY <3>1 DEF SwapsOK, OneSwap, NewSwapsAhead
  <2> QED
    BY <1>3, <2>1, <2>2 DEF Start
<1>4. CASE HandleWatch
  BY <1>4, HandleWatchSwaps
<1>5. CASE HandleLaunch
  BY <1>2, <1>5 DEF HandleLaunch, OnUnwantedLaunch, OnFailedLaunch, OnLaunchUp, watchVars, countVars
<1>6. CASE HandleExit
  BY <1>1, <1>2, <1>6
     DEF HandleExit, OnModuleExit, OnCopyExit, OnCopyExitPanic, Teardown, NoSwap, watchVars
<1>7. CASE HandleLockChange
  BY <1>2, <1>7 DEF HandleLockChange, OnLockIgnored, OnLockStops, LockWatcherLost, watchVars, countVars
<1>8. CASE Reload
  <2>1. CASE UNCHANGED vars
    BY <1>2, <2>1 DEF vars, watchVars, countVars
  <2>2. ASSUME NEW c \in Configs, NEW armed \in Armings(c, gen + 1), Rearm(c, gen + 1, armed)
        PROVE  SwapsOK' /\ NewSwapsAhead
    <3>1. watches' = armed /\ NoSwap(armed)
      BY <1>0, <2>2, NoSwapOf DEF Rearm
    <3> QED
      BY <1>1, <3>1
  <2> QED
    BY <1>8, <2>1, <2>2 DEF Reload
<1>9. CASE Terminate \/ LoseMutter \/ Die
  BY <1>1, <1>9 DEF Terminate, LoseMutter, Die, Teardown, NoSwap
<1>10. CASE Environment
  BY <1>2, <1>10
     DEF Environment, LaunchSettles, LaunchReturns, ProcessDies, ModuleDies, MutterFires,
         Fire, Tick, Activity, SessionLocks, UserUnlocks, UserActivity, watchVars, countVars
<1>11. CASE UNCHANGED vars
  BY <1>2, <1>11 DEF vars, watchVars, countVars
<1> QED
  BY <1>3, <1>4, <1>5, <1>6, <1>7, <1>8, <1>9, <1>10, <1>11 DEF Next, Loop

(* One swap is scheduled at a time, before the lock stage and counted from  *)
(* the swaps idled through; and, as long as the idle time can be read,      *)
(* always for a moment still ahead (armCycle, onCycle).                     *)
THEOREM SwapsStayAhead ==
    ASSUME "idletime" \notin Faults
    PROVE  Spec => SwapsAreAhead
<1> DEFINE Ahead == \A w \in watches' \ watches : w.kind = "cycle" => w.at > idle
<1>1. Init => SwapInv
  BY TypeInit DEF Init, SwapInv, SwapsOK, OneSwap, NoSwap
<1>2. SwapInv /\ [Next]_vars => SwapInv'
  BY SwapStep
<1>3. SwapInv /\ [Next]_vars => [Ahead]_vars
  BY SwapStep DEF NewSwapsAhead
<1>4. SwapInv => OneSwap
  BY DEF SwapInv, SwapsOK
<1>5. Spec => []OneSwap /\ [][Ahead]_vars
  BY <1>1, <1>2, <1>3, <1>4, PTL DEF Spec
<1> QED
  BY <1>5 DEF SwapsAreAhead

(***************************************************************************)
(* The lock shield.  Without swaps one launch at a time is coming, the one *)
(* machine.cancel names: so onLockChange, which looks at machine.cancel    *)
(* and at the screen, sees whatever it has to stop.                        *)
(***************************************************************************)
OneComing == stage = stageSaver => \A l \in LaunchId : Coming(l) => l = cancel

(* The last change on its way is to the state the session is in.           *)
LocksOK ==
    /\ lockWatch /\ locks # <<>> => locks[Len(locks)] = sessionLocked
    /\ run = "starting" => locks = <<>>

Told == run = "running" /\ sessionLocked /\ lockWatch /\ locks = <<>>

Bare == current = None /\ (stage = stageSaver => \A l \in LaunchId : ~Coming(l))

Shielded == Told => Bare

ShieldInv ==
    /\ PromiseInv /\ WatchedInv
    /\ NoSwap(watches)
    /\ OneComing /\ LocksOK /\ Shielded

(* Nothing is coming in the idle state: its generation has begun nothing.  *)
LEMMA IdleIsBare ==
    ASSUME SafeInv, stage = stageIdle
    PROVE  current = None /\ \A l \in LaunchId : ~Coming(l)
<1>1. current = None
  BY DEF SafeInv, ScreenOK, stageIdle, stageSaver
<1>2. ASSUME NEW l \in LaunchId, Coming(l)
      PROVE  FALSE
  <2>1. launches[l].gen = gen /\ launches[l].st # "none"
    BY <1>2 DEF Coming, InFlight, InChannel, SafeInv, QueueOK
  <2> QED
    BY <2>1 DEF SafeInv, LaunchesOK, LaunchOK, stageIdle, stageSaver
<1> QED
  BY <1>1, <1>2

LEMMA ShieldKept ==
    ASSUME ShieldInv, UNCHANGED <<stage, cancel, current>>,
           \A l \in LaunchId : Coming(l)' => Coming(l),
           Told' => Told
    PROVE  OneComing' /\ Shielded'
BY DEF ShieldInv, OneComing, Shielded, Bare

LEMMA ShieldCleared ==
    ASSUME current' = None, stage' # stageSaver \/ \A l \in LaunchId : ~Coming(l)'
    PROVE  OneComing' /\ Shielded'
BY DEF OneComing, Shielded, Bare

(* A launch that keeps its state, context and channel.                     *)
LEMMA SameComing ==
    ASSUME \A l \in LaunchId : SameLaunch(l), UNCHANGED <<gen, launched>>
    PROVE  \A l \in LaunchId : Coming(l)' => Coming(l)
BY DEF Coming, InFlight, InChannel, SameLaunch

(* stopSaver in a new generation.                                          *)
LEMMA NewGenBare ==
    ASSUME SafeInv, StopSaver, gen' = gen + 1
    PROVE  current' = None /\ \A l \in LaunchId : ~Coming(l)'
<1>1. launches \in [LaunchId -> Launch] /\ gen \in Nat
  BY DEF SafeInv, TypeOK, LoopTypeOK, SaverTypeOK
<1>2. ASSUME NEW l \in LaunchId
      PROVE  launches'[l].gen # gen'
  <2>1. launches'[l] = IF l = current THEN NoLaunch ELSE Abandon(l)
    BY DEF StopSaver, Abandoned
  <2>2. launches[l] \in Launch /\ launches[l].gen <= gen
    BY <1>1 DEF SafeInv, LaunchesOK, LaunchOK
  <2>3. NoLaunch.gen = 0 /\ Abandon(l).gen = launches[l].gen
    BY <2>2 DEF NoLaunch, Abandon, Launch
  <2>4. launches'[l].gen <= gen /\ launches'[l].gen \in Nat
    <3>1. CASE l = current
      BY <1>1, <2>1, <2>3, <3>1
    <3>2. CASE l # current
      <4>1. launches[l].gen \in Nat
        BY <2>2 DEF Launch
      <4> QED
        BY <2>1, <2>2, <2>3, <3>2, <4>1
    <3> QED
      BY <3>1, <3>2
  <2> QED
    BY <1>1, <2>4
<1> QED
  BY <1>2 DEF StopSaver, Coming

(* A launch begun on top of none that is coming is the only one.           *)
LEMMA LaunchAlone ==
    ASSUME NEW tries, NEW ls \in [LaunchId -> Launch], Launches(tries, ls), UNCHANGED gen,
           \A l \in LaunchId :
                (ls[l].st = "starting" \/ InChannel(l)') /\ ls[l].gen = gen
                    => ls[l].canceled
    PROVE  \A l \in LaunchId : Coming(l)' => l = cancel'
<1> PICK l \in LaunchId, n \in NameCounts :
        launches' = [ls EXCEPT ![l] = NewLaunch(n)] /\ cancel' = l
  BY DEF Launches
<1>1. ASSUME NEW m \in LaunchId \ {l}
      PROVE  ~Coming(m)'
  <2>1. launches'[m] = ls[m]
    OBVIOUS
  <2> QED
    BY <2>1 DEF Coming, InFlight
<1> QED
  BY <1>1

LEMMA StartLaunchShield ==
    ASSUME ShieldInv, NEW tries, StartLaunch(tries, launches, cancel),
           UNCHANGED <<gen, launched, current>>,
           current = None, \A l \in LaunchId : ~Coming(l), ~Told'
    PROVE  OneComing' /\ Shielded'
<1>1. CASE Launches(tries, launches)
  <2>1. launches \in [LaunchId -> Launch]
    BY DEF ShieldInv, WatchedInv, SafeInv, TypeOK, SaverTypeOK
  <2>2. \A l \in LaunchId :
            (launches[l].st = "starting" \/ InChannel(l)') /\ launches[l].gen = gen
                => launches[l].canceled
    BY DEF Coming, InFlight, InChannel
  <2>3. \A l \in LaunchId : Coming(l)' => l = cancel'
    BY <1>1, <2>1, <2>2, LaunchAlone
  <2> QED
    BY <2>3 DEF OneComing, Shielded
<1>2. CASE launches' = launches
  <2>1. \A l \in LaunchId : ~Coming(l)'
    BY <1>2 DEF Coming, InFlight, InChannel
  <2> QED
    BY <2>1, ShieldCleared
<1> QED
  BY <1>1, <1>2 DEF StartLaunch

SwapsOff == \A c \in Configs : ~CycleEnabled(c)
LockIsRead == "locked" \notin Faults

LEMMA LocksLast ==
    ASSUME NEW S, NEW s \in Seq(S), s # <<>>, Tail(s) # <<>>
    PROVE  Tail(s)[Len(Tail(s))] = s[Len(s)]
OBVIOUS

LEMMA LastIsHead ==
    ASSUME NEW S, NEW s \in Seq(S), s # <<>>, Tail(s) = <<>>
    PROVE  Head(s) = s[Len(s)]
<1>1. Len(s) \in Nat /\ Tail(s) \in Seq(S) /\ Len(Tail(s)) = Len(s) - 1
  OBVIOUS
<1>2. Len(Tail(s)) = 0
  <2> DEFINE t == Tail(s)
  <2> HIDE DEF t
  <2>1. t = <<>>
    BY DEF t
  <2>2. Len(t) = 0
    BY <2>1
  <2> QED
    BY <2>2 DEF t
<1>3. Len(s) = 1
  BY <1>1, <1>2
<1>4. Head(s) = s[1]
  OBVIOUS
<1> QED
  BY <1>3, <1>4

LEMMA AppendNotEmpty ==
    ASSUME NEW S, NEW s \in Seq(S), NEW e
    PROVE  Append(s, e) # <<>>
<1>1. Len(Append(s, e)) = Len(s) + 1 /\ Len(s) \in Nat
  OBVIOUS
<1>2. Len(<<>>) = 0
  OBVIOUS
<1>3. ASSUME Append(s, e) = <<>>
      PROVE  FALSE
  <2>1. Len(Append(s, e)) = 0
    BY <1>2, <1>3
  <2> QED
    BY <1>1, <2>1
<1> QED
  BY <1>3

LEMMA LocksStep ==
    ASSUME TypeOK, LocksOK, [Next]_vars
    PROVE  LocksOK'
<1>0. /\ locks \in Seq(BOOLEAN) /\ sessionLocked \in BOOLEAN
      /\ Running => run # "starting"
  BY DEF TypeOK, SessionTypeOK, Running
<1>1. CASE UNCHANGED <<lockVars, run>>
  BY <1>1 DEF LocksOK, lockVars
<1>2. CASE UNCHANGED lockVars /\ run' # "starting"
  BY <1>2 DEF LocksOK, lockVars
<1>3. ASSUME NEW outcome, Teardown(outcome)
      PROVE  LocksOK'
  BY <1>3 DEF Teardown, LocksOK
<1>4. ASSUME NEW b \in BOOLEAN, LockChange(b), run = "running", run' = run
      PROVE  LocksOK'
  <2>1. /\ sessionLocked' = b /\ lockWatch' = lockWatch
        /\ lockWatch => locks' = Append(locks, b)
    BY <1>4 DEF LockChange
  <2>2. Append(locks, b)[Len(Append(locks, b))] = b
    BY <1>0
  <2> QED
    BY <1>4, <2>1, <2>2 DEF LocksOK
<1>5. CASE Start
  BY <1>5 DEF Start, Connected, NotConnected, LocksOK, lockVars
<1>6. CASE HandleWatch
  <2>1. CASE OnLock
    <3>1. /\ Running /\ run' = run /\ lockWatch' = lockWatch
          /\ \/ /\ sessionLocked' = TRUE
                /\ locks' = IF lockWatch /\ ~sessionLocked THEN Append(locks, TRUE) ELSE locks
             \/ UNCHANGED <<sessionLocked, locks>>
      BY <2>1 DEF OnLock, Signalled
    <3>2. Append(locks, TRUE)[Len(Append(locks, TRUE))] = TRUE
      BY <1>0
    <3> QED
      BY <1>0, <3>1, <3>2 DEF LocksOK, Running
  <2> QED
    BY <1>1, <1>6, <2>1
       DEF HandleWatch, OnUnknownWatch, OnPassedStage, OnSaver, OnCycle, OnBlank, OnActive,
           loopVars
<1>7. CASE HandleLaunch
  BY <1>1, <1>7 DEF HandleLaunch, OnUnwantedLaunch, OnFailedLaunch, OnLaunchUp, loopVars
<1>8. CASE HandleExit
  BY <1>1, <1>3, <1>8 DEF HandleExit, OnModuleExit, OnCopyExit, OnCopyExitPanic, loopVars
<1>9. CASE HandleLockChange
  <2>1. CASE LockWatcherLost
    BY <1>0, <2>1 DEF LockWatcherLost, LocksOK, loopVars
  <2>2. CASE OnLockIgnored \/ OnLockStops
    <3>1. /\ locks # <<>> /\ locks' = Tail(locks) /\ run # "starting"
          /\ UNCHANGED <<run, sessionLocked, lockWatch>>
      BY <1>0, <2>2 DEF OnLockIgnored, OnLockStops, LockChanged, loopVars
    <3> QED
      BY <1>0, <3>1, LocksLast DEF LocksOK
  <2> QED
    BY <1>9, <2>1, <2>2 DEF HandleLockChange
<1>10. CASE Reload
  BY <1>1, <1>10 DEF Reload, vars, loopVars
<1>11. CASE Terminate \/ LoseMutter \/ Die
  BY <1>3, <1>11 DEF Terminate, LoseMutter, Die
<1>12. CASE Environment
  <2>1. CASE SessionLocks \/ UserUnlocks
    BY <1>4, <2>1 DEF SessionLocks, UserUnlocks, UserActivity, loopVars
  <2> QED
    BY <1>1, <1>12, <2>1
       DEF Environment, LaunchSettles, LaunchReturns, ProcessDies, ModuleDies, MutterFires,
           Fire, Tick, Activity, UserActivity, loopVars
<1>13. CASE UNCHANGED vars
  BY <1>1, <1>13 DEF vars, loopVars
<1> QED
  BY <1>5, <1>6, <1>7, <1>8, <1>9, <1>10, <1>11, <1>12, <1>13 DEF Next, Loop

LEMMA HandleWatchShield ==
    ASSUME ShieldInv, LockIsRead, HandleWatch
    PROVE  OneComing' /\ Shielded'
<1>0. SafeInv /\ cfg \in Configs /\ stage \in 0..3 /\ sessionLocked \in BOOLEAN
  BY DEF ShieldInv, WatchedInv, SafeInv, TypeOK, LoopTypeOK, SessionTypeOK, stageIdle, stageBlank
<1>1. CASE OnUnknownWatch \/ OnPassedStage
  <2>1. UNCHANGED <<run, stage, gen, launched, saverVars, lockVars>>
    BY <1>1 DEF OnUnknownWatch, OnPassedStage, loopVars
  <2>2. \A l \in LaunchId : Coming(l)' => Coming(l)
    BY <2>1, SameComing DEF saverVars, SameLaunch
  <2> QED
    BY <2>1, <2>2, ShieldKept DEF saverVars, lockVars, Told
<1>2. CASE OnSaver
  <2>1. /\ stage = stageIdle /\ UNCHANGED <<run, gen, launched, lockVars>>
    BY <1>0, <1>2 DEF OnSaver, Reached, stageIdle, stageSaver
  <2>2. current = None /\ \A l \in LaunchId : ~Coming(l)
    BY <1>0, <2>1, IdleIsBare
  <2>3. CASE UNCHANGED saverVars
    <3>1. \A l \in LaunchId : ~Coming(l)'
      BY <2>1, <2>2, <2>3, SameComing DEF saverVars, SameLaunch
    <3> QED
      BY <2>2, <2>3, <3>1, ShieldCleared DEF saverVars
  <2>4. CASE FALSE \in LockReadings /\ StartLaunch(attempts, launches, cancel) /\ UNCHANGED current
    <3>1. ~sessionLocked'
      BY <1>0, <2>1, <2>4 DEF LockReadings, Outcomes, LockIsRead, lockVars
    <3> QED
      BY <2>1, <2>2, <2>4, <3>1, StartLaunchShield DEF Told
  <2> QED
    BY <1>2, <2>3, <2>4 DEF OnSaver
<1>3. CASE OnCycle
  BY <1>3 DEF OnCycle, Signalled, ShieldInv, NoSwap
<1>4. CASE OnLock \/ OnBlank
  <2>1. stage' \in {stageLock, stageBlank} /\ StopSaver
    BY <1>4 DEF OnLock, OnBlank
  <2>2. stage' # stageSaver /\ current' = None
    BY <2>1 DEF StopSaver, stageSaver, stageLock, stageBlank
  <2> QED
    BY <2>2, ShieldCleared
<1>5. CASE OnActive
  BY <1>0, <1>5, NewGenBare, ShieldCleared DEF OnActive, Reset
<1> QED
  BY <1>1, <1>2, <1>3, <1>4, <1>5 DEF HandleWatch

(* What stays in the channel is not what was taken, nor what is on screen. *)
LEMMA ChannelPopped ==
    ASSUME SafeInv, Landed, NEW l \in LaunchId, InChannel(l)'
    PROVE  InChannel(l) /\ l # Head(launched) /\ l # current
<1>1. launched \in Seq(LaunchId) /\ launched # <<>> /\ launched' = Tail(launched)
  BY DEF Landed, SafeInv, TypeOK, SaverTypeOK
<1> PICK i \in DOMAIN launched' : launched'[i] = l
  BY DEF InChannel
<1>2. /\ i + 1 \in DOMAIN launched /\ launched[i + 1] = l /\ i + 1 # 1
      /\ 1 \in DOMAIN launched /\ launched[1] = Head(launched)
  BY <1>1
<1>3. launched[i + 1] # launched[1] /\ launched[i + 1] # current
  BY <1>2 DEF SafeInv, QueueOK
<1> QED
  BY <1>2, <1>3 DEF InChannel

(* A result that is wanted is that of the launch machine.cancel names, and *)
(* no other launch is coming.                                              *)
LEMMA WantedIsCancel ==
    ASSUME ShieldInv, Landed, ~Unwanted(Result)
    PROVE  /\ stage = stageSaver /\ Head(launched) = cancel /\ ~Told
           /\ \A l \in LaunchId \ {Head(launched)} : ~Coming(l)
           /\ launches[Head(launched)].gen = gen
<1> DEFINE h == Head(launched)
<1>1. /\ launched \in Seq(LaunchId) /\ launched # <<>> /\ launched' = Tail(launched)
      /\ launches \in [LaunchId -> Launch] /\ stage \in 0..3 /\ SafeInv
  BY DEF Landed, ShieldInv, WatchedInv, SafeInv, TypeOK, LoopTypeOK, SaverTypeOK, stageIdle,
         stageBlank
<1>2. h \in LaunchId /\ 1 \in DOMAIN launched /\ launched[1] = h
  BY <1>1
<1>3. launches[h].gen = gen /\ stage < stageLock
  BY <1>1 DEF Unwanted, Result, stageLock
<1>4. launches[h].st # "none" /\ LaunchOK(launches[h], gen, stage)
  BY <1>1, <1>2 DEF SafeInv, QueueOK, LaunchesOK
<1>5. stage = stageSaver /\ ~launches[h].canceled
  <2>1. launches[h].canceled \in BOOLEAN
    BY <1>1, <1>2 DEF Launch
  <2>2. stage >= stageSaver /\ ~launches[h].canceled
    BY <1>1, <1>3, <1>4, <2>1 DEF LaunchOK, stageSaver, stageLock
  <2> QED
    BY <1>1, <1>3, <2>2 DEF stageSaver, stageLock
<1>6. Coming(h)
  BY <1>2, <1>3, <1>5 DEF Coming, InFlight, InChannel
<1>7. h = cancel /\ \A l \in LaunchId \ {h} : ~Coming(l)
  BY <1>2, <1>5, <1>6 DEF ShieldInv, OneComing
<1>8. ~Told
  BY <1>2, <1>5, <1>6 DEF ShieldInv, Shielded, Bare
<1> QED
  BY <1>3, <1>5, <1>7, <1>8

(* Once a wanted result is taken, nothing is coming: `ls' are the launches *)
(* left, no one of them made to look in flight.                            *)
LEMMA NothingElseComing ==
    ASSUME ShieldInv, Landed, ~Unwanted(Result), UNCHANGED gen,
           NEW ls, NEW l \in LaunchId,
           ls[l] = launches[l] \/ ls[l] = NoLaunch,
           l = Head(launched) => ls[l].st # "starting",
           InChannel(l)' => ls[l] = launches[l],
           ls[l].st = "starting" \/ InChannel(l)', ls[l].gen = gen
    PROVE  ls[l].canceled
<1>1. l # Head(launched) /\ ls[l] = launches[l] /\ InFlight(l)
  BY ChannelPopped DEF ShieldInv, WatchedInv, InFlight, NoLaunch
<1>2. ~Coming(l)
  BY <1>1, WantedIsCancel
<1> QED
  BY <1>1, <1>2 DEF Coming

LEMMA HandleLaunchShield ==
    ASSUME ShieldInv, HandleLaunch
    PROVE  OneComing' /\ Shielded'
<1> DEFINE h == Head(launched)
<1>0. Landed /\ UNCHANGED <<run, stage, gen, lockVars>> /\ SafeInv
  BY DEF HandleLaunch, OnUnwantedLaunch, OnFailedLaunch, OnLaunchUp, loopVars, ShieldInv,
         WatchedInv
<1>1. /\ h \in LaunchId /\ Received \in [LaunchId -> Launch] /\ Received[h] = NoLaunch
      /\ \A l \in LaunchId \ {h} : Received[l] = launches[l]
  BY <1>0, ReceivedTyped, LandedSafe DEF Received, SafeInv
<1>2. Told' <=> Told
  BY <1>0 DEF Told, lockVars
<1>3. CASE OnUnwantedLaunch
  <2>1. launches' = Received /\ current' = current /\ cancel' = CancelLeft
    BY <1>3 DEF OnUnwantedLaunch
  <2>2. ASSUME NEW l \in LaunchId, Coming(l)'
        PROVE  Coming(l)
    <3>1. InChannel(l)' => InChannel(l) /\ l # h
      BY <1>0, ChannelPopped
    <3>2. l # h
      BY <1>1, <2>1, <2>2, <3>1 DEF Coming, InFlight, NoLaunch
    <3>3. launches'[l] = launches[l]
      BY <1>1, <2>1, <3>2
    <3> QED
      BY <1>0, <2>2, <3>1, <3>3 DEF Coming, InFlight
  <2>3. CASE launches[h].gen = gen
    <3>1. stage # stageSaver
      BY <1>3, <2>3 DEF OnUnwantedLaunch, Unwanted, Result, stageSaver, stageLock
    <3>2. current = None
      BY <1>0, <3>1 DEF SafeInv, ScreenOK
    <3> QED
      BY <1>0, <2>1, <3>1, <3>2, ShieldCleared
  <2>4. CASE launches[h].gen # gen
    <3>1. cancel' = cancel
      BY <2>1, <2>4 DEF CancelLeft, Result
    <3> QED
      BY <1>0, <1>2, <2>1, <2>2, <3>1, ShieldKept
  <2> QED
    BY <2>3, <2>4
<1>4. ASSUME ~Unwanted(Result),
             \A l \in LaunchId : Coming(l)' => l = cancel'
      PROVE  OneComing' /\ Shielded'
  <2>1. ~Told'
    BY <1>0, <1>2, <1>4, WantedIsCancel
  <2> QED
    BY <1>4, <2>1 DEF OneComing, Shielded
<1>5. CASE OnFailedLaunch
  <2>1. ~Unwanted(Result)
    BY <1>5 DEF OnFailedLaunch
  <2>2. CASE Launches(attempts, Received)
    <3>1. ASSUME NEW l \in LaunchId,
                 Received[l].st = "starting" \/ InChannel(l)', Received[l].gen = gen
          PROVE  Received[l].canceled
      <4>1. InChannel(l)' => l # h
        BY <1>0, ChannelPopped
      <4>2. /\ Received[l] = launches[l] \/ Received[l] = NoLaunch
            /\ l = h => Received[l].st # "starting"
            /\ InChannel(l)' => Received[l] = launches[l]
        BY <1>1, <4>1 DEF NoLaunch
      <4> HIDE DEF h
      <4> QED
        BY <1>0, <2>1, <3>1, <4>2, NothingElseComing DEF h
    <3>2. \A l \in LaunchId : Coming(l)' => l = cancel'
      BY <1>0, <1>1, <2>2, <3>1, LaunchAlone
    <3> QED
      BY <1>4, <2>1, <3>2
  <2>3. CASE CloseDead(Received)
    <3>1. ASSUME NEW l \in LaunchId
          PROVE  ~Coming(l)'
      <4>1. InChannel(l)' => l # h /\ l # current
        BY <1>0, ChannelPopped
      <4>2. /\ launches'[l] \in {Received[l], NoLaunch}
            /\ l # current => launches'[l] = Received[l]
        BY <1>1, <2>3 DEF CloseDead
      <4>3. /\ launches'[l] = launches[l] \/ launches'[l] = NoLaunch
            /\ l = h => launches'[l].st # "starting"
            /\ InChannel(l)' => launches'[l] = launches[l]
        <5>1. NoLaunch.st # "starting"
          BY DEF NoLaunch
        <5>2. l = h => launches'[l] = NoLaunch
          BY <1>1, <4>2
        <5>3. l # h => launches'[l] = launches[l] \/ launches'[l] = NoLaunch
          BY <1>1, <4>2
        <5>4. l # h /\ l # current => launches'[l] = launches[l]
          BY <1>1, <4>2
        <5> QED
          BY <4>1, <5>1, <5>2, <5>3, <5>4
      <4> QED
        BY <1>0, <2>1, <4>3, NothingElseComing DEF Coming, InFlight
    <3> QED
      BY <1>4, <2>1, <3>1
  <2> QED
    BY <1>5, <2>2, <2>3 DEF OnFailedLaunch
<1>6. CASE OnLaunchUp
  <2>1. ~Unwanted(Result) /\ launches[h].st = "up" /\ launches' = OutgoingStopped
    BY <1>6 DEF OnLaunchUp, Result
  <2>2. ASSUME NEW l \in LaunchId
        PROVE  ~Coming(l)'
    <3>1. InChannel(l)' => l # current
      BY <1>0, ChannelPopped
    <3>2. launches'[l] = IF l = current THEN NoLaunch ELSE launches[l]
      BY <2>1 DEF OutgoingStopped
    <3>3. /\ launches'[l] = launches[l] \/ launches'[l] = NoLaunch
          /\ l = h => launches'[l].st # "starting"
          /\ InChannel(l)' => launches'[l] = launches[l]
      BY <2>1, <3>1, <3>2 DEF NoLaunch
    <3> QED
      BY <1>0, <2>1, <3>3, NothingElseComing DEF Coming, InFlight
  <2> QED
    BY <1>4, <2>1, <2>2
<1> QED
  BY <1>3, <1>5, <1>6 DEF HandleLaunch

LEMMA HandleExitShield ==
    ASSUME ShieldInv, HandleExit
    PROVE  OneComing' /\ Shielded'
<1>0. /\ SafeInv /\ launches \in [LaunchId -> Launch]
      /\ OneComing /\ Shielded
  BY DEF ShieldInv, WatchedInv, SafeInv, TypeOK, SaverTypeOK
<1>1. CASE OnModuleExit
  <2>1. /\ current \in LaunchId /\ current # None
        /\ UNCHANGED <<run, stage, gen, launched, lockVars>>
    BY <1>0, <1>1 DEF OnModuleExit, DoneClosed, ShieldInv, WatchedInv, Watched, DeadOK,
       SafeInv, TypeOK, SaverTypeOK, loopVars
  <2>2. ~Told' /\ stage = stageSaver
    BY <1>0, <2>1 DEF Shielded, Bare, Told, SafeInv, ScreenOK, lockVars
  <2>3. cancel = None => \A l \in LaunchId : ~Coming(l)
    BY <1>0, <2>2, NoneAssumption DEF OneComing
  <2>4. CASE UNCHANGED <<launches, cancel, current>>
    <3>1. \A l \in LaunchId : Coming(l)' => Coming(l)
      BY <2>1, <2>4, SameComing DEF SameLaunch
    <3> QED
      BY <2>1, <2>2, <2>4, <3>1, ShieldKept
  <2>5. CASE cancel = None /\ launches' = [launches EXCEPT ![current] = NoLaunch]
    <3>1. ASSUME NEW l \in LaunchId
          PROVE  ~Coming(l)'
      <4>1. InChannel(l)' => InChannel(l) /\ l # current
        BY <1>0, <2>1 DEF InChannel, SafeInv, QueueOK
      <4>2. launches'[l] = IF l = current THEN NoLaunch ELSE launches[l]
        BY <1>0, <2>5
      <4> QED
        BY <2>1, <2>3, <2>5, <4>1, <4>2 DEF Coming, InFlight, NoLaunch
    <3> QED
      BY <2>2, <3>1 DEF OneComing, Shielded
  <2>6. CASE cancel = None /\ Launches(0, launches)
    <3>1. \A l \in LaunchId :
              (launches[l].st = "starting" \/ InChannel(l)') /\ launches[l].gen = gen
                  => launches[l].canceled
      BY <2>1, <2>3, <2>6 DEF Coming, InFlight, InChannel
    <3>2. \A l \in LaunchId : Coming(l)' => l = cancel'
      BY <1>0, <2>1, <2>6, <3>1, LaunchAlone
    <3> QED
      BY <2>2, <3>2 DEF OneComing, Shielded
  <2> QED
    BY <1>1, <2>4, <2>5, <2>6 DEF OnModuleExit
<1>2. CASE OnCopyExit
  <2> PICK i \in Monitor :
        /\ CopyExited(i)
        /\ launches' \in {Reported(i), Replaced(i)}
        /\ UNCHANGED <<loopVars, stage, gen, launched, cancel, current, lockVars>>
    BY <1>2 DEF OnCopyExit
  <2>1. current \in LaunchId
    BY DEF CopyExited, ShieldInv, WatchedInv, SafeInv, TypeOK, SaverTypeOK
  <2>2. \A l \in LaunchId : SameLaunch(l)
    <3>1. launches[current] \in Launch
      BY <1>0, <2>1
    <3> QED
      BY <1>0, <2>1, <3>1 DEF Reported, Replaced, Launch, SameLaunch
  <2>3. \A l \in LaunchId : Coming(l)' => Coming(l)
    BY <2>2, SameComing
  <2>4. Told' => Told
    BY DEF Told, loopVars, lockVars
  <2> QED
    BY <2>3, <2>4, ShieldKept
<1>3. CASE OnCopyExitPanic
  <2>1. current' = None /\ stage' # stageSaver
    BY <1>3 DEF OnCopyExitPanic, Teardown, stageIdle, stageSaver
  <2> QED
    BY <2>1, ShieldCleared
<1> QED
  BY <1>1, <1>2, <1>3 DEF HandleExit

(* onLockChange looks at machine.cancel and at the screen: with neither,   *)
(* or past the saver stage, there is nothing to stop.                      *)
LEMMA HandleLockShield ==
    ASSUME ShieldInv, HandleLockChange
    PROVE  OneComing' /\ Shielded'
<1>0. /\ SafeInv /\ locks \in Seq(BOOLEAN) /\ sessionLocked \in BOOLEAN
      /\ OneComing /\ LocksOK
  BY DEF ShieldInv, WatchedInv, SafeInv, TypeOK, SessionTypeOK
<1>1. CASE OnLockStops
  BY <1>0, <1>1, NewGenBare, ShieldCleared DEF OnLockStops
<1>2. CASE LockWatcherLost
  <2>1. UNCHANGED <<stage, gen, launched, saverVars>> /\ ~Told'
    BY <1>2 DEF LockWatcherLost, Told
  <2>2. \A l \in LaunchId : Coming(l)' => Coming(l)
    BY <2>1, SameComing DEF saverVars, SameLaunch
  <2> QED
    BY <2>1, <2>2, ShieldKept DEF saverVars
<1>3. CASE OnLockIgnored
  <2>1. /\ UNCHANGED <<run, stage, gen, launched, saverVars, sessionLocked, lockWatch>>
        /\ locks # <<>> /\ locks' = Tail(locks)
        /\ Head(locks) = TRUE => stage # stageSaver \/ ~Launching
    BY <1>0, <1>3 DEF OnLockIgnored, LockChanged, loopVars
  <2>2. \A l \in LaunchId : Coming(l)' => Coming(l)
    BY <2>1, SameComing DEF saverVars, SameLaunch
  <2>3. Told' => Bare'
    <3> SUFFICES ASSUME Told'
                 PROVE  Bare'
      OBVIOUS
    <3>1. lockWatch /\ sessionLocked = TRUE /\ Tail(locks) = <<>>
      BY <1>0, <2>1 DEF Told
    <3>2. Head(locks) = locks[Len(locks)]
      BY <1>0, <2>1, <3>1, LastIsHead
    <3>3. Head(locks) = TRUE
      BY <1>0, <2>1, <3>1, <3>2 DEF LocksOK
    <3>4. stage # stageSaver \/ (current = None /\ cancel = None)
      BY <2>1, <3>3 DEF Launching
    <3>5. Bare
      BY <1>0, <3>4, NoneAssumption DEF Bare, SafeInv, ScreenOK, OneComing
    <3> QED
      BY <2>1, <2>2, <3>5 DEF Bare, saverVars
  <2>4. OneComing'
    BY <1>0, <2>1, <2>2 DEF OneComing, saverVars
  <2> QED
    BY <2>3, <2>4 DEF Shielded
<1> QED
  BY <1>1, <1>2, <1>3 DEF HandleLockChange

LEMMA EnvironmentShield ==
    ASSUME ShieldInv, Environment
    PROVE  OneComing' /\ Shielded'
<1>0. /\ launches \in [LaunchId -> Launch] /\ launched \in Seq(LaunchId)
      /\ locks \in Seq(BOOLEAN)
  BY DEF ShieldInv, WatchedInv, SafeInv, TypeOK, SaverTypeOK, SessionTypeOK
<1>1. /\ UNCHANGED <<stage, gen, cancel, current>>
  BY DEF Environment, LaunchSettles, LaunchReturns, ProcessDies, ModuleDies, MutterFires, Fire,
     Tick, Activity, SessionLocks, UserUnlocks, UserActivity, saverVars
<1>2. ASSUME NEW l \in LaunchId, LaunchReturns(l)
      PROVE  OneComing' /\ Shielded'
  <2>1. /\ launches[l].st = "starting" /\ launched' = Append(launched, l)
        /\ UNCHANGED <<run, lockVars>>
    BY <1>2 DEF LaunchReturns, loopVars
  <2>2. /\ launches'[l].gen = launches[l].gen
        /\ launches'[l].canceled = launches[l].canceled
        /\ \A m \in LaunchId \ {l} : launches'[m] = launches[m]
    <3>1. launches[l] \in Launch
      BY <1>0
    <3>2. ASSUME NEW windows, NEW alive, LaunchUp(l, windows, alive)
          PROVE  /\ launches'[l].gen = launches[l].gen
                 /\ launches'[l].canceled = launches[l].canceled
                 /\ \A m \in LaunchId \ {l} : launches'[m] = launches[m]
      BY <1>0, <3>1, <3>2 DEF LaunchUp, Launch
    <3>3. CASE \/ LaunchUp(l, {1}, {1})
               \/ \E w \in WindowCounts(launches[l].names) :
                     \E alive \in SUBSET (1..w) \ {{}} : LaunchUp(l, 1..w, alive)
      BY <3>2, <3>3
    <3>4. CASE \/ launches' = [launches EXCEPT ![l].st = "failed"]
               \/ launches' = [launches EXCEPT ![l].st = "canceled"]
      BY <1>0, <3>1, <3>4 DEF Launch
    <3> QED
      BY <1>2, <3>3, <3>4 DEF LaunchReturns
  <2>3. ASSUME NEW m \in LaunchId, Coming(m)'
        PROVE  Coming(m)
    <3>1. CASE m = l
      BY <1>1, <2>1, <2>2, <2>3, <3>1 DEF Coming, InFlight
    <3>2. CASE m # l
      <4>1. InChannel(m)' => InChannel(m)
        <5> SUFFICES ASSUME NEW i \in DOMAIN launched', launched'[i] = m
                     PROVE  i \in DOMAIN launched /\ launched[i] = m
          BY DEF InChannel
        <5> QED
          BY <1>0, <2>1, <3>2
      <4> QED
        BY <1>1, <2>2, <2>3, <3>2, <4>1 DEF Coming, InFlight
    <3> QED
      BY <3>1, <3>2
  <2> QED
    BY <1>1, <2>1, <2>3, ShieldKept DEF Told, lockVars
<1>3. ASSUME UNCHANGED launched, \A l \in LaunchId : SameLaunch(l), Told' => Told
      PROVE  OneComing' /\ Shielded'
  BY <1>1, <1>3, SameComing, ShieldKept
<1>4. ASSUME NEW l \in LaunchId, NEW i \in Monitor, ModuleDies(l, i)
      PROVE  OneComing' /\ Shielded'
  <2>1. \A m \in LaunchId : SameLaunch(m)
    <3>1. launches[l] \in Launch
      BY <1>0
    <3> QED
      BY <1>0, <1>4, <3>1 DEF ModuleDies, Launch, SameLaunch
  <2> QED
    BY <1>3, <1>4, <2>1 DEF ModuleDies, Told, loopVars, lockVars
<1>5. CASE MutterFires \/ Tick \/ Activity
  BY <1>3, <1>5
  DEF MutterFires, Fire, Tick, Activity, UserActivity, Told, loopVars, lockVars, saverVars,
      SameLaunch
<1>6. CASE SessionLocks \/ UserUnlocks
  <2>1. ~Told'
    <3>1. LockChange(TRUE) \/ LockChange(FALSE)
      BY <1>6 DEF SessionLocks, UserUnlocks
    <3>2. \A b \in BOOLEAN : Append(locks, b) # <<>>
      BY <1>0, AppendNotEmpty
    <3> QED
      BY <3>1, <3>2 DEF LockChange, Told
  <2> QED
    BY <1>3, <1>6, <2>1
    DEF SessionLocks, UserUnlocks, UserActivity, saverVars, SameLaunch
<1> QED
  BY <1>2, <1>4, <1>5, <1>6 DEF Environment, LaunchSettles, ProcessDies

LEMMA NoSwapStep ==
    ASSUME TypeOK, SwapsOff, NoSwap(watches), [Next]_vars
    PROVE  NoSwap(watches')
<1>0. gen \in Nat /\ gen + 1 \in Nat /\ cfg \in Configs
  BY DEF TypeOK, LoopTypeOK
<1>1. CASE watches' = watches
  BY <1>1
<1>2. ASSUME NEW c \in Configs, NEW g \in Nat, NEW armed \in Armings(c, g), watches' = armed
      PROVE  NoSwap(watches')
  BY <1>2, NoSwapOf
<1>3. ASSUME NEW active \in ActiveArmings, watches' = watches \cup active
      PROVE  NoSwap(watches')
  BY <1>3, NoSwapOf DEF NoSwap
<1>4. CASE watches' = {}
  BY <1>4 DEF NoSwap
<1>5. CASE HandleWatch
  <2>1. CASE OnSaver
    <3> PICK active \in ActiveArmings :
          \/ Register(active)
          \/ ArmCycle(cycles, watches \cup active, registered \cup active)
      BY <2>1 DEF OnSaver
    <3>1. watches' = watches \cup active
      BY <1>0 DEF Register, ArmCycle, SwapsOff
    <3> QED
      BY <1>3, <3>1
  <2>2. CASE OnCycle
    BY <2>2 DEF OnCycle, Signalled, NoSwap
  <2>3. CASE OnLock \/ OnBlank
    BY <1>3, <2>3 DEF OnLock, OnBlank, Register
  <2>4. CASE OnActive
    BY <1>0, <1>2, <2>4 DEF OnActive, Rearm
  <2>5. CASE OnUnknownWatch \/ OnPassedStage
    BY <1>1, <2>5 DEF OnUnknownWatch, OnPassedStage, watchVars
  <2> QED
    BY <1>5, <2>1, <2>2, <2>3, <2>4, <2>5 DEF HandleWatch
<1>6. CASE Start
  BY <1>0, <1>1, <1>2, <1>6 DEF Start, Connected, NotConnected, watchVars
<1>7. CASE HandleLaunch
  BY <1>1, <1>7 DEF HandleLaunch, OnUnwantedLaunch, OnFailedLaunch, OnLaunchUp, watchVars
<1>8. CASE HandleExit
  BY <1>1, <1>4, <1>8
     DEF HandleExit, OnModuleExit, OnCopyExit, OnCopyExitPanic, Teardown, watchVars
<1>9. CASE HandleLockChange
  BY <1>1, <1>9 DEF HandleLockChange, OnLockIgnored, OnLockStops, LockWatcherLost, watchVars
<1>10. CASE Reload
  BY <1>0, <1>1, <1>2, <1>10 DEF Reload, Rearm, vars, watchVars
<1>11. CASE Terminate \/ LoseMutter \/ Die
  BY <1>4, <1>11 DEF Terminate, LoseMutter, Die, Teardown
<1>12. CASE Environment
  BY <1>1, <1>12
     DEF Environment, LaunchSettles, LaunchReturns, ProcessDies, ModuleDies, MutterFires,
         Fire, Tick, Activity, SessionLocks, UserUnlocks, UserActivity, watchVars
<1>13. CASE UNCHANGED vars
  BY <1>1, <1>13 DEF vars, watchVars
<1> QED
  BY <1>5, <1>6, <1>7, <1>8, <1>9, <1>10, <1>11, <1>12, <1>13 DEF Next, Loop

LEMMA ShieldStep ==
    ASSUME SwapsOff, LockIsRead, ShieldInv, [Next]_vars
    PROVE  ShieldInv'
<1>0. SafeInv /\ TypeOK /\ LocksOK /\ PromiseInv /\ WatchedInv /\ NoSwap(watches)
  BY DEF ShieldInv, WatchedInv, SafeInv
<1>1. PromiseInv' /\ WatchedInv' /\ NoSwap(watches)' /\ LocksOK'
  BY <1>0, PromiseStep, WatchedStep, NoSwapStep, LocksStep
<1>2. CASE Start
  <2>1. /\ stage = stageIdle /\ UNCHANGED <<gen, launched, saverVars>>
    BY <1>0, <1>2 DEF PromiseInv, Start, Connected, NotConnected
  <2>2. current = None /\ \A l \in LaunchId : ~Coming(l)'
    BY <1>0, <2>1, IdleIsBare, SameComing DEF saverVars, SameLaunch
  <2>3. OneComing' /\ Shielded'
    BY <2>1, <2>2, ShieldCleared DEF saverVars
  <2> QED
    BY <1>1, <2>3 DEF ShieldInv
<1>3. CASE HandleWatch
  BY <1>1, <1>3, HandleWatchShield DEF ShieldInv
<1>4. CASE HandleLaunch
  BY <1>1, <1>4, HandleLaunchShield DEF ShieldInv
<1>5. CASE HandleExit
  BY <1>1, <1>5, HandleExitShield DEF ShieldInv
<1>6. CASE HandleLockChange
  BY <1>1, <1>6, HandleLockShield DEF ShieldInv
<1>7. CASE UNCHANGED vars
  <2>1. \A l \in LaunchId : Coming(l)' => Coming(l)
    BY <1>7, SameComing DEF vars, saverVars, SameLaunch
  <2>2. OneComing' /\ Shielded'
    BY <1>7, <2>1, ShieldKept DEF vars, loopVars, saverVars, lockVars, Told
  <2> QED
    BY <1>1, <2>2 DEF ShieldInv
<1>8. CASE Reload
  <2>1. CASE StopSaver /\ gen' = gen + 1
    <3>1. OneComing' /\ Shielded'
      BY <1>0, <2>1, NewGenBare, ShieldCleared
    <3> QED
      BY <1>1, <3>1 DEF ShieldInv
  <2> QED
    BY <1>7, <1>8, <2>1 DEF Reload, Reset
<1>9. CASE Terminate \/ LoseMutter \/ Die
  <2>1. current' = None /\ stage' # stageSaver
    BY <1>9 DEF Terminate, LoseMutter, Die, Teardown, stageIdle, stageSaver
  <2>2. OneComing' /\ Shielded'
    BY <2>1, ShieldCleared
  <2> QED
    BY <1>1, <2>2 DEF ShieldInv
<1>10. CASE Environment
  BY <1>1, <1>10, EnvironmentShield DEF ShieldInv
<1> QED
  BY <1>2, <1>3, <1>4, <1>5, <1>6, <1>7, <1>8, <1>9, <1>10 DEF Next, Loop

LEMMA ShieldInit ==
    Init => ShieldInv
<1> SUFFICES ASSUME Init
             PROVE  ShieldInv
  OBVIOUS
<1>1. PromiseInv /\ WatchedInv
  BY PromiseInit, WatchedInit
<1>2. NoSwap(watches) /\ OneComing /\ LocksOK /\ Shielded
  BY DEF Init, NoSwap, OneComing, LocksOK, Shielded, Told, stageIdle, stageSaver
<1> QED
  BY <1>1, <1>2 DEF ShieldInv

(* Once the daemon has been told that the session is locked, nothing is on  *)
(* screen and nothing is on its way there: so as long as no configuration   *)
(* swaps modules and the lock state, when asked for, can be read            *)
(* (onLockChange, onSaver, onModuleExit, handleLaunch).                     *)
THEOREM NothingIsBehindShield ==
    ASSUME SwapsOff, LockIsRead
    PROVE  Spec => []NothingBehindShield
<1>1. ShieldInv /\ [Next]_vars => ShieldInv'
  BY ShieldStep
<1>2. ShieldInv => NothingBehindShield
  BY DEF ShieldInv, Shielded, Told, Bare, NothingBehindShield, Running
<1> QED
  BY <1>1, <1>2, ShieldInit, PTL DEF Spec
=============================================================================
