---------------------------- MODULE DaemonProofs ----------------------------
(***************************************************************************)
(* What holds of the daemon for every configuration, number of launches    *)
(* and monitors, and choice of faults.                                     *)
(***************************************************************************)
EXTENDS Daemon, TLAPS

(***************************************************************************)
(* Lemmas about the pieces the handlers share.                             *)
(***************************************************************************)

(* What arming registers are watches of the generation asked for. *)
LEMMA ArmingsTyped ==
    ASSUME NEW c \in Configs, NEW g \in Nat, NEW armed \in Armings(c, g)
    PROVE  armed \subseteq Watches
BY ConfigsAssumption
DEF Armings, ArmedBefore, IdleWatches, Watch, Watches, Kinds, Config,
    LockAt, BlankAt, LockEnabled, BlankEnabled

(* Swaps are numbered from 1, and their watches are watches. *)
LEMMA SwapNumbersTyped ==
    ASSUME cfg \in Configs, idle \in Nat, CycleEnabled(cfg),
           NEW done \in Nat, NEW n \in SwapNumbers(done)
    PROVE  n \in Nat /\ n >= 1
<1>1. cfg.cycleAfter \in Nat \ {0} /\ cfg.saverDelay \in Nat
  BY ConfigsAssumption DEF Config, CycleEnabled
<1>2. (idle - cfg.saverDelay) \div cfg.cycleAfter \in Int
  BY <1>1
<1>3. NextSwap(cfg, done, idle) \in Nat /\ NextSwap(cfg, done, idle) >= 1
  BY <1>2 DEF NextSwap
<1> QED
  BY <1>3 DEF SwapNumbers, Outcomes

LEMMA CycleArmingsTyped ==
    ASSUME cfg \in Configs, gen \in Nat, NEW n \in Nat, NEW new \in CycleArmings(n)
    PROVE  new \subseteq Watches
<1>1. cfg.cycleAfter \in Nat /\ cfg.saverDelay \in Nat
  BY ConfigsAssumption DEF Config
<1>2. SwapAt(cfg, n) \in Nat
  BY <1>1 DEF SwapAt
<1> QED
  BY <1>2 DEF CycleArmings, Outcomes, Watch, Watches, Kinds

LEMMA ActiveArmingsTyped ==
    ASSUME gen \in Nat, NEW new \in ActiveArmings
    PROVE  new \subseteq Watches
BY DEF ActiveArmings, Outcomes, ActiveWatch, Watch, Watches, Kinds

(* A launch that may be started, and one that is given up, are launches. *)
LEMMA LaunchesTyped ==
    ASSUME gen \in Nat
    PROVE  /\ NoLaunch \in Launch
           /\ \A n \in NameCounts : NewLaunch(n) \in Launch
           /\ launches \in [LaunchId -> Launch] =>
                \A l \in LaunchId : Abandon(l) \in Launch
<1>1. NoLaunch \in Launch
  BY BoundsAssumption DEF NoLaunch, Launch
<1>2. \A n \in NameCounts : n \in 0..Monitors
  BY BoundsAssumption DEF NameCounts, Monitor
<1>3. \A n \in NameCounts : NewLaunch(n) \in Launch
  BY <1>2 DEF NewLaunch, Launch
<1>4. launches \in [LaunchId -> Launch] => \A l \in LaunchId : Abandon(l) \in Launch
  BY DEF Abandon, Launch
<1> QED
  BY <1>1, <1>3, <1>4

(* A call that may fail leaves one of two values behind. *)
LEMMA OutcomesTyped ==
    ASSUME NEW S, NEW ok \in S, NEW failed \in S, NEW fault
    PROVE  Outcomes(ok, fault, failed) \subseteq S
BY DEF Outcomes

LEMMA EmptySeqTyped ==
    \A S : <<>> \in Seq(S)
OBVIOUS

LEMMA AppendTyped ==
    \A S : \A s \in Seq(S), e \in S : Append(s, e) \in Seq(S)
OBVIOUS

LEMMA TailTyped ==
    \A S : \A s \in Seq(S) : s # <<>> => Tail(s) \in Seq(S) /\ Head(s) \in S
OBVIOUS

LEMMA AbandonedTyped ==
    ASSUME launches \in [LaunchId -> Launch], gen \in Nat
    PROVE  Abandoned \in [LaunchId -> Launch]
BY LaunchesTyped DEF Abandoned

LEMMA StopSaverTyped ==
    ASSUME SaverTypeOK, gen \in Nat, StopSaver, launched' \in Seq(LaunchId)
    PROVE  SaverTypeOK'
BY AbandonedTyped DEF SaverTypeOK, StopSaver

(* startLaunch keeps its variables typed, whatever it starts from. *)
LEMMA StartLaunchTyped ==
    ASSUME gen \in Nat, NEW tries \in Nat, NEW ls \in [LaunchId -> Launch],
           NEW pending \in LaunchId \cup {None}, StartLaunch(tries, ls, pending)
    PROVE  /\ launches' \in [LaunchId -> Launch]
           /\ cancel' \in LaunchId \cup {None}
           /\ attempts' \in Nat
BY LaunchesTyped DEF StartLaunch, Launches

LEMMA ArmCycleTyped ==
    ASSUME cfg \in Configs, idle \in Nat, gen \in Nat,
           NEW done \in Nat, NEW known \in SUBSET Watches,
           NEW held \in SUBSET Watches, ArmCycle(done, known, held)
    PROVE  /\ cycles' \in Nat
           /\ watches' \subseteq Watches
           /\ registered' \subseteq Watches /\ held \subseteq registered'
<1>1. CASE CycleEnabled(cfg)
  <2>1. PICK n \in SwapNumbers(done) : \E new \in CycleArmings(n) :
            /\ cycles' = n - 1
            /\ watches' = known \cup new
            /\ registered' = held \cup new
    BY <1>1 DEF ArmCycle
  <2>2. n \in Nat /\ n >= 1
    BY <1>1, SwapNumbersTyped
  <2>3. \A new \in CycleArmings(n) : new \subseteq Watches
    BY <2>2, CycleArmingsTyped
  <2> QED
    BY <2>1, <2>2, <2>3
<1>2. CASE ~CycleEnabled(cfg)
  BY <1>2 DEF ArmCycle
<1> QED
  BY <1>1, <1>2

LEMMA RearmTyped ==
    ASSUME WatchTypeOK, gen \in Nat, NEW c \in Configs,
           NEW armed \in Armings(c, gen + 1), Rearm(c, gen + 1, armed)
    PROVE  /\ watches' \subseteq Watches /\ activeArmed' \in BOOLEAN
           /\ registered' \subseteq Watches /\ spent' \subseteq registered'
           /\ fatal' \in BOOLEAN
<1>1. armed \subseteq Watches
  BY ArmingsTyped
<1> QED
  BY <1>1 DEF WatchTypeOK, Rearm

(* Adding the watches a stage registers. *)
LEMMA RegisterTyped ==
    ASSUME WatchTypeOK, NEW new \in SUBSET Watches, Register(new)
    PROVE  /\ watches' \subseteq Watches
           /\ registered' \subseteq Watches /\ spent' \subseteq registered'
BY DEF WatchTypeOK, Register

(***************************************************************************)
(* Teardown leaves every variable typed.                                   *)
(***************************************************************************)
LEMMA TeardownTyped ==
    ASSUME TypeOK, NEW outcome \in {"stopped", "failed", "panicked"}, Teardown(outcome)
    PROVE  TypeOK'
<1>1. LoopTypeOK'
  <2>1. run' = outcome /\ fatal' = FALSE /\ gen' = gen + 1 /\ stage' = 0
        /\ cfg' = cfg /\ idle' = idle
    BY DEF Teardown, stageIdle
  <2>2. cfg \in Configs /\ gen \in Nat /\ idle \in Nat
    BY DEF TypeOK, LoopTypeOK
  <2>3. cfg' \in Configs
    BY <2>1, <2>2
  <2>4. gen' \in Nat /\ idle' \in Nat /\ stage' \in 0..3
    BY <2>1, <2>2
  <2>5. run' \in {"starting", "running", "stopped", "failed", "panicked"}
    BY <2>1
  <2>6. fatal' \in BOOLEAN
    BY <2>1
  <2> QED
    BY <2>3, <2>4, <2>5, <2>6 DEF LoopTypeOK, stageIdle, stageBlank
<1>2. WatchTypeOK'
  <2>1. watches' = {} /\ activeArmed' = FALSE /\ registered' = {} /\ spent' = {}
        /\ fired' = <<>>
    BY DEF Teardown
  <2> QED
    BY <2>1, EmptySeqTyped DEF WatchTypeOK
<1>3. SaverTypeOK'
  <2>1. launches' \in [LaunchId -> Launch]
    BY AbandonedTyped, LaunchesTyped DEF TypeOK, LoopTypeOK, SaverTypeOK, Teardown
  <2>2. launched' \in Seq(LaunchId)
    BY DEF TypeOK, SaverTypeOK, Teardown
  <2> QED
    BY <2>1, <2>2 DEF SaverTypeOK, Teardown
<1>4. CountTypeOK'
  BY BoundsAssumption DEF CountTypeOK, Teardown
<1>5. SessionTypeOK'
  <2>1. lockWatch' = FALSE /\ locks' = <<>> /\ blanked' = FALSE
        /\ sessionLocked' = sessionLocked
        /\ idleDelay' \in Outcomes(UserIdleDelay, "setDelay", idleDelay)
    BY DEF Teardown
  <2>2. idleDelay' \in Nat
    BY <2>1, DelaysAssumption DEF TypeOK, SessionTypeOK, Outcomes
  <2> QED
    BY <2>1, <2>2, EmptySeqTyped DEF TypeOK, SessionTypeOK
<1> QED
  BY <1>1, <1>2, <1>3, <1>4, <1>5 DEF TypeOK

(***************************************************************************)
(* A variable that does not change keeps its type.                         *)
(***************************************************************************)
LEMMA LoopKept ==
    ASSUME LoopTypeOK, UNCHANGED <<loopVars, stage, gen, idle>>
    PROVE  LoopTypeOK'
BY DEF LoopTypeOK, loopVars

LEMMA WatchKept ==
    ASSUME WatchTypeOK, UNCHANGED watchVars, fired' \in Seq(Watches)
    PROVE  WatchTypeOK'
BY DEF WatchTypeOK, watchVars

LEMMA SaverKept ==
    ASSUME SaverTypeOK, UNCHANGED <<launched, saverVars>>
    PROVE  SaverTypeOK'
BY DEF SaverTypeOK, saverVars

LEMMA CountKept ==
    ASSUME CountTypeOK, UNCHANGED countVars
    PROVE  CountTypeOK'
BY DEF CountTypeOK, countVars

LEMMA SessionKept ==
    ASSUME SessionTypeOK, UNCHANGED <<delayVars, lockVars>>
    PROVE  SessionTypeOK'
BY DEF SessionTypeOK, delayVars, lockVars

(***************************************************************************)
(* The handlers of idle signals.                                           *)
(***************************************************************************)
LEMMA SignalledTyped ==
    ASSUME WatchTypeOK, Running, fired # <<>>, fired' = Tail(fired)
    PROVE  fired' \in Seq(Watches)
BY DEF WatchTypeOK

LEMMA IgnoredSignalTyped ==
    ASSUME TypeOK, OnUnknownWatch \/ OnPassedStage
    PROVE  TypeOK'
<1>1. UNCHANGED <<loopVars, stage, gen, watchVars, launched, saverVars,
                  countVars, delayVars, idle, lockVars>>
  BY DEF OnUnknownWatch, OnPassedStage
<1>2. fired' \in Seq(Watches)
  BY SignalledTyped DEF TypeOK, OnUnknownWatch, OnPassedStage, Signalled
<1> QED
  BY <1>1, <1>2, LoopKept, WatchKept, SaverKept, CountKept, SessionKept DEF TypeOK

LEMMA OnSaverTyped ==
    ASSUME TypeOK, OnSaver
    PROVE  TypeOK'
<1> PICK active \in ActiveArmings :
        /\ EnsureActiveWatch(active)
        /\ \/ /\ Register(active)
              /\ UNCHANGED <<saverVars, countVars>>
           \/ /\ ArmCycle(cycles, watches \cup active, registered \cup active)
              /\ spent' = spent
              /\ StartLaunch(attempts, launches, cancel)
              /\ UNCHANGED <<current, watching, dead, deaths, monitorDeaths>>
  BY DEF OnSaver
<1>1. stage' = stageSaver /\ Signalled("saver")
      /\ UNCHANGED <<run, cfg, gen, launched, delayVars, idle, lockVars>>
  BY DEF OnSaver
<1>2. active \subseteq Watches
  BY ActiveArmingsTyped DEF TypeOK, LoopTypeOK
<1>3. LoopTypeOK' /\ activeArmed' \in BOOLEAN
  BY <1>1 DEF TypeOK, LoopTypeOK, WatchTypeOK, EnsureActiveWatch, stageIdle, stageSaver, stageBlank
<1>4. fired' \in Seq(Watches)
  BY <1>1, SignalledTyped DEF TypeOK, Signalled
<1>5. SessionTypeOK'
  BY <1>1, SessionKept DEF TypeOK
<1>6. CASE Register(active) /\ UNCHANGED <<saverVars, countVars>>
  <2>1. WatchTypeOK'
    BY <1>2, <1>3, <1>4, <1>6, RegisterTyped DEF TypeOK, WatchTypeOK
  <2> QED
    BY <1>1, <1>3, <1>5, <1>6, <2>1, SaverKept, CountKept DEF TypeOK
<1>7. CASE /\ ArmCycle(cycles, watches \cup active, registered \cup active)
           /\ spent' = spent
           /\ StartLaunch(attempts, launches, cancel)
           /\ UNCHANGED <<current, watching, dead, deaths, monitorDeaths>>
  <2>0. /\ cycles \in Nat
        /\ watches \cup active \in SUBSET Watches
        /\ registered \cup active \in SUBSET Watches
    BY <1>2 DEF TypeOK, WatchTypeOK, CountTypeOK
  <2>1. /\ cycles' \in Nat /\ watches' \subseteq Watches
        /\ registered' \subseteq Watches /\ registered \cup active \subseteq registered'
    BY <1>7, <2>0, ArmCycleTyped DEF TypeOK, LoopTypeOK
  <2>2. /\ launches' \in [LaunchId -> Launch]
        /\ cancel' \in LaunchId \cup {None} /\ attempts' \in Nat
    BY <1>7, StartLaunchTyped DEF TypeOK, LoopTypeOK, SaverTypeOK, CountTypeOK
  <2>3. WatchTypeOK'
    BY <1>3, <1>4, <1>7, <2>1 DEF TypeOK, WatchTypeOK
  <2>4. SaverTypeOK'
    BY <1>1, <1>7, <2>2 DEF TypeOK, SaverTypeOK
  <2>5. CountTypeOK'
    BY <1>7, <2>1, <2>2 DEF TypeOK, CountTypeOK
  <2> QED
    BY <1>3, <1>5, <2>3, <2>4, <2>5 DEF TypeOK
<1> QED
  BY <1>6, <1>7

LEMMA OnCycleTyped ==
    ASSUME TypeOK, OnCycle
    PROVE  TypeOK'
<1> DEFINE known == watches \ {Head(fired)}
<1> PICK removed \in Removals({Head(fired)}) :
        /\ spent' = spent \ removed
        /\ \/ /\ watches' = known /\ registered' = registered \ removed
              /\ UNCHANGED <<saverVars, countVars>>
           \/ /\ ArmCycle(cycles + 1, known, registered \ removed)
              /\ StartLaunch(0, launches, cancel)
              /\ UNCHANGED <<current, watching, dead, deaths, monitorDeaths>>
  BY DEF OnCycle
<1>1. Signalled("cycle")
      /\ UNCHANGED <<loopVars, stage, gen, activeArmed, launched, delayVars, idle, lockVars>>
  BY DEF OnCycle
<1>2. LoopTypeOK' /\ activeArmed' \in BOOLEAN
  BY <1>1, LoopKept DEF TypeOK, WatchTypeOK
<1>3. SessionTypeOK'
  BY <1>1, SessionKept DEF TypeOK
<1>4. fired' \in Seq(Watches)
  BY <1>1, SignalledTyped DEF TypeOK, Signalled
<1>5. known \subseteq Watches /\ registered \ removed \subseteq Watches
      /\ spent \ removed \subseteq registered \ removed
  BY DEF TypeOK, WatchTypeOK
<1>6. CASE watches' = known /\ registered' = registered \ removed
           /\ UNCHANGED <<saverVars, countVars>>
  <2>1. WatchTypeOK'
    BY <1>2, <1>4, <1>5, <1>6 DEF WatchTypeOK
  <2> QED
    BY <1>1, <1>2, <1>3, <1>6, <2>1, SaverKept, CountKept DEF TypeOK
<1>7. CASE /\ ArmCycle(cycles + 1, known, registered \ removed)
           /\ StartLaunch(0, launches, cancel)
           /\ UNCHANGED <<current, watching, dead, deaths, monitorDeaths>>
  <2>1. cycles + 1 \in Nat /\ 0 \in Nat
    BY DEF TypeOK, CountTypeOK
  <2>2. /\ cycles' \in Nat /\ watches' \subseteq Watches
        /\ registered' \subseteq Watches /\ registered \ removed \subseteq registered'
    BY <1>5, <1>7, <2>1, ArmCycleTyped DEF TypeOK, LoopTypeOK
  <2>3. /\ launches' \in [LaunchId -> Launch]
        /\ cancel' \in LaunchId \cup {None} /\ attempts' \in Nat
    BY <1>7, <2>1, StartLaunchTyped DEF TypeOK, LoopTypeOK, SaverTypeOK
  <2>4. WatchTypeOK'
    BY <1>2, <1>4, <1>5, <2>2 DEF WatchTypeOK
  <2>5. SaverTypeOK'
    BY <1>1, <1>7, <2>3 DEF TypeOK, SaverTypeOK
  <2>6. CountTypeOK'
    BY <1>7, <2>2, <2>3 DEF TypeOK, CountTypeOK
  <2> QED
    BY <1>2, <1>3, <2>4, <2>5, <2>6 DEF TypeOK
<1> QED
  BY <1>6, <1>7

LEMMA OnLockOrBlankTyped ==
    ASSUME TypeOK, OnLock \/ OnBlank
    PROVE  TypeOK'
<1> PICK active \in ActiveArmings : EnsureActiveWatch(active) /\ Register(active)
  BY DEF OnLock, OnBlank
<1>1. /\ stage' \in {stageLock, stageBlank} /\ StopSaver
      /\ \E kind : Signalled(kind)
      /\ UNCHANGED <<run, cfg, gen, launched, countVars, idle>>
  BY DEF OnLock, OnBlank
<1>2. active \subseteq Watches
  BY ActiveArmingsTyped DEF TypeOK, LoopTypeOK
<1>3. LoopTypeOK' /\ activeArmed' \in BOOLEAN
  BY <1>1 DEF TypeOK, LoopTypeOK, WatchTypeOK, EnsureActiveWatch,
              stageIdle, stageLock, stageBlank
<1>4. WatchTypeOK'
  <2>1. fired' \in Seq(Watches)
    BY <1>1, SignalledTyped DEF TypeOK, Signalled
  <2> QED
    BY <1>2, <1>3, <2>1, RegisterTyped DEF TypeOK, WatchTypeOK
<1>5. SaverTypeOK'
  BY <1>1, StopSaverTyped DEF TypeOK, LoopTypeOK, SaverTypeOK
<1>6. CountTypeOK'
  BY <1>1, CountKept DEF TypeOK
<1>7. SessionTypeOK'
  <2>1. CASE OnLock
    <3>1. /\ UNCHANGED <<delayVars, lockWatch>>
          /\ \/ /\ sessionLocked' = TRUE
                /\ locks' \in {locks, Append(locks, TRUE)}
             \/ UNCHANGED <<sessionLocked, locks>>
      BY <2>1 DEF OnLock
    <3>2. locks \in Seq(BOOLEAN) /\ Append(locks, TRUE) \in Seq(BOOLEAN)
      BY AppendTyped DEF TypeOK, SessionTypeOK
    <3>3. locks' \in Seq(BOOLEAN) /\ sessionLocked' \in BOOLEAN
      BY <3>1, <3>2 DEF TypeOK, SessionTypeOK
    <3> QED
      BY <3>1, <3>3 DEF TypeOK, SessionTypeOK, delayVars
  <2>2. CASE OnBlank
    <3>1. /\ UNCHANGED lockVars
          /\ \/ idleDelay' = BlankIdleDelay /\ blanked' = TRUE
             \/ UNCHANGED delayVars
      BY <2>2 DEF OnBlank
    <3> QED
      BY <3>1, DelaysAssumption DEF TypeOK, SessionTypeOK, delayVars, lockVars
  <2> QED
    BY <2>1, <2>2
<1> QED
  BY <1>3, <1>4, <1>5, <1>6, <1>7 DEF TypeOK

(* A reset and a re-arming, as onActive and reload end. *)
LEMMA ResetRearmTyped ==
    ASSUME TypeOK, Reset, NEW c \in Configs, cfg' = c,
           NEW armed \in Armings(c, gen + 1), Rearm(c, gen + 1, armed),
           fired' \in Seq(Watches), UNCHANGED <<run, launched, idle, lockVars>>
    PROVE  TypeOK'
<1>1. /\ gen' = gen + 1 /\ StopSaver /\ RestoreBlanked /\ stage' = stageIdle
      /\ attempts' = 0 /\ cycles' = 0 /\ deaths' = 0
      /\ monitorDeaths' = [i \in Monitor |-> 0]
  BY DEF Reset
<1>2. /\ watches' \subseteq Watches /\ activeArmed' \in BOOLEAN
      /\ registered' \subseteq Watches /\ spent' \subseteq registered'
      /\ fatal' \in BOOLEAN
  BY RearmTyped DEF TypeOK, LoopTypeOK
<1>3. LoopTypeOK'
  BY <1>1, <1>2 DEF TypeOK, LoopTypeOK, stageIdle, stageBlank
<1>4. WatchTypeOK'
  BY <1>2 DEF WatchTypeOK
<1>5. SaverTypeOK'
  BY <1>1, StopSaverTyped DEF TypeOK, LoopTypeOK, SaverTypeOK
<1>6. CountTypeOK'
  BY <1>1, BoundsAssumption DEF CountTypeOK
<1>7. SessionTypeOK'
  <2>1. UNCHANGED <<sessionLocked, lockWatch, locks>>
    BY DEF lockVars
  <2>2. \/ blanked' = FALSE /\ idleDelay' = 0
        \/ UNCHANGED <<blanked, idleDelay>>
    BY <1>1 DEF RestoreBlanked, delayVars
  <2>3. blanked' \in BOOLEAN
    BY <2>2 DEF TypeOK, SessionTypeOK
  <2>4. idleDelay' \in Nat
    BY <2>2 DEF TypeOK, SessionTypeOK
  <2> QED
    BY <2>1, <2>3, <2>4 DEF TypeOK, SessionTypeOK
<1> QED
  BY <1>3, <1>4, <1>5, <1>6, <1>7 DEF TypeOK

LEMMA OnActiveTyped ==
    ASSUME TypeOK, OnActive
    PROVE  TypeOK'
<1> PICK armed \in Armings(cfg, gen + 1) : Rearm(cfg, gen + 1, armed)
  BY DEF OnActive
<1>1. Reset /\ Signalled("active") /\ UNCHANGED <<run, cfg, launched, idle, lockVars>>
  BY DEF OnActive
<1>2. fired' \in Seq(Watches)
  BY <1>1, SignalledTyped DEF TypeOK, Signalled
<1>3. cfg \in Configs
  BY DEF TypeOK, LoopTypeOK
<1> QED
  BY <1>1, <1>2, <1>3, ResetRearmTyped

LEMMA VarsKept ==
    ASSUME TypeOK, UNCHANGED vars
    PROVE  TypeOK'
<1>1. /\ UNCHANGED <<loopVars, stage, gen, idle>>
      /\ UNCHANGED watchVars /\ fired' = fired
      /\ UNCHANGED <<launched, saverVars>>
      /\ UNCHANGED countVars
      /\ UNCHANGED <<delayVars, lockVars>>
  BY DEF vars
<1>2. fired' \in Seq(Watches)
  BY <1>1 DEF TypeOK, WatchTypeOK
<1> QED
  BY <1>1, <1>2, LoopKept, WatchKept, SaverKept, CountKept, SessionKept DEF TypeOK

LEMMA ReloadTyped ==
    ASSUME TypeOK, Reload
    PROVE  TypeOK'
<1> PICK c \in Configs :
        \/ UNCHANGED vars
        \/ /\ cfg' = c
           /\ Reset
           /\ \E armed \in Armings(c, gen + 1) : Rearm(c, gen + 1, armed)
           /\ UNCHANGED <<run, launched, idle, fired, lockVars>>
  BY DEF Reload
<1>1. CASE UNCHANGED vars
  BY <1>1, VarsKept
<1>2. CASE /\ cfg' = c
           /\ Reset
           /\ \E armed \in Armings(c, gen + 1) : Rearm(c, gen + 1, armed)
           /\ UNCHANGED <<run, launched, idle, fired, lockVars>>
  <2>1. fired' \in Seq(Watches)
    BY <1>2 DEF TypeOK, WatchTypeOK
  <2> QED
    BY <1>2, <2>1, ResetRearmTyped
<1> QED
  BY <1>1, <1>2

(***************************************************************************)
(* The handlers of launch results.                                         *)
(***************************************************************************)
LEMMA ReceivedTyped ==
    ASSUME TypeOK, Landed
    PROVE  /\ Head(launched) \in LaunchId /\ launched' \in Seq(LaunchId)
           /\ Received \in [LaunchId -> Launch]
<1>1. Head(launched) \in LaunchId /\ launched' \in Seq(LaunchId)
  BY TailTyped DEF TypeOK, SaverTypeOK, Landed
<1>2. NoLaunch \in Launch /\ launches \in [LaunchId -> Launch]
  BY LaunchesTyped DEF TypeOK, LoopTypeOK, SaverTypeOK
<1> QED
  BY <1>1, <1>2 DEF Received

LEMMA CloseDeadTyped ==
    ASSUME TypeOK, NEW ls \in [LaunchId -> Launch], CloseDead(ls)
    PROVE  /\ cancel' = None /\ dead' \in BOOLEAN
           /\ current' \in LaunchId \cup {None}
           /\ launches' \in [LaunchId -> Launch]
<1>1. NoLaunch \in Launch
  BY LaunchesTyped DEF TypeOK, LoopTypeOK
<1> QED
  BY <1>1 DEF CloseDead, TypeOK, SaverTypeOK

LEMMA HandleLaunchTyped ==
    ASSUME TypeOK, HandleLaunch
    PROVE  TypeOK'
<1>1. /\ Landed
      /\ UNCHANGED <<loopVars, stage, gen, watchVars, cycles, deaths,
                     monitorDeaths, delayVars, idle, fired, lockVars>>
  BY DEF HandleLaunch, OnUnwantedLaunch, OnFailedLaunch, OnLaunchUp, countVars
<1>2. LoopTypeOK' /\ SessionTypeOK'
  BY <1>1, LoopKept, SessionKept DEF TypeOK
<1>3. WatchTypeOK'
  BY <1>1, WatchKept DEF TypeOK, WatchTypeOK
<1>4. /\ Head(launched) \in LaunchId /\ launched' \in Seq(LaunchId)
      /\ Received \in [LaunchId -> Launch]
  BY <1>1, ReceivedTyped
<1>5. /\ launches' \in [LaunchId -> Launch]
      /\ cancel' \in LaunchId \cup {None} /\ current' \in LaunchId \cup {None}
      /\ watching' \in {"none", "done", "exits"} /\ dead' \in BOOLEAN
      /\ attempts' \in Nat
  <2>1. CASE OnUnwantedLaunch
    BY <1>4, <2>1 DEF OnUnwantedLaunch, CancelLeft, TypeOK, SaverTypeOK, CountTypeOK, countVars
  <2>2. CASE OnFailedLaunch
    <3>1. CASE /\ Launches(attempts, Received)
               /\ UNCHANGED <<current, dead>>
      <4>1. StartLaunch(attempts, Received, cancel)
        BY <3>1 DEF StartLaunch
      <4>2. attempts \in Nat /\ gen \in Nat /\ cancel \in LaunchId \cup {None}
        BY DEF TypeOK, LoopTypeOK, SaverTypeOK, CountTypeOK
      <4> QED
        BY <1>4, <2>2, <3>1, <4>1, <4>2, StartLaunchTyped
        DEF OnFailedLaunch, TypeOK, SaverTypeOK
    <3>2. CASE CloseDead(Received) /\ UNCHANGED attempts
      BY <1>4, <2>2, <3>2, CloseDeadTyped
      DEF OnFailedLaunch, TypeOK, SaverTypeOK, CountTypeOK
    <3> QED
      BY <2>2, <3>1, <3>2 DEF OnFailedLaunch
  <2>3. CASE OnLaunchUp
    <3>1. NoLaunch \in Launch /\ launches \in [LaunchId -> Launch]
      BY LaunchesTyped DEF TypeOK, LoopTypeOK, SaverTypeOK
    <3>2. OutgoingStopped \in [LaunchId -> Launch]
      BY <3>1 DEF OutgoingStopped
    <3> QED
      BY <1>4, <2>3, <3>2 DEF OnLaunchUp, Channel, CancelLeft, TypeOK, SaverTypeOK,
                              CountTypeOK, countVars
  <2> QED
    BY <2>1, <2>2, <2>3 DEF HandleLaunch
<1>6. SaverTypeOK' /\ CountTypeOK'
  BY <1>1, <1>4, <1>5 DEF TypeOK, SaverTypeOK, CountTypeOK
<1> QED
  BY <1>2, <1>3, <1>6 DEF TypeOK

(***************************************************************************)
(* The handlers of module exits.  The caps on relaunches are what bounds   *)
(* the counts.                                                             *)
(***************************************************************************)
LEMMA OnModuleExitTyped ==
    ASSUME TypeOK, OnModuleExit
    PROVE  TypeOK'
<1>1. /\ watching' = "none"
      /\ UNCHANGED <<loopVars, stage, gen, watchVars, launched, cycles,
                     monitorDeaths, delayVars, idle, fired, lockVars>>
  BY DEF OnModuleExit
<1>2. LoopTypeOK' /\ SessionTypeOK'
  BY <1>1, LoopKept, SessionKept DEF TypeOK
<1>3. WatchTypeOK'
  BY <1>1, WatchKept DEF TypeOK, WatchTypeOK
<1>4. NoLaunch \in Launch /\ launches \in [LaunchId -> Launch]
  BY LaunchesTyped DEF TypeOK, LoopTypeOK, SaverTypeOK
<1>5. [launches EXCEPT ![current] = NoLaunch] \in [LaunchId -> Launch]
  BY <1>4
<1>6. /\ launches' \in [LaunchId -> Launch]
      /\ cancel' \in LaunchId \cup {None} /\ current' \in LaunchId \cup {None}
      /\ dead' \in BOOLEAN /\ attempts' \in Nat
  <2>1. CASE Launches(0, launches) /\ UNCHANGED current /\ dead' = TRUE
    <3>1. StartLaunch(0, launches, cancel)
      BY <2>1 DEF StartLaunch
    <3>2. gen \in Nat /\ cancel \in LaunchId \cup {None}
      BY DEF TypeOK, LoopTypeOK, SaverTypeOK
    <3> QED
      BY <1>4, <2>1, <3>1, <3>2, StartLaunchTyped DEF TypeOK, SaverTypeOK
  <2>2. CASE ~(Launches(0, launches) /\ UNCHANGED current /\ dead' = TRUE)
    <3>1. /\ launches' \in {launches, [launches EXCEPT ![current] = NoLaunch]}
          /\ cancel' \in {cancel, None} /\ current' \in {current, None}
          /\ dead' \in BOOLEAN /\ attempts' \in {attempts, 0}
      BY <2>2 DEF OnModuleExit
    <3>2. /\ cancel \in LaunchId \cup {None} /\ current \in LaunchId \cup {None}
          /\ attempts \in Nat
      BY DEF TypeOK, SaverTypeOK, CountTypeOK
    <3> QED
      BY <1>4, <1>5, <3>1, <3>2
  <2> QED
    BY <2>1, <2>2
<1>7. deaths' \in 0..MaxRelaunches
  <2>1. \/ deaths' = deaths
        \/ deaths' = deaths + 1 /\ ~RelaunchesSpent
    BY DEF OnModuleExit
  <2> QED
    BY <2>1, BoundsAssumption DEF RelaunchesSpent, TypeOK, CountTypeOK
<1>8. SaverTypeOK' /\ CountTypeOK'
  BY <1>1, <1>6, <1>7 DEF TypeOK, SaverTypeOK, CountTypeOK
<1> QED
  BY <1>2, <1>3, <1>8 DEF TypeOK

LEMMA OnCopyExitTyped ==
    ASSUME TypeOK, OnCopyExit
    PROVE  TypeOK'
<1> PICK i \in Monitor :
        /\ CopyExited(i)
        /\ \/ launches' = Reported(i) /\ UNCHANGED monitorDeaths
           \/ /\ launches' \in {Reported(i), Replaced(i)}
              /\ \E tries \in Tries(i) :
                    monitorDeaths' = [monitorDeaths EXCEPT ![i] = @ + tries]
        /\ UNCHANGED <<loopVars, stage, gen, watchVars, launched, cancel,
                       current, watching, dead, attempts, cycles, deaths,
                       delayVars, idle, fired, lockVars>>
  BY DEF OnCopyExit
<1>1. LoopTypeOK' /\ SessionTypeOK'
  BY LoopKept, SessionKept DEF TypeOK
<1>2. WatchTypeOK'
  BY WatchKept DEF TypeOK, WatchTypeOK
<1>3. SaverTypeOK'
  <2>1. current \in LaunchId /\ launches \in [LaunchId -> Launch]
    BY DEF CopyExited, TypeOK, SaverTypeOK
  <2>2. Reported(i) \in [LaunchId -> Launch] /\ Replaced(i) \in [LaunchId -> Launch]
    <3>1. launches[current] \in Launch
      BY <2>1
    <3>2. /\ [launches[current] EXCEPT !.exits = @ \ {i}] \in Launch
          /\ [launches[current] EXCEPT !.exits = @ \ {i}, !.alive = @ \cup {i}] \in Launch
      BY <3>1 DEF Launch
    <3> QED
      BY <2>1, <3>2 DEF Reported, Replaced
  <2> QED
    BY <2>2 DEF TypeOK, SaverTypeOK
<1>4. CountTypeOK'
  <2>1. monitorDeaths \in [Monitor -> 0..MaxRelaunches] /\ monitorDeaths[i] \in 0..MaxRelaunches
    BY DEF TypeOK, CountTypeOK
  <2>2. \A tries \in Tries(i) : monitorDeaths[i] + tries \in 0..MaxRelaunches
    BY <2>1, BoundsAssumption DEF Tries, RelaunchesLeft
  <2>3. monitorDeaths' \in [Monitor -> 0..MaxRelaunches]
    BY <2>1, <2>2
  <2> QED
    BY <2>3 DEF TypeOK, CountTypeOK
<1> QED
  BY <1>1, <1>2, <1>3, <1>4 DEF TypeOK

(***************************************************************************)
(* The handlers of lock changes, the start, and the world beside the loop. *)
(***************************************************************************)
LEMMA HandleLockChangeTyped ==
    ASSUME TypeOK, HandleLockChange
    PROVE  TypeOK'
<1>1. UNCHANGED <<loopVars, stage, watchVars, launched, countVars, delayVars,
                  idle, fired, sessionLocked>>
  BY DEF HandleLockChange, OnLockIgnored, OnLockStops, LockWatcherLost
<1>2. WatchTypeOK' /\ CountTypeOK'
  BY <1>1, WatchKept, CountKept DEF TypeOK, WatchTypeOK
<1>3. gen' \in {gen, gen + 1}
  BY DEF HandleLockChange, OnLockIgnored, OnLockStops, LockWatcherLost
<1>4. LoopTypeOK'
  BY <1>1, <1>3 DEF TypeOK, LoopTypeOK, loopVars
<1>5. SaverTypeOK'
  <2>1. UNCHANGED saverVars \/ StopSaver
    BY DEF HandleLockChange, OnLockIgnored, OnLockStops, LockWatcherLost
  <2>2. launched' \in Seq(LaunchId)
    BY <1>1 DEF TypeOK, SaverTypeOK
  <2> QED
    BY <1>1, <2>1, <2>2, SaverKept, StopSaverTyped DEF TypeOK, LoopTypeOK
<1>6. SessionTypeOK'
  <2>1. lockWatch' \in {lockWatch, FALSE}
    BY DEF HandleLockChange, OnLockIgnored, OnLockStops, LockWatcherLost
  <2>2. \/ locks' = locks
        \/ locks # <<>> /\ locks' = Tail(locks)
    <3>1. LockChanged => locks # <<>> /\ locks' = Tail(locks)
      BY DEF LockChanged
    <3>2. LockWatcherLost => locks' = locks
      BY DEF LockWatcherLost
    <3>3. OnLockIgnored \/ OnLockStops => LockChanged
      BY DEF OnLockIgnored, OnLockStops
    <3> QED
      BY <3>1, <3>2, <3>3 DEF HandleLockChange
  <2>3. locks' \in Seq(BOOLEAN)
    BY <2>2, TailTyped DEF TypeOK, SessionTypeOK
  <2>4. lockWatch' \in BOOLEAN
    BY <2>1 DEF TypeOK, SessionTypeOK
  <2> QED
    BY <1>1, <2>3, <2>4 DEF TypeOK, SessionTypeOK, delayVars
<1> QED
  BY <1>2, <1>4, <1>5, <1>6 DEF TypeOK

LEMMA StartTyped ==
    ASSUME TypeOK, Start
    PROVE  TypeOK'
<1>1. CASE Connected
  <2> PICK armed \in Armings(cfg, gen) :
        /\ watches' = armed /\ registered' = armed /\ spent' = {}
        /\ fatal' = (armed # IdleWatches(cfg, gen))
    BY <1>1 DEF Connected
  <2>1. /\ run' = "running" /\ idleDelay' = 0
        /\ lockWatch' \in Outcomes("lock" \in Events, "watchLocks", FALSE)
        /\ UNCHANGED <<cfg, stage, gen, activeArmed, launched, saverVars, countVars,
                       blanked, idle, fired, sessionLocked, locks>>
    BY <1>1 DEF Connected
  <2> USE <1>1 DEF TypeOK
  <2>2. LoopTypeOK'
    BY <2>1 DEF LoopTypeOK
  <2>3. armed \subseteq Watches
    BY ArmingsTyped DEF LoopTypeOK
  <2>4. WatchTypeOK'
    BY <2>1, <2>3 DEF WatchTypeOK
  <2>5. SaverTypeOK' /\ CountTypeOK'
    BY <2>1, SaverKept, CountKept
  <2>6. SessionTypeOK'
    <3>1. lockWatch' \in BOOLEAN
      <4>1. ("lock" \in Events) \in BOOLEAN /\ FALSE \in BOOLEAN
        OBVIOUS
      <4> QED
        BY <2>1, <4>1, OutcomesTyped, Zenon
    <3> QED
      BY <2>1, <3>1 DEF SessionTypeOK
  <2> QED
    BY <2>2, <2>4, <2>5, <2>6
<1>2. CASE NotConnected
  <2>1. /\ run' = "failed"
        /\ UNCHANGED <<fatal, cfg, stage, gen, watchVars, launched, saverVars,
                       countVars, delayVars, idle, fired, lockVars>>
    BY <1>2 DEF NotConnected
  <2>2. LoopTypeOK' /\ WatchTypeOK'
    BY <2>1, WatchKept DEF TypeOK, LoopTypeOK, WatchTypeOK
  <2> QED
    BY <2>1, <2>2, SaverKept, CountKept, SessionKept DEF TypeOK
<1> QED
  BY <1>1, <1>2 DEF Start

LEMMA LaunchReturnsTyped ==
    ASSUME TypeOK, NEW l \in LaunchId, LaunchReturns(l)
    PROVE  SaverTypeOK'
<1>1. /\ launched' = Append(launched, l)
      /\ UNCHANGED <<cancel, current, watching, dead>>
  BY DEF LaunchReturns
<1>2. launched' \in Seq(LaunchId)
  BY <1>1, AppendTyped DEF TypeOK, SaverTypeOK
<1>3. launches \in [LaunchId -> Launch] /\ launches[l] \in Launch
  BY DEF TypeOK, SaverTypeOK
<1>4. launches' \in [LaunchId -> Launch]
  <2>1. ASSUME NEW windows \in SUBSET Monitor, NEW alive \in SUBSET Monitor,
               LaunchUp(l, windows, alive)
        PROVE  launches' \in [LaunchId -> Launch]
    <3>1. [launches[l] EXCEPT !.st = "up", !.alive = alive, !.exits = windows \ alive] \in Launch
      BY <1>3 DEF Launch
    <3> QED
      BY <1>3, <2>1, <3>1 DEF LaunchUp
  <2>2. 1 \in Monitor /\ {1} \in SUBSET Monitor
    BY BoundsAssumption DEF Monitor
  <2>3. launches[l].names \in 0..Monitors
    BY <1>3 DEF Launch
  <2>4. \A w \in WindowCounts(launches[l].names) : 1..w \subseteq Monitor
    BY <2>3, BoundsAssumption DEF WindowCounts, Monitor
  <2>5. /\ [launches EXCEPT ![l].st = "failed"] \in [LaunchId -> Launch]
        /\ [launches EXCEPT ![l].st = "canceled"] \in [LaunchId -> Launch]
    <3>1. /\ [launches[l] EXCEPT !.st = "failed"] \in Launch
          /\ [launches[l] EXCEPT !.st = "canceled"] \in Launch
      BY <1>3 DEF Launch
    <3> QED
      BY <1>3, <3>1
  <2>6. CASE LaunchUp(l, {1}, {1})
    BY <2>1, <2>2, <2>6
  <2>7. CASE \E w \in WindowCounts(launches[l].names) :
                \E alive \in SUBSET (1..w) \ {{}} : LaunchUp(l, 1..w, alive)
    BY <2>1, <2>4, <2>7
  <2> QED
    BY <2>5, <2>6, <2>7 DEF LaunchReturns
<1> QED
  BY <1>1, <1>2, <1>4 DEF TypeOK, SaverTypeOK

LEMMA ModuleDiesTyped ==
    ASSUME TypeOK, NEW l \in LaunchId, NEW i \in Monitor, ModuleDies(l, i)
    PROVE  SaverTypeOK'
<1> DEFINE rest == IF launches[l].names > 1 THEN launches[l].exits \cup {i}
                   ELSE launches[l].exits
<1>1. launches \in [LaunchId -> Launch] /\ launches[l] \in Launch
  BY DEF TypeOK, SaverTypeOK
<1>2. launches' = [launches EXCEPT ![l] =
            [launches[l] EXCEPT !.alive = @ \ {i}, !.exits = rest]]
  BY <1>1 DEF ModuleDies, Launch
<1>3. [launches[l] EXCEPT !.alive = @ \ {i}, !.exits = rest] \in Launch
  BY <1>1 DEF Launch
<1>4. launches' \in [LaunchId -> Launch]
  BY <1>1, <1>2, <1>3
<1> QED
  BY <1>4 DEF ModuleDies, TypeOK, SaverTypeOK

LEMMA EnvironmentTyped ==
    ASSUME TypeOK, Environment
    PROVE  TypeOK'
<1>1. CASE LaunchSettles \/ ProcessDies
  <2>1. UNCHANGED <<loopVars, stage, gen, watchVars, countVars, delayVars, idle,
                    fired, lockVars>>
    BY <1>1 DEF LaunchSettles, ProcessDies, LaunchReturns, ModuleDies
  <2>2. SaverTypeOK'
    BY <1>1, LaunchReturnsTyped, ModuleDiesTyped DEF LaunchSettles, ProcessDies
  <2>3. WatchTypeOK'
    BY <2>1, WatchKept DEF TypeOK, WatchTypeOK
  <2> QED
    BY <2>1, <2>2, <2>3, LoopKept, CountKept, SessionKept DEF TypeOK
<1>2. CASE MutterFires
  <2> PICK w \in registered : Fire(w)
    BY <1>2 DEF MutterFires
  <2>1. /\ spent' = spent \cup {w} /\ fired' = Append(fired, w)
        /\ UNCHANGED <<loopVars, stage, gen, watches, activeArmed, registered,
                       launched, saverVars, countVars, delayVars, idle, lockVars>>
    BY DEF Fire
  <2>2. fired' \in Seq(Watches)
    BY <2>1, AppendTyped DEF TypeOK, WatchTypeOK
  <2>3. WatchTypeOK'
    BY <2>1, <2>2 DEF TypeOK, WatchTypeOK
  <2> QED
    BY <2>1, <2>3, LoopKept, SaverKept, CountKept, SessionKept DEF TypeOK
<1>3. CASE Tick
  <2>1. /\ idle' = idle + 1
        /\ UNCHANGED <<loopVars, stage, gen, watchVars, launched, saverVars,
                       countVars, delayVars, fired, lockVars>>
    BY <1>3 DEF Tick
  <2>2. LoopTypeOK'
    BY <2>1 DEF TypeOK, LoopTypeOK, loopVars
  <2>3. WatchTypeOK'
    BY <2>1, WatchKept DEF TypeOK, WatchTypeOK
  <2> QED
    BY <2>1, <2>2, <2>3, SaverKept, CountKept, SessionKept DEF TypeOK
<1>4. LockChange(TRUE) \/ LockChange(FALSE) =>
        sessionLocked' \in BOOLEAN /\ lockWatch' \in BOOLEAN /\ locks' \in Seq(BOOLEAN)
  <2>1. SUFFICES ASSUME NEW locked \in BOOLEAN, LockChange(locked)
                 PROVE  sessionLocked' \in BOOLEAN /\ lockWatch' \in BOOLEAN
                        /\ locks' \in Seq(BOOLEAN)
    BY Zenon
  <2>2. /\ sessionLocked' = locked /\ lockWatch' = lockWatch
        /\ locks' = (IF lockWatch THEN Append(locks, locked) ELSE locks)
    BY <2>1, Zenon DEF LockChange
  <2>3. locks' \in Seq(BOOLEAN)
    BY <2>1, <2>2, AppendTyped DEF TypeOK, SessionTypeOK
  <2> QED
    BY <2>1, <2>2, <2>3 DEF TypeOK, SessionTypeOK
<1>5. CASE SessionLocks
  <2>1. /\ LockChange(TRUE)
        /\ UNCHANGED <<loopVars, stage, gen, watchVars, launched, saverVars,
                       countVars, delayVars, idle, fired>>
    BY <1>5 DEF SessionLocks
  <2>2. SessionTypeOK'
    BY <1>4, <2>1 DEF TypeOK, SessionTypeOK, delayVars
  <2>3. WatchTypeOK'
    BY <2>1, WatchKept DEF TypeOK, WatchTypeOK
  <2> QED
    BY <2>1, <2>2, <2>3, LoopKept, SaverKept, CountKept DEF TypeOK
<1>6. CASE Activity \/ UserUnlocks
  <2>1. /\ idle' = 0 /\ spent' \in {spent, {}}
        /\ UNCHANGED <<loopVars, stage, gen, watches, activeArmed, registered,
                       launched, saverVars, countVars, delayVars, fired>>
        /\ UNCHANGED lockVars \/ LockChange(FALSE)
    BY <1>6 DEF Activity, UserUnlocks, UserActivity
  <2>2. LoopTypeOK' /\ WatchTypeOK'
    BY <2>1 DEF TypeOK, LoopTypeOK, WatchTypeOK, loopVars
  <2>3. SessionTypeOK'
    <3>1. CASE UNCHANGED lockVars
      BY <2>1, <3>1, SessionKept DEF TypeOK
    <3>2. CASE LockChange(FALSE)
      BY <1>4, <2>1, <3>2 DEF TypeOK, SessionTypeOK, delayVars
    <3> QED
      BY <2>1, <3>1, <3>2
  <2> QED
    BY <2>1, <2>2, <2>3, SaverKept, CountKept DEF TypeOK
<1> QED
  BY <1>1, <1>2, <1>3, <1>5, <1>6 DEF Environment

(***************************************************************************)
(* Type correctness.                                                       *)
(***************************************************************************)
LEMMA TypeInit ==
    Init => TypeOK
<1> SUFFICES ASSUME Init PROVE TypeOK
  OBVIOUS
<1>1. LoopTypeOK
  <2>1. /\ run = "starting" /\ fatal = FALSE /\ cfg \in Configs
        /\ stage = 0 /\ gen = 0 /\ idle \in {0, MaxIdle}
    BY DEF Init, stageIdle
  <2>2. run \in {"starting", "running", "stopped", "failed", "panicked"} /\ fatal \in BOOLEAN
    BY <2>1
  <2>3. stage \in 0..3 /\ gen \in Nat /\ idle \in Nat
    BY <2>1, BoundsAssumption
  <2> QED
    BY <2>1, <2>2, <2>3 DEF LoopTypeOK, stageIdle, stageBlank
<1>2. WatchTypeOK
  BY EmptySeqTyped DEF Init, WatchTypeOK
<1>3. SaverTypeOK
  <2>1. launches \in [LaunchId -> Launch]
    BY BoundsAssumption DEF Init, NoLaunch, Launch
  <2> QED
    BY <2>1, EmptySeqTyped DEF Init, SaverTypeOK
<1>4. CountTypeOK
  BY BoundsAssumption DEF Init, CountTypeOK
<1>5. SessionTypeOK
  <2>1. /\ sessionLocked \in {FALSE, "lock" \in Events}
        /\ lockWatch = FALSE /\ locks = <<>> /\ blanked = FALSE
        /\ idleDelay \in {UserIdleDelay, BlankIdleDelay}
    BY DEF Init
  <2>2. sessionLocked \in BOOLEAN
    <3>1. ("lock" \in Events) \in BOOLEAN /\ FALSE \in BOOLEAN
      OBVIOUS
    <3> QED
      BY <2>1, <3>1, Zenon
  <2>3. idleDelay \in Nat
    BY <2>1, DelaysAssumption
  <2> QED
    BY <2>1, <2>2, <2>3, EmptySeqTyped DEF SessionTypeOK
<1> QED
  BY <1>1, <1>2, <1>3, <1>4, <1>5 DEF TypeOK

LEMMA TypeStep ==
    TypeOK /\ [Next]_vars => TypeOK'
<1> SUFFICES ASSUME TypeOK, [Next]_vars PROVE TypeOK'
  OBVIOUS
<1>1. CASE Start
  BY <1>1, StartTyped
<1>2. CASE HandleWatch
  BY <1>2, IgnoredSignalTyped, OnSaverTyped, OnCycleTyped, OnLockOrBlankTyped,
     OnActiveTyped DEF HandleWatch
<1>3. CASE HandleLaunch
  BY <1>3, HandleLaunchTyped
<1>4. CASE HandleExit
  <2>1. OnCopyExitPanic => Teardown("panicked")
    BY DEF OnCopyExitPanic
  <2> QED
    BY <1>4, <2>1, OnModuleExitTyped, OnCopyExitTyped, TeardownTyped DEF HandleExit
<1>5. CASE HandleLockChange
  BY <1>5, HandleLockChangeTyped
<1>6. CASE Reload
  BY <1>6, ReloadTyped
<1>7. CASE Terminate \/ LoseMutter \/ Die
  BY <1>7, TeardownTyped DEF Terminate, LoseMutter, Die
<1>8. CASE Environment
  BY <1>8, EnvironmentTyped
<1>9. CASE UNCHANGED vars
  BY <1>9, VarsKept
<1> QED
  BY <1>1, <1>2, <1>3, <1>4, <1>5, <1>6, <1>7, <1>8, <1>9 DEF Next, Loop

(* Every variable keeps its type, and no idle period relaunches a module    *)
(* that died more often than maxRelaunches, on any monitor (daemon.go:48).  *)
THEOREM TypeCorrect == Spec => []TypeOK
<1>1. Init => TypeOK
  BY TypeInit
<1>2. TypeOK /\ [Next]_vars => TypeOK'
  BY TypeStep
<1> QED
  BY <1>1, <1>2, PTL DEF Spec

(***************************************************************************)
(* What may be on screen, and when; that it is watched, that no module is  *)
(* lost on its way there, and that what is there and runs stays.           *)
(***************************************************************************)

(***************************************************************************)
(* That only a wanted module is shown is not inductive.  What makes it so: *)
(* a launch of the current generation was begun in the saver stage, and is *)
(* cancelled only where the generation ends or a later stage begins; and   *)
(* results wait in the channel once each, apart from the one on screen.    *)
(***************************************************************************)
ScreenOK ==
    current # None =>
        /\ run = "running" /\ stage = stageSaver
        /\ launches[current].st = "up" /\ launches[current].gen = gen

QueueOK ==
    /\ \A i \in DOMAIN launched :
            launched[i] # current /\ launches[launched[i]].st \in {"up", "failed", "canceled"}
    /\ \A i, j \in DOMAIN launched : launched[i] = launched[j] => i = j

LaunchOK(r, g, s) ==
    /\ r.gen <= g
    /\ r.st # "none" /\ r.gen = g => s >= stageSaver /\ (r.canceled => s >= stageLock)

LaunchesOK == \A l \in LaunchId : LaunchOK(launches[l], gen, stage)

SafeInv == TypeOK /\ ScreenOK /\ QueueOK /\ LaunchesOK

Settled == {"up", "failed", "canceled"}

(***************************************************************************)
(* Each part is kept by a step that leaves alone what it speaks of.        *)
(***************************************************************************)
LEMMA ScreenKept ==
    ASSUME ScreenOK, current' \in {current, None}, UNCHANGED <<run, stage, gen>>,
           current # None =>
               /\ launches'[current].st = launches[current].st
               /\ launches'[current].gen = launches[current].gen
    PROVE  ScreenOK'
BY DEF ScreenOK

LEMMA QueueKept ==
    ASSUME SaverTypeOK, QueueOK, launched' = launched, current' \in {current, None},
           \A l \in LaunchId \ {current} :
               launches[l].st \in Settled => launches'[l].st = launches[l].st
    PROVE  QueueOK'
<1>1. \A i \in DOMAIN launched : launched[i] \in LaunchId
  BY DEF SaverTypeOK
<1> QED
  BY <1>1, NoneAssumption DEF QueueOK, Settled

LEMMA QueuePopped ==
    ASSUME SaverTypeOK, QueueOK, launched # <<>>, launched' = Tail(launched),
           current' \in {current, None, Head(launched)},
           \A l \in LaunchId \ {current, Head(launched)} :
               launches[l].st \in Settled => launches'[l].st = launches[l].st
    PROVE  QueueOK'
<1>1. \A i \in DOMAIN launched : launched[i] \in LaunchId
  BY DEF SaverTypeOK
<1>2. /\ launched \in Seq(LaunchId) /\ 1 \in DOMAIN launched
      /\ Head(launched) = launched[1]
  BY DEF SaverTypeOK
<1>3. \A i \in DOMAIN launched' :
        /\ i + 1 \in DOMAIN launched /\ i + 1 # 1
        /\ launched'[i] = launched[i + 1] /\ i \in Nat
  BY <1>2
<1>4. \A i \in DOMAIN launched' : launched'[i] # Head(launched) /\ launched'[i] # current
  BY <1>2, <1>3 DEF QueueOK
<1>5. \A i \in DOMAIN launched' :
        launched'[i] # current' /\ launches'[launched'[i]].st \in Settled
  BY <1>1, <1>3, <1>4, NoneAssumption DEF QueueOK, Settled
<1>6. \A i, j \in DOMAIN launched' : launched'[i] = launched'[j] => i = j
  BY <1>3 DEF QueueOK
<1> QED
  BY <1>5, <1>6 DEF QueueOK, Settled

LEMMA NoLaunchOK ==
    ASSUME NEW g \in Nat, NEW s
    PROVE  LaunchOK(NoLaunch, g, s)
BY DEF LaunchOK, NoLaunch

(***************************************************************************)
(* Stopping the saver takes what is on screen away.  A launch it cancels   *)
(* can no longer be wanted: either a new generation begins with it, or a   *)
(* later stage.                                                            *)
(***************************************************************************)
LEMMA StopSaverSafe ==
    ASSUME SafeInv, StopSaver, launched' = launched,
           \/ gen' \in Nat /\ gen' > gen
           \/ gen' = gen /\ stage' \in 0..3 /\ stage' >= stageLock
    PROVE  ScreenOK' /\ QueueOK' /\ LaunchesOK'
<1>1. current' = None /\ launches' = Abandoned
  BY DEF StopSaver
<1>2. ScreenOK'
  BY <1>1 DEF ScreenOK
<1>3. \A l \in LaunchId \ {current} :
        /\ launches'[l].st = launches[l].st /\ launches'[l].gen = launches[l].gen
  BY <1>1 DEF Abandoned, Abandon, SafeInv, TypeOK, SaverTypeOK, Launch
<1>4. QueueOK'
  BY <1>1, <1>3, QueueKept DEF SafeInv, TypeOK
<1>5. ASSUME NEW l \in LaunchId
      PROVE  LaunchOK(launches'[l], gen', stage')
  <2>1. gen \in Nat /\ gen' \in Nat
    BY DEF SafeInv, TypeOK, LoopTypeOK
  <2>2. CASE l = current
    <3>1. launches'[l] = NoLaunch
      BY <1>1, <2>2 DEF Abandoned
    <3> QED
      BY <2>1, <3>1, NoLaunchOK
  <2>3. CASE l # current
    <3>1. /\ launches'[l].gen = launches[l].gen /\ launches[l].gen \in Nat
          /\ launches[l].gen <= gen
      BY <1>3, <2>3 DEF SafeInv, TypeOK, SaverTypeOK, Launch, LaunchesOK, LaunchOK
    <3> QED
      BY <2>1, <3>1 DEF LaunchOK, stageSaver, stageLock
  <2> QED
    BY <2>2, <2>3
<1> QED
  BY <1>2, <1>4, <1>5 DEF LaunchesOK

(***************************************************************************)
(* A launch begun in the saver stage is of the current generation, and no  *)
(* other launch is disturbed by it.                                        *)
(***************************************************************************)
LEMMA StartLaunchSafe ==
    ASSUME SafeInv, UNCHANGED gen, stage' = stageSaver,
           NEW ls \in [LaunchId -> Launch], NEW tries, NEW pending,
           \A l \in LaunchId : LaunchOK(ls[l], gen, stage'),
           StartLaunch(tries, ls, pending)
    PROVE  /\ LaunchesOK'
           /\ \A l \in LaunchId : ls[l].st # "none" => launches'[l] = ls[l]
<1>1. CASE launches' = ls
  BY <1>1 DEF LaunchesOK
<1>2. CASE Launches(tries, ls)
  <2> PICK l \in LaunchId, n \in NameCounts :
        ls[l].st = "none" /\ launches' = [ls EXCEPT ![l] = NewLaunch(n)]
    BY <1>2 DEF Launches
  <2>1. LaunchOK(NewLaunch(n), gen', stage')
    BY DEF LaunchOK, NewLaunch, stageSaver, stageLock, SafeInv, TypeOK, LoopTypeOK
  <2>2. LaunchesOK'
    BY <2>1 DEF LaunchesOK
  <2> QED
    BY <2>2
<1> QED
  BY <1>1, <1>2 DEF StartLaunch

(***************************************************************************)
(* One step per action.                                                    *)
(***************************************************************************)
Safe == ScreenOK /\ QueueOK /\ LaunchesOK

(* A step that touches none of this. *)
LEMMA SafeKept ==
    ASSUME SafeInv, UNCHANGED <<run, stage, gen, launched, launches, current>>
    PROVE  Safe'
BY DEF SafeInv, Safe, ScreenOK, QueueOK, LaunchesOK

(* Beginning a launch from the saver stage, as OnSaver and OnCycle end. *)
LEMMA BeginSafe ==
    ASSUME SafeInv, NEW tries, StartLaunch(tries, launches, cancel),
           UNCHANGED <<run, gen, launched, current>>, stage' = stageSaver,
           stage \in {stageIdle, stageSaver}
    PROVE  Safe'
<1>1. launches \in [LaunchId -> Launch] /\ stage <= stage'
  BY DEF SafeInv, TypeOK, SaverTypeOK, stageIdle, stageSaver
<1>2. \A l \in LaunchId : LaunchOK(launches[l], gen, stage')
  BY <1>1 DEF SafeInv, LaunchesOK, LaunchOK, stageIdle, stageSaver, stageLock
<1>3. /\ LaunchesOK'
      /\ \A l \in LaunchId : launches[l].st # "none" => launches'[l] = launches[l]
  BY <1>1, <1>2, StartLaunchSafe
<1>4. current \in LaunchId \cup {None}
  BY DEF SafeInv, TypeOK, SaverTypeOK
<1>5. ScreenOK'
  BY <1>3, <1>4 DEF SafeInv, ScreenOK
<1>6. QueueOK'
  BY <1>3, QueueKept DEF SafeInv, TypeOK, Settled
<1> QED
  BY <1>3, <1>5, <1>6 DEF Safe

LEMMA HandleWatchSafe ==
    ASSUME SafeInv, HandleWatch
    PROVE  Safe'
<1>1. CASE OnUnknownWatch \/ OnPassedStage
  BY <1>1, SafeKept DEF OnUnknownWatch, OnPassedStage, loopVars, saverVars
<1>2. CASE OnSaver
  <2>1. /\ stage' = stageSaver /\ ~Reached(stageSaver)
        /\ UNCHANGED <<run, gen, launched, current>>
        /\ UNCHANGED launches \/ StartLaunch(attempts, launches, cancel)
    BY <1>2 DEF OnSaver, saverVars
  <2>2. stage = stageIdle
    BY <2>1 DEF Reached, SafeInv, TypeOK, LoopTypeOK, stageIdle, stageSaver, stageBlank
  <2>3. CASE UNCHANGED launches
    <3>1. ScreenOK'
      BY <2>1, <2>2 DEF SafeInv, ScreenOK, stageIdle, stageSaver
    <3>2. QueueOK'
      BY <2>1, <2>3 DEF SafeInv, QueueOK
    <3>3. LaunchesOK'
      BY <2>1, <2>2, <2>3
      DEF SafeInv, LaunchesOK, LaunchOK, stageIdle, stageSaver, stageLock
    <3> QED
      BY <3>1, <3>2, <3>3 DEF Safe
  <2> QED
    BY <2>1, <2>2, <2>3, BeginSafe
<1>3. CASE OnCycle
  <2>1. /\ UNCHANGED <<run, stage, gen, launched, current>>
        /\ \/ UNCHANGED launches
           \/ stage = stageSaver /\ StartLaunch(0, launches, cancel)
    BY <1>3 DEF OnCycle, loopVars, saverVars
  <2> QED
    BY <2>1, BeginSafe, SafeKept
<1>4. CASE OnLock \/ OnBlank
  <2>1. /\ stage' \in {stageLock, stageBlank} /\ StopSaver
        /\ gen' = gen /\ launched' = launched
    BY <1>4 DEF OnLock, OnBlank
  <2> QED
    BY <2>1, StopSaverSafe DEF Safe, stageLock, stageBlank
<1>5. CASE OnActive
  <2>1. gen' = gen + 1 /\ StopSaver /\ launched' = launched
    BY <1>5 DEF OnActive, Reset
  <2>2. gen' \in Nat /\ gen' > gen
    BY <2>1 DEF SafeInv, TypeOK, LoopTypeOK
  <2> QED
    BY <2>1, <2>2, StopSaverSafe DEF Safe
<1> QED
  BY <1>1, <1>2, <1>3, <1>4, <1>5 DEF HandleWatch

LEMMA ReloadSafe ==
    ASSUME SafeInv, Reload
    PROVE  Safe'
<1>1. CASE UNCHANGED vars
  BY <1>1, SafeKept DEF vars, loopVars, saverVars
<1>2. CASE Reset /\ UNCHANGED launched
  <2>1. gen' = gen + 1 /\ StopSaver
    BY <1>2 DEF Reset
  <2>2. gen' \in Nat /\ gen' > gen
    BY <2>1 DEF SafeInv, TypeOK, LoopTypeOK
  <2> QED
    BY <1>2, <2>1, <2>2, StopSaverSafe DEF Safe
<1> QED
  BY <1>1, <1>2 DEF Reload

LEMMA HandleLockChangeSafe ==
    ASSUME SafeInv, HandleLockChange
    PROVE  Safe'
<1>1. CASE OnLockIgnored \/ LockWatcherLost
  BY <1>1, SafeKept DEF OnLockIgnored, LockWatcherLost, loopVars, saverVars
<1>2. CASE OnLockStops
  <2>1. gen' = gen + 1 /\ StopSaver /\ launched' = launched
    BY <1>2 DEF OnLockStops
  <2>2. gen' \in Nat /\ gen' > gen
    BY <2>1 DEF SafeInv, TypeOK, LoopTypeOK
  <2> QED
    BY <2>1, <2>2, StopSaverSafe DEF Safe
<1> QED
  BY <1>1, <1>2 DEF HandleLockChange

LEMMA TeardownSafe ==
    ASSUME SafeInv, NEW outcome, Teardown(outcome)
    PROVE  Safe'
<1>1. /\ gen' = gen + 1 /\ current' = None
      /\ launches' = [l \in LaunchId |->
            IF launched # <<>> /\ l = Head(launched) THEN NoLaunch ELSE Abandoned[l]]
      /\ launched' = IF launched = <<>> THEN <<>> ELSE Tail(launched)
  BY DEF Teardown
<1>2. /\ gen \in Nat /\ launches \in [LaunchId -> Launch]
      /\ \A l \in LaunchId : launches[l].gen <= gen /\ launches[l].gen \in Nat
  BY DEF SafeInv, TypeOK, LoopTypeOK, SaverTypeOK, Launch, LaunchesOK, LaunchOK
<1>3. \A l \in LaunchId \ {current} :
        Abandoned[l].st = launches[l].st /\ Abandoned[l].gen = launches[l].gen
  BY <1>2 DEF Abandoned, Abandon, Launch
<1>4. ScreenOK'
  BY <1>1 DEF ScreenOK
<1>5. QueueOK'
  <2>1. CASE launched = <<>>
    BY <1>1, <2>1 DEF QueueOK
  <2>2. CASE launched # <<>>
    BY <1>1, <1>3, <2>2, QueuePopped DEF SafeInv, TypeOK
  <2> QED
    BY <2>1, <2>2
<1>6. ASSUME NEW l \in LaunchId
      PROVE  LaunchOK(launches'[l], gen', stage')
  <2>1. CASE launches'[l] = NoLaunch
    BY <1>1, <1>2, <2>1, NoLaunchOK
  <2>2. CASE l # current /\ launches'[l] = Abandoned[l]
    BY <1>1, <1>2, <1>3, <2>2 DEF LaunchOK
  <2>3. \/ launches'[l] = NoLaunch
        \/ l # current /\ launches'[l] = Abandoned[l]
    BY <1>1 DEF Abandoned
  <2> QED
    BY <2>1, <2>2, <2>3
<1> QED
  BY <1>4, <1>5, <1>6 DEF Safe, LaunchesOK

(* The launch whose result is taken is not the one on screen. *)
LEMMA LandedSafe ==
    ASSUME SafeInv, Landed
    PROVE  /\ Head(launched) \in LaunchId \ {current}
           /\ Received \in [LaunchId -> Launch]
           /\ \A l \in LaunchId : LaunchOK(Received[l], gen, stage)
           /\ \A l \in LaunchId \ {Head(launched)} : Received[l] = launches[l]
<1>1. Head(launched) \in LaunchId /\ Received \in [LaunchId -> Launch]
  BY ReceivedTyped DEF SafeInv
<1>2. Head(launched) # current
  <2>1. launched \in Seq(LaunchId) /\ launched # <<>>
    BY DEF Landed, SafeInv, TypeOK, SaverTypeOK
  <2>2. 1 \in DOMAIN launched /\ Head(launched) = launched[1]
    BY <2>1
  <2> QED
    BY <2>2 DEF SafeInv, QueueOK
<1>3. launches \in [LaunchId -> Launch] /\ gen \in Nat
  BY DEF SafeInv, TypeOK, LoopTypeOK, SaverTypeOK
<1>4. \A l \in LaunchId : LaunchOK(Received[l], gen, stage)
  BY <1>1, <1>3, NoLaunchOK DEF Received, SafeInv, LaunchesOK
<1> QED
  BY <1>1, <1>2, <1>3, <1>4 DEF Received

LEMMA HandleLaunchSafe ==
    ASSUME SafeInv, HandleLaunch
    PROVE  Safe'
<1>1. /\ Landed /\ launched # <<>> /\ launched' = Tail(launched)
      /\ UNCHANGED <<run, stage, gen>>
  BY DEF HandleLaunch, OnUnwantedLaunch, OnFailedLaunch, OnLaunchUp, Landed, loopVars
<1>2. /\ Head(launched) \in LaunchId \ {current}
      /\ Received \in [LaunchId -> Launch]
      /\ \A l \in LaunchId : LaunchOK(Received[l], gen, stage)
      /\ \A l \in LaunchId \ {Head(launched)} : Received[l] = launches[l]
  BY <1>1, LandedSafe
<1>3. /\ launches \in [LaunchId -> Launch] /\ gen \in Nat
      /\ current \in LaunchId \cup {None} /\ stage \in 0..3
  BY DEF SafeInv, TypeOK, LoopTypeOK, SaverTypeOK, stageIdle, stageBlank
<1>4. CASE launches' = Received /\ current' = current
  <2>1. ScreenOK'
    BY <1>1, <1>2, <1>3, <1>4, ScreenKept DEF SafeInv
  <2>2. QueueOK'
    BY <1>1, <1>2, <1>4, QueuePopped DEF SafeInv, TypeOK
  <2>3. LaunchesOK'
    BY <1>1, <1>2, <1>4 DEF LaunchesOK
  <2> QED
    BY <2>1, <2>2, <2>3 DEF Safe
<1>5. CASE OnFailedLaunch /\ Launches(attempts, Received) /\ current' = current
  <2>1. StartLaunch(attempts, Received, cancel)
    BY <1>5 DEF StartLaunch
  <2>2. stage = stageSaver
    <3>1. launches[Head(launched)].gen = gen /\ ~(stage >= stageLock)
      BY <1>5 DEF OnFailedLaunch, Unwanted, Result
    <3>2. launches[Head(launched)].st # "none"
      <4>1. launched \in Seq(LaunchId) /\ launched # <<>>
        BY <1>1 DEF SafeInv, TypeOK, SaverTypeOK
      <4>2. 1 \in DOMAIN launched /\ Head(launched) = launched[1]
        BY <4>1
      <4> QED
        BY <4>2 DEF SafeInv, QueueOK
    <3>3. LaunchOK(launches[Head(launched)], gen, stage)
      BY <1>2 DEF SafeInv, LaunchesOK
    <3> QED
      BY <1>3, <3>1, <3>2, <3>3 DEF LaunchOK, stageSaver, stageLock
  <2>3. stage' = stageSaver /\ \A l \in LaunchId : LaunchOK(Received[l], gen, stage')
    BY <1>1, <1>2, <2>2
  <2>4. /\ LaunchesOK'
        /\ \A l \in LaunchId : Received[l].st # "none" => launches'[l] = Received[l]
    BY <1>1, <1>2, <2>1, <2>3, StartLaunchSafe
  <2>5. ScreenOK'
    BY <1>1, <1>2, <1>3, <1>5, <2>4 DEF SafeInv, ScreenOK
  <2>6. QueueOK'
    BY <1>1, <1>2, <1>5, <2>4, QueuePopped DEF SafeInv, TypeOK, Settled
  <2> QED
    BY <2>4, <2>5, <2>6 DEF Safe
<1>6. CASE OnFailedLaunch /\ CloseDead(Received)
  <2>1. CASE dead
    <3>1. current' = None /\ launches' = [Received EXCEPT ![current] = NoLaunch]
      BY <1>6, <2>1 DEF CloseDead
    <3>2. ScreenOK'
      BY <3>1 DEF ScreenOK
    <3>3. QueueOK'
      BY <1>1, <1>2, <3>1, QueuePopped DEF SafeInv, TypeOK
    <3>4. \A l \in LaunchId : launches'[l] \in {NoLaunch, Received[l]}
      BY <1>2, <3>1
    <3>5. LaunchesOK'
      BY <1>1, <1>2, <1>3, <3>4, NoLaunchOK DEF LaunchesOK
    <3> QED
      BY <3>2, <3>3, <3>5 DEF Safe
  <2>2. CASE ~dead
    BY <1>4, <1>6, <2>2 DEF CloseDead
  <2> QED
    BY <2>1, <2>2
<1>7. CASE OnLaunchUp
  <2>1. /\ launches' = OutgoingStopped /\ current' = Head(launched)
        /\ launches[Head(launched)].st = "up"
        /\ launches[Head(launched)].gen = gen /\ ~(stage >= stageLock)
    BY <1>7 DEF OnLaunchUp, Unwanted, Result
  <2>2. \A l \in LaunchId \ {current} : launches'[l] = launches[l]
    BY <2>1 DEF OutgoingStopped
  <2>3. \A l \in LaunchId : launches'[l] \in {NoLaunch, launches[l]}
    BY <2>1 DEF OutgoingStopped
  <2>4. QueueOK'
    BY <1>1, <2>1, <2>2, QueuePopped DEF SafeInv, TypeOK
  <2>5. LaunchesOK'
    BY <1>1, <1>3, <2>3, NoLaunchOK DEF SafeInv, LaunchesOK
  <2>6. run = "running"
    BY <1>1 DEF Landed, Running
  <2>7. LaunchOK(launches[Head(launched)], gen, stage)
    BY <1>2 DEF SafeInv, LaunchesOK
  <2>8. stage = stageSaver
    BY <1>3, <2>1, <2>7 DEF LaunchOK, stageSaver, stageLock
  <2>9. ScreenOK'
    BY <1>1, <1>2, <2>1, <2>2, <2>6, <2>8 DEF ScreenOK
  <2> QED
    BY <2>4, <2>5, <2>9 DEF Safe
<1> QED
  BY <1>4, <1>5, <1>6, <1>7 DEF HandleLaunch, OnUnwantedLaunch, OnFailedLaunch

LEMMA HandleExitSafe ==
    ASSUME SafeInv, OnModuleExit \/ OnCopyExit
    PROVE  Safe'
<1>1. /\ launches \in [LaunchId -> Launch] /\ gen \in Nat
      /\ current \in LaunchId \cup {None}
  BY DEF SafeInv, TypeOK, LoopTypeOK, SaverTypeOK
<1>2. UNCHANGED <<run, stage, gen, launched>>
  BY DEF OnModuleExit, OnCopyExit, loopVars
<1>3. CASE UNCHANGED <<launches, current>>
  BY <1>2, <1>3, SafeKept
<1>4. CASE current' = None /\ launches' = [launches EXCEPT ![current] = NoLaunch]
  <2>1. ScreenOK'
    BY <1>4 DEF ScreenOK
  <2>2. QueueOK'
    BY <1>1, <1>2, <1>4, QueueKept DEF SafeInv, TypeOK
  <2>3. \A l \in LaunchId : launches'[l] \in {NoLaunch, launches[l]}
    BY <1>1, <1>4
  <2>4. LaunchesOK'
    BY <1>1, <1>2, <2>3, NoLaunchOK DEF SafeInv, LaunchesOK
  <2> QED
    BY <2>1, <2>2, <2>4 DEF Safe
<1>5. CASE stage = stageSaver /\ Launches(0, launches) /\ current' = current
  BY <1>2, <1>5, BeginSafe DEF StartLaunch
<1>6. CASE OnCopyExit
  <2> PICK i \in Monitor :
        /\ CopyExited(i) /\ launches' \in {Reported(i), Replaced(i)}
        /\ UNCHANGED current
    BY <1>6 DEF OnCopyExit
  <2>1. current \in LaunchId
    BY <1>1 DEF CopyExited
  <2>2. \A l \in LaunchId :
            /\ launches'[l].st = launches[l].st /\ launches'[l].gen = launches[l].gen
            /\ launches'[l].canceled = launches[l].canceled
    <3>1. launches[current] \in Launch
      BY <1>1, <2>1
    <3> QED
      BY <1>1, <2>1, <3>1 DEF Reported, Replaced, Launch
  <2>3. ScreenOK'
    BY <1>2, <2>1, <2>2, ScreenKept DEF SafeInv
  <2>4. QueueOK'
    BY <1>2, <2>2, QueueKept DEF SafeInv, TypeOK
  <2>5. LaunchesOK'
    BY <1>2, <2>2 DEF SafeInv, LaunchesOK, LaunchOK
  <2> QED
    BY <2>3, <2>4, <2>5 DEF Safe
<1> QED
  BY <1>3, <1>4, <1>5, <1>6 DEF OnModuleExit

LEMMA EnvironmentSafe ==
    ASSUME SafeInv, Environment
    PROVE  Safe'
<1>1. launches \in [LaunchId -> Launch] /\ current \in LaunchId \cup {None}
  BY DEF SafeInv, TypeOK, SaverTypeOK
<1>2. CASE LaunchSettles
  <2> PICK l \in LaunchId : LaunchReturns(l)
    BY <1>2 DEF LaunchSettles
  <2>1. /\ launches[l].st = "starting" /\ launched' = Append(launched, l)
        /\ UNCHANGED <<run, stage, gen, current>>
    BY DEF LaunchReturns, loopVars
  <2>2. /\ launches'[l].st \in Settled /\ launches'[l].gen = launches[l].gen
        /\ launches'[l].canceled = launches[l].canceled
        /\ \A m \in LaunchId \ {l} : launches'[m] = launches[m]
    <3>1. launches[l] \in Launch
      BY <1>1
    <3>2. ASSUME NEW windows, NEW alive, LaunchUp(l, windows, alive)
          PROVE  /\ launches'[l].st = "up" /\ launches'[l].gen = launches[l].gen
                 /\ launches'[l].canceled = launches[l].canceled
                 /\ \A m \in LaunchId \ {l} : launches'[m] = launches[m]
      BY <1>1, <3>1, <3>2 DEF LaunchUp, Launch
    <3>3. \/ LaunchUp(l, {1}, {1})
          \/ \E w \in WindowCounts(launches[l].names) :
                \E alive \in SUBSET (1..w) \ {{}} : LaunchUp(l, 1..w, alive)
          \/ launches' = [launches EXCEPT ![l].st = "failed"]
          \/ launches' = [launches EXCEPT ![l].st = "canceled"]
      BY DEF LaunchReturns
    <3>4. CASE \/ LaunchUp(l, {1}, {1})
               \/ \E w \in WindowCounts(launches[l].names) :
                     \E alive \in SUBSET (1..w) \ {{}} : LaunchUp(l, 1..w, alive)
      BY <3>2, <3>4 DEF Settled
    <3>5. CASE \/ launches' = [launches EXCEPT ![l].st = "failed"]
               \/ launches' = [launches EXCEPT ![l].st = "canceled"]
      BY <1>1, <3>1, <3>5 DEF Launch, Settled
    <3> QED
      BY <3>3, <3>4, <3>5
  <2>3. l # current
    BY <2>1, NoneAssumption DEF SafeInv, ScreenOK
  <2>4. ScreenOK'
    BY <1>1, <2>1, <2>2, <2>3, ScreenKept DEF SafeInv
  <2>5. LaunchesOK'
    BY <2>1, <2>2 DEF SafeInv, LaunchesOK, LaunchOK
  <2>6. /\ launched \in Seq(LaunchId)
        /\ \A i \in DOMAIN launched : launched[i] \in LaunchId \ {l}
    BY <2>1 DEF SafeInv, TypeOK, SaverTypeOK, QueueOK
  <2>7. \A i \in DOMAIN launched' :
            \/ i \in DOMAIN launched /\ launched'[i] = launched[i]
            \/ i = Len(launched) + 1 /\ launched'[i] = l
    BY <2>1, <2>6
  <2>8. \A i \in DOMAIN launched' :
            launched'[i] # current' /\ launches'[launched'[i]].st \in Settled
    BY <2>1, <2>2, <2>3, <2>6, <2>7 DEF SafeInv, QueueOK, Settled
  <2>9. \A i, j \in DOMAIN launched' : launched'[i] = launched'[j] => i = j
    BY <2>6, <2>7 DEF SafeInv, QueueOK
  <2> QED
    BY <2>4, <2>5, <2>8, <2>9 DEF Safe, QueueOK, Settled
<1>3. CASE ProcessDies
  <2> PICK l \in LaunchId, i \in Monitor : ModuleDies(l, i)
    BY <1>3 DEF ProcessDies
  <2>1. UNCHANGED <<run, stage, gen, launched, current>>
    BY DEF ModuleDies, loopVars
  <2>2. \A m \in LaunchId :
            /\ launches'[m].st = launches[m].st /\ launches'[m].gen = launches[m].gen
            /\ launches'[m].canceled = launches[m].canceled
    <3>1. launches[l] \in Launch
      BY <1>1
    <3> QED
      BY <1>1, <3>1 DEF ModuleDies, Launch
  <2>3. ScreenOK'
    BY <1>1, <2>1, <2>2, ScreenKept DEF SafeInv
  <2>4. QueueOK'
    BY <2>1, <2>2, QueueKept DEF SafeInv, TypeOK
  <2>5. LaunchesOK'
    BY <2>1, <2>2 DEF SafeInv, LaunchesOK, LaunchOK
  <2> QED
    BY <2>3, <2>4, <2>5 DEF Safe
<1>4. CASE MutterFires \/ Tick \/ Activity \/ SessionLocks \/ UserUnlocks
  BY <1>4, SafeKept
  DEF MutterFires, Fire, Tick, Activity, SessionLocks, UserUnlocks, UserActivity,
      loopVars, saverVars
<1> QED
  BY <1>2, <1>3, <1>4 DEF Environment

LEMMA SafeInit ==
    Init => SafeInv
<1> SUFFICES ASSUME Init PROVE SafeInv
  OBVIOUS
<1>1. launched = <<>> /\ current = None /\ launches = [l \in LaunchId |-> NoLaunch] /\ gen = 0
  BY DEF Init
<1>2. LaunchesOK
  BY <1>1, NoLaunchOK DEF LaunchesOK
<1> QED
  BY <1>1, <1>2, TypeInit DEF SafeInv, ScreenOK, QueueOK

LEMMA SafeStep ==
    SafeInv /\ [Next]_vars => SafeInv'
<1> SUFFICES ASSUME SafeInv, [Next]_vars PROVE Safe'
  BY TypeStep DEF SafeInv, Safe
<1>1. CASE Start
  <2>1. /\ run = "starting" /\ UNCHANGED <<stage, gen, launched, launches, current>>
    BY <1>1 DEF Start, Connected, NotConnected, saverVars
  <2>2. current = None
    BY <2>1 DEF SafeInv, ScreenOK
  <2> QED
    BY <2>1, <2>2 DEF SafeInv, Safe, ScreenOK, QueueOK, LaunchesOK
<1>2. CASE HandleWatch
  BY <1>2, HandleWatchSafe
<1>3. CASE HandleLaunch
  BY <1>3, HandleLaunchSafe
<1>4. CASE HandleExit
  BY <1>4, HandleExitSafe, TeardownSafe DEF HandleExit, OnCopyExitPanic
<1>5. CASE HandleLockChange
  BY <1>5, HandleLockChangeSafe
<1>6. CASE Reload
  BY <1>6, ReloadSafe
<1>7. CASE Terminate \/ LoseMutter \/ Die
  BY <1>7, TeardownSafe DEF Terminate, LoseMutter, Die
<1>8. CASE Environment
  BY <1>8, EnvironmentSafe
<1>9. CASE UNCHANGED vars
  BY <1>9, SafeKept DEF vars, loopVars, saverVars
<1> QED
  BY <1>1, <1>2, <1>3, <1>4, <1>5, <1>6, <1>7, <1>8, <1>9 DEF Next, Loop

LEMMA SafeAlways == Spec => []SafeInv
<1>1. Init => SafeInv
  BY SafeInit
<1>2. SafeInv /\ [Next]_vars => SafeInv'
  BY SafeStep
<1> QED
  BY <1>1, <1>2, PTL DEF Spec

(***************************************************************************)
(* The theorems.                                                           *)
(***************************************************************************)

(* A module is on screen only in the saver stage of a running daemon: never *)
(* over the desktop of a user who is back, never behind the lock or blank   *)
(* stage (daemon.go, stopSaver and handleLaunch).                           *)
THEOREM ModulesStayInSaverStage == Spec => []ModuleOnlyInSaverStage
<1>1. SafeInv => ModuleOnlyInSaverStage
  BY DEF SafeInv, ScreenOK, ModuleOnlyInSaverStage
<1> QED
  BY <1>1, SafeAlways, PTL

(* A launch abandoned by a reset, a lock or a later stage is never adopted, *)
(* whenever its result arrives (daemon.go:979).                             *)
THEOREM AbandonedLaunchesStayOff == Spec => []StaleLaunchNeverShown
<1>1. SafeInv => StaleLaunchNeverShown
  <2> SUFFICES ASSUME SafeInv, current # None PROVE StaleLaunchNeverShown
    BY DEF StaleLaunchNeverShown
  <2>1. /\ stage = stageSaver /\ launches[current].st = "up" /\ launches[current].gen = gen
    BY DEF SafeInv, ScreenOK
  <2>2. current \in LaunchId /\ launches[current].canceled \in BOOLEAN
    BY DEF SafeInv, TypeOK, SaverTypeOK, Launch
  <2>3. LaunchOK(launches[current], gen, stage)
    BY <2>2 DEF SafeInv, LaunchesOK
  <2>4. ~launches[current].canceled
    BY <2>1, <2>2, <2>3 DEF LaunchOK, stageSaver, stageLock
  <2> QED
    BY <2>1, <2>4 DEF StaleLaunchNeverShown
<1> QED
  BY <1>1, SafeAlways, PTL

(* The stages only run forward until a reset, which starts a new generation *)
(* with nothing on screen, nothing in flight that would be adopted, and no  *)
(* counts left over (daemon.go, handleWatch's handlers and reset).          *)
THEOREM StagesRunForward == Spec => StagesOnlyAdvance
<1> DEFINE Back == stage' < stage =>
                      /\ stage' = stageIdle /\ gen' > gen
                      /\ current' = None /\ cancel' = None
                      /\ deaths' = 0 /\ attempts' = 0 /\ cycles' = 0
<1>1. TypeOK /\ [Next]_vars => Back
  <2> SUFFICES ASSUME TypeOK, [Next]_vars, stage' < stage
               PROVE  /\ stage' = stageIdle /\ gen' > gen
                      /\ current' = None /\ cancel' = None
                      /\ deaths' = 0 /\ attempts' = 0 /\ cycles' = 0
    OBVIOUS
  <2>1. stage \in 0..3 /\ gen \in Nat
    BY DEF TypeOK, LoopTypeOK, stageIdle, stageBlank
  <2>2. CASE Reset
    BY <2>1, <2>2 DEF Reset, StopSaver
  <2>3. ASSUME NEW outcome, Teardown(outcome)
        PROVE  /\ stage' = stageIdle /\ gen' > gen
               /\ current' = None /\ cancel' = None
               /\ deaths' = 0 /\ attempts' = 0 /\ cycles' = 0
    BY <2>1, <2>3 DEF Teardown
  <2>4. CASE OnSaver \/ OnLock \/ OnBlank
    <3>1. \/ stage' = stageSaver /\ ~Reached(stageSaver)
          \/ stage' = stageLock /\ ~Reached(stageLock)
          \/ stage' = stageBlank /\ ~Reached(stageBlank)
      BY <2>4 DEF OnSaver, OnLock, OnBlank
    <3> QED
      BY <2>1, <3>1 DEF Reached, stageSaver, stageLock, stageBlank
  <2>5. CASE UNCHANGED stage
    BY <2>1, <2>5
  <2>6. \/ Reset \/ OnSaver \/ OnLock \/ OnBlank \/ UNCHANGED stage
        \/ \E outcome \in {"stopped", "failed", "panicked"} : Teardown(outcome)
    <3>1. CASE Start \/ UNCHANGED vars
      BY <3>1 DEF Start, Connected, NotConnected, vars
    <3>2. CASE HandleWatch
      BY <3>2 DEF HandleWatch, OnUnknownWatch, OnPassedStage, OnCycle, OnActive
    <3>3. CASE HandleLaunch \/ HandleLockChange
      BY <3>3 DEF HandleLaunch, OnUnwantedLaunch, OnFailedLaunch, OnLaunchUp,
                  HandleLockChange, OnLockIgnored, OnLockStops, LockWatcherLost
    <3>4. CASE HandleExit
      BY <3>4 DEF HandleExit, OnModuleExit, OnCopyExit, OnCopyExitPanic
    <3>5. CASE Reload
      BY <3>5 DEF Reload, vars
    <3>6. CASE Terminate \/ LoseMutter \/ Die
      BY <3>6 DEF Terminate, LoseMutter, Die
    <3>7. CASE Environment
      BY <3>7 DEF Environment, LaunchSettles, LaunchReturns, ProcessDies, ModuleDies,
                  MutterFires, Fire, Tick, Activity, SessionLocks, UserUnlocks, UserActivity
    <3> QED
      BY <3>1, <3>2, <3>3, <3>4, <3>5, <3>6, <3>7 DEF Next, Loop
  <2> QED
    BY <2>2, <2>3, <2>4, <2>5, <2>6
<1>2. TypeOK /\ [Next]_vars => [Back]_vars
  BY <1>1
<1>3. Spec => [][Back]_vars
  BY <1>2, TypeCorrect, PTL DEF Spec
<1> QED
  BY <1>3 DEF StagesOnlyAdvance

(***************************************************************************)
(* What is on screen is watched, and what came up is not lost.  The launch *)
(* machine.cancel names is still coming: its result has not been taken,    *)
(* and whatever cancels it clears machine.cancel.  A module that is dead   *)
(* and kept was watched on Done, so it is one for all monitors.            *)
(***************************************************************************)
CancelOK == cancel # None => Coming(cancel)

DeadOK ==
    /\ watching # "none" => current # None /\ ~dead
    /\ dead => current # None /\ cancel # None

ChannelOK ==
    current # None =>
        IF launches[current].names > 1 THEN watching = "exits"
        ELSE watching = "done" \/ dead

Alive == {"starting", "running"}

NotLost ==
    \A l \in LaunchId : run \in Alive /\ launches[l].st = "up" => l = current \/ InChannel(l)

Watched == CancelOK /\ DeadOK /\ ChannelOK /\ NotLost

WatchedInv == SafeInv /\ Watched

(* What these speak of in a launch; ModuleDies and onCopyExit keep it.     *)
SameLaunch(l) ==
    /\ launches'[l].st = launches[l].st
    /\ launches'[l].gen = launches[l].gen
    /\ launches'[l].names = launches[l].names
    /\ launches'[l].canceled = launches[l].canceled

LEMMA WatchedKept ==
    ASSUME WatchedInv, UNCHANGED <<gen, launched, cancel, current, watching, dead>>,
           run' \in Alive => run \in Alive,
           \A l \in LaunchId : SameLaunch(l)
    PROVE  Watched'
<1>1. /\ cancel \in LaunchId \cup {None}
      /\ current \in LaunchId \cup {None}
  BY DEF WatchedInv, SafeInv, TypeOK, SaverTypeOK
<1>2. CancelOK'
  BY <1>1 DEF WatchedInv, Watched, CancelOK, Coming, InFlight, InChannel, SameLaunch
<1>3. DeadOK'
  BY DEF WatchedInv, Watched, DeadOK
<1>4. ChannelOK'
  BY <1>1 DEF WatchedInv, Watched, ChannelOK, SameLaunch
<1>5. NotLost'
  BY DEF WatchedInv, Watched, NotLost, InChannel, SameLaunch
<1> QED
  BY <1>2, <1>3, <1>4, <1>5 DEF Watched

LEMMA StopSaverWatched ==
    ASSUME WatchedInv, StopSaver, UNCHANGED <<run, launched>>
    PROVE  Watched'
<1>1. \A l \in LaunchId \ {current} : launches'[l].st = launches[l].st
  BY DEF StopSaver, Abandoned, Abandon, WatchedInv, SafeInv, TypeOK, SaverTypeOK, Launch
<1>2. \A l \in LaunchId : l = current => launches'[l].st = "none"
  BY DEF StopSaver, Abandoned, NoLaunch
<1>3. NotLost'
  BY <1>1, <1>2 DEF NotLost, InChannel, WatchedInv, Watched
<1> QED
  BY <1>3 DEF StopSaver, Watched, CancelOK, DeadOK, ChannelOK

LEMMA TeardownWatched ==
    ASSUME NEW outcome, outcome \notin Alive, Teardown(outcome)
    PROVE  Watched'
BY DEF Teardown, Watched, CancelOK, DeadOK, ChannelOK, NotLost

(* A launch that begins is coming, and disturbs no other. *)
LEMMA LaunchesWatched ==
    ASSUME WatchedInv, NEW tries, NEW ls \in [LaunchId -> Launch], Launches(tries, ls),
           UNCHANGED gen
    PROVE  /\ CancelOK'
           /\ cancel' # None
           /\ \A l \in LaunchId : ls[l].st # "none" => launches'[l] = ls[l]
           /\ \A l \in LaunchId : launches'[l].st = "up" => ls[l].st = "up"
<1> PICK l \in LaunchId, n \in NameCounts :
        /\ ls[l].st = "none"
        /\ launches' = [ls EXCEPT ![l] = NewLaunch(n)]
        /\ cancel' = l
  BY DEF Launches
<1>1. launches'[l] = NewLaunch(n)
  OBVIOUS
<1>2. /\ launches'[l].st = "starting"
      /\ launches'[l].gen = gen
      /\ ~launches'[l].canceled
  BY <1>1 DEF NewLaunch
<1>3. CancelOK'
  BY <1>2 DEF CancelOK, Coming, InFlight
<1>4. \A m \in LaunchId \ {l} : launches'[m] = ls[m]
  OBVIOUS
<1> QED
  BY <1>2, <1>3, <1>4, NoneAssumption

LEMMA StartLaunchWatched ==
    ASSUME WatchedInv, NEW tries, StartLaunch(tries, launches, cancel),
           UNCHANGED <<run, gen, launched, current, watching, dead>>
    PROVE  Watched'
<1>1. CASE Launches(tries, launches)
  <2>1. launches \in [LaunchId -> Launch] /\ current \in LaunchId \cup {None}
    BY DEF WatchedInv, SafeInv, TypeOK, SaverTypeOK
  <2>2. /\ CancelOK'
        /\ cancel' # None
        /\ \A l \in LaunchId : launches[l].st # "none" => launches'[l] = launches[l]
        /\ \A l \in LaunchId : launches'[l].st = "up" => launches[l].st = "up"
    BY <1>1, <2>1, LaunchesWatched
  <2>3. current # None => launches'[current] = launches[current]
    BY <2>1, <2>2 DEF WatchedInv, SafeInv, ScreenOK
  <2>4. DeadOK'
    BY <2>2 DEF WatchedInv, Watched, DeadOK
  <2>5. ChannelOK'
    BY <2>3 DEF WatchedInv, Watched, ChannelOK
  <2>6. NotLost'
    BY <2>2 DEF WatchedInv, Watched, NotLost, InChannel
  <2> QED
    BY <2>2, <2>4, <2>5, <2>6 DEF Watched
<1>2. CASE launches' = launches /\ cancel' = cancel
  BY <1>2, WatchedKept DEF SameLaunch
<1> QED
  BY <1>1, <1>2 DEF StartLaunch

LEMMA HandleWatchWatched ==
    ASSUME WatchedInv, HandleWatch
    PROVE  Watched'
<1>1. CASE OnUnknownWatch \/ OnPassedStage
  BY <1>1, WatchedKept DEF OnUnknownWatch, OnPassedStage, loopVars, saverVars, SameLaunch
<1>2. CASE OnSaver
  BY <1>2, WatchedKept, StartLaunchWatched DEF OnSaver, saverVars, SameLaunch
<1>3. CASE OnCycle
  BY <1>3, WatchedKept, StartLaunchWatched DEF OnCycle, loopVars, saverVars, SameLaunch
<1>4. CASE OnLock \/ OnBlank \/ OnActive
  BY <1>4, StopSaverWatched DEF OnLock, OnBlank, OnActive, Reset
<1> QED
  BY <1>1, <1>2, <1>3, <1>4 DEF HandleWatch

(* The result that is taken leaves the channel, the others stay in it.     *)
LEMMA LandedWatched ==
    ASSUME WatchedInv, Landed
    PROVE  /\ Head(launched) \in LaunchId \ {current}
           /\ launches[Head(launched)].st \in Settled
           /\ \A l \in LaunchId \ {Head(launched)} : InChannel(l) => InChannel(l)'
<1>1. launched \in Seq(LaunchId) /\ launched # <<>> /\ launched' = Tail(launched)
  BY DEF Landed, WatchedInv, SafeInv, TypeOK, SaverTypeOK
<1>2. Head(launched) \in LaunchId \ {current}
  BY LandedSafe DEF WatchedInv
<1>3. 1 \in DOMAIN launched /\ Head(launched) = launched[1]
  BY <1>1
<1>4. launches[Head(launched)].st \in Settled
  BY <1>3 DEF WatchedInv, SafeInv, QueueOK, Settled
<1>5. ASSUME NEW l \in LaunchId, l # Head(launched), InChannel(l)
      PROVE  InChannel(l)'
  <2> PICK i \in DOMAIN launched : launched[i] = l
    BY <1>5 DEF InChannel
  <2>1. i # 1 /\ i - 1 \in DOMAIN launched' /\ launched'[i - 1] = l
    BY <1>1, <1>3, <1>5
  <2> QED
    BY <2>1 DEF InChannel
<1> QED
  BY <1>2, <1>4, <1>5

LEMMA HandleLaunchWatched ==
    ASSUME WatchedInv, HandleLaunch
    PROVE  Watched'
<1> DEFINE h == Head(launched)
<1>1. /\ Landed /\ gen' = gen /\ run = "running"
      /\ run' = run
  BY DEF HandleLaunch, OnUnwantedLaunch, OnFailedLaunch, OnLaunchUp, Landed, Running, loopVars
<1>2. /\ h \in LaunchId \ {current}
      /\ launches[h].st \in Settled
      /\ \A l \in LaunchId \ {h} : InChannel(l) => InChannel(l)'
  BY <1>1, LandedWatched
<1>3. /\ launches \in [LaunchId -> Launch]
      /\ cancel \in LaunchId \cup {None}
      /\ current \in LaunchId \cup {None}
      /\ dead \in BOOLEAN
  BY DEF WatchedInv, SafeInv, TypeOK, SaverTypeOK
<1>4. /\ Received \in [LaunchId -> Launch]
      /\ Received[h] = NoLaunch
      /\ \A l \in LaunchId \ {h} : Received[l] = launches[l]
  BY <1>1, <1>2, <1>3, ReceivedTyped, LandedSafe DEF Received, WatchedInv
<1> HIDE DEF h
<1>5. CASE OnUnwantedLaunch
  <2>1. /\ launches' = Received
        /\ UNCHANGED <<current, watching, dead>>
        /\ cancel' = CancelLeft
    BY <1>5 DEF OnUnwantedLaunch
  <2>2. \/ cancel' = cancel /\ launches[h].gen # gen
        \/ cancel' = None /\ launches[h].gen = gen
    BY <2>1 DEF CancelLeft, Result, h
  <2>3. CancelOK'
    <3>1. CASE cancel' = cancel /\ launches[h].gen # gen /\ cancel # None
      <4>1. cancel # h /\ Coming(cancel)
        BY <3>1 DEF WatchedInv, Watched, CancelOK, Coming
      <4>2. launches'[cancel] = launches[cancel]
        BY <1>3, <1>4, <2>1, <3>1, <4>1
      <4>3. InFlight(cancel)'
        BY <1>2, <1>3, <3>1, <4>1, <4>2 DEF Coming, InFlight
      <4> QED
        BY <1>1, <3>1, <4>1, <4>2, <4>3 DEF CancelOK, Coming, InFlight, InChannel
    <3> QED
      BY <2>2, <3>1 DEF CancelOK
  <2>4. current # None => stage = stageSaver /\ launches[h].gen # gen
    BY <1>5 DEF OnUnwantedLaunch, Unwanted, Result, WatchedInv, SafeInv, ScreenOK, stageSaver,
                stageLock, h
  <2>5. DeadOK'
    BY <2>1, <2>2, <2>4 DEF WatchedInv, Watched, DeadOK
  <2>6. ChannelOK'
    BY <1>2, <1>3, <1>4, <2>1 DEF WatchedInv, Watched, ChannelOK
  <2>7. NotLost'
    BY <1>1, <1>2, <1>4, <2>1 DEF WatchedInv, Watched, NotLost, NoLaunch
  <2> QED
    BY <2>3, <2>5, <2>6, <2>7 DEF Watched
<1>6. CASE OnFailedLaunch /\ Launches(attempts, Received) /\ UNCHANGED <<current, dead>>
  <2>1. /\ CancelOK'
        /\ cancel' # None
        /\ \A l \in LaunchId : Received[l].st # "none" => launches'[l] = Received[l]
        /\ \A l \in LaunchId : launches'[l].st = "up" => Received[l].st = "up"
    BY <1>1, <1>4, <1>6, LaunchesWatched
  <2>2. current # None => launches'[current] = launches[current]
    BY <1>2, <1>3, <1>4, <2>1 DEF WatchedInv, SafeInv, ScreenOK
  <2>3. watching' = watching
    BY <1>6 DEF OnFailedLaunch
  <2>4. DeadOK'
    BY <1>6, <2>1, <2>3 DEF WatchedInv, Watched, DeadOK
  <2>5. ChannelOK'
    BY <1>6, <2>2, <2>3 DEF WatchedInv, Watched, ChannelOK
  <2>6. NotLost'
    BY <1>1, <1>2, <1>4, <1>6, <2>1 DEF WatchedInv, Watched, NotLost, NoLaunch
  <2> QED
    BY <2>1, <2>4, <2>5, <2>6 DEF Watched
<1>7. CASE OnFailedLaunch /\ CloseDead(Received)
  <2>1. /\ cancel' = None /\ ~dead' /\ watching' = watching
        /\ current' = IF dead THEN None ELSE current
        /\ launches' = IF dead THEN [Received EXCEPT ![current] = NoLaunch] ELSE Received
    BY <1>7 DEF OnFailedLaunch, CloseDead
  <2>2. CancelOK' /\ DeadOK'
    BY <1>3, <2>1 DEF WatchedInv, Watched, CancelOK, DeadOK
  <2>3. ChannelOK'
    BY <1>2, <1>3, <1>4, <2>1 DEF WatchedInv, Watched, ChannelOK
  <2>4. ASSUME NEW l \in LaunchId, launches'[l].st = "up"
        PROVE  l = current' \/ InChannel(l)'
    <3>1. l # h /\ launches[l].st = "up" /\ (dead => l # current)
      <4>1. CASE dead
        <5>1. launches' = [Received EXCEPT ![current] = NoLaunch] /\ current \in LaunchId
          BY <1>3, <2>1, <4>1 DEF WatchedInv, Watched, DeadOK
        <5>2. launches'[l] # NoLaunch
          BY <2>4 DEF NoLaunch
        <5>3. l # current
          BY <1>4, <5>1, <5>2
        <5>4. launches'[l] = Received[l]
          BY <1>4, <5>1, <5>3
        <5> QED
          BY <1>4, <2>4, <5>2, <5>3, <5>4
      <4>2. CASE ~dead
        BY <1>4, <2>1, <2>4, <4>2 DEF NoLaunch
      <4> QED
        BY <4>1, <4>2
    <3>2. l = current \/ InChannel(l)
      BY <1>1, <3>1 DEF WatchedInv, Watched, NotLost, Alive
    <3> QED
      BY <1>2, <1>3, <2>1, <3>1, <3>2
  <2> QED
    BY <2>2, <2>3, <2>4 DEF Watched, NotLost
<1>8. CASE OnLaunchUp
  <2>1. /\ launches' = OutgoingStopped /\ current' = h
        /\ watching' = Channel(launches[h]) /\ ~dead'
        /\ cancel' = None
    BY <1>8 DEF OnLaunchUp, CancelLeft, Unwanted, Result, h
  <2>2. launches'[h] = launches[h] /\ \A l \in LaunchId \ {current} : launches'[l] = launches[l]
    BY <1>2, <2>1 DEF OutgoingStopped
  <2>3. \A l \in LaunchId : l = current => launches'[l] = NoLaunch
    BY <2>1 DEF OutgoingStopped
  <2>4. h # None
    BY <1>2, NoneAssumption
  <2>5. CancelOK' /\ DeadOK'
    BY <2>1, <2>4 DEF CancelOK, DeadOK
  <2>6. ChannelOK'
    BY <2>1, <2>2 DEF ChannelOK, Channel
  <2>7. NotLost'
    BY <1>1, <1>2, <2>1, <2>2, <2>3 DEF WatchedInv, Watched, NotLost, NoLaunch
  <2> QED
    BY <2>5, <2>6, <2>7 DEF Watched
<1> QED
  BY <1>5, <1>6, <1>7, <1>8 DEF HandleLaunch, OnFailedLaunch

LEMMA OnModuleExitWatched ==
    ASSUME WatchedInv, OnModuleExit
    PROVE  Watched'
<1>1. /\ launches \in [LaunchId -> Launch]
      /\ current \in LaunchId
      /\ current # None /\ ~dead
      /\ watching = "done" /\ watching' = "none"
      /\ UNCHANGED <<run, gen, launched>>
  BY DEF OnModuleExit, DoneClosed, WatchedInv, Watched, DeadOK, SafeInv, TypeOK, SaverTypeOK, loopVars
<1>2. ~(launches[current].names > 1) /\ launches[current].st = "up"
  BY <1>1 DEF WatchedInv, Watched, ChannelOK, SafeInv, ScreenOK
<1>3. CASE cancel # None /\ dead' = TRUE /\ UNCHANGED <<launches, cancel, current>>
  <2>1. CancelOK' /\ NotLost'
    BY <1>1, <1>3
    DEF WatchedInv, Watched, CancelOK, NotLost, Coming, InFlight, InChannel
  <2>2. DeadOK' /\ ChannelOK'
    BY <1>1, <1>2, <1>3 DEF DeadOK, ChannelOK
  <2> QED
    BY <2>1, <2>2 DEF Watched
<1>4. CASE /\ dead' = FALSE /\ current' = None /\ cancel' = None
           /\ launches' = [launches EXCEPT ![current] = NoLaunch]
  <2>1. NotLost'
    BY <1>1, <1>4 DEF WatchedInv, Watched, NotLost, InChannel, NoLaunch
  <2> QED
    BY <1>1, <1>4, <2>1 DEF Watched, CancelOK, DeadOK, ChannelOK
<1>5. CASE Launches(0, launches) /\ dead' = TRUE /\ UNCHANGED current
  <2>1. /\ CancelOK'
        /\ cancel' # None
        /\ \A l \in LaunchId : launches[l].st # "none" => launches'[l] = launches[l]
        /\ \A l \in LaunchId : launches'[l].st = "up" => launches[l].st = "up"
    BY <1>1, <1>5, LaunchesWatched
  <2>2. launches'[current] = launches[current]
    BY <1>1, <1>2, <2>1
  <2>3. DeadOK' /\ ChannelOK'
    BY <1>1, <1>2, <1>5, <2>1, <2>2 DEF DeadOK, ChannelOK
  <2>4. NotLost'
    BY <1>1, <1>5, <2>1 DEF WatchedInv, Watched, NotLost, InChannel
  <2> QED
    BY <2>1, <2>3, <2>4 DEF Watched
<1> QED
  BY <1>3, <1>4, <1>5 DEF OnModuleExit

LEMMA OnCopyExitWatched ==
    ASSUME WatchedInv, OnCopyExit
    PROVE  Watched'
<1> PICK i \in Monitor :
        /\ CopyExited(i)
        /\ launches' \in {Reported(i), Replaced(i)}
        /\ UNCHANGED <<loopVars, gen, launched, cancel, current, watching, dead>>
  BY DEF OnCopyExit
<1>1. /\ launches \in [LaunchId -> Launch]
      /\ current \in LaunchId
  BY DEF CopyExited, WatchedInv, SafeInv, TypeOK, SaverTypeOK
<1>2. \A l \in LaunchId : SameLaunch(l)
  <2>1. launches[current] \in Launch
    BY <1>1
  <2> QED
    BY <1>1, <2>1 DEF Reported, Replaced, Launch, SameLaunch
<1> QED
  BY <1>2, WatchedKept DEF loopVars

LEMMA EnvironmentWatched ==
    ASSUME WatchedInv, Environment
    PROVE  Watched'
<1>1. /\ launches \in [LaunchId -> Launch]
      /\ cancel \in LaunchId \cup {None}
      /\ current \in LaunchId \cup {None}
      /\ launched \in Seq(LaunchId)
  BY DEF WatchedInv, SafeInv, TypeOK, SaverTypeOK
<1>2. ASSUME NEW l \in LaunchId, LaunchReturns(l)
      PROVE  Watched'
  <2>1. /\ launches[l].st = "starting" /\ launched' = Append(launched, l)
        /\ UNCHANGED <<run, gen, cancel, current, watching, dead>>
    BY <1>2 DEF LaunchReturns, loopVars
  <2>2. /\ launches'[l].gen = launches[l].gen
        /\ launches'[l].canceled = launches[l].canceled
        /\ \A m \in LaunchId \ {l} : launches'[m] = launches[m]
    <3>1. launches[l] \in Launch
      BY <1>1
    <3>2. ASSUME NEW windows, NEW alive, LaunchUp(l, windows, alive)
          PROVE  /\ launches'[l].gen = launches[l].gen
                 /\ launches'[l].canceled = launches[l].canceled
                 /\ \A m \in LaunchId \ {l} : launches'[m] = launches[m]
      BY <1>1, <3>1, <3>2 DEF LaunchUp, Launch
    <3>3. CASE \/ LaunchUp(l, {1}, {1})
               \/ \E w \in WindowCounts(launches[l].names) :
                     \E alive \in SUBSET (1..w) \ {{}} : LaunchUp(l, 1..w, alive)
      BY <3>2, <3>3
    <3>4. CASE \/ launches' = [launches EXCEPT ![l].st = "failed"]
               \/ launches' = [launches EXCEPT ![l].st = "canceled"]
      BY <1>1, <3>1, <3>4 DEF Launch
    <3> QED
      BY <1>2, <3>3, <3>4 DEF LaunchReturns
  <2>3. InChannel(l)' /\ \A m \in LaunchId : InChannel(m) => InChannel(m)'
    <3>1. /\ Len(launched) + 1 \in DOMAIN launched'
          /\ launched'[Len(launched) + 1] = l
          /\ \A i \in DOMAIN launched : i \in DOMAIN launched' /\ launched'[i] = launched[i]
      BY <1>1, <2>1
    <3> QED
      BY <3>1 DEF InChannel
  <2>4. current # None => current # l
    BY <2>1 DEF WatchedInv, SafeInv, ScreenOK
  <2>5. CancelOK'
    <3> SUFFICES ASSUME cancel # None
                 PROVE  Coming(cancel)'
      BY <2>1 DEF CancelOK, Coming, InFlight, InChannel
    <3>1. Coming(cancel) /\ cancel \in LaunchId
      BY <1>1 DEF WatchedInv, Watched, CancelOK
    <3>2. launches'[cancel].gen = gen /\ ~launches'[cancel].canceled
      BY <2>2, <3>1 DEF Coming
    <3>3. launches'[cancel].st = "starting" \/ InChannel(cancel)'
      BY <2>1, <2>2, <2>3, <3>1 DEF Coming, InFlight, InChannel
    <3> QED
      BY <2>1, <3>2, <3>3 DEF Coming, InFlight, InChannel
  <2>6. DeadOK'
    BY <2>1 DEF WatchedInv, Watched, DeadOK
  <2>7. ChannelOK'
    BY <1>1, <2>1, <2>2, <2>4 DEF WatchedInv, Watched, ChannelOK
  <2>8. NotLost'
    BY <2>1, <2>2, <2>3 DEF WatchedInv, Watched, NotLost
  <2> QED
    BY <2>5, <2>6, <2>7, <2>8 DEF Watched
<1>3. ASSUME NEW l \in LaunchId, NEW i \in Monitor, ModuleDies(l, i)
      PROVE  Watched'
  <2>1. \A m \in LaunchId : SameLaunch(m)
    <3>1. launches[l] \in Launch
      BY <1>1
    <3> QED
      BY <1>1, <1>3, <3>1 DEF ModuleDies, Launch, SameLaunch
  <2> QED
    BY <1>3, <2>1, WatchedKept DEF ModuleDies, loopVars
<1>4. CASE MutterFires \/ Tick \/ Activity \/ SessionLocks \/ UserUnlocks
  BY <1>4, WatchedKept
  DEF MutterFires, Fire, Tick, Activity, SessionLocks, UserUnlocks, UserActivity,
      loopVars, saverVars, SameLaunch
<1> QED
  BY <1>2, <1>3, <1>4 DEF Environment, LaunchSettles, ProcessDies

LEMMA WatchedStep ==
    WatchedInv /\ [Next]_vars => WatchedInv'
<1> SUFFICES ASSUME WatchedInv, [Next]_vars PROVE Watched'
  BY SafeStep DEF WatchedInv
<1>1. CASE Start
  <2>1. /\ UNCHANGED <<gen, launched, saverVars>>
        /\ run \in Alive
    BY <1>1 DEF Start, Connected, NotConnected, Alive
  <2> QED
    BY <2>1, WatchedKept DEF saverVars, SameLaunch
<1>2. CASE HandleWatch
  BY <1>2, HandleWatchWatched
<1>3. CASE HandleLaunch
  BY <1>3, HandleLaunchWatched
<1>4. CASE OnModuleExit \/ OnCopyExit
  BY <1>4, OnModuleExitWatched, OnCopyExitWatched
<1>5. CASE HandleLockChange
  BY <1>5, WatchedKept, StopSaverWatched
  DEF HandleLockChange, OnLockIgnored, OnLockStops, LockWatcherLost, loopVars, saverVars, SameLaunch
<1>6. CASE Reload
  BY <1>6, WatchedKept, StopSaverWatched DEF Reload, Reset, vars, saverVars, loopVars, SameLaunch
<1>7. CASE OnCopyExitPanic \/ Terminate \/ LoseMutter \/ Die
  <2>1. \E outcome \in {"stopped", "failed", "panicked"} : Teardown(outcome)
    BY <1>7 DEF OnCopyExitPanic, Terminate, LoseMutter, Die
  <2> QED
    BY <2>1, TeardownWatched DEF Alive
<1>8. CASE Environment
  BY <1>8, EnvironmentWatched
<1>9. CASE UNCHANGED vars
  BY <1>9, WatchedKept DEF vars, saverVars, loopVars, SameLaunch
<1> QED
  BY <1>1, <1>2, <1>3, <1>4, <1>5, <1>6, <1>7, <1>8, <1>9 DEF Next, Loop, HandleExit

LEMMA WatchedInit == Init => WatchedInv
<1> SUFFICES ASSUME Init PROVE Watched
  BY SafeInit DEF WatchedInv
<1> QED
  BY DEF Init, Watched, CancelOK, DeadOK, ChannelOK, NotLost, NoLaunch

LEMMA WatchedAlways == Spec => []WatchedInv
<1>1. Init => WatchedInv
  BY WatchedInit
<1> QED
  BY <1>1, WatchedStep, PTL DEF Spec

(* No handler loses a module that came up: it is on screen, or its result   *)
(* is in the channel (handleLaunch, closeDead).                             *)
THEOREM ModulesAreKept == Spec => []NoModuleLost
<1>1. WatchedInv => NoModuleLost
  BY DEF WatchedInv, Watched, NotLost, NoModuleLost, Alive
<1> QED
  BY <1>1, WatchedAlways, PTL

(* The daemon selects on the channel of the module on screen only, and a    *)
(* dead one stays only while its replacement is still coming, however many  *)
(* launches overlap (onModuleExit, handleLaunch, closeDead).                *)
THEOREM DeadModulesAreReplaced == Spec => []DeadModuleHasReplacement
<1>1. WatchedInv => DeadModuleHasReplacement
  BY DEF WatchedInv, Watched, CancelOK, DeadOK, DeadModuleHasReplacement
<1> QED
  BY <1>1, WatchedAlways, PTL

(* No module is on screen whose exit nobody would notice, through swaps     *)
(* between one module and one per monitor (handleLaunch, Run's select).     *)
THEOREM ExitsAreNoticed == Spec => []ScreenIsWatched
<1>1. WatchedInv => ScreenIsWatched
  BY DEF WatchedInv, Watched, ChannelOK, ScreenIsWatched
<1> QED
  BY <1>1, WatchedAlways, PTL

(***************************************************************************)
(* A module that is dead and kept has no process left: what takes it down  *)
(* takes nothing that runs.                                                *)
(***************************************************************************)
Emptied == dead => launches[current].alive = {}

StaysInv == WatchedInv /\ Emptied

LEMMA EmptiedKept ==
    ASSUME StaysInv, UNCHANGED <<current, dead>>,
           current # None => launches'[current].alive \subseteq launches[current].alive
    PROVE  Emptied'
BY DEF StaysInv, WatchedInv, Watched, DeadOK, Emptied

LEMMA OnScreen ==
    ASSUME WatchedInv, current # None
    PROVE  /\ current \in LaunchId /\ launches[current].st = "up"
           /\ \A i \in DOMAIN launched : launched[i] # current
BY DEF WatchedInv, SafeInv, TypeOK, SaverTypeOK, ScreenOK, QueueOK

LEMMA StartLaunchEmptied ==
    ASSUME StaysInv, NEW tries, StartLaunch(tries, launches, cancel),
           UNCHANGED <<gen, current, dead>>
    PROVE  Emptied'
<1>1. launches \in [LaunchId -> Launch]
  BY DEF StaysInv, WatchedInv, SafeInv, TypeOK, SaverTypeOK
<1>2. current # None => launches'[current] = launches[current]
  <2>1. CASE Launches(tries, launches)
    BY <1>1, <2>1, LaunchesWatched, OnScreen DEF StaysInv
  <2>2. CASE launches' = launches
    BY <2>2
  <2> QED
    BY <2>1, <2>2 DEF StartLaunch
<1> QED
  BY <1>2, EmptiedKept

LEMMA HandleLaunchEmptied ==
    ASSUME StaysInv, HandleLaunch
    PROVE  Emptied'
<1>1. /\ launches \in [LaunchId -> Launch] /\ launched \in Seq(LaunchId) /\ gen \in Nat
      /\ launched # <<>> => Head(launched) \in LaunchId /\ Head(launched) # current
  <2>1. /\ launches \in [LaunchId -> Launch] /\ launched \in Seq(LaunchId) /\ gen \in Nat
    BY DEF StaysInv, WatchedInv, SafeInv, TypeOK, SaverTypeOK, LoopTypeOK
  <2>2. launched # <<>> => 1 \in DOMAIN launched /\ Head(launched) = launched[1]
    BY <2>1
  <2> QED
    BY <2>1, <2>2 DEF StaysInv, WatchedInv, SafeInv, QueueOK
<1>2. launched # <<>> =>
        /\ Received \in [LaunchId -> Launch]
        /\ current # None => Received[current] = launches[current]
  <2> SUFFICES ASSUME launched # <<>>
               PROVE  /\ Received \in [LaunchId -> Launch]
                      /\ current # None => Received[current] = launches[current]
    OBVIOUS
  <2>0. Landed
    BY DEF HandleLaunch, OnUnwantedLaunch, OnFailedLaunch, OnLaunchUp
  <2>1. Received \in [LaunchId -> Launch]
    BY <2>0, ReceivedTyped DEF StaysInv, WatchedInv, SafeInv
  <2>2. current # None => current \in LaunchId
    BY OnScreen DEF StaysInv
  <2> QED
    BY <1>1, <2>1, <2>2 DEF Received
<1>3. CASE OnUnwantedLaunch
  BY <1>2, <1>3, EmptiedKept DEF OnUnwantedLaunch, Landed
<1>4. CASE OnFailedLaunch
  <2>1. CASE Launches(attempts, Received) /\ UNCHANGED <<current, dead>>
    <3>1. launched # <<>> /\ UNCHANGED gen
      BY <1>4 DEF OnFailedLaunch, Landed
    <3>2. \A l \in LaunchId : Received[l].st # "none" => launches'[l] = Received[l]
      BY <1>2, <2>1, <3>1, LaunchesWatched DEF StaysInv
    <3>3. current # None => launches'[current] = launches[current]
      BY <1>2, <3>1, <3>2, OnScreen DEF StaysInv
    <3> QED
      BY <2>1, <3>3, EmptiedKept
  <2>2. CASE CloseDead(Received)
    BY <2>2 DEF CloseDead, Emptied
  <2> QED
    BY <1>4, <2>1, <2>2 DEF OnFailedLaunch
<1>5. CASE OnLaunchUp
  BY <1>5 DEF OnLaunchUp, Emptied
<1> QED
  BY <1>3, <1>4, <1>5 DEF HandleLaunch

LEMMA HandleExitEmptied ==
    ASSUME StaysInv, HandleExit
    PROVE  Emptied'
<1>1. CASE OnModuleExit
  <2>1. current # None /\ launches[current].alive = {}
    BY <1>1 DEF OnModuleExit, DoneClosed, StaysInv, WatchedInv, Watched, DeadOK
  <2>2. CASE Launches(0, launches) /\ UNCHANGED current
    <3>1. launches \in [LaunchId -> Launch] /\ UNCHANGED gen
      BY <1>1 DEF OnModuleExit, StaysInv, WatchedInv, SafeInv, TypeOK, SaverTypeOK
    <3>2. launches'[current] = launches[current]
      BY <2>1, <2>2, <3>1, LaunchesWatched, OnScreen DEF StaysInv
    <3> QED
      BY <2>1, <2>2, <3>2 DEF Emptied
  <2>3. CASE UNCHANGED <<launches, current>>
    BY <2>1, <2>3 DEF Emptied
  <2>4. CASE dead' = FALSE
    BY <2>4 DEF Emptied
  <2> QED
    BY <1>1, <2>2, <2>3, <2>4 DEF OnModuleExit
<1>2. CASE OnCopyExit
  <2>1. ~dead'
    BY <1>2 DEF OnCopyExit, CopyExited, StaysInv, WatchedInv, Watched, DeadOK
  <2> QED
    BY <2>1 DEF Emptied
<1>3. CASE OnCopyExitPanic
  BY <1>3 DEF OnCopyExitPanic, Teardown, Emptied
<1> QED
  BY <1>1, <1>2, <1>3 DEF HandleExit

LEMMA EnvironmentEmptied ==
    ASSUME StaysInv, Environment
    PROVE  Emptied'
<1>0. launches \in [LaunchId -> Launch]
  BY DEF StaysInv, WatchedInv, SafeInv, TypeOK, SaverTypeOK
<1>1. ASSUME NEW l \in LaunchId, LaunchReturns(l)
      PROVE  Emptied'
  <2>1. /\ UNCHANGED <<current, dead>> /\ launches[l].st = "starting"
        /\ \A m \in LaunchId \ {l} : launches'[m] = launches[m]
    BY <1>0, <1>1 DEF LaunchReturns, LaunchUp
  <2>2. current # None => current \in LaunchId \ {l}
    BY <2>1, OnScreen DEF StaysInv
  <2> QED
    BY <2>1, <2>2, EmptiedKept
<1>2. ASSUME NEW l \in LaunchId, NEW i \in Monitor, ModuleDies(l, i)
      PROVE  Emptied'
  <2>1. /\ UNCHANGED <<current, dead>>
        /\ launches'[l].alive = launches[l].alive \ {i}
        /\ \A m \in LaunchId \ {l} : launches'[m] = launches[m]
    BY <1>0, <1>2 DEF ModuleDies, Launch
  <2>2. current # None => launches'[current].alive \subseteq launches[current].alive
    BY <2>1, OnScreen DEF StaysInv
  <2> QED
    BY <2>1, <2>2, EmptiedKept
<1>3. CASE MutterFires \/ Tick \/ Activity \/ SessionLocks \/ UserUnlocks
  BY <1>3, EmptiedKept
     DEF MutterFires, Fire, Tick, Activity, SessionLocks, UserUnlocks, UserActivity, saverVars
<1> QED
  BY <1>1, <1>2, <1>3 DEF Environment, LaunchSettles, ProcessDies

LEMMA StaysStep ==
    StaysInv /\ [Next]_vars => StaysInv'
<1> SUFFICES ASSUME StaysInv, [Next]_vars
             PROVE  Emptied'
  BY WatchedStep DEF StaysInv
<1>1. CASE Start \/ HandleLockChange \/ UNCHANGED vars
  BY <1>1, EmptiedKept
     DEF Start, Connected, NotConnected, HandleLockChange, OnLockIgnored, OnLockStops,
         LockWatcherLost, StopSaver, Emptied, saverVars, vars
<1>2. CASE HandleWatch
  <2>1. CASE OnSaver
    BY <1>2, <2>1, EmptiedKept, StartLaunchEmptied DEF OnSaver, saverVars
  <2>2. CASE OnCycle
    BY <1>2, <2>2, EmptiedKept, StartLaunchEmptied DEF OnCycle, saverVars
  <2>3. CASE OnUnknownWatch \/ OnPassedStage
    BY <2>3, EmptiedKept DEF OnUnknownWatch, OnPassedStage, saverVars
  <2>4. CASE OnLock \/ OnBlank \/ OnActive
    BY <2>4 DEF OnLock, OnBlank, OnActive, Reset, StopSaver, Emptied
  <2> QED
    BY <1>2, <2>1, <2>2, <2>3, <2>4 DEF HandleWatch
<1>3. CASE Reload
  BY <1>3, EmptiedKept DEF Reload, Reset, StopSaver, Emptied, saverVars, vars
<1>4. CASE Terminate \/ LoseMutter \/ Die
  BY <1>4 DEF Terminate, LoseMutter, Die, Teardown, Emptied
<1> QED
  BY <1>1, <1>2, <1>3, <1>4, HandleLaunchEmptied, HandleExitEmptied, EnvironmentEmptied
     DEF Next, Loop

LEMMA StaysAlways == Spec => []StaysInv
<1>1. Init => StaysInv
  <2>1. Init => WatchedInv
    BY WatchedInit
  <2> QED
    BY <2>1 DEF Init, StaysInv, Emptied
<1> QED
  BY <1>1, StaysStep, PTL DEF Spec

(* In the saver stage a module that is running leaves the screen only when  *)
(* its replacement is up, or when the session was locked, whatever swaps    *)
(* fail, launches overlap and modules die (handleLaunch, closeDead).        *)
THEOREM LiveModulesStay == Spec => LiveModuleStays
<1> DEFINE Left == current # None /\ current' # current /\ stage' = stageSaver /\ run' = "running"
           Rightly == \/ current' # None /\ launches[current'].st = "up"
                      \/ current' = None /\ launches[current].alive = {}
                      \/ current' = None /\ locks # <<>> /\ Head(locks)
<1>1. ASSUME StaysInv, Next, Left
      PROVE  Rightly
  <2>1. CASE HandleLaunch
    <3>1. CASE OnUnwantedLaunch
      BY <1>1, <3>1 DEF OnUnwantedLaunch
    <3>2. CASE OnFailedLaunch
      <4>1. current' = None /\ dead
        BY <1>1, <3>2 DEF OnFailedLaunch, CloseDead
      <4> QED
        BY <1>1, <4>1 DEF StaysInv, Emptied
    <3>3. CASE OnLaunchUp
      BY <1>1, <3>3, ReceivedTyped, NoneAssumption
         DEF OnLaunchUp, Result, StaysInv, WatchedInv, SafeInv
    <3> QED
      BY <2>1, <3>1, <3>2, <3>3 DEF HandleLaunch
  <2>2. CASE HandleExit
    <3>1. CASE OnModuleExit
      <4>1. launches[current].alive = {} /\ current' = None
        BY <1>1, <3>1 DEF OnModuleExit, DoneClosed
      <4> QED
        BY <4>1
    <3>2. CASE OnCopyExit
      BY <1>1, <3>2 DEF OnCopyExit
    <3>3. CASE OnCopyExitPanic
      BY <1>1, <3>3 DEF OnCopyExitPanic, Teardown
    <3> QED
      BY <2>2, <3>1, <3>2, <3>3 DEF HandleExit
  <2>3. CASE HandleLockChange
    <3>1. CASE OnLockStops
      <4>1. current' = None /\ locks # <<>> /\ Head(locks)
        BY <3>1, Zenon DEF OnLockStops, LockChanged, StopSaver
      <4> QED
        BY <4>1, Zenon
    <3>2. CASE OnLockIgnored \/ LockWatcherLost
      <4>1. UNCHANGED current
        BY <3>2 DEF OnLockIgnored, LockWatcherLost, saverVars
      <4> QED
        BY <1>1, <4>1
    <3> QED
      BY <2>3, <3>1, <3>2 DEF HandleLockChange
  <2>4. CASE HandleWatch
    <3>1. CASE OnUnknownWatch \/ OnPassedStage \/ OnSaver \/ OnCycle
      BY <1>1, <3>1 DEF OnUnknownWatch, OnPassedStage, OnSaver, OnCycle, saverVars
    <3>2. CASE OnLock \/ OnBlank \/ OnActive
      <4>1. stage' \in {stageIdle, stageLock, stageBlank}
        BY <3>2 DEF OnLock, OnBlank, OnActive, Reset
      <4>2. stage' # stageSaver
        BY <4>1 DEF stageIdle, stageSaver, stageLock, stageBlank
      <4> QED
        BY <1>1, <4>2
    <3> QED
      BY <2>4, <3>1, <3>2 DEF HandleWatch
  <2>5. CASE Reload
    <3>1. UNCHANGED current \/ stage' = stageIdle
      BY <2>5 DEF Reload, Reset, vars, saverVars
    <3>2. stageIdle # stageSaver
      BY DEF stageIdle, stageSaver
    <3> QED
      BY <1>1, <3>1, <3>2
  <2>6. CASE Terminate \/ LoseMutter \/ Die
    BY <1>1, <2>6 DEF Terminate, LoseMutter, Die, Teardown
  <2>7. CASE Start \/ Environment
    BY <1>1, <2>7
       DEF Start, Connected, NotConnected, Environment, LaunchSettles, LaunchReturns,
           ProcessDies, ModuleDies, MutterFires, Fire, Tick, Activity, SessionLocks,
           UserUnlocks, UserActivity, saverVars
  <2> QED
    BY <1>1, <2>1, <2>2, <2>3, <2>4, <2>5, <2>6, <2>7 DEF Next, Loop
<1>2. StaysInv /\ [Next]_vars => [Left => Rightly]_vars
  BY <1>1
<1>3. Spec => [][Left => Rightly]_vars
  BY <1>2, StaysAlways, PTL DEF Spec
<1> QED
  BY <1>3 DEF LiveModuleStays
=============================================================================
