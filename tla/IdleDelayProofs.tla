-------------------------- MODULE IdleDelayProofs --------------------------
(***************************************************************************)
(* Theorems on IdleDelay, for any number of setups and any delays: nobody  *)
(* takes idle-delay from the daemon that holds it, what the daemon holds   *)
(* is never saved as the user's, and the user's value is back whenever all *)
(* is quiet.  Each states which failures, and which overlaps of commands,  *)
(* it leaves out; a `systemctl' that fails is among those it does not,     *)
(* save that the last two end with a teardown whose disable failed.        *)
(***************************************************************************)
EXTENDS IdleDelay, TLAPS

Processes == Setups \cup Restorers
Users == {UserIdleDelay, DefaultIdleDelay}

Places ==
    {"idle", "check", "read", "write", "create", "fill", "set", "enable",
     "failed", "disable", "clear"}

Typed ==
    /\ pc \in [Processes -> Places]
    /\ value \in [Processes -> Nat]
    /\ wanted \in BOOLEAN
    /\ blind \subseteq {"stop", "teardown"} /\ forced \in BOOLEAN

(* Who may be at work when.  A restore goes on only in a daemon that is    *)
(* leaving, in the ExecStopPost of one that has gone, in a `stop' that     *)
(* looked before the daemon started, or in a teardown that has seen the    *)
(* unit stop, or whose disable failed.  Until one has failed, a unit that  *)
(* is to stay down is one that a teardown waits for.                       *)
InTurn ==
    /\ daemon # "none" => unit = "active"
    /\ pc["daemon"] # "idle" => daemon = "leaving"
    /\ pc["post"] # "idle" => unit = "stopPost"
    /\ pc["stop"] \in {"read", "write"} /\ daemon # "none" => "stop" \in blind
    /\ pc["teardown"] # "idle" => \A s \in Setups : pc[s] \in {"idle", "failed"}
    /\ pc["teardown"] \in {"read", "write"} => "teardown" \in blind \/ unit = "inactive"
    /\ "teardown" \in blind => forced
    /\ unit = "inactive" => ~wanted
    /\ ~forced =>
        /\ pc["teardown"] \in {"read", "write", "clear"} => unit = "inactive"
        /\ unit # "inactive" /\ ~wanted => pc["teardown"] = "disable"

TurnInv == Typed /\ InTurn

(* What is in the setting, in the file, and in what each process has read. *)
(* While there is no file, nothing but the user's value, or the default,   *)
(* is anywhere, nor can the daemon or a setup that goes on put its own     *)
(* there.                                                                  *)
ValuesOK ==
    /\ delay \in Users \cup {0, BlankIdleDelay}
    /\ saved \in Users \cup {NoFile, Empty}
    /\ \A p \in Restorers : pc[p] = "write" => value[p] \in Users
    /\ \A s \in Setups :
        /\ pc[s] = "create" =>
            \/ value[s] \in Users
            \/ saved # NoFile /\ value[s] \in {0, BlankIdleDelay}
        /\ pc[s] = "fill" => value[s] \in Users

NoFileOK ==
    saved = NoFile =>
        /\ delay \in Users /\ unit = "inactive" /\ ~wanted
        /\ \A s \in Setups : pc[s] \notin {"fill", "set", "enable"}

(* The daemon's value is left in the setting only while the unit is up, a  *)
(* setup is on its way to start it or has failed, or a teardown is on its  *)
(* way to put the other one back: it has done so before it clears the file.*)
(* All this is until a teardown goes on though its disable failed.         *)
HeldOK ==
    /\ delay \notin Users =>
        \/ unit # "inactive"
        \/ \E s \in Setups : pc[s] # "idle"
        \/ pc["teardown"] \in {"disable", "read", "write"}
    /\ pc["teardown"] = "clear" => delay \in Users

OwnInv == TurnInv /\ ~forced /\ ValuesOK /\ NoFileOK /\ HeldOK
UndisturbedInv == TurnInv /\ delay \in Nat /\ (~forced => OwnInv)

(* The names of the restorers are not those of setups.                     *)
LEMMA NamesApart ==
    /\ {"daemon", "post", "stop", "teardown"} \subseteq Processes
    /\ \A s \in Setups :
        s \in Processes /\ s \notin {"daemon", "post", "stop", "teardown"}
BY SetupsAssumption DEF Restorers, Processes

-----------------------------------------------------------------------------
(* Whose turn it is.                                                       *)

LEMMA TurnInit == Init => TurnInv
<1> SUFFICES ASSUME Init PROVE TurnInv
    OBVIOUS
<1>1. pc = [p \in Processes |-> "idle"] /\ value = [p \in Processes |-> 0]
    BY DEF Init, Processes
<1>2. wanted \in BOOLEAN /\ blind = {} /\ forced = FALSE
    BY DEF Init
<1>3. Typed
    BY <1>1, <1>2 DEF Typed, Places
<1>4. InTurn
    BY <1>1, <1>2, NamesApart DEF Init, InTurn
<1>5. QED
    BY <1>3, <1>4 DEF TurnInv

LEMMA SystemdInTurn == TurnInv /\ Systemd => TurnInv'
<1> SUFFICES ASSUME TurnInv, Systemd PROVE TurnInv'
    OBVIOUS
<1>1. CASE Restart /\ wanted
  <2>1. UNCHANGED <<wanted, pc, value, forced>> /\ unit' = "active" /\ unit = "restarting"
      BY <1>1 DEF Restart, StartUnit
  <2>2. blind' = IF pc["stop"] \in {"read", "write"} THEN blind \cup {"stop"} ELSE blind
      BY <1>1 DEF Restart, StartUnit
  <2>3. Typed'
      BY <2>1, <2>2 DEF TurnInv, Typed
  <2>4. InTurn'
      BY <1>1, <2>1, <2>2 DEF TurnInv, InTurn
  <2>5. QED
      BY <2>3, <2>4 DEF TurnInv
<1>2. CASE Restart /\ ~wanted
    BY <1>2 DEF TurnInv, Typed, InTurn, Restart
<1>3. CASE PostDone
    BY <1>3 DEF TurnInv, Typed, InTurn, PostDone, history
<1>4. QED
    BY <1>1, <1>2, <1>3 DEF Systemd

LEMMA DaemonInTurn == TurnInv /\ Daemon => TurnInv'
<1> SUFFICES ASSUME TurnInv, Daemon PROVE TurnInv'
    OBVIOUS
<1> USE NamesApart DEF TurnInv, Typed, InTurn, Places, Restorers, Goto, history, UnitStops
<1>1. CASE DaemonOwns \/ DaemonBlanks \/ DaemonResets
    BY <1>1 DEF DaemonOwns, DaemonBlanks, DaemonResets
<1>2. CASE DaemonShutsDown
    BY <1>2 DEF DaemonShutsDown, Owning
<1>3. CASE DaemonExits \/ DaemonDies
  <2>1. /\ unit = "active" /\ daemon' = "none" /\ unit' = "stopPost"
        /\ pc' = [pc EXCEPT !["daemon"] = "idle", !["post"] = "check"]
        /\ UNCHANGED <<wanted, blind, forced>>
      BY <1>3 DEF DaemonExits, DaemonDies
  <2>2. Typed'
      BY <1>3, <2>1 DEF DaemonExits, DaemonDies
  <2>3. InTurn'
      BY <2>1
  <2>4. QED
      BY <2>2, <2>3
<1>4. QED
    BY <1>1, <1>2, <1>3 DEF Daemon

LEMMA StopInTurn == TurnInv /\ Stop => TurnInv'
<1> SUFFICES ASSUME TurnInv, Stop PROVE TurnInv'
    OBVIOUS
<1> USE NamesApart DEF TurnInv, Typed, InTurn, Places, Restorers, Goto, history
<1>1. CASE StopBegins
    BY <1>1 DEF StopBegins
<1>2. ASSUME NEW p \in {"stop", "post"}, StopChecks(p)
      PROVE  TurnInv'
  <2>1. pc[p] = "check" /\ UNCHANGED <<unit, wanted, daemon, value, blind, forced>>
      BY <1>2 DEF StopChecks
  <2>2. CASE daemon = "none"
    <3>1. pc' = [pc EXCEPT ![p] = "read"]
        BY <1>2, <2>2 DEF StopChecks
    <3>2. QED
        BY <2>1, <2>2, <3>1
  <2>3. CASE daemon # "none"
    <3>1. pc' = [pc EXCEPT ![p] = "idle"]
        BY <1>2, <2>3 DEF StopChecks
    <3>2. QED
        BY <2>1, <2>3, <3>1
  <2>4. QED
      BY <2>2, <2>3
<1>3. ASSUME NEW p \in {"stop", "post"}, StopFails(p)
      PROVE  TurnInv'
    BY <1>3 DEF StopFails
<1>4. QED
    BY <1>1, <1>2, <1>3 DEF Stop

LEMMA SavedIsNatural == SavedValue \in Nat
BY DelaysAssumption DEF SavedValue

LEMMA RestoringInTurn ==
    ASSUME TurnInv, NEW p \in Restorers, Restoring(p)
    PROVE  TurnInv'
<1> USE NamesApart DEF TurnInv, Typed, InTurn, Places, Restorers, Goto, history
<1>1. CASE ReadSaved(p)
    BY <1>1, SavedIsNatural DEF ReadSaved
<1>2. CASE WriteDelay(p)
    BY <1>2 DEF WriteDelay, AfterRestore
<1>3. QED
    BY <1>1, <1>2 DEF Restoring

LEMMA SetupInTurn ==
    ASSUME OneAtATime, TurnInv, NEW s \in Setups, Setup(s), delay \in Nat
    PROVE  TurnInv'
<1> USE NamesApart DEF TurnInv, Typed, InTurn, Places, Goto, history
<1>1. CASE SetupBegins(s)
    BY <1>1 DEF SetupBegins
<1>2. CASE SetupCreates(s)
    BY <1>2 DEF SetupCreates
<1>3. CASE SetupFills(s)
    BY <1>3 DEF SetupFills
<1>4. CASE SetupTakes(s)
    BY <1>4 DEF SetupTakes
<1>5. CASE SetupEnables(s)
  <2>1. /\ pc[s] = "enable" /\ UNCHANGED <<value, forced>>
        /\ \E at \in {"idle", "failed"} : pc' = [pc EXCEPT ![s] = at]
        /\ \/ wanted' /\ unit # "inactive" /\ UNCHANGED <<unit, daemon, blind>>
           \/ wanted' /\ unit = "inactive" /\ StartUnit
           \/ UNCHANGED <<unit, wanted, daemon, blind>>
      BY <1>5 DEF SetupEnables
  <2>2. blind' \in {blind, blind \cup {"stop"}} /\ wanted' \in BOOLEAN
      BY <1>5 DEF SetupEnables, StartUnit
  <2>3. Typed'
      BY <2>1, <2>2
  <2>4. pc["teardown"] = "idle"
      BY <2>1
  <2>5. /\ pc'["stop"] = pc["stop"] /\ pc'["post"] = pc["post"] /\ pc'["daemon"] = pc["daemon"]
        /\ pc'["teardown"] = "idle"
      BY <2>1, <2>4
  <2>6. CASE UNCHANGED <<unit, daemon, blind>> /\ ((wanted' /\ unit # "inactive") \/ UNCHANGED wanted)
    <3>1. unit = "inactive" => ~wanted'
        BY <2>6
    <3>2. (~wanted' => ~wanted) \/ unit = "inactive"
        BY <2>6
    <3>3. unit' = unit /\ daemon' = daemon /\ blind' = blind /\ forced' = forced
        BY <2>1, <2>6
    <3>4. QED
        BY <2>3, <2>4, <2>5, <3>1, <3>2, <3>3
  <2>7. CASE unit = "inactive" /\ wanted' /\ StartUnit
      BY <2>1, <2>5, <2>7 DEF StartUnit
  <2>8. InTurn'
      BY <2>1, <2>6, <2>7
  <2>9. QED
      BY <2>3, <2>8
<1>6. QED
    BY <1>1, <1>2, <1>3, <1>4, <1>5 DEF Setup

LEMMA TeardownInTurn == OneAtATime /\ TurnInv /\ Teardown => TurnInv'
<1> SUFFICES ASSUME OneAtATime, TurnInv, Teardown PROVE TurnInv'
    OBVIOUS
<1> USE NamesApart DEF TurnInv, Typed, InTurn, Places, Goto, history
<1>1. CASE TeardownBegins
  <2>1. wanted' \in BOOLEAN /\ (wanted' => wanted)
      BY <1>1 DEF TeardownBegins, Outcomes
  <2>2. /\ pc' = [pc EXCEPT !["teardown"] = "disable"]
        /\ \A s \in Setups : pc[s] \in {"idle", "failed"}
        /\ UNCHANGED <<unit, daemon, value, blind, forced>>
      BY <1>1 DEF TeardownBegins
  <2>3. Typed'
      BY <2>1, <2>2
  <2>4. InTurn'
      BY <2>1, <2>2
  <2>5. QED
      BY <2>3, <2>4
<1>2. CASE TeardownDisables
    BY <1>2 DEF TeardownDisables
<1>3. CASE DisableFails
    BY <1>3 DEF DisableFails
<1>4. CASE TeardownClears
    BY <1>4 DEF TeardownClears
<1>5. QED
    BY <1>1, <1>2, <1>3, <1>4 DEF Teardown

LEMMA DelayIsNatural ==
    ASSUME delay \in Nat, TurnInv, [Next]_vars
    PROVE  delay' \in Nat
<1>1. CASE UNCHANGED vars
    BY <1>1 DEF vars
<1>2. CASE \E p \in Restorers : Restoring(p)
    BY <1>2 DEF Restoring, ReadSaved, WriteDelay, TurnInv, Typed, Processes, Outcomes
<1>3. CASE \E s \in Setups : Setup(s)
  <2>1. PICK s \in Setups : Setup(s)
      BY <1>3
  <2>2. delay' \in {0, delay}
      BY <2>1
      DEF Setup, SetupBegins, SetupCreates, SetupFills, SetupTakes, SetupEnables
  <2>3. QED
      BY <2>2
<1>4. CASE Daemon
    BY <1>4, DelaysAssumption
    DEF Daemon, DaemonOwns, DaemonBlanks, DaemonResets, DaemonShutsDown, DaemonExits, DaemonDies
<1>5. CASE Systemd \/ Stop \/ Teardown
    BY <1>5
    DEF Systemd, Restart, PostDone, Stop, StopBegins, StopChecks, StopFails,
        Teardown, TeardownBegins, TeardownDisables, DisableFails, TeardownClears
<1>6. QED
    BY <1>1, <1>2, <1>3, <1>4, <1>5 DEF Next

LEMMA TurnStep ==
    ASSUME OneAtATime, delay \in Nat, TurnInv, [Next]_vars
    PROVE  TurnInv'
<1>1. CASE UNCHANGED vars
    BY <1>1 DEF vars, history, TurnInv, Typed, InTurn
<1>2. QED
    BY <1>1, SystemdInTurn, DaemonInTurn, StopInTurn, RestoringInTurn, SetupInTurn,
       TeardownInTurn DEF Next

(* While the daemon owns idle-delay nobody restores under it, as long as   *)
(* setup and teardown do not overlap, and whatever fails, but for a `stop' *)
(* from a shell that looked before it started (cmdStop) and a teardown     *)
(* whose disable failed (cmdTeardown); and but for a restore nobody writes *)
(* there but a setup, which puts the 0 that the daemon starts from.        *)
THEOREM DaemonKeepsDelay ==
    ASSUME OneAtATime
    PROVE  Spec => OwnerKeepsDelay
<1> DEFINE Inv == TurnInv /\ delay \in Nat
           Kept == daemon' = daemon /\ daemon \in Owning =>
                       \/ delay' = delay
                       \/ delay' = 0 /\ \E s \in Setups : pc[s] = "set"
                       \/ \E p \in blind : pc[p] = "write"
<1>1. Init => Inv
    BY TurnInit, DelaysAssumption DEF Init
<1>2. Inv /\ [Next]_vars => Inv'
    BY TurnStep, DelayIsNatural
<1>3. Inv /\ [Next]_vars => [Kept]_vars
  <2> SUFFICES ASSUME Inv, Next, daemon' = daemon, daemon \in Owning, delay' # delay
               PROVE  \/ delay' = 0 /\ \E s \in Setups : pc[s] = "set"
                      \/ \E p \in blind : pc[p] = "write"
      OBVIOUS
  <2>1. CASE \E p \in Restorers : Restoring(p)
    <3>1. PICK p \in Restorers : Restoring(p)
        BY <2>1
    <3>2. pc[p] = "write"
        BY <3>1 DEF Restoring, ReadSaved, WriteDelay
    <3>3. unit = "active" /\ daemon \notin {"none", "leaving"}
        BY DEF TurnInv, InTurn, Owning
    <3>4. p \in blind
        BY <3>1, <3>2, <3>3 DEF TurnInv, InTurn, Restorers
    <3>5. QED
        BY <3>2, <3>4
  <2>2. CASE \E s \in Setups : Setup(s)
    <3>1. PICK s \in Setups : Setup(s)
        BY <2>2
    <3>2. SetupTakes(s)
        BY <3>1 DEF Setup, SetupBegins, SetupCreates, SetupFills, SetupEnables
    <3>3. QED
        BY <3>2 DEF SetupTakes
  <2>3. CASE Daemon
      BY <2>3
      DEF Daemon, DaemonOwns, DaemonBlanks, DaemonResets, DaemonShutsDown,
          DaemonExits, DaemonDies, Owning
  <2>4. CASE Systemd \/ Stop \/ Teardown
      BY <2>4
      DEF Systemd, Restart, PostDone, Stop, StopBegins, StopChecks, StopFails,
          Teardown, TeardownBegins, TeardownDisables, DisableFails, TeardownClears
  <2>5. QED
      BY <2>1, <2>2, <2>3, <2>4 DEF Next
<1>4. QED
    BY <1>1, <1>2, <1>3, PTL DEF Spec, OwnerKeepsDelay

-----------------------------------------------------------------------------
(* Whose value it is.                                                      *)

Sound == OneAtATime /\ {"gsettings", "disk"} \cap Faults = {}

LEMMA OutcomesWithoutFaults ==
    ASSUME Sound, NEW ok, NEW failed
    PROVE  Outcomes(ok, "gsettings", failed) = {ok} /\ Outcomes(ok, "disk", failed) = {ok}
BY DEF Sound, Outcomes

LEMMA UsersApart ==
    /\ Users \subseteq Nat /\ Users \cap {0, BlankIdleDelay} = {}
    /\ NoFile \notin Users \cup {0, BlankIdleDelay}
    /\ Empty \notin Users \cup {0, BlankIdleDelay} /\ NoFile # Empty
    /\ BlankIdleDelay \in Nat
BY DelaysAssumption, FileAssumption DEF Users

LEMMA OwnInit == Init => OwnInv
<1> SUFFICES ASSUME Init PROVE OwnInv
    OBVIOUS
<1>1. TurnInv
    BY TurnInit
<1>2. pc = [p \in Processes |-> "idle"]
    BY DEF Init, Processes
<1>3. QED
    BY <1>1, <1>2, NamesApart
    DEF Init, OwnInv, ValuesOK, NoFileOK, HeldOK, Users, Processes

(* A step that changes neither the setting nor the file, and reads neither *)
(* of them: of systemd, of a `stop' that looks for a daemon, of a teardown *)
(* that has not come to the file.                                          *)
LEMMA SystemdOwn == OwnInv /\ Systemd /\ TurnInv' /\ ~forced' => OwnInv'
BY NamesApart
DEF OwnInv, ValuesOK, NoFileOK, HeldOK, Systemd, Restart, PostDone, StartUnit, TurnInv, InTurn

LEMMA DaemonOwn == OwnInv /\ Daemon /\ TurnInv' /\ ~forced' => OwnInv'
<1> SUFFICES ASSUME OwnInv, Daemon, TurnInv', ~forced' PROVE OwnInv'
    OBVIOUS
<1> USE NamesApart DEF OwnInv, TurnInv, Typed, InTurn, ValuesOK, NoFileOK, HeldOK
<1>1. CASE DaemonOwns \/ DaemonBlanks \/ DaemonResets
    BY <1>1 DEF DaemonOwns, DaemonBlanks, DaemonResets
<1>2. CASE DaemonShutsDown
    BY <1>2 DEF DaemonShutsDown, Goto, Restorers
<1>3. CASE DaemonExits \/ DaemonDies
    BY <1>3 DEF DaemonExits, DaemonDies, UnitStops, Restorers
<1>4. QED
    BY <1>1, <1>2, <1>3 DEF Daemon

LEMMA StopOwn == OwnInv /\ Stop /\ TurnInv' /\ ~forced' => OwnInv'
BY NamesApart
DEF OwnInv, TurnInv, Typed, ValuesOK, NoFileOK, HeldOK, Stop, StopBegins, StopChecks, StopFails, Goto, Restorers

LEMMA RestoringOwn ==
    ASSUME Sound, OwnInv, NEW p \in Restorers, Restoring(p), TurnInv', ~forced'
    PROVE  OwnInv'
<1> USE NamesApart, UsersApart
    DEF OwnInv, TurnInv, Typed, ValuesOK, NoFileOK, HeldOK, Restorers, Goto
<1>1. CASE ReadSaved(p)
  <2>1. SavedValue \in Users
      BY FileAssumption DEF SavedValue, Users
  <2>2. QED
      BY <1>1, <2>1 DEF ReadSaved
<1>2. CASE WriteDelay(p)
  <2>1. delay' \in Users
      BY <1>2, OutcomesWithoutFaults DEF WriteDelay
  <2>2. QED
      BY <1>2, <2>1 DEF WriteDelay, AfterRestore
<1>3. QED
    BY <1>1, <1>2 DEF Restoring

(* What a setup does next to its own place leaves the others where they are. *)
LEMMA SetupMoves ==
    ASSUME TurnInv, NEW s \in Setups, NEW at, Goto(s, at)
    PROVE  /\ pc'[s] = at
           /\ \A t \in Setups \ {s} : pc'[t] = pc[t]
           /\ \A p \in Restorers : pc'[p] = pc[p]
BY NamesApart DEF TurnInv, Typed, Goto, Processes, Restorers

LEMMA SetupOwn ==
    ASSUME Sound, OwnInv, NEW s \in Setups, Setup(s), TurnInv', ~forced'
    PROVE  OwnInv'
<1> USE DEF OwnInv, ValuesOK, NoFileOK, HeldOK
<1>1. CASE SetupBegins(s)
    BY <1>1, NamesApart, UsersApart
    DEF SetupBegins, TurnInv, Typed, InTurn, Goto
<1>2. CASE SetupCreates(s)
  <2>1. /\ pc[s] = "create" /\ UNCHANGED <<delay, unit, wanted, daemon, value>>
        /\ \/ saved = NoFile /\ saved' = Empty /\ Goto(s, "fill")
           \/ saved # NoFile /\ saved' = saved /\ Goto(s, "set")
      BY <1>2 DEF SetupCreates
  <2>2. saved' # NoFile /\ saved' \in Users \cup {NoFile, Empty}
      BY <2>1, UsersApart
  <2>3. CASE saved = NoFile
    <3>1. Goto(s, "fill") /\ value[s] \in Users
        BY <2>1, <2>3
    <3>2. /\ pc'[s] = "fill" /\ \A t \in Setups \ {s} : pc'[t] = pc[t]
          /\ \A p \in Restorers : pc'[p] = pc[p]
        BY <3>1, SetupMoves
    <3>3. QED
        BY <2>1, <2>2, <3>1, <3>2 DEF Restorers
  <2>4. CASE saved # NoFile
    <3>1. Goto(s, "set")
        BY <2>1, <2>4
    <3>2. /\ pc'[s] = "set" /\ \A t \in Setups \ {s} : pc'[t] = pc[t]
          /\ \A p \in Restorers : pc'[p] = pc[p]
        BY <3>1, SetupMoves
    <3>3. QED
        BY <2>1, <2>2, <2>4, <3>1, <3>2 DEF Restorers
  <2>5. QED
      BY <2>3, <2>4
<1>3. CASE SetupFills(s)
  <2>1. PICK ok \in Outcomes(TRUE, "disk", FALSE) :
            /\ saved' = IF ok THEN value[s] ELSE NoFile
            /\ Goto(s, IF ok THEN "set" ELSE "failed")
      BY <1>3 DEF SetupFills
  <2>2. ok
    <3>1. Outcomes(TRUE, "disk", FALSE) = {TRUE}
        BY OutcomesWithoutFaults
    <3>2. ok \in {TRUE}
        BY <2>1, <3>1, Zenon
    <3>3. QED
        BY <3>2, Zenon
  <2>3. saved' = value[s]
      BY <2>1, <2>2
  <2>4. Goto(s, "set")
      BY <2>1, <2>2
  <2>5. pc[s] = "fill" /\ UNCHANGED <<delay, unit, wanted, daemon, value>>
      BY <1>3 DEF SetupFills
  <2>6. saved' \in Users /\ saved' # NoFile
      BY <2>3, <2>5, UsersApart
  <2>7. /\ pc'[s] = "set" /\ \A t \in Setups \ {s} : pc'[t] = pc[t]
        /\ \A p \in Restorers : pc'[p] = pc[p]
      BY <2>4, SetupMoves
  <2>8. QED
      BY <2>5, <2>6, <2>7 DEF Restorers
<1>4. CASE SetupTakes(s)
    BY <1>4, OutcomesWithoutFaults, NamesApart, UsersApart
    DEF SetupTakes, TurnInv, Typed, InTurn, Goto
<1>5. CASE SetupEnables(s)
  <2>1. pc[s] = "enable" /\ UNCHANGED <<delay, saved, value>> /\ saved # NoFile
      BY <1>5 DEF SetupEnables
  <2>2. CASE Goto(s, "idle") /\ unit' # "inactive"
    <3>1. /\ pc'[s] = "idle" /\ \A t \in Setups \ {s} : pc'[t] = pc[t]
          /\ \A p \in Restorers : pc'[p] = pc[p]
        BY <2>2, SetupMoves
    <3>2. QED
        BY <2>1, <2>2, <3>1 DEF Restorers
  <2>3. CASE Goto(s, "failed") /\ UNCHANGED unit
    <3>1. /\ pc'[s] = "failed" /\ \A t \in Setups \ {s} : pc'[t] = pc[t]
          /\ \A p \in Restorers : pc'[p] = pc[p]
        BY <2>3, SetupMoves
    <3>2. QED
        BY <2>1, <2>3, <3>1 DEF Restorers
  <2>4. \/ Goto(s, "idle") /\ unit' # "inactive"
        \/ Goto(s, "failed") /\ UNCHANGED unit
      BY <1>5 DEF SetupEnables, StartUnit
  <2>5. QED
      BY <2>2, <2>3, <2>4
<1>6. QED
    BY <1>1, <1>2, <1>3, <1>4, <1>5 DEF Setup

LEMMA TeardownOwn == Sound /\ OwnInv /\ Teardown /\ TurnInv' /\ ~forced' => OwnInv'
<1> SUFFICES ASSUME Sound, OwnInv, Teardown, TurnInv', ~forced' PROVE OwnInv'
    OBVIOUS
<1> USE NamesApart, UsersApart
    DEF OwnInv, TurnInv, Typed, InTurn, ValuesOK, NoFileOK, HeldOK, Goto, Restorers
<1>1. CASE TeardownBegins
    BY <1>1 DEF TeardownBegins, Outcomes
<1>2. CASE TeardownDisables \/ DisableFails
    BY <1>2 DEF TeardownDisables, DisableFails
<1>3. CASE TeardownClears
    BY <1>3 DEF TeardownClears
<1>4. QED
    BY <1>1, <1>2, <1>3 DEF Teardown

LEMMA OnceForced == [Next]_vars /\ ~forced' => ~forced
BY DEF Next, vars, history, Systemd, Restart, PostDone, Daemon, DaemonOwns, DaemonBlanks,
       DaemonResets, DaemonShutsDown, DaemonExits, DaemonDies, Stop, StopBegins, StopChecks,
       StopFails, Restoring, ReadSaved, WriteDelay, Teardown, TeardownBegins,
       TeardownDisables, DisableFails, TeardownClears, Setup, SetupBegins, SetupCreates,
       SetupFills, SetupTakes, SetupEnables

LEMMA OwnStep ==
    ASSUME Sound, UndisturbedInv, [Next]_vars
    PROVE  UndisturbedInv'
<1>1. OneAtATime /\ TurnInv /\ delay \in Nat
    BY DEF Sound, UndisturbedInv
<1>2. TurnInv' /\ delay' \in Nat
    BY <1>1, TurnStep, DelayIsNatural
<1>3. ASSUME ~forced' PROVE OwnInv'
  <2>1. OwnInv
      BY <1>3, OnceForced DEF UndisturbedInv
  <2>2. CASE UNCHANGED vars
      BY <1>2, <1>3, <2>1, <2>2 DEF vars, OwnInv, ValuesOK, NoFileOK, HeldOK
  <2>3. QED
      BY <1>2, <1>3, <2>1, <2>2, SystemdOwn, DaemonOwn, StopOwn, RestoringOwn, SetupOwn,
         TeardownOwn DEF Next
<1>4. QED
    BY <1>2, <1>3 DEF UndisturbedInv

LEMMA OwnInvariant ==
    ASSUME Sound
    PROVE  Spec => []UndisturbedInv
<1>1. Init => UndisturbedInv
    BY OwnInit, DelaysAssumption DEF Init, UndisturbedInv, OwnInv
<1>2. QED
    BY <1>1, OwnStep, PTL DEF Spec

(* What setup saves is the user's value, or the default, never the         *)
(* daemon's own (SaveIdleDelay), however many setups overlap, whatever     *)
(* crashes, and whatever a daemon, a `stop' or a teardown does meanwhile:  *)
(* as long as no setup and teardown overlap and gsettings and the disk     *)
(* work, and until a teardown goes on though its disable failed.           *)
THEOREM OwnValueIsNeverSaved ==
    ASSUME Sound
    PROVE  Spec => []OwnValueNeverSaved
<1>1. UndisturbedInv => OwnValueNeverSaved
    BY UsersApart DEF UndisturbedInv, OwnInv, ValuesOK, OwnValueNeverSaved
<1>2. QED
    BY <1>1, OwnInvariant, PTL

(* When the unit is stopped and no command is under way, GNOME has a value *)
(* of its own again (cmdTeardown, ExecStopPost): every teardown, and every *)
(* daemon's end, has put it back.  On the same conditions, and until then. *)
THEOREM RestoredWhenQuiet ==
    ASSUME Sound
    PROVE  Spec => []RestoredAtRest
<1>1. UndisturbedInv => RestoredAtRest
    BY NamesApart DEF UndisturbedInv, OwnInv, HeldOK, RestoredAtRest, AtRest, Users, Processes
<1>2. QED
    BY <1>1, OwnInvariant, PTL
=============================================================================
