----------------------------- MODULE IdleDelay -----------------------------
(***************************************************************************)
(* Who owns GNOME's idle-delay.  The daemon holds it at 0 while it runs;   *)
(* setup saves the user's value to a file first; the daemon's shutdown,    *)
(* the unit's ExecStopPost, `retrosaver stop' and teardown each restore it *)
(* from that file (internal/session/session.go, cmd/retrosaver/main.go and *)
(* systemd/retrosaver.service).                                            *)
(*                                                                         *)
(* Every process here is separate, and each read or write of the setting   *)
(* or of the file is a step of its own.  Daemon models what happens inside *)
(* the daemon; here it only takes, blanks, and gives back idle-delay.      *)
(***************************************************************************)
EXTENDS Integers

CONSTANTS
    Setups,             \* the `retrosaver setup' commands that may overlap
    UserIdleDelay,      \* the user's idle-delay
    DefaultIdleDelay,   \* DefaultIdleDelay: what a missing file stands for
    BlankIdleDelay,     \* blankIdleDelay
    NoFile, Empty,      \* the saved file is missing, or has nothing in it yet
    OneAtATime,         \* setup and teardown do not overlap in this instance
    Faults              \* what may fail in this instance

Restorers == {"daemon", "post", "stop", "teardown"}

ASSUME SetupsAssumption == Setups \cap Restorers = {}
ASSUME DelaysAssumption ==
    /\ BlankIdleDelay \in Nat \ {0}
    /\ {UserIdleDelay, DefaultIdleDelay} \subseteq Nat \ {0, BlankIdleDelay}
ASSUME FileAssumption == NoFile \notin Nat /\ Empty \notin Nat /\ NoFile # Empty

VARIABLES
    delay,      \* org.gnome.desktop.session idle-delay
    saved,      \* idle-delay.orig
    unit,       \* systemd: what the unit is doing
    wanted,     \* systemd: the unit is to run, and to be restarted
    daemon,     \* the daemon process
    pc,         \* where each command, and each restorer, is
    value,      \* what each has read
    blind,      \* history: the restorers that go on although a daemon runs
    forced      \* history: a teardown has gone on though `disable' failed

vars == <<delay, saved, unit, wanted, daemon, pc, value, blind, forced>>
history == <<blind, forced>>

Owning == {"owning", "blanked"}

Init ==
    /\ delay = UserIdleDelay /\ saved = NoFile
    /\ unit = "inactive" /\ wanted = FALSE /\ daemon = "none"
    /\ pc = [p \in Setups \cup Restorers |-> "idle"]
    /\ value = [p \in Setups \cup Restorers |-> 0]
    /\ blind = {} /\ forced = FALSE

Goto(p, at) == pc' = [pc EXCEPT ![p] = at]
Outcomes(ok, fault, failed) == {ok} \cup (IF fault \in Faults THEN {failed} ELSE {})

-----------------------------------------------------------------------------
(* systemd: Restart=always, and ExecStopPost before anything else.         *)

(* A `stop' that has looked already goes on to restore under the new daemon. *)
StartUnit ==
    /\ unit' = "active" /\ daemon' = "up"
    /\ blind' = IF pc["stop"] \in {"read", "write"} THEN blind \cup {"stop"} ELSE blind

Restart ==
    /\ unit = "restarting"
    /\ IF wanted THEN StartUnit ELSE unit' = "inactive" /\ UNCHANGED <<daemon, blind>>
    /\ UNCHANGED <<delay, saved, wanted, pc, value, forced>>

UnitRestarts ==
    /\ unit' = "restarting" /\ Goto("daemon", "idle")
    /\ value' = [value EXCEPT !["daemon"] = 0]

(* The daemon process has gone. *)
UnitStops ==
    /\ unit' = "stopPost"
    /\ pc' = [pc EXCEPT !["daemon"] = "idle", !["post"] = "check"]
    /\ value' = [value EXCEPT !["daemon"] = 0]

PostDone ==
    /\ unit = "stopPost" /\ pc["post"] = "idle"
    /\ unit' = IF wanted THEN "restarting" ELSE "inactive"
    /\ UNCHANGED <<delay, saved, wanted, daemon, pc, value, history>>

-----------------------------------------------------------------------------
(* The daemon. *)

(* Run takes idle-delay; failing that, it returns with nothing to undo. *)
DaemonOwns ==
    /\ daemon = "up"
    /\ daemon' = "owning" /\ delay' = 0
    /\ UNCHANGED <<saved, unit, wanted, pc, value, history>>

DaemonBlanks ==
    /\ daemon = "owning" /\ pc["daemon"] = "idle"
    /\ daemon' = "blanked" /\ delay' = BlankIdleDelay
    /\ UNCHANGED <<saved, unit, wanted, pc, value, history>>

DaemonResets ==
    /\ daemon = "blanked" /\ pc["daemon"] = "idle"
    /\ daemon' = "owning" /\ delay' = 0
    /\ UNCHANGED <<saved, unit, wanted, pc, value, history>>

(* SIGTERM or a fatal error: shutdown restores, then the process goes. *)
DaemonShutsDown ==
    /\ daemon \in Owning /\ pc["daemon"] = "idle"
    /\ daemon' = "leaving"
    /\ Goto("daemon", "read")
    /\ UNCHANGED <<delay, saved, unit, wanted, value, history>>

DaemonExits ==
    /\ daemon = "leaving" /\ pc["daemon"] = "idle"
    /\ daemon' = "none" /\ UnitStops
    /\ UNCHANGED <<delay, saved, wanted, history>>

(* It dies at any other point: killed, or failing to start. *)
DaemonDies ==
    /\ daemon # "none"
    /\ daemon' = "none" /\ UnitStops
    /\ UNCHANGED <<delay, saved, wanted, history>>

-----------------------------------------------------------------------------
(* RestoreIdleDelay, in each process that calls it. *)

SavedOrNothing == IF saved \in Nat THEN saved ELSE 0
SavedValue == IF saved \in Nat THEN saved ELSE DefaultIdleDelay

ReadSaved(p) ==
    /\ pc[p] = "read"
    /\ value' = [value EXCEPT ![p] = SavedValue]
    /\ Goto(p, "write")
    /\ UNCHANGED <<delay, saved, unit, wanted, daemon, history>>

AfterRestore(p) == IF p = "teardown" THEN "clear" ELSE "idle"

(* Teardown goes on to clear the file whether or not this succeeds. *)
WriteDelay(p) ==
    /\ pc[p] = "write"
    /\ delay' \in Outcomes(value[p], "gsettings", delay)
    /\ value' = [value EXCEPT ![p] = 0]
    /\ Goto(p, AfterRestore(p))
    /\ blind' = blind \ {p}
    /\ UNCHANGED <<saved, unit, wanted, daemon, forced>>

-----------------------------------------------------------------------------
(* retrosaver stop, from a shell or as the unit's ExecStopPost. *)

StopBegins ==
    /\ pc["stop"] = "idle"
    /\ Goto("stop", "check")
    /\ UNCHANGED <<delay, saved, unit, wanted, daemon, value, history>>

StopRestoresAnyway(p) ==
    /\ pc[p] = "check"
    /\ Goto(p, "read")
    /\ UNCHANGED <<delay, saved, unit, wanted, daemon, value, history>>

(* daemonRunning: a daemon that runs, owning idle-delay yet or not, is *)
(* left to hold it.                                                     *)
StopChecks(p) ==
    /\ pc[p] = "check"
    /\ Goto(p, IF daemon = "none" THEN "read" ELSE "idle")
    /\ UNCHANGED <<delay, saved, unit, wanted, daemon, value, history>>

(* cmdStop returns when StopRunning fails: with pkill, or with a runtime    *)
(* file that cannot be removed.                                            *)
StopFails(p) ==
    /\ pc[p] = "check" /\ "pkill" \in Faults
    /\ Goto(p, "idle")
    /\ UNCHANGED <<delay, saved, unit, wanted, daemon, value, history>>

-----------------------------------------------------------------------------
(* retrosaver setup: SaveIdleDelay, SetIdleDelay(0), enable --now.  The    *)
(* value is read before the file is created, and is not read again.        *)

SetupBegins(s) ==
    /\ pc[s] \in {"idle", "failed"}
    /\ OneAtATime => pc["teardown"] = "idle"
    /\ value' = [value EXCEPT ![s] = delay]
    /\ Goto(s, "create")
    /\ UNCHANGED <<delay, saved, unit, wanted, daemon, history>>

SetupCreatesAnyway(s) ==
    /\ pc[s] = "create"
    /\ saved' = Empty /\ Goto(s, "fill")
    /\ UNCHANGED <<delay, unit, wanted, daemon, value, history>>

(* O_EXCL: an existing file is left alone, whatever is in it. *)
SetupCreates(s) ==
    /\ pc[s] = "create"
    /\ IF saved = NoFile THEN saved' = Empty /\ Goto(s, "fill")
                         ELSE UNCHANGED saved /\ Goto(s, "set")
    /\ UNCHANGED <<delay, unit, wanted, daemon, value, history>>

SetupFills(s) ==
    /\ pc[s] = "fill"
    /\ \E ok \in Outcomes(TRUE, "disk", FALSE) :
        /\ saved' = IF ok THEN value[s] ELSE NoFile
        /\ Goto(s, IF ok THEN "set" ELSE "failed")
    /\ UNCHANGED <<delay, unit, wanted, daemon, value, history>>

SetupTakes(s) ==
    /\ pc[s] = "set"
    /\ \E ok \in Outcomes(TRUE, "gsettings", FALSE) :
        /\ delay' = IF ok THEN 0 ELSE delay
        /\ Goto(s, IF ok THEN "enable" ELSE "failed")
    /\ value' = [value EXCEPT ![s] = 0]
    /\ UNCHANGED <<saved, unit, wanted, daemon, history>>

SetupEnables(s) ==
    /\ pc[s] = "enable"
    /\ \/ /\ wanted' = TRUE
          /\ IF unit = "inactive" THEN StartUnit ELSE UNCHANGED <<unit, daemon, blind>>
          /\ Goto(s, "idle")
       \/ /\ "systemctl" \in Faults
          /\ Goto(s, "failed")
          /\ UNCHANGED <<unit, wanted, daemon, blind>>
    /\ UNCHANGED <<delay, saved, value, forced>>

-----------------------------------------------------------------------------
(* retrosaver teardown: disable --now, restore, clear. *)

TeardownBegins ==
    /\ pc["teardown"] = "idle"
    /\ OneAtATime => \A s \in Setups : pc[s] \in {"idle", "failed"}
    /\ wanted' \in Outcomes(FALSE, "systemctl", wanted)
    /\ Goto("teardown", "disable")
    /\ UNCHANGED <<delay, saved, unit, daemon, value, history>>

(* disable --now returns once the unit has stopped, ExecStopPost included. *)
TeardownDisables ==
    /\ pc["teardown"] = "disable"
    /\ unit = "inactive"
    /\ Goto("teardown", "read")
    /\ UNCHANGED <<delay, saved, unit, wanted, daemon, value, history>>

(* It fails, and cmdTeardown goes on, under a unit that has not stopped.   *)
DisableFails ==
    /\ pc["teardown"] = "disable" /\ "systemctl" \in Faults
    /\ unit # "inactive"
    /\ Goto("teardown", "read")
    /\ blind' = blind \cup {"teardown"} /\ forced' = TRUE
    /\ UNCHANGED <<delay, saved, unit, wanted, daemon, value>>

TeardownClears ==
    /\ pc["teardown"] = "clear"
    /\ saved' = NoFile
    /\ Goto("teardown", "idle")
    /\ UNCHANGED <<delay, unit, wanted, daemon, value, history>>

-----------------------------------------------------------------------------
Systemd == Restart \/ PostDone
Daemon == DaemonOwns \/ DaemonBlanks \/ DaemonResets \/ DaemonShutsDown \/ DaemonExits \/ DaemonDies
Restoring(p) == ReadSaved(p) \/ WriteDelay(p)
Stop == StopBegins \/ \E p \in {"stop", "post"} : StopChecks(p) \/ StopFails(p)
Setup(s) == SetupBegins(s) \/ SetupCreates(s) \/ SetupFills(s) \/ SetupTakes(s) \/ SetupEnables(s)
Teardown == TeardownBegins \/ TeardownDisables \/ DisableFails \/ TeardownClears

Next ==
    \/ Systemd \/ Daemon \/ Stop \/ Teardown
    \/ \E p \in Restorers : Restoring(p)
    \/ \E s \in Setups : Setup(s)

Spec == Init /\ [][Next]_vars

(* systemd goes on, and so do the daemon, the `retrosaver stop' it runs,   *)
(* and a teardown that has begun.  Nothing is assumed of what the user     *)
(* begins.                                                                 *)
FairSpec ==
    /\ Spec
    /\ WF_vars(Systemd)
    /\ WF_vars(DaemonOwns) /\ WF_vars(DaemonExits)
    /\ WF_vars(Restoring("daemon"))
    /\ WF_vars(StopChecks("post")) /\ WF_vars(Restoring("post"))
    /\ WF_vars(TeardownDisables \/ Restoring("teardown") \/ TeardownClears)

-----------------------------------------------------------------------------
(* Properties.  Two of them hold until a teardown has gone on although its *)
(* disable failed: it then restores and clears under a daemon that holds   *)
(* the setting, and the next setup takes the daemon's value for the user's.*)

(* What setup records as the user's idle-delay is never what the daemon put *)
(* there: not its 0, not its blank value.  Restoring one of those would     *)
(* "permanently destroy the user's auto-lock" (session.go, SaveIdleDelay).  *)
OwnValueNeverSaved == ~forced => saved \notin {0, BlankIdleDelay}

(* With the unit stopped and no command under way, GNOME has a value of its *)
(* own again, whatever order crashes, restarts and commands came in (main.go, *)
(* cmdTeardown; ExecStopPost).                                              *)
AtRest ==
    /\ unit = "inactive"
    /\ \A p \in Setups \cup Restorers : pc[p] = "idle"
RestoredAtRest == AtRest /\ ~forced => delay \in {UserIdleDelay, DefaultIdleDelay}

(* While the daemon owns idle-delay, what it holds there stays: nobody      *)
(* restores under it, not the ExecStopPost of a daemon before it, not a     *)
(* `stop' that finds it running, not a teardown that has disabled the unit, *)
(* though all of them act at once (cmdStop, cmdTeardown).  A setup puts the *)
(* 0 there that the daemon starts from.  Only two others change it: a       *)
(* `stop' that looked before this daemon started, against cmdStop's comment *)
(* that restoring then "would hand blanking back to gnome-shell while the   *)
(* daemon believes it holds 0" (main.go:424), and a teardown that goes on,  *)
(* "(continuing)" (main.go:568), after its disable failed.                  *)
OwnerKeepsDelay ==
    [][daemon' = daemon /\ daemon \in Owning =>
        \/ delay' = delay
        \/ delay' = 0 /\ \E s \in Setups : pc[s] = "set"
        \/ \E p \in blind : pc[p] = "write"]_vars

(* A daemon that is gone leaves no session without auto-lock: the setting   *)
(* is restored, or a new daemon takes it over (ExecStopPost, Restart), as   *)
(* long as ExecStopPost does not fail for ever, and what it restores from   *)
(* is still what the first setup saved.                                     *)
AutoLockComesBack ==
    <>[][~StopFails("post")]_vars =>
        ((delay = 0 /\ daemon = "none" /\ unit # "inactive")
            ~> (delay # 0 \/ daemon \in Owning \/ forced))
=============================================================================
