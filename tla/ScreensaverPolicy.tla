------------------------- MODULE ScreensaverPolicy -------------------------
(***************************************************************************)
(* What the daemon promises, without watches, launches or generations: a   *)
(* sequence of idle phases that only runs forward until someone is back, a *)
(* module on screen in the saver phase alone, and GNOME's idle-delay in    *)
(* the daemon's hands for as long as it runs.                              *)
(***************************************************************************)
EXTENDS Naturals

CONSTANTS BlankIdleDelay, UserIdleDelay

VARIABLES
    phase,   \* "off", one of the idle phases, or "over"
    shown,   \* a module covers the screen
    delay    \* GNOME's idle-delay: 0 when GNOME is not to blank

policyVars == <<phase, shown, delay>>

Phases == <<"idle", "saver", "lock", "blank">>
On == {Phases[i] : i \in 1..4}
Rank(p) == CHOOSE i \in 1..4 : Phases[i] = p

PolicyInit == phase = "off" /\ ~shown /\ delay \in {BlankIdleDelay, UserIdleDelay}

TakeOver == phase = "off" /\ phase' = "idle" /\ delay' = 0 /\ UNCHANGED shown

(* A later phase begins; past the saver no module is shown, and only the   *)
(* blank phase hands GNOME a delay.                                        *)
Advance(p) ==
    /\ phase \in On /\ Rank(phase) < Rank(p)
    /\ phase' = p
    /\ shown' = FALSE
    /\ delay' \in {delay} \cup (IF p = "blank" THEN {BlankIdleDelay} ELSE {})

(* A module comes up, or goes with nothing to replace it.  A swap leaves   *)
(* `shown' alone: there is no gap between two modules.                     *)
Show == phase = "saver" /\ ~shown /\ shown' = TRUE /\ UNCHANGED <<phase, delay>>
Hide == phase = "saver" /\ shown /\ shown' = FALSE /\ UNCHANGED <<phase, delay>>

(* The user is back, or the policy has changed. *)
Return ==
    /\ phase \in On
    /\ phase' = "idle" /\ shown' = FALSE
    /\ delay' \in {0, delay}

End == phase' = "over" /\ shown' = FALSE /\ delay' \in {delay, UserIdleDelay}

PolicyNext ==
    \/ TakeOver \/ Show \/ Hide \/ Return \/ End
    \/ \E i \in 2..4 : Advance(Phases[i])

Policy == PolicyInit /\ [][PolicyNext]_policyVars
=============================================================================
