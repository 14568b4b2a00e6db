------------------------------ MODULE MCDaemon ------------------------------
(***************************************************************************)
(* Instances of Daemon for TLC.  Thresholds are a few ticks apart, so that *)
(* the signals of different stages can be pending together, and MaxIdle is *)
(* past the last of them.                                                  *)
(***************************************************************************)
EXTENDS Daemon, TLC

conf(saver, lock, blank, cycle, different) ==
    [saverDelay |-> saver, lockAfter |-> lock, blankAfter |-> blank,
     cycleAfter |-> cycle, different |-> different]

Symmetry == Permutations(LaunchId)

(* Every stage, and the saver alone: reloads go from one to the other. *)
StageConfigs == {conf(1, 1, 1, 0, FALSE), conf(1, 0, 0, 0, FALSE)}

(* A swap every tick, up to the lock stage or for ever. *)
SwapConfigs == {conf(1, 3, 0, 1, FALSE), conf(1, 0, 0, 1, FALSE)}

(* A module for each monitor, with swaps, and a SAVER_DELAY that cannot be *)
(* armed.                                                                  *)
MonitorConfigs == {conf(1, 2, 0, 1, TRUE), conf(0, 2, 0, 1, TRUE)}

(* A saver and a lock stage, or the saver alone; no swaps. *)
LockConfigs == {conf(1, 1, 0, 0, FALSE), conf(1, 0, 0, 0, FALSE)}
=============================================================================
