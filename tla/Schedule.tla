------------------------------ MODULE Schedule ------------------------------
(***************************************************************************)
(* The idle policy as the configuration states it: which stages are        *)
(* enabled, at which idle time each begins, and which swap of modules is   *)
(* due next.  A configuration is a record of the settings the daemon's     *)
(* control depends on; INCLUDE and EXCLUDE only decide which module is     *)
(* picked and are left out.  Times are in ticks of the idle clock.         *)
(***************************************************************************)
EXTENDS Integers

Config == [saverDelay : Nat, lockAfter : Nat, blankAfter : Nat,
           cycleAfter : Nat, different : BOOLEAN]

LockEnabled(c) == c.lockAfter > 0
BlankEnabled(c) == LockEnabled(c) /\ c.blankAfter > 0
CycleEnabled(c) == c.cycleAfter > 0

LockAt(c) == c.saverDelay + c.lockAfter
BlankAt(c) == LockAt(c) + c.blankAfter

(***************************************************************************)
(* A watch is what it waits for, at which idle time, and the generation of *)
(* the daemon it was registered in.  The last two stand for the ID Mutter  *)
(* hands out: a fresh one at every registration, and every re-arming       *)
(* starts a generation.                                                    *)
(***************************************************************************)
Kinds == {"saver", "cycle", "lock", "blank", "active"}
Watch(kind, at, g) == [kind |-> kind, at |-> at, gen |-> g]
Watches == [kind : Kinds, at : Nat, gen : Nat]

(* The idle watches arm registers, and how far it gets when one fails. *)
IdleWatches(c, g) ==
    {Watch("saver", c.saverDelay, g)}
    \cup (IF LockEnabled(c) THEN {Watch("lock", LockAt(c), g)} ELSE {})
    \cup (IF BlankEnabled(c) THEN {Watch("blank", BlankAt(c), g)} ELSE {})

ArmedBefore(c, g, failed) == {w \in IdleWatches(c, g) : w.at < failed.at}

(***************************************************************************)
(* Swap number n is due CYCLE_AFTER * n after the saver starts.  The swaps *)
(* whose moment has passed are skipped: `SwapsPassed' of them at idle time *)
(* t.  (The code divides with truncation and \div rounds down; they differ *)
(* only below zero, where neither exceeds `done'.)                         *)
(***************************************************************************)
SwapAt(c, n) == c.saverDelay + n * c.cycleAfter

NextSwapUnskipped(c, done, t) == done + 1

NextSwap(c, done, t) ==
    LET passed == (t - c.saverDelay) \div c.cycleAfter
    IN  IF passed > done THEN passed + 1 ELSE done + 1

(* A swap at or past the lock stage is not armed. *)
SwapFits(c, n) == LockEnabled(c) => SwapAt(c, n) < LockAt(c)
=============================================================================
