----------------------------- MODULE ConfigFile -----------------------------
(***************************************************************************)
(* The settings file: how it is read (Load and parse, internal/config/     *)
(* config.go) and how `retrosaver config set' edits it (Set, assignment    *)
(* and apply, internal/config/write.go).                                   *)
(*                                                                         *)
(* A file is a sequence of lines.  A line is one of four things: the       *)
(* assignment of a key the parser knows; that of a key it does not know;   *)
(* a comment or a blank line; or something else, which stops the parser.   *)
(* Quoting, white space and the spelling of values are left out: a value   *)
(* is one the parser takes, or Bad.                                        *)
(***************************************************************************)
EXTENDS Naturals, SequencesExt

CONSTANTS
    Keys,       \* the keys the parser knows: Keys in write.go
    Values,     \* values it takes
    Bad,        \* a value it refuses
    Defaults,   \* Defaults(), a value for each key
    Missing     \* there is no file

NotAKey == {"unknown", "comment", "junk"}
Line == [key : Keys \cup NotAKey, val : Values \cup {Bad}]

ASSUME KeysAssumption ==
    Keys # {} /\ IsFiniteSet(Keys) /\ Keys \cap NotAKey = {}
ASSUME ValuesAssumption == Bad \notin Values
ASSUME DefaultsAssumption == Defaults \in [Keys -> Values]
ASSUME MissingAssumption == Missing \notin Seq(Line)

-----------------------------------------------------------------------------
(* Reading.                                                                *)

Assigned(lines) == {k \in Keys : \E i \in DOMAIN lines : lines[i].key = k}

IsLast(lines, k, i) ==
    /\ i \in DOMAIN lines /\ lines[i].key = k
    /\ \A j \in DOMAIN lines : lines[j].key = k => j <= i

LastOf(lines, k) == CHOOSE i \in DOMAIN lines : IsLast(lines, k, i)

(* Every line counts, also an assignment that a later one overrides.       *)
Parses(lines) ==
    \A i \in DOMAIN lines :
        /\ lines[i].key # "junk"
        /\ lines[i].key \in Keys => lines[i].val # Bad

(* The last assignment of a key wins.                                      *)
Parse(lines) ==
    [k \in Keys |-> IF k \in Assigned(lines)
                    THEN lines[LastOf(lines, k)].val
                    ELSE Defaults[k]]

(* All or nothing: a file that does not parse stands for the defaults, and *)
(* says so.                                                                *)
Load(file) ==
    CASE file = Missing -> [ok |-> TRUE, cfg |-> Defaults]
      [] file # Missing /\ Parses(file) -> [ok |-> TRUE, cfg |-> Parse(file)]
      [] OTHER -> [ok |-> FALSE, cfg |-> Defaults]

-----------------------------------------------------------------------------
(* Editing.  An update gives some keys a value.  The keys the file does    *)
(* not assign are appended in the order Keys lists them, which nothing     *)
(* that reads the file can tell from another order.                        *)

Updates == UNION {[K -> Values \cup {Bad}] : K \in (SUBSET Keys) \ {{}}}

Assignment(k, v) == [key |-> k, val |-> v]

Appended(lines, upd) ==
    LET missing == SetToSeq(DOMAIN upd \ Assigned(lines))
    IN  [i \in DOMAIN missing |-> Assignment(missing[i], upd[missing[i]])]

(* Mutant: the first assignment of a key is replaced, not the last. *)
ReplacedFirst(lines, upd) ==
    [i \in DOMAIN lines |->
        IF /\ lines[i].key \in DOMAIN upd
           /\ \A j \in DOMAIN lines : lines[j].key = lines[i].key => i <= j
        THEN Assignment(lines[i].key, upd[lines[i].key])
        ELSE lines[i]]

Replaced(lines, upd) ==
    [i \in DOMAIN lines |->
        IF lines[i].key \in DOMAIN upd /\ IsLast(lines, lines[i].key, i)
        THEN Assignment(lines[i].key, upd[lines[i].key])
        ELSE lines[i]]

Apply(lines, upd) == Replaced(lines, upd) \o Appended(lines, upd)

DefaultFile == Appended(<<>>, Defaults)

(* What Set writes, and whether it writes at all.                          *)
Edited(file, upd) == Apply(IF file = Missing THEN DefaultFile ELSE file, upd)
Accepts(file, upd) == Parses(Edited(file, upd))

(* The settings upd asks for, over those of cfg.                           *)
Override(cfg, upd) ==
    [k \in Keys |-> IF k \in DOMAIN upd THEN upd[k] ELSE cfg[k]]
=============================================================================
