----------------------------- MODULE MCSettings -----------------------------
(***************************************************************************)
(* Settings for TLC: two keys, two values each, and the files and requests *)
(* that tell the parser's and the editor's rules apart.                    *)
(***************************************************************************)
EXTENDS Settings

MCKeys == {"LOCK_AFTER", "INCLUDE"}
MCValues == {0, 1}
MCDefaults == [k \in MCKeys |-> 1]

(* A value to change, one the parser refuses, both keys at a time.         *)
MCRequests ==
    {[k \in {"LOCK_AFTER"} |-> 0], [k \in {"LOCK_AFTER"} |-> Bad], [k \in MCKeys |-> 1]}

(* One key assigned twice, with a line between that is no key's; and a     *)
(* refused value, overridden by one that is not.                           *)
MCDrafts ==
    {<<Assignment("LOCK_AFTER", 1), Assignment("unknown", Bad),
       Assignment("LOCK_AFTER", 0)>>,
     <<Assignment("LOCK_AFTER", Bad), Assignment("LOCK_AFTER", 0)>>}
=============================================================================
