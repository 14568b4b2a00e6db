----------------------------- MODULE Selection -----------------------------
(***************************************************************************)
(* Which modules are shown.  The settings window turns the ticked modules  *)
(* into INCLUDE and EXCLUDE (gui/retrosaver-settings), modules.Select      *)
(* turns those into the modules that may be picked, and pick and pickSet   *)
(* of internal/daemon/daemon.go choose among them, one idle cycle at a     *)
(* time; `retrosaver run' chooses with pickForRun (cmd/retrosaver/         *)
(* main.go).                                                               *)
(*                                                                         *)
(* Daemon models when a module is launched, replaced and stopped, and      *)
(* takes any name from pick.  Here it is the other way round: a launch may *)
(* be wanted at any time in the saver stage, and may fail.                 *)
(***************************************************************************)
EXTENDS Naturals, SequencesExt

CONSTANTS
    Installed,      \* what Discover finds
    Monitors,       \* how many monitors there are
    MaxRelaunches,  \* maxRelaunches
    MaxFlights      \* launches in flight at a time

ASSUME InstalledAssumption == IsFiniteSet(Installed) /\ Installed # {}
ASSUME BoundsAssumption ==
    {Monitors, MaxRelaunches, MaxFlights} \subseteq Nat \ {0}

VARIABLES
    include, exclude,   \* the launcher's filters
    ticked, only,       \* the settings window: the ticks, and its mode
    different,          \* MONITORS: each monitor picks its own
    used,               \* the modules launched in this idle cycle
    current,            \* currentNames, primary first
    dead,               \* the module on screen has exited
    flights,            \* the launches on their way
    awaited,            \* machine.cancel is not nil: the daemon counts on one
    since,              \* history: modules picked since each was picked, or up,
                        \* counting no further than Longest
    overlap             \* history: a launch was wanted, in this cycle,
                        \* with another in flight

filters == <<include, exclude, ticked, only, different>>
vars == <<filters, used, current, dead, flights, awaited, since, overlap>>

-----------------------------------------------------------------------------
(* modules.Select: exclude wins, and an empty include allows everything.   *)
Select(in, ex) == {m \in Installed : (in = {} \/ m \in in) /\ m \notin ex}

(* Finder.Pick chooses any of these, and fails when there is none.         *)
Pool(avoid) == Select(include, exclude \cup avoid)
Selectable == Pool({})

(* Mutant: pick, starting over, may show what is on screen. *)
PicksShown(tried, also) ==
    IF Pool(tried \cup also) # {} THEN Pool(tried \cup also) \X {tried}
    ELSE IF Pool(also) # {} THEN Pool(also) \X {{}} ELSE Selectable \X {{}}

(* pick: what it may return, with what it leaves in used.                  *)
Picks(tried, also) ==
    LET fresh == Pool(tried \cup also)
        shown == ToSet(current)
    IN  CASE fresh # {} -> fresh \X {tried}
          [] fresh = {} /\ Pool(shown \cup also) # {} -> Pool(shown \cup also) \X {shown}
          [] fresh = {} /\ Pool(shown \cup also) = {} /\ Pool(also) # {}
                -> Pool(also) \X {{}}
          [] OTHER -> Selectable \X {{}}

(* Mutant: pickSet does not keep the modules of one set apart. *)
PickSetsAny(n) ==
    LET sets[k \in 0..n] ==
            IF k = 0 THEN {<<<<>>, used>>}
            ELSE UNION {{<<Append(s[1], p[1]), p[2]>> : p \in Picks(s[2], {})}
                        : s \in sets[k - 1]}
    IN  sets[n]

(* pickSet, for n monitors.                                                *)
PickSets(n) ==
    LET sets[k \in 0..n] ==
            IF k = 0 THEN {<<<<>>, used>>}
            ELSE UNION {{<<Append(s[1], p[1]), p[2]>> : p \in Picks(s[2], ToSet(s[1]))}
                        : s \in sets[k - 1]}
    IN  sets[n]

(* pickForRun, for n monitors.                                             *)
RunSets(n) ==
    LET next(names) == IF Pool(ToSet(names)) # {} THEN Pool(ToSet(names)) ELSE Selectable
        sets[k \in 0..n] ==
            IF k = 0 THEN {<<>>}
            ELSE UNION {{Append(s, m) : m \in next(s)} : s \in sets[k - 1]}
    IN  sets[n]

-----------------------------------------------------------------------------
(* monitors(): one module, also when the monitors cannot be counted, or as *)
(* many as there are at the moment.                                        *)
Sizes == IF different THEN 1..Monitors ELSE {1}

Longest == 2 * Cardinality(Installed)

Picked(names) ==
    since' = [m \in Installed |->
                IF m \in ToSet(names) \cup ToSet(current) THEN 0
                ELSE IF since[m] + Len(names) > Longest THEN Longest
                ELSE since[m] + Len(names)]

Dark == current' = <<>> /\ dead' = FALSE

Nothing ==
    /\ Dark /\ flights' = <<>> /\ awaited' = FALSE /\ used' = {}
    /\ since' = [m \in Installed |-> 0] /\ overlap' = FALSE

Init ==
    /\ include \in {{}, Installed} /\ exclude \in {{}} \cup {{m} : m \in Installed}
    /\ ticked = Select(include, exclude) /\ only = (include # {})
    /\ used = {} /\ current = <<>> /\ dead = FALSE
    /\ flights = <<>> /\ awaited = FALSE
    /\ since = [m \in Installed |-> 0] /\ overlap = FALSE
    /\ different \in BOOLEAN

Keeps(names, isDead) == current # <<>> /\ ~isDead /\ names = current

(* Mutant: the modules launched are not counted as used. *)
StartLaunchUncounted(others, isDead, was) ==
    /\ Selectable # {} /\ Len(others) < MaxFlights
    /\ overlap' = (overlap \/ others # <<>>)
    /\ \E n \in Sizes : \E p \in PickSets(n) :
          /\ used' = p[2]
          /\ IF Keeps(p[1], isDead)
             THEN flights' = others /\ awaited' = was /\ UNCHANGED since
             ELSE /\ flights' = Append(others, p[1]) /\ awaited' = TRUE
                  /\ Picked(p[1])

(* startLaunch, beside the launches in others, when the daemon counts on   *)
(* one or not.  It keeps a live set rather than swap it for itself.        *)
StartLaunch(others, isDead, was) ==
    /\ Selectable # {} /\ Len(others) < MaxFlights
    /\ overlap' = (overlap \/ others # <<>>)
    /\ \E n \in Sizes : \E p \in PickSets(n) :
          IF Keeps(p[1], isDead)
          THEN used' = p[2] /\ flights' = others /\ awaited' = was /\ UNCHANGED since
          ELSE /\ used' = p[2] \cup ToSet(p[1])
               /\ flights' = Append(others, p[1]) /\ awaited' = TRUE
               /\ Picked(p[1])

(* The saver stage begins, or the cycle watch fires.                       *)
Launch ==
    /\ StartLaunch(flights, dead, awaited)
    /\ UNCHANGED <<filters, current, dead>>

(* handleLaunch: whichever launch reports, the daemon counts on none after *)
(* that, though another may still be in flight.                            *)
Land(i) ==
    /\ current' = flights[i] /\ dead' = FALSE
    /\ flights' = RemoveAt(flights, i) /\ awaited' = FALSE
    /\ UNCHANGED <<filters, used, since, overlap>>

(* It is tried once more, with what pick gives next; if it is not, a dead  *)
(* module goes.                                                            *)
Fail(i) ==
    LET others == RemoveAt(flights, i)
    IN  /\ UNCHANGED filters
        /\ \/ StartLaunch(others, dead, FALSE) /\ UNCHANGED <<current, dead>>
           \/ /\ flights' = others /\ awaited' = FALSE
              /\ UNCHANGED <<used, since, overlap>>
              /\ IF dead THEN Dark ELSE UNCHANGED <<current, dead>>

(* onModuleExit: a launch the daemon counts on replaces it, or else one    *)
(* more, or nothing does, at the cap, behind the shield, or with nothing   *)
(* to pick from.                                                           *)
Exit ==
    /\ Len(current) = 1 /\ ~dead
    /\ UNCHANGED filters
    /\ \/ /\ awaited
          /\ dead' = TRUE /\ UNCHANGED <<used, current, flights, awaited, since, overlap>>
       \/ /\ ~awaited /\ StartLaunch(flights, TRUE, FALSE)
          /\ dead' = TRUE /\ UNCHANGED current
       \/ /\ ~awaited /\ Dark
          /\ UNCHANGED <<used, flights, awaited, since, overlap>>

(* stopSaver, at a lock: the cycle may go on after it.                     *)
Stop ==
    /\ Dark /\ flights' = <<>> /\ awaited' = FALSE
    /\ UNCHANGED <<filters, used, since, overlap>>

(* onCopyExit: what each monitor's replacement may be, with the used and   *)
(* the history it leaves, when the k-th one tried is the last: it starts,  *)
(* or none is left to try and the monitor stays as it is.                  *)
Tried(k) ==
    LET after[j \in 1..k] ==
            IF j = 1 THEN {<<p[1], p[2] \cup {p[1]}, <<p[1]>>>> : p \in Picks(used, ToSet(current))}
            ELSE UNION {{<<p[1], p[2] \cup {p[1]}, Append(t[3], p[1])>>
                         : p \in Picks(t[2], ToSet(current))} : t \in after[j - 1]}
    IN  after[k]

CopyExit(i) ==
    /\ Len(current) > 1 /\ ~awaited
    /\ \E k \in 1..MaxRelaunches : \E t \in Tried(k) :
          /\ used' = t[2]
          /\ current' \in {current, [current EXCEPT ![i] = t[1]]}
          /\ Picked(t[3])
    /\ UNCHANGED <<filters, dead, flights, awaited, overlap>>

(* The user is back.                                                       *)
Reset == Nothing /\ UNCHANGED filters

(* Mutant: the key of the other mode keeps its value. *)
TickLeavesOther(ticks, mode, each) ==
    /\ ticked' = ticks /\ only' = mode /\ different' = each
    /\ include' = IF mode THEN ticks ELSE include
    /\ exclude' = IF mode THEN exclude ELSE Installed \ ticks
    /\ Nothing

(* selection_updates, saved and reloaded: SetFilters, and reset.           *)
Tick(ticks, mode, each) ==
    /\ ticked' = ticks /\ only' = mode /\ different' = each
    /\ include' = IF mode THEN ticks ELSE {}
    /\ exclude' = IF mode THEN {} ELSE Installed \ ticks
    /\ Nothing

Next ==
    \/ Launch \/ Exit \/ Stop \/ Reset
    \/ \E i \in DOMAIN flights : Land(i) \/ Fail(i)
    \/ \E i \in DOMAIN current : CopyExit(i)
    \/ \E ticks \in SUBSET Installed, mode, each \in BOOLEAN : Tick(ticks, mode, each)

Spec == Init /\ [][Next]_vars

-----------------------------------------------------------------------------
(* Properties.                                                             *)

(* Each monitor shows a module of its own while the selection allows it:   *)
(* every set a launch, or `retrosaver run', picks has no module twice when *)
(* there are enough to pick from, and a set on screen never has, when      *)
(* there is one to spare for a monitor whose module exits.                 *)
SetsDiffer ==
    LET DiffersWith(n, names) ==
            Cardinality(Selectable) >= n => Cardinality(ToSet(names)) = Len(names)
    IN  /\ \A i \in DOMAIN flights : DiffersWith(Len(flights[i]), flights[i])
        /\ DiffersWith(Len(current) + 1, current)
        /\ \A names \in RunSets(Monitors) : DiffersWith(Monitors, names)

(* No module waits for ever for its turn in an idle cycle, whatever fails  *)
(* or exits: once twice as many have been picked as there are to pick      *)
(* from, every one has been, or is on screen.  Launches that overlap may   *)
(* start the turns over early, so it is of one launch at a time in flight. *)
TurnsTaken ==
    ~overlap => \A m \in Selectable : since[m] < 2 * Cardinality(Selectable)

(* A swap is skipped only when there is nothing else to show: a module to  *)
(* spare means the set on screen changes, as long as one launch at a time  *)
(* is in flight.                                                           *)
SwapSkippedOnlyAlone ==
    ~overlap =>
        \A n \in Sizes : \A p \in PickSets(n) :
            Keeps(p[1], dead) => Cardinality(Selectable) <= n

(* What the window shows as ticked is what may be picked: "exactly the     *)
(* ticked ones", in either mode and after any number of changes of either  *)
(* (gui/test_settings.py).  With nothing ticked this is so in one mode     *)
(* only: in the other the INCLUDE it writes is empty, and allows all.      *)
TickedIsSelectable == ticked # {} \/ ~only => Selectable = ticked

(* "No modules ticked: the screensaver has nothing to show" (update_count, *)
(* gui/retrosaver-settings): with nothing ticked, nothing may be picked.   *)
NothingTickedNothingShown == ticked = {} => Selectable = {}
=============================================================================
