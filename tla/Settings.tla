------------------------------ MODULE Settings ------------------------------
(***************************************************************************)
(* The settings: everything that writes the file, and the way a change     *)
(* takes to the running daemon.                                            *)
(*                                                                         *)
(*   writers   `retrosaver config set' (internal/config/write.go), the     *)
(*             settings window (gui/retrosaver-settings), setup's          *)
(*             installConfig (cmd/retrosaver/main.go), the user's editor   *)
(*   the way   inotify, read and run (internal/watch/watch.go), and        *)
(*             reloadTriggers (cmd/retrosaver/main.go), each a goroutine   *)
(*             with a channel of capacity 1 that it never waits to send on *)
(*   daemon    loadConfig at the start, reload from then on                *)
(***************************************************************************)
EXTENDS ConfigFile

CONSTANTS
    Commands,           \* `config set' commands that may run at a time
    Requests,           \* what one may ask for
    Drafts,             \* files the user's editor may save
    CloseWhileSaving,   \* the window may close, with changes, during a save
    Apart               \* sets and the window are run without a daemon, to
                        \* which a set is a rename, as Replace is; and writing
                        \* in place, which matters to the watch, with one

Setters == Commands \cup {"save", "last"}   \* the window's: flush, on_close

ASSUME CommandsAssumption == Commands \cap {"save", "last"} = {}
ASSUME RequestsAssumption == Requests \subseteq Updates
ASSUME DraftsAssumption == Drafts \subseteq Seq(Line)
ASSUME BoundsAssumption == CloseWhileSaving \in BOOLEAN /\ Apart \in BOOLEAN

VARIABLES
    file,       \* retrosaver.conf
    writer,     \* a writer that is not atomic: it has the file open, or is
                \* installConfig between its look and its write
    set,        \* where each `config set' is, what it asks for, what it read
    window,     \* the settings window
    excused,    \* history: the window cannot know what the file holds
    unread,     \* inotify holds an event that names the file
    raw,        \* read's channel
    timer,      \* run's settle timer is armed
    changed,    \* File's channel
    watch,      \* how alive the watch is
    hup,        \* a SIGHUP is waiting
    relay,      \* reloadTriggers' goroutine is between its receive and its send
    reload,     \* the channel it sends on
    daemon,     \* the daemon process
    cfg,        \* its settings
    loaded,     \* what reload has read, and not yet acted upon
    gap         \* history: the file changed after the start's load, with no
                \* watch up, and no event has come since

writers == <<writer, set, window, excused>>
channels == <<unread, raw, timer, changed, watch, hup, relay, reload>>
vars == <<file, writers, channels, daemon, cfg, loaded, gap>>

None == [k \in {} |-> Bad]      \* no change waiting
NoSet == [at |-> "idle", upd |-> None, base |-> Missing]
Nothing == [ok |-> FALSE, cfg |-> Defaults]
Closed == [at |-> "closed", want |-> Defaults, pending |-> None,
           timer |-> FALSE, saving |-> FALSE]

(* "off" is a unit that is not set up.                                     *)
Init ==
    /\ file \in {Missing, DefaultFile}
    /\ writer = "none"
    /\ set = [s \in Setters |-> NoSet]
    /\ window = Closed /\ excused = TRUE
    /\ unread = FALSE /\ raw = FALSE /\ timer = FALSE /\ changed = FALSE
    /\ watch = "off" /\ hup = FALSE /\ relay = FALSE /\ reload = FALSE
    /\ daemon \in {"off", "down"}
    /\ cfg = Defaults /\ loaded = Nothing /\ gap = FALSE

-----------------------------------------------------------------------------
(* A write the watch's mask names: close after writing, rename into place, *)
(* create, delete.  An event for another name, such as the temporary file  *)
(* of a set, is not counted: mentions drops it.                            *)

Event ==
    /\ unread' = (unread \/ watch = "reading")
    /\ gap' = (watch # "reading" /\ (gap \/ daemon = "watch"))
    /\ UNCHANGED <<raw, timer, changed, watch, hup, relay, reload>>
    /\ UNCHANGED <<daemon, cfg, loaded>>

Quiet == UNCHANGED <<channels, daemon, cfg, loaded, gap>>

(* A file renamed into place takes the name: whoever had the old one open  *)
(* goes on writing to a file without a name.                               *)
Rename(f) ==
    /\ file' = f /\ Event
    /\ writer' = IF writer = "install" THEN writer ELSE "none"

-----------------------------------------------------------------------------
(* `retrosaver config set': read the file, edit it, rename the result.     *)

Alone == Apart => daemon = "off"
Ask(s, upd) == set' = [set EXCEPT ![s].at = "asked", ![s].upd = upd]
End(s, at) == set' = [set EXCEPT ![s] = [NoSet EXCEPT !.at = at]]

RunSet(s) ==
    /\ s \in Commands /\ set[s].at = "idle" /\ Alone
    /\ \E upd \in Requests : Ask(s, upd)
    /\ UNCHANGED <<file, writer, window, excused>> /\ Quiet

(* It refuses an update that the parser would not take, and one that       *)
(* leaves a line it would not take.                                        *)
SetReads(s) ==
    /\ set[s].at = "asked" /\ Accepts(file, set[s].upd)
    /\ set' = [set EXCEPT ![s].at = "editing", ![s].base = file]
    /\ UNCHANGED <<file, writer, window, excused>> /\ Quiet

SetRenames(s) ==
    /\ set[s].at = "editing"
    /\ Rename(Edited(set[s].base, set[s].upd))
    /\ End(s, "ok")
    /\ excused' = (excused \/ s \in Commands)
    /\ UNCHANGED window

(* Refused, or a full disk, or a kill: the file is as it was.              *)
SetFails(s) ==
    /\ set[s].at \in {"asked", "editing"}
    /\ End(s, "failed")
    /\ UNCHANGED <<file, writer, window, excused>> /\ Quiet

(* Nobody reads the result of a command, nor, once the window has closed,  *)
(* of a save.                                                              *)
SetEnds(s) ==
    /\ set[s].at \in {"ok", "failed"}
    /\ s = "save" => window.at = "closed"
    /\ End(s, "idle")
    /\ excused' = (excused \/ (s \notin Commands /\ set[s].at = "failed"))
    /\ UNCHANGED <<file, writer, window>> /\ Quiet

-----------------------------------------------------------------------------
(* The other writers.                                                      *)

Watched == Apart => daemon # "off"

(* An editor that renames, or a user who deletes the file.                 *)
Replace(f) ==
    /\ Rename(f) /\ excused' = TRUE
    /\ UNCHANGED <<set, window>>

(* One that writes in place: open empties the file, and the event for      *)
(* that, IN_MODIFY, is not in the mask, unless the file is new.            *)
Truncate(by) ==
    /\ file' = <<>> /\ writer' = by /\ excused' = TRUE
    /\ IF file = Missing THEN Event ELSE Quiet
    /\ UNCHANGED <<set, window>>

EditorOpens == writer = "none" /\ Watched /\ Truncate("editor")

(* What it wrote, or, when it died first, what it left.                    *)
EditorCloses(f) ==
    /\ writer = "editor"
    /\ file' = f /\ writer' = "none" /\ excused' = TRUE /\ Event
    /\ UNCHANGED <<set, window>>

(* setup writes the default file where it finds none.                      *)
InstallLooks ==
    /\ writer = "none" /\ file = Missing /\ Watched
    /\ writer' = "install"
    /\ UNCHANGED <<file, set, window, excused>> /\ Quiet

InstallOpens == writer = "install" /\ Truncate("installing")

InstallWrites ==
    /\ writer = "installing"
    /\ file' = DefaultFile /\ writer' = "none" /\ excused' = TRUE /\ Event
    /\ UNCHANGED <<set, window>>

Writers ==
    \/ \E s \in Setters :
          RunSet(s) \/ SetReads(s) \/ SetRenames(s) \/ SetFails(s) \/ SetEnds(s)
    \/ \E f \in Drafts \cup {Missing} : f # file /\ Replace(f)
    \/ EditorOpens
    \/ \E f \in Drafts \cup {<<>>} : EditorCloses(f)
    \/ InstallLooks \/ InstallOpens \/ InstallWrites

-----------------------------------------------------------------------------
(* The settings window.  A change is queued, written half a second later   *)
(* with the others queued by then, one save at a time.                     *)

Window(changes) == window' = changes /\ UNCHANGED <<file, writer>> /\ Quiet

OpenWindow ==
    /\ window.at = "closed" /\ Alone
    /\ set["save"].at = "idle" /\ set["last"].at = "idle"
    /\ Window([Closed EXCEPT !.at = "loading"]) /\ UNCHANGED <<set, excused>>

(* load: it shows what `config show' prints, and that fails on a file that *)
(* does not parse.                                                         *)
WindowLoads ==
    /\ window.at = "loading"
    /\ IF Load(file).ok
       THEN /\ Window([window EXCEPT !.at = "open", !.want = Load(file).cfg])
            /\ excused' = FALSE
       ELSE Window([window EXCEPT !.at = "error"]) /\ UNCHANGED excused
    /\ UNCHANGED set

TryAgain ==
    /\ window.at = "error"
    /\ Window([window EXCEPT !.at = "loading"]) /\ UNCHANGED <<set, excused>>

(* Mutant: a change takes the place of those still to be written. *)
ChangeAlone(k, v) ==
    /\ window.at = "open" /\ window.want[k] # v
    /\ Window([window EXCEPT
           !.want[k] = v, !.timer = TRUE, !.pending = [j \in {k} |-> v]])
    /\ UNCHANGED <<set, excused>>

(* queue, from a row the user changed.                                     *)
Change(k, v) ==
    /\ window.at = "open" /\ window.want[k] # v
    /\ Window([window EXCEPT
           !.want[k] = v, !.timer = TRUE,
           !.pending = [j \in DOMAIN @ \cup {k} |-> IF j = k THEN v ELSE @[j]]])
    /\ UNCHANGED <<set, excused>>

(* flush's own part, shared by the timer and by a save that ends.          *)
StartSave(w) ==
    /\ Window([w EXCEPT !.pending = None, !.saving = TRUE])
    /\ Ask("save", window.pending)

Flush ==
    /\ window.at # "closed" /\ window.timer
    /\ IF window.saving \/ window.pending = None
       THEN Window([window EXCEPT !.timer = FALSE]) /\ UNCHANGED set
       ELSE StartSave([window EXCEPT !.timer = FALSE])
    /\ UNCHANGED excused

(* flush's done.                                                           *)
SaveSucceeds ==
    /\ window.at = "open" /\ window.saving /\ set["save"].at = "ok"
    /\ IF window.pending # None
       THEN StartSave(window)
       ELSE /\ Window([window EXCEPT !.saving = FALSE])
            /\ End("save", "idle")
    /\ UNCHANGED excused

SaveFailed ==
    /\ window.at = "open" /\ window.saving /\ set["save"].at = "failed"
    /\ Window([window EXCEPT !.saving = FALSE, !.pending = None, !.at = "loading"])
    /\ End("save", "idle")
    /\ UNCHANGED excused

(* on_close: changes not yet written are written now, and waited for.      *)
CloseWindow ==
    /\ window.at # "closed"
    /\ window.pending # None /\ window.saving => CloseWhileSaving
    /\ Window([Closed EXCEPT !.want = window.want])
    /\ IF window.pending # None THEN Ask("last", window.pending) ELSE UNCHANGED set
    /\ excused' = (excused \/ window.at # "open")

WindowStep ==
    \/ OpenWindow \/ WindowLoads \/ TryAgain
    \/ \E k \in Keys, v \in Values : Change(k, v)
    \/ Flush \/ SaveSucceeds \/ SaveFailed \/ CloseWindow

-----------------------------------------------------------------------------
(* The watch.                                                              *)

Unwritten == UNCHANGED <<file, writers>>
NotDaemon == UNCHANGED <<daemon, cfg, loaded, gap>> /\ Unwritten

Reads ==
    /\ watch = "reading" /\ unread
    /\ unread' = FALSE /\ raw' = TRUE
    /\ UNCHANGED <<timer, changed, watch, hup, relay, reload>> /\ NotDaemon

(* The read fails for good: raw is closed.                                 *)
ReadFails ==
    /\ watch = "reading"
    /\ watch' = "failed" /\ unread' = FALSE
    /\ UNCHANGED <<raw, timer, changed, hup, relay, reload>> /\ NotDaemon

(* Each event starts the wait again.                                       *)
Hears ==
    /\ watch \in {"reading", "failed"} /\ raw
    /\ raw' = FALSE /\ timer' = TRUE
    /\ UNCHANGED <<unread, changed, watch, hup, relay, reload>> /\ NotDaemon

Settles ==
    /\ watch \in {"reading", "failed"} /\ timer
    /\ timer' = FALSE /\ changed' = TRUE
    /\ UNCHANGED <<unread, raw, watch, hup, relay, reload>> /\ NotDaemon

(* run sees raw closed, drops a wait it was in, and closes its channel.    *)
RunReturns ==
    /\ watch = "failed" /\ ~raw
    /\ watch' = "ended" /\ timer' = FALSE
    /\ UNCHANGED <<unread, raw, changed, hup, relay, reload>> /\ NotDaemon

-----------------------------------------------------------------------------
(* reloadTriggers' goroutine.                                              *)

(* Mutant: it returns when the watch is over. *)
RelayHearsWatched ==
    /\ ~relay /\ watch # "off"
    /\ \/ changed /\ changed' = FALSE /\ UNCHANGED hup
       \/ hup /\ hup' = FALSE /\ UNCHANGED changed
    /\ relay' = TRUE
    /\ UNCHANGED <<unread, raw, timer, watch, reload>> /\ NotDaemon

RelayHears ==
    /\ ~relay
    /\ \/ changed /\ changed' = FALSE /\ UNCHANGED hup
       \/ hup /\ hup' = FALSE /\ UNCHANGED changed
    /\ relay' = TRUE
    /\ UNCHANGED <<unread, raw, timer, watch, reload>> /\ NotDaemon

RelaySends ==
    /\ relay
    /\ relay' = FALSE /\ reload' = TRUE
    /\ UNCHANGED <<unread, raw, timer, changed, watch, hup>> /\ NotDaemon

WatchIsOver ==
    /\ watch = "ended" /\ ~changed /\ ~relay
    /\ watch' = "off"
    /\ UNCHANGED <<unread, raw, timer, changed, hup, relay, reload>> /\ NotDaemon

-----------------------------------------------------------------------------
(* The daemon.  Starting, it loads the file and then starts the watch.     *)

NoChannels ==
    /\ unread' = FALSE /\ raw' = FALSE /\ timer' = FALSE /\ changed' = FALSE
    /\ hup' = FALSE /\ relay' = FALSE /\ reload' = FALSE

Starts ==
    /\ daemon = "down"
    /\ daemon' = "watch" /\ cfg' = Load(file).cfg
    /\ UNCHANGED <<channels, loaded, gap>> /\ Unwritten

StartsWatch ==
    /\ daemon = "watch"
    /\ daemon' = "run" /\ watch' \in {"reading", "off"}
    /\ UNCHANGED <<unread, raw, timer, changed, hup, relay, reload>>
    /\ UNCHANGED <<cfg, loaded, gap>> /\ Unwritten

Up == daemon \in {"run", "read", "apply"}

(* The process ends, however it does, and Restart=always brings it back.   *)
Dies ==
    /\ daemon \in {"watch", "run", "read", "apply"}
    /\ daemon' = "down" /\ watch' = "off" /\ NoChannels
    /\ cfg' = Defaults /\ loaded' = Nothing /\ gap' = FALSE /\ Unwritten

(* systemctl reload.  A process that does not catch SIGHUP yet dies of it: *)
(* Dies.                                                                   *)
Hangup ==
    /\ Up /\ hup' = TRUE
    /\ UNCHANGED <<unread, raw, timer, changed, watch, relay, reload>> /\ NotDaemon

(* reload, with the file read before it is acted upon.                     *)
TakesReload ==
    /\ daemon = "run" /\ reload
    /\ daemon' = "read" /\ reload' = FALSE
    /\ UNCHANGED <<unread, raw, timer, changed, watch, hup, relay>>
    /\ UNCHANGED <<cfg, loaded, gap>> /\ Unwritten

ReadsFile ==
    /\ daemon = "read"
    /\ daemon' = "apply" /\ loaded' = Load(file)
    /\ UNCHANGED <<channels, cfg, gap>> /\ Unwritten

(* Mutant: a reload asked for meanwhile is taken as done. *)
AppliesAll ==
    /\ daemon = "apply"
    /\ daemon' = "run" /\ loaded' = Nothing /\ reload' = FALSE
    /\ cfg' = IF loaded.ok THEN loaded.cfg ELSE cfg
    /\ UNCHANGED <<unread, raw, timer, changed, watch, hup, relay, gap>> /\ Unwritten

(* A file that does not parse changes nothing, nor does one that holds the *)
(* same settings.  After a change the watches are re-armed: Daemon.Reload; *)
(* failing that, the process ends: Dies.                                   *)
Applies ==
    /\ daemon = "apply"
    /\ daemon' = "run" /\ loaded' = Nothing
    /\ cfg' = IF loaded.ok THEN loaded.cfg ELSE cfg
    /\ UNCHANGED <<channels, gap>> /\ Unwritten

Pipeline ==
    \/ Reads \/ ReadFails \/ Hears \/ Settles \/ RunReturns
    \/ RelayHears \/ RelaySends \/ WatchIsOver
    \/ Starts \/ StartsWatch \/ Dies \/ Hangup
    \/ TakesReload \/ ReadsFile \/ Applies

Next == Writers \/ WindowStep \/ Pipeline

(* Every goroutine runs, a timer fires, a command the user started and a   *)
(* callback the window waits for come.  Nothing is owed by the user, by    *)
(* what may fail, or by systemd.                                           *)
Fairness ==
    /\ WF_vars(Reads) /\ WF_vars(Hears) /\ WF_vars(Settles)
    /\ WF_vars(RelayHears) /\ WF_vars(RelaySends)
    /\ WF_vars(TakesReload) /\ WF_vars(ReadsFile) /\ WF_vars(Applies)

Spec == Init /\ [][Next]_vars /\ Fairness

-----------------------------------------------------------------------------
(* Properties.                                                             *)

(* The types of the variables: those of the writers and the window, and    *)
(* those of the watch, the relay and the daemon, where an unread event is  *)
(* one of a watch that still reads.                                        *)
SetState == [at : {"idle", "asked", "editing", "ok", "failed"},
             upd : Updates \cup {None}, base : Seq(Line) \cup {Missing}]
WindowState == [at : {"closed", "loading", "open", "error"},
                want : [Keys -> Values], pending : Updates \cup {None},
                timer : BOOLEAN, saving : BOOLEAN]

EditTypes ==
    /\ file \in Seq(Line) \cup {Missing}
    /\ writer \in {"none", "editor", "install", "installing"}
    /\ set \in [Setters -> SetState]
    /\ window \in WindowState

ReloadTypes ==
    /\ {excused, unread, raw, timer, changed, hup, relay, reload, gap} \subseteq BOOLEAN
    /\ watch \in {"off", "reading", "failed", "ended"}
    /\ daemon \in {"off", "down", "watch", "run", "read", "apply"}
    /\ cfg \in [Keys -> Values]
    /\ loaded \in [ok : BOOLEAN, cfg : [Keys -> Values]]
    /\ unread => watch = "reading"

TypeOK == EditTypes /\ ReloadTypes

Follows(settings) == Load(file).ok => settings = Load(file).cfg
OnItsWay == unread \/ raw \/ timer \/ changed \/ hup \/ relay \/ reload

(* No change of the file is missed: while the watch is up, a daemon whose  *)
(* settings are not the file's has a change on its way to it, or has begun *)
(* to reload and has not read the file yet, or has read what the file      *)
(* holds.  Left out are a file being written in place, whose last event is *)
(* still to come, and a change in the gap between the start's load and its *)
(* watch.  (The channels of watch.go and reloadTriggers drop what they     *)
(* cannot hold; the receiver re-reads the file anyway.)                    *)
NoChangeMissed ==
    Up /\ watch = "reading" /\ writer \notin {"editor", "installing"} /\ ~gap =>
        \/ OnItsWay
        \/ daemon = "run" /\ Follows(cfg)
        \/ daemon = "read"
        \/ daemon = "apply" /\ loaded = Load(file)

(* A `config set' changes the settings it is asked to change, to what it   *)
(* is asked for, and no other, and leaves a file that parses: whatever the *)
(* file held when it read it, duplicates, comments and unknown keys, and   *)
(* as long as nobody wrote between its read and its rename.                *)
SetKeepsRest ==
    [][\A s \in Setters :
          SetRenames(s) /\ set[s].base = file =>
              Load(file') = [ok |-> TRUE,
                             cfg |-> Override(Parse(IF file = Missing
                                                    THEN DefaultFile ELSE file),
                                              set[s].upd)]]_vars

(* What the user chose in the settings window is what the file says, once  *)
(* nothing is waiting to be written: unless somebody else wrote, or a save *)
(* failed after the window had closed.  (A save that fails shows the file  *)
(* again; a change made during a save is saved after it; closing saves.)   *)
EditsLand ==
    /\ ~excused /\ window.at \in {"open", "closed"} /\ window.pending = None
    /\ set["save"].at = "idle" /\ set["last"].at = "idle"
    => Load(file) = [ok |-> TRUE, cfg |-> window.want]

(* A daemon that stays up, with its watch, comes to the settings of a file *)
(* that stays as it is and parses; without the watch, "SIGHUP still works" *)
(* (reloadTriggers).                                                       *)
CatchesUp ==
    /\ <>[][FALSE]_<<file, writer>>
    /\ <>[](Up /\ writer = "none")
    /\ <>[](watch = "reading" /\ ~gap) \/ []<>hup
    => <>[]Follows(cfg)
=============================================================================
