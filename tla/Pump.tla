-------------------------------- MODULE Pump --------------------------------
(***************************************************************************)
(* How a signal of the bus reaches the daemon's event loop: Connect, pump  *)
(* and Close of internal/idle/idle.go, and WatchLocks, pump and Close of   *)
(* internal/session/lockwatch.go, which are the same but for the sizes of  *)
(* their channels.  godbus puts a signal in the registered channel, or     *)
(* drops it when the channel is full; the pump takes it out, and hands the *)
(* loop those that are watches firing (changes of LockedHint).             *)
(*                                                                         *)
(* The loop is the only one to read the pump's channel, and the one that   *)
(* calls Close: from there on nobody reads.                                *)
(***************************************************************************)
EXTENDS Naturals, SequencesExt

CONSTANTS
    Wanted,         \* signals that mean something to the loop
    Other,          \* others that match the rule: a property that is not
                    \* LockedHint, a malformed body
    SignalBuffer,   \* signalBuffer, lockSignalBuffer
    FiredBuffer     \* firedBuffer; 1 for the lock watcher

ASSUME SignalsAssumption == Wanted \cap Other = {} /\ Wanted \cup Other # {}
ASSUME BuffersAssumption ==
    SignalBuffer \in Nat \ {0} /\ FiredBuffer \in Nat \ {0}

VARIABLES
    conn,       \* the connection: the match rule, and the transport
    registered, \* godbus delivers to signals
    signals,    \* the channel godbus delivers to
    pump,       \* the pump's goroutine
    holding,    \* what it waits to send: nothing or one signal
    fired,      \* its channel to the loop
    done,       \* Close has released it
    loop,       \* the event loop: connecting, reading, or where in Close
    sent,       \* the last signal the bus sent, and a bit that alternates
    got         \* the signals the loop read last: none or one

vars == <<conn, registered, signals, pump, holding, fired, done, loop, sent, got>>

Signal == Wanted \cup Other

Init ==
    /\ conn = "dialled" /\ registered = FALSE /\ signals = <<>>
    /\ pump = "none" /\ holding = <<>> /\ fired = <<>> /\ done = FALSE
    /\ loop = "connect" /\ got = <<>>
    /\ sent \in Signal \X {0}

-----------------------------------------------------------------------------
(* Connect: the channel first, then the match rule, then the pump.  A step *)
(* that fails gives no subscription at all: the loop never runs.           *)

Register ==
    /\ loop = "connect" /\ ~registered
    /\ registered' = TRUE
    /\ UNCHANGED <<conn, signals, pump, holding, fired, done, loop, sent, got>>

(* Mutant: the match rule is added before the channel is registered. *)
AddMatchFirst ==
    /\ loop = "connect" /\ conn = "dialled"
    /\ conn' = "matched"
    /\ UNCHANGED <<registered, signals, pump, holding, fired, done, loop, sent, got>>

AddMatch ==
    /\ loop = "connect" /\ registered /\ conn = "dialled"
    /\ conn' = "matched"
    /\ UNCHANGED <<registered, signals, pump, holding, fired, done, loop, sent, got>>

StartPump ==
    /\ loop = "connect" /\ registered /\ conn # "dialled"
    /\ pump' = "select" /\ loop' = "reading"
    /\ UNCHANGED <<conn, registered, signals, holding, fired, done, sent, got>>

-----------------------------------------------------------------------------
(* godbus, and the bus behind it.                                          *)

(* A signal the rule matches.                                              *)
Emit(s) ==
    /\ conn = "matched"
    /\ sent' = <<s, 1 - sent[2]>>
    /\ signals' = IF registered /\ Len(signals) < SignalBuffer
                  THEN Append(signals, s) ELSE signals
    /\ UNCHANGED <<conn, registered, pump, holding, fired, done, loop, got>>

(* gnome-shell or the bus goes away.  What the channel holds stays there;  *)
(* once it is empty the channel, registered, reads as closed.              *)
Drop ==
    /\ conn = "matched"
    /\ conn' = "lost"
    /\ UNCHANGED <<registered, signals, pump, holding, fired, done, loop, sent, got>>

-----------------------------------------------------------------------------
(* pump.                                                                   *)

Take ==
    /\ pump = "select" /\ signals # <<>>
    /\ signals' = Tail(signals)
    /\ IF Head(signals) \in Wanted
       THEN holding' = <<Head(signals)>> /\ pump' = "send"
       ELSE UNCHANGED <<holding, pump>>
    /\ UNCHANGED <<conn, registered, fired, done, loop, sent, got>>

HandOver ==
    /\ pump = "send" /\ Len(fired) < FiredBuffer
    /\ fired' = fired \o holding /\ holding' = <<>> /\ pump' = "select"
    /\ UNCHANGED <<conn, registered, signals, done, loop, sent, got>>

(* Mutant: it waits to hand over without looking at done. *)
StoppedInSelect ==
    /\ pump = "select" /\ done
    /\ pump' = "ended" /\ holding' = <<>>
    /\ UNCHANGED <<conn, registered, signals, fired, done, loop, sent, got>>

(* It closes fired on its way out, here and in Stopped.                    *)
SeeEnd ==
    /\ pump = "select" /\ signals = <<>> /\ conn = "lost" /\ registered
    /\ pump' = "ended"
    /\ UNCHANGED <<conn, registered, signals, holding, fired, done, loop, sent, got>>

Stopped ==
    /\ pump \in {"select", "send"} /\ done
    /\ pump' = "ended" /\ holding' = <<>>
    /\ UNCHANGED <<conn, registered, signals, fired, done, loop, sent, got>>

-----------------------------------------------------------------------------
(* The event loop.                                                         *)

Receive ==
    /\ loop = "reading" /\ fired # <<>>
    /\ got' = <<Head(fired)>> /\ fired' = Tail(fired)
    /\ UNCHANGED <<conn, registered, signals, pump, holding, done, loop, sent>>

ReceiveClosed ==
    /\ loop = "reading" /\ fired = <<>> /\ pump = "ended"
    /\ loop' = "told"
    /\ UNCHANGED <<conn, registered, signals, pump, holding, fired, done, sent, got>>

(* Close, one call at a time.                                              *)
CloseDone ==
    /\ loop \in {"reading", "told"}
    /\ loop' = "remove" /\ done' = TRUE
    /\ UNCHANGED <<conn, registered, signals, pump, holding, fired, sent, got>>

RemoveSignal ==
    /\ loop = "remove"
    /\ loop' = "close" /\ registered' = FALSE
    /\ UNCHANGED <<conn, signals, pump, holding, fired, done, sent, got>>

CloseConn ==
    /\ loop = "close"
    /\ loop' = "wait" /\ conn' = "lost"
    /\ UNCHANGED <<registered, signals, pump, holding, fired, done, sent, got>>

Wait ==
    /\ loop = "wait" /\ pump = "ended"
    /\ loop' = "returned"
    /\ UNCHANGED <<conn, registered, signals, pump, holding, fired, done, sent, got>>

Next ==
    \/ Register \/ AddMatch \/ StartPump
    \/ (\E s \in Signal : Emit(s)) \/ Drop
    \/ Take \/ HandOver \/ SeeEnd \/ Stopped
    \/ Receive \/ ReceiveClosed
    \/ CloseDone \/ RemoveSignal \/ CloseConn \/ Wait

(* Both goroutines run.  The loop always comes back to its select: every   *)
(* call it makes is bounded by callTimeout.  Nothing makes it call Close.  *)
Fairness ==
    /\ WF_vars(StartPump)
    /\ WF_vars(Take) /\ WF_vars(HandOver) /\ WF_vars(SeeEnd) /\ WF_vars(Stopped)
    /\ WF_vars(Receive) /\ WF_vars(ReceiveClosed)
    /\ WF_vars(RemoveSignal) /\ WF_vars(CloseConn) /\ WF_vars(Wait)

Spec == Init /\ [][Next]_vars /\ Fairness

-----------------------------------------------------------------------------
(* Properties.                                                             *)

Subscribed == loop \in {"connect", "reading", "told"}

Waiting == IF Subscribed THEN fired \o holding \o signals ELSE <<>>

Subscription ==
    IF ~Subscribed THEN "closed"
    ELSE IF conn = "dialled" THEN "connecting"
    ELSE IF loop = "told" THEN "told"
    ELSE IF conn = "lost" THEN "lost" ELSE "open"

Queue == INSTANCE SignalQueue WITH
    Room <- SignalBuffer, queue <- Waiting, state <- Subscription

(* The loop reads the signals in the order they were sent, without losing  *)
(* one as long as fewer than SignalBuffer wait to be read, from the moment *)
(* the match rule is in place; and it learns that the connection has gone, *)
(* after every signal that came before.  (Connect registers the channel    *)
(* first; the pump is the only sender; godbus closes a channel only after  *)
(* what it holds.)                                                         *)
DeliversInOrder == Queue!Spec

(* Close returns, whatever the pump was doing, though nobody reads its     *)
(* channel any more.                                                       *)
CloseReturns == loop = "remove" ~> loop = "returned"
=============================================================================
