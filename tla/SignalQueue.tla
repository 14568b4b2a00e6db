---------------------------- MODULE SignalQueue ----------------------------
(***************************************************************************)
(* What the event loop may count on from idle.Monitor.Fired and            *)
(* session.LockWatcher.Changes: the signals the bus sent, in the order it  *)
(* sent them.  One is lost only when Room of them are already waiting to   *)
(* be read, and the loop is told that the connection has gone, after every *)
(* signal that came before.  Pump implements this.                         *)
(***************************************************************************)
EXTENDS Naturals, SequencesExt

CONSTANTS
    Wanted,     \* the signals the loop reads
    Other,      \* those it is sent as well, and never sees
    Room        \* how many may wait before one is lost

VARIABLES
    state,      \* of the subscription, as the loop sees it
    queue,      \* sent, and neither read nor discarded
    sent,       \* the last signal sent, and a bit that tells it from the one before
    got         \* the signals the loop read last: none or one

qvars == <<state, queue, sent, got>>

Signal == Wanted \cup Other

Init ==
    /\ state = "connecting" /\ queue = <<>> /\ got = <<>>
    /\ sent \in Signal \X {0}

Subscribe ==
    /\ state = "connecting"
    /\ state' = "open" /\ UNCHANGED <<queue, sent, got>>

(* A loop that has called Close is sent nothing.                           *)
Send(s) ==
    /\ state \in {"open", "closed"}
    /\ sent' = <<s, 1 - sent[2]>>
    /\ \/ state = "open" /\ queue' = Append(queue, s)
       \/ (state = "open" => Len(queue) >= Room) /\ UNCHANGED queue
    /\ UNCHANGED <<state, got>>

Discard ==
    /\ \E i \in DOMAIN queue : queue[i] \in Other /\ queue' = RemoveAt(queue, i)
    /\ UNCHANGED <<state, sent, got>>

Read ==
    /\ state \in {"open", "lost"} /\ queue # <<>> /\ Head(queue) \in Wanted
    /\ got' = <<Head(queue)>> /\ queue' = Tail(queue)
    /\ UNCHANGED <<state, sent>>

Disconnect ==
    /\ state = "open"
    /\ state' = "lost" /\ UNCHANGED <<queue, sent, got>>

LearnOfLoss ==
    /\ state = "lost" /\ queue = <<>>
    /\ state' = "told" /\ UNCHANGED <<queue, sent, got>>

(* Once it has called Close the loop reads no more.                        *)
Close ==
    /\ state \in {"open", "lost", "told"}
    /\ state' = "closed" /\ queue' = <<>> /\ UNCHANGED <<sent, got>>

Next ==
    \/ Subscribe \/ (\E s \in Signal : Send(s)) \/ Discard \/ Read
    \/ Disconnect \/ LearnOfLoss \/ Close

(* Every signal waiting is read in the end, and so is the loss of the      *)
(* connection.                                                             *)
Fairness == WF_qvars(Discard) /\ WF_qvars(Read) /\ WF_qvars(LearnOfLoss)

Safety == Init /\ [][Next]_qvars
Spec == Safety /\ Fairness
=============================================================================
