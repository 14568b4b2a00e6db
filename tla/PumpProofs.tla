----------------------------- MODULE PumpProofs -----------------------------
(***************************************************************************)
(* The pump implements SignalQueue's safety, for any signals and any sizes *)
(* of its channels: every step of Pump is a step of SignalQueue on the     *)
(* signals in fired, in the pump's hand and in signals, or changes nothing *)
(* there.                                                                  *)
(***************************************************************************)
EXTENDS Pump, SequenceTheorems, TLAPS

(* Sequences.                                                              *)

LEMMA ConsTail ==
    ASSUME NEW S, NEW s \in Seq(S), s # <<>>
    PROVE  <<Head(s)>> \o Tail(s) = s
<1>1. /\ Tail(s) \in Seq(S) /\ Len(Tail(s)) = Len(s) - 1 /\ Len(s) \in Nat \ {0}
      /\ \A i \in 1..Len(Tail(s)) : Tail(s)[i] = s[i + 1]
      /\ Head(s) \in S /\ Head(s) = s[1]
  BY HeadTailProperties, EmptySeq
<1>2. <<Head(s)>> \in Seq(S) /\ Len(<<Head(s)>>) = 1 /\ <<Head(s)>>[1] = s[1]
  BY <1>1
<1> DEFINE h == <<Head(s)>>
<1> HIDE DEF h
<1>3. /\ h \o Tail(s) \in Seq(S) /\ Len(h \o Tail(s)) = 1 + Len(Tail(s))
      /\ \A i \in 1..(1 + Len(Tail(s))) :
            (h \o Tail(s))[i] = IF i <= 1 THEN h[i] ELSE Tail(s)[i - 1]
  BY <1>1, <1>2, ConcatProperties DEF h
<1>4. ASSUME NEW i \in 1..Len(s)
      PROVE  (h \o Tail(s))[i] = s[i]
  <2>1. CASE i = 1
    BY <1>1, <1>2, <1>3, <2>1 DEF h
  <2>2. CASE i # 1
    <3>1. i - 1 \in 1..Len(Tail(s)) /\ (i - 1) + 1 = i
      BY <1>1, <2>2
    <3> QED BY <1>1, <1>3, <2>2, <3>1
  <2> QED BY <2>1, <2>2
<1>5. h \o Tail(s) = s
  BY <1>1, <1>3, <1>4, SeqEqual
<1> QED BY <1>5 DEF h

LEMMA HeadTailConcat ==
    ASSUME NEW S, NEW f \in Seq(S), NEW r \in Seq(S), f # <<>>
    PROVE  /\ f \o r # <<>>
           /\ Head(f \o r) = Head(f)
           /\ Tail(f \o r) = Tail(f) \o r
<1>1. /\ f \o r \in Seq(S) /\ Len(f \o r) = Len(f) + Len(r)
      /\ Len(f) \in Nat \ {0} /\ Len(r) \in Nat
      /\ \A i \in 1..(Len(f) + Len(r)) :
            (f \o r)[i] = IF i <= Len(f) THEN f[i] ELSE r[i - Len(f)]
  BY ConcatProperties, EmptySeq, LenProperties
<1>2. f \o r # <<>>
  BY <1>1, EmptySeq
<1>3. Head(f \o r) = Head(f)
  BY <1>1
<1>4. /\ Tail(f) \in Seq(S) /\ Len(Tail(f)) = Len(f) - 1
      /\ \A i \in 1..Len(Tail(f)) : Tail(f)[i] = f[i + 1]
  BY <1>1, EmptySeq, HeadTailProperties
<1>5. /\ Tail(f \o r) \in Seq(S) /\ Len(Tail(f \o r)) = Len(f) + Len(r) - 1
      /\ \A i \in 1..Len(Tail(f \o r)) : Tail(f \o r)[i] = (f \o r)[i + 1]
  BY <1>1, <1>2, HeadTailProperties
<1>6. /\ Tail(f) \o r \in Seq(S) /\ Len(Tail(f) \o r) = Len(f) + Len(r) - 1
      /\ \A i \in 1..(Len(f) + Len(r) - 1) :
            (Tail(f) \o r)[i] = IF i <= Len(f) - 1 THEN Tail(f)[i] ELSE r[i - (Len(f) - 1)]
  BY <1>1, <1>4, ConcatProperties
<1>7. ASSUME NEW i \in 1..Len(Tail(f \o r))
      PROVE  Tail(f \o r)[i] = (Tail(f) \o r)[i]
  <2>1. i \in Nat /\ i >= 1 /\ i <= Len(f) + Len(r) - 1
    BY <1>1, <1>5
  <2>2. i + 1 \in 1..(Len(f) + Len(r)) /\ (i + 1) - Len(f) = i - (Len(f) - 1)
    BY <1>1, <2>1
  <2>3. Tail(f \o r)[i] = IF i + 1 <= Len(f) THEN f[i + 1] ELSE r[(i + 1) - Len(f)]
    BY <1>1, <1>5, <2>2
  <2>4. CASE i <= Len(f) - 1
    BY <1>1, <1>4, <1>6, <2>1, <2>3, <2>4
  <2>5. CASE ~(i <= Len(f) - 1)
    BY <1>1, <1>6, <2>1, <2>2, <2>3, <2>5
  <2> QED BY <2>4, <2>5
<1>8. Tail(f \o r) = Tail(f) \o r
  BY <1>5, <1>6, <1>7, SeqEqual
<1> QED BY <1>2, <1>3, <1>8

LEMMA RemoveMiddle ==
    ASSUME NEW S, NEW f \in Seq(S), NEW s \in Seq(S), s # <<>>
    PROVE  /\ Len(f) + 1 \in DOMAIN (f \o s)
           /\ (f \o s)[Len(f) + 1] = Head(s)
           /\ RemoveAt(f \o s, Len(f) + 1) = f \o Tail(s)
<1> DEFINE n == Len(f)
           c == f \o s
<1>1. /\ c \in Seq(S) /\ Len(c) = n + Len(s) /\ n \in Nat /\ Len(s) \in Nat \ {0}
      /\ \A i \in 1..(n + Len(s)) : c[i] = IF i <= n THEN f[i] ELSE s[i - n]
      /\ DOMAIN c = 1..(n + Len(s))
  BY ConcatProperties, EmptySeq, LenProperties
<1>2. /\ Tail(s) \in Seq(S) /\ Len(Tail(s)) = Len(s) - 1 /\ Head(s) = s[1]
      /\ \A i \in 1..Len(Tail(s)) : Tail(s)[i] = s[i + 1]
  BY HeadTailProperties
<1> HIDE DEF c, n
<1>3. n + 1 \in DOMAIN c /\ c[n + 1] = Head(s)
  <2>1. n + 1 \in 1..(n + Len(s)) /\ ~(n + 1 <= n) /\ (n + 1) - n = 1
    BY <1>1
  <2> QED BY <1>1, <1>2, <2>1
<1>4. SubSeq(c, 1, n) = f
  <2>1. /\ SubSeq(c, 1, n) \in Seq(S) /\ Len(SubSeq(c, 1, n)) = n
        /\ \A i \in 1..n : SubSeq(c, 1, n)[i] = c[1 + i - 1]
    <3>1. \A i \in 1..n : c[i] \in S
      BY <1>1
    <3>2. 1 \in Int /\ n \in Int /\ n - 1 + 1 = n
      BY <1>1
    <3>3. /\ SubSeq(c, 1, n) \in Seq(S)
          /\ Len(SubSeq(c, 1, n)) = IF 1 <= n THEN n - 1 + 1 ELSE 0
          /\ \A i \in 1..(n - 1 + 1) : SubSeq(c, 1, n)[i] = c[1 + i - 1]
      BY <3>1, <3>2, SubSeqProperties
    <3> QED BY <1>1, <3>2, <3>3
  <2>2. \A i \in 1..n : SubSeq(c, 1, n)[i] = f[i]
    <3> TAKE i \in 1..n
    <3>1. 1 + i - 1 = i /\ i \in 1..(n + Len(s)) /\ i <= n
      BY <1>1
    <3> QED BY <1>1, <2>1, <3>1
  <2> QED BY <2>1, <2>2, SeqEqual DEF n
<1>5. SubSeq(c, (n + 1) + 1, Len(c)) = Tail(s)
  <2> DEFINE m == (n + 1) + 1
  <2>1. m \in Int /\ Len(c) \in Int /\ Len(c) - m + 1 = Len(Tail(s))
    BY <1>1, <1>2
  <2>2. \A i \in m..Len(c) : c[i] \in S
    BY <1>1
  <2>3. /\ SubSeq(c, m, Len(c)) \in Seq(S)
        /\ Len(SubSeq(c, m, Len(c))) = IF m <= Len(c) THEN Len(c) - m + 1 ELSE 0
        /\ \A i \in 1..(Len(c) - m + 1) : SubSeq(c, m, Len(c))[i] = c[m + i - 1]
    BY <2>1, <2>2, SubSeqProperties
  <2>4. Len(SubSeq(c, m, Len(c))) = Len(Tail(s))
    BY <1>1, <1>2, <2>1, <2>3
  <2>5. \A i \in 1..Len(Tail(s)) : SubSeq(c, m, Len(c))[i] = Tail(s)[i]
    <3> TAKE i \in 1..Len(Tail(s))
    <3>1. /\ m + i - 1 \in 1..(n + Len(s)) /\ ~(m + i - 1 <= n)
          /\ (m + i - 1) - n = i + 1
      BY <1>1, <1>2
    <3> QED BY <1>1, <1>2, <2>1, <2>3, <3>1
  <2> QED BY <1>2, <2>3, <2>4, <2>5, SeqEqual
<1>6. (n + 1) - 1 = n
  BY <1>1
<1>7. RemoveAt(c, n + 1) = f \o Tail(s)
  BY <1>4, <1>5, <1>6 DEF RemoveAt
<1> QED BY <1>3, <1>7 DEF c, n
-----------------------------------------------------------------------------
(* What holds along the way: godbus is told of the channel before a signal *)
(* can match; done is Close's; and the pump ends by itself only when the   *)
(* connection has gone and nothing is left.                                *)

PumpTypes ==
    /\ signals \in Seq(Signal) /\ fired \in Seq(Wanted)
    /\ holding \in {<<>>} \cup {<<s>> : s \in Wanted}
    /\ Len(signals) <= SignalBuffer
    /\ conn \in {"dialled", "matched", "lost"}
    /\ pump \in {"none", "select", "send", "ended"}
    /\ loop \in {"connect", "reading", "told", "remove", "close", "wait", "returned"}

PumpInv ==
    /\ PumpTypes
    /\ pump # "send" => holding = <<>>
    /\ conn = "dialled" => loop = "connect" /\ fired = <<>> /\ signals = <<>>
    /\ loop = "connect" => pump = "none"
    /\ Subscribed /\ conn # "dialled" => registered
    /\ Subscribed => ~done
    /\ Subscribed /\ pump = "ended" => signals = <<>> /\ conn = "lost"
    /\ loop = "told" => fired = <<>> /\ pump = "ended"

LEMMA HoldingIsSeq ==
    ASSUME PumpTypes
    PROVE  holding \in Seq(Wanted)
<1>1. CASE holding = <<>>
  BY <1>1, EmptySeq
<1>2. ASSUME NEW s \in Wanted, holding = <<s>>
      PROVE  holding \in Seq(Wanted)
  BY <1>2
<1> QED BY <1>1, <1>2 DEF PumpTypes

LEMMA PumpInit == Init => PumpInv
BY BuffersAssumption DEF Init, PumpInv, PumpTypes, Subscribed

LEMMA PumpStep == PumpInv /\ [Next]_vars => PumpInv'
<1> SUFFICES ASSUME PumpInv, [Next]_vars
             PROVE  PumpInv'
  OBVIOUS
<1> USE DEF PumpInv, PumpTypes, Subscribed
<1>1. CASE Register BY <1>1 DEF Register
<1>2. CASE AddMatch BY <1>2 DEF AddMatch
<1>3. CASE StartPump BY <1>3 DEF StartPump
<1>4. ASSUME NEW s \in Signal, Emit(s)
      PROVE  PumpInv'
  <2>1. CASE registered /\ Len(signals) < SignalBuffer
    <3>1. signals' = Append(signals, s)
      BY <1>4, <2>1 DEF Emit
    <3>2. signals' \in Seq(Signal) /\ Len(signals') <= SignalBuffer
      BY <2>1, <3>1, AppendProperties, LenProperties, BuffersAssumption
    <3> QED BY <1>4, <3>2 DEF Emit
  <2>2. CASE ~(registered /\ Len(signals) < SignalBuffer)
    BY <1>4, <2>2 DEF Emit
  <2> QED BY <2>1, <2>2
<1>5. CASE Drop BY <1>5 DEF Drop
<1>6. CASE Take
  <2>1. /\ Tail(signals) \in Seq(Signal) /\ Len(Tail(signals)) <= SignalBuffer
        /\ Head(signals) \in Signal
    BY <1>6, HeadTailProperties, LenProperties, BuffersAssumption DEF Take
  <2>2. signals # <<>> /\ pump = "select" /\ signals' = Tail(signals)
    BY <1>6 DEF Take
  <2> QED BY <1>6, <2>1, <2>2 DEF Take
<1>7. CASE HandOver
  <2>1. pump = "send" /\ holding \in Seq(Wanted)
    BY <1>7, HoldingIsSeq DEF HandOver
  <2>2. fired' \in Seq(Wanted)
    BY <1>7, <2>1, ConcatProperties DEF HandOver
  <2> QED BY <1>7, <2>1, <2>2 DEF HandOver
<1>8. CASE SeeEnd BY <1>8 DEF SeeEnd
<1>9. CASE Stopped BY <1>9 DEF Stopped
<1>10. CASE Receive
  <2>1. Tail(fired) \in Seq(Wanted)
    BY <1>10, HeadTailProperties DEF Receive
  <2> QED BY <1>10, <2>1 DEF Receive
<1>11. CASE ReceiveClosed BY <1>11 DEF ReceiveClosed
<1>12. CASE CloseDone \/ RemoveSignal \/ CloseConn \/ Wait
  BY <1>12 DEF CloseDone, RemoveSignal, CloseConn, Wait
<1>13. CASE UNCHANGED vars BY <1>13 DEF vars
<1> QED BY <1>1, <1>2, <1>3, <1>4, <1>5, <1>6, <1>7, <1>8, <1>9, <1>10, <1>11,
           <1>12, <1>13 DEF Next

-----------------------------------------------------------------------------
(* The refinement.                                                         *)

LEMMA WaitingIs ==
    ASSUME PumpInv
    PROVE  /\ fired \in Seq(Signal) /\ holding \in Seq(Signal) /\ signals \in Seq(Signal)
           /\ fired \o holding \in Seq(Signal)
           /\ fired \o holding \o signals \in Seq(Signal)
           /\ holding = <<>> => fired \o holding \o signals = fired \o signals
<1>1. fired \in Seq(Signal) /\ holding \in Seq(Signal) /\ signals \in Seq(Signal)
  <2>1. Wanted \subseteq Signal
    BY DEF Signal
  <2> QED BY <2>1, HoldingIsSeq, SeqMonotonic DEF PumpInv, PumpTypes
<1>2. fired \o holding \in Seq(Signal)
  BY <1>1, ConcatProperties
<1>3. fired \o holding \o signals \in Seq(Signal)
  BY <1>1, <1>2, ConcatProperties
<1>4. holding = <<>> => fired \o holding \o signals = fired \o signals
  BY <1>1, ConcatEmptySeq
<1> QED BY <1>1, <1>2, <1>3, <1>4

LEMMA Unsubscribed ==
    ASSUME ~Subscribed
    PROVE  Waiting = <<>> /\ Subscription = "closed"
BY DEF Waiting, Subscription

LEMMA InitRefines == Init => Queue!Init
BY EmptySeq, ConcatEmptySeq
   DEF Init, Queue!Init, Queue!Signal, Signal, Waiting, Subscription, Subscribed

(* A signal that does not fit in the channel finds as many waiting.        *)
LEMMA EmitRefines ==
    ASSUME PumpInv, NEW s \in Signal, Emit(s)
    PROVE  Queue!Send(s)
<1>1. sent' = <<s, 1 - sent[2]>> /\ UNCHANGED <<conn, fired, holding, loop, got>>
  BY DEF Emit
<1>2. CASE ~Subscribed
  <2>1. ~Subscribed'
    BY <1>1, <1>2 DEF Subscribed
  <2> QED BY <1>1, <1>2, <2>1, Unsubscribed
          DEF Queue!Send, Waiting, Subscription
<1>3. CASE Subscribed
  <2>1. Subscription = "open" /\ Subscription' = "open" /\ Subscribed' /\ registered
    BY <1>1, <1>3 DEF Emit, PumpInv, Subscription, Subscribed
  <2>2. CASE Len(signals) < SignalBuffer
    <3>1. signals' = signals \o <<s>>
      BY <2>1, <2>2, WaitingIs, AppendIsConcat DEF Emit
    <3>2. <<s>> \in Seq(Signal)
      OBVIOUS
    <3>3. Waiting' = (fired \o holding) \o (signals \o <<s>>)
      BY <1>1, <2>1, <3>1 DEF Waiting
    <3>4. Waiting' = Append(Waiting, s)
      <4> DEFINE c == fired \o holding
      <4>1. c \in Seq(Signal) /\ signals \in Seq(Signal) /\ c \o signals \in Seq(Signal)
        BY WaitingIs
      <4>2. Waiting = c \o signals
        BY <1>3 DEF Waiting
      <4> HIDE DEF c
      <4>3. (c \o signals) \o <<s>> = c \o (signals \o <<s>>)
        BY <3>2, <4>1, ConcatAssociative
      <4>4. Append(c \o signals, s) = (c \o signals) \o <<s>>
        BY <4>1, AppendIsConcat
      <4> QED BY <3>3, <4>2, <4>3, <4>4 DEF c
    <3> QED BY <1>1, <2>1, <3>4 DEF Queue!Send
  <2>3. CASE ~(Len(signals) < SignalBuffer)
    <3>1. Waiting' = Waiting
      BY <1>1, <1>3, <2>1, <2>3 DEF Emit, Waiting
    <3>2. Len(Waiting) >= SignalBuffer
      BY <1>3, <2>3, WaitingIs, ConcatProperties, LenProperties, BuffersAssumption
         DEF Waiting
    <3> QED BY <1>1, <2>1, <3>1, <3>2 DEF Queue!Send
  <2> QED BY <2>2, <2>3
<1> QED BY <1>2, <1>3

(* The pump keeps what means something, and forgets the rest.              *)
LEMMA TakeRefines ==
    ASSUME PumpInv, PumpInv', Take
    PROVE  Queue!Discard \/ UNCHANGED Queue!qvars
<1>1. /\ signals # <<>> /\ signals' = Tail(signals) /\ holding = <<>>
      /\ UNCHANGED <<conn, fired, loop, sent, got>>
  BY DEF Take, PumpInv
<1>2. Subscribed' = Subscribed /\ Subscription' = Subscription
  BY <1>1 DEF Subscribed, Subscription
<1>3. CASE ~Subscribed
  BY <1>1, <1>2, <1>3 DEF Queue!qvars, Waiting
<1>4. CASE Subscribed /\ Head(signals) \in Wanted
  <2>1. holding' = <<Head(signals)>> /\ <<Head(signals)>> \in Seq(Signal)
    BY <1>4 DEF Take, Signal
  <2>2. Tail(signals) \in Seq(Signal)
    BY <1>1, WaitingIs, HeadTailProperties
  <2>3. (fired \o <<Head(signals)>>) \o Tail(signals) = fired \o signals
    BY <1>1, <2>1, <2>2, WaitingIs, ConcatAssociative, ConsTail
  <2>4. Waiting' = Waiting
    BY <1>1, <1>2, <1>4, <2>1, <2>3, WaitingIs DEF Waiting
  <2> QED BY <1>1, <1>2, <2>4 DEF Queue!qvars
<1>5. CASE Subscribed /\ Head(signals) \notin Wanted
  <2>1. Head(signals) \in Other /\ holding' = holding
    BY <1>1, <1>5, WaitingIs, HeadTailProperties DEF Take, Signal
  <2>2. Waiting = fired \o signals
    BY <1>1, <1>5, WaitingIs DEF Waiting
  <2>3. Waiting' = fired \o Tail(signals)
    BY <1>1, <1>2, <1>5, <2>1, WaitingIs, ConcatEmptySeq DEF Waiting
  <2>4. /\ Len(fired) + 1 \in DOMAIN Waiting
        /\ Waiting[Len(fired) + 1] \in Other
        /\ Waiting' = RemoveAt(Waiting, Len(fired) + 1)
    BY <1>1, <2>1, <2>2, <2>3, WaitingIs, RemoveMiddle
  <2> QED BY <1>1, <1>2, <2>4 DEF Queue!Discard, Queue!RemoveAt, RemoveAt
<1> QED BY <1>3, <1>4, <1>5

(* The loop reads what has waited longest.                                 *)
LEMMA ReceiveRefines ==
    ASSUME PumpInv, Receive
    PROVE  Queue!Read
<1>1. /\ fired # <<>> /\ got' = <<Head(fired)>> /\ fired' = Tail(fired)
      /\ UNCHANGED <<conn, signals, holding, loop, sent>> /\ Subscribed
      /\ Subscription \in {"open", "lost"}
  BY DEF Receive, PumpInv, PumpTypes, Subscribed, Subscription
<1>2. Subscribed' /\ Subscription' = Subscription
  BY <1>1 DEF Subscribed, Subscription
<1>3. /\ holding \o signals \in Seq(Signal) /\ Tail(fired) \in Seq(Signal)
      /\ Waiting = fired \o (holding \o signals)
      /\ Waiting' = Tail(fired) \o (holding \o signals)
  <2>1. /\ fired \in Seq(Signal) /\ holding \in Seq(Signal) /\ signals \in Seq(Signal)
        /\ fired # <<>>
    BY <1>1, WaitingIs
  <2>2. holding \o signals \in Seq(Signal)
    BY <2>1, ConcatProperties
  <2>3. Tail(fired) \in Seq(Signal)
    BY <2>1, HeadTailProperties
  <2>4. (fired \o holding) \o signals = fired \o (holding \o signals)
    BY <2>1, ConcatAssociative
  <2>5. (Tail(fired) \o holding) \o signals = Tail(fired) \o (holding \o signals)
    BY <2>1, <2>3, ConcatAssociative
  <2>6. Waiting' = (Tail(fired) \o holding) \o signals
    BY <1>1, <1>2 DEF Waiting
  <2>7. Waiting = (fired \o holding) \o signals
    BY <1>1 DEF Waiting
  <2> QED BY <2>2, <2>3, <2>4, <2>5, <2>6, <2>7
<1>4. Waiting # <<>> /\ Head(Waiting) = Head(fired) /\ Tail(Waiting) = Waiting'
  BY <1>1, <1>3, WaitingIs, HeadTailConcat
<1>5. Head(fired) \in Wanted
  BY <1>1, HeadTailProperties DEF PumpInv, PumpTypes
<1> QED BY <1>1, <1>2, <1>4, <1>5 DEF Queue!Read

LEMMA StepRefines ==
    PumpInv /\ PumpInv' /\ [Next]_vars => [Queue!Next]_(Queue!qvars)
<1> SUFFICES ASSUME PumpInv, PumpInv', [Next]_vars
             PROVE  Queue!Next \/ UNCHANGED Queue!qvars
  OBVIOUS
<1>1. CASE Register \/ StartPump \/ SeeEnd \/ Stopped
  BY <1>1 DEF Register, StartPump, SeeEnd, Stopped, PumpInv, Queue!qvars, Waiting,
              Subscription, Subscribed
<1>2. CASE AddMatch
  BY <1>2 DEF AddMatch, Queue!Next, Queue!Subscribe, Waiting, Subscription, Subscribed
<1>3. ASSUME NEW s \in Signal, Emit(s)
      PROVE  Queue!Next
  BY <1>3, EmitRefines DEF Queue!Next, Queue!Signal, Signal
<1>4. CASE Drop
  BY <1>4 DEF Drop, PumpInv, Queue!Next, Queue!Disconnect, Queue!qvars, Waiting,
              Subscription, Subscribed
<1>5. CASE Take
  BY <1>5, TakeRefines DEF Queue!Next
<1>6. CASE HandOver
  <2>1. (fired \o holding) \o <<>> = fired \o holding
    BY WaitingIs, ConcatEmptySeq
  <2> QED BY <1>6, <2>1 DEF HandOver, Queue!qvars, Waiting, Subscription, Subscribed
<1>7. CASE Receive
  BY <1>7, ReceiveRefines DEF Queue!Next
<1>8. CASE ReceiveClosed
  <2>1. Subscription = "lost" /\ Subscription' = "told" /\ Subscribed'
        /\ UNCHANGED <<sent, got, fired, holding, signals>> /\ Subscribed
    BY <1>8 DEF ReceiveClosed, PumpInv, Subscription, Subscribed
  <2>2. fired = <<>> /\ holding = <<>> /\ signals = <<>>
    BY <1>8, <2>1 DEF ReceiveClosed, PumpInv
  <2>3. Waiting = <<>> /\ Waiting' = Waiting
    BY <2>1, <2>2, WaitingIs, EmptySeq, ConcatEmptySeq DEF Waiting
  <2> QED BY <2>1, <2>3 DEF Queue!Next, Queue!LearnOfLoss
<1>9. CASE CloseDone
  BY <1>9 DEF CloseDone, PumpInv, PumpTypes, Queue!Next, Queue!Close, Waiting,
              Subscription, Subscribed
<1>10. CASE RemoveSignal \/ CloseConn \/ Wait
  BY <1>10 DEF RemoveSignal, CloseConn, Wait, Queue!qvars, Waiting, Subscription,
               Subscribed
<1>11. CASE UNCHANGED vars
  BY <1>11 DEF vars, Queue!qvars, Waiting, Subscription, Subscribed
<1> QED BY <1>1, <1>2, <1>3, <1>4, <1>5, <1>6, <1>7, <1>8, <1>9, <1>10, <1>11 DEF Next

(* The safety of what the event loop may count on: order, no loss while    *)
(* there is room, and the news of a lost connection after every signal.    *)
THEOREM SignalsComeInOrder == Spec => Queue!Safety
<1>1. Init => PumpInv /\ Queue!Init
  BY PumpInit, InitRefines
<1> QED BY <1>1, PumpStep, StepRefines, PTL DEF Spec, Queue!Safety
=============================================================================
