--------------------------- MODULE SettingsProofs ---------------------------
(***************************************************************************)
(* No change of the settings file is missed, a set changes what it is      *)
(* asked to and nothing else, and what the user chose in the window is     *)
(* what the file says: for any keys, values, commands and drafts.          *)
(***************************************************************************)
EXTENDS Settings, FiniteSetTheorems, SequenceTheorems, TLAPS

(* The watch is up only in a daemon that is, and while it starts, before   *)
(* its watch, its settings are the file's, unless gap says otherwise.      *)
WatchInDaemon == watch # "off" => Up
StartIsCurrent ==
    daemon = "watch" /\ ~gap /\ writer \notin {"editor", "installing"} =>
        Follows(cfg)

MissInv == WatchInDaemon /\ StartIsCurrent /\ NoChangeMissed

LEMMA MissInit == Init => MissInv
BY DEF Init, MissInv, WatchInDaemon, StartIsCurrent, NoChangeMissed, Up

(* A write that raises an event is on its way, or in the gap.              *)
LEMMA MissEvent ==
    ASSUME MissInv, Event
    PROVE  MissInv'
BY DEF MissInv, WatchInDaemon, StartIsCurrent, NoChangeMissed, Up, Event,
       OnItsWay, Follows

(* Nothing changes that the invariant is about.                            *)
LEMMA MissQuiet ==
    ASSUME MissInv, Quiet, UNCHANGED <<file, writer>>
    PROVE  MissInv'
BY DEF MissInv, WatchInDaemon, StartIsCurrent, NoChangeMissed, Up, Quiet,
       channels, OnItsWay, Follows

(* Opening a file to write it in place raises no event: the writer's close *)
(* will.                                                                   *)
LEMMA MissTruncate ==
    ASSUME MissInv, NEW by \in {"editor", "installing"}, Truncate(by)
    PROVE  MissInv'
<1>1. CASE file = Missing
  BY <1>1, MissEvent DEF Truncate
<1>2. CASE file # Missing
  BY <1>2 DEF Truncate, MissInv, WatchInDaemon, StartIsCurrent, NoChangeMissed,
       Up, Quiet, channels, OnItsWay, Follows
<1> QED BY <1>1, <1>2

LEMMA MissWriters ==
    ASSUME MissInv, Writers
    PROVE  MissInv'
<1>1. ASSUME NEW s \in Setters,
             RunSet(s) \/ SetReads(s) \/ SetFails(s) \/ SetEnds(s)
      PROVE  MissInv'
  BY <1>1, MissQuiet DEF RunSet, SetReads, SetFails, SetEnds
<1>2. ASSUME NEW s \in Setters, SetRenames(s)
      PROVE  MissInv'
  BY <1>2, MissEvent DEF SetRenames, Rename
<1>3. ASSUME NEW f \in Drafts \cup {Missing}, Replace(f)
      PROVE  MissInv'
  BY <1>3, MissEvent DEF Replace, Rename
<1>4. CASE EditorOpens \/ InstallOpens
  BY <1>4, MissTruncate DEF EditorOpens, InstallOpens
<1>5. ASSUME NEW f \in Drafts \cup {<<>>}, EditorCloses(f)
      PROVE  MissInv'
  BY <1>5, MissEvent DEF EditorCloses
<1>6. CASE InstallLooks
  BY <1>6 DEF InstallLooks, MissInv, WatchInDaemon, StartIsCurrent,
       NoChangeMissed, Up, Quiet, channels, OnItsWay, Follows
<1>7. CASE InstallWrites
  BY <1>7, MissEvent DEF InstallWrites
<1> QED BY <1>1, <1>2, <1>3, <1>4, <1>5, <1>6, <1>7 DEF Writers

LEMMA MissWindow ==
    ASSUME MissInv, WindowStep
    PROVE  MissInv'
<1> SUFFICES ASSUME NEW w, Window(w)
             PROVE  MissInv'
  BY DEF WindowStep, OpenWindow, WindowLoads, TryAgain, Change, Flush,
         StartSave, SaveSucceeds, SaveFailed, CloseWindow
<1> QED BY MissQuiet DEF Window

(* What is on its way goes from one channel to the next, and the watch is  *)
(* over when it may not.                                                   *)
LEMMA MissChannels ==
    ASSUME MissInv,
           Reads \/ ReadFails \/ Hears \/ Settles \/ RunReturns
             \/ RelayHears \/ RelaySends \/ WatchIsOver \/ Hangup
    PROVE  MissInv'
<1> USE DEF MissInv, WatchInDaemon, StartIsCurrent, NoChangeMissed, Up,
            OnItsWay, Follows, NotDaemon, Unwritten, writers
<1>1. CASE Reads BY <1>1 DEF Reads
<1>2. CASE ReadFails BY <1>2 DEF ReadFails
<1>3. CASE Hears BY <1>3 DEF Hears
<1>4. CASE Settles BY <1>4 DEF Settles
<1>5. CASE RunReturns BY <1>5 DEF RunReturns
<1>6. CASE RelayHears BY <1>6 DEF RelayHears
<1>7. CASE RelaySends BY <1>7 DEF RelaySends
<1>8. CASE WatchIsOver BY <1>8 DEF WatchIsOver
<1>9. CASE Hangup BY <1>9 DEF Hangup
<1> QED BY <1>1, <1>2, <1>3, <1>4, <1>5, <1>6, <1>7, <1>8, <1>9

LEMMA MissDaemon ==
    ASSUME MissInv,
           Starts \/ StartsWatch \/ Dies \/ TakesReload \/ ReadsFile \/ Applies
    PROVE  MissInv'
<1> USE DEF MissInv, WatchInDaemon, StartIsCurrent, NoChangeMissed, Up,
            OnItsWay, Follows, Unwritten, writers, channels
<1>1. CASE Starts BY <1>1 DEF Starts
<1>2. CASE StartsWatch BY <1>2 DEF StartsWatch
<1>3. CASE Dies BY <1>3 DEF Dies, NoChannels
<1>4. CASE TakesReload BY <1>4 DEF TakesReload
<1>5. CASE ReadsFile BY <1>5 DEF ReadsFile
<1>6. CASE Applies BY <1>6 DEF Applies
<1> QED BY <1>1, <1>2, <1>3, <1>4, <1>5, <1>6

LEMMA MissStep == MissInv /\ [Next]_vars => MissInv'
<1> SUFFICES ASSUME MissInv, [Next]_vars
             PROVE  MissInv'
  OBVIOUS
<1>1. CASE Next
  BY <1>1, MissWriters, MissWindow, MissChannels, MissDaemon DEF Next, Pipeline
<1>2. CASE UNCHANGED vars
  BY <1>2, MissQuiet DEF vars, Quiet, writers, channels
<1> QED BY <1>1, <1>2

(* Whatever the daemon's settings lack of a file that parses is on its way *)
(* to it, however writers, the window, the watch, its channels, SIGHUPs    *)
(* and restarts interleave.                                                *)
THEOREM ChangesAreNotMissed == Spec => []NoChangeMissed
<1>1. MissInv => NoChangeMissed
  BY DEF MissInv
<1> QED BY <1>1, MissInit, MissStep, PTL DEF Spec

-----------------------------------------------------------------------------
(* The parser and the editor.                                              *)

LEMMA LastExists ==
    ASSUME NEW lines \in Seq(Line), NEW k,
           \E i \in DOMAIN lines : lines[i].key = k
    PROVE  IsLast(lines, k, LastOf(lines, k))
<1> DEFINE n == Len(lines)
           U == {m \in Nat : n - m \in DOMAIN lines /\ lines[n - m].key = k}
<1>1. n \in Nat /\ DOMAIN lines = 1..n
  OBVIOUS
<1>2. \A i \in DOMAIN lines : lines[i].key = k => n - i \in U
  <2> SUFFICES ASSUME NEW i \in DOMAIN lines, lines[i].key = k
               PROVE  n - i \in U
    OBVIOUS
  <2>1. i \in Nat /\ i <= n
    BY <1>1
  <2>2. n - i \in Nat /\ n - (n - i) = i
    BY <1>1, <2>1
  <2> QED BY <2>2
<1>3. PICK u \in U : \A y \in U : <<y, u>> \notin OpToRel(<, Nat)
  <2>1. U \subseteq Nat /\ U # {}
    BY <1>2
  <2> HIDE DEF U
  <2> QED BY <2>1, WFMin, NatLessThanWellFounded
<1>4. IsLast(lines, k, n - u)
  <2>1. SUFFICES ASSUME NEW j \in DOMAIN lines, lines[j].key = k
                 PROVE  j <= n - u
    BY DEF IsLast
  <2>2. n - j \in U /\ n - j \in Nat /\ u \in Nat
    BY <1>2, <2>1
  <2>3. ~(n - j < u)
    BY <1>3, <2>2 DEF OpToRel
  <2> QED BY <1>1, <2>2, <2>3
<1> QED BY <1>4 DEF LastOf, IsLast

LEMMA LastIs ==
    ASSUME NEW lines \in Seq(Line), NEW k, NEW i, IsLast(lines, k, i)
    PROVE  LastOf(lines, k) = i
<1>1. \E j \in DOMAIN lines : lines[j].key = k
  BY DEF IsLast
<1>2. IsLast(lines, k, LastOf(lines, k))
  BY <1>1, LastExists
<1>3. DOMAIN lines = 1..Len(lines)
  OBVIOUS
<1> QED BY <1>2, <1>3 DEF IsLast

LEMMA SetToSeqIs ==
    ASSUME NEW S, IsFiniteSet(S)
    PROVE  /\ SetToSeq(S) \in [1..Cardinality(S) -> S]
           /\ \A x \in S : \E i \in 1..Cardinality(S) : SetToSeq(S)[i] = x
<1> DEFINE n == Cardinality(S)
<1>1. n \in Nat /\ ExistsBijection(1..n, S)
  BY FS_CardinalityType
<1>2. \E f \in [1..n -> S] : IsInjective(f)
  BY <1>1 DEF ExistsBijection, Bijection, Injection
<1>3. SetToSeq(S) \in [1..n -> S] /\ IsInjective(SetToSeq(S))
  BY <1>2 DEF SetToSeq
<1>4. Cardinality(1..n) = n
  BY <1>1, FS_Interval
<1>5. SetToSeq(S) \in Surjection(1..n, S)
  BY <1>3, <1>4, FS_Injection DEF Injection
<1> QED BY <1>3, <1>5 DEF Surjection

LEMMA AppendedIs ==
    ASSUME NEW lines \in Seq(Line), NEW upd \in Updates
    PROVE  LET A == Appended(lines, upd)
               M == DOMAIN upd \ Assigned(lines)
           IN  /\ A \in Seq(Line)
               /\ \A i \in DOMAIN A : A[i].key \in M /\ A[i].val = upd[A[i].key]
               /\ \A k \in M : \E i \in DOMAIN A : A[i].key = k
<1> DEFINE A == Appended(lines, upd)
           M == DOMAIN upd \ Assigned(lines)
           s == SetToSeq(M)
           n == Cardinality(M)
<1>1. DOMAIN upd \subseteq Keys /\ \A k \in DOMAIN upd : upd[k] \in Values \cup {Bad}
  BY DEF Updates
<1>2. IsFiniteSet(M)
  <2>1. M \in SUBSET Keys
    BY <1>1
  <2> QED BY <2>1, FS_Subset, KeysAssumption
<1>3. n \in Nat
  BY <1>2, FS_CardinalityType
<1>4. s \in [1..n -> M] /\ \A k \in M : \E i \in 1..n : s[i] = k
  BY <1>2, SetToSeqIs
<1>5. A = [i \in 1..n |-> Assignment(s[i], upd[s[i]])]
  BY <1>4 DEF Appended
<1>a. M \subseteq DOMAIN upd
  OBVIOUS
<1> HIDE DEF A, M, s, n
<1>6. \A i \in 1..n : A[i] = Assignment(s[i], upd[s[i]]) /\ A[i] \in Line
  <2> TAKE i \in 1..n
  <2>1. s[i] \in Keys /\ upd[s[i]] \in Values \cup {Bad}
    BY <1>1, <1>4, <1>a
  <2> QED BY <1>5, <2>1 DEF Assignment, Line
<1>7. A \in [1..n -> Line]
  BY <1>5, <1>6
<1>8. A \in Seq(Line) /\ DOMAIN A = 1..n
  BY <1>3, <1>7
<1>9. \A i \in DOMAIN A : A[i].key \in M /\ A[i].val = upd[A[i].key]
  BY <1>4, <1>6, <1>8 DEF Assignment
<1>10. \A k \in M : \E i \in DOMAIN A : A[i].key = k
  BY <1>4, <1>6, <1>8 DEF Assignment
<1> QED BY <1>8, <1>9, <1>10 DEF A, M

LEMMA ReplacedIs ==
    ASSUME NEW lines \in Seq(Line), NEW upd \in Updates
    PROVE  LET R == Replaced(lines, upd)
           IN  /\ R \in Seq(Line) /\ DOMAIN R = DOMAIN lines
               /\ \A i \in DOMAIN lines : R[i].key = lines[i].key
               /\ \A i \in DOMAIN lines : lines[i].key \notin DOMAIN upd => R[i] = lines[i]
               /\ \A k \in DOMAIN upd, i \in DOMAIN lines :
                     IsLast(lines, k, i) => R[i].val = upd[k]
<1> DEFINE R == Replaced(lines, upd)
           New(i) == IF lines[i].key \in DOMAIN upd /\ IsLast(lines, lines[i].key, i)
                     THEN Assignment(lines[i].key, upd[lines[i].key])
                     ELSE lines[i]
<1>1. DOMAIN upd \subseteq Keys /\ \A k \in DOMAIN upd : upd[k] \in Values \cup {Bad}
  BY DEF Updates
<1>2. DOMAIN lines = 1..Len(lines) /\ Len(lines) \in Nat
      /\ \A i \in DOMAIN lines : lines[i] \in Line
  OBVIOUS
<1>3. R = [i \in DOMAIN lines |-> New(i)]
  BY DEF Replaced
<1>4. \A i \in DOMAIN lines : New(i) \in Line
  BY <1>1, <1>2 DEF Line, Assignment
<1> HIDE DEF R
<1>5. R \in Seq(Line) /\ DOMAIN R = DOMAIN lines
  <2>1. R \in [1..Len(lines) -> Line]
    BY <1>2, <1>3, <1>4
  <2> QED BY <1>2, <2>1
<1>6. \A i \in DOMAIN lines : R[i].key = lines[i].key
  BY <1>3 DEF Assignment
<1>7. \A i \in DOMAIN lines : lines[i].key \notin DOMAIN upd => R[i] = lines[i]
  BY <1>3
<1>8. \A k \in DOMAIN upd, i \in DOMAIN lines : IsLast(lines, k, i) => R[i].val = upd[k]
  BY <1>3 DEF Assignment, IsLast
<1> QED BY <1>5, <1>6, <1>7, <1>8 DEF R

LEMMA ParseApply ==
    ASSUME NEW lines \in Seq(Line), NEW upd \in Updates
    PROVE  /\ Apply(lines, upd) \in Seq(Line)
           /\ Parse(Apply(lines, upd)) = Override(Parse(lines), upd)
<1> DEFINE R == Replaced(lines, upd)
           A == Appended(lines, upd)
           E == Apply(lines, upd)
           n == Len(lines)
<1>1. n \in Nat /\ DOMAIN lines = 1..n
  OBVIOUS
<1>2. /\ R \in Seq(Line) /\ DOMAIN R = DOMAIN lines
      /\ \A i \in DOMAIN lines : R[i].key = lines[i].key
      /\ \A i \in DOMAIN lines : lines[i].key \notin DOMAIN upd => R[i] = lines[i]
      /\ \A k \in DOMAIN upd, i \in DOMAIN lines :
            IsLast(lines, k, i) => R[i].val = upd[k]
  BY ReplacedIs
<1>3. /\ A \in Seq(Line)
      /\ \A i \in DOMAIN A : /\ A[i].key \in DOMAIN upd \ Assigned(lines)
                             /\ A[i].val = upd[A[i].key]
      /\ \A k \in DOMAIN upd \ Assigned(lines) : \E i \in DOMAIN A : A[i].key = k
  BY AppendedIs
<1>4. E = R \o A
  BY DEF Apply
<1> HIDE DEF R, A, E
<1>5. Len(R) = n
  BY <1>1, <1>2
<1>6. /\ E \in Seq(Line)
      /\ DOMAIN E = 1..(n + Len(A)) /\ Len(A) \in Nat /\ DOMAIN A = 1..Len(A)
      /\ \A i \in 1..n : E[i] = R[i]
      /\ \A i \in 1..Len(A) : E[n + i] = A[i]
      /\ \A i \in 1..(n + Len(A)) : i \notin 1..n => i - n \in 1..Len(A) /\ E[i] = A[i - n]
  <2>1. /\ E \in Seq(Line) /\ Len(E) = n + Len(A)
        /\ \A i \in 1..(n + Len(A)) : E[i] = IF i <= n THEN R[i] ELSE A[i - n]
    BY <1>2, <1>3, <1>4, <1>5, ConcatProperties
  <2>2. Len(A) \in Nat /\ DOMAIN A = 1..Len(A) /\ DOMAIN E = 1..(n + Len(A))
    BY <1>3, <2>1
  <2>3. \A i \in 1..n : E[i] = R[i]
    BY <1>1, <2>1, <2>2
  <2>4. \A i \in 1..Len(A) : E[n + i] = A[i]
    <3> TAKE i \in 1..Len(A)
    <3>1. n + i \in 1..(n + Len(A)) /\ ~(n + i <= n) /\ (n + i) - n = i
      BY <1>1, <2>2
    <3> QED BY <2>1, <3>1
  <2>5. \A i \in 1..(n + Len(A)) : i \notin 1..n => i - n \in 1..Len(A) /\ E[i] = A[i - n]
    BY <1>1, <2>1, <2>2
  <2> QED BY <2>1, <2>2, <2>3, <2>4, <2>5
<1>7. ASSUME NEW k \in Keys
      PROVE  Parse(E)[k] = Override(Parse(lines), upd)[k]
  <2>1. CASE k \in Assigned(lines)
    <3> DEFINE i == LastOf(lines, k)
    <3>1. IsLast(lines, k, i)
      BY <2>1, LastExists DEF Assigned
    <3> HIDE DEF i
    <3>2. i \in 1..n /\ lines[i].key = k
      BY <1>1, <3>1 DEF IsLast
    <3>3. i \in DOMAIN E /\ E[i] = R[i] /\ E[i].key = k
      BY <1>1, <1>2, <1>6, <3>2
    <3>4. ASSUME NEW j \in DOMAIN E, E[j].key = k
          PROVE  j <= i
      <4>1. j \in 1..n
        <5> SUFFICES ASSUME j \notin 1..n
                     PROVE  FALSE
          OBVIOUS
        <5>1. j - n \in DOMAIN A /\ E[j] = A[j - n]
          BY <1>6, <3>4
        <5> QED BY <1>3, <2>1, <3>4, <5>1
      <4>2. lines[j].key = k
        BY <1>1, <1>2, <1>6, <3>4, <4>1
      <4> QED BY <1>1, <3>1, <4>1, <4>2 DEF IsLast
    <3>5. IsLast(E, k, i)
      BY <3>3, <3>4 DEF IsLast
    <3>6. LastOf(E, k) = i
      BY <1>6, <3>5, LastIs
    <3>7. Parse(E)[k] = R[i].val
      BY <3>3, <3>6 DEF Parse, Assigned
    <3>8. CASE k \in DOMAIN upd
      BY <1>1, <1>2, <3>1, <3>2, <3>7, <3>8 DEF Override
    <3>9. CASE k \notin DOMAIN upd
      <4>1. R[i] = lines[i]
        BY <1>1, <1>2, <3>2, <3>9
      <4> QED BY <2>1, <3>7, <3>9, <4>1 DEF Override, Parse, i
    <3> QED BY <3>8, <3>9
  <2>2. CASE k \notin Assigned(lines)
    <3>1. \A j \in 1..n : E[j].key # k
      BY <1>1, <1>2, <1>6, <2>2 DEF Assigned
    <3>2. CASE k \in DOMAIN upd
      <4>1. PICK a \in 1..Len(A) : A[a].key = k
        BY <1>3, <1>6, <2>2, <3>2
      <4>2. n + a \in DOMAIN E /\ E[n + a].key = k
        BY <1>1, <1>6, <4>1
      <4> DEFINE i == LastOf(E, k)
      <4>3. IsLast(E, k, i)
        BY <1>6, <4>2, LastExists
      <4> HIDE DEF i
      <4>4. i \in DOMAIN E /\ E[i].key = k
        BY <4>3 DEF IsLast
      <4>5. i - n \in DOMAIN A /\ E[i] = A[i - n]
        BY <1>6, <3>1, <4>4
      <4>6. E[i].val = upd[k]
        BY <1>3, <4>4, <4>5
      <4> QED BY <3>2, <4>4, <4>6 DEF Override, Parse, Assigned, i
    <3>3. CASE k \notin DOMAIN upd
      <4>1. k \notin Assigned(E)
        <5> SUFFICES ASSUME NEW j \in DOMAIN E, E[j].key = k
                     PROVE  FALSE
          BY DEF Assigned
        <5>1. j \notin 1..n
          BY <3>1
        <5>2. j - n \in DOMAIN A /\ E[j] = A[j - n]
          BY <1>6, <5>1
        <5> QED BY <1>3, <3>3, <5>2
      <4> QED BY <2>2, <3>3, <4>1 DEF Override, Parse
    <3> QED BY <3>2, <3>3
  <2> QED BY <2>1, <2>2
<1>8. Parse(E) = Override(Parse(lines), upd)
  BY <1>7 DEF Parse, Override
<1> QED BY <1>6, <1>8 DEF E

-----------------------------------------------------------------------------
(* What a `config set' has read and is about to rename.                    *)

Editing(s) ==
    /\ set[s].at \in {"asked", "editing"} => set[s].upd \in Updates
    /\ set[s].at = "editing" => Accepts(set[s].base, set[s].upd)

EditInv == EditTypes /\ \A s \in Setters : Editing(s)

LEMMA FilesAreLines ==
    /\ DefaultFile \in Seq(Line)
    /\ \A f \in Seq(Line) \cup {Missing} : Load(f).cfg \in [Keys -> Values]
    /\ \A f \in Seq(Line) \cup {Missing}, upd \in Updates : Edited(f, upd) \in Seq(Line)
<1>1. DefaultFile \in Seq(Line)
  <2>1. Defaults \in Updates
    <3>1. Defaults \in [Keys -> Values \cup {Bad}]
      BY DefaultsAssumption
    <3>2. Keys \in (SUBSET Keys) \ {{}}
      BY KeysAssumption
    <3> QED BY <3>1, <3>2 DEF Updates
  <2>2. <<>> \in Seq(Line)
    OBVIOUS
  <2> QED BY <2>1, <2>2, AppendedIs DEF DefaultFile
<1>2. ASSUME NEW f \in Seq(Line), Parses(f)
      PROVE  Parse(f) \in [Keys -> Values]
  <2>1. ASSUME NEW k \in Keys, k \in Assigned(f)
        PROVE  f[LastOf(f, k)].val \in Values
    <3>1. IsLast(f, k, LastOf(f, k))
      BY <2>1, LastExists DEF Assigned
    <3>2. LastOf(f, k) \in DOMAIN f /\ f[LastOf(f, k)].key = k
      BY <3>1 DEF IsLast
    <3>3. f[LastOf(f, k)] \in Line
      BY <3>2
    <3> QED BY <1>2, <3>2, <3>3 DEF Parses, Line
  <2> QED BY <2>1, DefaultsAssumption DEF Parse
<1>3. \A f \in Seq(Line) \cup {Missing} : Load(f).cfg \in [Keys -> Values]
  BY <1>2, DefaultsAssumption DEF Load
<1>4. \A f \in Seq(Line) \cup {Missing}, upd \in Updates : Edited(f, upd) \in Seq(Line)
  BY <1>1, ParseApply DEF Edited
<1> QED BY <1>1, <1>3, <1>4


LEMMA EditInit == Init => EditInv
BY FilesAreLines, DefaultsAssumption
   DEF Init, EditInv, EditTypes, SetState, WindowState, Editing, NoSet, Closed

LEMMA EditKept ==
    ASSUME EditInv, UNCHANGED <<set, window>>,
           file' \in Seq(Line) \cup {Missing},
           writer' \in {"none", "editor", "install", "installing"}
    PROVE  EditInv'
BY DEF EditInv, EditTypes, Editing

LEMMA EditAsks ==
    ASSUME EditInv, NEW s \in Setters, NEW upd \in Updates, Ask(s, upd),
           window' \in WindowState, UNCHANGED <<file, writer>>
    PROVE  EditInv'
<1>1. set' = [set EXCEPT ![s] = [set[s] EXCEPT !.at = "asked", !.upd = upd]]
  BY DEF Ask, EditInv, EditTypes
<1>2. [set[s] EXCEPT !.at = "asked", !.upd = upd] \in SetState
  BY DEF EditInv, EditTypes, SetState
<1>3. \A t \in Setters : Editing(t)'
  BY <1>1, <1>2 DEF EditInv, EditTypes, Editing, SetState
<1> QED BY <1>1, <1>2, <1>3 DEF EditInv, EditTypes

LEMMA EditEnds ==
    ASSUME EditInv, NEW s \in Setters, NEW at \in {"idle", "ok", "failed"}, End(s, at),
           window' \in WindowState,
           file' \in Seq(Line) \cup {Missing},
           writer' \in {"none", "editor", "install", "installing"}
    PROVE  EditInv'
<1>1. [NoSet EXCEPT !.at = at] \in SetState
  BY DEF NoSet, SetState
<1>2. set' = [set EXCEPT ![s] = [NoSet EXCEPT !.at = at]]
  BY DEF End
<1>3. \A t \in Setters : Editing(t)'
  BY <1>2 DEF EditInv, EditTypes, Editing, NoSet
<1> QED BY <1>1, <1>2, <1>3 DEF EditInv, EditTypes

LEMMA EditWriters ==
    ASSUME EditInv, Writers
    PROVE  EditInv'
<1>0. /\ file \in Seq(Line) \cup {Missing}
      /\ writer \in {"none", "editor", "install", "installing"}
      /\ window \in WindowState
  BY DEF EditInv, EditTypes
<1>1. ASSUME NEW s \in Setters, RunSet(s)
      PROVE  EditInv'
  BY <1>0, <1>1, RequestsAssumption, EditAsks DEF RunSet
<1>2. ASSUME NEW s \in Setters, SetReads(s)
      PROVE  EditInv'
  <2>1. [set[s] EXCEPT !.at = "editing", !.base = file] \in SetState
    BY DEF EditInv, EditTypes, SetState
  <2>2. set' = [set EXCEPT ![s] = [set[s] EXCEPT !.at = "editing", !.base = file]]
    BY <1>2 DEF SetReads, EditInv, EditTypes
  <2>3. \A t \in Setters : Editing(t)'
    BY <1>2, <2>1, <2>2 DEF SetReads, EditInv, EditTypes, Editing, SetState
  <2> QED BY <1>2, <2>1, <2>2, <2>3 DEF SetReads, EditInv, EditTypes
<1>3. ASSUME NEW s \in Setters, SetRenames(s)
      PROVE  EditInv'
  <2>1. set[s] \in SetState
    BY DEF EditInv, EditTypes
  <2>2. set[s].base \in Seq(Line) \cup {Missing} /\ set[s].upd \in Updates
    BY <1>3, <2>1 DEF SetRenames, EditInv, Editing, SetState
  <2>3. file' \in Seq(Line) /\ writer' \in {"none", "install"}
    BY <1>3, <2>2, FilesAreLines DEF SetRenames, Rename
  <2> QED BY <1>0, <1>3, <2>3, EditEnds DEF SetRenames
<1>4. ASSUME NEW s \in Setters, SetFails(s) \/ SetEnds(s)
      PROVE  EditInv'
  BY <1>0, <1>4, EditEnds DEF SetFails, SetEnds
<1>5. ASSUME NEW f \in Drafts \cup {Missing}, Replace(f)
      PROVE  EditInv'
  BY <1>5, EditKept, DraftsAssumption DEF Replace, Rename
<1>6. CASE EditorOpens \/ InstallOpens
  <2>1. <<>> \in Seq(Line)
    OBVIOUS
  <2> QED BY <1>6, <2>1, EditKept DEF EditorOpens, InstallOpens, Truncate
<1>7. ASSUME NEW f \in Drafts \cup {<<>>}, EditorCloses(f)
      PROVE  EditInv'
  <2>1. f \in Seq(Line)
    <3>1. <<>> \in Seq(Line)
      OBVIOUS
    <3> QED BY <3>1, DraftsAssumption
  <2> QED BY <1>7, <2>1, EditKept DEF EditorCloses
<1>8. CASE InstallLooks \/ InstallWrites
  BY <1>0, <1>8, EditKept, FilesAreLines DEF InstallLooks, InstallWrites
<1> QED BY <1>1, <1>2, <1>3, <1>4, <1>5, <1>6, <1>7, <1>8 DEF Writers

LEMMA EditWindow ==
    ASSUME EditInv, WindowStep
    PROVE  EditInv'
<1>0. /\ window \in WindowState /\ window.pending \in Updates \cup {None}
      /\ file \in Seq(Line) \cup {Missing}
      /\ writer \in {"none", "editor", "install", "installing"}
  BY DEF EditInv, EditTypes, WindowState
<1>a. Closed \in WindowState
  BY DefaultsAssumption DEF Closed, WindowState
<1>b. {"save", "last"} \subseteq Setters
  BY DEF Setters
<1>c. ASSUME UNCHANGED <<set, file, writer>>, window' \in WindowState
      PROVE  EditInv'
  BY <1>c DEF EditInv, EditTypes, Editing
<1>1. CASE OpenWindow \/ WindowLoads \/ TryAgain
  BY <1>0, <1>1, <1>a, <1>c, FilesAreLines
     DEF OpenWindow, WindowLoads, TryAgain, Window, WindowState
<1>2. ASSUME NEW k \in Keys, NEW v \in Values, Change(k, v)
      PROVE  EditInv'
  <2> DEFINE p == window.pending
             q == [j \in DOMAIN p \cup {k} |-> IF j = k THEN v ELSE p[j]]
  <2>1. DOMAIN p \subseteq Keys /\ \A j \in DOMAIN p : p[j] \in Values \cup {Bad}
    BY <1>0 DEF Updates, None
  <2>2. q \in Updates
    <3> DEFINE K == DOMAIN p \cup {k}
    <3>1. q \in [K -> Values \cup {Bad}]
      <4>1. \A j \in K : (IF j = k THEN v ELSE p[j]) \in Values \cup {Bad}
        BY <2>1
      <4> QED BY <4>1
    <3>2. K \in (SUBSET Keys) \ {{}}
      BY <2>1
    <3> HIDE DEF K, q
    <3> QED BY <3>1, <3>2 DEF Updates
  <2> HIDE DEF q
  <2>3. window' = [window EXCEPT !.want[k] = v, !.timer = TRUE, !.pending = q]
    BY <1>2 DEF Change, Window, q
  <2>4. window' \in WindowState
    BY <1>0, <2>2, <2>3 DEF WindowState
  <2> QED BY <1>2, <1>c, <2>4 DEF Change, Window
<1>3. ASSUME NEW w \in WindowState, StartSave(w), window.pending # None
      PROVE  EditInv'
  <2>1. [w EXCEPT !.pending = None, !.saving = TRUE] \in WindowState
    BY DEF WindowState
  <2> QED BY <1>0, <1>3, <1>b, <2>1, EditAsks DEF StartSave, Window
<1>4. CASE Flush
  <2>1. [window EXCEPT !.timer = FALSE] \in WindowState
    BY <1>0 DEF WindowState
  <2> QED BY <1>3, <1>4, <1>c, <2>1 DEF Flush, Window
<1>5. CASE SaveSucceeds
  <2>1. [window EXCEPT !.saving = FALSE] \in WindowState
    BY <1>0 DEF WindowState
  <2> QED BY <1>0, <1>3, <1>5, <1>b, <2>1, EditEnds DEF SaveSucceeds, Window
<1>6. CASE SaveFailed
  <2>1. [window EXCEPT !.saving = FALSE, !.pending = None, !.at = "loading"]
          \in WindowState
    BY <1>0 DEF WindowState
  <2> QED BY <1>0, <1>6, <1>b, <2>1, EditEnds DEF SaveFailed, Window
<1>7. CASE CloseWindow
  <2>1. [Closed EXCEPT !.want = window.want] \in WindowState
    BY <1>0, <1>a DEF WindowState
  <2> QED BY <1>0, <1>7, <1>b, <1>c, <2>1, EditAsks DEF CloseWindow, Window
<1> QED BY <1>1, <1>2, <1>4, <1>5, <1>6, <1>7 DEF WindowStep

LEMMA EditStep == EditInv /\ [Next]_vars => EditInv'
<1> SUFFICES ASSUME EditInv, [Next]_vars
             PROVE  EditInv'
  OBVIOUS
<1>1. CASE Pipeline \/ UNCHANGED vars
  <2>1. UNCHANGED <<file, writer, set, window>>
    BY <1>1 DEF Pipeline, Reads, ReadFails, Hears, Settles, RunReturns, RelayHears,
           RelaySends, WatchIsOver, Starts, StartsWatch, Dies, Hangup, TakesReload,
           ReadsFile, Applies, NotDaemon, Unwritten, writers, vars
  <2> QED BY <2>1, EditKept DEF EditInv, EditTypes
<1> QED BY <1>1, EditWriters, EditWindow DEF Next

(* A `config set' that read the file as it still is changes the settings   *)
(* it is asked to change and no other, and leaves a file that parses, for  *)
(* any file and any update.                                                *)
THEOREM SetsChangeOnlyWhatIsAsked == Spec => SetKeepsRest
<1>1. EditInv /\ [Next]_vars =>
        [\A s \in Setters :
            SetRenames(s) /\ set[s].base = file =>
              Load(file') = [ok |-> TRUE,
                             cfg |-> Override(Parse(IF file = Missing
                                                    THEN DefaultFile ELSE file),
                                              set[s].upd)]]_vars
  <2> SUFFICES ASSUME EditInv, NEW s \in Setters, SetRenames(s), set[s].base = file
               PROVE  Load(file') =
                        [ok |-> TRUE,
                         cfg |-> Override(Parse(IF file = Missing
                                                THEN DefaultFile ELSE file),
                                          set[s].upd)]
    OBVIOUS
  <2> DEFINE lines == IF file = Missing THEN DefaultFile ELSE file
  <2>1. /\ set[s].upd \in Updates
        /\ file' = Apply(lines, set[s].upd)
        /\ Parses(Apply(lines, set[s].upd))
    BY DEF EditInv, Editing, SetRenames, Rename, Edited, Accepts
  <2>2. lines \in Seq(Line)
    BY FilesAreLines DEF EditInv, EditTypes
  <2> HIDE DEF lines
  <2>3. file' \in Seq(Line) /\ Parse(file') = Override(Parse(lines), set[s].upd)
    BY <2>1, <2>2, ParseApply
  <2>4. file' # Missing
    BY <2>3, MissingAssumption
  <2> QED BY <2>1, <2>3, <2>4 DEF Load, lines
<1> QED BY <1>1, EditInit, EditStep, PTL DEF Spec, SetKeepsRest

-----------------------------------------------------------------------------
(* What the user chose in the window is on its way into the file.          *)

Savers == {"save", "last"}
InFlight(s) == set[s].at \in {"asked", "editing"}
Owed(s) == IF InFlight(s) THEN set[s].upd ELSE None

(* One save at a time, and whose it is.                                    *)
OneSave ==
    /\ window.at = "closed" => ~window.saving
    /\ window.at # "closed" => (window.saving <=> set["save"].at # "idle")
    /\ set["last"].at # "idle" => window.at = "closed" /\ set["save"].at = "idle"
    /\ window.pending # None => window.at = "open"
    /\ window.at \in {"loading", "error"} => ~window.saving

(* The file's settings, once the saves in flight and the changes still     *)
(* queued are in it.                                                       *)
WillBe ==
    Override(Override(Override(Load(file).cfg, Owed("save")), Owed("last")),
             window.pending)

Intact == ~excused /\ \A s \in Savers : set[s].at # "failed"

(* Unless somebody else wrote or a save failed, that is what the user      *)
(* chose, and a save in flight is of the file as it is.                    *)
Landing ==
    Intact /\ window.at \in {"open", "closed"} =>
        /\ Load(file).ok
        /\ \A s \in Savers : set[s].at = "editing" => set[s].base = file
        /\ window.want = WillBe

LandInv == EditInv /\ excused \in BOOLEAN /\ OneSave /\ Landing

LEMMA OverNone ==
    ASSUME NEW c \in [Keys -> Values]
    PROVE  Override(c, None) = c
BY DEF Override, None

LEMMA OverIs ==
    ASSUME NEW c \in [Keys -> Values], NEW upd \in Updates \cup {None}
    PROVE  Override(c, upd) \in [Keys -> Values \cup {Bad}]
<1>1. DOMAIN upd \subseteq Keys /\ \A k \in DOMAIN upd : upd[k] \in Values \cup {Bad}
  BY DEF Updates, None
<1> QED
  BY <1>1 DEF Override

(* The default file assigns every key its default.                         *)
LEMMA DefaultFileIs == Parse(DefaultFile) = Defaults
<1>1. Defaults \in Updates
  <2>1. Defaults \in [Keys -> Values \cup {Bad}]
    BY DefaultsAssumption
  <2>2. Keys \in (SUBSET Keys) \ {{}}
    BY KeysAssumption
  <2> QED
    BY <2>1, <2>2 DEF Updates
<1>2. <<>> \in Seq(Line) /\ DOMAIN <<>> = {}
  OBVIOUS
<1>3. Parse(<<>>) = Defaults
  <2>1. Assigned(<<>>) = {}
    BY <1>2 DEF Assigned
  <2> QED
    BY <2>1, DefaultsAssumption DEF Parse
<1>4. Apply(<<>>, Defaults) = DefaultFile
  <2>1. Replaced(<<>>, Defaults) = <<>>
    BY DEF Replaced
  <2>2. DefaultFile \in Seq(Line)
    BY FilesAreLines
  <2> QED
    BY <2>1, <2>2 DEF Apply, DefaultFile
<1>5. Override(Defaults, Defaults) = Defaults
  BY DefaultsAssumption DEF Override
<1>6. Parse(Apply(<<>>, Defaults)) = Override(Parse(<<>>), Defaults)
  BY <1>1, <1>2, ParseApply
<1> QED
  BY <1>3, <1>4, <1>5, <1>6

(* An edit of a file that parses.                                          *)
LEMMA EditedLoads ==
    ASSUME NEW f \in Seq(Line) \cup {Missing}, NEW upd \in Updates,
           Accepts(f, upd), Load(f).ok
    PROVE  /\ Load(Edited(f, upd)).ok
           /\ Load(Edited(f, upd)).cfg = Override(Load(f).cfg, upd)
<1> DEFINE lines == IF f = Missing THEN DefaultFile ELSE f
           e == Apply(lines, upd)
<1>1. lines \in Seq(Line)
  BY FilesAreLines
<1>2. Parse(lines) = Load(f).cfg
  BY DefaultFileIs DEF Load
<1>3. e = Edited(f, upd) /\ Parses(e)
  BY DEF Accepts, Edited
<1> HIDE DEF lines
<1>4. e \in Seq(Line) /\ Parse(e) = Override(Parse(lines), upd)
  BY <1>1, ParseApply
<1> HIDE DEF e
<1>5. e # Missing
  BY <1>4, MissingAssumption
<1> QED
  BY <1>2, <1>3, <1>4, <1>5 DEF Load

LEMMA LandInit == Init => LandInv
<1>1. "save" \in Setters /\ "last" \in Setters
  BY DEF Setters
<1> QED
  BY <1>1, EditInit DEF Init, LandInv, OneSave, Landing, Intact, Savers, NoSet, Closed

(* A step that leaves the window and its saves alone, and the file too     *)
(* unless somebody else wrote it.                                          *)
LEMMA LandKept ==
    ASSUME LandInv, EditInv', UNCHANGED window, excused' \in BOOLEAN,
           \A s \in Savers : set'[s] = set[s],
           ~excused' => ~excused /\ UNCHANGED file
    PROVE  LandInv'
<1>1. "save" \in Savers /\ "last" \in Savers
  BY DEF Savers
<1>2. OneSave'
  BY <1>1 DEF LandInv, OneSave
<1>3. Landing'
  <2>1. CASE excused'
    BY <2>1 DEF Landing, Intact
  <2>2. CASE ~excused'
    BY <1>1, <2>2 DEF LandInv, Landing, Intact, WillBe, Owed, InFlight
  <2> QED
    BY <2>1, <2>2
<1> QED
  BY <1>2, <1>3 DEF LandInv

(* A save reads the file, ends, or fails.                                  *)
LEMMA LandReads ==
    ASSUME LandInv, EditInv', NEW s \in Savers, SetReads(s)
    PROVE  LandInv'
<1>1. "save" \in Savers /\ "last" \in Savers /\ Savers \subseteq Setters
  BY DEF Savers, Setters
<1>2. /\ set[s].at = "asked" /\ UNCHANGED <<file, window, excused>>
      /\ set'[s].at = "editing" /\ set'[s].base = file /\ set'[s].upd = set[s].upd
      /\ \A t \in Savers \ {s} : set'[t] = set[t]
  BY <1>1 DEF SetReads, LandInv, EditInv, EditTypes, SetState
<1>3. OneSave'
  BY <1>1, <1>2 DEF LandInv, OneSave, Savers
<1>4. /\ Owed("save")' = Owed("save") /\ Owed("last")' = Owed("last")
      /\ Intact' => Intact
  BY <1>1, <1>2 DEF Owed, InFlight, Intact
<1>5. Landing'
  BY <1>1, <1>2, <1>4 DEF LandInv, Landing, WillBe
<1> QED
  BY <1>2, <1>3, <1>5 DEF LandInv

(* The other saver is at rest when one is in flight.                       *)
LEMMA OtherRests ==
    ASSUME LandInv, NEW s \in Savers, set[s].at # "idle", NEW t \in Savers \ {s}
    PROVE  set[t].at = "idle"
BY DEF LandInv, OneSave, Savers

(* It renames: what it owed is in the file.                                *)
LEMMA LandRenames ==
    ASSUME LandInv, EditInv', NEW s \in Savers, SetRenames(s)
    PROVE  LandInv'
<1>1. "save" \in Savers /\ "last" \in Savers /\ Savers \subseteq Setters
  BY DEF Savers, Setters
<1>2. s \notin Commands
  BY CommandsAssumption DEF Savers
<1>3. /\ set[s].at = "editing" /\ UNCHANGED <<window, excused>>
      /\ set'[s].at = "ok" /\ file' = Edited(set[s].base, set[s].upd)
      /\ \A t \in Savers \ {s} : set'[t] = set[t]
  BY <1>1, <1>2 DEF SetRenames, End, Rename, NoSet, LandInv, EditInv, EditTypes
<1>4. OneSave'
  BY <1>1, <1>3 DEF LandInv, OneSave, Savers
<1>5. /\ Owed(s) = set[s].upd /\ Owed(s)' = None
      /\ \A t \in Savers \ {s} : Owed(t) = None /\ Owed(t)' = None
      /\ Intact' => Intact
  BY <1>1, <1>3, OtherRests DEF Owed, InFlight, Intact
<1>6. ASSUME Intact', window.at \in {"open", "closed"}
      PROVE  /\ Load(file)'.ok
             /\ \A t \in Savers : set'[t].at # "editing"
             /\ window.want = WillBe'
  <2>1. Load(file).ok /\ set[s].base = file /\ window.want = WillBe
    BY <1>3, <1>5, <1>6 DEF LandInv, Landing
  <2>2. /\ file \in Seq(Line) \cup {Missing} /\ set[s].upd \in Updates
        /\ Accepts(file, set[s].upd)
    BY <1>1, <1>3, <2>1 DEF LandInv, EditInv, EditTypes, Editing
  <2>3. /\ Load(file)'.ok
        /\ Load(file)'.cfg = Override(Load(file).cfg, set[s].upd)
    BY <1>3, <2>1, <2>2, EditedLoads
  <2>4. /\ Load(file).cfg \in [Keys -> Values] /\ Load(file)'.cfg \in [Keys -> Values]
    <3>1. file' \in Seq(Line) \cup {Missing}
      BY DEF EditInv, EditTypes
    <3> QED
      BY <2>2, <3>1, FilesAreLines
  <2>5. Override(Override(Load(file).cfg, Owed("save")), Owed("last"))
          = Override(Load(file).cfg, set[s].upd)
    BY <1>5, <2>3, <2>4, OverNone DEF Savers
  <2>6. Override(Override(Load(file)'.cfg, Owed("save")'), Owed("last")')
          = Override(Load(file).cfg, set[s].upd)
    BY <1>5, <2>3, <2>4, OverNone DEF Savers
  <2>7. window.want = WillBe'
    BY <1>3, <2>1, <2>5, <2>6 DEF WillBe
  <2>8. \A t \in Savers : set'[t].at # "editing"
    BY <1>3, OtherRests
  <2> QED
    BY <2>3, <2>7, <2>8
<1>7. Landing'
  BY <1>3, <1>6 DEF Landing
<1> QED
  BY <1>3, <1>4, <1>7 DEF LandInv

LEMMA LandFails ==
    ASSUME LandInv, EditInv', NEW s \in Savers, SetFails(s) \/ SetEnds(s)
    PROVE  LandInv'
<1>1. "save" \in Savers /\ "last" \in Savers /\ Savers \subseteq Setters
  BY DEF Savers, Setters
<1>2. s \notin Commands
  BY CommandsAssumption DEF Savers
<1>3. CASE SetFails(s)
  <2>1. /\ set[s].at \in {"asked", "editing"} /\ UNCHANGED <<file, window, excused>>
        /\ set'[s].at = "failed" /\ \A t \in Savers \ {s} : set'[t] = set[t]
    BY <1>1, <1>3 DEF SetFails, End, NoSet, LandInv, EditInv, EditTypes
  <2>2. OneSave'
    BY <1>1, <2>1 DEF LandInv, OneSave, Savers
  <2> QED
    BY <2>1, <2>2 DEF LandInv, Landing, Intact
<1>4. CASE SetEnds(s)
  <2>1. /\ set[s].at \in {"ok", "failed"} /\ UNCHANGED <<file, window>>
        /\ s = "save" => window.at = "closed"
        /\ excused' = (excused \/ set[s].at = "failed")
        /\ set'[s].at = "idle" /\ \A t \in Savers \ {s} : set'[t] = set[t]
    BY <1>1, <1>2, <1>4 DEF SetEnds, End, NoSet, LandInv, EditInv, EditTypes
  <2>2. OneSave'
    BY <1>1, <2>1 DEF LandInv, OneSave, Savers
  <2>3. /\ Owed("save")' = Owed("save") /\ Owed("last")' = Owed("last")
        /\ Intact' => Intact
    <3>1. Owed(s)' = None /\ Owed(s) = None
      BY <2>1 DEF Owed, InFlight
    <3>2. \A t \in Savers \ {s} : Owed(t)' = Owed(t)
      BY <2>1 DEF Owed, InFlight
    <3>3. ~excused' => ~excused /\ set[s].at # "failed"
      BY <2>1 DEF LandInv
    <3>4. Intact' => Intact
      BY <2>1, <3>3 DEF Intact
    <3> QED
      BY <1>1, <3>1, <3>2, <3>4 DEF Savers
  <2>4. Landing'
    BY <1>1, <2>1, <2>3 DEF LandInv, Landing, WillBe
  <2>5. excused' \in BOOLEAN
    BY <2>1
  <2> QED
    BY <2>2, <2>4, <2>5 DEF LandInv
<1> QED
  BY <1>3, <1>4

LEMMA LandWriters ==
    ASSUME LandInv, Writers
    PROVE  LandInv'
<1>1. EditInv'
  BY EditWriters DEF LandInv
<1>2. /\ Savers \subseteq Setters /\ Setters = Commands \cup Savers
      /\ Commands \cap Savers = {}
  BY CommandsAssumption DEF Setters, Savers
<1>3. ASSUME NEW s \in Commands, RunSet(s) \/ SetReads(s) \/ SetRenames(s)
                                 \/ SetFails(s) \/ SetEnds(s)
      PROVE  LandInv'
  <2>1. \A t \in Savers : set'[t] = set[t]
    BY <1>2, <1>3
       DEF RunSet, SetReads, SetRenames, SetFails, SetEnds, Ask, End, LandInv, EditInv,
           EditTypes
  <2>2. UNCHANGED window /\ excused' \in BOOLEAN /\ (~excused' => ~excused /\ UNCHANGED file)
    BY <1>2, <1>3 DEF RunSet, SetReads, SetRenames, SetFails, SetEnds, LandInv
  <2> QED
    BY <1>1, <2>1, <2>2, LandKept
<1>4. ASSUME NEW s \in Savers, RunSet(s) \/ SetReads(s) \/ SetRenames(s)
                               \/ SetFails(s) \/ SetEnds(s)
      PROVE  LandInv'
  BY <1>1, <1>2, <1>4, LandReads, LandRenames, LandFails DEF RunSet
<1>5. CASE \/ \E f \in Drafts \cup {Missing} : f # file /\ Replace(f)
           \/ EditorOpens
           \/ \E f \in Drafts \cup {<<>>} : EditorCloses(f)
           \/ InstallLooks \/ InstallOpens \/ InstallWrites
  <2>1. /\ UNCHANGED <<set, window>> /\ excused' \in BOOLEAN
        /\ ~excused' => ~excused /\ UNCHANGED file
    BY <1>5 DEF Replace, EditorOpens, EditorCloses, InstallLooks, InstallOpens,
                InstallWrites, Truncate, LandInv
  <2> QED
    BY <1>1, <2>1, LandKept
<1> QED
  BY <1>2, <1>3, <1>4, <1>5 DEF Writers

(* A step of the window that neither starts nor ends a save.               *)
LEMMA LandShows ==
    ASSUME LandInv, EditInv', UNCHANGED <<file, set, excused>>, OneSave',
           window'.at \in {"open", "closed"} /\ Intact =>
               /\ window.at \in {"open", "closed"}
               /\ window.want = WillBe => window'.want = WillBe'
    PROVE  LandInv'
<1>1. Intact' => Intact
  BY DEF Intact
<1>2. Landing'
  BY <1>1 DEF LandInv, Landing
<1> QED
  BY <1>2 DEF LandInv

LEMMA LandLoads ==
    ASSUME LandInv, EditInv', OpenWindow \/ WindowLoads \/ TryAgain
    PROVE  LandInv'
<1>0. window \in WindowState /\ file \in Seq(Line) \cup {Missing}
  BY DEF LandInv, EditInv, EditTypes
<1>1. CASE OpenWindow \/ TryAgain
  <2>1. /\ window'.at = "loading" /\ window'.pending = window.pending
        /\ window'.saving = window.saving /\ UNCHANGED <<file, set, excused>>
        /\ window.at \in {"closed", "error"}
        /\ set["save"].at = "idle" /\ set["last"].at = "idle"
    BY <1>0, <1>1
       DEF OpenWindow, TryAgain, Window, Closed, WindowState, LandInv, OneSave
  <2>2. OneSave'
    BY <2>1 DEF LandInv, OneSave
  <2> QED
    BY <2>1, <2>2, LandShows
<1>2. CASE WindowLoads
  <2>1. /\ window.at = "loading" /\ UNCHANGED <<file, set>>
        /\ window'.pending = window.pending /\ window'.saving = window.saving
        /\ \/ /\ Load(file).ok /\ window'.at = "open" /\ excused' = FALSE
              /\ window'.want = Load(file).cfg
           \/ window'.at = "error" /\ excused' = excused
    BY <1>0, <1>2 DEF WindowLoads, Window, WindowState
  <2>2. /\ window.pending = None /\ ~window.saving
        /\ set["save"].at = "idle" /\ set["last"].at = "idle"
    BY <2>1 DEF LandInv, OneSave
  <2>3. OneSave'
    BY <2>1, <2>2 DEF LandInv, OneSave
  <2>4. WillBe' = Load(file).cfg
    <3>1. Owed("save")' = None /\ Owed("last")' = None
      BY <2>1, <2>2 DEF Owed, InFlight
    <3>2. Load(file).cfg \in [Keys -> Values]
      BY <1>0, FilesAreLines
    <3> QED
      BY <2>1, <2>2, <3>1, <3>2, OverNone DEF WillBe
  <2>5. Landing'
    BY <2>1, <2>2, <2>4 DEF Landing, Savers
  <2> QED
    BY <2>1, <2>3, <2>5 DEF LandInv
<1> QED
  BY <1>1, <1>2

LEMMA LandChange ==
    ASSUME LandInv, EditInv', NEW k \in Keys, NEW v \in Values, Change(k, v)
    PROVE  LandInv'
<1>0. window \in WindowState /\ window.pending \in Updates \cup {None}
  BY DEF LandInv, EditInv, EditTypes, WindowState
<1> DEFINE p == window.pending
           q == [j \in DOMAIN p \cup {k} |-> IF j = k THEN v ELSE p[j]]
           c == Override(Override(Load(file).cfg, Owed("save")), Owed("last"))
<1>1. /\ window.at = "open" /\ window'.at = "open" /\ window'.saving = window.saving
      /\ window'.want = [window.want EXCEPT ![k] = v] /\ window'.pending = q
      /\ UNCHANGED <<file, set, excused>>
  BY <1>0 DEF Change, Window, WindowState
<1>2. OneSave'
  BY <1>1 DEF LandInv, OneSave
<1>3. Override(c, q) = [Override(c, p) EXCEPT ![k] = v]
  BY DEF Override
<1>4. WillBe = Override(c, p) /\ WillBe' = Override(c, q)
  BY <1>1 DEF WillBe, Owed, InFlight
<1> HIDE DEF p, q, c
<1> QED
  BY <1>1, <1>2, <1>3, <1>4, LandShows

(* What is queued becomes a save.                                          *)
LEMMA LandStarts ==
    ASSUME LandInv, EditInv', NEW s \in Savers, Ask(s, window.pending),
           window.pending # None, set["save"].at # "failed",
           \A t \in Savers : Owed(t) = None, \A t \in Savers \ {s} : set[t].at = "idle",
           UNCHANGED <<file, excused>>, OneSave',
           window'.want = window.want, window'.pending = None
    PROVE  LandInv'
<1>1. "save" \in Savers /\ "last" \in Savers /\ Savers \subseteq Setters
  BY DEF Savers, Setters
<1>2. /\ set'[s].at = "asked" /\ set'[s].upd = window.pending
      /\ \A t \in Savers \ {s} : set'[t] = set[t]
  BY <1>1 DEF Ask, LandInv, EditInv, EditTypes, SetState
<1>3. Owed(s)' = window.pending /\ \A t \in Savers \ {s} : Owed(t)' = None
  BY <1>2 DEF Owed, InFlight
<1>4. window.at = "open"
  BY DEF LandInv, OneSave
<1>5. Intact' => Intact
  BY <1>1, <1>2, <1>4 DEF Intact, LandInv, OneSave, Savers
<1>6. Load(file).cfg \in [Keys -> Values]
  BY FilesAreLines DEF LandInv, EditInv, EditTypes
<1>7. WillBe = Override(Load(file).cfg, window.pending)
  BY <1>1, <1>6, OverNone DEF WillBe
<1>8. Override(Override(Load(file).cfg, Owed("save")'), Owed("last")')
        = Override(Load(file).cfg, window.pending)
  <2>1. CASE s = "save"
    <3>1. Owed("save")' = window.pending /\ Owed("last")' = None
      BY <1>1, <1>3, <2>1
    <3> QED
      BY <3>1 DEF Override, None
  <2>2. CASE s = "last"
    <3>1. Owed("last")' = window.pending /\ Owed("save")' = None
      BY <1>1, <1>3, <2>2
    <3> QED
      BY <1>6, <3>1, OverNone
  <2> QED
    BY <2>1, <2>2 DEF Savers
<1>9. WillBe' = WillBe
  BY <1>7, <1>8 DEF WillBe, Override, None
<1>10. Landing'
  BY <1>2, <1>4, <1>5, <1>9 DEF LandInv, Landing
<1> QED
  BY <1>10 DEF LandInv

LEMMA LandFlush ==
    ASSUME LandInv, EditInv', Flush
    PROVE  LandInv'
<1>0. window \in WindowState
  BY DEF LandInv, EditInv, EditTypes
<1>1. CASE window.saving \/ window.pending = None
  <2>1. /\ window' = [window EXCEPT !.timer = FALSE]
        /\ UNCHANGED <<file, set, excused>>
    BY <1>1 DEF Flush, Window
  <2>2. /\ window'.at = window.at /\ window'.want = window.want
        /\ window'.pending = window.pending /\ window'.saving = window.saving
    BY <1>0, <2>1 DEF WindowState
  <2>3. OneSave'
    BY <2>1, <2>2 DEF LandInv, OneSave
  <2>4. WillBe' = WillBe
    BY <2>1, <2>2 DEF WillBe, Owed, InFlight
  <2> QED
    BY <2>1, <2>2, <2>3, <2>4, LandShows
<1>2. CASE ~(window.saving \/ window.pending = None)
  <2>1. /\ window' = [[window EXCEPT !.timer = FALSE] EXCEPT
                         !.pending = None, !.saving = TRUE]
        /\ Ask("save", window.pending) /\ UNCHANGED <<file, excused>>
    BY <1>2 DEF Flush, StartSave, Window
  <2>2. /\ window'.at = window.at /\ window'.want = window.want
        /\ window'.pending = None /\ window'.saving
    BY <1>0, <2>1 DEF WindowState
  <2>3. window.at = "open" /\ set["save"].at = "idle" /\ set["last"].at = "idle"
    BY <1>2 DEF LandInv, OneSave
  <2>4. set'["save"].at = "asked" /\ set'["last"] = set["last"]
    BY <2>1 DEF Ask, LandInv, EditInv, EditTypes, SetState, Setters
  <2>5. OneSave'
    BY <2>2, <2>3, <2>4 DEF OneSave
  <2>6. \A t \in Savers : Owed(t) = None /\ set[t].at = "idle"
    BY <2>3 DEF Owed, InFlight, Savers
  <2> QED
    BY <1>2, <2>1, <2>2, <2>3, <2>5, <2>6, LandStarts DEF Savers
<1> QED
  BY <1>1, <1>2

LEMMA LandSaved ==
    ASSUME LandInv, EditInv', SaveSucceeds
    PROVE  LandInv'
<1>0. window \in WindowState
  BY DEF LandInv, EditInv, EditTypes
<1>1. /\ window.at = "open" /\ window.saving /\ set["save"].at = "ok"
      /\ set["last"].at = "idle" /\ UNCHANGED excused
  BY DEF SaveSucceeds, LandInv, OneSave
<1>2. \A t \in Savers : Owed(t) = None
  BY <1>1 DEF Owed, InFlight, Savers
<1>3. CASE window.pending # None
  <2>1. /\ window' = [window EXCEPT !.pending = None, !.saving = TRUE]
        /\ Ask("save", window.pending) /\ UNCHANGED file
    BY <1>3 DEF SaveSucceeds, StartSave, Window
  <2>2. /\ window'.at = window.at /\ window'.want = window.want
        /\ window'.pending = None /\ window'.saving
    BY <1>0, <2>1 DEF WindowState
  <2>3. set'["save"].at = "asked" /\ set'["last"] = set["last"]
    BY <2>1 DEF Ask, LandInv, EditInv, EditTypes, SetState, Setters
  <2>4. OneSave'
    BY <1>1, <2>2, <2>3 DEF OneSave
  <2>5. \A t \in Savers \ {"save"} : set[t].at = "idle"
    BY <1>1 DEF Savers
  <2> QED
    BY <1>1, <1>2, <1>3, <2>1, <2>2, <2>4, <2>5, LandStarts DEF Savers
<1>4. CASE window.pending = None
  <2>1. /\ window' = [window EXCEPT !.saving = FALSE]
        /\ End("save", "idle") /\ UNCHANGED file
    BY <1>4 DEF SaveSucceeds, Window
  <2>2. /\ window'.at = window.at /\ window'.want = window.want
        /\ window'.pending = window.pending /\ ~window'.saving
    BY <1>0, <2>1 DEF WindowState
  <2>3. set'["save"].at = "idle" /\ set'["last"] = set["last"]
    BY <2>1 DEF End, NoSet, LandInv, EditInv, EditTypes, Setters
  <2>4. OneSave'
    BY <1>1, <1>4, <2>2, <2>3 DEF OneSave
  <2>5. \A t \in Savers : Owed(t)' = None
    BY <1>1, <2>3 DEF Owed, InFlight, Savers
  <2>6. WillBe' = WillBe
    BY <1>2, <2>1, <2>2, <2>5 DEF WillBe, Savers
  <2>7. Intact' => Intact
    BY <1>1, <2>3 DEF Intact, Savers
  <2>8. Landing'
    BY <1>1, <2>1, <2>2, <2>3, <2>6, <2>7 DEF LandInv, Landing, Savers
  <2> QED
    BY <1>1, <2>4, <2>8 DEF LandInv
<1> QED
  BY <1>3, <1>4

LEMMA LandSaveFailed ==
    ASSUME LandInv, EditInv', SaveFailed
    PROVE  LandInv'
<1>0. window \in WindowState
  BY DEF LandInv, EditInv, EditTypes
<1>1. /\ window' = [window EXCEPT !.saving = FALSE, !.pending = None, !.at = "loading"]
      /\ End("save", "idle") /\ UNCHANGED <<file, excused>>
      /\ window.at = "open"
  BY DEF SaveFailed, Window
<1>2. window'.at = "loading" /\ window'.pending = None /\ ~window'.saving
  BY <1>0, <1>1 DEF WindowState
<1>3. set'["save"].at = "idle" /\ set'["last"] = set["last"]
  BY <1>1 DEF End, NoSet, LandInv, EditInv, EditTypes, Setters
<1>4. OneSave'
  BY <1>1, <1>2, <1>3 DEF LandInv, OneSave
<1> QED
  BY <1>1, <1>2, <1>4 DEF LandInv, Landing

(* The window closes, with no save in flight that the last one may meet.   *)
LEMMA LandCloses ==
    ASSUME LandInv, EditInv', CloseWindow, ~CloseWhileSaving
    PROVE  LandInv'
<1>0. window \in WindowState
  BY DEF LandInv, EditInv, EditTypes
<1>1. /\ window.at # "closed" /\ (window.pending # None => ~window.saving)
      /\ window' = [Closed EXCEPT !.want = window.want] /\ UNCHANGED file
      /\ excused' = (excused \/ window.at # "open")
  BY DEF CloseWindow, Window
<1>2. /\ window'.at = "closed" /\ window'.want = window.want
      /\ window'.pending = None /\ ~window'.saving
  BY <1>1 DEF Closed
<1>3. /\ set["last"].at = "idle" /\ (window.pending # None => set["save"].at = "idle")
  BY <1>1 DEF LandInv, OneSave
<1>4. CASE window.at = "open" /\ window.pending # None
  <2>1. Ask("last", window.pending) /\ UNCHANGED excused
    BY <1>1, <1>4 DEF CloseWindow, LandInv
  <2>2. set'["last"].at = "asked" /\ set'["save"] = set["save"]
    BY <2>1 DEF Ask, LandInv, EditInv, EditTypes, SetState, Setters
  <2>3. OneSave'
    BY <1>2, <1>3, <1>4, <2>2 DEF OneSave
  <2>4. \A t \in Savers : Owed(t) = None /\ set[t].at = "idle"
    BY <1>3, <1>4 DEF Owed, InFlight, Savers
  <2> QED
    BY <1>1, <1>2, <1>3, <1>4, <2>1, <2>3, <2>4, LandStarts DEF Savers
<1>5. CASE window.at = "open" /\ window.pending = None
  <2>1. UNCHANGED <<set, excused>>
    BY <1>1, <1>5 DEF CloseWindow, LandInv
  <2>2. OneSave'
    BY <1>2, <1>3, <2>1 DEF OneSave
  <2>3. WillBe' = WillBe
    BY <1>1, <1>2, <1>5, <2>1 DEF WillBe, Owed, InFlight
  <2> QED
    BY <1>1, <1>2, <1>5, <2>1, <2>2, <2>3, LandShows
<1>6. CASE window.at # "open"
  <2>1. excused' = TRUE /\ UNCHANGED set
    BY <1>1, <1>6 DEF CloseWindow, LandInv, OneSave
  <2>2. OneSave'
    BY <1>2, <1>3, <2>1 DEF OneSave
  <2> QED
    BY <2>1, <2>2 DEF LandInv, Landing, Intact
<1> QED
  BY <1>4, <1>5, <1>6

LEMMA LandStep ==
    ASSUME ~CloseWhileSaving
    PROVE  LandInv /\ [Next]_vars => LandInv'
<1> SUFFICES ASSUME LandInv, [Next]_vars
             PROVE  LandInv'
  OBVIOUS
<1>1. EditInv'
  BY EditStep DEF LandInv
<1>2. CASE Pipeline \/ UNCHANGED vars
  <2>1. UNCHANGED <<file, set, window, excused>>
    BY <1>2 DEF Pipeline, Reads, ReadFails, Hears, Settles, RunReturns, RelayHears,
           RelaySends, WatchIsOver, Starts, StartsWatch, Dies, Hangup, TakesReload,
           ReadsFile, Applies, NotDaemon, Unwritten, writers, vars
  <2> QED
    BY <1>1, <2>1, LandKept DEF LandInv
<1>3. CASE WindowStep
  BY <1>1, <1>3, LandLoads, LandChange, LandFlush, LandSaved, LandSaveFailed, LandCloses
     DEF WindowStep
<1> QED
  BY <1>2, <1>3, LandWriters DEF Next

(* What the user chose in the settings window is what the file says, once  *)
(* nothing waits to be written: for any keys, values, commands and other   *)
(* writers, as long as the window is not closed with a change during a     *)
(* save.                                                                   *)
THEOREM ChoicesLand ==
    ASSUME ~CloseWhileSaving
    PROVE  Spec => []EditsLand
<1>1. LandInv => EditsLand
  <2> SUFFICES ASSUME LandInv, ~excused, window.at \in {"open", "closed"},
                      window.pending = None,
                      set["save"].at = "idle", set["last"].at = "idle"
               PROVE  Load(file) = [ok |-> TRUE, cfg |-> window.want]
    BY DEF EditsLand
  <2>1. Load(file).ok /\ window.want = WillBe
    BY DEF LandInv, Landing, Intact, Savers
  <2>2. Owed("save") = None /\ Owed("last") = None
    BY DEF Owed, InFlight
  <2>3. Load(file).cfg \in [Keys -> Values]
    BY FilesAreLines DEF LandInv, EditInv, EditTypes
  <2>4. window.want = Load(file).cfg
    BY <2>1, <2>2, <2>3, OverNone DEF WillBe
  <2>5. Load(file) = [ok |-> TRUE, cfg |-> Load(file).cfg]
    BY <2>1 DEF Load
  <2> QED
    BY <2>4, <2>5
<1> QED
  BY <1>1, LandInit, LandStep, PTL DEF Spec
=============================================================================
