-------------------------- MODULE SelectionProofs --------------------------
(***************************************************************************)
(* Which modules are shown, for every set of installed modules, number of  *)
(* monitors, of relaunches and of launches in flight.  The picks of a set  *)
(* are a recursive function: what it computes is proved by induction, from *)
(* the well-foundedness of the finite sets of numbers.                     *)
(***************************************************************************)
EXTENDS Selection, FiniteSetTheorems, SequenceTheorems, WellFoundedInduction, TLAPS

(***************************************************************************)
(* Induction, and the functions it defines.                                *)
(***************************************************************************)

(* A set of numbers has a least one. *)
LEMMA LeastNumber ==
    ASSUME NEW T, T \subseteq Nat, T # {}
    PROVE  \E x \in T : \A y \in T : ~(y < x)
<1> DEFINE Below == {0..k : k \in T}
<1>1. \A k \in T : IsFiniteSet(0..k) /\ 0..k \subseteq Nat
  BY FS_Interval
<1>2. Below \subseteq FiniteSubsetsOf(Nat) /\ Below # {}
  BY <1>1 DEF FiniteSubsetsOf
<1>3. IsWellFoundedOn(StrictSubsetOrdering(Nat), FiniteSubsetsOf(Nat))
  BY FS_StrictSubsetOrderingWellFounded
<1>4. \E x \in Below : \A y \in Below : ~(<<y, x>> \in StrictSubsetOrdering(Nat))
  <2> HIDE DEF Below
  <2> QED
    BY <1>2, <1>3, WFMin
<1>5. PICK x \in Below : \A y \in Below : ~(<<y, x>> \in StrictSubsetOrdering(Nat))
  BY <1>4
<1>6. PICK k \in T : x = 0..k
  OBVIOUS
<1>7. ASSUME NEW j \in T, j < k
      PROVE  FALSE
  <2>1. k \in 0..k /\ k \notin 0..j /\ 0..j \subseteq 0..k
    BY <1>7
  <2>2. <<0..j, 0..k>> \in StrictSubsetOrdering(Nat)
    BY <2>1 DEF StrictSubsetOrdering
  <2> QED
    BY <1>5, <1>6, <2>2
<1> QED
  BY <1>7

(* What holds of 0, and of n + 1 when of n, holds of every number. *)
LEMMA Induction ==
    ASSUME NEW S, 0 \in S, \A n \in Nat : n \in S => n + 1 \in S
    PROVE  Nat \subseteq S
<1> SUFFICES ASSUME Nat \ S # {}
             PROVE  FALSE
  OBVIOUS
<1>1. PICK x \in Nat \ S : \A y \in Nat \ S : ~(y < x)
  BY LeastNumber
<1>2. x # 0 /\ x - 1 \in Nat
  BY <1>1
<1>3. x - 1 \in S
  BY <1>1, <1>2
<1> QED
  BY <1>1, <1>2, <1>3

LEMMA InductionUpTo ==
    ASSUME NEW a \in Nat, NEW n \in Nat, NEW S,
           a \in S, \A k \in a..n : k \in S /\ k + 1 <= n => k + 1 \in S
    PROVE  a..n \subseteq S
<1> DEFINE R == {k \in Nat : k \in a..n => k \in S}
<1>1. 0 \in R
  OBVIOUS
<1>2. \A k \in Nat : k \in R => k + 1 \in R
  <2> SUFFICES ASSUME NEW k \in Nat, k \in R, k + 1 \in a..n
               PROVE  k + 1 \in S
    OBVIOUS
  <2>1. CASE k + 1 = a
    BY <2>1
  <2>2. CASE k \in a..n
    BY <2>2
  <2> QED
    BY <2>1, <2>2
<1>3. Nat \subseteq R
  <2> HIDE DEF R
  <2> QED
    BY <1>1, <1>2, Induction
<1> QED
  BY <1>3

(* A value for the first number, and a function from each value to the     *)
(* next, make a function of the numbers from there.                        *)
Iterates(g, D, F, base, a, n) ==
    /\ g \in [a..n -> D]
    /\ \A k \in a..n : g[k] = IF k = a THEN base ELSE F[g[k - 1]]

LEMMA Recursion ==
    ASSUME NEW D, NEW F \in [D -> D], NEW base \in D, NEW a \in Nat, NEW n \in Nat
    PROVE  \E g : Iterates(g, D, F, base, a, n)
<1> DEFINE Upto(g, m) ==
             \A k \in a..m : g[k] = IF k = a THEN base ELSE F[g[k - 1]]
           S == {m \in a..n : \E g \in [a..m -> D] : Upto(g, m)}
<1>1. CASE n < a
  <2> DEFINE g == [k \in a..n |-> base]
  <2>1. Iterates(g, D, F, base, a, n)
    BY <1>1 DEF Iterates
  <2> QED
    BY <2>1
<1>2. CASE a <= n
  <2>1. a \in S
    <3> DEFINE g == [k \in a..a |-> base]
    <3>1. g \in [a..a -> D] /\ Upto(g, a)
      OBVIOUS
    <3>2. \E f \in [a..a -> D] : Upto(f, a)
      BY <3>1
    <3>3. a \in a..n
      BY <1>2
    <3> QED
      BY <3>2, <3>3
  <2>2. ASSUME NEW m \in a..n, m \in S, m + 1 <= n
        PROVE  m + 1 \in S
    <3>1. PICK g \in [a..m -> D] : Upto(g, m)
      BY <2>2
    <3> DEFINE h == [k \in a..(m + 1) |-> IF k \in a..m THEN g[k] ELSE F[g[m]]]
    <3>2. h \in [a..(m + 1) -> D]
      OBVIOUS
    <3>3. ASSUME NEW k \in a..(m + 1)
          PROVE  h[k] = IF k = a THEN base ELSE F[h[k - 1]]
      <4>1. CASE k = a
        BY <3>1, <4>1
      <4>2. CASE k \in (a + 1)..m
        <5>1. h[k] = g[k] /\ h[k - 1] = g[k - 1]
          BY <4>2
        <5>2. g[k] = F[g[k - 1]]
          BY <3>1, <4>2
        <5> QED
          BY <4>2, <5>1, <5>2
      <4>3. CASE k = m + 1
        <5>1. h[k] = F[g[m]] /\ h[k - 1] = g[m]
          BY <4>3
        <5> QED
          BY <4>3, <5>1
      <4> QED
        BY <4>1, <4>2, <4>3
    <3>4. Upto(h, m + 1)
      BY <3>3
    <3>5. \E f \in [a..(m + 1) -> D] : Upto(f, m + 1)
      BY <3>2, <3>4
    <3>6. m + 1 \in a..n
      BY <2>2
    <3> QED
      BY <3>5, <3>6
  <2>3. n \in S
    <3> HIDE DEF S
    <3>1. a..n \subseteq S
      BY <2>1, <2>2, InductionUpTo
    <3> QED
      BY <1>2, <3>1
  <2>4. PICK g \in [a..n -> D] : Upto(g, n)
    BY <2>3
  <2>5. Iterates(g, D, F, base, a, n)
    BY <2>4 DEF Iterates
  <2> QED
    BY <2>5
<1> QED
  BY <1>1, <1>2

(***************************************************************************)
(* Sequences of modules as the sets of their members.                      *)
(***************************************************************************)
Distinct(s) == \A i, j \in DOMAIN s : s[i] = s[j] => i = j

LEMMA SequenceAsSet ==
    ASSUME NEW S, NEW s \in Seq(S)
    PROVE  /\ ToSet(s) \subseteq S
           /\ IsFiniteSet(ToSet(s))
           /\ Cardinality(ToSet(s)) <= Len(s)
           /\ Distinct(s) => Cardinality(ToSet(s)) = Len(s)
           /\ s = <<>> <=> ToSet(s) = {}
<1>1. s \in [1..Len(s) -> S] /\ Len(s) \in Nat /\ DOMAIN s = 1..Len(s)
  BY LenProperties
<1>2. ToSet(s) \subseteq S
  BY <1>1 DEF ToSet
<1>3. s \in Surjection(1..Len(s), ToSet(s))
  <2>1. s = [i \in 1..Len(s) |-> s[i]]
    BY <1>1
  <2>2. \A i \in 1..Len(s) : s[i] \in ToSet(s)
    BY <1>1 DEF ToSet
  <2>3. s \in [1..Len(s) -> ToSet(s)]
    BY <2>1, <2>2
  <2>4. \A m \in ToSet(s) : \E i \in 1..Len(s) : s[i] = m
    BY <1>1 DEF ToSet
  <2> QED
    BY <2>3, <2>4, Zenon DEF Surjection
<1>4. IsFiniteSet(1..Len(s)) /\ Cardinality(1..Len(s)) = Len(s)
  <2>1. \A n \in Nat : IsFiniteSet(1..n) /\ Cardinality(1..n) = IF 1 > n THEN 0 ELSE n - 1 + 1
    BY FS_Interval
  <2>2. \A n \in Nat : Cardinality(1..n) = n
    BY <2>1
  <2> QED
    BY <1>1, <2>1, <2>2
<1>5. /\ IsFiniteSet(ToSet(s)) /\ Cardinality(ToSet(s)) <= Len(s)
      /\ Cardinality(ToSet(s)) = Len(s) <=> s \in Injection(1..Len(s), ToSet(s))
  BY <1>3, <1>4, FS_Surjection
<1>6. Distinct(s) => s \in Injection(1..Len(s), ToSet(s))
  BY <1>1, <1>3 DEF Distinct, Injection, IsInjective, Surjection
<1>7. s = <<>> <=> ToSet(s) = {}
  <2>1. s = <<>> => ToSet(s) = {}
    BY DEF ToSet
  <2>2. s # <<>> => 1 \in DOMAIN s
    BY <1>1, EmptySeq
  <2> QED
    BY <2>1, <2>2 DEF ToSet
<1> QED
  BY <1>2, <1>5, <1>6, <1>7

LEMMA AppendAsSet ==
    ASSUME NEW S, NEW s \in Seq(S), NEW e \in S
    PROVE  /\ Append(s, e) \in Seq(S)
           /\ Len(Append(s, e)) = Len(s) + 1
           /\ ToSet(Append(s, e)) = ToSet(s) \cup {e}
           /\ Distinct(s) /\ e \notin ToSet(s) => Distinct(Append(s, e))
<1>1. /\ DOMAIN s = 1..Len(s) /\ Len(s) \in Nat
      /\ DOMAIN Append(s, e) = 1..(Len(s) + 1)
      /\ \A i \in 1..Len(s) : Append(s, e)[i] = s[i]
      /\ Append(s, e)[Len(s) + 1] = e
      /\ Append(s, e) \in Seq(S) /\ Len(Append(s, e)) = Len(s) + 1
  BY AppendProperties, LenProperties
<1> DEFINE t == Append(s, e)
<1> HIDE DEF t
<1>2. /\ DOMAIN s = 1..Len(s) /\ Len(s) \in Nat
      /\ DOMAIN t = 1..(Len(s) + 1) /\ t[Len(s) + 1] = e
      /\ \A i \in 1..Len(s) : t[i] = s[i]
  BY <1>1 DEF t
<1>3. ToSet(t) = ToSet(s) \cup {e}
  BY <1>2 DEF ToSet
<1>4. ASSUME Distinct(s), e \notin ToSet(s)
      PROVE  Distinct(t)
  BY <1>2, <1>4 DEF Distinct, ToSet
<1> QED
  BY <1>1, <1>3, <1>4 DEF t

(***************************************************************************)
(* What pick may return.                                                   *)
(***************************************************************************)
LEMMA PoolIs ==
    /\ Selectable \subseteq Installed
    /\ \A avoid : Pool(avoid) = Selectable \ avoid
BY DEF Pool, Selectable, Select

(* A pick of m that leaves left, when the modules of tried were tried and  *)
(* those of also are not wanted.                                           *)
Fresh(m, left, tried) == m \notin tried /\ left = tried

Restarts(m, left, tried, also) ==
    /\ Selectable \subseteq tried \cup also
    /\ m \notin ToSet(current) /\ m \notin also /\ left = ToSet(current)

Repeats(m, left, tried, also) ==
    /\ Selectable \subseteq tried \cup also
    /\ Selectable \subseteq ToSet(current) \cup also
    /\ left = {}

LEMMA PickIs ==
    ASSUME NEW tried, NEW also, NEW p \in Picks(tried, also)
    PROVE  /\ p = <<p[1], p[2]>>
           /\ p[1] \in Selectable
           /\ p[1] \notin also \/ Selectable \subseteq also
           /\ \/ Fresh(p[1], p[2], tried)
              \/ Restarts(p[1], p[2], tried, also)
              \/ Repeats(p[1], p[2], tried, also)
<1> DEFINE shown == ToSet(current)
           fresh == Selectable \ (tried \cup also)
           restart == Selectable \ (shown \cup also)
           repeat == Selectable \ also
<1>1. Picks(tried, also) =
        CASE fresh # {} -> fresh \X {tried}
          [] fresh = {} /\ restart # {} -> restart \X {shown}
          [] fresh = {} /\ restart = {} /\ repeat # {} -> repeat \X {{}}
          [] OTHER -> Selectable \X {{}}
  BY PoolIs DEF Picks
<1>2. CASE fresh # {}
  <2>1. p \in fresh \X {tried}
    BY <1>1, <1>2
  <2> QED
    BY <2>1 DEF Fresh
<1>3. CASE fresh = {} /\ restart # {}
  <2>1. p \in restart \X {shown}
    BY <1>1, <1>3
  <2> QED
    BY <2>1, <1>3 DEF Restarts
<1>4. CASE fresh = {} /\ restart = {} /\ repeat # {}
  <2>1. p \in repeat \X {{}}
    BY <1>1, <1>4
  <2> QED
    BY <2>1, <1>4 DEF Repeats
<1>5. CASE fresh = {} /\ restart = {} /\ repeat = {}
  <2>1. p \in Selectable \X {{}}
    BY <1>1, <1>5
  <2> QED
    BY <2>1, <1>5 DEF Repeats
<1> QED
  BY <1>2, <1>3, <1>4, <1>5

(***************************************************************************)
(* What pickSet may return: a set of modules and the used it leaves.       *)
(***************************************************************************)
Extended(sets) ==
    UNION {{<<Append(s[1], p[1]), p[2]>> : p \in Picks(s[2], ToSet(s[1]))} : s \in sets}

(* Not yet started over; started over beside what is on screen; or started *)
(* over with it.                                                           *)
Leaves(names, left) ==
    \/ left = used /\ ToSet(names) \cap used = {}
    \/ /\ left = ToSet(current) /\ Selectable \subseteq used \cup ToSet(names)
       /\ ~(ToSet(names) \subseteq ToSet(current))
    \/ /\ left = {} /\ Selectable \subseteq used \cup ToSet(names)
       /\ Selectable \subseteq ToSet(current) \cup ToSet(names)
       /\ current = <<>> \/ ToSet(names) \cap ToSet(current) # {}

Apart(names) == Distinct(names) \/ Selectable \subseteq ToSet(names)

PickedSet(k, p) ==
    /\ p = <<p[1], p[2]>> /\ p[1] \in Seq(Selectable) /\ Len(p[1]) = k
    /\ Apart(p[1]) /\ Leaves(p[1], p[2])

LEMMA ExtendedIsPicked ==
    ASSUME current \in Seq(Selectable), NEW k \in Nat,
           NEW sets, \A s \in sets : PickedSet(k, s), NEW q \in Extended(sets)
    PROVE  PickedSet(k + 1, q)
<1>1. PICK s \in sets : \E p \in Picks(s[2], ToSet(s[1])) : q = <<Append(s[1], p[1]), p[2]>>
  BY DEF Extended
<1>2. PICK p \in Picks(s[2], ToSet(s[1])) : q = <<Append(s[1], p[1]), p[2]>>
  BY <1>1
<1> DEFINE names == s[1]
           m == p[1]
           more == Append(names, m)
           shown == ToSet(current)
<1>3. /\ names \in Seq(Selectable) /\ Len(names) = k
      /\ Apart(names) /\ Leaves(names, s[2])
  BY DEF PickedSet
<1>4. /\ m \in Selectable
      /\ m \notin ToSet(names) \/ Selectable \subseteq ToSet(names)
      /\ \/ Fresh(m, p[2], s[2]) \/ Restarts(m, p[2], s[2], ToSet(names))
         \/ Repeats(m, p[2], s[2], ToSet(names))
  BY PickIs
<1>5. /\ more \in Seq(Selectable) /\ Len(more) = k + 1
      /\ ToSet(more) = ToSet(names) \cup {m}
      /\ Distinct(names) /\ m \notin ToSet(names) => Distinct(more)
  BY <1>3, <1>4, AppendAsSet
<1>6. Apart(more)
  BY <1>3, <1>4, <1>5 DEF Apart
<1>7. shown \subseteq Selectable /\ (shown = {} => current = <<>>)
  BY SequenceAsSet
<1>8. Leaves(more, p[2])
  <2>1. CASE Fresh(m, p[2], s[2])
    BY <1>3, <1>5, <2>1 DEF Leaves, Fresh
  <2>2. CASE Restarts(m, p[2], s[2], ToSet(names))
    <3>1. Selectable \subseteq used \cup ToSet(names)
      BY <1>3, <2>2 DEF Leaves, Restarts
    <3> QED
      BY <1>5, <2>2, <3>1 DEF Leaves, Restarts
  <2>3. CASE Repeats(m, p[2], s[2], ToSet(names))
    <3>1. Selectable \subseteq used \cup ToSet(names)
      BY <1>3, <2>3 DEF Leaves, Repeats
    <3>2. current = <<>> \/ ToSet(more) \cap shown # {}
      <4>1. CASE m \in ToSet(names)
        BY <1>4, <1>5, <1>7, <2>3, <4>1 DEF Repeats
      <4>2. CASE m \notin ToSet(names)
        BY <1>4, <1>5, <2>3, <4>2 DEF Repeats
      <4> QED
        BY <4>1, <4>2
    <3> QED
      BY <1>5, <2>3, <3>1, <3>2 DEF Leaves, Repeats
  <2> QED
    BY <1>4, <2>1, <2>2, <2>3
<1> QED
  BY <1>2, <1>5, <1>6, <1>8 DEF PickedSet

(* The function of pickSet's loop: it is defined, and each of its values   *)
(* comes from the one before.                                              *)
LEMMA PickSetsRecursive ==
    ASSUME current \in Seq(Selectable), used \subseteq Selectable, NEW n \in Nat
    PROVE  \E f : /\ PickSets(n) = f[n]
                  /\ f[0] = {<<<<>>, used>>}
                  /\ \A k \in 1..n : f[k] = Extended(f[k - 1])
<1> DEFINE D == SUBSET (Seq(Selectable) \X SUBSET Selectable)
           F == [sets \in D |-> Extended(sets)]
           base == {<<<<>>, used>>}
           f == CHOOSE g : g = [k \in 0..n |-> IF k = 0 THEN base ELSE Extended(g[k - 1])]
<1>1. base \in D
  <2>1. <<>> \in Seq(Selectable)
    BY EmptySeq
  <2>2. <<<<>>, used>> \in Seq(Selectable) \X SUBSET Selectable
    BY <2>1
  <2> QED
    BY <2>2
<1>2. ASSUME NEW sets \in D
      PROVE  Extended(sets) \in D
  <2> SUFFICES ASSUME NEW q \in Extended(sets)
               PROVE  q \in Seq(Selectable) \X SUBSET Selectable
    OBVIOUS
  <2>1. PICK s \in sets : \E p \in Picks(s[2], ToSet(s[1])) : q = <<Append(s[1], p[1]), p[2]>>
    BY DEF Extended
  <2>2. PICK p \in Picks(s[2], ToSet(s[1])) : q = <<Append(s[1], p[1]), p[2]>>
    BY <2>1
  <2>3. s[1] \in Seq(Selectable) /\ s[2] \subseteq Selectable
    OBVIOUS
  <2>4. p[1] \in Selectable /\ p[2] \in {s[2], ToSet(current), {}}
    BY PickIs DEF Fresh, Restarts, Repeats
  <2>5. p[2] \subseteq Selectable
    BY <2>3, <2>4, SequenceAsSet
  <2>6. Append(s[1], p[1]) \in Seq(Selectable)
    BY <2>3, <2>4, AppendProperties
  <2> QED
    BY <2>2, <2>5, <2>6
<1>3. F \in [D -> D]
  BY <1>2
<1>4. \E g : g = [k \in 0..n |-> IF k = 0 THEN base ELSE Extended(g[k - 1])]
  <2>1. \E g : Iterates(g, D, F, base, 0, n)
    <3> HIDE DEF D, F, base
    <3> QED
      BY <1>1, <1>3, Recursion
  <2>2. PICK g : Iterates(g, D, F, base, 0, n)
    BY <2>1
  <2>3. \A k \in 1..n : F[g[k - 1]] = Extended(g[k - 1])
    <3>1. \A k \in 1..n : k - 1 \in 0..n
      OBVIOUS
    <3>2. g \in [0..n -> D]
      BY <2>2 DEF Iterates
    <3> QED
      BY <3>1, <3>2
  <2>4. g = [k \in 0..n |-> IF k = 0 THEN base ELSE Extended(g[k - 1])]
    <3> HIDE DEF D, F, base
    <3>1. \A k \in 0..n : k # 0 => k \in 1..n
      OBVIOUS
    <3> QED
      BY <2>2, <2>3, <3>1 DEF Iterates
  <2> QED
    BY <2>4
<1>5. PickSets(n) = f[n]
  BY Zenon DEF PickSets, Extended
<1>6. f = [k \in 0..n |-> IF k = 0 THEN base ELSE Extended(f[k - 1])]
  BY <1>4, Zenon
<1> HIDE DEF f
<1>7. \A k \in 0..n : f[k] = IF k = 0 THEN base ELSE Extended(f[k - 1])
  <2> HIDE DEF base
  <2> QED
    BY <1>6
<1>8. \A k \in 1..n : k \in 0..n /\ k # 0
  OBVIOUS
<1> QED
  BY <1>5, <1>7, <1>8

(* What pickSet gives, for any number of monitors.                         *)
LEMMA PickSetsArePicked ==
    ASSUME current \in Seq(Selectable), used \subseteq Selectable,
           NEW n \in Nat, NEW p \in PickSets(n)
    PROVE  PickedSet(n, p)
<1>1. PICK f : /\ PickSets(n) = f[n]
               /\ f[0] = {<<<<>>, used>>}
               /\ \A k \in 1..n : f[k] = Extended(f[k - 1])
  BY PickSetsRecursive
<1> DEFINE S == {k \in 0..n : \A s \in f[k] : PickedSet(k, s)}
<1>2. 0 \in S
  <2>1. <<>> \in Seq(Selectable) /\ Len(<<>>) = 0 /\ ToSet(<<>>) = {} /\ Distinct(<<>>)
    BY EmptySeq DEF ToSet, Distinct
  <2>2. PickedSet(0, <<<<>>, used>>)
    BY <2>1 DEF PickedSet, Apart, Leaves
  <2> QED
    BY <1>1, <2>2
<1>3. ASSUME NEW k \in 0..n, k \in S, k + 1 <= n
      PROVE  k + 1 \in S
  <2>1. k + 1 \in 1..n /\ k + 1 - 1 = k
    BY <1>3
  <2>2. f[k + 1] = Extended(f[k])
    BY <1>1, <2>1
  <2>3. \A q \in Extended(f[k]) : PickedSet(k + 1, q)
    BY <1>3, ExtendedIsPicked
  <2> QED
    BY <2>1, <2>2, <2>3
<1>4. 0..n \subseteq S
  <2> HIDE DEF S
  <2> QED
    BY <1>2, <1>3, InductionUpTo
<1> QED
  BY <1>1, <1>4

(* There is always one more module to pick, unless there is none at all. *)
LEMMA PickFinds ==
    ASSUME Selectable # {}, NEW tried, NEW also
    PROVE  Picks(tried, also) # {}
<1> DEFINE shown == ToSet(current)
           fresh == Pool(tried \cup also)
           restart == Pool(shown \cup also)
           repeat == Pool(also)
<1>1. Picks(tried, also) =
        CASE fresh # {} -> fresh \X {tried}
          [] fresh = {} /\ restart # {} -> restart \X {shown}
          [] fresh = {} /\ restart = {} /\ repeat # {} -> repeat \X {{}}
          [] OTHER -> Selectable \X {{}}
  BY DEF Picks
<1> HIDE DEF shown, fresh, restart, repeat
<1>2. \A S, e : S # {} => S \X {e} # {}
  <2> SUFFICES ASSUME NEW S, NEW e, NEW m \in S
               PROVE  S \X {e} # {}
    OBVIOUS
  <2>1. <<m, e>> \in S \X {e}
    OBVIOUS
  <2> QED
    BY <2>1
<1>3. CASE fresh # {}
  BY <1>1, <1>2, <1>3
<1>4. CASE fresh = {} /\ restart # {}
  BY <1>1, <1>2, <1>4
<1>5. CASE fresh = {} /\ restart = {} /\ repeat # {}
  BY <1>1, <1>2, <1>5
<1>6. CASE fresh = {} /\ restart = {} /\ repeat = {}
  BY <1>1, <1>2, <1>6
<1> QED
  BY <1>3, <1>4, <1>5, <1>6

LEMMA PickSetsFind ==
    ASSUME current \in Seq(Selectable), used \subseteq Selectable, Selectable # {},
           NEW n \in Nat
    PROVE  PickSets(n) # {}
<1>1. PICK f : /\ PickSets(n) = f[n]
               /\ f[0] = {<<<<>>, used>>}
               /\ \A k \in 1..n : f[k] = Extended(f[k - 1])
  BY PickSetsRecursive
<1> DEFINE S == {k \in 0..n : f[k] # {}}
<1>2. 0 \in S
  <2>1. <<<<>>, used>> \in f[0]
    BY <1>1, Zenon
  <2> QED
    BY <2>1
<1>3. ASSUME NEW k \in 0..n, k \in S, k + 1 <= n
      PROVE  k + 1 \in S
  <2>1. k + 1 \in 1..n /\ k + 1 - 1 = k /\ k + 1 \in 0..n
    BY <1>3
  <2>2. f[k + 1] = Extended(f[k])
    BY <1>1, <2>1
  <2>3. PICK s \in f[k] : TRUE
    BY <1>3
  <2>4. PICK p \in Picks(s[2], ToSet(s[1])) : TRUE
    BY PickFinds
  <2>5. <<Append(s[1], p[1]), p[2]>> \in Extended(f[k])
    BY <2>4 DEF Extended
  <2> QED
    BY <2>1, <2>2, <2>5
<1>4. 0..n \subseteq S
  <2> HIDE DEF S
  <2> QED
    BY <1>2, <1>3, InductionUpTo
<1> QED
  BY <1>1, <1>4

(***************************************************************************)
(* What pickForRun may return.                                             *)
(***************************************************************************)
Another(names) == IF Pool(ToSet(names)) # {} THEN Pool(ToSet(names)) ELSE Selectable

RunExtended(sets) == UNION {{Append(s, m) : m \in Another(s)} : s \in sets}

LEMMA RunExtendedIsApart ==
    ASSUME NEW s \in Seq(Selectable), NEW m \in Another(s)
    PROVE  /\ Append(s, m) \in Seq(Selectable) /\ Len(Append(s, m)) = Len(s) + 1
           /\ Apart(s) => Apart(Append(s, m))
<1>1. m \in Selectable /\ (m \notin ToSet(s) \/ Selectable \subseteq ToSet(s))
  BY PoolIs DEF Another
<1>2. /\ Append(s, m) \in Seq(Selectable) /\ Len(Append(s, m)) = Len(s) + 1
      /\ ToSet(Append(s, m)) = ToSet(s) \cup {m}
      /\ Distinct(s) /\ m \notin ToSet(s) => Distinct(Append(s, m))
  BY <1>1, AppendAsSet
<1> QED
  BY <1>1, <1>2 DEF Apart

LEMMA RunSetsRecursive ==
    ASSUME NEW n \in Nat
    PROVE  \E f : /\ RunSets(n) = f[n]
                  /\ f[0] = {<<>>}
                  /\ \A k \in 1..n : f[k] = RunExtended(f[k - 1])
<1> DEFINE D == SUBSET Seq(Selectable)
           F == [sets \in D |-> RunExtended(sets)]
           base == {<<>>}
           f == CHOOSE g : g = [k \in 0..n |-> IF k = 0 THEN base ELSE RunExtended(g[k - 1])]
<1>1. base \in D
  BY EmptySeq
<1>2. ASSUME NEW sets \in D
      PROVE  RunExtended(sets) \in D
  <2> SUFFICES ASSUME NEW s \in sets, NEW m \in Another(s)
               PROVE  Append(s, m) \in Seq(Selectable)
    BY DEF RunExtended
  <2> QED
    BY RunExtendedIsApart
<1>3. F \in [D -> D]
  BY <1>2
<1>4. \E g : g = [k \in 0..n |-> IF k = 0 THEN base ELSE RunExtended(g[k - 1])]
  <2>1. \E g : Iterates(g, D, F, base, 0, n)
    <3> HIDE DEF D, F, base
    <3> QED
      BY <1>1, <1>3, Recursion
  <2>2. PICK g : Iterates(g, D, F, base, 0, n)
    BY <2>1
  <2>3. \A k \in 1..n : F[g[k - 1]] = RunExtended(g[k - 1])
    <3>1. \A k \in 1..n : k - 1 \in 0..n
      OBVIOUS
    <3>2. g \in [0..n -> D]
      BY <2>2 DEF Iterates
    <3> QED
      BY <3>1, <3>2
  <2>4. g = [k \in 0..n |-> IF k = 0 THEN base ELSE RunExtended(g[k - 1])]
    <3> HIDE DEF D, F, base
    <3>1. \A k \in 0..n : k # 0 => k \in 1..n
      OBVIOUS
    <3> QED
      BY <2>2, <2>3, <3>1 DEF Iterates
  <2> QED
    BY <2>4
<1>5. RunSets(n) = f[n]
  BY Zenon DEF RunSets, RunExtended, Another
<1>6. f = [k \in 0..n |-> IF k = 0 THEN base ELSE RunExtended(f[k - 1])]
  BY <1>4, Zenon
<1> HIDE DEF f
<1>7. \A k \in 0..n : f[k] = IF k = 0 THEN base ELSE RunExtended(f[k - 1])
  <2> HIDE DEF base
  <2> QED
    BY <1>6
<1>8. \A k \in 1..n : k \in 0..n /\ k # 0
  OBVIOUS
<1> QED
  BY <1>5, <1>7, <1>8

LEMMA RunSetsAreApart ==
    ASSUME NEW n \in Nat, NEW names \in RunSets(n)
    PROVE  names \in Seq(Selectable) /\ Len(names) = n /\ Apart(names)
<1>1. PICK f : /\ RunSets(n) = f[n]
               /\ f[0] = {<<>>}
               /\ \A k \in 1..n : f[k] = RunExtended(f[k - 1])
  BY RunSetsRecursive
<1> DEFINE Good(k, s) == s \in Seq(Selectable) /\ Len(s) = k /\ Apart(s)
           S == {k \in 0..n : \A s \in f[k] : Good(k, s)}
<1>2. 0 \in S
  <2>1. <<>> \in Seq(Selectable) /\ Len(<<>>) = 0 /\ Distinct(<<>>)
    BY EmptySeq DEF Distinct
  <2>2. \A s \in f[0] : s = <<>>
    BY <1>1
  <2>3. \A s \in f[0] : Good(0, s)
    BY <2>1, <2>2 DEF Apart
  <2> QED
    BY <2>3
<1>3. ASSUME NEW k \in 0..n, k \in S, k + 1 <= n
      PROVE  k + 1 \in S
  <2>1. k + 1 \in 1..n /\ k + 1 - 1 = k
    BY <1>3
  <2>2. f[k + 1] = RunExtended(f[k])
    BY <1>1, <2>1
  <2>3. ASSUME NEW q \in RunExtended(f[k])
        PROVE  Good(k + 1, q)
    <3>1. PICK s \in f[k] : \E m \in Another(s) : q = Append(s, m)
      BY DEF RunExtended
    <3>2. PICK m \in Another(s) : q = Append(s, m)
      BY <3>1
    <3>3. Good(k, s)
      BY <1>3
    <3> QED
      BY <3>2, <3>3, RunExtendedIsApart
  <2> QED
    BY <2>1, <2>2, <2>3
<1>4. 0..n \subseteq S
  <2> HIDE DEF S
  <2> QED
    BY <1>2, <1>3, InductionUpTo
<1> QED
  BY <1>1, <1>4

(* Modules that are apart are all different when there are enough of them. *)
LEMMA ApartDiffers ==
    ASSUME NEW s \in Seq(Selectable), Apart(s), Cardinality(Selectable) >= Len(s)
    PROVE  Cardinality(ToSet(s)) = Len(s)
<1>1. /\ ToSet(s) \subseteq Selectable /\ IsFiniteSet(ToSet(s))
      /\ Cardinality(ToSet(s)) <= Len(s)
      /\ Distinct(s) => Cardinality(ToSet(s)) = Len(s)
  BY SequenceAsSet
<1>2. CASE Selectable \subseteq ToSet(s)
  <2>1. Selectable = ToSet(s)
    BY <1>1, <1>2
  <2>2. Len(s) \in Nat /\ Cardinality(ToSet(s)) \in Nat
    BY <1>1, FS_CardinalityType, LenProperties
  <2> QED
    BY <1>1, <2>1, <2>2
<1> QED
  BY <1>1, <1>2 DEF Apart

(***************************************************************************)
(* What onCopyExit may try: modules that leave what is on screen alone, as *)
(* long as there is another, each counted as used; and the turns they take *)
(* from the others.                                                        *)
(***************************************************************************)
PoolSize == Cardinality(Selectable)

(* How many modules may have been picked since m was, when u are used:     *)
(* fewer than those, if m is one of them, and else no more than it takes   *)
(* to use all of them up once more.                                        *)
TurnOf(m, n, u) == IF m \in u THEN n < Cardinality(u) ELSE n < Cardinality(u) + PoolSize

Waits(history, u) == \A m \in Selectable : TurnOf(m, history[m], u)

LEMMA SetsOfModules ==
    /\ IsFiniteSet(Selectable) /\ PoolSize \in Nat
    /\ \A u : u \subseteq Selectable =>
            /\ IsFiniteSet(u) /\ Cardinality(u) \in Nat /\ Cardinality(u) <= PoolSize
            /\ \A m \in u : Cardinality(u) >= 1
            /\ \A m \in Selectable \ u : Cardinality(u) < PoolSize
<1>1. IsFiniteSet(Selectable)
  BY InstalledAssumption, PoolIs, FS_Subset
<1>2. PoolSize \in Nat
  BY <1>1, FS_CardinalityType DEF PoolSize
<1>3. ASSUME NEW u, u \subseteq Selectable
      PROVE  /\ IsFiniteSet(u) /\ Cardinality(u) \in Nat /\ Cardinality(u) <= PoolSize
             /\ \A m \in u : Cardinality(u) >= 1
             /\ \A m \in Selectable \ u : Cardinality(u) < PoolSize
  <2>1. /\ IsFiniteSet(u) /\ Cardinality(u) <= PoolSize
        /\ Cardinality(u) = PoolSize => u = Selectable
    BY <1>1, <1>3, FS_Subset DEF PoolSize
  <2>2. Cardinality(u) \in Nat /\ (Cardinality(u) = 0 => u = {})
    BY <2>1, FS_CardinalityType, FS_EmptySet
  <2> QED
    BY <1>2, <2>1, <2>2
<1> QED
  BY <1>1, <1>2, <1>3

LEMMA OneMoreUsed ==
    ASSUME NEW u, u \subseteq Selectable, NEW m \in Selectable \ u
    PROVE  Cardinality(u \cup {m}) = Cardinality(u) + 1
BY SetsOfModules, FS_AddElement

LEMMA TurnTaken ==
    ASSUME current \in Seq(Selectable), NEW u, u \subseteq Selectable,
           NEW p \in Picks(u, ToSet(current)), NEW n \in Nat,
           NEW m \in Selectable, m # p[1], m \notin ToSet(current), TurnOf(m, n, u)
    PROVE  TurnOf(m, n + 1, p[2] \cup {p[1]})
<1> DEFINE shown == ToSet(current)
<1>1. /\ p[1] \in Selectable
      /\ \/ Fresh(p[1], p[2], u)
         \/ Restarts(p[1], p[2], u, shown)
         \/ Repeats(p[1], p[2], u, shown)
  BY PickIs
<1>2. shown \subseteq Selectable
  BY SequenceAsSet
<1>3. CASE Fresh(p[1], p[2], u)
  <2>1. p[2] = u /\ Cardinality(u \cup {p[1]}) = Cardinality(u) + 1
    BY <1>1, <1>3, OneMoreUsed DEF Fresh
  <2> QED
    BY <2>1, SetsOfModules DEF TurnOf
<1>4. CASE Restarts(p[1], p[2], u, shown)
  <2>1. m \in u /\ m \notin p[2] \cup {p[1]}
    BY <1>4 DEF Restarts
  <2>2. n < Cardinality(u) /\ Cardinality(u) <= PoolSize /\ Cardinality(u) \in Nat /\ PoolSize \in Nat
    BY <2>1, SetsOfModules DEF TurnOf
  <2>3. p[2] \cup {p[1]} \subseteq Selectable
    BY <1>1, <1>2, <1>4 DEF Restarts
  <2> DEFINE w == p[2] \cup {p[1]}
  <2>4. Cardinality(w) \in Nat /\ Cardinality(w) >= 1
    BY <2>3, SetsOfModules
  <2> HIDE DEF w
  <2>5. m \notin w
    BY <2>1 DEF w
  <2> QED
    BY <2>2, <2>4, <2>5 DEF TurnOf, w
<1>5. CASE Repeats(p[1], p[2], u, shown)
  BY <1>5 DEF Repeats
<1> QED
  BY <1>1, <1>3, <1>4, <1>5

First == {<<p[1], p[2] \cup {p[1]}, <<p[1]>>>> : p \in Picks(used, ToSet(current))}

TriedAgain(tries) ==
    UNION {{<<p[1], p[2] \cup {p[1]}, Append(t[3], p[1])>> : p \in Picks(t[2], ToSet(current))}
           : t \in tries}

(* Something on screen is among those used, while there is another module. *)
AnchoredBy(u) ==
    current # <<>> => ToSet(current) \cap u # {} \/ Selectable \subseteq ToSet(current)

(* The module tried last, the used it leaves and all that were tried.      *)
Try(j, t) ==
    /\ t = <<t[1], t[2], t[3]>>
    /\ t[1] \in Selectable /\ t[1] \in t[2] /\ t[2] \subseteq Selectable
    /\ t[3] \in Seq(Selectable) /\ Len(t[3]) = j /\ t[1] \in ToSet(t[3])
    /\ t[1] \notin ToSet(current) \/ Selectable \subseteq ToSet(current)
    /\ AnchoredBy(used) => AnchoredBy(t[2])
    /\ Waits(since, used) =>
            \A m \in Selectable \ (ToSet(t[3]) \cup ToSet(current)) :
                TurnOf(m, since[m] + j, t[2])

(* One more try, of p, after those of s have left u. *)
LEMMA OneMoreTry ==
    ASSUME current \in Seq(Selectable), since \in [Installed -> Nat],
           NEW u, u \subseteq Selectable, NEW s \in Seq(Selectable), NEW j \in Nat, Len(s) = j,
           AnchoredBy(used) => AnchoredBy(u),
           Waits(since, used) =>
                \A m \in Selectable \ (ToSet(s) \cup ToSet(current)) : TurnOf(m, since[m] + j, u),
           NEW p \in Picks(u, ToSet(current))
    PROVE  Try(j + 1, <<p[1], p[2] \cup {p[1]}, Append(s, p[1])>>)
<1> DEFINE t == <<p[1], p[2] \cup {p[1]}, Append(s, p[1])>>
<1>1. /\ p[1] \in Selectable
      /\ p[1] \notin ToSet(current) \/ Selectable \subseteq ToSet(current)
      /\ p[2] \in {u, ToSet(current), {}}
  BY PickIs DEF Fresh, Restarts, Repeats
<1>2. p[2] \cup {p[1]} \subseteq Selectable
  BY <1>1, SequenceAsSet
<1>3. /\ Append(s, p[1]) \in Seq(Selectable) /\ Len(Append(s, p[1])) = j + 1
      /\ ToSet(Append(s, p[1])) = ToSet(s) \cup {p[1]}
  BY <1>1, AppendAsSet
<1>4. ASSUME Waits(since, used),
             NEW m \in Selectable \ (ToSet(Append(s, p[1])) \cup ToSet(current))
      PROVE  TurnOf(m, since[m] + (j + 1), p[2] \cup {p[1]})
  <2>1. since[m] \in Nat
    BY PoolIs
  <2>2. m # p[1] /\ m \notin ToSet(current) /\ m \notin ToSet(s)
    BY <1>3
  <2>3. TurnOf(m, since[m] + j, u)
    BY <1>4, <2>2
  <2>4. since[m] + j \in Nat /\ since[m] + j + 1 = since[m] + (j + 1)
    BY <2>1
  <2>5. TurnOf(m, since[m] + j + 1, p[2] \cup {p[1]})
    BY <2>2, <2>3, <2>4, TurnTaken
  <2> QED
    BY <2>4, <2>5
<1>5. t[1] = p[1] /\ t[2] = p[2] \cup {p[1]} /\ t[3] = Append(s, p[1])
  OBVIOUS
<1> HIDE DEF t
<1>6. t = <<t[1], t[2], t[3]>>
  BY DEF t
<1>7. AnchoredBy(used) => AnchoredBy(t[2])
  <2>1. p[2] \in {u, ToSet(current)} \/ Selectable \subseteq ToSet(current)
    BY PickIs DEF Fresh, Restarts, Repeats
  <2>2. current # <<>> => ToSet(current) # {}
    BY SequenceAsSet
  <2> QED
    BY <1>5, <2>1, <2>2 DEF AnchoredBy
<1>8. Try(j + 1, t)
  BY <1>1, <1>2, <1>3, <1>4, <1>5, <1>6, <1>7 DEF Try
<1> QED
  BY <1>8 DEF t

LEMMA TriedAgainIsTry ==
    ASSUME current \in Seq(Selectable), since \in [Installed -> Nat], NEW j \in Nat,
           NEW tries, \A t \in tries : Try(j, t), NEW q \in TriedAgain(tries)
    PROVE  Try(j + 1, q)
<1>1. PICK t \in tries : \E p \in Picks(t[2], ToSet(current)) :
                            q = <<p[1], p[2] \cup {p[1]}, Append(t[3], p[1])>>
  BY DEF TriedAgain
<1>2. PICK p \in Picks(t[2], ToSet(current)) :
                            q = <<p[1], p[2] \cup {p[1]}, Append(t[3], p[1])>>
  BY <1>1
<1>3. Try(j, t)
  OBVIOUS
<1>4. /\ t[2] \subseteq Selectable /\ t[3] \in Seq(Selectable) /\ Len(t[3]) = j
      /\ AnchoredBy(used) => AnchoredBy(t[2])
      /\ Waits(since, used) =>
            \A m \in Selectable \ (ToSet(t[3]) \cup ToSet(current)) :
                TurnOf(m, since[m] + j, t[2])
  BY <1>3 DEF Try
<1> QED
  BY <1>2, <1>4, OneMoreTry

LEMMA FirstIsTry ==
    ASSUME current \in Seq(Selectable), since \in [Installed -> Nat], used \subseteq Selectable,
           NEW q \in First
    PROVE  Try(1, q)
<1>1. PICK p \in Picks(used, ToSet(current)) : q = <<p[1], p[2] \cup {p[1]}, <<p[1]>>>>
  BY DEF First
<1>2. <<>> \in Seq(Selectable) /\ Len(<<>>) = 0 /\ Append(<<>>, p[1]) = <<p[1]>>
  BY EmptySeq
<1>3. ASSUME Waits(since, used), NEW m \in Selectable
      PROVE  TurnOf(m, since[m] + 0, used)
  <2>1. since[m] \in Nat
    BY PoolIs
  <2>2. since[m] + 0 = since[m]
    BY <2>1
  <2> QED
    BY <1>3, <2>2 DEF Waits
<1>4. Try(0 + 1, <<p[1], p[2] \cup {p[1]}, Append(<<>>, p[1])>>)
  BY <1>2, <1>3, OneMoreTry
<1> QED
  BY <1>1, <1>2, <1>4

TryTypes == Selectable \X (SUBSET Selectable) \X Seq(Selectable)

LEMMA TryTyped ==
    /\ \A m, u, s : m \in Selectable /\ u \subseteq Selectable /\ s \in Seq(Selectable)
            => <<m, u, s>> \in TryTypes
    /\ \A t \in TryTypes : t[2] \subseteq Selectable /\ t[3] \in Seq(Selectable)
BY DEF TryTypes

LEMMA TriedRecursive ==
    ASSUME current \in Seq(Selectable), used \subseteq Selectable, NEW k \in Nat
    PROVE  \E f : /\ Tried(k) = f[k]
                  /\ \A j \in 1..k : f[j] = IF j = 1 THEN First ELSE TriedAgain(f[j - 1])
<1> DEFINE D == SUBSET TryTypes
           F == [tries \in D |-> TriedAgain(tries)]
           f == CHOOSE g : g = [j \in 1..k |-> IF j = 1 THEN First ELSE TriedAgain(g[j - 1])]
<1>1. ASSUME NEW u, u \subseteq Selectable, NEW p \in Picks(u, ToSet(current))
      PROVE  p[1] \in Selectable /\ p[2] \cup {p[1]} \subseteq Selectable
  <2>1. p[1] \in Selectable /\ p[2] \in {u, ToSet(current), {}}
    BY PickIs DEF Fresh, Restarts, Repeats
  <2> QED
    BY <1>1, <2>1, SequenceAsSet
<1>2. First \in D
  <2> SUFFICES ASSUME NEW p \in Picks(used, ToSet(current))
               PROVE  <<p[1], p[2] \cup {p[1]}, <<p[1]>>>>
                        \in TryTypes
    BY DEF First
  <2>1. <<p[1]>> \in Seq(Selectable)
    BY <1>1
  <2>2. p[1] \in Selectable /\ p[2] \cup {p[1]} \subseteq Selectable
    BY <1>1
  <2> QED
    BY <2>1, <2>2, TryTyped
<1>3. ASSUME NEW tries \in D
      PROVE  TriedAgain(tries) \in D
  <2> DEFINE Of(p, t) == <<p[1], p[2] \cup {p[1]}, Append(t[3], p[1])>>
  <2>1. ASSUME NEW t \in tries, NEW p \in Picks(t[2], ToSet(current))
        PROVE  Of(p, t) \in TryTypes
    <3>1. t \in TryTypes
      OBVIOUS
    <3>2. t[2] \subseteq Selectable /\ t[3] \in Seq(Selectable)
      BY <3>1, TryTyped
    <3>3. p[1] \in Selectable /\ p[2] \cup {p[1]} \subseteq Selectable
      BY <1>1, <3>2
    <3>4. Append(t[3], p[1]) \in Seq(Selectable)
      BY <3>2, <3>3, AppendProperties
    <3> QED
      BY <3>3, <3>4, TryTyped
  <2>2. TriedAgain(tries) = UNION {{Of(p, t) : p \in Picks(t[2], ToSet(current))} : t \in tries}
    BY DEF TriedAgain
  <2> HIDE DEF Of
  <2>3. TriedAgain(tries) \subseteq TryTypes
    BY <2>1, <2>2
  <2> QED
    BY <2>3
<1>4. F \in [D -> D]
  BY <1>3
<1>5. \E g : g = [j \in 1..k |-> IF j = 1 THEN First ELSE TriedAgain(g[j - 1])]
  <2>1. \E g : Iterates(g, D, F, First, 1, k)
    <3> HIDE DEF D, F
    <3> QED
      BY <1>2, <1>4, Recursion
  <2>2. PICK g : Iterates(g, D, F, First, 1, k)
    BY <2>1
  <2>3. \A j \in 2..k : F[g[j - 1]] = TriedAgain(g[j - 1])
    <3>1. \A j \in 2..k : j - 1 \in 1..k
      OBVIOUS
    <3>2. g \in [1..k -> D]
      BY <2>2 DEF Iterates
    <3> QED
      BY <3>1, <3>2
  <2>4. g = [j \in 1..k |-> IF j = 1 THEN First ELSE TriedAgain(g[j - 1])]
    <3> HIDE DEF D, F
    <3>1. \A j \in 1..k : j # 1 => j \in 2..k
      OBVIOUS
    <3> QED
      BY <2>2, <2>3, <3>1 DEF Iterates
  <2> QED
    BY <2>4
<1>6. Tried(k) = f[k]
  BY Zenon DEF Tried, TriedAgain, First
<1>7. f = [j \in 1..k |-> IF j = 1 THEN First ELSE TriedAgain(f[j - 1])]
  BY <1>5, Zenon
<1> HIDE DEF f
<1>8. \A j \in 1..k : f[j] = IF j = 1 THEN First ELSE TriedAgain(f[j - 1])
  BY <1>7
<1> QED
  BY <1>6, <1>8

LEMMA TriedIsTry ==
    ASSUME current \in Seq(Selectable), since \in [Installed -> Nat], used \subseteq Selectable,
           NEW k \in Nat \ {0}, NEW t \in Tried(k)
    PROVE  Try(k, t)
<1>1. PICK f : /\ Tried(k) = f[k]
               /\ \A j \in 1..k : f[j] = IF j = 1 THEN First ELSE TriedAgain(f[j - 1])
  BY TriedRecursive
<1> DEFINE S == {j \in 1..k : \A q \in f[j] : Try(j, q)}
<1>2. 1 \in S
  <2>1. 1 \in 1..k /\ f[1] = First
    BY <1>1
  <2> QED
    BY <2>1, FirstIsTry
<1>3. ASSUME NEW j \in 1..k, j \in S, j + 1 <= k
      PROVE  j + 1 \in S
  <2>1. j + 1 \in 1..k /\ j + 1 - 1 = j /\ j + 1 # 1 /\ j \in Nat
    BY <1>3
  <2>2. f[j + 1] = TriedAgain(f[j])
    BY <1>1, <2>1
  <2>3. \A q \in TriedAgain(f[j]) : Try(j + 1, q)
    BY <1>3, <2>1, TriedAgainIsTry
  <2> QED
    BY <2>1, <2>2, <2>3
<1>4. 1..k \subseteq S
  <2> HIDE DEF S
  <2> QED
    BY <1>2, <1>3, InductionUpTo
<1> QED
  BY <1>1, <1>4

(***************************************************************************)
(* What is ticked is what may be picked: only Tick and the start set       *)
(* either.                                                                 *)
(***************************************************************************)
LEMMA SelectableIs == Selectable = Select(include, exclude)
BY DEF Selectable, Pool, Select

LEMMA FiltersKept ==
    ASSUME UNCHANGED filters
    PROVE  Selectable' = Selectable /\ UNCHANGED <<ticked, only>>
BY DEF filters, Selectable, Pool, Select

LEMMA StepsKeepFilters ==
    ASSUME [Next]_vars
    PROVE  \/ UNCHANGED filters
           \/ \E ticks \in SUBSET Installed, mode, each \in BOOLEAN : Tick(ticks, mode, each)
BY DEF Next, Launch, Exit, Stop, Reset, Land, Fail, CopyExit, vars, filters

(* What the settings window shows as ticked is what may be picked: for any *)
(* installed modules, and any changes of the ticks and of the mode.        *)
THEOREM TickedArePicked == Spec => []TickedIsSelectable
<1>1. Init => TickedIsSelectable
  BY SelectableIs DEF Init, TickedIsSelectable
<1>2. TickedIsSelectable /\ [Next]_vars => TickedIsSelectable'
  <2> SUFFICES ASSUME TickedIsSelectable, [Next]_vars
               PROVE  TickedIsSelectable'
    OBVIOUS
  <2>1. CASE UNCHANGED filters
    BY <2>1, FiltersKept DEF TickedIsSelectable
  <2>2. ASSUME NEW ticks \in SUBSET Installed, NEW mode \in BOOLEAN, NEW each \in BOOLEAN,
               Tick(ticks, mode, each)
        PROVE  TickedIsSelectable'
    <3>1. /\ ticked' = ticks /\ only' = mode
          /\ include' = IF mode THEN ticks ELSE {}
          /\ exclude' = IF mode THEN {} ELSE Installed \ ticks
      BY <2>2 DEF Tick
    <3>2. Selectable' = {m \in Installed : (include' = {} \/ m \in include') /\ m \notin exclude'}
      BY DEF Selectable, Pool, Select
    <3>3. CASE mode
      BY <3>1, <3>2, <3>3 DEF TickedIsSelectable
    <3>4. CASE ~mode
      BY <3>1, <3>2, <3>4 DEF TickedIsSelectable
    <3> QED
      BY <3>3, <3>4
  <2> QED
    BY <2>1, <2>2, StepsKeepFilters
<1> QED
  BY <1>1, <1>2, PTL DEF Spec

(***************************************************************************)
(* What makes the rest so.  A set on its way or on screen repeats a module *)
(* only for want of another.  And while one launch at a time is in flight, *)
(* the daemon counts on it; its modules and those on screen were picked    *)
(* last; one on screen is still counted as used, unless there is no other  *)
(* to show; and no module has waited for more turns than there are.        *)
(***************************************************************************)
Typed ==
    /\ used \subseteq Selectable
    /\ current \in Seq(Selectable)
    /\ flights \in Seq(Seq(Selectable))
    /\ since \in [Installed -> Nat]

SetsApart ==
    /\ \A i \in DOMAIN flights : Apart(flights[i])
    /\ Cardinality(Selectable) > Len(current) => Distinct(current)

Rested(names) == \A m \in ToSet(names) : since[m] = 0

Anchored == AnchoredBy(used)

Alone ==
    /\ Len(flights) <= 1
    /\ awaited \in BOOLEAN /\ (awaited <=> flights # <<>>)
    /\ \A i \in DOMAIN flights :
            flights[i] # <<>> /\ ToSet(flights[i]) \subseteq used /\ Rested(flights[i])
    /\ Rested(current) /\ Anchored /\ Waits(since, used)

PickInv == Typed /\ SetsApart /\ (~overlap => Alone)

(***************************************************************************)
(* Turns, as they are counted.                                             *)
(***************************************************************************)
LEMMA PickedCounts ==
    ASSUME since \in [Installed -> Nat], NEW names, Len(names) \in Nat, Picked(names)
    PROVE  /\ since' \in [Installed -> Nat]
           /\ \A m \in Installed :
                IF m \in ToSet(names) \cup ToSet(current) THEN since'[m] = 0
                ELSE since'[m] <= since[m] + Len(names)
<1>1. Longest \in Nat
  BY InstalledAssumption, FS_CardinalityType DEF Longest
<1>2. \A m \in Installed :
        since'[m] = IF m \in ToSet(names) \cup ToSet(current) THEN 0
                    ELSE IF since[m] + Len(names) > Longest THEN Longest
                    ELSE since[m] + Len(names)
  BY DEF Picked
<1>3. since' = [m \in Installed |-> since'[m]]
  BY DEF Picked
<1>4. \A m \in Installed : since[m] \in Nat
  OBVIOUS
<1>5. \A m \in Installed : since'[m] \in Nat
  BY <1>1, <1>2, <1>4
<1>6. since' \in [Installed -> Nat]
  BY <1>3, <1>5
<1> QED
  BY <1>1, <1>2, <1>4, <1>6

LEMMA RestedTurn ==
    ASSUME NEW u, u \subseteq Selectable, NEW m \in Selectable
    PROVE  TurnOf(m, 0, u)
<1>1. Cardinality(u) \in Nat /\ (m \in u => Cardinality(u) >= 1)
  BY SetsOfModules
<1>2. PoolSize >= 1 /\ PoolSize \in Nat
  BY SetsOfModules DEF PoolSize
<1> QED
  BY <1>1, <1>2 DEF TurnOf

LEMMA SoonerTurn ==
    ASSUME NEW u, u \subseteq Selectable, NEW m \in Selectable,
           NEW n \in Nat, NEW k \in Nat, k <= n, TurnOf(m, n, u)
    PROVE  TurnOf(m, k, u)
BY SetsOfModules DEF TurnOf

LEMMA WaitsNext ==
    ASSUME Selectable' = Selectable,
           \A m \in Selectable : TurnOf(m, since'[m], used')
    PROVE  Waits(since, used)'
BY DEF Waits, TurnOf, PoolSize

(* A launch of what pickSet gave takes its turns from the others.          *)
LEMMA LaunchTurns ==
    ASSUME Typed, Waits(since, used), NEW k \in Nat, NEW p, PickedSet(k, p),
           NEW m \in Selectable, m \notin ToSet(p[1]) \cup ToSet(current)
    PROVE  TurnOf(m, since[m] + k, p[2] \cup ToSet(p[1]))
<1> DEFINE N == ToSet(p[1])
<1>1. p[1] \in Seq(Selectable) /\ Len(p[1]) = k /\ Leaves(p[1], p[2])
  BY DEF PickedSet
<1>2. N \subseteq Selectable /\ IsFiniteSet(N) /\ Cardinality(N) = k
  BY SequenceAsSet DEF PickedSet, Apart
<1>3. since[m] \in Nat /\ TurnOf(m, since[m], used)
  BY PoolIs DEF Typed, Waits
<1>4. /\ used \subseteq Selectable /\ IsFiniteSet(used) /\ Cardinality(used) \in Nat
      /\ Cardinality(used) <= PoolSize /\ PoolSize \in Nat
  BY SetsOfModules DEF Typed
<1>5. CASE p[2] = used /\ N \cap used = {}
  <2>1. Cardinality(used \cup N) = Cardinality(used) + k
    <3>1. used \cap N = {} /\ Cardinality({}) = 0
      BY <1>5, FS_EmptySet
    <3>2. Cardinality(used \cup N) = Cardinality(used) + Cardinality(N) - Cardinality(used \cap N)
      BY <1>2, <1>4, FS_Union
    <3>3. Cardinality(used \cap N) = 0
      BY <3>1, Zenon
    <3> HIDE DEF N
    <3> QED
      BY <1>2, <1>4, <3>2, <3>3
  <2>2. m \in used \cup N <=> m \in used
    OBVIOUS
  <2> DEFINE w == used \cup N
  <2>3. Cardinality(w) = Cardinality(used) + k /\ (m \in w <=> m \in used)
    BY <2>1, <2>2
  <2>4. p[2] \cup N = w
    BY <1>5
  <2> HIDE DEF w, N
  <2>5. TurnOf(m, since[m] + k, w)
    BY <1>3, <1>4, <2>3 DEF TurnOf
  <2> QED
    BY <2>4, <2>5 DEF N
<1>6. CASE p[2] = ToSet(current) /\ Selectable \subseteq used \cup N
  <2> DEFINE w == p[2] \cup N
  <2>1. m \in used /\ m \notin w
    BY <1>6
  <2>2. since[m] < Cardinality(used)
    BY <1>3, <2>1 DEF TurnOf
  <2>3. w \subseteq Selectable
    BY <1>2, <1>6, SequenceAsSet DEF Typed
  <2>4. IsFiniteSet(w) /\ Cardinality(w) \in Nat
    BY <2>3, SetsOfModules
  <2>5. k <= Cardinality(w)
    BY <1>2, <2>4, FS_Subset
  <2> HIDE DEF w, N
  <2>6. TurnOf(m, since[m] + k, w)
    BY <1>3, <1>4, <2>1, <2>2, <2>4, <2>5 DEF TurnOf
  <2> QED
    BY <2>6 DEF w, N
<1>7. CASE Selectable \subseteq ToSet(current) \cup N
  BY <1>7
<1> QED
  BY <1>1, <1>5, <1>6, <1>7 DEF Leaves

(***************************************************************************)
(* A launch, beside others.                                                *)
(***************************************************************************)
LEMMA SizesPositive == \A n \in Sizes : n \in Nat \ {0}
BY BoundsAssumption DEF Sizes

(* What startLaunch does with what it picked.                              *)
Started(others, isDead, was, n, p) ==
    IF Keeps(p[1], isDead)
    THEN used' = p[2] /\ flights' = others /\ awaited' = was /\ UNCHANGED since
    ELSE /\ used' = p[2] \cup ToSet(p[1])
         /\ flights' = Append(others, p[1]) /\ awaited' = TRUE
         /\ Picked(p[1])

LEMMA StartLaunchPicks ==
    ASSUME Typed, NEW others, NEW isDead, NEW was, StartLaunch(others, isDead, was)
    PROVE  \E n \in Nat \ {0} : \E p : PickedSet(n, p) /\ Started(others, isDead, was, n, p)
<1>1. PICK n \in Sizes : \E p \in PickSets(n) : Started(others, isDead, was, n, p)
  BY DEF StartLaunch, Started
<1>2. PICK p \in PickSets(n) : Started(others, isDead, was, n, p)
  BY <1>1
<1>3. n \in Nat \ {0}
  BY SizesPositive
<1>4. PickedSet(n, p)
  BY <1>3, PickSetsArePicked DEF Typed
<1> QED
  BY <1>2, <1>3, <1>4

(* It leaves used and since typed, and the set it launches apart.          *)
LEMMA StartedTyped ==
    ASSUME Typed, UNCHANGED <<filters, current>>, NEW others \in Seq(Seq(Selectable)),
           NEW isDead, NEW was, NEW n \in Nat \ {0}, NEW p,
           PickedSet(n, p), Started(others, isDead, was, n, p)
    PROVE  Typed'
<1>1. p[1] \in Seq(Selectable) /\ Len(p[1]) = n /\ p[2] \in {used, ToSet(current), {}}
  BY DEF PickedSet, Leaves
<1>2. p[2] \subseteq Selectable /\ ToSet(p[1]) \subseteq Selectable
  BY <1>1, SequenceAsSet DEF Typed
<1>3. Selectable' = Selectable
  BY FiltersKept
<1>4. current' \in Seq(Selectable) /\ used' \subseteq Selectable
  BY <1>2 DEF Started, Typed
<1>5. flights' \in Seq(Seq(Selectable))
  BY <1>1, AppendProperties DEF Started
<1>6. since' \in [Installed -> Nat]
  <2>1. Len(p[1]) \in Nat
    BY <1>1
  <2> QED
    BY <2>1, PickedCounts DEF Started, Typed
<1> QED
  BY <1>3, <1>4, <1>5, <1>6 DEF Typed

LEMMA StartedApart ==
    ASSUME Typed, SetsApart, UNCHANGED <<filters, current>>,
           NEW others \in Seq(Seq(Selectable)), \A i \in DOMAIN others : Apart(others[i]),
           NEW isDead, NEW was, NEW n \in Nat \ {0}, NEW p,
           PickedSet(n, p), Started(others, isDead, was, n, p)
    PROVE  SetsApart'
<1>1. Selectable' = Selectable
  BY FiltersKept
<1>2. p[1] \in Seq(Selectable) /\ Apart(p[1])
  BY DEF PickedSet
<1>3. \A i \in DOMAIN flights' : Apart(flights'[i])
  <2>1. CASE flights' = others
    BY <2>1
  <2>2. CASE flights' = Append(others, p[1])
    <3>1. /\ DOMAIN others = 1..Len(others) /\ Len(others) \in Nat
          /\ DOMAIN Append(others, p[1]) = 1..(Len(others) + 1)
          /\ \A i \in 1..Len(others) : Append(others, p[1])[i] = others[i]
          /\ Append(others, p[1])[Len(others) + 1] = p[1]
      BY <1>2, AppendProperties, LenProperties
    <3> QED
      BY <1>2, <2>2, <3>1
  <2> QED
    BY <2>1, <2>2 DEF Started
<1>4. Cardinality(Selectable') > Len(current') => Distinct(current')
  BY <1>1 DEF SetsApart
<1>5. (\A i \in DOMAIN flights : Apart(flights[i]))'
  BY <1>1, <1>3 DEF Apart
<1> QED
  BY <1>4, <1>5 DEF SetsApart, Distinct

(* Alone, it keeps what holds of one launch at a time.                     *)
LEMMA KeptAlone ==
    ASSUME Typed, UNCHANGED <<filters, current, since>>,
           Rested(current), Anchored, Waits(since, used),
           flights' = <<>>, awaited' = FALSE, current # <<>>,
           NEW n \in Nat \ {0}, NEW p, PickedSet(n, p), p[1] = current, used' = p[2]
    PROVE  Alone'
<1>1. Selectable' = Selectable
  BY FiltersKept
<1>2. Leaves(current, p[2]) /\ current \in Seq(Selectable)
  BY DEF PickedSet
<1>3. ToSet(current) # {}
  BY <1>2, SequenceAsSet
<1>4. Rested(current)' /\ Len(flights') <= 1 /\ DOMAIN flights' = {}
  BY DEF Rested
<1>5. CASE used' = used
  <2>1. Anchored'
    BY <1>1, <1>5 DEF Anchored, AnchoredBy
  <2>2. Waits(since, used)'
    BY <1>1, <1>5 DEF Waits, TurnOf, PoolSize
  <2> QED
    BY <1>4, <2>1, <2>2 DEF Alone
<1>6. CASE used' = {} /\ Selectable \subseteq ToSet(current)
  <2>1. Anchored'
    BY <1>1, <1>6 DEF Anchored, AnchoredBy
  <2>2. \A m \in Selectable : TurnOf(m, 0, {})
    BY RestedTurn
  <2>3. \A m \in Selectable : since[m] = 0
    BY <1>6 DEF Rested
  <2>4. Waits(since, used)'
    BY <1>1, <1>6, <2>2, <2>3, WaitsNext
  <2> QED
    BY <1>4, <2>1, <2>4 DEF Alone
<1>7. used' = used \/ (used' = {} /\ Selectable \subseteq ToSet(current))
  BY <1>2, <1>3 DEF Leaves
<1> QED
  BY <1>5, <1>6, <1>7

LEMMA LaunchedAlone ==
    ASSUME Typed, UNCHANGED <<filters, current>>, Anchored, Waits(since, used),
           NEW n \in Nat \ {0}, NEW p, PickedSet(n, p),
           used' = p[2] \cup ToSet(p[1]), flights' = <<p[1]>>, awaited' = TRUE,
           Picked(p[1])
    PROVE  Alone'
<1>1. Selectable' = Selectable
  BY FiltersKept
<1>2. p[1] \in Seq(Selectable) /\ Len(p[1]) = n /\ Leaves(p[1], p[2])
  BY DEF PickedSet
<1>3. /\ p[1] # <<>> /\ ToSet(p[1]) # {} /\ ToSet(p[1]) \subseteq Selectable
      /\ ToSet(current) \subseteq Selectable
      /\ (current # <<>> => ToSet(current) # {})
  BY <1>2, SequenceAsSet, EmptySeq DEF Typed
<1>4. used' \subseteq Selectable
  BY <1>2, <1>3 DEF Leaves, Typed
<1>5. /\ since' \in [Installed -> Nat]
      /\ \A m \in Installed :
            IF m \in ToSet(p[1]) \cup ToSet(current) THEN since'[m] = 0
            ELSE since'[m] <= since[m] + n
  BY <1>2, PickedCounts DEF Typed
<1>6. Rested(p[1])' /\ Rested(current)'
  BY <1>3, <1>5, PoolIs DEF Rested
<1>7. Anchored'
  BY <1>1, <1>2, <1>3 DEF Leaves, Anchored, AnchoredBy
<1>8. Waits(since, used)'
  <2>1. ASSUME NEW m \in Selectable
        PROVE  TurnOf(m, since'[m], used')
    <3>1. m \in Installed /\ since[m] \in Nat /\ since'[m] \in Nat
      BY <1>5, PoolIs DEF Typed
    <3>2. CASE m \in ToSet(p[1]) \cup ToSet(current)
      <4>1. since'[m] = 0
        BY <1>5, <3>1, <3>2
      <4> QED
        BY <1>4, <4>1, RestedTurn
    <3>3. CASE m \notin ToSet(p[1]) \cup ToSet(current)
      <4>1. since'[m] <= since[m] + n /\ since[m] + n \in Nat
        BY <1>5, <3>1, <3>3
      <4>2. TurnOf(m, since[m] + n, used')
        BY <3>3, LaunchTurns
      <4> QED
        BY <1>4, <3>1, <4>1, <4>2, SoonerTurn
    <3> QED
      BY <3>2, <3>3
  <2> QED
    BY <1>1, <2>1, WaitsNext
<1>9. /\ DOMAIN flights' = {1} /\ flights'[1] = p[1] /\ Len(flights') = 1
      /\ flights' # <<>>
  OBVIOUS
<1>10. (\A i \in DOMAIN flights :
            flights[i] # <<>> /\ ToSet(flights[i]) \subseteq used /\ Rested(flights[i]))'
  BY <1>3, <1>6, <1>9 DEF Rested
<1> QED
  BY <1>6, <1>7, <1>8, <1>9, <1>10 DEF Alone

LEMMA StartLaunchKeeps ==
    ASSUME Typed, SetsApart, ~overlap => Alone, UNCHANGED <<filters, current>>,
           NEW others \in Seq(Seq(Selectable)), \A i \in DOMAIN others : Apart(others[i]),
           NEW isDead, NEW was, StartLaunch(others, isDead, was),
           ~overlap' => was = FALSE
    PROVE  PickInv'
<1>1. PICK n \in Nat \ {0} : \E p : PickedSet(n, p) /\ Started(others, isDead, was, n, p)
  BY StartLaunchPicks
<1>2. PICK p : PickedSet(n, p) /\ Started(others, isDead, was, n, p)
  BY <1>1
<1>3. Typed' /\ SetsApart'
  BY <1>2, StartedTyped, StartedApart
<1>4. ASSUME ~overlap'
      PROVE  Alone'
  <2>1. ~overlap /\ others = <<>> /\ was = FALSE
    BY <1>4 DEF StartLaunch
  <2>2. Rested(current) /\ Anchored /\ Waits(since, used)
    BY <2>1 DEF Alone
  <2>3. CASE Keeps(p[1], isDead)
    <3>1. /\ current # <<>> /\ p[1] = current /\ used' = p[2]
          /\ flights' = <<>> /\ awaited' = FALSE /\ UNCHANGED since
      BY <1>2, <2>1, <2>3 DEF Keeps, Started
    <3> QED
      BY <1>2, <2>2, <3>1, KeptAlone
  <2>4. CASE ~Keeps(p[1], isDead)
    <3>1. /\ used' = p[2] \cup ToSet(p[1]) /\ flights' = <<p[1]>>
          /\ awaited' = TRUE /\ Picked(p[1])
      BY <1>2, <2>1, <2>4 DEF Started
    <3> QED
      BY <1>2, <2>2, <3>1, LaunchedAlone
  <2> QED
    BY <2>3, <2>4
<1> QED
  BY <1>3, <1>4 DEF PickInv

(***************************************************************************)
(* The other steps.                                                        *)
(***************************************************************************)
LEMMA RemovedFrom ==
    ASSUME NEW S, NEW s \in Seq(S), NEW i \in DOMAIN s
    PROVE  /\ RemoveAt(s, i) \in Seq(S) /\ Len(RemoveAt(s, i)) = Len(s) - 1
           /\ \A j \in DOMAIN RemoveAt(s, i) : \E k \in DOMAIN s : RemoveAt(s, i)[j] = s[k]
<1> DEFINE left == SubSeq(s, 1, i - 1)
           right == SubSeq(s, i + 1, Len(s))
<1>1. DOMAIN s = 1..Len(s) /\ Len(s) \in Nat /\ i \in 1..Len(s)
  BY LenProperties
<1>2. \A j \in 1..Len(s) : s[j] \in S
  BY <1>1, ElementOfSeq
<1>3. /\ left \in Seq(S) /\ Len(left) = i - 1
      /\ \A j \in 1..(i - 1) : left[j] = s[j]
  <2>1. 1 \in Int /\ i - 1 \in Int /\ \A j \in 1..(i - 1) : s[j] \in S
    BY <1>1, <1>2
  <2>2. /\ left \in Seq(S)
        /\ Len(left) = IF 1 <= i - 1 THEN i - 1 - 1 + 1 ELSE 0
        /\ \A j \in 1..(i - 1 - 1 + 1) : left[j] = s[1 + j - 1]
    BY <2>1, SubSeqProperties
  <2> HIDE DEF left
  <2> QED
    BY <1>1, <2>2
<1>4. /\ right \in Seq(S) /\ Len(right) = Len(s) - i
      /\ \A j \in 1..(Len(s) - i) : right[j] = s[i + j]
  <2>1. i + 1 \in Int /\ Len(s) \in Int /\ \A j \in (i + 1)..Len(s) : s[j] \in S
    BY <1>1, <1>2
  <2>2. /\ right \in Seq(S)
        /\ Len(right) = IF i + 1 <= Len(s) THEN Len(s) - (i + 1) + 1 ELSE 0
        /\ \A j \in 1..(Len(s) - (i + 1) + 1) : right[j] = s[i + 1 + j - 1]
    BY <2>1, SubSeqProperties
  <2> HIDE DEF right
  <2>3. Len(right) = Len(s) - i
    BY <1>1, <2>2
  <2>4. \A j \in 1..(Len(s) - i) :
            j \in 1..(Len(s) - (i + 1) + 1) /\ i + 1 + j - 1 = i + j
    BY <1>1
  <2> QED
    BY <2>2, <2>3, <2>4
<1>5. RemoveAt(s, i) = left \o right
  BY DEF RemoveAt
<1> HIDE DEF left, right
<1>6. /\ left \o right \in Seq(S) /\ Len(left \o right) = Len(s) - 1
      /\ \A j \in 1..(Len(s) - 1) :
            (left \o right)[j] = IF j <= i - 1 THEN left[j] ELSE right[j - (i - 1)]
  <2>1. Len(left) + Len(right) = Len(s) - 1
    BY <1>1, <1>3, <1>4
  <2>2. /\ left \o right \in Seq(S) /\ Len(left \o right) = Len(left) + Len(right)
        /\ \A j \in 1..(Len(left) + Len(right)) :
              (left \o right)[j] = IF j <= Len(left) THEN left[j] ELSE right[j - Len(left)]
    BY <1>3, <1>4, ConcatProperties
  <2> QED
    BY <1>3, <2>1, <2>2
<1>7. ASSUME NEW j \in 1..(Len(s) - 1)
      PROVE  \E k \in 1..Len(s) : (left \o right)[j] = s[k]
  <2>1. CASE j <= i - 1
    <3>1. (left \o right)[j] = s[j] /\ j \in 1..Len(s)
      BY <1>1, <1>3, <1>6, <2>1
    <3> QED
      BY <3>1
  <2>2. CASE j > i - 1
    <3>1. j - (i - 1) \in 1..(Len(s) - i) /\ i + (j - (i - 1)) = j + 1 /\ j + 1 \in 1..Len(s)
      BY <1>1, <2>2
    <3>2. (left \o right)[j] = right[j - (i - 1)]
      <4>1. ~(j <= i - 1)
        BY <1>1, <2>2
      <4>2. (left \o right)[j] = IF j <= i - 1 THEN left[j] ELSE right[j - (i - 1)]
        BY <1>6
      <4> QED
        BY ONLY <4>1, <4>2, Zenon
    <3>3. right[j - (i - 1)] = s[i + (j - (i - 1))]
      BY <1>4, <3>1
    <3> QED
      BY <3>1, <3>2, <3>3
  <2>3. j <= i - 1 \/ j > i - 1
    BY <1>1
  <2> QED
    BY <2>1, <2>2, <2>3
<1>8. DOMAIN (left \o right) = 1..(Len(s) - 1)
  BY <1>6, LenProperties
<1>9. \A j \in DOMAIN (left \o right) : \E k \in DOMAIN s : (left \o right)[j] = s[k]
  BY <1>1, <1>7, <1>8
<1> QED
  BY ONLY <1>5, <1>6, <1>9, Zenon

LEMMA SameKeeps ==
    ASSUME PickInv,
           UNCHANGED <<filters, used, current, flights, awaited, since, overlap>>
    PROVE  PickInv'
<1>1. Selectable' = Selectable
  BY FiltersKept
<1>2. Typed'
  BY <1>1 DEF PickInv, Typed
<1>3. SetsApart'
  BY <1>1 DEF PickInv, SetsApart, Apart, Distinct
<1>4. ASSUME Alone
      PROVE  Alone'
  <2>1. Rested(current)' /\ Anchored'
    BY <1>1, <1>4 DEF Alone, Rested, Anchored, AnchoredBy
  <2>2. Waits(since, used)'
    BY <1>1, <1>4 DEF Alone, Waits, TurnOf, PoolSize
  <2> QED
    BY <1>4, <2>1, <2>2 DEF Alone, Rested
<1> QED
  BY <1>2, <1>3, <1>4 DEF PickInv

LEMMA LaunchKeeps ==
    ASSUME PickInv, Launch
    PROVE  PickInv'
<1>1. StartLaunch(flights, dead, awaited) /\ UNCHANGED <<filters, current>>
  BY DEF Launch
<1>2. flights \in Seq(Seq(Selectable)) /\ \A i \in DOMAIN flights : Apart(flights[i])
  BY DEF PickInv, Typed, SetsApart
<1>3. ~overlap' => awaited = FALSE
  BY <1>1 DEF StartLaunch, PickInv, Alone
<1> QED
  BY <1>1, <1>2, <1>3, StartLaunchKeeps DEF PickInv

LEMMA ExitKeeps ==
    ASSUME PickInv, Exit
    PROVE  PickInv'
<1>1. CASE awaited /\ UNCHANGED <<filters, used, current, flights, awaited, since, overlap>>
  BY <1>1, SameKeeps
<1>2. CASE /\ ~awaited /\ StartLaunch(flights, TRUE, FALSE)
           /\ UNCHANGED <<filters, current>>
  <2>1. flights \in Seq(Seq(Selectable)) /\ \A i \in DOMAIN flights : Apart(flights[i])
    BY DEF PickInv, Typed, SetsApart
  <2> QED
    BY <1>2, <2>1, StartLaunchKeeps DEF PickInv
<1>3. CASE Dark /\ UNCHANGED <<filters, used, flights, awaited, since, overlap>>
  <2>1. Selectable' = Selectable /\ current' = <<>>
    BY <1>3, FiltersKept DEF Dark
  <2>2. <<>> \in Seq(Selectable) /\ Distinct(<<>>) /\ ToSet(<<>>) = {}
    BY EmptySeq DEF Distinct, ToSet
  <2>3. Typed'
    BY <1>3, <2>1, <2>2 DEF PickInv, Typed
  <2>4. SetsApart'
    BY <1>3, <2>1, <2>2 DEF PickInv, SetsApart, Apart, Distinct
  <2>5. Alone => Alone'
    BY <1>3, <2>1, <2>2 DEF Alone, Rested, Anchored, AnchoredBy, Waits, TurnOf, PoolSize
  <2> QED
    BY <1>3, <2>3, <2>4, <2>5 DEF PickInv
<1> QED
  BY <1>1, <1>2, <1>3 DEF Exit

LEMMA FailKeeps ==
    ASSUME PickInv, NEW i \in DOMAIN flights, Fail(i)
    PROVE  PickInv'
<1> DEFINE others == RemoveAt(flights, i)
<1>1. UNCHANGED filters /\ Selectable' = Selectable
  BY FiltersKept DEF Fail
<1>2. flights \in Seq(Seq(Selectable))
  BY DEF PickInv, Typed
<1>3. /\ others \in Seq(Seq(Selectable)) /\ Len(others) = Len(flights) - 1
      /\ \A j \in DOMAIN others : \E k \in DOMAIN flights : others[j] = flights[k]
  BY <1>2, RemovedFrom
<1>4. \A j \in DOMAIN others : Apart(others[j])
  BY <1>3 DEF PickInv, SetsApart
<1>5. ~overlap => others = <<>>
  <2>1. Len(flights) \in Nat /\ Len(others) \in Nat /\ (others # <<>> => Len(others) # 0)
    BY <1>2, <1>3, LenProperties, EmptySeq
  <2> HIDE DEF others
  <2> QED
    BY <1>3, <2>1 DEF PickInv, Alone
<1> HIDE DEF others
<1>6. CASE StartLaunch(others, dead, FALSE) /\ UNCHANGED <<current, dead>>
  <2>1. UNCHANGED <<filters, current>>
    BY <1>1, <1>6
  <2> QED
    BY <1>3, <1>4, <1>6, <2>1, StartLaunchKeeps DEF PickInv
<1>7. CASE /\ flights' = others /\ awaited' = FALSE
           /\ UNCHANGED <<used, since, overlap>>
           /\ IF dead THEN Dark ELSE UNCHANGED <<current, dead>>
  <2>1. current' = current \/ current' = <<>>
    BY <1>7 DEF Dark
  <2>2. <<>> \in Seq(Selectable) /\ Distinct(<<>>) /\ ToSet(<<>>) = {}
    BY EmptySeq DEF Distinct, ToSet
  <2>3. Typed'
    BY <1>1, <1>3, <1>7, <2>1, <2>2 DEF PickInv, Typed
  <2>4. SetsApart'
    <3>1. (\A j \in DOMAIN flights : Apart(flights[j]))'
      BY <1>1, <1>4, <1>7 DEF Apart, Distinct
    <3>2. (Cardinality(Selectable) > Len(current) => Distinct(current))'
      BY <1>1, <2>1, <2>2 DEF PickInv, SetsApart, Distinct
    <3> QED
      BY <3>1, <3>2 DEF SetsApart
  <2>5. ASSUME ~overlap'
        PROVE  Alone'
    <3>1. ~overlap /\ flights' = <<>> /\ awaited' = FALSE
      BY <1>5, <1>7, <2>5
    <3>2. Rested(current) /\ Anchored /\ Waits(since, used)
      BY <3>1 DEF PickInv, Alone
    <3>3. Rested(current)' /\ Anchored'
      BY <1>1, <1>7, <2>1, <2>2, <3>2 DEF Rested, Anchored, AnchoredBy
    <3>4. Waits(since, used)'
      BY <1>1, <1>7, <3>2 DEF Waits, TurnOf, PoolSize
    <3>5. Len(flights') <= 1 /\ DOMAIN flights' = {}
      BY <3>1
    <3> QED
      BY <3>1, <3>3, <3>4, <3>5 DEF Alone
  <2> QED
    BY <2>3, <2>4, <2>5 DEF PickInv
<1> QED
  BY <1>6, <1>7 DEF Fail, others

LEMMA LandKeeps ==
    ASSUME PickInv, NEW i \in DOMAIN flights, Land(i)
    PROVE  PickInv'
<1> DEFINE others == RemoveAt(flights, i)
           names == flights[i]
<1>1. /\ UNCHANGED <<filters, used, since, overlap>> /\ Selectable' = Selectable
      /\ current' = names /\ flights' = others /\ awaited' = FALSE
  BY FiltersKept DEF Land
<1>2. flights \in Seq(Seq(Selectable)) /\ names \in Seq(Selectable) /\ Apart(names)
  BY LenProperties DEF PickInv, Typed, SetsApart
<1>3. /\ others \in Seq(Seq(Selectable)) /\ Len(others) = Len(flights) - 1
      /\ \A j \in DOMAIN others : \E k \in DOMAIN flights : others[j] = flights[k]
  BY <1>2, RemovedFrom
<1>4. \A j \in DOMAIN others : Apart(others[j])
  BY <1>3 DEF PickInv, SetsApart
<1>5. ~overlap => others = <<>>
  <2>1. Len(flights) \in Nat /\ Len(others) \in Nat /\ (others # <<>> => Len(others) # 0)
    BY <1>2, <1>3, LenProperties, EmptySeq
  <2> HIDE DEF others
  <2> QED
    BY <1>3, <2>1 DEF PickInv, Alone
<1>6. /\ ToSet(names) \subseteq Selectable /\ (names # <<>> => ToSet(names) # {})
      /\ Cardinality(ToSet(names)) <= Len(names) /\ Len(names) \in Nat
      /\ IsFiniteSet(ToSet(names))
  BY <1>2, SequenceAsSet, LenProperties
<1>7. Cardinality(Selectable) > Len(names) => Distinct(names)
  <2>1. CASE Selectable \subseteq ToSet(names)
    <3>1. Selectable = ToSet(names)
      BY <1>6, <2>1
    <3>2. Cardinality(ToSet(names)) \in Nat
      BY <1>6, FS_CardinalityType
    <3> QED
      BY <1>6, <3>1, <3>2
  <2> QED
    BY <1>2, <2>1 DEF Apart
<1>8. ~overlap => names # <<>> /\ ToSet(names) \subseteq used /\ Rested(names)
  BY DEF PickInv, Alone
<1> HIDE DEF others, names
<1>9. Typed'
  BY <1>1, <1>2, <1>3 DEF PickInv, Typed
<1>10. SetsApart'
  <2>1. (\A j \in DOMAIN flights : Apart(flights[j]))'
    BY <1>1, <1>4 DEF Apart, Distinct
  <2> QED
    BY <1>1, <1>7, <2>1 DEF SetsApart, Distinct
<1>11. ASSUME ~overlap'
       PROVE  Alone'
  <2>1. ~overlap /\ flights' = <<>> /\ awaited' = FALSE
    BY <1>1, <1>5, <1>11
  <2>2. Waits(since, used)'
    BY <1>1, <2>1 DEF PickInv, Alone, Waits, TurnOf, PoolSize
  <2>3. Rested(current)' /\ Anchored'
    BY <1>1, <1>6, <1>8, <2>1 DEF Rested, Anchored, AnchoredBy
  <2>4. Len(flights') <= 1 /\ DOMAIN flights' = {}
    BY <2>1
  <2> QED
    BY <2>1, <2>2, <2>3, <2>4 DEF Alone
<1> QED
  BY <1>9, <1>10, <1>11 DEF PickInv

LEMMA StopKeeps ==
    ASSUME PickInv, Stop
    PROVE  PickInv'
<1>1. /\ current' = <<>> /\ flights' = <<>> /\ awaited' = FALSE
      /\ UNCHANGED <<used, since, overlap>> /\ Selectable' = Selectable
  BY FiltersKept DEF Stop, Dark
<1>2. /\ <<>> \in Seq(Selectable) /\ <<>> \in Seq(Seq(Selectable))
      /\ Distinct(<<>>) /\ ToSet(<<>>) = {} /\ DOMAIN <<>> = {} /\ Len(<<>>) <= 1
  BY EmptySeq DEF Distinct, ToSet
<1>3. Typed'
  BY <1>1, <1>2 DEF PickInv, Typed
<1>4. SetsApart'
  BY <1>1, <1>2 DEF SetsApart, Distinct
<1>5. ASSUME ~overlap'
      PROVE  Alone'
  <2>1. Waits(since, used)'
    BY <1>1, <1>5 DEF PickInv, Alone, Waits, TurnOf, PoolSize
  <2>2. Rested(current)' /\ Anchored'
    BY <1>1, <1>2 DEF Rested, Anchored, AnchoredBy
  <2> QED
    BY <1>1, <1>2, <2>1, <2>2 DEF Alone
<1> QED
  BY <1>3, <1>4, <1>5 DEF PickInv

(* A cycle begins with nothing used, and nothing shown.                    *)
LEMMA NothingKeeps ==
    ASSUME Nothing
    PROVE  PickInv'
<1>1. /\ current' = <<>> /\ flights' = <<>> /\ awaited' = FALSE /\ used' = {}
      /\ since' = [m \in Installed |-> 0] /\ overlap' = FALSE
  BY DEF Nothing, Dark
<1>2. /\ \A S : <<>> \in Seq(S)
      /\ Distinct(<<>>) /\ ToSet(<<>>) = {} /\ DOMAIN <<>> = {} /\ Len(<<>>) <= 1
  BY EmptySeq DEF Distinct, ToSet
<1>3. Typed'
  BY <1>1, <1>2 DEF Typed
<1>4. SetsApart'
  BY <1>1, <1>2 DEF SetsApart, Distinct
<1>5. Waits(since, used)'
  <2>1. Selectable' \subseteq Installed
    BY DEF Selectable, Pool, Select
  <2>2. IsFiniteSet(Selectable')
    BY <2>1, InstalledAssumption, FS_Subset
  <2>3. /\ Cardinality(Selectable') \in Nat
        /\ \A m \in Selectable' : Cardinality(Selectable') > 0
    BY <2>2, FS_CardinalityType, FS_EmptySet
  <2>4. Cardinality({}) = 0
    BY FS_EmptySet
  <2>5. \A m \in Selectable' : since'[m] = 0
    BY <1>1, <2>1
  <2>6. ASSUME NEW m \in Selectable'
        PROVE  TurnOf(m, since[m], used)'
    BY <1>1, <2>3, <2>4, <2>5 DEF TurnOf, PoolSize
  <2> QED
    BY <2>6 DEF Waits
<1>6. Rested(current)' /\ Anchored'
  BY <1>1, <1>2 DEF Rested, Anchored, AnchoredBy
<1>7. Alone'
  BY <1>1, <1>2, <1>5, <1>6 DEF Alone
<1> QED
  BY <1>3, <1>4, <1>7 DEF PickInv

(* One monitor's module is replaced.                                       *)
LEMMA CopyExitKeeps ==
    ASSUME PickInv, NEW i \in DOMAIN current, CopyExit(i)
    PROVE  PickInv'
<1>1. PICK k \in 1..MaxRelaunches : \E t \in Tried(k) :
            /\ used' = t[2]
            /\ current' \in {current, [current EXCEPT ![i] = t[1]]}
            /\ Picked(t[3])
  BY DEF CopyExit
<1>2. PICK t \in Tried(k) :
            /\ used' = t[2]
            /\ current' \in {current, [current EXCEPT ![i] = t[1]]}
            /\ Picked(t[3])
  BY <1>1
<1>3. k \in Nat \ {0}
  BY BoundsAssumption
<1>4. Try(k, t)
  BY <1>2, <1>3, TriedIsTry DEF PickInv, Typed
<1>5. /\ t[1] \in Selectable /\ t[1] \in t[2] /\ t[2] \subseteq Selectable
      /\ t[3] \in Seq(Selectable) /\ Len(t[3]) = k /\ t[1] \in ToSet(t[3])
      /\ t[1] \notin ToSet(current) \/ Selectable \subseteq ToSet(current)
  BY <1>4 DEF Try
<1>6. /\ UNCHANGED <<flights, awaited, overlap>> /\ ~awaited /\ Selectable' = Selectable
  BY FiltersKept DEF CopyExit
<1>7. /\ current \in Seq(Selectable) /\ DOMAIN current = 1..Len(current) /\ Len(current) \in Nat
  BY LenProperties DEF PickInv, Typed
<1>8. /\ current' \in Seq(Selectable) /\ Len(current') = Len(current)
      /\ DOMAIN current' = DOMAIN current
      /\ \/ current' = current
         \/ \A j \in DOMAIN current : current'[j] = IF j = i THEN t[1] ELSE current[j]
  <2>1. CASE current' = current
    BY <1>7, <2>1
  <2>2. CASE current' = [current EXCEPT ![i] = t[1]]
    BY <1>5, <1>7, <2>2, ExceptSeq
  <2> QED
    BY <1>2, <2>1, <2>2
<1>9. /\ ToSet(current') \subseteq ToSet(current) \cup {t[1]}
      /\ current' = current \/ t[1] \in ToSet(current')
  BY <1>8 DEF ToSet
<1>10. /\ since' \in [Installed -> Nat]
       /\ \A m \in Installed :
             IF m \in ToSet(t[3]) \cup ToSet(current) THEN since'[m] = 0
             ELSE since'[m] <= since[m] + k
  BY <1>2, <1>3, <1>5, PickedCounts DEF PickInv, Typed
<1>11. Typed'
  BY <1>2, <1>5, <1>6, <1>8, <1>10 DEF PickInv, Typed
<1>12. SetsApart'
  <2>1. (\A j \in DOMAIN flights : Apart(flights[j]))'
    BY <1>6 DEF PickInv, SetsApart, Apart, Distinct
  <2>2. ASSUME Cardinality(Selectable) > Len(current)
        PROVE  Distinct(current')
    <3>1. Distinct(current)
      BY <2>2 DEF PickInv, SetsApart
    <3>2. t[1] \notin ToSet(current)
      <4>1. ASSUME Selectable \subseteq ToSet(current)
            PROVE  FALSE
        <5>1. /\ Selectable = ToSet(current) /\ Cardinality(ToSet(current)) <= Len(current)
              /\ IsFiniteSet(ToSet(current))
          BY <1>7, <4>1, SequenceAsSet
        <5>2. Cardinality(ToSet(current)) \in Nat
          BY <5>1, FS_CardinalityType
        <5> QED
          BY <1>7, <2>2, <5>1, <5>2
      <4> QED
        BY <1>5, <4>1
    <3> QED
      BY <1>8, <3>1, <3>2 DEF Distinct, ToSet
  <2>3. (Cardinality(Selectable) > Len(current) => Distinct(current))'
    BY <1>6, <1>8, <2>2 DEF Distinct
  <2> QED
    BY <2>1, <2>3 DEF SetsApart
<1>13. ASSUME ~overlap'
       PROVE  Alone'
  <2>1. ~overlap /\ Alone /\ flights = <<>>
    BY <1>6, <1>13 DEF PickInv, Alone
  <2>2. Waits(since, used)'
    <3>1. ASSUME NEW m \in Selectable
          PROVE  TurnOf(m, since'[m], used')
      <4>1. m \in Installed /\ since[m] \in Nat /\ since'[m] \in Nat
        BY <1>10, PoolIs DEF PickInv, Typed
      <4>2. CASE m \in ToSet(t[3]) \cup ToSet(current)
        <5>1. since'[m] = 0
          BY <1>10, <4>1, <4>2
        <5> QED
          BY <1>2, <1>5, <5>1, RestedTurn
      <4>3. CASE m \notin ToSet(t[3]) \cup ToSet(current)
        <5>1. since'[m] <= since[m] + k /\ since[m] + k \in Nat
          BY <1>3, <1>10, <4>1, <4>3
        <5>2. TurnOf(m, since[m] + k, t[2])
          BY <1>4, <2>1, <4>3 DEF Try, Alone
        <5> QED
          BY <1>2, <1>5, <4>1, <5>1, <5>2, SoonerTurn
      <4> QED
        BY <4>2, <4>3
    <3> QED
      BY <1>6, <3>1, WaitsNext
  <2>3. Rested(current)'
    <3>1. \A m \in ToSet(current') : m \in ToSet(t[3]) \cup ToSet(current) /\ m \in Installed
      BY <1>5, <1>7, <1>9, SequenceAsSet, PoolIs
    <3> QED
      BY <1>10, <3>1 DEF Rested
  <2>4. Anchored'
    <3>1. CASE current' = current
      <4>1. AnchoredBy(t[2])
        BY <1>4, <2>1 DEF Try, Alone, Anchored, AnchoredBy
      <4> QED
        BY <1>2, <1>6, <3>1, <4>1 DEF Anchored, AnchoredBy
    <3>2. CASE t[1] \in ToSet(current')
      BY <1>2, <1>5, <3>2 DEF Anchored, AnchoredBy
    <3> QED
      BY <1>9, <3>1, <3>2
  <2>5. flights' = <<>> /\ Len(flights') <= 1 /\ DOMAIN flights' = {} /\ awaited' = awaited
    BY <1>6, <2>1
  <2>6. awaited' \in BOOLEAN /\ ~awaited'
    BY <1>6, <2>1 DEF Alone
  <2> QED
    BY <2>2, <2>3, <2>4, <2>5, <2>6 DEF Alone
<1> QED
  BY <1>11, <1>12, <1>13 DEF PickInv

LEMMA PickInvStep == PickInv /\ [Next]_vars => PickInv'
<1> SUFFICES ASSUME PickInv, [Next]_vars
             PROVE  PickInv'
  OBVIOUS
<1>1. CASE Launch
  BY <1>1, LaunchKeeps
<1>2. CASE Exit
  BY <1>2, ExitKeeps
<1>3. CASE Stop
  BY <1>3, StopKeeps
<1>4. CASE Reset
  BY <1>4, NothingKeeps DEF Reset
<1>5. ASSUME NEW i \in DOMAIN flights, Land(i) \/ Fail(i)
      PROVE  PickInv'
  BY <1>5, LandKeeps, FailKeeps
<1>6. ASSUME NEW i \in DOMAIN current, CopyExit(i)
      PROVE  PickInv'
  BY <1>6, CopyExitKeeps
<1>7. ASSUME NEW ticks \in SUBSET Installed, NEW mode \in BOOLEAN, NEW each \in BOOLEAN,
             Tick(ticks, mode, each)
      PROVE  PickInv'
  BY <1>7, NothingKeeps DEF Tick
<1>8. CASE UNCHANGED vars
  BY <1>8, SameKeeps DEF vars
<1> QED
  BY <1>1, <1>2, <1>3, <1>4, <1>5, <1>6, <1>7, <1>8 DEF Next

LEMMA PickInvInit == Init => PickInv
<1> SUFFICES ASSUME Init
             PROVE  PickInv
  OBVIOUS
<1>1. /\ current = <<>> /\ flights = <<>> /\ awaited = FALSE /\ used = {}
      /\ since = [m \in Installed |-> 0]
  BY DEF Init
<1>2. /\ \A S : <<>> \in Seq(S)
      /\ Distinct(<<>>) /\ ToSet(<<>>) = {} /\ DOMAIN <<>> = {} /\ Len(<<>>) <= 1
  BY EmptySeq DEF Distinct, ToSet
<1>3. Typed
  BY <1>1, <1>2 DEF Typed
<1>4. SetsApart
  BY <1>1, <1>2 DEF SetsApart
<1>5. \A m \in Selectable : since[m] = 0 /\ TurnOf(m, 0, used)
  BY <1>1, PoolIs, RestedTurn
<1>6. Alone
  BY <1>1, <1>2, <1>5 DEF Alone, Rested, Anchored, AnchoredBy, Waits
<1> QED
  BY <1>3, <1>4, <1>6 DEF PickInv

LEMMA PickInvHolds == Spec => []PickInv
BY PickInvInit, PickInvStep, PTL DEF Spec

(* Each monitor shows a module of its own while the selection allows it:   *)
(* for any modules and monitors, and whatever launches overlap, fail or    *)
(* exit.                                                                   *)
THEOREM MonitorsDiffer == Spec => []SetsDiffer
<1>1. PickInv => SetsDiffer
  <2> SUFFICES ASSUME PickInv
               PROVE  SetsDiffer
    OBVIOUS
  <2>1. ASSUME NEW i \in DOMAIN flights, Cardinality(Selectable) >= Len(flights[i])
        PROVE  Cardinality(ToSet(flights[i])) = Len(flights[i])
    <3>1. flights[i] \in Seq(Selectable) /\ Apart(flights[i])
      BY LenProperties DEF PickInv, Typed, SetsApart
    <3> QED
      BY <2>1, <3>1, ApartDiffers
  <2>2. ASSUME Cardinality(Selectable) >= Len(current) + 1
        PROVE  Cardinality(ToSet(current)) = Len(current)
    <3>1. Cardinality(Selectable) \in Nat /\ Len(current) \in Nat /\ current \in Seq(Selectable)
      BY SetsOfModules, LenProperties DEF PoolSize, PickInv, Typed
    <3>2. Distinct(current)
      BY <2>2, <3>1 DEF PickInv, SetsApart
    <3> QED
      BY <3>1, <3>2, SequenceAsSet
  <2>3. ASSUME NEW names \in RunSets(Monitors), Cardinality(Selectable) >= Monitors
        PROVE  Cardinality(ToSet(names)) = Len(names)
    <3>1. names \in Seq(Selectable) /\ Len(names) = Monitors /\ Apart(names)
      BY RunSetsAreApart, BoundsAssumption
    <3> QED
      BY <2>3, <3>1, ApartDiffers
  <2> QED
    BY <2>1, <2>2, <2>3 DEF SetsDiffer
<1> QED
  BY <1>1, PickInvHolds, PTL

(* While one launch at a time is in flight, a swap is skipped only when    *)
(* there is nothing else to show: for any number of modules and monitors.  *)
THEOREM SwapsAreNotSkipped == Spec => []SwapSkippedOnlyAlone
<1>1. PickInv => SwapSkippedOnlyAlone
  <2> SUFFICES ASSUME PickInv, ~overlap, NEW n \in Sizes, NEW p \in PickSets(n),
                      Keeps(p[1], dead)
               PROVE  Cardinality(Selectable) <= n
    BY DEF SwapSkippedOnlyAlone
  <2>1. n \in Nat /\ PickedSet(n, p)
    BY SizesPositive, PickSetsArePicked DEF PickInv, Typed
  <2>2. /\ current \in Seq(Selectable) /\ Len(current) = n /\ Leaves(current, p[2])
        /\ current # <<>>
    BY <2>1 DEF PickedSet, Keeps
  <2>3. /\ ToSet(current) \subseteq Selectable /\ Cardinality(ToSet(current)) <= Len(current)
        /\ ToSet(current) # {}
    BY <2>2, SequenceAsSet
  <2>4. Selectable \subseteq ToSet(current)
    BY <2>2, <2>3 DEF Leaves, PickInv, Alone, Anchored, AnchoredBy
  <2>5. Selectable = ToSet(current)
    BY <2>3, <2>4
  <2> QED
    BY <2>2, <2>3, <2>5
<1> QED
  BY <1>1, PickInvHolds, PTL

(* While one launch at a time is in flight, every module has its turn      *)
(* before twice as many have been picked as there are to pick from: for    *)
(* any number of modules and monitors, whatever fails or exits.            *)
THEOREM TurnsAreTaken == Spec => []TurnsTaken
<1>1. PickInv => TurnsTaken
  <2> SUFFICES ASSUME PickInv, ~overlap, NEW m \in Selectable
               PROVE  since[m] < 2 * Cardinality(Selectable)
    BY DEF TurnsTaken
  <2>1. TurnOf(m, since[m], used) /\ since[m] \in Nat /\ used \subseteq Selectable
    BY PoolIs DEF PickInv, Alone, Waits, Typed
  <2>2. /\ Cardinality(used) \in Nat /\ PoolSize \in Nat /\ Cardinality(used) <= PoolSize
        /\ (m \notin used => Cardinality(used) < PoolSize)
    BY <2>1, SetsOfModules
  <2>3. since[m] < 2 * PoolSize
    BY <2>1, <2>2 DEF TurnOf
  <2> QED
    BY <2>3 DEF PoolSize
<1> QED
  BY <1>1, PickInvHolds, PTL

(* A launch finds a set to show exactly when something is selectable:      *)
(* however many modules were used, tried or are on screen, pickSet fails   *)
(* only when Finder.Pick would with nothing to avoid.                      *)
THEOREM LaunchesFindASet ==
    Spec => [](Selectable # {} <=> \A n \in Sizes : PickSets(n) # {})
<1>1. PickInv => (Selectable # {} <=> \A n \in Sizes : PickSets(n) # {})
  <2> SUFFICES ASSUME PickInv
               PROVE  Selectable # {} <=> \A n \in Sizes : PickSets(n) # {}
    OBVIOUS
  <2>1. current \in Seq(Selectable) /\ used \subseteq Selectable
    BY DEF PickInv, Typed
  <2>2. ASSUME Selectable # {}, NEW n \in Sizes
        PROVE  PickSets(n) # {}
    <3>1. n \in Nat
      BY SizesPositive
    <3> QED
      BY <2>1, <2>2, <3>1, PickSetsFind
  <2>3. ASSUME NEW p \in PickSets(1)
        PROVE  Selectable # {}
    <3>1. p[1] \in Seq(Selectable) /\ Len(p[1]) = 1
      BY <2>1, PickSetsArePicked DEF PickedSet
    <3>2. p[1][1] \in Selectable
      BY <3>1, ElementOfSeq
    <3> QED
      BY <3>2
  <2>4. 1 \in Sizes
    BY BoundsAssumption DEF Sizes
  <2> QED
    BY <2>2, <2>3, <2>4
<1> QED
  BY <1>1, PickInvHolds, PTL
=============================================================================
