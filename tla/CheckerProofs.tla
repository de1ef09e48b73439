--------------------------- MODULE CheckerProofs ---------------------------
(***************************************************************************)
(* The checker, for every project: its diagnostics point at what was read, *)
(* and the models it compares references with are the user's classes and   *)
(* the least set of the JDK's that the bindings need.  The last loop says  *)
(* of each reference what these models say.  The report of a finished run  *)
(* is what the two sides say, whatever the order of the loops; and natives *)
(* of different methods have different symbols, because what is mangled    *)
(* can be read back.                                                       *)
(*                                                                         *)
(* What is reported is then compared with what the JVM does: a reference   *)
(* is found in the hierarchy that is searched exactly when it is in the    *)
(* class or above it; a clean report means that each native is linked to   *)
(* one function that agrees, and where each is the report is clean; and    *)
(* the slots and the handles that are reported are those that differ.      *)
(*                                                                         *)
(* The front ends flatten sequences of sequences.  What FlattenSeq makes   *)
(* of them is proved first, by induction over the numbers as a set: the    *)
(* library's induction theorems cannot be instantiated here.               *)
(***************************************************************************)
EXTENDS Checker, SequenceTheorems, FiniteSetTheorems, WellFoundedInduction, TLAPS

\* A set of numbers has a least one.
LEMMA LeastNat ==
  ASSUME NEW T \in SUBSET Nat, T # {}
  PROVE  Min(T) \in T /\ \A y \in T : Min(T) <= y
<1>1. PICK x \in T : \A y \in T : ~(<<y, x>> \in OpToRel(<, Nat))
  BY NatLessThanWellFounded, WFMin
<1>2. \A y \in T : ~(y < x)
  BY <1>1 DEF OpToRel
<1>3. \E z \in T : \A y \in T : z <= y
  BY <1>2
<1> QED BY <1>3 DEF Min

\* Induction over the numbers, for a set of them.
LEMMA NatSet ==
  ASSUME NEW S \in SUBSET Nat, 0 \in S, \A n \in S : n + 1 \in S
  PROVE  S = Nat
<1> SUFFICES ASSUME Nat \ S # {} PROVE FALSE
  OBVIOUS
<1>1. PICK x \in Nat \ S : \A y \in Nat \ S : x <= y
  BY LeastNat
<1>2. x - 1 \in Nat /\ x - 1 \in S
  BY <1>1
<1> QED BY <1>1, <1>2

\* The elements of a concatenation.
LEMMA ConcatElements ==
  ASSUME NEW S, NEW s \in Seq(S), NEW t \in Seq(S)
  PROVE  s \o t \in Seq(S) /\ ToSet(s \o t) = ToSet(s) \cup ToSet(t)
<1>1. /\ s \o t \in Seq(S) /\ DOMAIN s = 1..Len(s) /\ DOMAIN t = 1..Len(t)
      /\ DOMAIN (s \o t) = 1..(Len(s) + Len(t)) /\ Len(s) \in Nat /\ Len(t) \in Nat
  BY LenProperties, ConcatProperties
<1>2. \A k \in 1..(Len(s) + Len(t)) : (s \o t)[k] = IF k <= Len(s) THEN s[k] ELSE t[k - Len(s)]
  BY ConcatProperties
<1>3. \A k \in 1..Len(s) : k \in DOMAIN (s \o t) /\ (s \o t)[k] = s[k]
  BY <1>1, <1>2
<1>4. \A k \in 1..Len(t) : k + Len(s) \in DOMAIN (s \o t) /\ (s \o t)[k + Len(s)] = t[k]
  BY <1>1, <1>2
<1>5. \A k \in DOMAIN (s \o t) : (s \o t)[k] \in ToSet(s) \cup ToSet(t)
  BY <1>1, <1>2 DEF ToSet
<1>6. \A x \in ToSet(s \o t) : x \in ToSet(s) \cup ToSet(t)
  BY <1>5 DEF ToSet
<1>7. \A x \in ToSet(s) : x \in ToSet(s \o t)
  BY <1>1, <1>3 DEF ToSet
<1>8. \A x \in ToSet(t) : x \in ToSet(s \o t)
  BY <1>1, <1>4 DEF ToSet
<1> QED BY <1>1, <1>6, <1>7, <1>8

\* FlattenSeq is the last of a sequence of prefixes.
LEMMA FlattenPrefixes ==
  ASSUME NEW S, NEW ss \in Seq(Seq(S))
  PROVE  \E off \in [0..Len(ss) -> Seq(S)] :
           /\ off[0] = <<>> /\ \A k \in 1..Len(ss) : off[k] = off[k - 1] \o ss[k]
           /\ off[Len(ss)] = FlattenSeq(ss)
<1>1. Len(ss) \in Nat /\ DOMAIN ss = 1..Len(ss) /\ \A k \in 1..Len(ss) : ss[k] \in Seq(S)
  BY LenProperties, ElementOfSeq
<1>2. CASE Len(ss) = 0
  <2> DEFINE off == [k \in 0..Len(ss) |-> <<>>]
  <2>1. ss = <<>>
    BY <1>2, EmptySeq
  <2>2. off \in [0..Len(ss) -> Seq(S)] /\ off[0] = <<>> /\ off[Len(ss)] = ss
    BY <1>1, <1>2, <2>1, EmptySeq
  <2>3. FlattenSeq(ss) = ss
    BY <1>2 DEF FlattenSeq
  <2>4. \A k \in 1..Len(ss) : FALSE
    BY <1>2
  <2> HIDE DEF off
  <2> QED BY <2>2, <2>3, <2>4
<1>3. CASE Len(ss) # 0
  <2> DEFINE n == Len(ss)
             next(g, k) == IF k = 1 THEN ss[k] ELSE g[k - 1] \o ss[k]
             f == CHOOSE g : g = [k \in 1..n |-> IF k = 1 THEN ss[k] ELSE g[k - 1] \o ss[k]]
  <2>1. FlattenSeq(ss) = f[n]
    BY <1>3 DEF FlattenSeq
  <2> DEFINE Starts(m) == \E g \in [1..m -> Seq(S)] : \A k \in 1..m : g[k] = next(g, k)
             Upto == {m \in Nat : m <= n => Starts(m)}
  <2>2. Upto = Nat
    <3>1. Starts(0)
      <4>1. [k \in 1..0 |-> <<>>] \in [1..0 -> Seq(S)] /\ \A k \in 1..0 : FALSE
        OBVIOUS
      <4> QED BY <4>1
    <3>2. \A m \in Nat : m + 1 <= n /\ Starts(m) => Starts(m + 1)
      <4> SUFFICES ASSUME NEW m \in Nat, m + 1 <= n, Starts(m) PROVE Starts(m + 1)
        OBVIOUS
      <4>1. m \in Nat /\ m <= n /\ 1..(m + 1) = 1..m \cup {m + 1} /\ m + 1 \in 1..n
        BY <1>1
      <4>2. PICK g \in [1..m -> Seq(S)] : \A k \in 1..m : g[k] = next(g, k)
        OBVIOUS
      <4>3. next(g, m + 1) \in Seq(S)
        <5>1. CASE m = 0
          BY <1>1, <4>1, <5>1
        <5>2. CASE m # 0
          <6>1. g[m] \in Seq(S) /\ ss[m + 1] \in Seq(S)
            BY <1>1, <4>1, <5>2
          <6> QED BY <4>1, <5>2, <6>1, ConcatProperties
        <5> QED BY <5>1, <5>2
      <4> DEFINE h == [k \in 1..(m + 1) |-> IF k \in 1..m THEN g[k] ELSE next(g, m + 1)]
      <4>4. h \in [1..(m + 1) -> Seq(S)]
        BY <4>1, <4>2, <4>3
      <4>5. \A k \in 1..(m + 1) : h[k] = next(h, k)
        <5> SUFFICES ASSUME NEW k \in 1..(m + 1) PROVE h[k] = next(h, k)
          OBVIOUS
        <5>1. k = 1 => next(h, k) = next(g, k)
          OBVIOUS
        <5>2. k # 1 => k - 1 \in 1..m /\ h[k - 1] = g[k - 1]
          BY <4>1
        <5>3. next(h, k) = next(g, k)
          BY <5>1, <5>2
        <5>4. h[k] = next(g, k)
          BY <4>1, <4>2
        <5> QED BY <5>3, <5>4
      <4> HIDE DEF h
      <4> QED BY <4>4, <4>5
    <3> HIDE DEF Starts
    <3>3. 0 \in Upto /\ Upto \in SUBSET Nat /\ \A m \in Upto : m + 1 \in Upto
      BY <1>1, <3>1, <3>2
    <3> HIDE DEF Upto
    <3> QED BY <3>3, NatSet
  <2>3. PICK g \in [1..n -> Seq(S)] : \A k \in 1..n : g[k] = next(g, k)
    <3>1. n \in Upto
      BY <1>1, <2>2
    <3> QED BY <1>1, <3>1
  <2>4. g = [k \in 1..n |-> IF k = 1 THEN ss[k] ELSE g[k - 1] \o ss[k]]
    BY <2>3
  <2>5. f = [k \in 1..n |-> IF k = 1 THEN ss[k] ELSE f[k - 1] \o ss[k]]
    BY <2>4
  <2> HIDE DEF f
  <2>6. \A k \in 1..n : f[k] = next(f, k)
    BY <2>5
  <2> DEFINE Good == {m \in Nat : m + 1 \in 1..n => f[m + 1] \in Seq(S)}
  <2>7. \A m \in Nat : m + 2 <= n /\ f[m + 1] \in Seq(S) => f[m + 2] \in Seq(S)
    <3> SUFFICES ASSUME NEW m \in Nat, m + 2 <= n, f[m + 1] \in Seq(S) PROVE f[m + 2] \in Seq(S)
      OBVIOUS
    <3>1. m + 2 \in 1..n /\ m + 2 # 1 /\ (m + 2) - 1 = m + 1 /\ ss[m + 2] \in Seq(S)
      BY <1>1
    <3>2. f[m + 2] = f[m + 1] \o ss[m + 2]
      BY <2>6, <3>1
    <3> QED BY <3>1, <3>2, ConcatProperties
  <2>8. Good = Nat
    <3>1. f[1] \in Seq(S)
      BY <1>1, <1>3, <2>6
    <3>2. \A m \in Nat : (m + 1) + 1 = m + 2 /\ (m + 2 \in 1..n => m + 2 <= n /\ m + 1 \in 1..n)
      BY <1>1
    <3>3. 0 \in Good /\ Good \in SUBSET Nat /\ \A m \in Good : m + 1 \in Good
      BY <2>7, <3>1, <3>2
    <3> HIDE DEF Good
    <3> QED BY <3>3, NatSet
  <2>9. \A k \in 1..n : f[k] \in Seq(S)
    <3> SUFFICES ASSUME NEW k \in 1..n PROVE f[k] \in Seq(S)
      OBVIOUS
    <3>1. k - 1 \in Nat /\ (k - 1) + 1 = k
      OBVIOUS
    <3>2. k - 1 \in Good
      BY <2>8, <3>1
    <3> QED BY <3>1, <3>2
  <2> DEFINE off == [k \in 0..n |-> IF k = 0 THEN <<>> ELSE f[k]]
  <2>10. \A k : k \in 0..n => k = 0 \/ k \in 1..n
    BY <1>1
  <2>11. off \in [0..n -> Seq(S)]
    <3>1. \A k \in 0..n : off[k] \in Seq(S)
      BY <2>9, <2>10, EmptySeq
    <3> QED BY <3>1
  <2>12. off[0] = <<>> /\ off[n] = f[n]
    BY <1>1, <1>3
  <2>13. \A k \in 1..n : off[k] = off[k - 1] \o ss[k]
    <3> SUFFICES ASSUME NEW k \in 1..n PROVE off[k] = off[k - 1] \o ss[k]
      OBVIOUS
    <3>1. off[k] = f[k] /\ f[k] = next(f, k) /\ k - 1 \in 0..n /\ ss[k] \in Seq(S)
      BY <1>1, <2>6
    <3>2. CASE k = 1
      BY <3>1, <3>2, ConcatEmptySeq
    <3>3. CASE k # 1
      <4>1. off[k - 1] = f[k - 1]
        BY <3>1, <3>3
      <4> QED BY <3>1, <3>3, <4>1
    <3> QED BY <3>2, <3>3
  <2> HIDE DEF off
  <2> QED BY <2>1, <2>11, <2>12, <2>13
<1> QED BY <1>2, <1>3

\* What FlattenSeq makes of a sequence of sequences.
LEMMA Flatten ==
  ASSUME NEW S, NEW ss \in Seq(Seq(S))
  PROVE  /\ FlattenSeq(ss) \in Seq(S)
         /\ \A x : x \in ToSet(FlattenSeq(ss)) <=> \E k \in DOMAIN ss : x \in ToSet(ss[k])
<1>1. Len(ss) \in Nat /\ DOMAIN ss = 1..Len(ss) /\ \A k \in 1..Len(ss) : ss[k] \in Seq(S)
  BY LenProperties, ElementOfSeq
<1>2. PICK off \in [0..Len(ss) -> Seq(S)] :
        /\ off[0] = <<>> /\ \A k \in 1..Len(ss) : off[k] = off[k - 1] \o ss[k]
        /\ off[Len(ss)] = FlattenSeq(ss)
  BY FlattenPrefixes
<1> DEFINE Made(m) == \A x : x \in ToSet(off[m]) <=> \E k \in 1..m : x \in ToSet(ss[k])
           Good == {m \in Nat : m <= Len(ss) => Made(m)}
<1>3. Made(0)
  <2>1. ToSet(<<>>) = {} /\ \A k : k \notin 1..0
    BY EmptySeq DEF ToSet
  <2> QED BY <1>2, <2>1
<1>4. \A m \in Nat : m + 1 <= Len(ss) /\ Made(m) => Made(m + 1)
  <2> SUFFICES ASSUME NEW m \in Nat, m + 1 <= Len(ss), Made(m) PROVE Made(m + 1)
    OBVIOUS
  <2>1. /\ m + 1 \in 1..Len(ss) /\ (m + 1) - 1 = m /\ m \in 0..Len(ss)
        /\ \A k : k \in 1..(m + 1) <=> k \in 1..m \/ k = m + 1
    BY <1>1
  <2>2. off[m + 1] = off[m] \o ss[m + 1] /\ off[m] \in Seq(S) /\ ss[m + 1] \in Seq(S)
    BY <1>1, <1>2, <2>1
  <2>3. ToSet(off[m + 1]) = ToSet(off[m]) \cup ToSet(ss[m + 1])
    BY <2>2, ConcatElements
  <2> QED BY <2>1, <2>3
<1>5. Good = Nat
  <2> HIDE DEF Made
  <2>1. 0 \in Good /\ Good \in SUBSET Nat /\ \A m \in Good : m + 1 \in Good
    BY <1>1, <1>3, <1>4
  <2> HIDE DEF Good
  <2> QED BY <2>1, NatSet
<1>6. Made(Len(ss))
  <2> HIDE DEF Made
  <2> QED BY <1>1, <1>5
<1> HIDE DEF Made
<1>7. FlattenSeq(ss) \in Seq(S)
  BY <1>1, <1>2
<1> QED BY <1>1, <1>2, <1>6, <1>7 DEF Made

\* FlattenSeq of one sequence after another.
LEMMA FlattenJoin ==
  ASSUME NEW S, NEW ss \in Seq(Seq(S)), NEW ts \in Seq(Seq(S))
  PROVE  FlattenSeq(ss \o ts) = FlattenSeq(ss) \o FlattenSeq(ts)
<1> DEFINE n == Len(ss)
           m == Len(ts)
           us == ss \o ts
<1>1. /\ n \in Nat /\ m \in Nat /\ \A k \in 1..m : ts[k] \in Seq(S)
      /\ us \in Seq(Seq(S)) /\ Len(us) = n + m
      /\ \A k \in 1..(n + m) : us[k] = IF k <= n THEN ss[k] ELSE ts[k - n]
  BY LenProperties, ElementOfSeq, ConcatProperties
<1>8. \A x, y, z \in Seq(S) : (x \o y) \o z = x \o (y \o z)
  BY ConcatAssociative
<1>9. n \in Nat /\ m \in Nat
  BY <1>1
<1>2. PICK a \in [0..n -> Seq(S)] :
        /\ a[0] = <<>> /\ \A k \in 1..n : a[k] = a[k - 1] \o ss[k]
        /\ a[n] = FlattenSeq(ss)
  BY FlattenPrefixes
<1>3. PICK b \in [0..m -> Seq(S)] :
        /\ b[0] = <<>> /\ \A k \in 1..m : b[k] = b[k - 1] \o ts[k]
        /\ b[m] = FlattenSeq(ts)
  BY FlattenPrefixes
<1> HIDE DEF us
<1>4. PICK c \in [0..(n + m) -> Seq(S)] :
        /\ c[0] = <<>> /\ \A k \in 1..(n + m) : c[k] = c[k - 1] \o us[k]
        /\ c[n + m] = FlattenSeq(us)
  <2>1. \E c \in [0..Len(us) -> Seq(S)] :
          /\ c[0] = <<>> /\ \A k \in 1..Len(us) : c[k] = c[k - 1] \o us[k]
          /\ c[Len(us)] = FlattenSeq(us)
    BY <1>1, FlattenPrefixes
  <2> QED BY <1>1, <2>1
<1>5. \A k \in Nat : k <= n => c[k] = a[k]
  <2> DEFINE Good == {k \in Nat : k <= n => c[k] = a[k]}
  <2>1. \A k \in Nat : k + 1 <= n /\ c[k] = a[k] => c[k + 1] = a[k + 1]
    <3> SUFFICES ASSUME NEW k \in Nat, k + 1 <= n, c[k] = a[k] PROVE c[k + 1] = a[k + 1]
      OBVIOUS
    <3>1. k + 1 \in 1..n /\ k + 1 \in 1..(n + m) /\ (k + 1) - 1 = k /\ k + 1 <= n
      <4> HIDE DEF n, m
      <4> QED BY <1>9
    <3> QED BY <1>1, <1>2, <1>4, <3>1
  <2>2. 0 \in Good /\ Good \in SUBSET Nat /\ \A k \in Good : k + 1 \in Good
    BY <1>1, <1>2, <1>4, <2>1
  <2>3. Good = Nat
    <3> HIDE DEF Good
    <3> QED BY <2>2, NatSet
  <2> QED BY <2>3
<1>6. \A k \in Nat : k <= m => c[n + k] = a[n] \o b[k]
  <2> DEFINE Good == {k \in Nat : k <= m => c[n + k] = a[n] \o b[k]}
  <2>1. a[n] \in Seq(S) /\ c[n] = a[n]
    BY <1>1, <1>2, <1>5
  <2>2. \A k \in Nat : k + 1 <= m /\ c[n + k] = a[n] \o b[k] => c[n + (k + 1)] = a[n] \o b[k + 1]
    <3> SUFFICES ASSUME NEW k \in Nat, k + 1 <= m, c[n + k] = a[n] \o b[k]
                 PROVE  c[n + (k + 1)] = a[n] \o b[k + 1]
      OBVIOUS
    <3> HIDE DEF n, m
    <3>0. k + 1 \in 1..m /\ k \in 0..m /\ (k + 1) - 1 = k
      BY <1>9
    <3>1. /\ n + (k + 1) \in 1..(n + m) /\ ~(n + (k + 1) <= n)
          /\ (n + (k + 1)) - 1 = n + k /\ (n + (k + 1)) - n = k + 1
      BY <1>9, <3>0
    <3>2. us[n + (k + 1)] = ts[k + 1] /\ b[k] \in Seq(S) /\ ts[k + 1] \in Seq(S)
      BY <1>1, <1>3, <3>0, <3>1
    <3>3. c[n + (k + 1)] = (a[n] \o b[k]) \o ts[k + 1]
      BY <1>4, <3>1, <3>2
    <3>4. b[k + 1] = b[k] \o ts[k + 1]
      BY <1>3, <3>0
    <3>5. (a[n] \o b[k]) \o ts[k + 1] = a[n] \o (b[k] \o ts[k + 1])
      BY <1>8, <2>1, <3>2, Zenon
    <3> QED BY <3>3, <3>4, <3>5
  <2>3. c[n + 0] = a[n] \o b[0]
    BY <1>1, <1>3, <2>1, ConcatEmptySeq
  <2>4. 0 \in Good /\ Good \in SUBSET Nat /\ \A k \in Good : k + 1 \in Good
    <3> HIDE DEF n, m
    <3>1. \A k \in Nat : k + 1 \in Nat /\ (k + 1 <= m => k <= m)
      BY <1>9
    <3>2. 0 \in Good
      BY <2>3
    <3>3. \A k \in Good : k + 1 \in Good
      BY <2>2, <3>1, Zenon
    <3> QED BY <3>2, <3>3
  <2>5. Good = Nat
    <3> HIDE DEF Good
    <3> QED BY <2>4, NatSet
  <2> QED BY <2>5
<1>7. c[n + m] = a[n] \o b[m]
  <2> HIDE DEF n, m
  <2>1. m \in Nat /\ m <= m
    BY <1>9
  <2> QED BY <1>6, <2>1, Zenon
<1> QED BY <1>2, <1>3, <1>4, <1>7 DEF us

\* FlattenSeq of nothing, and of one sequence.
LEMMA FlattenShort ==
  ASSUME NEW S, NEW s \in Seq(S)
  PROVE  FlattenSeq(<<>>) = <<>> /\ FlattenSeq(<<s>>) = s
<1>1. FlattenSeq(<<>>) = <<>>
  BY EmptySeq DEF FlattenSeq
<1>2. <<s>> \in Seq(Seq(S)) /\ Len(<<s>>) = 1 /\ <<s>>[1] = s
  OBVIOUS
<1>3. PICK off \in [0..1 -> Seq(S)] :
        /\ off[0] = <<>> /\ \A k \in 1..1 : off[k] = off[k - 1] \o <<s>>[k]
        /\ off[1] = FlattenSeq(<<s>>)
  <2>1. \E off \in [0..Len(<<s>>) -> Seq(S)] :
          /\ off[0] = <<>> /\ \A k \in 1..Len(<<s>>) : off[k] = off[k - 1] \o <<s>>[k]
          /\ off[Len(<<s>>)] = FlattenSeq(<<s>>)
    BY <1>2, FlattenPrefixes
  <2> QED BY <1>2, <2>1
<1>4. off[1] = <<>> \o s
  <2>1. 1 \in 1..1 /\ 1 - 1 = 0
    OBVIOUS
  <2> QED BY <1>2, <1>3, <2>1
<1> QED BY <1>1, <1>3, <1>4, ConcatEmptySeq

\* The elements q and r of FlattenSeq(ss) are in that order in ss.
Placed(ss, q, r) ==
  \E k, l \in 1..Len(ss) : \E x \in 1..Len(ss[k]), y \in 1..Len(ss[l]) :
    /\ FlattenSeq(ss)[q] = ss[k][x] /\ FlattenSeq(ss)[r] = ss[l][y]
    /\ k < l \/ (k = l /\ x < y)

\* FlattenSeq keeps the order of the sequences and that within each.
LEMMA FlattenOrder ==
  ASSUME NEW S, NEW ss \in Seq(Seq(S)),
         NEW r \in 1..Len(FlattenSeq(ss)), NEW q \in 1..Len(FlattenSeq(ss)), q < r
  PROVE  Placed(ss, q, r)
<1>1. Len(ss) \in Nat /\ \A k \in 1..Len(ss) : ss[k] \in Seq(S)
  BY LenProperties, ElementOfSeq
<1>2. PICK off \in [0..Len(ss) -> Seq(S)] :
        /\ off[0] = <<>> /\ \A k \in 1..Len(ss) : off[k] = off[k - 1] \o ss[k]
        /\ off[Len(ss)] = FlattenSeq(ss)
  BY FlattenPrefixes
<1> DEFINE Here(m, u) == \E k \in 1..m : \E x \in 1..Len(ss[k]) : off[m][u] = ss[k][x]
           Two(m, u, v) ==
             \E k \in 1..m, l \in 1..m : \E x \in 1..Len(ss[k]), y \in 1..Len(ss[l]) :
               off[m][u] = ss[k][x] /\ off[m][v] = ss[l][y] /\ (k < l \/ (k = l /\ x < y))
           Made(m) == /\ \A u \in 1..Len(off[m]) : Here(m, u)
                      /\ \A u, v \in 1..Len(off[m]) : u < v => Two(m, u, v)
           Good == {m \in Nat : m <= Len(ss) => Made(m)}
<1>3. Made(0)
  <2>1. Len(off[0]) = 0
    BY <1>2, EmptySeq
  <2>2. \A u : u \notin 1..Len(off[0])
    BY <2>1
  <2> HIDE DEF Here, Two
  <2> QED BY <2>2
<1>4. ASSUME NEW m \in Nat, m + 1 <= Len(ss), Made(m) PROVE Made(m + 1)
  <2> DEFINE t == ss[m + 1]
             L == Len(off[m])
  <2>1. /\ m + 1 \in 1..Len(ss) /\ (m + 1) - 1 = m /\ m \in 0..Len(ss)
        /\ \A k : k \in 1..(m + 1) <=> k \in 1..m \/ k = m + 1
    BY <1>1, <1>4
  <2>2. off[m + 1] = off[m] \o t /\ off[m] \in Seq(S) /\ t \in Seq(S)
    BY <1>1, <1>2, <2>1
  <2>3. /\ L \in Nat /\ Len(t) \in Nat /\ Len(off[m + 1]) = L + Len(t)
        /\ \A u \in 1..(L + Len(t)) : off[m + 1][u] = IF u <= L THEN off[m][u] ELSE t[u - L]
    <3>1. /\ L \in Nat /\ Len(t) \in Nat /\ Len(off[m] \o t) = L + Len(t)
          /\ \A u \in 1..(L + Len(t)) : (off[m] \o t)[u] = IF u <= L THEN off[m][u] ELSE t[u - L]
      BY <2>2, LenProperties, ConcatProperties
    <3> QED BY <2>2, <3>1
  <2>7. Len(ss[m + 1]) = Len(t) /\ Len(off[m]) = L /\ \A x : ss[m + 1][x] = t[x]
    OBVIOUS
  <2> HIDE DEF L, t
  <2>4. \A u \in 1..(L + Len(t)) :
          \/ u \in 1..L /\ off[m + 1][u] = off[m][u]
          \/ u > L /\ u - L \in 1..Len(t) /\ off[m + 1][u] = t[u - L]
    BY <2>3
  <2>5. ASSUME NEW u \in 1..(L + Len(t)) PROVE Here(m + 1, u)
    <3>1. CASE u \in 1..L /\ off[m + 1][u] = off[m][u]
      <4>1. PICK k \in 1..m : \E x \in 1..Len(ss[k]) : off[m][u] = ss[k][x]
        BY <1>4, <2>7, <3>1
      <4>2. k \in 1..(m + 1)
        BY <2>1
      <4> QED BY <3>1, <4>1, <4>2
    <3>2. CASE u - L \in 1..Len(t) /\ off[m + 1][u] = t[u - L]
      BY <2>1, <2>7, <3>2
    <3> QED BY <2>4, <3>1, <3>2
  <2>6. ASSUME NEW u \in 1..(L + Len(t)), NEW v \in 1..(L + Len(t)), u < v
        PROVE  Two(m + 1, u, v)
    <3>1. CASE v \in 1..L
      <4>1. u \in 1..L /\ off[m + 1][u] = off[m][u] /\ off[m + 1][v] = off[m][v]
        <5>1. u \in 1..L
          BY <2>3, <2>6, <3>1
        <5>2. ~(u > L) /\ ~(v > L)
          BY <2>3, <3>1, <5>1
        <5> QED BY <2>4, <5>1, <5>2
      <4>2. Two(m, u, v)
        <5> HIDE DEF Two, Here
        <5> QED BY <1>4, <2>6, <2>7, <3>1, <4>1
      <4> QED BY <2>1, <4>1, <4>2
    <3>2. CASE v \notin 1..L /\ u \in 1..L
      <4>1. off[m + 1][u] = off[m][u] /\ off[m + 1][v] = t[v - L] /\ v - L \in 1..Len(t)
        <5>1. ~(u > L)
          BY <2>3, <3>2
        <5> QED BY <2>4, <3>2, <5>1
      <4>2. PICK k \in 1..m : \E x \in 1..Len(ss[k]) : off[m][u] = ss[k][x]
        BY <1>4, <2>7, <3>2
      <4>3. k \in 1..(m + 1) /\ m + 1 \in 1..(m + 1) /\ k < m + 1
        BY <2>1
      <4> QED BY <2>7, <4>1, <4>2, <4>3
    <3>3. CASE u \notin 1..L
      <4>1. /\ off[m + 1][u] = t[u - L] /\ u - L \in 1..Len(t)
            /\ off[m + 1][v] = t[v - L] /\ v - L \in 1..Len(t) /\ u - L < v - L
        <5>1. v \notin 1..L /\ u - L < v - L
          BY <2>3, <2>6, <3>3
        <5> QED BY <2>4, <3>3, <5>1
      <4>2. m + 1 \in 1..(m + 1)
        BY <2>1
      <4> QED BY <2>7, <4>1, <4>2
    <3> QED BY <3>1, <3>2, <3>3
  <2> HIDE DEF Here, Two
  <2> QED BY <2>3, <2>5, <2>6
<1>5. Made(Len(ss))
  <2> HIDE DEF Made
  <2>1. 0 \in Good /\ Good \in SUBSET Nat /\ \A m \in Good : m + 1 \in Good
    BY <1>1, <1>3, <1>4
  <2>2. Good = Nat
    <3> HIDE DEF Good
    <3> QED BY <2>1, NatSet
  <2> QED BY <1>1, <2>2
<1>6. Two(Len(ss), q, r)
  <2> HIDE DEF Here, Two
  <2>1. q \in 1..Len(off[Len(ss)]) /\ r \in 1..Len(off[Len(ss)])
    BY <1>2
  <2> QED BY <1>5, <2>1
<1> HIDE DEF Here, Made, Good
<1> QED BY <1>2, <1>6 DEF Placed

\* A sequence, by its length and its elements.
LEMMA SeqFacts ==
  ASSUME NEW s, IsSeq(s)
  PROVE  Len(s) \in Nat /\ DOMAIN s = 1..Len(s) /\ \A k \in DOMAIN s : s[k] \in ToSet(s)
<1>1. s \in Seq(ToSet(s))
  BY DEF IsSeq
<1> QED BY <1>1, LenProperties DEF ToSet

\* A function on 1..n is a sequence.
LEMMA FunIsSeq ==
  ASSUME NEW n \in Nat, NEW S, NEW g \in [1..n -> S]
  PROVE  g \in Seq(S) /\ Len(g) = n /\ IsSeq(g)
<1>1. g \in Seq(S)
  BY SeqDef
<1>2. Len(g) = n
  BY <1>1, LenProperties
<1>3. g \in [1..n -> ToSet(g)]
  BY DEF ToSet
<1>4. g \in Seq(ToSet(g))
  BY <1>3, SeqDef
<1> QED BY <1>1, <1>2, <1>4 DEF IsSeq

\* The empty sequence and the sequence of one element.
LEMMA ShortSeqs ==
  /\ IsSeq(<<>>) /\ ToSet(<<>>) = {}
  /\ \A x : IsSeq(<<x>>) /\ ToSet(<<x>>) = {x}
<1>1. IsSeq(<<>>) /\ ToSet(<<>>) = {}
  BY EmptySeq DEF IsSeq, ToSet
<1>2. ASSUME NEW x PROVE IsSeq(<<x>>) /\ ToSet(<<x>>) = {x}
  <2>1. DOMAIN <<x>> = {1} /\ <<x>>[1] = x
    OBVIOUS
  <2>2. ToSet(<<x>>) = {x}
    BY <2>1 DEF ToSet
  <2> QED BY <2>2 DEF IsSeq
<1> QED BY <1>1, <1>2

\* FlattenSeq of sequences, whatever is in them.
LEMMA FlattenIsSeq ==
  ASSUME NEW ss, IsSeq(ss), \A k \in DOMAIN ss : IsSeq(ss[k])
  PROVE  /\ IsSeq(FlattenSeq(ss))
         /\ \A x : x \in ToSet(FlattenSeq(ss)) <=> \E k \in DOMAIN ss : x \in ToSet(ss[k])
<1> DEFINE S == UNION {ToSet(ss[k]) : k \in DOMAIN ss}
<1>1. Len(ss) \in Nat /\ DOMAIN ss = 1..Len(ss)
  BY SeqFacts
<1>2. \A k \in DOMAIN ss : ss[k] \in Seq(S)
  <2> SUFFICES ASSUME NEW k \in DOMAIN ss PROVE ss[k] \in Seq(S)
    OBVIOUS
  <2>1. ss[k] \in Seq(ToSet(ss[k])) /\ ToSet(ss[k]) \subseteq S
    BY DEF IsSeq
  <2> HIDE DEF S
  <2> QED BY <2>1, SeqMonotonic
<1> HIDE DEF S
<1>3. ss \in [1..Len(ss) -> Seq(S)]
  <2>1. ss \in Seq(ToSet(ss))
    BY DEF IsSeq
  <2>2. ss \in [1..Len(ss) -> ToSet(ss)]
    BY <2>1, LenProperties
  <2> QED BY <1>1, <1>2, <2>2
<1>4. ss \in Seq(Seq(S))
  BY <1>1, <1>3, FunIsSeq
<1>5. FlattenSeq(ss) \in Seq(S)
  BY <1>4, Flatten
<1>6. FlattenSeq(ss) \in Seq(ToSet(FlattenSeq(ss)))
  BY <1>5, LenProperties, SeqDef DEF ToSet
<1> QED BY <1>4, <1>6, Flatten DEF IsSeq

\* Sequences joined.
LEMMA JoinIsSeq ==
  ASSUME NEW s, NEW t, IsSeq(s), IsSeq(t)
  PROVE  IsSeq(s \o t) /\ ToSet(s \o t) = ToSet(s) \cup ToSet(t)
<1> DEFINE S == ToSet(s) \cup ToSet(t)
<1>1. s \in Seq(ToSet(s)) /\ t \in Seq(ToSet(t)) /\ ToSet(s) \subseteq S /\ ToSet(t) \subseteq S
  BY DEF IsSeq
<1> HIDE DEF S
<1>2. s \in Seq(S) /\ t \in Seq(S)
  BY <1>1, SeqMonotonic
<1>3. s \o t \in Seq(S) /\ ToSet(s \o t) = S
  BY <1>2, ConcatElements DEF S
<1> QED BY <1>3 DEF IsSeq, S

-----------------------------------------------------------------------------
\* A native method is read from a class and an export from a file.
LEMMA NativesType ==
  ASSUME NEW java, IsSeq(java), \A c \in ToSet(java) : IsClass(c)
  PROVE  IsSeq(Natives(java))
<1> DEFINE ns == [k \in DOMAIN java |-> LowerNatives(java[k])]
<1>1. Len(java) \in Nat /\ DOMAIN java = 1..Len(java)
        /\ \A k \in DOMAIN java : java[k] \in ToSet(java)
  BY SeqFacts
<1>2. \A k \in DOMAIN java : IsSeq(LowerNatives(java[k]))
  <2> SUFFICES ASSUME NEW k \in DOMAIN java PROVE IsSeq(LowerNatives(java[k]))
    OBVIOUS
  <2> DEFINE c == java[k]
             Lowered(m) == IF m.native /\ ~HasIgnore(m) THEN <<LowerNative(c, m)>> ELSE <<>>
             ls == [j \in DOMAIN c.methods |-> Lowered(c.methods[j])]
  <2>1. IsSeq(c.methods)
    BY <1>1 DEF IsClass
  <2>2. DOMAIN c.methods = 1..Len(c.methods) /\ Len(c.methods) \in Nat
    BY <2>1, SeqFacts
  <2>3. \A j \in DOMAIN c.methods : IsSeq(Lowered(c.methods[j]))
    BY ShortSeqs
  <2> HIDE DEF Lowered
  <2>4. ls \in [1..Len(c.methods) -> {Lowered(c.methods[j]) : j \in DOMAIN c.methods}]
    BY <2>2
  <2>5. IsSeq(ls) /\ \A j \in DOMAIN ls : IsSeq(ls[j])
    <3>1. \A j \in DOMAIN ls : IsSeq(ls[j])
      BY <2>3
    <3> HIDE DEF ls
    <3> QED BY <2>2, <2>4, <3>1, FunIsSeq
  <2>6. IsSeq(FlattenSeq(ls))
    BY <2>5, FlattenIsSeq
  <2> QED BY <2>6 DEF LowerNatives, Lowered
<1>3. ns \in [1..Len(java) -> {LowerNatives(java[k]) : k \in DOMAIN java}]
  BY <1>1
<1>4. IsSeq(ns) /\ \A k \in DOMAIN ns : IsSeq(ns[k])
  BY <1>1, <1>2, <1>3, FunIsSeq
<1> QED BY <1>4, FlattenIsSeq DEF Natives

Problems == {"none", "NotExported", "TooFewParams"}
IsExport(e) == "problem" \in DOMAIN e /\ e.problem \in Problems

ExportsOnly(s) == IsSeq(s) /\ \A e \in ToSet(s) : IsExport(e)

\* One export is a sequence of exports.
LEMMA ExportType ==
  \A symbol, class, name, receiver, params, ret, problem, origin :
    problem \in Problems =>
      ExportsOnly(<<Export(symbol, class, name, receiver, params, ret, problem, origin)>>)
<1> SUFFICES ASSUME NEW symbol, NEW class, NEW name, NEW receiver, NEW params, NEW ret,
                    NEW problem \in Problems, NEW origin
             PROVE  ExportsOnly(<<Export(symbol, class, name, receiver, params, ret, problem,
                                         origin)>>)
  OBVIOUS
<1>1. IsExport(Export(symbol, class, name, receiver, params, ret, problem, origin))
  BY DEF IsExport, Export
<1> HIDE DEF Export
<1> QED BY <1>1, ShortSeqs DEF ExportsOnly

\* A function makes no export or one.
LEMMA LowerFnType == ASSUME NEW f, NEW reg PROVE ExportsOnly(LowerFn(f, reg))
<1>1. ExportsOnly(<<>>)
  BY ShortSeqs DEF ExportsOnly
<1>2. TooFewParams(f) \in Problems /\ LegacyProblem(f) \in Problems
  BY DEF TooFewParams, LegacyProblem, Problems
<1>3. ExportsOnly(<<LowerMangled(f, reg)>>)
  BY <1>2, ExportType DEF LowerMangled, FnExport
<1>4. ExportsOnly(<<FnExport(f, f.ident, None, None, LegacyProblem(f), reg)>>)
  BY <1>2, ExportType DEF FnExport
<1> QED BY <1>1, <1>3, <1>4 DEF LowerFn

\* An entry of `native_method!` makes no export or one.
LEMMA SignatureType == \A spec, class, reg : ExportsOnly(BuildSignature(spec, class, reg))
<1> SUFFICES ASSUME NEW spec, NEW class, NEW reg PROVE ExportsOnly(BuildSignature(spec, class, reg))
  OBVIOUS
<1>1. ExportsOnly(<<>>)
  BY ShortSeqs DEF ExportsOnly
<1> QED BY <1>1, ExportType DEF BuildSignature, Problems

-----------------------------------------------------------------------------
(* What the Rust front end reads.                                          *)

\* The elements of FlattenSeq over an index set; all are exports.
LEMMA FlattenExports ==
  ASSUME NEW n \in Nat, NEW ss, DOMAIN ss = 1..n, ss = [k \in 1..n |-> ss[k]],
         \A k \in 1..n : ExportsOnly(ss[k])
  PROVE  ExportsOnly(FlattenSeq(ss))
<1>1. ss \in [1..n -> {ss[k] : k \in 1..n}]
  OBVIOUS
<1>2. IsSeq(ss) /\ \A k \in DOMAIN ss : IsSeq(ss[k])
  BY <1>1, FunIsSeq DEF ExportsOnly
<1> QED BY <1>2, FlattenIsSeq DEF ExportsOnly

\* Exports followed by exports.
LEMMA JoinExports ==
  ASSUME NEW s, NEW t, ExportsOnly(s), ExportsOnly(t)
  PROVE  ExportsOnly(s \o t)
BY JoinIsSeq DEF ExportsOnly

\* The items of some kinds are the items that are of these kinds.
LEMMA OfKindsType ==
  ASSUME NEW items, IsSeq(items), NEW kinds
  PROVE  /\ IsSeq(OfKinds(items, kinds))
         /\ \A x : x \in ToSet(OfKinds(items, kinds)) <=> x \in ToSet(items) /\ x.item \in kinds
<1> DEFINE ss == [k \in DOMAIN items |-> IF items[k].item \in kinds THEN <<items[k]>> ELSE <<>>]
<1>1. Len(items) \in Nat /\ DOMAIN items = 1..Len(items)
        /\ \A k \in DOMAIN items : items[k] \in ToSet(items)
  BY SeqFacts
<1>2. \A k \in DOMAIN ss : /\ IsSeq(ss[k])
                           /\ \A x : x \in ToSet(ss[k]) <=> x = items[k] /\ x.item \in kinds
  BY ShortSeqs
<1>3. ss \in [1..Len(items) -> {ss[k] : k \in DOMAIN items}] /\ DOMAIN ss = DOMAIN items
  BY <1>1
<1> HIDE DEF ss
<1>4. IsSeq(ss)
  BY <1>1, <1>3, FunIsSeq
<1>5. /\ IsSeq(FlattenSeq(ss))
      /\ \A x : x \in ToSet(FlattenSeq(ss)) <=> \E k \in DOMAIN ss : x \in ToSet(ss[k])
  BY <1>2, <1>4, FlattenIsSeq
<1>6. \A x : x \in ToSet(items) <=> \E k \in DOMAIN items : x = items[k]
  BY DEF ToSet
<1>7. OfKinds(items, kinds) = FlattenSeq(ss)
  BY DEF OfKinds, ss
<1>8. \A x : x \in ToSet(FlattenSeq(ss))
        <=> \E k \in DOMAIN items : x = items[k] /\ x.item \in kinds
  BY <1>2, <1>3, <1>5
<1> QED BY <1>5, <1>6, <1>7, <1>8

\* The items of a crate's files.
Crate(files) ==
  IsSeq(files) /\ \A f \in ToSet(files) : IsSeq(f) /\ \A x \in ToSet(f) : IsItem(x)

\* A file makes exports.
LEMMA FileExportsType ==
  ASSUME NEW file, NEW reg, IsSeq(file), \A x \in ToSet(file) : IsItem(x)
  PROVE  ExportsOnly(FileExports(file, reg))
<1> DEFINE fns == OfKinds(file, {"fn"})
           ms  == OfKinds(file, {"bind", "native_method"})
           Macro(x, r) == IF x.item = "bind" THEN BoundNatives(x, r) ELSE NativeMethod(x, r)
           lfns == [k \in DOMAIN fns |-> LowerFn(fns[k], reg)]
           lms  == [k \in DOMAIN ms |-> Macro(ms[k], reg)]
<1>1. IsSeq(fns) /\ IsSeq(ms) /\ \A x \in ToSet(ms) : IsItem(x)
  BY OfKindsType
<1> HIDE DEF fns, ms
<1>2. ExportsOnly(FlattenSeq(lfns))
  <2>1. Len(fns) \in Nat /\ DOMAIN fns = 1..Len(fns)
    BY <1>1, SeqFacts
  <2>2. \A k \in DOMAIN fns : ExportsOnly(lfns[k])
    BY LowerFnType
  <2>3. DOMAIN lfns = 1..Len(fns) /\ lfns = [k \in 1..Len(fns) |-> lfns[k]]
    BY <2>1
  <2> HIDE DEF lfns
  <2> QED BY <2>1, <2>2, <2>3, FlattenExports
<1>3. \A x \in ToSet(ms) : ExportsOnly(Macro(x, reg))
  <2> SUFFICES ASSUME NEW x \in ToSet(ms) PROVE ExportsOnly(Macro(x, reg))
    OBVIOUS
  <2>1. ExportsOnly(NativeMethod(x, reg))
    BY SignatureType DEF NativeMethod
  <2>2. ASSUME x.item = "bind" PROVE ExportsOnly(BoundNatives(x, reg))
    <3> DEFINE ns == [k \in DOMAIN x.natives |->
                        BuildSignature(ApplyEntry(SpecNew, x.natives[k]), x.class, reg)]
    <3>1. IsSeq(x.natives)
      BY <1>1, <2>2 DEF IsItem
    <3>2. Len(x.natives) \in Nat /\ DOMAIN x.natives = 1..Len(x.natives)
      BY <3>1, SeqFacts
    <3>3. \A k \in DOMAIN x.natives : ExportsOnly(ns[k])
      BY SignatureType
    <3>4. DOMAIN ns = 1..Len(x.natives) /\ ns = [k \in 1..Len(x.natives) |-> ns[k]]
      BY <3>2
    <3> HIDE DEF ns
    <3>5. ExportsOnly(FlattenSeq(ns))
      BY <3>2, <3>3, <3>4, FlattenExports
    <3> QED BY <3>5 DEF BoundNatives, ns
  <2> QED BY <2>1, <2>2
<1>4. ExportsOnly(FlattenSeq(lms))
  <2>1. Len(ms) \in Nat /\ DOMAIN ms = 1..Len(ms) /\ \A k \in DOMAIN ms : ms[k] \in ToSet(ms)
    BY <1>1, SeqFacts
  <2> HIDE DEF Macro
  <2>2. \A k \in DOMAIN ms : ExportsOnly(lms[k])
    BY <1>3, <2>1
  <2>3. DOMAIN lms = 1..Len(ms) /\ lms = [k \in 1..Len(ms) |-> lms[k]]
    BY <2>1
  <2> HIDE DEF lms
  <2> QED BY <2>1, <2>2, <2>3, FlattenExports
<1>5. FileExports(file, reg) = FlattenSeq(lfns) \o FlattenSeq(lms)
  BY DEF FileExports, fns, ms
<1> HIDE DEF lfns, lms
<1> QED BY <1>2, <1>4, <1>5, JoinExports

\* The exports of a crate, each with one of the three outcomes of lowering.
LEMMA ExportsType ==
  ASSUME NEW files, Crate(files)
  PROVE  IsSeq(Exports(files))
          /\ \A k \in DOMAIN Exports(files) : Exports(files)[k].problem \in Problems
<1> DEFINE reg == Registry(files)
           fe == [k \in DOMAIN files |-> FileExports(files[k], reg)]
           es == FlattenSeq(fe)
<1> HIDE DEF reg
<1>1. Len(files) \in Nat /\ DOMAIN files = 1..Len(files)
        /\ \A k \in DOMAIN files : files[k] \in ToSet(files)
  BY SeqFacts DEF Crate
<1>2. \A k \in DOMAIN files : ExportsOnly(fe[k])
  BY <1>1, FileExportsType DEF Crate
<1>3. DOMAIN fe = 1..Len(files) /\ fe = [k \in 1..Len(files) |-> fe[k]]
  BY <1>1
<1>4. Exports(files) = ResolveOverloads(es)
  BY DEF Exports, reg
<1> HIDE DEF fe
<1>5. ExportsOnly(es)
  BY <1>1, <1>2, <1>3, FlattenExports
<1> HIDE DEF es
<1>6. Len(es) \in Nat /\ DOMAIN es = 1..Len(es) /\ \A k \in DOMAIN es : IsExport(es[k])
  BY <1>5, SeqFacts DEF ExportsOnly
<1> DEFINE rs == ResolveOverloads(es)
<1>7. DOMAIN rs = DOMAIN es /\ rs = [k \in DOMAIN es |-> rs[k]]
  BY DEF ResolveOverloads
<1>8. \A k \in DOMAIN es : \/ rs[k] = es[k]
                           \/ \E s : rs[k] = [es[k] EXCEPT !.symbol = s]
  BY DEF ResolveOverloads
<1>9. \A k \in DOMAIN es : rs[k].problem = es[k].problem
  BY <1>6, <1>8 DEF IsExport
<1> HIDE DEF rs
<1>10. IsSeq(rs)
  <2>1. rs \in [1..Len(es) -> {rs[k] : k \in DOMAIN es}]
    BY <1>6, <1>7
  <2> QED BY <1>6, <2>1, FunIsSeq
<1> QED BY <1>4, <1>6, <1>7, <1>9, <1>10 DEF IsExport, rs

RefKinds == {"Method", "Constructor", "Field"}

\* References to the class c, one at least if there is an entry that parses.
RefsTo(s, c, some) ==
  /\ IsSeq(s) /\ \A r \in ToSet(s) : r.kind \in RefKinds /\ r.class = c
  /\ some <=> ToSet(s) # {}

\* No reference, and one reference.
LEMMA RefType ==
  ASSUME NEW c
  PROVE  /\ RefsTo(<<>>, c, FALSE)
         /\ \A kind \in RefKinds : \A name, static, params, ret, field, origin :
              RefsTo(<<JavaRef(kind, c, name, static, params, ret, field, origin)>>, c, TRUE)
<1>1. RefsTo(<<>>, c, FALSE)
  BY ShortSeqs DEF RefsTo
<1>2. ASSUME NEW kind \in RefKinds, NEW name, NEW static, NEW params, NEW ret, NEW field, NEW origin
      PROVE  RefsTo(<<JavaRef(kind, c, name, static, params, ret, field, origin)>>, c, TRUE)
  <2> DEFINE r == JavaRef(kind, c, name, static, params, ret, field, origin)
  <2>1. r.kind \in RefKinds /\ r.class = c
    BY DEF JavaRef
  <2> HIDE DEF r
  <2>2. RefsTo(<<r>>, c, TRUE)
    BY <2>1, ShortSeqs DEF RefsTo
  <2> QED BY <2>2 DEF r
<1> QED BY <1>1, <1>2

\* The references of a list of entries: there is one if some entry has one.
LEMMA FlattenRefs ==
  ASSUME NEW c, NEW es, IsSeq(es), NEW ss, DOMAIN ss = DOMAIN es, ss = [k \in DOMAIN es |-> ss[k]],
         NEW Some, \A k \in DOMAIN es : RefsTo(ss[k], c, es[k] \in Some)
  PROVE  RefsTo(FlattenSeq(ss), c, \E e \in ToSet(es) : e \in Some)
<1>1. Len(es) \in Nat /\ DOMAIN es = 1..Len(es)
  BY SeqFacts
<1>2. ss \in [1..Len(es) -> {ss[k] : k \in DOMAIN es}]
  BY <1>1
<1>3. IsSeq(ss) /\ \A k \in DOMAIN ss : IsSeq(ss[k])
  BY <1>1, <1>2, FunIsSeq DEF RefsTo
<1>4. /\ IsSeq(FlattenSeq(ss))
      /\ \A x : x \in ToSet(FlattenSeq(ss)) <=> \E k \in DOMAIN es : x \in ToSet(ss[k])
  BY <1>3, FlattenIsSeq
<1>5. \A r \in ToSet(FlattenSeq(ss)) : r.kind \in RefKinds /\ r.class = c
  BY <1>4 DEF RefsTo
<1>6. (\E e \in ToSet(es) : e \in Some) <=> \E k \in DOMAIN es : es[k] \in Some
  BY DEF ToSet
<1>7. ToSet(FlattenSeq(ss)) # {} <=> \E k \in DOMAIN es : ToSet(ss[k]) # {}
  BY <1>4
<1>8. \A k \in DOMAIN es : es[k] \in Some <=> ToSet(ss[k]) # {}
  BY DEF RefsTo
<1> QED BY <1>4, <1>5, <1>6, <1>7, <1>8 DEF RefsTo

\* References followed by references.
LEMMA JoinRefs ==
  ASSUME NEW c, NEW s, NEW t, NEW P \in BOOLEAN, NEW Q \in BOOLEAN, RefsTo(s, c, P), RefsTo(t, c, Q)
  PROVE  RefsTo(s \o t, c, P \/ Q)
<1>1. IsSeq(s \o t) /\ ToSet(s \o t) = ToSet(s) \cup ToSet(t)
  BY JoinIsSeq DEF RefsTo
<1> QED BY <1>1 DEF RefsTo

\* What a binding refers to.
LEMMA BoundRefsType ==
  ASSUME NEW item, IsItem(item), item.item = "bind", NEW reg
  PROVE  RefsTo(BoundRefs(item, reg), ClassDottedToInternal(item.class), HasRefs(item))
<1> DEFINE c  == ClassDottedToInternal(item.class)
           ms == [k \in DOMAIN item.methods |-> MethodRef(item.methods[k], c, reg)]
           cs == [k \in DOMAIN item.constructors |-> CtorRef(item.constructors[k], c, reg)]
           fs == [k \in DOMAIN item.fields |-> FieldRef(item.fields[k], c, reg)]
           M  == {e \in ToSet(item.methods) : IsMethod(e)}
           C  == {e \in ToSet(item.constructors) : IsMethod(e)}
           F  == {e \in ToSet(item.fields) : FieldEntry(e).type # None}
<1>1. IsSeq(item.methods) /\ IsSeq(item.constructors) /\ IsSeq(item.fields)
  BY DEF IsItem
<1>2. BoundRefs(item, reg) = FlattenSeq(ms) \o FlattenSeq(cs) \o FlattenSeq(fs)
  BY DEF BoundRefs
<1> HIDE DEF c
<1>3. RefsTo(FlattenSeq(ms), c, \E e \in ToSet(item.methods) : e \in M)
  <2>1. \A k \in DOMAIN item.methods : RefsTo(ms[k], c, item.methods[k] \in M)
    <3> SUFFICES ASSUME NEW k \in DOMAIN item.methods
        PROVE  RefsTo(MethodRef(item.methods[k], c, reg), c, item.methods[k] \in M)
      OBVIOUS
    <3>1. item.methods[k] \in M <=> IsMethod(item.methods[k])
      BY DEF ToSet
    <3>2. IsMethod(item.methods[k]) => RefsTo(MethodRef(item.methods[k], c, reg), c, TRUE)
      BY RefType DEF MethodRef, RefKinds
    <3>3. ~IsMethod(item.methods[k]) => RefsTo(MethodRef(item.methods[k], c, reg), c, FALSE)
      BY RefType DEF MethodRef
    <3> QED BY <3>1, <3>2, <3>3 DEF RefsTo
  <2>2. DOMAIN ms = DOMAIN item.methods /\ ms = [k \in DOMAIN item.methods |-> ms[k]]
    OBVIOUS
  <2> HIDE DEF ms, M
  <2> QED BY <1>1, <2>1, <2>2, FlattenRefs
<1>4. RefsTo(FlattenSeq(cs), c, \E e \in ToSet(item.constructors) : e \in C)
  <2>1. \A k \in DOMAIN item.constructors : RefsTo(cs[k], c, item.constructors[k] \in C)
    <3> SUFFICES ASSUME NEW k \in DOMAIN item.constructors
        PROVE  RefsTo(CtorRef(item.constructors[k], c, reg), c, item.constructors[k] \in C)
      OBVIOUS
    <3>1. item.constructors[k] \in C <=> IsMethod(item.constructors[k])
      BY DEF ToSet
    <3>2. IsMethod(item.constructors[k]) => RefsTo(CtorRef(item.constructors[k], c, reg), c, TRUE)
      BY RefType DEF CtorRef, RefKinds
    <3>3. ~IsMethod(item.constructors[k]) => RefsTo(CtorRef(item.constructors[k], c, reg), c, FALSE)
      BY RefType DEF CtorRef
    <3> QED BY <3>1, <3>2, <3>3 DEF RefsTo
  <2>2. DOMAIN cs = DOMAIN item.constructors /\ cs = [k \in DOMAIN item.constructors |-> cs[k]]
    OBVIOUS
  <2> HIDE DEF cs, C
  <2> QED BY <1>1, <2>1, <2>2, FlattenRefs
<1>5. RefsTo(FlattenSeq(fs), c, \E e \in ToSet(item.fields) : e \in F)
  <2>1. \A k \in DOMAIN item.fields : RefsTo(fs[k], c, item.fields[k] \in F)
    <3> SUFFICES ASSUME NEW k \in DOMAIN item.fields
        PROVE  RefsTo(FieldRef(item.fields[k], c, reg), c, item.fields[k] \in F)
      OBVIOUS
    <3>1. item.fields[k] \in F <=> FieldEntry(item.fields[k]).type # None
      BY DEF ToSet
    <3>2. FieldEntry(item.fields[k]).type # None
            => RefsTo(FieldRef(item.fields[k], c, reg), c, TRUE)
      BY RefType DEF FieldRef, RefKinds
    <3>3. FieldEntry(item.fields[k]).type = None
            => RefsTo(FieldRef(item.fields[k], c, reg), c, FALSE)
      BY RefType DEF FieldRef
    <3> QED BY <3>1, <3>2, <3>3 DEF RefsTo
  <2>2. DOMAIN fs = DOMAIN item.fields /\ fs = [k \in DOMAIN item.fields |-> fs[k]]
    OBVIOUS
  <2> HIDE DEF fs, F
  <2> QED BY <1>1, <2>1, <2>2, FlattenRefs
<1> HIDE DEF ms, cs, fs
<1> DEFINE P == \E e \in ToSet(item.methods) : e \in M
           Q == \E e \in ToSet(item.constructors) : e \in C
           R == \E e \in ToSet(item.fields) : e \in F
<1>6. HasRefs(item) <=> (P \/ Q) \/ R
  BY DEF HasRefs
<1>7. P \in BOOLEAN /\ Q \in BOOLEAN /\ R \in BOOLEAN /\ (P \/ Q) \in BOOLEAN
        /\ HasRefs(item) \in BOOLEAN
  BY DEF HasRefs
<1> HIDE DEF P, Q, R
<1>8. RefsTo(FlattenSeq(ms) \o FlattenSeq(cs), c, P \/ Q)
  BY <1>3, <1>4, <1>7, JoinRefs DEF P, Q
<1>9. RefsTo(FlattenSeq(ms) \o FlattenSeq(cs) \o FlattenSeq(fs), c, (P \/ Q) \/ R)
  BY <1>5, <1>7, <1>8, JoinRefs DEF R
<1> QED BY <1>2, <1>6, <1>7, <1>9 DEF c

\* The classes of the bindings, as Closure has them.
BoundClasses(files) ==
  {ClassDottedToInternal(b.class) : b \in {x \in ToSet(Items(files, "bind")) : HasRefs(x)}}

\* The bindings of a crate.
LEMMA ItemsType ==
  ASSUME NEW files, Crate(files)
  PROVE  /\ IsSeq(Items(files, "bind"))
         /\ \A x \in ToSet(Items(files, "bind")) : IsItem(x) /\ x.item = "bind"
<1>1. \A k \in DOMAIN files : files[k] \in ToSet(files) /\ IsSeq(files[k])
  BY SeqFacts DEF Crate
<1>2. /\ IsSeq(FlattenSeq(files))
      /\ \A x : x \in ToSet(FlattenSeq(files)) <=> \E k \in DOMAIN files : x \in ToSet(files[k])
  BY <1>1, FlattenIsSeq DEF Crate
<1>3. \A x \in ToSet(FlattenSeq(files)) : IsItem(x)
  BY <1>1, <1>2 DEF Crate
<1> QED BY <1>2, <1>3, OfKindsType DEF Items

\* The references of a crate are to the classes of its bindings that have an
\* entry that parses.
LEMMA ReferencesType ==
  ASSUME NEW files, Crate(files)
  PROVE  /\ IsSeq(References(files))
         /\ \A k \in DOMAIN References(files) : References(files)[k].kind \in RefKinds
         /\ {References(files)[k].class : k \in DOMAIN References(files)} = BoundClasses(files)
         /\ BoundClasses(files) \subseteq ClassName
<1> DEFINE reg == Registry(files)
           binds == Items(files, "bind")
           rs == [k \in DOMAIN binds |-> BoundRefs(binds[k], reg)]
<1>1. IsSeq(binds) /\ \A x \in ToSet(binds) : IsItem(x) /\ x.item = "bind"
  BY ItemsType
<1>2. References(files) = FlattenSeq(rs)
  BY DEF References
<1> HIDE DEF reg
<1>3. BoundClasses(files) = {ClassDottedToInternal(b.class) : b \in {x \in ToSet(binds) : HasRefs(x)}}
  BY DEF BoundClasses
<1> HIDE DEF binds
<1>4. Len(binds) \in Nat /\ DOMAIN binds = 1..Len(binds)
        /\ \A k \in DOMAIN binds : binds[k] \in ToSet(binds)
  BY <1>1, SeqFacts
<1>5. \A k \in DOMAIN binds : RefsTo(rs[k], ClassDottedToInternal(binds[k].class), HasRefs(binds[k]))
  BY <1>1, <1>4, BoundRefsType
<1>6. rs \in [1..Len(binds) -> {rs[k] : k \in DOMAIN binds}] /\ DOMAIN rs = DOMAIN binds
  BY <1>4
<1> HIDE DEF rs
<1>7. IsSeq(rs) /\ \A k \in DOMAIN rs : IsSeq(rs[k])
  BY <1>4, <1>5, <1>6, FunIsSeq DEF RefsTo
<1> DEFINE fr == FlattenSeq(rs)
<1>8. /\ IsSeq(fr)
      /\ \A x : x \in ToSet(fr) <=> \E k \in DOMAIN binds : x \in ToSet(rs[k])
  BY <1>6, <1>7, FlattenIsSeq
<1> HIDE DEF fr
<1>9. \A k \in DOMAIN fr : fr[k].kind \in RefKinds
  BY <1>5, <1>8, SeqFacts DEF RefsTo
<1>10. \A x : x \in {fr[k].class : k \in DOMAIN fr} <=> \E r \in ToSet(fr) : x = r.class
  BY DEF ToSet
<1>11. \A x : (\E r \in ToSet(fr) : x = r.class)
                <=> \E k \in DOMAIN binds : HasRefs(binds[k])
                        /\ x = ClassDottedToInternal(binds[k].class)
  BY <1>5, <1>8 DEF RefsTo
<1>12. \A x : x \in BoundClasses(files)
                <=> \E k \in DOMAIN binds : HasRefs(binds[k])
                        /\ x = ClassDottedToInternal(binds[k].class)
  BY <1>3 DEF ToSet
<1>13. {fr[k].class : k \in DOMAIN fr} = BoundClasses(files)
  BY <1>10, <1>11, <1>12
<1>14. BoundClasses(files) \subseteq ClassName
  BY <1>1, <1>4, <1>12 DEF IsItem
<1> QED BY <1>2, <1>8, <1>9, <1>13, <1>14 DEF fr

-----------------------------------------------------------------------------
(* What the JDK home has.                                                  *)

\* A finite set in some order has the elements of the set.
LEMMA SetToSeqType ==
  ASSUME NEW S, IsFiniteSet(S)
  PROVE  IsSeq(SetToSeq(S)) /\ ToSet(SetToSeq(S)) = S
<1> DEFINE n == Cardinality(S)
           s == SetToSeq(S)
<1>1. n \in Nat /\ ExistsBijection(1..n, S)
  BY FS_CardinalityType
<1>2. \E f \in [1..n -> S] : IsInjective(f)
  BY <1>1 DEF ExistsBijection, Bijection, Injection
<1>3. s \in [1..n -> S] /\ IsInjective(s)
  BY <1>2 DEF SetToSeq
<1> HIDE DEF s
<1>4. s \in Injection(1..n, S)
  BY <1>3 DEF Injection
<1>5. Cardinality(1..n) = n
  <2>1. Cardinality(1..n) = IF 1 > n THEN 0 ELSE n - 1 + 1
    BY <1>1, FS_Interval
  <2> QED BY <1>1, <2>1
<1>6. s \in Surjection(1..n, S)
  BY <1>4, <1>5, FS_Injection
<1>7. \A x \in S : \E k \in 1..n : s[k] = x
  BY <1>6 DEF Surjection
<1>8. ToSet(s) = S
  BY <1>3, <1>7 DEF ToSet
<1>9. IsSeq(s)
  BY <1>1, <1>3, FunIsSeq
<1> QED BY <1>8, <1>9 DEF s

\* The tables that JdkTable speaks of.
Tables(home) ==
  {m.classes : m \in GoodJmods(home)} \cup {r.classes : r \in {x \in ToSet(home.rt) : x.readable}}

\* The tables that are open are those of the home.
LEMMA OpenType ==
  ASSUME NEW home, IsHome(home)
  PROVE  IsSeq(Open(home)) /\ ToSet(Open(home)) = Tables(home)
<1> DEFINE good == GoodJmods(home)
<1>1. IsFiniteSet(good)
  BY FS_Subset DEF IsHome, GoodJmods
<1>2. IsSeq(home.rt) /\ Len(home.rt) \in Nat /\ DOMAIN home.rt = 1..Len(home.rt)
  BY SeqFacts DEF IsHome
<1>3. \A x \in ToSet(home.rt) : \E k \in DOMAIN home.rt : x = home.rt[k]
  BY DEF ToSet
<1>4. CASE good # {}
  <2> DEFINE base == {m \in good : m.name = "java.base"}
             s == SetToSeq(base) \o SetToSeq(good \ base)
             ts == [k \in DOMAIN s |-> s[k].classes]
  <2>1. Open(home) = ts
    BY <1>4 DEF Open, JmodTables
  <2>2. IsFiniteSet(base) /\ IsFiniteSet(good \ base) /\ base \cup (good \ base) = good
    BY <1>1, FS_Subset
  <2> HIDE DEF base
  <2>3. IsSeq(s) /\ ToSet(s) = good
    BY <2>2, SetToSeqType, JoinIsSeq
  <2> HIDE DEF s
  <2>4. Len(s) \in Nat /\ DOMAIN s = 1..Len(s)
    BY <2>3, SeqFacts
  <2>5. ts \in [1..Len(s) -> {m.classes : m \in good}]
    BY <2>3, <2>4 DEF ToSet
  <2>6. IsSeq(ts)
    <3> HIDE DEF ts
    <3> QED BY <2>4, <2>5, FunIsSeq
  <2>7. ToSet(ts) = {m.classes : m \in good}
    BY <2>3 DEF ToSet
  <2>8. {x \in ToSet(home.rt) : x.readable} = {}
    BY <1>3, <1>4 DEF IsHome
  <2>9. Tables(home) = {m.classes : m \in good}
    BY <2>8 DEF Tables
  <2> QED BY <2>1, <2>6, <2>7, <2>9
<1>5. CASE good = {}
  <2> DEFINE readable == {k \in DOMAIN home.rt : home.rt[k].readable}
  <2>1. Open(home) = IF readable = {} THEN <<>> ELSE <<home.rt[Min(readable)].classes>>
    BY <1>5 DEF Open, RtTable
  <2>2. Tables(home) = {home.rt[k].classes : k \in readable}
    <3>1. Tables(home) = {r.classes : r \in {x \in ToSet(home.rt) : x.readable}}
      BY <1>5 DEF Tables
    <3> QED BY <3>1 DEF ToSet
  <2>3. CASE readable = {}
    BY <2>1, <2>2, <2>3, ShortSeqs
  <2>4. CASE readable # {}
    <3>1. readable \in SUBSET Nat
      BY <1>2
    <3>2. Min(readable) \in readable
      BY <2>4, <3>1, LeastNat
    <3>3. readable = {Min(readable)}
      BY <3>2 DEF IsHome
    <3>4. Tables(home) = {home.rt[Min(readable)].classes}
      BY <2>2, <3>3
    <3> QED BY <2>1, <2>4, <3>4, ShortSeqs
  <2> QED BY <2>3, <2>4
<1> QED BY <1>4, <1>5

\* No two tables have a class in common, and each class is under its name.
LEMMA TablesType ==
  ASSUME NEW home, IsHome(home)
  PROVE  /\ \A t, u \in Tables(home) : \A c : c \in DOMAIN t /\ c \in DOMAIN u => t = u
         /\ \A t \in Tables(home) : IsTable(t)
<1> DEFINE jars == {x \in ToSet(home.rt) : x.readable}
<1>1. \A r \in jars : \E k \in DOMAIN home.rt : r = home.rt[k] /\ home.rt[k].readable
  BY DEF ToSet
<1>2. \A q, r \in jars : q = r
  BY <1>1 DEF IsHome
<1>3. jars # {} => GoodJmods(home) = {}
  BY <1>1 DEF IsHome
<1>4. \A m, n \in GoodJmods(home) : \A c : c \in DOMAIN m.classes /\ c \in DOMAIN n.classes => m = n
  BY DEF IsHome
<1>5. \A m \in GoodJmods(home) : IsTable(m.classes)
  BY DEF IsHome, GoodJmods
<1>6. \A r \in jars : IsTable(r.classes)
  BY <1>1 DEF IsHome
<1>7. \A t : t \in Tables(home)
        <=> (\E m \in GoodJmods(home) : t = m.classes) \/ (\E r \in jars : t = r.classes)
  BY DEF Tables
<1> HIDE DEF jars
<1>8. \A t \in Tables(home) : IsTable(t)
  BY <1>5, <1>6, <1>7
<1>9. ASSUME NEW t \in Tables(home), NEW u \in Tables(home), NEW c, c \in DOMAIN t, c \in DOMAIN u
      PROVE  t = u
  <2>1. CASE jars = {}
    BY <1>4, <1>7, <1>9, <2>1
  <2>2. CASE jars # {}
    BY <1>2, <1>3, <1>7, <2>2
  <2> QED BY <2>1, <2>2
<1> QED BY <1>8, <1>9

\* The checker reads the classes that the home has.
LEMMA ClassBytesExact ==
  ASSUME NEW home, IsHome(home), home # NoHome
  PROVE  ClassBytes(Open(home)) = JdkTable(home) /\ IsTable(JdkTable(home))
<1> DEFINE src == Open(home)
           T == Tables(home)
           Has(c) == {k \in DOMAIN src : c \in DOMAIN src[k]}
           names == UNION {DOMAIN t : t \in T}
           jt == [c \in names |-> (CHOOSE t \in T : c \in DOMAIN t)[c]]
<1>1. JdkTable(home) = jt
  BY DEF JdkTable, Tables
<1>2. ClassBytes(src) = [c \in UNION {DOMAIN src[k] : k \in DOMAIN src} |-> src[Min(Has(c))][c]]
  BY DEF ClassBytes
<1>3. IsSeq(src) /\ ToSet(src) = T
  BY OpenType
<1>4. DOMAIN src = 1..Len(src) /\ Len(src) \in Nat
  BY <1>3, SeqFacts
<1>5. /\ \A t, u \in T : \A c : c \in DOMAIN t /\ c \in DOMAIN u => t = u
      /\ \A t \in T : IsTable(t)
  BY TablesType
<1> HIDE DEF src, T
<1>6. \A t : t \in T <=> \E k \in DOMAIN src : t = src[k]
  BY <1>3 DEF ToSet
<1>7. UNION {DOMAIN src[k] : k \in DOMAIN src} = names
  BY <1>6
<1>8. \A c \in names : \E t \in T : c \in DOMAIN t /\ (CHOOSE u \in T : c \in DOMAIN u) = t
                                    /\ src[Min(Has(c))] = t
  <2> SUFFICES ASSUME NEW c \in names
               PROVE  \E t \in T : c \in DOMAIN t /\ (CHOOSE u \in T : c \in DOMAIN u) = t
                                   /\ src[Min(Has(c))] = t
    OBVIOUS
  <2>1. \E u \in T : c \in DOMAIN u
    OBVIOUS
  <2> DEFINE t == CHOOSE u \in T : c \in DOMAIN u
  <2>2. t \in T /\ c \in DOMAIN t
    BY <2>1
  <2> HIDE DEF t
  <2>3. Has(c) \in SUBSET Nat /\ Has(c) # {}
    BY <1>4, <1>6, <2>2
  <2>4. Min(Has(c)) \in Has(c)
    <3> HIDE DEF Has
    <3> QED BY <2>3, LeastNat
  <2>5. src[Min(Has(c))] \in T /\ c \in DOMAIN src[Min(Has(c))]
    BY <1>6, <2>4
  <2>6. src[Min(Has(c))] = t
    BY <1>5, <2>2, <2>5
  <2> QED BY <2>2, <2>6 DEF t
<1>9. \A c \in names : src[Min(Has(c))][c] = jt[c] /\ jt[c].name = c /\ IsClass(jt[c])
  BY <1>5, <1>8 DEF IsTable
<1>10. ClassBytes(src) = jt
  <2> DEFINE W(c) == src[Min(Has(c))][c]
  <2>1. \A c \in names : W(c) = jt[c]
    BY <1>9
  <2>2. ClassBytes(src) = [c \in names |-> W(c)] /\ jt = [c \in names |-> jt[c]]
    BY <1>2, <1>7
  <2> HIDE DEF W, jt
  <2> QED BY <2>1, <2>2
<1>11. IsTable(jt)
  BY <1>9 DEF IsTable
<1> QED BY <1>1, <1>10, <1>11 DEF src

-----------------------------------------------------------------------------
(* The invariant.                                                          *)

Phases == {"seeds", "closing", "index", "match", "lint", "refs", "done"}

\* The two sides are what the front ends read of a project.
SidesRead ==
  /\ \E p \in Plans : project = ProjectOf(p)
  /\ natives = Natives(project.java)
  /\ exports = Exports(project.files)
  /\ refs = References(project.files)

\* The queue of classes, and where they come from.
QueueInv ==
  /\ phase \in Phases
  /\ phase = "seeds" => models = Models(project.java) /\ waiting = {} /\ visited = {}
  /\ phase = "closing" => HomeSources # <<>> /\ jdk = JdkTable(project.home)
  /\ IsSeq(models) /\ Len(project.java) <= Len(models)
  /\ waiting \subseteq visited /\ visited \subseteq ClassName

\* What the loops have done so far.
LoopInv ==
  /\ i \in Nat \ {0}
  /\ \A s \in DOMAIN index : /\ index[s] \in DOMAIN exports
                             /\ exports[index[s]].symbol = s /\ exports[index[s]].problem = "none"
  /\ seen \subseteq {natives[k].symbol : k \in DOMAIN natives}
  /\ matched \subseteq DOMAIN index \cap seen

IsDiag(d) ==
  /\ d.code \in Codes /\ d.digit \in 0..9
  /\ d.java \in {0} \cup DOMAIN natives
  /\ d.rust \in {0} \cup (IF d.code \in RefErrors THEN DOMAIN refs ELSE DOMAIN exports)

ReportInv == \A d \in report : IsDiag(d)

CheckInv == SidesRead /\ QueueInv /\ LoopInv /\ ReportInv

\* The invariant gives the type of every variable.
LEMMA CheckInvTypes == CheckInv => TypeOK
BY DEF CheckInv, QueueInv, LoopInv, ReportInv, IsDiag, Phases, TypeOK

\* What is known of the project and of what was read of it.
LEMMA ProjectFacts ==
  ASSUME SidesRead
  PROVE  /\ IsSeq(project.java) /\ \A c \in ToSet(project.java) : IsClass(c)
         /\ project.home # NoHome => IsHome(project.home)
         /\ Crate(project.files)
BY ProjectAssumption DEF SidesRead, Crate

\* What the two sides are made of.
LEMMA SideFacts ==
  ASSUME SidesRead
  PROVE  /\ Len(natives) \in Nat /\ DOMAIN natives = 1..Len(natives)
         /\ Len(exports) \in Nat /\ DOMAIN exports = 1..Len(exports)
         /\ \A k \in DOMAIN exports : exports[k].problem \in Problems
         /\ Len(refs) \in Nat /\ DOMAIN refs = 1..Len(refs)
         /\ \A k \in DOMAIN refs : refs[k].kind \in RefKinds
         /\ {refs[k].class : k \in DOMAIN refs} = BoundClasses(project.files)
         /\ BoundClasses(project.files) \subseteq ClassName
<1>1. /\ IsSeq(project.java) /\ \A c \in ToSet(project.java) : IsClass(c)
      /\ Crate(project.files)
  BY ProjectFacts
<1>2. IsSeq(natives)
  BY <1>1, NativesType DEF SidesRead
<1>3. IsSeq(exports) /\ \A k \in DOMAIN exports : exports[k].problem \in Problems
  BY <1>1, ExportsType DEF SidesRead
<1>4. /\ IsSeq(refs) /\ \A k \in DOMAIN refs : refs[k].kind \in RefKinds
      /\ {refs[k].class : k \in DOMAIN refs} = BoundClasses(project.files)
      /\ BoundClasses(project.files) \subseteq ClassName
  BY <1>1, ReferencesType DEF SidesRead
<1> QED BY <1>2, <1>3, <1>4, SeqFacts

\* The user's classes, before any of the JDK's has joined them.
LEMMA ModelFacts ==
  ASSUME SidesRead, models = Models(project.java)
  PROVE  /\ IsSeq(models) /\ Len(models) = Len(project.java)
         /\ ModelNames = DOMAIN UserTable(project.java)
         /\ \A c \in ModelNames : FirstModel(c).supers = UserTable(project.java)[c].supers
         /\ ModelNames \subseteq ClassName
         /\ \A c \in ModelNames : UserTable(project.java)[c].supers \subseteq ClassName
<1> DEFINE java == project.java
           named(c) == {k \in DOMAIN java : java[k].name = c}
<1>1. /\ Len(java) \in Nat /\ DOMAIN java = 1..Len(java)
      /\ \A k \in DOMAIN java : java[k] \in ToSet(java) /\ IsClass(java[k])
  BY ProjectFacts, SeqFacts
<1>2. models = [k \in 1..Len(java) |-> BuildModel(java[k])]
  BY <1>1 DEF Models
<1>3. models \in [1..Len(java) -> {BuildModel(java[k]) : k \in DOMAIN java}]
  BY <1>1, <1>2
<1>4. IsSeq(models) /\ Len(models) = Len(java) /\ DOMAIN models = 1..Len(java)
  BY <1>1, <1>3, FunIsSeq
<1>5. \A k \in DOMAIN java : models[k].name = java[k].name /\ models[k].supers = java[k].supers
  BY <1>1, <1>2 DEF BuildModel
<1>6. DOMAIN UserTable(java) = {java[k].name : k \in DOMAIN java}
  BY DEF UserTable, ToSet
<1>7. ModelNames = DOMAIN UserTable(java)
  BY <1>1, <1>4, <1>5, <1>6 DEF ModelNames
<1>8. ASSUME NEW c \in ModelNames
      PROVE  /\ Min(named(c)) \in DOMAIN java /\ UserTable(java)[c] = java[Min(named(c))]
             /\ FirstModel(c) = models[Min(named(c))] /\ c \in ClassName
  <2>1. PICK k \in DOMAIN java : c = java[k].name
    BY <1>6, <1>7
  <2>2. named(c) \in SUBSET Nat /\ named(c) # {}
    BY <1>1, <2>1
  <2>3. UserTable(java)[c] = java[Min(named(c))]
    BY <1>7 DEF UserTable
  <2>4. {j \in 1..Len(models) : models[j].name = c} = named(c)
    BY <1>1, <1>4, <1>5
  <2>5. FirstModel(c) = models[Min(named(c))]
    BY <2>2, <2>4 DEF FirstModel, SelectInSeq
  <2>6. Min(named(c)) \in named(c)
    <3> HIDE DEF named
    <3> QED BY <2>2, LeastNat
  <2>7. c \in ClassName
    BY <1>1, <2>1 DEF IsClass
  <2> QED BY <2>3, <2>5, <2>6, <2>7
<1> HIDE DEF named
<1>9. \A c \in ModelNames : /\ FirstModel(c).supers = UserTable(java)[c].supers
                            /\ UserTable(java)[c].supers \subseteq ClassName
  BY <1>1, <1>5, <1>8 DEF IsClass
<1>10. ModelNames \subseteq ClassName
  BY <1>8
<1> QED BY <1>4, <1>7, <1>9, <1>10

\* The JDK's classes.
LEMMA JdkFacts ==
  ASSUME SidesRead
  PROVE  /\ HomeSources # <<>> => ClassBytes(HomeSources) = JdkTable(project.home)
         /\ \A c \in DOMAIN JdkTable(project.home) :
              /\ JdkTable(project.home)[c].name = c /\ c \in ClassName
              /\ JdkTable(project.home)[c].supers \subseteq ClassName
<1>1. CASE project.home = NoHome
  <2>1. DOMAIN JdkTable(project.home) = {}
    BY <1>1 DEF JdkTable
  <2> QED BY <1>1, <2>1 DEF HomeSources
<1>2. CASE project.home # NoHome
  <2>1. ClassBytes(Open(project.home)) = JdkTable(project.home) /\ IsTable(JdkTable(project.home))
    BY <1>2, ProjectFacts, ClassBytesExact
  <2> QED BY <1>2, <2>1 DEF HomeSources, IsTable, IsClass
<1> QED BY <1>1, <1>2

\* The seeds are those of the binding's classes, in terms of the project alone.
LEMMA SeedFacts ==
  ASSUME SidesRead, models = Models(project.java)
  PROVE  /\ JdkSeeds \subseteq ClassName
         /\ JdkSeeds = (UNION {IF c \in DOMAIN UserTable(project.java)
                               THEN UserTable(project.java)[c].supers ELSE {c} :
                                 c \in BoundClasses(project.files)}) \ DOMAIN UserTable(project.java)
<1> DEFINE U == UserTable(project.java)
           SeedsFor(c) == IF c \in DOMAIN U THEN U[c].supers ELSE {c}
<1>1. /\ ModelNames = DOMAIN U /\ \A c \in ModelNames : FirstModel(c).supers = U[c].supers
      /\ \A c \in ModelNames : U[c].supers \subseteq ClassName
  BY ModelFacts
<1>2. /\ {refs[k].class : k \in DOMAIN refs} = BoundClasses(project.files)
      /\ BoundClasses(project.files) \subseteq ClassName
  BY SideFacts
<1>3. \A k \in DOMAIN refs : SeedsOf(refs[k]) = SeedsFor(refs[k].class)
  BY <1>1 DEF SeedsOf
<1> HIDE DEF U
<1>4. \A c : c \in BoundClasses(project.files) <=> \E k \in DOMAIN refs : c = refs[k].class
  BY <1>2
<1>5. \A x : x \in UNION {SeedsOf(refs[k]) : k \in DOMAIN refs}
               <=> \E k \in DOMAIN refs : x \in SeedsFor(refs[k].class)
  BY <1>3
<1>6. \A x : x \in UNION {SeedsFor(c) : c \in BoundClasses(project.files)}
               <=> \E k \in DOMAIN refs : x \in SeedsFor(refs[k].class)
  <2> HIDE DEF SeedsFor
  <2> QED BY <1>4
<1>7. JdkSeeds = (UNION {SeedsFor(c) : c \in BoundClasses(project.files)}) \ DOMAIN U
  <2> DEFINE A == UNION {SeedsOf(refs[k]) : k \in DOMAIN refs}
             B == UNION {SeedsFor(c) : c \in BoundClasses(project.files)}
  <2>1. \A x : x \in A <=> x \in B
    <3> HIDE DEF SeedsFor
    <3> QED BY <1>5, <1>6
  <2>2. JdkSeeds = A \ ModelNames
    BY DEF JdkSeeds
  <2> HIDE DEF A, B
  <2>3. A = B
    BY <2>1
  <2> QED BY <1>1, <2>2, <2>3 DEF B
<1>8. \A c \in BoundClasses(project.files) : SeedsFor(c) \subseteq ClassName
  BY <1>1, <1>2
<1>9. JdkSeeds \subseteq ClassName
  <2> HIDE DEF SeedsFor
  <2> QED BY <1>7, <1>8
<1> QED BY <1>7, <1>9 DEF U

-----------------------------------------------------------------------------
(* Each step keeps it.                                                     *)

\* The invariant holds of the start.
LEMMA InitCheck == Init => CheckInv
<1> SUFFICES ASSUME Init PROVE CheckInv
  OBVIOUS
<1>1. SidesRead
  BY DEF Init, SidesRead
<1>2. models = Models(project.java) /\ phase = "seeds" /\ waiting = {} /\ visited = {}
  BY DEF Init
<1>3. IsSeq(models) /\ Len(project.java) <= Len(models)
  BY <1>1, <1>2, ModelFacts, ProjectFacts, SeqFacts
<1>4. QueueInv
  BY <1>2, <1>3 DEF QueueInv, Phases
<1>5. i = 1 /\ index = <<>> /\ seen = {} /\ matched = {} /\ report = {} /\ DOMAIN index = {}
  BY DEF Init
<1>6. LoopInv /\ ReportInv
  BY <1>5 DEF LoopInv, ReportInv
<1> QED BY <1>1, <1>4, <1>6 DEF CheckInv

\* What a step of the loops leaves alone.
LEMMA SameSides ==
  ASSUME SidesRead, UNCHANGED <<project, sides>>
  PROVE  SidesRead' /\ UNCHANGED <<project, natives, exports, refs>>
BY DEF SidesRead, sides

\* A step that leaves the queue alone keeps what is known of it.
LEMMA SameQueue ==
  ASSUME QueueInv, UNCHANGED <<project, closing>>, phase' \in Phases,
         phase' = phase \/ phase' \notin {"seeds", "closing"}
  PROVE  QueueInv'
BY DEF QueueInv, closing, HomeSources

\* A step that leaves the pairing alone keeps what is known of it.
LEMMA SameLoop ==
  ASSUME LoopInv, UNCHANGED <<natives, exports, pairing>>, i' \in Nat \ {0}
  PROVE  LoopInv'
BY DEF LoopInv, pairing

\* A step that reports nothing keeps what is known of the report.
LEMMA SameReport ==
  ASSUME ReportInv, UNCHANGED <<natives, exports, refs, report>>
  PROVE  ReportInv'
BY DEF ReportInv, IsDiag

\* The classes of the JDK are looked for.
LEMMA ResolutionKeeps == CheckInv /\ Resolution => CheckInv'
<1> SUFFICES ASSUME CheckInv, Resolution PROVE CheckInv'
  OBVIOUS
<1> USE DEF CheckInv
<1>1. UNCHANGED <<project, sides, i, pairing, report>> /\ UNCHANGED <<project, sides>>
  BY DEF Resolution, ResolveJdk, SkipJdk, LoadJdkClass, DropJdkClass, EndJdk
<1>2. SidesRead' /\ UNCHANGED <<project, natives, exports, refs>>
  BY <1>1, SameSides
<1>3. LoopInv'
  <2>1. UNCHANGED <<natives, exports, pairing>> /\ i' \in Nat \ {0}
    BY <1>1, <1>2 DEF LoopInv
  <2> QED BY <2>1, SameLoop
<1>4. ReportInv'
  BY <1>1, <1>2, SameReport
<1>5. QueueInv'
  <2>1. CASE SkipJdk \/ EndJdk
    <3>1. UNCHANGED <<project, closing>> /\ phase' = "index"
      BY <2>1 DEF SkipJdk, EndJdk
    <3> QED BY <3>1, SameQueue DEF Phases
  <2>2. CASE ResolveJdk
    <3>1. /\ phase = "seeds" /\ HomeSources # <<>> /\ phase' = "closing"
          /\ jdk' = ClassBytes(HomeSources) /\ waiting' = JdkSeeds
          /\ visited' = ModelNames \cup JdkSeeds /\ models' = models
      BY <2>2 DEF ResolveJdk, InitiallyVisited
    <3>2. models = Models(project.java)
      BY <3>1 DEF QueueInv
    <3>3. ModelNames \subseteq ClassName /\ JdkSeeds \subseteq ClassName
      BY <3>2, ModelFacts, SeedFacts
    <3>4. jdk' = JdkTable(project.home)
      BY <3>1, JdkFacts
    <3>5. HomeSources' # <<>>
      BY <1>2, <3>1 DEF HomeSources
    <3> QED BY <1>2, <3>1, <3>3, <3>4, <3>5 DEF QueueInv, Phases
  <2>3. ASSUME NEW c \in waiting, LoadJdkClass(c) PROVE QueueInv'
    <3> DEFINE m == BuildModel(jdk[c])
    <3>1. /\ phase = "closing" /\ phase' = phase /\ jdk' = jdk
          /\ c \in DOMAIN jdk /\ models' = Append(models, m)
          /\ waiting' = (waiting \ {c}) \cup (m.supers \ visited)
          /\ visited' = visited \cup m.supers
      BY <2>3 DEF LoadJdkClass, Parents
    <3>2. m.supers \subseteq ClassName
      BY <3>1, JdkFacts DEF QueueInv, BuildModel
    <3> HIDE DEF m
    <3>3. Len(models) \in Nat /\ Len(project.java) \in Nat
      BY SeqFacts, ProjectFacts DEF QueueInv
    <3>4. IsSeq(models') /\ Len(models') = Len(models) + 1
      <4>1. models' = models \o <<m>> /\ models \in Seq(ToSet(models) \cup {m})
        <5>1. models \in Seq(ToSet(models))
          BY DEF QueueInv, IsSeq
        <5>2. models \in Seq(ToSet(models) \cup {m})
          BY <5>1, SeqMonotonic
        <5> QED BY <3>1, <5>2, AppendIsConcat
      <4>2. Len(models') = Len(models) + 1
        BY <3>1, <4>1, AppendProperties
      <4>3. IsSeq(models \o <<m>>)
        BY ShortSeqs, JoinIsSeq DEF QueueInv
      <4> QED BY <4>1, <4>2, <4>3
    <3>5. HomeSources' = HomeSources
      BY <1>2 DEF HomeSources
    <3>6. waiting' \subseteq visited' /\ visited' \subseteq ClassName
      BY <3>1, <3>2 DEF QueueInv
    <3>7. IsSeq(models)' /\ Len(project.java)' <= Len(models)'
      BY <1>2, <3>3, <3>4 DEF QueueInv, IsSeq
    <3> QED BY <1>2, <3>1, <3>5, <3>6, <3>7 DEF QueueInv
  <2>4. ASSUME NEW c \in waiting, DropJdkClass(c) PROVE QueueInv'
    <3>1. /\ phase = "closing" /\ phase' = phase /\ UNCHANGED <<models, jdk, visited>>
          /\ waiting' = waiting \ {c}
      BY <2>4 DEF DropJdkClass, Popped
    <3>2. HomeSources' = HomeSources
      BY <1>2 DEF HomeSources
    <3> QED BY <1>2, <3>1, <3>2 DEF QueueInv
  <2> QED BY <2>1, <2>2, <2>3, <2>4 DEF Resolution
<1> QED BY <1>2, <1>3, <1>4, <1>5

\* A loop ends.
LEMMA LeaveKeeps ==
  ASSUME NEW p, NEW s, NEW next \in Phases \ {"seeds", "closing"}, CheckInv, Leave(p, s, next)
  PROVE  CheckInv'
<1> USE DEF CheckInv
<1>1. /\ UNCHANGED <<project, sides>> /\ UNCHANGED <<project, closing>> /\ UNCHANGED pairing
      /\ UNCHANGED report /\ i' = 1 /\ phase' = next
  BY DEF Leave
<1>2. SidesRead' /\ UNCHANGED <<project, natives, exports, refs>>
  BY <1>1, SameSides
<1>3. QueueInv'
  BY <1>1, SameQueue
<1>4. LoopInv'
  BY <1>1, <1>2, SameLoop
<1> QED BY <1>1, <1>2, <1>3, <1>4, SameReport

\* An iteration that reports what may be reported.
LEMMA VisitKeeps ==
  ASSUME NEW p, NEW s, CheckInv, Visit(p, s)
  PROVE  /\ SidesRead' /\ QueueInv' /\ UNCHANGED <<natives, exports, refs>>
         /\ i' \in Nat \ {0} /\ i \in Nat \ {0} /\ i <= Len(s)
<1> USE DEF CheckInv
<1>1. /\ UNCHANGED <<project, sides>> /\ UNCHANGED <<project, closing>>
      /\ i' = i + 1 /\ phase' = phase /\ i <= Len(s)
  BY DEF Visit
<1>2. SidesRead' /\ UNCHANGED <<project, natives, exports, refs>>
  BY <1>1, SameSides
<1>3. QueueInv'
  BY <1>1, SameQueue DEF QueueInv
<1> QED BY <1>1, <1>2, <1>3 DEF LoopInv

\* What a loop adds to the report.
LEMMA Adds ==
  ASSUME ReportInv, UNCHANGED <<natives, exports, refs>>, NEW D, report' = report \cup D,
         \A d \in D : IsDiag(d)
  PROVE  ReportInv'
BY DEF ReportInv, IsDiag

\* A comparison of two types gives digits.
LEMMA CompareType == \A j, r : Compare(j, r) \subseteq 0..9
BY DEF Compare, ComparePointers

\* A reference is reported with the codes of references.
LEMMA RefCodesType ==
  ASSUME NEW r, r.kind \in RefKinds, NEW idx
  PROVE  RefCodes(r, idx) \subseteq RefErrors
<1>1. \A cs : MethodCodes(r, cs) \subseteq RefErrors
  BY DEF MethodCodes, RefErrors
<1>2. \A c : ConstructorCodes(r, c) \subseteq RefErrors
  BY DEF ConstructorCodes, RefErrors
<1>3. \A fs : HandleCodes(r, fs) \subseteq RefErrors
  BY DEF HandleCodes, RefErrors
<1>4. \A cs : FieldCodes(r, cs) \subseteq RefErrors
  BY <1>3 DEF FieldCodes, RefErrors
<1>5. {"W004"} \subseteq RefErrors
  BY DEF RefErrors
<1> QED BY <1>1, <1>2, <1>4, <1>5 DEF RefCodes, RefKinds

\* The codes that are about natives and exports.
PairCodes ==
  {"E000", "E001", "E002", "E004", "E005", "E010", "E02", "E03", "W001", "W002", "W003"}

\* A diagnostic of the comparison, and one of a reference.
LEMMA PairDiag ==
  ASSUME NEW code \in PairCodes, NEW digit \in 0..9,
         NEW j \in {0} \cup DOMAIN natives, NEW k \in {0} \cup DOMAIN exports, NEW slot
  PROVE  IsDiag(Diag(code, digit, j, k, slot))
<1>1. code \in Codes /\ code \notin RefErrors
  BY DEF PairCodes, RefErrors, Codes
<1> QED BY <1>1 DEF IsDiag, Diag

\* What is reported of a reference points at it.
LEMMA RefDiag ==
  ASSUME NEW code \in RefErrors, NEW k \in DOMAIN refs
  PROVE  IsDiag(Diag(code, 0, 0, k, 0))
<1>1. code \in Codes
  BY DEF RefErrors, Codes
<1> QED BY <1>1 DEF IsDiag, Diag

\* The arguments of most diagnostics.
LEMMA DiagArguments ==
  /\ 0 \in 0..9 /\ 0 \in {0} \cup DOMAIN natives /\ 0 \in {0} \cup DOMAIN exports
  /\ \A k \in DOMAIN natives : k \in {0} \cup DOMAIN natives
  /\ \A k \in DOMAIN exports : k \in {0} \cup DOMAIN exports
  /\ {"E000", "E001", "E002", "E004", "E005", "E010", "E02", "E03", "W001", "W002", "W003"}
       \subseteq PairCodes
BY DEF PairCodes

\* A diagnostic of export k alone, and one of native j alone.
LEMMA ExportDiag ==
  ASSUME NEW code \in PairCodes, NEW k \in DOMAIN exports
  PROVE  IsDiag(Diag(code, 0, 0, k, 0))
BY DiagArguments, PairDiag, Zenon

\* What is reported of a native method points at it, and at an export or none.
LEMMA NativeDiag ==
  ASSUME NEW code \in PairCodes, NEW j \in DOMAIN natives
  PROVE  IsDiag(Diag(code, 0, j, 0, 0))
BY DiagArguments, PairDiag, Zenon

\* The loop that indexes the exports, with E000 for a symbol met again.
LEMMA IndexKeeps == CheckInv /\ IndexExport => CheckInv'
<1> SUFFICES ASSUME CheckInv, IndexExport PROVE CheckInv'
  OBVIOUS
<1> DEFINE e == exports[i]
<1>1. /\ SidesRead' /\ QueueInv' /\ UNCHANGED <<natives, exports, refs>>
      /\ i' \in Nat \ {0} /\ i \in Nat \ {0} /\ i <= Len(exports)
  BY VisitKeeps DEF IndexExport
<1>2. i \in DOMAIN exports /\ e.problem \in Problems
  BY <1>1, SideFacts DEF CheckInv
<1>3. seen' = seen /\ matched' = matched
  BY DEF IndexExport
<1>4. CASE Broken(e)
  <2>1. report' = report \cup {Diag(ProblemCode[e.problem], 0, 0, i, 0)} /\ index' = index
    BY <1>4 DEF IndexExport
  <2>2. ProblemCode[e.problem] \in {"W002", "E004"}
    BY <1>2, <1>4 DEF Broken, Problems, ProblemCode
  <2>3. IsDiag(Diag(ProblemCode[e.problem], 0, 0, i, 0))
    BY <1>2, <2>2, ExportDiag DEF PairCodes
  <2> DEFINE D == {Diag(ProblemCode[e.problem], 0, 0, i, 0)}
  <2>6. report' = report \cup D /\ \A d \in D : IsDiag(d)
    BY <2>1, <2>3
  <2> HIDE DEF D
  <2>4. ReportInv'
    BY <1>1, <2>6, Adds DEF CheckInv
  <2>5. LoopInv'
    BY <1>1, <1>3, <2>1, SameLoop DEF CheckInv, pairing
  <2> QED BY <1>1, <2>4, <2>5 DEF CheckInv
<1>5. CASE ~Broken(e)
  <2>1. /\ index' = [s \in DOMAIN index \cup {e.symbol} |-> IF s = e.symbol THEN i ELSE index[s]]
        /\ report' = report \cup (IF e.symbol \in DOMAIN index THEN {Diag("E000", 0, 0, i, 0)} ELSE {})
    BY <1>5 DEF IndexExport
  <2>2. IsDiag(Diag("E000", 0, 0, i, 0))
    BY <1>2, ExportDiag, DiagArguments, Zenon
  <2> DEFINE D == IF e.symbol \in DOMAIN index THEN {Diag("E000", 0, 0, i, 0)} ELSE {}
  <2>6. report' = report \cup D /\ \A d \in D : IsDiag(d)
    BY <2>1, <2>2
  <2> HIDE DEF D
  <2>3. ReportInv'
    BY <1>1, <2>6, Adds DEF CheckInv
  <2>4. /\ DOMAIN index' = DOMAIN index \cup {e.symbol}
        /\ \A s \in DOMAIN index' : index'[s] = IF s = e.symbol THEN i ELSE index[s]
    BY <2>1
  <2>5. LoopInv'
    BY <1>1, <1>2, <1>3, <1>5, <2>4 DEF CheckInv, LoopInv, Broken
  <2> QED BY <1>1, <2>3, <2>5 DEF CheckInv
<1> QED BY <1>4, <1>5

\* What a native and its export have to do with each other.
LEMMA PairDiagsType ==
  ASSUME i \in DOMAIN natives, NEW k \in DOMAIN exports
  PROVE  \A d \in PairDiags(natives[i], k) : IsDiag(d)
<1> DEFINE n == natives[i]
           e == exports[k]
<1>1. \A c \in ReceiverCodes(n, e) : c = "E002"
  BY DEF ReceiverCodes
<1> DEFINE Pair(c) == IsDiag(Diag(c, 0, i, k, 0))
<1>2. Pair("E002") /\ Pair("E010")
  BY DiagArguments, PairDiag, Zenon
<1>3. \A c \in ReceiverCodes(n, e) : IsDiag(Diag(c, 0, i, k, 0))
  BY <1>1, <1>2, Zenon
<1>4. \A s : \A d \in Compare(n.params[s], e.params[s]) : IsDiag(Diag("E02", d, i, k, s))
  BY CompareType, DiagArguments, PairDiag, Zenon
<1>5. \A d \in Compare(n.ret, e.ret) : IsDiag(Diag("E03", d, i, k, 0))
  BY CompareType, DiagArguments, PairDiag, Zenon
<1>6. \A x \in SlotDiags(n, k) : IsDiag(x)
  BY <1>4, <1>5, Zenon DEF SlotDiags
<1> QED BY <1>2, <1>3, <1>6, Zenon DEF PairDiags

\* The loop over the native methods.
LEMMA MatchKeeps == CheckInv /\ MatchNative => CheckInv'
<1> SUFFICES ASSUME CheckInv, MatchNative PROVE CheckInv'
  OBVIOUS
<1> DEFINE n == natives[i]
           twice == IF n.symbol \in seen THEN {Diag("E005", 0, i, 0, 0)} ELSE {}
<1>1. /\ SidesRead' /\ QueueInv' /\ UNCHANGED <<natives, exports, refs>>
      /\ i' \in Nat \ {0} /\ i \in Nat \ {0} /\ i <= Len(natives)
  BY VisitKeeps DEF MatchNative
<1>2. i \in DOMAIN natives
  BY <1>1, SideFacts DEF CheckInv
<1>3. seen' = seen \cup {n.symbol} /\ index' = index
  BY DEF MatchNative
<1>7. IsDiag(Diag("E005", 0, i, 0, 0)) /\ IsDiag(Diag("E001", 0, i, 0, 0))
  BY <1>2, NativeDiag, DiagArguments, Zenon
<1>4. \A d \in twice : IsDiag(d)
  BY <1>7
<1> HIDE DEF twice
<1>5. CASE n.symbol \in DOMAIN index
  <2>1. matched' = matched \cup {n.symbol}
          /\ report' = report \cup (twice \cup PairDiags(n, index[n.symbol]))
    BY <1>5 DEF MatchNative, twice
  <2>2. index[n.symbol] \in DOMAIN exports
    BY <1>5 DEF CheckInv, LoopInv
  <2>3. \A d \in twice \cup PairDiags(n, index[n.symbol]) : IsDiag(d)
    BY <1>2, <1>4, <2>2, PairDiagsType
  <2>4. ReportInv'
    BY <1>1, <2>1, <2>3, Adds DEF CheckInv
  <2>5. LoopInv'
    BY <1>1, <1>2, <1>3, <1>5, <2>1 DEF CheckInv, LoopInv
  <2> QED BY <1>1, <2>4, <2>5 DEF CheckInv
<1>6. CASE n.symbol \notin DOMAIN index
  <2>1. matched' = matched /\ report' = report \cup (twice \cup {Diag("E001", 0, i, 0, 0)})
    BY <1>6 DEF MatchNative, twice
  <2> DEFINE D == twice \cup {Diag("E001", 0, i, 0, 0)}
  <2>2. report' = report \cup D /\ \A d \in D : IsDiag(d)
    BY <1>4, <1>7, <2>1
  <2> HIDE DEF D
  <2>4. ReportInv'
    BY <1>1, <2>2, Adds DEF CheckInv
  <2>5. LoopInv'
    BY <1>1, <1>2, <1>3, <2>1 DEF CheckInv, LoopInv
  <2> QED BY <1>1, <2>4, <2>5 DEF CheckInv
<1> QED BY <1>5, <1>6

\* The loop over the exports that no native method matched.
LEMMA LintKeeps == CheckInv /\ LintExport => CheckInv'
<1> SUFFICES ASSUME CheckInv, LintExport PROVE CheckInv'
  OBVIOUS
<1> DEFINE D == IF Broken(exports[i]) THEN {} ELSE {Diag(c, 0, 0, i, 0) : c \in LintCodes(exports[i])}
<1>1. /\ SidesRead' /\ QueueInv' /\ UNCHANGED <<natives, exports, refs>>
      /\ i' \in Nat \ {0} /\ i \in Nat \ {0} /\ i <= Len(exports)
  BY VisitKeeps DEF LintExport
<1>2. i \in DOMAIN exports
  BY <1>1, SideFacts DEF CheckInv
<1>3. report' = report \cup D /\ UNCHANGED pairing
  BY DEF LintExport
<1>4. LintCodes(exports[i]) \subseteq {"W001", "W003"}
  BY DEF LintCodes
<1>5. \A d \in D : IsDiag(d)
  BY <1>2, <1>4, ExportDiag DEF PairCodes
<1> HIDE DEF D
<1>6. ReportInv'
  BY <1>1, <1>3, <1>5, Adds DEF CheckInv
<1>7. LoopInv'
  BY <1>1, <1>3, SameLoop DEF CheckInv
<1> QED BY <1>1, <1>6, <1>7 DEF CheckInv

\* The loop over the references.
LEMMA RefKeeps == CheckInv /\ CheckRef => CheckInv'
<1> SUFFICES ASSUME CheckInv, CheckRef PROVE CheckInv'
  OBVIOUS
<1> DEFINE D == {Diag(c, 0, 0, i, 0) : c \in RefCodes(refs[i], ModelIndex)}
<1>1. /\ SidesRead' /\ QueueInv' /\ UNCHANGED <<natives, exports, refs>>
      /\ i' \in Nat \ {0} /\ i \in Nat \ {0} /\ i <= Len(refs)
  BY VisitKeeps DEF CheckRef
<1>2. i \in DOMAIN refs /\ refs[i].kind \in RefKinds
  BY <1>1, SideFacts DEF CheckInv
<1>3. report' = report \cup D /\ UNCHANGED pairing
  BY DEF CheckRef
<1>4. RefCodes(refs[i], ModelIndex) \subseteq RefErrors
  BY <1>2, RefCodesType
<1>5. \A d \in D : IsDiag(d)
  BY <1>2, <1>4, RefDiag
<1> HIDE DEF D
<1>6. ReportInv'
  BY <1>1, <1>3, <1>5, Adds DEF CheckInv
<1>7. LoopInv'
  BY <1>1, <1>3, SameLoop DEF CheckInv
<1> QED BY <1>1, <1>6, <1>7 DEF CheckInv

\* CheckInv holds of what Init reads and of every step of `run`.
THEOREM CheckInvariance == Spec => []CheckInv
<1>1. CheckInv /\ [Next]_vars => CheckInv'
  <2> SUFFICES ASSUME CheckInv, [Next]_vars PROVE CheckInv'
    OBVIOUS
  <2>1. CASE Resolution
    BY <2>1, ResolutionKeeps
  <2>2. CASE Matching
    <3>1. {"match", "lint", "refs", "done"} \subseteq Phases \ {"seeds", "closing"}
      BY DEF Phases
    <3>2. CASE IndexExport \/ MatchNative \/ LintExport \/ CheckRef
      BY <3>2, IndexKeeps, MatchKeeps, LintKeeps, RefKeeps
    <3>3. CASE Leave("index", exports, "match")
      BY <3>1, <3>3, LeaveKeeps
    <3>4. CASE Leave("match", natives, "lint")
      BY <3>1, <3>4, LeaveKeeps
    <3>5. CASE Leave("lint", exports, "refs")
      BY <3>1, <3>5, LeaveKeeps
    <3>6. CASE Leave("refs", refs, "done")
      BY <3>1, <3>6, LeaveKeeps
    <3> QED BY <2>2, <3>2, <3>3, <3>4, <3>5, <3>6 DEF Matching
  <2>3. CASE UNCHANGED vars
    <3>1. /\ UNCHANGED <<project, sides>> /\ UNCHANGED <<project, closing>> /\ UNCHANGED pairing
          /\ UNCHANGED report /\ i' = i /\ phase' = phase
      BY <2>3 DEF vars
    <3>2. SidesRead' /\ UNCHANGED <<project, natives, exports, refs>>
      BY <3>1, SameSides DEF CheckInv
    <3>3. QueueInv'
      BY <3>1, SameQueue DEF CheckInv, QueueInv
    <3>4. LoopInv'
      BY <3>1, <3>2, SameLoop DEF CheckInv, LoopInv
    <3> QED BY <3>1, <3>2, <3>3, <3>4, SameReport DEF CheckInv
  <2> QED BY <2>1, <2>2, <2>3 DEF Next
<1> QED BY InitCheck, <1>1, PTL DEF Spec

\* Every diagnostic points at a native, an export or a reference that was read,
\* and the export of a symbol is one that has it and can be called.
THEOREM TypeCorrect == Spec => []TypeOK
BY CheckInvariance, CheckInvTypes, PTL

-----------------------------------------------------------------------------
(* The classes of the JDK.                                                 *)

\* JdkClosure again, with what is proved of it.
CP == INSTANCE JdkClosureProofs WITH
  Class   <- ClassName,
  user    <- Supers(UserTable(project.java)),
  jdk     <- Supers(JdkTable(project.home)),
  home    <- HomeSources # <<>>,
  bound   <- {ClassDottedToInternal(b.class) :
                b \in {x \in ToSet(Items(project.files, "bind")) : HasRefs(x)}},
  step    <- IF phase \in {"seeds", "closing"} THEN phase ELSE "done",
  waiting <- waiting,
  visited <- visited,
  loaded  <- {models[k].name : k \in (Len(project.java) + 1)..Len(models)}

\* The state of JdkClosure, in the terms of Checker.
UserGraph == Supers(UserTable(project.java))
JdkGraph  == Supers(JdkTable(project.home))
Stage     == IF phase \in {"seeds", "closing"} THEN phase ELSE "done"
Fetched   == {models[k].name : k \in (Len(project.java) + 1)..Len(models)}

\* The two graphs are graphs over ClassName, and have the tables' supertypes.
LEMMA GraphFacts ==
  ASSUME SidesRead
  PROVE  /\ CP!IsGraph(UserGraph) /\ CP!IsGraph(JdkGraph)
         /\ DOMAIN UserGraph = DOMAIN UserTable(project.java)
         /\ DOMAIN JdkGraph = DOMAIN JdkTable(project.home)
         /\ \A c \in DOMAIN UserGraph : UserGraph[c] = UserTable(project.java)[c].supers
         /\ \A c \in DOMAIN JdkGraph : JdkGraph[c] = JdkTable(project.home)[c].supers
<1>1. /\ \A c \in DOMAIN JdkTable(project.home) :
           c \in ClassName /\ JdkTable(project.home)[c].supers \subseteq ClassName
  BY JdkFacts
<1>2. ASSUME NEW c \in DOMAIN UserTable(project.java)
      PROVE  c \in ClassName /\ UserTable(project.java)[c].supers \subseteq ClassName
  <2> DEFINE java == project.java
             named == {k \in DOMAIN java : java[k].name = c}
  <2>1. /\ DOMAIN java = 1..Len(java)
        /\ \A k \in DOMAIN java : IsClass(java[k])
    BY ProjectFacts, SeqFacts
  <2>2. named # {} /\ named \in SUBSET Nat
    BY <2>1 DEF UserTable, ToSet
  <2>3. Min(named) \in named
    <3> HIDE DEF named
    <3> QED BY <2>2, LeastNat
  <2>4. UserTable(java)[c] = java[Min(named)]
    BY DEF UserTable
  <2> QED BY <2>1, <2>3, <2>4 DEF IsClass
<1> QED BY <1>1, <1>2 DEF UserGraph, JdkGraph, Supers, CP!IsGraph

\* The seeds of the two are the same.
LEMMA SameSeeds ==
  ASSUME SidesRead, models = Models(project.java)
  PROVE  CP!Seeds = JdkSeeds
<1> DEFINE U == UserTable(project.java)
           SeedsFor(c) == IF c \in DOMAIN U THEN U[c].supers ELSE {c}
           A == UNION {SeedsFor(c) : c \in BoundClasses(project.files)}
           B == UNION {CP!SeedsOf(c) : c \in BoundClasses(project.files)}
<1>1. JdkSeeds = A \ DOMAIN U
  BY SeedFacts, Zenon
<1>2. \A c : CP!SeedsOf(c) = SeedsFor(c)
  BY GraphFacts DEF CP!SeedsOf, UserGraph
<1>3. CP!Seeds = B \ DOMAIN UserGraph
  BY DEF CP!Seeds, UserGraph, BoundClasses
<1>4. A = B
  <2> HIDE DEF SeedsFor
  <2> QED BY <1>2
<1>5. DOMAIN UserGraph = DOMAIN U
  BY GraphFacts
<1> HIDE DEF A, B, U
<1> QED BY <1>1, <1>3, <1>4, <1>5

\* What the mapping makes of a state before the JDK's classes are read.
LEMMA ClosureInit == Init => CP!Init
<1> SUFFICES ASSUME Init PROVE CP!Init
  OBVIOUS
<1>1. SidesRead /\ models = Models(project.java)
  BY DEF Init, SidesRead
<1>2. CP!IsGraph(UserGraph) /\ CP!IsGraph(JdkGraph)
        /\ BoundClasses(project.files) \subseteq ClassName
  BY <1>1, GraphFacts, SideFacts
<1>3. Len(models) = Len(project.java) /\ Len(models) \in Nat
  BY <1>1, ModelFacts, ProjectFacts, SeqFacts
<1>4. Fetched = {}
  BY <1>3 DEF Fetched
<1>5. phase = "seeds" /\ waiting = {} /\ visited = {} /\ (HomeSources # <<>>) \in BOOLEAN
  BY DEF Init
<1> QED BY <1>2, <1>4, <1>5 DEF CP!Init, UserGraph, JdkGraph, Fetched, BoundClasses

\* Each step of the checker is one of JdkClosure, or none.
LEMMA ClosureStep == CheckInv /\ [Next]_vars => [CP!Next]_(CP!vars)
<1> SUFFICES ASSUME CheckInv, [Next]_vars PROVE CP!Next \/ UNCHANGED CP!vars
  OBVIOUS
<1> USE DEF CheckInv
<1>1. UNCHANGED <<project, sides>>
  BY DEF Next, Resolution, Matching, ResolveJdk, SkipJdk, LoadJdkClass, DropJdkClass, EndJdk,
       IndexExport,
         MatchNative, LintExport, CheckRef, Visit, Leave, vars
<1>2. project' = project /\ UserGraph' = UserGraph /\ JdkGraph' = JdkGraph
      /\ BoundClasses(project.files)' = BoundClasses(project.files) /\ HomeSources' = HomeSources
  BY <1>1 DEF UserGraph, JdkGraph, HomeSources
<1>3. UNCHANGED CP!inputs
  BY <1>2 DEF CP!inputs, UserGraph, JdkGraph, BoundClasses
<1>4. ASSUME Stage' = Stage, UNCHANGED closing PROVE UNCHANGED CP!vars
  <2>1. Fetched' = Fetched /\ waiting' = waiting /\ visited' = visited
    BY <1>2, <1>4 DEF closing, Fetched
  <2> QED BY <1>2, <1>4, <2>1 DEF CP!vars, UserGraph, JdkGraph, BoundClasses, Stage, Fetched
<1>5. CASE ResolveJdk
  <2>1. /\ phase = "seeds" /\ JdkSeeds # {} /\ HomeSources # <<>> /\ phase' = "closing"
        /\ waiting' = JdkSeeds /\ visited' = ModelNames \cup JdkSeeds /\ models' = models
    BY <1>5 DEF ResolveJdk, InitiallyVisited
  <2>2. models = Models(project.java)
    BY <2>1 DEF QueueInv
  <2>3. CP!Seeds = JdkSeeds /\ ModelNames = DOMAIN UserGraph
    BY <2>2, SameSeeds, ModelFacts, GraphFacts
  <2>4. Stage = "seeds" /\ Stage' = "closing" /\ Fetched' = Fetched
    BY <1>2, <2>1 DEF Stage, Fetched
  <2>5. CP!Resolve
    BY <1>3, <2>1, <2>3, <2>4 DEF CP!Resolve, Stage, Fetched, UserGraph
  <2> QED BY <2>5 DEF CP!Next
<1>6. CASE SkipJdk
  <2>1. phase = "seeds" /\ (JdkSeeds = {} \/ HomeSources = <<>>) /\ phase' = "index"
          /\ UNCHANGED closing
    BY <1>6 DEF SkipJdk
  <2>2. CP!Seeds = JdkSeeds
    BY <2>1, SameSeeds DEF QueueInv
  <2>3. Stage = "seeds" /\ Stage' = "done" /\ Fetched' = Fetched /\ waiting' = waiting
          /\ visited' = visited
    BY <1>2, <2>1 DEF Stage, Fetched, closing
  <2>4. CP!Skip
    BY <1>3, <2>1, <2>2, <2>3 DEF CP!Skip, Stage, Fetched
  <2> QED BY <2>4 DEF CP!Next
<1>7. ASSUME NEW c \in waiting, LoadJdkClass(c) PROVE CP!Next
  <2> DEFINE m == BuildModel(jdk[c])
  <2>1. /\ phase = "closing" /\ phase' = phase /\ c \in DOMAIN jdk /\ models' = Append(models, m)
        /\ waiting' = (waiting \ {c}) \cup (m.supers \ visited) /\ visited' = visited \cup m.supers
        /\ jdk = JdkTable(project.home)
    BY <1>7 DEF LoadJdkClass, Parents, QueueInv
  <2>2. /\ c \in DOMAIN JdkGraph /\ m.supers = JdkGraph[c] /\ m.name = c /\ c \in ClassName
    BY <2>1, JdkFacts, GraphFacts DEF BuildModel
  <2> HIDE DEF m
  <2>3. /\ Len(models) \in Nat /\ Len(project.java) \in Nat /\ Len(project.java) <= Len(models)
        /\ models \in Seq(ToSet(models))
    BY SeqFacts, ProjectFacts DEF QueueInv, IsSeq
  <2>4. Fetched' = Fetched \cup {c}
    <3> DEFINE S == ToSet(models) \cup {m}
    <3>1. models \in Seq(S) /\ m \in S
      BY <2>3, SeqMonotonic
    <3> HIDE DEF S
    <3>2. /\ Len(models') = Len(models) + 1 /\ models'[Len(models) + 1] = m
          /\ \A k \in 1..Len(models) : models'[k] = models[k]
      BY <2>1, <3>1, AppendProperties
    <3>3. \A k : k \in (Len(project.java) + 1)..Len(models')
                  <=> k \in (Len(project.java) + 1)..Len(models) \/ k = Len(models) + 1
      BY <2>3, <3>2
    <3>4. \A k \in (Len(project.java) + 1)..Len(models) : models'[k] = models[k]
      BY <2>3, <3>2
    <3>5. Fetched' = {models'[k].name : k \in (Len(project.java) + 1)..Len(models')}
      BY <1>2 DEF Fetched
    <3> DEFINE K == (Len(project.java) + 1)..Len(models)
               L == (Len(project.java) + 1)..Len(models')
    <3>6. \A x : x \in Fetched' <=> \E k \in L : x = models'[k].name
      BY <3>5
    <3>7. \A x : x \in Fetched <=> \E k \in K : x = models[k].name
      BY DEF Fetched
    <3>8. (\A k : k \in L <=> k \in K \/ k = Len(models) + 1) /\ models'[Len(models) + 1].name = c
      BY <2>2, <3>2, <3>3
    <3>9. \A k \in K : models'[k] = models[k]
      BY <3>4
    <3> HIDE DEF K, L
    <3>10. \A x : x \in Fetched' <=> x \in Fetched \/ x = c
      BY <3>6, <3>7, <3>8, <3>9
    <3> QED BY <3>10
  <2>5. Stage = "closing" /\ Stage' = Stage
    BY <2>1 DEF Stage
  <2>6. CP!Load(c)
    BY <1>3, <2>1, <2>2, <2>4, <2>5 DEF CP!Load, Stage, Fetched, JdkGraph
  <2> QED BY <2>2, <2>6 DEF CP!Next
<1>8. ASSUME NEW c \in waiting, DropJdkClass(c) PROVE CP!Next
  <2>1. /\ phase = "closing" /\ phase' = phase /\ c \notin DOMAIN jdk /\ waiting' = waiting \ {c}
        /\ visited' = visited /\ models' = models /\ jdk = JdkTable(project.home)
    BY <1>8 DEF DropJdkClass, Popped, QueueInv
  <2>2. c \notin DOMAIN JdkGraph /\ c \in ClassName
    BY <2>1, GraphFacts DEF QueueInv
  <2>3. Stage = "closing" /\ Stage' = Stage /\ Fetched' = Fetched
    BY <1>2, <2>1 DEF Stage, Fetched
  <2>4. CP!Drop(c)
    BY <1>3, <2>1, <2>2, <2>3 DEF CP!Drop, Stage, Fetched, JdkGraph
  <2> QED BY <2>2, <2>4 DEF CP!Next
<1>9. CASE EndJdk
  <2>1. phase = "closing" /\ waiting = {} /\ phase' = "index" /\ UNCHANGED closing
    BY <1>9 DEF EndJdk
  <2>2. Stage = "closing" /\ Stage' = "done" /\ Fetched' = Fetched /\ waiting' = waiting
          /\ visited' = visited
    BY <1>2, <2>1 DEF Stage, Fetched, closing
  <2>3. CP!Finish
    BY <1>3, <2>1, <2>2 DEF CP!Finish, Stage, Fetched
  <2> QED BY <2>3 DEF CP!Next
<1>10. CASE Matching \/ UNCHANGED vars
  <2>1. Stage' = Stage /\ UNCHANGED closing
    BY <1>10 DEF Matching, IndexExport, MatchNative, LintExport, CheckRef, Visit, Leave, vars, Stage
  <2> QED BY <1>4, <2>1
<1> QED BY <1>5, <1>6, <1>7, <1>8, <1>9, <1>10 DEF Next, Resolution

\* The two instances of JdkClosure are one specification.
LEMMA SameClosure ==
  /\ Closure!Init <=> CP!Init
  /\ [Closure!Next]_(Closure!vars) <=> [CP!Next]_(CP!vars)
  /\ Closure!ClosureExact <=> CP!ClosureExact
<1>1. Closure!Init <=> CP!Init
  BY DEF Closure!Init, CP!Init, Closure!IsGraph, CP!IsGraph
<1>2. Closure!Seeds = CP!Seeds /\ \A S : Closure!Closed(S) <=> CP!Closed(S)
  BY DEF Closure!Seeds, CP!Seeds, Closure!SeedsOf, CP!SeedsOf, Closure!Closed, CP!Closed
<1>3. Closure!ClosureExact <=> CP!ClosureExact
  BY <1>2 DEF Closure!ClosureExact, CP!ClosureExact
<1>4. Closure!Next <=> CP!Next
  BY <1>2 DEF Closure!Next, CP!Next, Closure!Resolve, CP!Resolve, Closure!Skip, CP!Skip,
       Closure!Load, CP!Load,
         Closure!Drop, CP!Drop, Closure!Finish, CP!Finish, Closure!inputs, CP!inputs
<1>5. (UNCHANGED Closure!vars) <=> UNCHANGED CP!vars
  BY DEF Closure!vars, CP!vars
<1> QED BY <1>1, <1>3, <1>4, <1>5

\* The checker's search for classes of the JDK is that of JdkClosure: its seeds
\* are the classes the bindings name, and every iteration over the queue of
\* `load_jdk_models` is one of its steps.
THEOREM ImplementsClosure == Spec => ClosureSpec
<1>1. Init => Closure!Init
  BY ClosureInit, SameClosure
<1>2. CheckInv /\ [Next]_vars => [Closure!Next]_(Closure!vars)
  BY ClosureStep, SameClosure
<1> QED BY <1>1, <1>2, CheckInvariance, PTL DEF Spec, ClosureSpec, Closure!Spec

\* The models the checker compares references with are the user's classes and
\* the least set of the JDK's that the bindings need.
THEOREM ModelsAreExact == Spec => []ClosureExact
<1>1. CP!Spec => []CP!ClosureExact
  BY CP!LeastClosure
<1>2. Spec => CP!Spec
  BY ClosureInit, ClosureStep, CheckInvariance, PTL DEF Spec, CP!Spec
<1>3. CP!ClosureExact => ClosureExact
  BY SameClosure DEF ClosureExact
<1> QED BY <1>1, <1>2, <1>3, PTL

-----------------------------------------------------------------------------
(* What is said of a reference.                                            *)

\* The codes that reference k is to be reported with.
CodesOf(k) == RefCodes(refs[k], ModelIndex)

\* What the last loop says, of the references it has seen.
RefsInv ==
  /\ \A d \in report : d.code \in RefErrors =>
       phase \in {"refs", "done"} /\ d.rust \in DOMAIN refs /\ d.code \in CodesOf(d.rust)
  /\ \A k \in DOMAIN refs :
       (phase = "refs" /\ k < i) \/ phase = "done" => \A c \in CodesOf(k) : Reported(c, k)

\* The user's classes come first among the models.
UserFirst == \A k \in DOMAIN project.java : models[k].name = project.java[k].name

\* A step of another loop says nothing of a reference.
LEMMA OtherDiags ==
  ASSUME RefsInv, NEW D, \A d \in D : d.code \notin RefErrors, report' = report \cup D,
         UNCHANGED <<phase, refs, models>>, phase \notin {"refs", "done"}
  PROVE  RefsInv'
<1>1. \A d \in report' : d.code \notin RefErrors
  BY DEF RefsInv
<1> QED BY <1>1 DEF RefsInv

\* The diagnostics of a native method and its export are about the two.
LEMMA PairCodesType ==
  \A n, k : \A d \in PairDiags(n, k) : d.code \in {"E002", "E010", "E02", "E03"}
<1> SUFFICES ASSUME NEW n, NEW k, NEW d \in PairDiags(n, k)
             PROVE  d.code \in {"E002", "E010", "E02", "E03"}
  OBVIOUS
<1>1. \A c \in ReceiverCodes(n, exports[k]) : c = "E002"
  BY DEF ReceiverCodes
<1>2. \A c, a, j, r, s : Diag(c, a, j, r, s).code = c
  BY DEF Diag
<1>3. \A x \in SlotDiags(n, k) : x.code \in {"E02", "E03"}
  BY <1>2 DEF SlotDiags
<1> HIDE DEF Diag
<1> QED BY <1>1, <1>2, <1>3 DEF PairDiags

\* The loops over the exports and the native methods.
LEMMA RefsUntouched ==
  ASSUME CheckInv, RefsInv, IndexExport \/ MatchNative \/ LintExport
  PROVE  RefsInv'
<1>1. \A c, a, j, r, s : Diag(c, a, j, r, s).code = c
  BY DEF Diag
<1>2. {"E000", "E001", "E002", "E004", "E005", "E010", "E02", "E03", "W001", "W002", "W003"}
        \cap RefErrors = {}
  BY DEF RefErrors
<1>3. UNCHANGED <<phase, refs, models>> /\ phase \notin {"refs", "done"}
  BY DEF IndexExport, MatchNative, LintExport, Visit, sides, closing
<1>4. CASE IndexExport
  <2> DEFINE e == exports[i]
  <2>1. i \in DOMAIN exports /\ e.problem \in Problems
    BY <1>4, VisitKeeps, SideFacts DEF IndexExport, CheckInv
  <2>2. Broken(e) => ProblemCode[e.problem] \in {"W002", "E004"}
    BY <2>1 DEF Broken, Problems, ProblemCode
  <2> DEFINE D == IF Broken(e) THEN {Diag(ProblemCode[e.problem], 0, 0, i, 0)}
                  ELSE IF e.symbol \in DOMAIN index THEN {Diag("E000", 0, 0, i, 0)} ELSE {}
  <2>3. \A d \in D : d.code \in {"W002", "E004", "E000"}
    BY <1>1, <2>2
  <2>4. report' = report \cup D
    BY <1>4 DEF IndexExport
  <2> HIDE DEF D
  <2>5. \A d \in D : d.code \notin RefErrors
    BY <1>2, <2>3
  <2> QED BY <1>3, <2>4, <2>5, OtherDiags
<1>5. CASE MatchNative
  <2> DEFINE n == natives[i]
             D == (IF n.symbol \in seen THEN {Diag("E005", 0, i, 0, 0)} ELSE {})
                    \cup (IF n.symbol \in DOMAIN index THEN PairDiags(n, index[n.symbol])
                          ELSE {Diag("E001", 0, i, 0, 0)})
  <2>1. \A d \in D : d.code \in {"E005", "E001", "E002", "E010", "E02", "E03"}
    BY <1>1, PairCodesType
  <2>2. report' = report \cup D
    BY <1>5 DEF MatchNative
  <2> HIDE DEF D
  <2>3. \A d \in D : d.code \notin RefErrors
    BY <1>2, <2>1
  <2> QED BY <1>3, <2>2, <2>3, OtherDiags
<1>6. CASE LintExport
  <2> DEFINE D == IF Broken(exports[i]) THEN {}
                  ELSE {Diag(c, 0, 0, i, 0) : c \in LintCodes(exports[i])}
  <2>1. LintCodes(exports[i]) \subseteq {"W001", "W003"}
    BY DEF LintCodes
  <2>2. \A d \in D : d.code \in {"W001", "W003"}
    BY <1>1, <2>1
  <2>3. report' = report \cup D
    BY <1>6 DEF LintExport
  <2> HIDE DEF D
  <2>4. \A d \in D : d.code \notin RefErrors
    BY <1>2, <2>2
  <2> QED BY <1>3, <2>3, <2>4, OtherDiags
<1> QED BY <1>4, <1>5, <1>6

\* The models stay as they are in the last loop, and so do the codes.
LEMMA SameCodes ==
  ASSUME UNCHANGED <<refs, models>>
  PROVE  \A k : CodesOf(k)' = CodesOf(k)
BY DEF CodesOf, ModelIndex, ModelNames

\* A reference gets the codes it is to be reported with.
LEMMA RefsGrow == CheckInv /\ RefsInv /\ CheckRef => RefsInv'
<1> SUFFICES ASSUME CheckInv, RefsInv, CheckRef PROVE RefsInv'
  OBVIOUS
<1> DEFINE D == {Diag(c, 0, 0, i, 0) : c \in CodesOf(i)}
<1>1. /\ phase = "refs" /\ phase' = phase /\ i <= Len(refs) /\ i' = i + 1
      /\ UNCHANGED <<refs, models>> /\ report' = report \cup D
  BY DEF CheckRef, Visit, sides, closing, CodesOf
<1>2. i \in DOMAIN refs /\ DOMAIN refs = 1..Len(refs) /\ Len(refs) \in Nat
  BY <1>1, SideFacts DEF CheckInv, LoopInv
<1> DEFINE About(c) == Diag(c, 0, 0, i, 0)
<1>8. \A c : About(c).code = c /\ About(c).rust = i
  BY DEF Diag
<1>9. \A d : d \in D <=> \E c \in CodesOf(i) : d = About(c)
  OBVIOUS
<1> HIDE DEF About, D
<1>3. \A d \in D : d.rust = i /\ d.code \in CodesOf(i)
  BY <1>8, <1>9
<1>4. \A c \in CodesOf(i) : \E d \in D : d.code = c /\ d.rust = i
  BY <1>8, <1>9
<1>5. \A k : CodesOf(k)' = CodesOf(k)
  BY <1>1, SameCodes
<1>6. \A d \in report' : d.code \in RefErrors =>
        phase' \in {"refs", "done"} /\ d.rust \in DOMAIN refs' /\ d.code \in CodesOf(d.rust)
  BY <1>1, <1>2, <1>3 DEF RefsInv
<1>7. ASSUME NEW k \in DOMAIN refs', (phase' = "refs" /\ k < i') \/ phase' = "done",
             NEW c \in CodesOf(k)
      PROVE  Reported(c, k)'
  <2>1. k = i \/ (k < i /\ k \in DOMAIN refs)
    BY <1>1, <1>2, <1>7
  <2>2. CASE k = i
    BY <1>1, <1>4, <1>7, <2>2 DEF Reported
  <2>3. CASE k < i /\ k \in DOMAIN refs
    BY <1>1, <1>7, <2>3 DEF Reported, RefsInv
  <2> QED BY <2>1, <2>2, <2>3
<1> QED BY <1>5, <1>6, <1>7 DEF RefsInv

\* The checker reports of each reference what its class has to say.
THEOREM ReferencesReported == Spec => []RefsInv
<1>1. Init => RefsInv
  BY DEF Init, RefsInv
<1>2. CheckInv /\ RefsInv /\ [Next]_vars => RefsInv'
  <2> SUFFICES ASSUME CheckInv, RefsInv, [Next]_vars PROVE RefsInv'
    OBVIOUS
  <2>1. CASE Resolution
    <3>1. phase \in {"seeds", "closing"} /\ phase' \notin {"refs", "done"} /\ report' = report
      BY <2>1 DEF Resolution, ResolveJdk, SkipJdk, EndJdk, LoadJdkClass, DropJdkClass
    <3> QED BY <3>1 DEF RefsInv
  <2>2. CASE IndexExport \/ MatchNative \/ LintExport
    BY <2>2, RefsUntouched
  <2>3. CASE CheckRef
    BY <2>3, RefsGrow
  <2>4. CASE Leave("index", exports, "match") \/ Leave("match", natives, "lint")
    <3>1. phase \notin {"refs", "done"} /\ phase' \notin {"refs", "done"} /\ report' = report
      BY <2>4 DEF Leave
    <3> QED BY <3>1 DEF RefsInv
  <2>5. CASE Leave("lint", exports, "refs")
    <3>1. /\ phase \notin {"refs", "done"} /\ phase' = "refs" /\ report' = report /\ i' = 1
          /\ refs' = refs
      BY <2>5 DEF Leave, sides
    <3>2. DOMAIN refs = 1..Len(refs) /\ Len(refs) \in Nat
      BY SideFacts DEF CheckInv
    <3> QED BY <3>1, <3>2 DEF RefsInv
  <2>6. CASE Leave("refs", refs, "done")
    <3>1. /\ phase = "refs" /\ phase' = "done" /\ report' = report /\ i > Len(refs)
          /\ UNCHANGED <<refs, models>>
      BY <2>6 DEF Leave, sides, closing
    <3>2. \A k \in DOMAIN refs : k < i
      BY <3>1, SideFacts DEF CheckInv, LoopInv
    <3>3. \A k : CodesOf(k)' = CodesOf(k)
      BY <3>1, SameCodes
    <3>4. \A c, k : Reported(c, k)' <=> Reported(c, k)
      BY <3>1 DEF Reported
    <3> QED BY <3>1, <3>2, <3>3, <3>4 DEF RefsInv
  <2>7. CASE UNCHANGED vars
    <3>1. UNCHANGED <<refs, models, phase, report, i>>
      BY <2>7 DEF vars, sides, closing
    <3>2. \A k : CodesOf(k)' = CodesOf(k)
      BY <3>1, SameCodes
    <3> QED BY <3>1, <3>2 DEF RefsInv, Reported
  <2> QED BY <2>1, <2>2, <2>3, <2>4, <2>5, <2>6, <2>7 DEF Next, Matching
<1> QED BY <1>1, <1>2, CheckInvariance, PTL DEF Spec

\* The user's classes stay where they are when those of the JDK join them.
LEMMA UserClassesFirst == Spec => []UserFirst
<1>1. Init => UserFirst
  <2> SUFFICES ASSUME Init PROVE UserFirst
    OBVIOUS
  <2>1. models = Models(project.java)
    BY DEF Init
  <2> QED BY <2>1 DEF UserFirst, Models, BuildModel
<1>2. CheckInv /\ UserFirst /\ [Next]_vars => UserFirst'
  <2> SUFFICES ASSUME CheckInv, UserFirst, [Next]_vars PROVE UserFirst'
    OBVIOUS
  <2>1. ASSUME NEW c \in waiting, LoadJdkClass(c) PROVE UserFirst'
    <3> DEFINE m == BuildModel(jdk[c])
    <3>1. project' = project /\ models' = Append(models, m)
      BY <2>1 DEF LoadJdkClass
    <3> HIDE DEF m
    <3> DEFINE S == ToSet(models) \cup {m}
    <3>2. models \in Seq(S) /\ m \in S
      BY SeqMonotonic DEF CheckInv, QueueInv, IsSeq
    <3> HIDE DEF S
    <3>3. \A k \in 1..Len(models) : models'[k] = models[k]
      BY <3>1, <3>2, AppendProperties
    <3>4. DOMAIN project.java \subseteq 1..Len(models)
      BY ProjectFacts, SeqFacts DEF CheckInv, QueueInv
    <3> QED BY <3>1, <3>3, <3>4 DEF UserFirst
  <2>2. ASSUME UNCHANGED <<project, models>> PROVE UserFirst'
    BY <2>2 DEF UserFirst
  <2> QED BY <2>1, <2>2 DEF Next, Resolution, Matching, ResolveJdk, SkipJdk, DropJdkClass, EndJdk,
             IndexExport, MatchNative, LintExport, CheckRef, Visit, Leave, vars, closing
<1> QED BY <1>1, <1>2, CheckInvariance, PTL DEF Spec

\* A home that cannot be read has no class.
LEMMA NoSources ==
  ASSUME SidesRead, HomeSources = <<>>
  PROVE  DOMAIN JdkTable(project.home) = {}
<1>1. CASE project.home = NoHome
  BY <1>1 DEF JdkTable
<1>2. CASE project.home # NoHome
  <2>1. ToSet(Open(project.home)) = Tables(project.home) /\ Open(project.home) = <<>>
    BY <1>2, ProjectFacts, OpenType DEF HomeSources
  <2>2. Tables(project.home) = {}
    BY <2>1, ShortSeqs
  <2>3. DOMAIN JdkTable(project.home) = UNION {DOMAIN t : t \in Tables(project.home)}
    BY <1>2 DEF JdkTable, Tables
  <2> QED BY <2>2, <2>3
<1> QED BY <1>1, <1>2

\* W004 is about the classes that are neither the user's nor, where there is a
\* JDK that can be read, one of its.
THEOREM UnverifiedExact == Spec => []UnverifiedIsAbsent
<1>1. CheckInv /\ RefsInv /\ UserFirst /\ CP!ClosureExact => UnverifiedIsAbsent
  <2> SUFFICES ASSUME CheckInv, RefsInv, UserFirst, CP!ClosureExact, Done, NEW k \in DOMAIN refs
               PROVE  Reported("W004", k)
                        <=> refs[k].class \notin UserNames \cup DOMAIN JdkTable(project.home)
    BY DEF UnverifiedIsAbsent
  <2> DEFINE c == refs[k].class
             J == DOMAIN JdkTable(project.home)
  <2>1. phase = "done" /\ Stage = "done" /\ SidesRead
    BY DEF Done, Stage, CheckInv
  <2>2. ModelNames = UserNames \cup Fetched
    <3>1. /\ DOMAIN models = 1..Len(models) /\ Len(models) \in Nat
          /\ DOMAIN project.java = 1..Len(project.java) /\ Len(project.java) \in Nat
          /\ Len(project.java) <= Len(models)
      BY <2>1, ProjectFacts, SeqFacts DEF CheckInv, QueueInv
    <3>2. \A x : x \in UserNames <=> \E l \in DOMAIN project.java : x = models[l].name
      BY DEF UserNames, ToSet, UserFirst
    <3>3. \A x : x \in Fetched
             <=> \E l \in (Len(project.java) + 1)..Len(models) : x = models[l].name
      BY DEF Fetched
    <3>4. \A l : l \in DOMAIN models
             <=> l \in DOMAIN project.java \/ l \in (Len(project.java) + 1)..Len(models)
      BY <3>1
    <3>5. \A x : x \in ModelNames <=> \E l \in DOMAIN models : x = models[l].name
      BY DEF ModelNames
    <3>6. \A x : x \in ModelNames <=> x \in UserNames \/ x \in Fetched
      BY <3>2, <3>3, <3>4, <3>5
    <3> QED BY <3>6
  <2>3. /\ DOMAIN UserGraph = UserNames /\ DOMAIN JdkGraph = J /\ CP!IsGraph(JdkGraph)
        /\ c \in BoundClasses(project.files)
    BY <2>1, GraphFacts, SideFacts DEF UserTable, UserNames
  <2>4. c \in ModelNames <=> c \in UserNames \cup J
    <3>1. /\ HomeSources = <<>> => Fetched = {}
          /\ HomeSources # <<>> => CP!Closed(Fetched)
          /\ \A S \in SUBSET ClassName : CP!Closed(S) => Fetched \subseteq S
      BY <2>1 DEF CP!ClosureExact, Stage, Fetched
    <3>2. HomeSources = <<>> => J = {}
      BY <2>1, NoSources
    <3>3. HomeSources # <<>> /\ c \notin UserNames => c \in CP!Seeds
      BY <2>3 DEF CP!Seeds, CP!SeedsOf, UserGraph, BoundClasses
    <3>4. HomeSources # <<>> /\ c \notin UserNames /\ c \in J => c \in Fetched
      BY <2>3, <3>1, <3>3 DEF CP!Closed, JdkGraph
    <3>5. CP!Closed(J) /\ J \in SUBSET ClassName
      BY <2>3 DEF CP!Closed, CP!IsGraph, JdkGraph
    <3> QED BY <2>2, <3>1, <3>2, <3>4, <3>5
  <2>5. "W004" \in CodesOf(k) <=> c \notin ModelNames
    <3>1. \A cs : "W004" \notin MethodCodes(refs[k], cs)
      BY DEF MethodCodes
    <3>2. \A x : "W004" \notin ConstructorCodes(refs[k], x)
      BY DEF ConstructorCodes
    <3>3. \A fs : "W004" \notin HandleCodes(refs[k], fs)
      BY DEF HandleCodes
    <3>4. \A cs : "W004" \notin FieldCodes(refs[k], cs)
      BY <3>3 DEF FieldCodes
    <3>5. DOMAIN ModelIndex = ModelNames
      BY DEF ModelIndex
    <3>6. refs[k].kind \in RefKinds
      BY <2>1, SideFacts
    <3>7. CASE c \in ModelNames
      <4> DEFINE idx == ModelIndex
      <4>1. c \in DOMAIN idx
        BY <3>5, <3>7
      <4> HIDE DEF idx
      <4>2. "W004" \notin RefCodes(refs[k], idx)
        BY <3>1, <3>2, <3>4, <3>6, <4>1 DEF RefCodes, RefKinds
      <4> QED BY <3>7, <4>2 DEF CodesOf, idx
    <3>8. CASE c \notin ModelNames
      BY <3>5, <3>8 DEF CodesOf, RefCodes
    <3> QED BY <3>7, <3>8
  <2>6. Reported("W004", k) <=> "W004" \in CodesOf(k)
    <3>1. "W004" \in RefErrors
      BY DEF RefErrors
    <3> QED BY <2>1, <3>1 DEF RefsInv, Reported
  <2> QED BY <2>4, <2>5, <2>6
<1>2. Spec => []CP!ClosureExact
  <2>1. CP!Spec => []CP!ClosureExact
    BY CP!LeastClosure
  <2>2. Spec => CP!Spec
    BY ClosureInit, ClosureStep, CheckInvariance, PTL DEF Spec, CP!Spec
  <2> QED BY <2>1, <2>2, PTL
<1> QED BY <1>1, <1>2, CheckInvariance, ReferencesReported, UserClassesFirst, PTL

-----------------------------------------------------------------------------
(* The mangling.                                                           *)

\* Two characters by name: the SMT solver does not read them as literals.
Underscore == "_"
Semicolon  == ";"

\* The characters that the mangling replaces, and the digit that says which.
Marks == {"/", Underscore, Semicolon, "[", "$"}
Mark  == [c \in Marks \ {"/"} |->
            IF c = Underscore THEN "1" ELSE IF c = Semicolon THEN "2" ELSE IF c = "[" THEN "3" ELSE "0"]

MarkDigits == {"0", "1", "2", "3"}

\* What is mangled when X is what there is to mangle.
Mangled(X) == X \cup {Underscore, "0", "1", "2", "3", "4"}

\* The marks are different characters.
LEMMA MarksDiffer ==
  /\ Underscore # Semicolon /\ Underscore # "/" /\ Underscore # "[" /\ Underscore # "$"
  /\ Semicolon # "/" /\ Semicolon # "[" /\ Semicolon # "$"
  /\ Underscore # "." /\ Semicolon # "."
  /\ Underscore \notin MarkDigits
BY Zenon DEF Underscore, Semicolon, MarkDigits

\* Sequences of one, two and four.
LEMMA Tuples ==
  ASSUME NEW Y
  PROVE  /\ \A p \in Y : <<p>> \in Seq(Y) /\ Len(<<p>>) = 1 /\ <<p>>[1] = p
         /\ \A p, q \in Y : /\ <<p, q>> \in Seq(Y) /\ Len(<<p, q>>) = 2
                            /\ <<p, q>>[1] = p /\ <<p, q>>[2] = q
         /\ \A p, q, r, s \in Y : <<p, q, r, s>> \in Seq(Y) /\ Len(<<p, q, r, s>>) = 4
OBVIOUS

\* What the marks are replaced by.
LEMMA EscapeOf ==
  /\ Escape("/") = <<Underscore>> /\ Escape(Underscore) = <<Underscore, "1">>
  /\ Escape(Semicolon) = <<Underscore, "2">> /\ Escape("[") = <<Underscore, "3">>
  /\ Escape("$") = <<Underscore, "0">> \o <<"0", "0", "2", "4">>
  /\ \A c : c \notin Marks /\ c # "." => Escape(c) = <<c>>
<1>1. DOMAIN CodeUnit = {"$"} /\ CodeUnit["$"] = <<"0", "0", "2", "4">>
  BY DEF CodeUnit
<1> QED BY <1>1, Zenon DEF Escape, Underscore, Semicolon, Marks

\* The escapes: a mark is an underscore, and its digit unless it is a slash.
LEMMA EscapeIs ==
  ASSUME NEW X, NEW c \in X, c # "."
  PROVE  /\ Escape(c) \in Seq(Mangled(X)) /\ Len(Escape(c)) \in Nat \ {0}
         /\ c \notin Marks => Escape(c)[1] = c
         /\ c \in Marks => Escape(c)[1] = Underscore
         /\ c \in Marks \ {"/"} => Len(Escape(c)) >= 2 /\ Escape(c)[2] = Mark[c]
         /\ c = "/" => Len(Escape(c)) = 1
<1> DEFINE Y == Mangled(X)
<1>1. /\ c \in Y /\ Underscore \in Y
      /\ "0" \in Y /\ "1" \in Y /\ "2" \in Y /\ "3" \in Y /\ "4" \in Y
  BY DEF Mangled
<1> HIDE DEF Y
<1>2. /\ \A p \in Y : <<p>> \in Seq(Y) /\ Len(<<p>>) = 1 /\ <<p>>[1] = p
      /\ \A p, q \in Y : /\ <<p, q>> \in Seq(Y) /\ Len(<<p, q>>) = 2
                         /\ <<p, q>>[1] = p /\ <<p, q>>[2] = q
      /\ \A p, q, r, s \in Y : <<p, q, r, s>> \in Seq(Y) /\ Len(<<p, q, r, s>>) = 4
  BY Tuples
<1>3. CASE c = "/"
  <2>1. Escape(c) \in Seq(Y) /\ Len(Escape(c)) = 1 /\ Escape(c)[1] = Underscore
    <3>1. Escape(c) = <<Underscore>>
      BY <1>3, EscapeOf, Zenon
    <3> QED BY <1>1, <1>2, <3>1
  <2> QED BY <1>3, <2>1, MarksDiffer DEF Marks, Y
<1>4. CASE c = Underscore
  <2>1. /\ Escape(c) \in Seq(Y) /\ Len(Escape(c)) = 2
        /\ Escape(c)[1] = Underscore /\ Escape(c)[2] = "1"
    <3>1. Escape(c) = <<Underscore, "1">>
      BY <1>4, EscapeOf, Zenon
    <3> QED BY <1>1, <1>2, <3>1
  <2>2. Mark[c] = "1"
    BY <1>4, MarksDiffer DEF Mark, Marks
  <2> QED BY <1>4, <2>1, <2>2, MarksDiffer DEF Marks, Y
<1>5. CASE c = Semicolon
  <2>1. /\ Escape(c) \in Seq(Y) /\ Len(Escape(c)) = 2
        /\ Escape(c)[1] = Underscore /\ Escape(c)[2] = "2"
    <3>1. Escape(c) = <<Underscore, "2">>
      BY <1>5, EscapeOf, Zenon
    <3> QED BY <1>1, <1>2, <3>1
  <2>2. Mark[c] = "2"
    BY <1>5, MarksDiffer DEF Mark, Marks
  <2> QED BY <1>5, <2>1, <2>2, MarksDiffer DEF Marks, Y
<1>6. CASE c = "["
  <2>1. /\ Escape(c) \in Seq(Y) /\ Len(Escape(c)) = 2
        /\ Escape(c)[1] = Underscore /\ Escape(c)[2] = "3"
    <3>1. Escape(c) = <<Underscore, "3">>
      BY <1>6, EscapeOf, Zenon
    <3> QED BY <1>1, <1>2, <3>1
  <2>2. Mark[c] = "3"
    BY <1>6, MarksDiffer DEF Mark, Marks
  <2> QED BY <1>6, <2>1, <2>2, MarksDiffer DEF Marks, Y
<1>7. CASE c = "$"
  <2> DEFINE u == <<Underscore, "0">>
             v == <<"0", "0", "2", "4">>
  <2>1. /\ u \in Seq(Y) /\ v \in Seq(Y) /\ Len(u) = 2 /\ Len(v) = 4
        /\ u[1] = Underscore /\ u[2] = "0"
    BY <1>1, <1>2, Zenon
  <2>2. Escape(c) = u \o v
    BY <1>7, EscapeOf, Zenon
  <2> HIDE DEF u, v
  <2>3. /\ u \o v \in Seq(Y) /\ Len(u \o v) = Len(u) + Len(v)
        /\ \A k \in 1..(Len(u) + Len(v)) : (u \o v)[k] = IF k <= Len(u) THEN u[k] ELSE v[k - Len(u)]
    BY <2>1, ConcatProperties
  <2>4. (u \o v)[1] = u[1] /\ (u \o v)[2] = u[2] /\ Len(u \o v) = 6
    BY <2>1, <2>3
  <2>5. Mark[c] = "0"
    BY <1>7, MarksDiffer DEF Mark, Marks
  <2>6. /\ Escape(c) \in Seq(Y) /\ Len(Escape(c)) = 6
        /\ Escape(c)[1] = Underscore /\ Escape(c)[2] = Mark[c]
    BY <2>1, <2>2, <2>3, <2>4, <2>5
  <2> QED BY <1>7, <2>6, MarksDiffer DEF Marks, Y
<1>8. CASE c \notin Marks
  <2>1. Escape(c) \in Seq(Y) /\ Len(Escape(c)) = 1 /\ Escape(c)[1] = c
    <3>1. Escape(c) = <<c>>
      BY <1>8, EscapeOf, Zenon
    <3> QED BY <1>1, <1>2, <3>1
  <2> QED BY <1>8, <2>1 DEF Marks, Y
<1> QED BY <1>3, <1>4, <1>5, <1>6, <1>7, <1>8 DEF Marks

\* A string whose mangling can be read back: no digit would be read as that
\* of a mark.
Readable(s) == \A k \in 1..(Len(s) - 1) : s[k] = "/" => s[k + 1] \notin MarkDigits

\* What is mangled to p may follow the character c.
MayFollow(c, p) == c = "/" /\ p # <<>> => p[1] \notin MarkDigits

\* The first character can be read back if what follows a slash is no digit.
LEMMA HeadDecodes ==
  ASSUME NEW X
  PROVE  \A c, d \in X : \A a, b \in Seq(Mangled(X)) :
           /\ c # "." /\ d # "." /\ Escape(c) \o a = Escape(d) \o b
           /\ MayFollow(c, a) /\ MayFollow(d, b)
           => c = d /\ a = b
<1> SUFFICES ASSUME NEW c \in X, NEW d \in X,
                    NEW a \in Seq(Mangled(X)), NEW b \in Seq(Mangled(X)),
                    c # ".", d # ".", Escape(c) \o a = Escape(d) \o b,
                    MayFollow(c, a), MayFollow(d, b)
             PROVE  c = d /\ a = b
  OBVIOUS
<1> USE DEF MayFollow
<1> DEFINE e == Escape(c)
           f == Escape(d)
           w == e \o a
<1>1. /\ e \in Seq(Mangled(X)) /\ Len(e) \in Nat \ {0}
      /\ c \notin Marks => e[1] = c
      /\ c \in Marks => e[1] = Underscore
      /\ c \in Marks \ {"/"} => Len(e) >= 2 /\ e[2] = Mark[c]
      /\ c = "/" => Len(e) = 1
  BY EscapeIs
<1>2. /\ f \in Seq(Mangled(X)) /\ Len(f) \in Nat \ {0}
      /\ d \notin Marks => f[1] = d
      /\ d \in Marks => f[1] = Underscore
      /\ d \in Marks \ {"/"} => Len(f) >= 2 /\ f[2] = Mark[d]
      /\ d = "/" => Len(f) = 1
  BY EscapeIs
<1>3. Len(a) \in Nat /\ Len(b) \in Nat /\ (Len(a) > 0 => a # <<>>) /\ (Len(b) > 0 => b # <<>>)
  BY EmptySeq, LenProperties
<1> HIDE DEF e, f
<1>4. /\ Len(w) = Len(e) + Len(a)
      /\ \A k \in 1..(Len(e) + Len(a)) : w[k] = IF k <= Len(e) THEN e[k] ELSE a[k - Len(e)]
  <2>1. e \in Seq(Mangled(X)) /\ w = e \o a
    BY <1>1
  <2> HIDE DEF w
  <2> QED BY <2>1, ConcatProperties
<1>5. /\ Len(w) = Len(f) + Len(b)
      /\ \A k \in 1..(Len(f) + Len(b)) : w[k] = IF k <= Len(f) THEN f[k] ELSE b[k - Len(f)]
  <2>1. w = f \o b
    BY DEF e, f
  <2> HIDE DEF w
  <2>2. f \in Seq(Mangled(X))
    BY <1>2
  <2> QED BY <2>1, <2>2, ConcatProperties
<1> HIDE DEF w
<1> DEFINE m == Len(e)
           n == Len(f)
           la == Len(a)
           lb == Len(b)
<1>14. m \in Nat \ {0} /\ n \in Nat \ {0} /\ la \in Nat /\ lb \in Nat
  BY <1>1, <1>2, <1>3
<1>6. w[1] = e[1] /\ w[1] = f[1]
  <2> HIDE DEF m, n, la, lb
  <2>1. 1 \in 1..(m + la) /\ 1 <= m /\ 1 \in 1..(n + lb) /\ 1 <= n
    BY <1>14
  <2> QED BY <1>4, <1>5, <2>1 DEF m, n, la, lb
<1>7. /\ Len(e) >= 2 => Len(w) >= 2 /\ w[2] = e[2]
      /\ Len(f) >= 2 => Len(w) >= 2 /\ w[2] = f[2]
      /\ Len(e) = 1 /\ Len(w) >= 2 => a # <<>> /\ w[2] = a[1]
      /\ Len(f) = 1 /\ Len(w) >= 2 => b # <<>> /\ w[2] = b[1]
  <2>1. Len(w) = m + la /\ Len(w) = n + lb
    BY <1>4, <1>5
  <2>2. /\ \A k \in 1..(m + la) : w[k] = IF k <= m THEN e[k] ELSE a[k - m]
        /\ \A k \in 1..(n + lb) : w[k] = IF k <= n THEN f[k] ELSE b[k - n]
    BY <1>4, <1>5
  <2>3. (la > 0 => a # <<>>) /\ (lb > 0 => b # <<>>)
    BY <1>3
  <2> HIDE DEF m, n, la, lb
  <2>4. m >= 2 => Len(w) >= 2 /\ w[2] = e[2]
    BY <1>14, <2>1, <2>2
  <2>5. n >= 2 => Len(w) >= 2 /\ w[2] = f[2]
    BY <1>14, <2>1, <2>2
  <2>6. m = 1 /\ Len(w) >= 2 => a # <<>> /\ w[2] = a[1]
    BY <1>14, <2>1, <2>2, <2>3
  <2>7. n = 1 /\ Len(w) >= 2 => b # <<>> /\ w[2] = b[1]
    BY <1>14, <2>1, <2>2, <2>3
  <2> QED BY <2>4, <2>5, <2>6, <2>7 DEF m, n
<1>8. \A x \in Marks \ {"/"} : Mark[x] \in MarkDigits
  BY MarksDiffer DEF Mark, Marks, MarkDigits
<1>9. \A x, y \in Marks \ {"/"} : Mark[x] = Mark[y] => x = y
  BY MarksDiffer DEF Mark, Marks
<1>10. Underscore \in Marks /\ "/" \in Marks
  BY DEF Marks
<1>11. c \in Marks <=> d \in Marks
  BY <1>1, <1>2, <1>6, <1>10
<1>12. c = d
  <2>1. CASE c \notin Marks
    BY <1>1, <1>2, <1>6, <1>11, <2>1
  <2>2. CASE c = "/"
    <3>1. d # "/" => w[2] = Mark[d] /\ Len(w) >= 2
      BY <1>2, <1>7, <1>11, <2>2, <1>10
    <3> QED BY <1>1, <1>7, <1>8, <1>10, <1>11, <2>2, <3>1
  <2>3. CASE d = "/"
    <3>1. c # "/" => w[2] = Mark[c] /\ Len(w) >= 2
      BY <1>1, <1>7, <1>11, <2>3, <1>10
    <3> QED BY <1>2, <1>7, <1>8, <1>10, <1>11, <2>3, <3>1
  <2>4. CASE c \in Marks \ {"/"} /\ d \in Marks \ {"/"}
    <3>1. w[2] = Mark[c] /\ w[2] = Mark[d]
      BY <1>1, <1>2, <1>7, <2>4
    <3> QED BY <1>9, <2>4, <3>1
  <2> QED BY <1>11, <2>1, <2>2, <2>3, <2>4
<1>13. a = b
  <2>1. e \o a = e \o b
    BY <1>12 DEF e, f
  <2> QED BY <1>1, <2>1, ConcatSimplifications
<1> QED BY <1>12, <1>13

\* A string that is not empty begins with a character.
LEMMA FirstAndRest ==
  ASSUME NEW X, NEW s \in Seq(X), s # <<>>
  PROVE  /\ Len(s) \in Nat \ {0} /\ s[1] \in X /\ Tail(s) \in Seq(X)
         /\ Len(Tail(s)) = Len(s) - 1 /\ \A k \in 1..(Len(s) - 1) : Tail(s)[k] = s[k + 1]
         /\ s = <<s[1]>> \o Tail(s)
<1>1. /\ Len(s) \in Nat \ {0} /\ s[1] \in X /\ Tail(s) \in Seq(X)
      /\ Len(Tail(s)) = Len(s) - 1 /\ \A k \in 1..(Len(s) - 1) : Tail(s)[k] = s[k + 1]
  BY EmptySeq, ElementOfSeq, HeadTailProperties
<1>2. /\ <<s[1]>> \in Seq(X) /\ Len(<<s[1]>>) = 1 /\ <<s[1]>>[1] = s[1]
  BY <1>1, Tuples
<1> DEFINE h == <<s[1]>>
<1>3. /\ h \o Tail(s) \in Seq(X) /\ Len(h \o Tail(s)) = Len(s)
      /\ \A k \in 1..Len(s) : (h \o Tail(s))[k] = s[k]
  <2>1. h \in Seq(X) /\ Len(h) = 1 /\ h[1] = s[1]
    BY <1>2
  <2> HIDE DEF h
  <2>2. /\ h \o Tail(s) \in Seq(X) /\ Len(h \o Tail(s)) = 1 + (Len(s) - 1)
        /\ \A k \in 1..(1 + (Len(s) - 1)) :
             (h \o Tail(s))[k] = IF k <= 1 THEN h[k] ELSE Tail(s)[k - 1]
    <3>1. /\ h \o Tail(s) \in Seq(X) /\ Len(h \o Tail(s)) = Len(h) + Len(Tail(s))
          /\ \A k \in 1..(Len(h) + Len(Tail(s))) :
               (h \o Tail(s))[k] = IF k <= Len(h) THEN h[k] ELSE Tail(s)[k - Len(h)]
      BY <1>1, <2>1, ConcatProperties
    <3> QED BY <1>1, <2>1, <3>1
  <2>3. 1 + (Len(s) - 1) = Len(s)
    BY <1>1
  <2>4. \A k \in 1..Len(s) : k # 1 => k - 1 \in 1..(Len(s) - 1) /\ (k - 1) + 1 = k /\ ~(k <= 1)
    BY <1>1
  <2>5. \A k \in 1..Len(s) : k # 1 => (h \o Tail(s))[k] = s[k]
    BY <1>1, <2>2, <2>3, <2>4
  <2>6. 1 \in 1..Len(s) /\ (h \o Tail(s))[1] = s[1]
    BY <1>1, <2>1, <2>2
  <2> QED BY <2>2, <2>3, <2>5, <2>6
<1>4. h \o Tail(s) = s
  <2> HIDE DEF h
  <2> QED BY <1>3, SeqEqual
<1> QED BY <1>1, <1>4

\* The mangling of a string is that of its characters.
LEMMA MangleFacts ==
  ASSUME NEW X, "." \notin X
  PROVE  /\ \A s \in Seq(X) : MangleUnit(s) \in Seq(Mangled(X))
         /\ \A s, t \in Seq(X) : MangleUnit(s \o t) = MangleUnit(s) \o MangleUnit(t)
         /\ \A c \in X : MangleUnit(<<c>>) = Escape(c)
         /\ MangleUnit(<<>>) = <<>>
<1> DEFINE Y == Mangled(X)
           es(s) == [k \in DOMAIN s |-> Escape(s[k])]
<1>1. \A c \in X : Escape(c) \in Seq(Y)
  <2>1. \A c \in X : c # "."
    OBVIOUS
  <2> QED BY <2>1, EscapeIs
<1> HIDE DEF Y
<1>2. ASSUME NEW s \in Seq(X)
      PROVE  es(s) \in Seq(Seq(Y)) /\ Len(es(s)) = Len(s) /\ Len(s) \in Nat
               /\ \A k \in 1..Len(s) : es(s)[k] = Escape(s[k])
  <2>1. Len(s) \in Nat /\ DOMAIN s = 1..Len(s) /\ \A k \in 1..Len(s) : s[k] \in X
    BY LenProperties, ElementOfSeq
  <2>2. es(s) \in [1..Len(s) -> Seq(Y)]
    BY <1>1, <2>1
  <2>3. \A k \in 1..Len(s) : es(s)[k] = Escape(s[k])
    BY <2>1
  <2> HIDE DEF es
  <2> QED BY <2>1, <2>2, <2>3, FunIsSeq
<1>3. \A s : MangleUnit(s) = FlattenSeq(es(s))
  BY DEF MangleUnit
<1>4. ASSUME NEW s \in Seq(X), NEW t \in Seq(X) PROVE es(s \o t) = es(s) \o es(t)
  <2>1. /\ s \o t \in Seq(X) /\ Len(s \o t) = Len(s) + Len(t)
        /\ \A k \in 1..(Len(s) + Len(t)) : (s \o t)[k] = IF k <= Len(s) THEN s[k] ELSE t[k - Len(s)]
    BY ConcatProperties
  <2>2. /\ es(s) \in Seq(Seq(Y)) /\ Len(es(s)) = Len(s) /\ Len(s) \in Nat
        /\ \A k \in 1..Len(s) : es(s)[k] = Escape(s[k])
    BY <1>2
  <2>3. /\ es(t) \in Seq(Seq(Y)) /\ Len(es(t)) = Len(t) /\ Len(t) \in Nat
        /\ \A k \in 1..Len(t) : es(t)[k] = Escape(t[k])
    BY <1>2
  <2>4. /\ es(s \o t) \in Seq(Seq(Y)) /\ Len(es(s \o t)) = Len(s) + Len(t)
        /\ \A k \in 1..(Len(s) + Len(t)) : es(s \o t)[k] = Escape((s \o t)[k])
    BY <1>2, <2>1
  <2> HIDE DEF es
  <2>5. /\ es(s) \o es(t) \in Seq(Seq(Y)) /\ Len(es(s) \o es(t)) = Len(s) + Len(t)
        /\ \A k \in 1..(Len(s) + Len(t)) :
             (es(s) \o es(t))[k] = IF k <= Len(s) THEN es(s)[k] ELSE es(t)[k - Len(s)]
    <3> DEFINE a == es(s)
               b == es(t)
    <3>1. a \in Seq(Seq(Y)) /\ b \in Seq(Seq(Y)) /\ Len(a) = Len(s) /\ Len(b) = Len(t)
      BY <2>2, <2>3
    <3> HIDE DEF a, b
    <3>2. /\ a \o b \in Seq(Seq(Y)) /\ Len(a \o b) = Len(a) + Len(b)
          /\ \A k \in 1..(Len(a) + Len(b)) : (a \o b)[k] = IF k <= Len(a) THEN a[k] ELSE b[k - Len(a)]
      BY <3>1, ConcatProperties
    <3>3. /\ a \o b \in Seq(Seq(Y)) /\ Len(a \o b) = Len(s) + Len(t)
          /\ \A k \in 1..(Len(s) + Len(t)) : (a \o b)[k] = IF k <= Len(s) THEN a[k] ELSE b[k - Len(s)]
      BY <3>1, <3>2
    <3> QED BY <3>3 DEF a, b
  <2>6. \A k \in 1..(Len(s) + Len(t)) : es(s \o t)[k] = (es(s) \o es(t))[k]
    <3> SUFFICES ASSUME NEW k \in 1..(Len(s) + Len(t)) PROVE es(s \o t)[k] = (es(s) \o es(t))[k]
      OBVIOUS
    <3>1. CASE k <= Len(s)
      <4>1. k \in 1..Len(s)
        BY <2>2, <3>1
      <4> QED BY <2>1, <2>2, <2>4, <2>5, <3>1, <4>1
    <3>2. CASE ~(k <= Len(s))
      <4>1. k - Len(s) \in 1..Len(t)
        BY <2>2, <2>3, <3>2
      <4> QED BY <2>1, <2>3, <2>4, <2>5, <3>2, <4>1
    <3> QED BY <3>1, <3>2
  <2> QED BY <2>4, <2>5, <2>6, SeqEqual
<1> HIDE DEF es
<1>5. ASSUME NEW s \in Seq(X), NEW t \in Seq(X)
      PROVE  MangleUnit(s \o t) = MangleUnit(s) \o MangleUnit(t)
  <2>1. es(s) \in Seq(Seq(Y)) /\ es(t) \in Seq(Seq(Y))
    BY <1>2
  <2>2. FlattenSeq(es(s) \o es(t)) = FlattenSeq(es(s)) \o FlattenSeq(es(t))
    BY <2>1, FlattenJoin
  <2> QED BY <1>3, <1>4, <2>2
<1>6. ASSUME NEW s \in Seq(X) PROVE MangleUnit(s) \in Seq(Y)
  BY <1>2, <1>3, Flatten
<1>7. ASSUME NEW c \in X PROVE MangleUnit(<<c>>) = Escape(c)
  <2>1. es(<<c>>) = <<Escape(c)>>
    BY DEF es
  <2> QED BY <1>1, <1>3, <2>1, FlattenShort
<1>8. MangleUnit(<<>>) = <<>>
  <2>1. es(<<>>) = <<>>
    BY DEF es
  <2>2. <<>> \in Seq(Y)
    BY EmptySeq
  <2> QED BY <1>3, <2>1, <2>2, FlattenShort
<1> QED BY <1>5, <1>6, <1>7, <1>8 DEF Y

\* The first character of what is mangled begins with it, or is a mark.
LEMMA MangleFirst ==
  ASSUME NEW X, "." \notin X, NEW s \in Seq(X), s # <<>>
  PROVE  /\ s[1] \in X /\ Tail(s) \in Seq(X)
         /\ MangleUnit(s) = Escape(s[1]) \o MangleUnit(Tail(s))
         /\ MangleUnit(s) # <<>> /\ MangleUnit(s)[1] \in {s[1], Underscore}
<1>1. s[1] \in X /\ Tail(s) \in Seq(X) /\ s = <<s[1]>> \o Tail(s)
  BY FirstAndRest
<1>2. <<s[1]>> \in Seq(X)
  BY <1>1, Tuples
<1>3. /\ MangleUnit(<<s[1]>> \o Tail(s)) = MangleUnit(<<s[1]>>) \o MangleUnit(Tail(s))
      /\ MangleUnit(<<s[1]>>) = Escape(s[1]) /\ MangleUnit(Tail(s)) \in Seq(Mangled(X))
  BY <1>1, <1>2, MangleFacts
<1>4. MangleUnit(s) = Escape(s[1]) \o MangleUnit(Tail(s))
  BY <1>1, <1>3
<1> DEFINE e == Escape(s[1])
           r == MangleUnit(Tail(s))
<1>5. /\ e \in Seq(Mangled(X)) /\ Len(e) \in Nat \ {0} /\ e[1] \in {s[1], Underscore}
      /\ r \in Seq(Mangled(X)) /\ Len(r) \in Nat
  <2>1. s[1] # "."
    BY <1>1
  <2> QED BY <1>1, <1>3, <2>1, EscapeIs, LenProperties
<1> HIDE DEF e, r
<1>6. /\ Len(e \o r) = Len(e) + Len(r)
      /\ \A k \in 1..(Len(e) + Len(r)) : (e \o r)[k] = IF k <= Len(e) THEN e[k] ELSE r[k - Len(e)]
  BY <1>5, ConcatProperties
<1>7. (e \o r)[1] = e[1] /\ Len(e \o r) # 0
  BY <1>5, <1>6
<1>8. MangleUnit(s)[1] = e[1] /\ Len(MangleUnit(s)) # 0
  BY <1>4, <1>7 DEF e, r
<1> QED BY <1>1, <1>4, <1>5, <1>8, EmptySeq

\* A readable string can be read back.
LEMMA MangleDecodes ==
  ASSUME NEW X, "." \notin X
  PROVE  \A s, t \in Seq(X) :
           Readable(s) /\ Readable(t) /\ MangleUnit(s) = MangleUnit(t) => s = t
<1> DEFINE Back(n) == \A s, t \in Seq(X) :
                        Len(s) = n /\ Readable(s) /\ Readable(t) /\ MangleUnit(s) = MangleUnit(t) => s = t
           Good == {n \in Nat : Back(n)}
<1>1. \A s \in Seq(X) : s # <<>> => MangleUnit(s) # <<>>
  BY MangleFirst
<1>2. Back(0)
  <2> SUFFICES ASSUME NEW s \in Seq(X), NEW t \in Seq(X), Len(s) = 0, MangleUnit(s) = MangleUnit(t)
               PROVE  s = t
    OBVIOUS
  <2>1. s = <<>>
    BY EmptySeq
  <2>2. MangleUnit(t) = <<>>
    BY <2>1, MangleFacts
  <2> QED BY <1>1, <2>1, <2>2
<1>3. ASSUME NEW n \in Nat, Back(n) PROVE Back(n + 1)
  <2> SUFFICES ASSUME NEW s \in Seq(X), NEW t \in Seq(X), Len(s) = n + 1,
                      Readable(s), Readable(t), MangleUnit(s) = MangleUnit(t)
               PROVE  s = t
    OBVIOUS
  <2>1. s # <<>>
    BY EmptySeq
  <2>2. MangleUnit(t) # <<>>
    BY <1>1, <2>1
  <2>3. t # <<>>
    BY <2>2, MangleFacts
  <2>4. /\ s[1] \in X /\ Tail(s) \in Seq(X) /\ MangleUnit(s) = Escape(s[1]) \o MangleUnit(Tail(s))
        /\ t[1] \in X /\ Tail(t) \in Seq(X) /\ MangleUnit(t) = Escape(t[1]) \o MangleUnit(Tail(t))
    BY <2>1, <2>3, MangleFirst
  <2>5. ASSUME NEW u \in Seq(X), u # <<>>, Readable(u)
        PROVE  /\ Readable(Tail(u))
               /\ u[1] = "/" /\ MangleUnit(Tail(u)) # <<>> => MangleUnit(Tail(u))[1] \notin MarkDigits
    <3>1. /\ Len(u) \in Nat \ {0} /\ Tail(u) \in Seq(X) /\ Len(Tail(u)) = Len(u) - 1
          /\ \A k \in 1..(Len(u) - 1) : Tail(u)[k] = u[k + 1]
      BY <2>5, FirstAndRest
    <3>2. Readable(Tail(u))
      <4> SUFFICES ASSUME NEW k \in 1..(Len(Tail(u)) - 1), Tail(u)[k] = "/"
                   PROVE  Tail(u)[k + 1] \notin MarkDigits
        BY DEF Readable
      <4>1. k \in 1..(Len(u) - 1) /\ k + 1 \in 1..(Len(u) - 1)
        BY <3>1
      <4>2. u[k + 1] = "/" => u[(k + 1) + 1] \notin MarkDigits
        BY <2>5, <4>1 DEF Readable
      <4> QED BY <3>1, <4>1, <4>2
    <3>3. ASSUME u[1] = "/", MangleUnit(Tail(u)) # <<>>
          PROVE  MangleUnit(Tail(u))[1] \notin MarkDigits
      <4>1. Tail(u) # <<>>
        BY <3>3, MangleFacts
      <4>2. MangleUnit(Tail(u))[1] \in {Tail(u)[1], Underscore}
        BY <3>1, <4>1, MangleFirst
      <4>3. Len(Tail(u)) \in Nat \ {0}
        BY <3>1, <4>1, EmptySeq
      <4>4. 1 \in 1..(Len(u) - 1)
        BY <3>1, <4>3
      <4>5. Tail(u)[1] \notin MarkDigits
        BY <2>5, <3>1, <3>3, <4>4 DEF Readable
      <4> QED BY <4>2, <4>5, MarksDiffer
    <3> QED BY <3>2, <3>3
  <2>6. s[1] = t[1] /\ MangleUnit(Tail(s)) = MangleUnit(Tail(t))
    <3>1. s[1] # "." /\ t[1] # "."
      BY <2>4
    <3>2. MangleUnit(Tail(s)) \in Seq(Mangled(X)) /\ MangleUnit(Tail(t)) \in Seq(Mangled(X))
      BY <2>4, MangleFacts
    <3>3. Escape(s[1]) \o MangleUnit(Tail(s)) = Escape(t[1]) \o MangleUnit(Tail(t))
      BY <2>4
    <3>4. MayFollow(s[1], MangleUnit(Tail(s))) /\ MayFollow(t[1], MangleUnit(Tail(t)))
      BY <2>1, <2>3, <2>5 DEF MayFollow
    <3> DEFINE c == s[1]
               d == t[1]
               a == MangleUnit(Tail(s))
               b == MangleUnit(Tail(t))
    <3>5. /\ c \in X /\ d \in X /\ c # "." /\ d # "."
          /\ a \in Seq(Mangled(X)) /\ b \in Seq(Mangled(X)) /\ Escape(c) \o a = Escape(d) \o b
          /\ MayFollow(c, a) /\ MayFollow(d, b)
      BY <2>4, <3>1, <3>2, <3>3, <3>4
    <3> HIDE DEF c, d, a, b
    <3>6. c = d /\ a = b
      BY <3>5, HeadDecodes
    <3> QED BY <3>6 DEF c, d, a, b
  <2>7. Len(Tail(s)) = n /\ s = <<s[1]>> \o Tail(s) /\ t = <<t[1]>> \o Tail(t)
    BY <2>1, <2>3, FirstAndRest
  <2>8. Tail(s) = Tail(t)
    BY <1>3, <2>1, <2>3, <2>4, <2>5, <2>6, <2>7
  <2> QED BY <2>6, <2>7, <2>8
<1>4. Good = Nat
  <2> HIDE DEF Back
  <2>1. 0 \in Good /\ Good \in SUBSET Nat /\ \A n \in Good : n + 1 \in Good
    BY <1>2, <1>3
  <2> HIDE DEF Good
  <2> QED BY <2>1, NatSet
<1>5. \A n \in Nat : Back(n)
  BY <1>4
<1> QED BY <1>5, LenProperties

-----------------------------------------------------------------------------
(* The symbol of a method can be read back.                                *)

\* Two names with a slash between them.
Slashed(s, t) == s \o <<"/">> \o t

\* Where the characters of the two names are.
LEMMA SlashedAt ==
  ASSUME NEW X, "/" \in X
  PROVE  \A s \in Seq(X), t \in Seq(X) :
           /\ Len(s) \in Nat /\ Len(t) \in Nat
           /\ Slashed(s, t) \in Seq(X) /\ Len(Slashed(s, t)) = Len(s) + 1 + Len(t)
           /\ \A k \in 1..Len(s) : Slashed(s, t)[k] = s[k]
           /\ Slashed(s, t)[Len(s) + 1] = "/"
           /\ \A k \in 1..Len(t) : Slashed(s, t)[Len(s) + 1 + k] = t[k]
<1> SUFFICES ASSUME NEW s \in Seq(X), NEW t \in Seq(X)
             PROVE  /\ Len(s) \in Nat /\ Len(t) \in Nat
                    /\ Slashed(s, t) \in Seq(X) /\ Len(Slashed(s, t)) = Len(s) + 1 + Len(t)
                    /\ \A k \in 1..Len(s) : Slashed(s, t)[k] = s[k]
                    /\ Slashed(s, t)[Len(s) + 1] = "/"
                    /\ \A k \in 1..Len(t) : Slashed(s, t)[Len(s) + 1 + k] = t[k]
  OBVIOUS
<1> DEFINE u == <<"/">>
           v == s \o u
           m == Len(s)
           n == Len(t)
<1>1. u \in Seq(X) /\ Len(u) = 1 /\ u[1] = "/"
  BY Tuples
<1> HIDE DEF u
<1>2. m \in Nat /\ n \in Nat
  BY LenProperties
<1>3. /\ v \in Seq(X) /\ Len(v) = m + 1
      /\ \A k \in 1..(m + 1) : v[k] = IF k <= m THEN s[k] ELSE u[k - m]
  <2>1. v = s \o u /\ u \in Seq(X) /\ Len(u) = 1
    BY <1>1
  <2> HIDE DEF v
  <2>2. /\ v \in Seq(X) /\ Len(v) = Len(s) + Len(u)
        /\ \A k \in 1..(Len(s) + Len(u)) : v[k] = IF k <= Len(s) THEN s[k] ELSE u[k - Len(s)]
    BY <2>1, ConcatProperties
  <2> QED BY <2>1, <2>2
<1> HIDE DEF v, m, n
<1>4. /\ v \o t \in Seq(X) /\ Len(v \o t) = Len(v) + n
      /\ \A k \in 1..(Len(v) + n) : (v \o t)[k] = IF k <= Len(v) THEN v[k] ELSE t[k - Len(v)]
  BY <1>3, ConcatProperties DEF n
<1>5. /\ v \o t \in Seq(X) /\ Len(v \o t) = m + 1 + n
      /\ \A k \in 1..(m + 1 + n) : (v \o t)[k] = IF k <= m + 1 THEN v[k] ELSE t[k - (m + 1)]
  BY <1>3, <1>4
<1>6. \A k \in 1..m : (v \o t)[k] = s[k]
  BY <1>2, <1>3, <1>5
<1>7. (v \o t)[m + 1] = "/"
  <2>1. m + 1 \in 1..(m + 1) /\ m + 1 \in 1..(m + 1 + n) /\ (m + 1) - m = 1 /\ ~(m + 1 <= m)
    BY <1>2
  <2> QED BY <1>1, <1>3, <1>5, <2>1
<1>8. \A k \in 1..n : (v \o t)[m + 1 + k] = t[k]
  <2>1. \A k \in 1..n : m + 1 + k \in 1..(m + 1 + n) /\ ~(m + 1 + k <= m + 1) /\ (m + 1 + k) - (m + 1) = k
    BY <1>2
  <2> QED BY <1>5, <2>1
<1>9. Slashed(s, t) = v \o t
  BY DEF Slashed, v, u
<1> QED BY <1>2, <1>5, <1>6, <1>7, <1>8, <1>9 DEF m, n

\* The same, a fact at a time: first the length.
LEMMA SlashedLength ==
  ASSUME NEW X, "/" \in X
  PROVE  \A s \in Seq(X), t \in Seq(X) :
           Slashed(s, t) \in Seq(X) /\ Len(Slashed(s, t)) = Len(s) + 1 + Len(t)
BY SlashedAt

\* What comes before the slash, and the slash.
LEMMA SlashedLeft ==
  ASSUME NEW X, "/" \in X
  PROVE  \A s \in Seq(X), t \in Seq(X) :
           (\A k \in 1..Len(s) : Slashed(s, t)[k] = s[k]) /\ Slashed(s, t)[Len(s) + 1] = "/"
BY SlashedAt

\* What comes after the slash.
LEMMA SlashedRight ==
  ASSUME NEW X, "/" \in X
  PROVE  \A s \in Seq(X), t \in Seq(X) : \A k \in 1..Len(t) : Slashed(s, t)[Len(s) + 1 + k] = t[k]
BY SlashedAt

\* The slash at a place known cuts the string in two.
LEMMA SlashedCut ==
  ASSUME NEW X, "/" \in X, NEW s \in Seq(X), NEW t \in Seq(X), NEW p \in Seq(X), NEW q \in Seq(X),
         Slashed(s, t) = Slashed(p, q), Len(s) = Len(p)
  PROVE  s = p /\ t = q
<1>1. /\ Len(s) \in Nat /\ Len(t) \in Nat /\ Len(Slashed(s, t)) = Len(s) + 1 + Len(t)
      /\ \A k \in 1..Len(s) : Slashed(s, t)[k] = s[k]
      /\ \A k \in 1..Len(t) : Slashed(s, t)[Len(s) + 1 + k] = t[k]
  <2>1. Len(s) \in Nat /\ Len(t) \in Nat
    BY LenProperties
  <2>2. Len(Slashed(s, t)) = Len(s) + 1 + Len(t)
    BY SlashedLength
  <2>3. \A k \in 1..Len(s) : Slashed(s, t)[k] = s[k]
    BY SlashedLeft
  <2>4. \A k \in 1..Len(t) : Slashed(s, t)[Len(s) + 1 + k] = t[k]
    BY SlashedRight
  <2> QED BY <2>1, <2>2, <2>3, <2>4
<1>2. /\ Len(p) \in Nat /\ Len(q) \in Nat /\ Len(Slashed(p, q)) = Len(p) + 1 + Len(q)
      /\ \A k \in 1..Len(p) : Slashed(p, q)[k] = p[k]
      /\ \A k \in 1..Len(q) : Slashed(p, q)[Len(p) + 1 + k] = q[k]
  <2>1. Len(p) \in Nat /\ Len(q) \in Nat
    BY LenProperties
  <2>2. Len(Slashed(p, q)) = Len(p) + 1 + Len(q)
    BY SlashedLength
  <2>3. \A k \in 1..Len(p) : Slashed(p, q)[k] = p[k]
    BY SlashedLeft
  <2>4. \A k \in 1..Len(q) : Slashed(p, q)[Len(p) + 1 + k] = q[k]
    BY SlashedRight
  <2> QED BY <2>1, <2>2, <2>3, <2>4
<1>3. \A k \in 1..Len(s) : s[k] = p[k]
  BY <1>1, <1>2
<1>4. Len(t) = Len(q)
  BY <1>1, <1>2
<1>5. \A k \in 1..Len(t) : t[k] = q[k]
  BY <1>1, <1>2, <1>4
<1> QED BY <1>3, <1>4, <1>5, SeqEqual

\* What follows the last slash, if it has none itself.
LEMMA SlashedLast ==
  ASSUME NEW X, "/" \in X, NEW s \in Seq(X), NEW t \in Seq(X), NEW p \in Seq(X), NEW q \in Seq(X),
         Slashed(s, t) = Slashed(p, q), "/" \notin ToSet(t), "/" \notin ToSet(q)
  PROVE  s = p /\ t = q
<1> DEFINE w == Slashed(s, t)
<1>1. /\ Len(s) \in Nat /\ Len(t) \in Nat /\ Len(w) = Len(s) + 1 + Len(t) /\ w[Len(s) + 1] = "/"
      /\ \A k \in 1..Len(t) : w[Len(s) + 1 + k] = t[k]
  <2>1. Len(s) \in Nat /\ Len(t) \in Nat
    BY LenProperties
  <2>2. Len(w) = Len(s) + 1 + Len(t) /\ w[Len(s) + 1] = "/"
    BY SlashedLength, SlashedLeft
  <2>3. \A k \in 1..Len(t) : w[Len(s) + 1 + k] = t[k]
    BY SlashedRight
  <2> QED BY <2>1, <2>2, <2>3
<1>2. /\ Len(p) \in Nat /\ Len(q) \in Nat /\ Len(w) = Len(p) + 1 + Len(q) /\ w[Len(p) + 1] = "/"
      /\ \A k \in 1..Len(q) : w[Len(p) + 1 + k] = q[k]
  <2>1. Len(p) \in Nat /\ Len(q) \in Nat
    BY LenProperties
  <2>2. w = Slashed(p, q)
    OBVIOUS
  <2> HIDE DEF w
  <2>3. Len(w) = Len(p) + 1 + Len(q) /\ w[Len(p) + 1] = "/"
    BY <2>2, SlashedLength, SlashedLeft
  <2>4. \A k \in 1..Len(q) : w[Len(p) + 1 + k] = q[k]
    BY <2>2, SlashedRight
  <2> QED BY <2>1, <2>3, <2>4
<1> HIDE DEF w
<1>3. /\ \A k \in 1..Len(t) : t[k] # "/"
      /\ \A k \in 1..Len(q) : q[k] # "/"
  BY LenProperties DEF ToSet
<1>4. ~(Len(s) < Len(p))
  <2> SUFFICES ASSUME Len(s) < Len(p) PROVE FALSE
    OBVIOUS
  <2> DEFINE k == Len(p) - Len(s)
  <2>1. k \in 1..Len(t) /\ Len(s) + 1 + k = Len(p) + 1
    BY <1>1, <1>2
  <2> HIDE DEF k
  <2> QED BY <1>1, <1>2, <1>3, <2>1
<1>5. ~(Len(p) < Len(s))
  <2> SUFFICES ASSUME Len(p) < Len(s) PROVE FALSE
    OBVIOUS
  <2> DEFINE k == Len(s) - Len(p)
  <2>1. k \in 1..Len(q) /\ Len(p) + 1 + k = Len(s) + 1
    BY <1>1, <1>2
  <2> HIDE DEF k
  <2> QED BY <1>1, <1>2, <1>3, <2>1
<1>6. Len(s) = Len(p)
  BY <1>1, <1>2, <1>4, <1>5
<1> QED BY <1>6, SlashedCut

\* No slash of s is its last character or the first of two.
Single(s) == \A k \in 1..Len(s) : s[k] = "/" => k < Len(s) /\ s[k + 1] # "/"

\* What precedes the first two slashes in a row.
LEMMA SlashedFirst ==
  ASSUME NEW X, "/" \in X, NEW s \in Seq(X), NEW t \in Seq(X), NEW p \in Seq(X), NEW q \in Seq(X),
         Slashed(s, Slashed(<<>>, t)) = Slashed(p, Slashed(<<>>, q)), Single(s), Single(p)
  PROVE  s = p /\ t = q
<1> DEFINE w == Slashed(s, Slashed(<<>>, t))
           TwoAt(k) == w[k] = "/" /\ w[k + 1] = "/"
<1>1. \A x \in Seq(X), y \in Seq(X) :
        Slashed(x, Slashed(<<>>, y)) = w /\ Single(x) =>
          /\ Len(x) \in Nat /\ TwoAt(Len(x) + 1) /\ \A k \in 1..Len(x) : ~TwoAt(k)
  <2> HIDE DEF w
  <2> SUFFICES ASSUME NEW x \in Seq(X), NEW y \in Seq(X),
                      Slashed(x, Slashed(<<>>, y)) = w, Single(x)
               PROVE  /\ Len(x) \in Nat /\ TwoAt(Len(x) + 1) /\ \A k \in 1..Len(x) : ~TwoAt(k)
    OBVIOUS
  <2> DEFINE z == Slashed(<<>>, y)
  <2>1. /\ z \in Seq(X) /\ Len(z) \in Nat \ {0} /\ z[1] = "/"
    <3>1. <<>> \in Seq(X) /\ Len(<<>>) = 0
      BY EmptySeq
    <3>2. z \in Seq(X) /\ Len(y) \in Nat /\ Len(z) = 0 + 1 + Len(y) /\ z[0 + 1] = "/"
      BY <3>1, SlashedAt
    <3> QED BY <3>2
  <2> HIDE DEF z
  <2>2. /\ Len(x) \in Nat /\ \A k \in 1..Len(x) : w[k] = x[k]
        /\ w[Len(x) + 1] = "/" /\ \A k \in 1..Len(z) : w[Len(x) + 1 + k] = z[k]
    <3>1. w = Slashed(x, z)
      BY DEF z
    <3>2. Len(x) \in Nat
      BY LenProperties
    <3>3. (\A k \in 1..Len(x) : w[k] = x[k]) /\ w[Len(x) + 1] = "/"
      BY <2>1, <3>1, SlashedLeft
    <3>4. \A k \in 1..Len(z) : w[Len(x) + 1 + k] = z[k]
      <4>1. \A k \in 1..Len(z) : Slashed(x, z)[Len(x) + 1 + k] = z[k]
        <5>1. z \in Seq(X)
          BY <2>1
        <5> QED BY <5>1, SlashedRight
      <4> QED BY <3>1, <4>1
    <3> QED BY <3>2, <3>3, <3>4
  <2>3. TwoAt(Len(x) + 1)
    <3>1. 1 \in 1..Len(z) /\ Len(x) + 1 + 1 = (Len(x) + 1) + 1
      BY <2>1, <2>2
    <3>2. w[Len(x) + 1 + 1] = "/"
      BY <2>1, <2>2, <3>1
    <3> QED BY <2>2, <3>1, <3>2
  <2>4. ASSUME NEW k \in 1..Len(x) PROVE ~TwoAt(k)
    <3> SUFFICES ASSUME w[k] = "/" PROVE w[k + 1] # "/"
      OBVIOUS
    <3>1. k < Len(x) /\ x[k + 1] # "/"
      BY <2>2 DEF Single
    <3>2. k + 1 \in 1..Len(x)
      BY <2>2, <3>1
    <3> QED BY <2>2, <3>1, <3>2
  <2> QED BY <2>2, <2>3, <2>4
<1>2. /\ Len(s) \in Nat /\ TwoAt(Len(s) + 1) /\ \A k \in 1..Len(s) : ~TwoAt(k)
      /\ Len(p) \in Nat /\ TwoAt(Len(p) + 1) /\ \A k \in 1..Len(p) : ~TwoAt(k)
  <2> HIDE DEF TwoAt
  <2>1. Slashed(p, Slashed(<<>>, q)) = w
    OBVIOUS
  <2> QED BY <1>1, <2>1
<1>3. Len(s) = Len(p)
  <2> HIDE DEF TwoAt
  <2>1. ~(Len(s) + 1 \in 1..Len(p)) /\ ~(Len(p) + 1 \in 1..Len(s))
    BY <1>2
  <2> QED BY <1>2, <2>1
<1>4. Slashed(<<>>, t) \in Seq(X) /\ Slashed(<<>>, q) \in Seq(X) /\ <<>> \in Seq(X)
  BY EmptySeq, SlashedAt
<1>5. s = p /\ Slashed(<<>>, t) = Slashed(<<>>, q)
  BY <1>3, <1>4, SlashedCut
<1>6. t = q
  BY <1>4, <1>5, SlashedCut
<1> QED BY <1>5, <1>6

\* The name of a method with what it takes.
LongName(c, m, a) == Slashed(Slashed(c, m), Slashed(<<>>, a))

\* The symbols are the mangling of the names with slashes between them: one before
\* the method, two before what it takes.
LEMMA SymbolIs ==
  ASSUME NEW X, "." \notin X, "/" \in X,
         NEW c \in Seq(X), NEW m \in Seq(X), NEW a \in Seq(X)
  PROVE  /\ ShortSymbol(c, m) = JavaPrefix \o MangleUnit(Slashed(c, m))
         /\ LongSymbol(c, m, a) = JavaPrefix \o MangleUnit(LongName(c, m, a))
<1> DEFINE D == Seq(Mangled(X) \cup {"Java"})
           u == <<Underscore>>
           P == JavaPrefix
           M(s) == MangleUnit(s)
<1>1. u \in D /\ P \in D /\ u \in Seq(Mangled(X))
  <2>1. Underscore \in Mangled(X) /\ Underscore \in Mangled(X) \cup {"Java"} /\ "Java" \in Mangled(X) \cup {"Java"}
    BY DEF Mangled
  <2>2. JavaPrefix = <<"Java", Underscore>>
    BY Zenon DEF JavaPrefix, Underscore
  <2>3. <<"Java", Underscore>> \in D
    BY <2>1, Tuples
  <2>4. u \in D /\ u \in Seq(Mangled(X))
    BY <2>1, Tuples
  <2> QED BY <2>2, <2>3, <2>4
<1>2. ASSUME NEW s \in Seq(X) PROVE M(s) \in Seq(Mangled(X)) /\ M(s) \in D
  <2>1. M(s) \in Seq(Mangled(X))
    BY MangleFacts
  <2>2. Mangled(X) \subseteq Mangled(X) \cup {"Java"}
    OBVIOUS
  <2> HIDE DEF M
  <2> QED BY <2>1, <2>2
<1>3. ASSUME NEW s \in Seq(X), NEW t \in Seq(X) PROVE M(Slashed(s, t)) = M(s) \o u \o M(t)
  <2>1. <<"/">> \in Seq(X) /\ s \o <<"/">> \in Seq(X)
    <3>1. <<"/">> \in Seq(X)
      BY Tuples
    <3> QED BY <3>1, ConcatProperties
  <2>2. MangleUnit(<<"/">>) = u
    <3>1. MangleUnit(<<"/">>) = Escape("/")
      BY MangleFacts
    <3> QED BY <3>1, EscapeOf, Zenon
  <2>3. MangleUnit((s \o <<"/">>) \o t) = MangleUnit(s \o <<"/">>) \o MangleUnit(t)
    BY <2>1, MangleFacts
  <2>4. MangleUnit(s \o <<"/">>) = MangleUnit(s) \o MangleUnit(<<"/">>)
    BY <2>1, MangleFacts
  <2> QED BY <2>2, <2>3, <2>4 DEF Slashed
<1>4. MangleUnit(<<>>) = <<>>
  BY MangleFacts
<1>5. \A x, y, z \in D : (x \o y) \o z = x \o (y \o z)
  BY ConcatAssociative
<1>6. \A x, y \in D : x \o y \in D
  BY ConcatProperties
<1>7. <<>> \in Seq(X) /\ \A x \in D : <<>> \o x = x
  BY EmptySeq, ConcatEmptySeq
<1>8. Slashed(c, m) \in Seq(X) /\ Slashed(<<>>, a) \in Seq(X)
  BY <1>7, SlashedLength
<1> DEFINE mc == M(c)
           mm == M(m)
           ma == M(a)
<1>9. mc \in D /\ mm \in D /\ ma \in D
  BY <1>2
<1>10. M(Slashed(c, m)) = (mc \o u) \o mm
  BY <1>3
<1>11. M(Slashed(<<>>, a)) = (<<>> \o u) \o ma
  BY <1>3, <1>4, <1>7
<1>12. M(Slashed(Slashed(c, m), Slashed(<<>>, a))) = (((mc \o u) \o mm) \o u) \o ((<<>> \o u) \o ma)
  BY <1>3, <1>8, <1>10, <1>11
<1>13. ShortSymbol(c, m) = ((P \o mc) \o u) \o mm
  BY Zenon DEF ShortSymbol, Underscore
<1>14. <<Underscore, Underscore>> = u \o u
  <2>1. Underscore \in Mangled(X)
    BY DEF Mangled
  <2> HIDE DEF Underscore
  <2> QED OBVIOUS
<1>15. LongSymbol(c, m, a) = (ShortSymbol(c, m) \o (u \o u)) \o ma
  <2>1. LongSymbol(c, m, a) = (ShortSymbol(c, m) \o <<Underscore, Underscore>>) \o ma
    BY Zenon DEF LongSymbol, Underscore
  <2> QED BY <1>14, <2>1
<1> HIDE DEF D, u, P, mc, mm, ma
<1>16. ShortSymbol(c, m) = P \o ((mc \o u) \o mm)
  <2>1. (P \o mc) \o u = P \o (mc \o u) /\ mc \o u \in D
    <3>1. (P \o mc) \o u = P \o (mc \o u)
      BY <1>1, <1>5, <1>9
    <3> QED BY <1>1, <1>6, <1>9, <3>1
  <2>2. (P \o (mc \o u)) \o mm = P \o ((mc \o u) \o mm)
    BY <1>1, <1>5, <1>9, <2>1
  <2> QED BY <1>13, <2>1, <2>2
<1>17. LongSymbol(c, m, a) = P \o ((((mc \o u) \o mm) \o u) \o (u \o ma))
  <2> DEFINE w == (mc \o u) \o mm
  <2>1. w \in D /\ u \o u \in D /\ P \o w \in D
    BY <1>1, <1>6, <1>9
  <2> HIDE DEF w
  <2>2. ((P \o w) \o (u \o u)) \o ma = P \o ((w \o u) \o (u \o ma))
    <3>1. ((P \o w) \o (u \o u)) \o ma = (P \o w) \o ((u \o u) \o ma)
      BY <1>5, <1>9, <2>1
    <3>2. (u \o u) \o ma = u \o (u \o ma) /\ u \o ma \in D
      <4>1. (u \o u) \o ma = u \o (u \o ma)
        BY <1>1, <1>5, <1>9
      <4> QED BY <1>1, <1>6, <1>9, <4>1
    <3>3. (P \o w) \o (u \o (u \o ma)) = P \o (w \o (u \o (u \o ma)))
      <4>1. u \o (u \o ma) \in D
        BY <1>1, <1>6, <3>2
      <4> QED BY <1>1, <1>5, <2>1, <4>1
    <3>4. w \o (u \o (u \o ma)) = (w \o u) \o (u \o ma)
      BY <1>1, <1>5, <2>1, <3>2
    <3> QED BY <3>1, <3>2, <3>3, <3>4
  <2>3. LongSymbol(c, m, a) = ((P \o w) \o (u \o u)) \o ma
    BY <1>15, <1>16 DEF w
  <2> QED BY <2>2, <2>3 DEF w
<1>18. (<<>> \o u) \o ma = u \o ma
  BY <1>1, <1>7
<1> QED BY <1>10, <1>12, <1>16, <1>17, <1>18 DEF P, LongName

\* No identifier of the name begins with a digit.
Undigited(s) == \A k \in IdentStarts(s) : s[k] \notin EscapeDigits

\* Such a name can be read back, and so can two with a slash between them.
LEMMA UndigitedFacts ==
  ASSUME NEW X, "/" \in X, NEW s \in Seq(X), Undigited(s)
  PROVE  Readable(s) /\ \A t \in Seq(X) : Undigited(t) => Undigited(Slashed(s, t))
<1>1. Len(s) \in Nat /\ DOMAIN s = 1..Len(s)
  BY LenProperties
<1>2. Readable(s)
  <2> SUFFICES ASSUME NEW k \in 1..(Len(s) - 1), s[k] = "/" PROVE s[k + 1] \notin MarkDigits
    BY DEF Readable
  <2>1. k + 1 \in 1..Len(s) /\ (k + 1) - 1 = k
    BY <1>1
  <2>2. k + 1 \in IdentStarts(s)
    BY <1>1, <2>1 DEF IdentStarts
  <2> QED BY <2>2 DEF Undigited, EscapeDigits, MarkDigits
<1>3. ASSUME NEW t \in Seq(X), Undigited(t) PROVE Undigited(Slashed(s, t))
  <2> DEFINE w == Slashed(s, t)
             n == Len(s)
  <2>1. Len(t) \in Nat /\ DOMAIN t = 1..Len(t)
    BY LenProperties
  <2>2. Len(w) = n + 1 + Len(t) /\ w \in Seq(X)
    BY SlashedLength
  <2>3. (\A k \in 1..n : w[k] = s[k]) /\ w[n + 1] = "/"
    BY SlashedLeft
  <2>4. \A k \in 1..Len(t) : w[n + 1 + k] = t[k]
    BY <1>3, SlashedRight
  <2>5. DOMAIN w = 1..(n + 1 + Len(t)) /\ n \in Nat
    <3>1. DOMAIN w = 1..Len(w)
      BY <2>2, LenProperties
    <3> QED BY <1>1, <2>2, <3>1
  <2> HIDE DEF w
  <2> SUFFICES ASSUME NEW k \in IdentStarts(w) PROVE w[k] \notin EscapeDigits
    BY DEF Undigited, w
  <2>6. k \in 1..(n + 1 + Len(t)) /\ (k = 1 \/ w[k - 1] = "/")
    BY <2>5 DEF IdentStarts
  <2>7. CASE k <= n
    <3>1. k \in 1..n /\ (k = 1 \/ k - 1 \in 1..n)
      BY <2>5, <2>6, <2>7
    <3>2. k \in IdentStarts(s)
      BY <1>1, <2>3, <2>6, <3>1 DEF IdentStarts
    <3> QED BY <2>3, <3>1, <3>2 DEF Undigited
  <2>8. CASE k = n + 1
    BY <2>3, <2>8 DEF EscapeDigits
  <2>9. CASE k > n + 1
    <3> DEFINE l == k - (n + 1)
    <3>1. l \in 1..Len(t) /\ n + 1 + l = k /\ k # 1 /\ (l = 1 \/ (l - 1 \in 1..Len(t) /\ n + 1 + (l - 1) = k - 1))
      BY <2>1, <2>5, <2>6, <2>9
    <3> HIDE DEF l
    <3>2. w[k] = t[l]
      BY <2>4, <3>1
    <3>3. l = 1 \/ t[l - 1] = "/"
      BY <2>4, <2>6, <3>1
    <3>4. l \in IdentStarts(t)
      BY <2>1, <3>1, <3>3 DEF IdentStarts
    <3> QED BY <1>3, <3>2, <3>4 DEF Undigited
  <2> QED BY <2>5, <2>6, <2>7, <2>8, <2>9
<1> QED BY <1>2, <1>3

\* Between a class and a method no two slashes meet.
LEMMA SingleSlashes ==
  ASSUME NEW X, "/" \in X, NEW c \in Seq(X), NEW m \in Seq(X), IsClassName(c), IsMethodName(m)
  PROVE  Single(Slashed(c, m))
<1> DEFINE w == Slashed(c, m)
           n == Len(c)
<1>1. /\ n \in Nat /\ DOMAIN c = 1..n /\ Len(m) \in Nat \ {0} /\ \A k \in 1..Len(m) : m[k] # "/"
  <2>1. Len(m) \in Nat /\ DOMAIN m = 1..Len(m) /\ m # <<>> /\ "/" \notin ToSet(m)
    BY LenProperties DEF IsMethodName
  <2>2. \A k \in 1..Len(m) : m[k] # "/"
    BY <2>1 DEF ToSet
  <2> QED BY <2>1, <2>2, LenProperties, EmptySeq
<1>2. \A k \in 1..n : c[k] = "/" => k < n /\ c[k + 1] # "/"
  <2> SUFFICES ASSUME NEW k \in 1..n, c[k] = "/" PROVE k < n /\ c[k + 1] # "/"
    OBVIOUS
  <2>1. k # n
    BY DEF IsClassName
  <2> HIDE DEF n
  <2>2. k < n /\ k + 1 \in 1..n /\ (k + 1) - 1 = k
    BY <1>1, <2>1
  <2>3. k + 1 \in IdentStarts(c)
    BY <1>1, <2>2 DEF IdentStarts
  <2> QED BY <2>2, <2>3 DEF IsClassName
<1>3. Len(w) = n + 1 + Len(m)
  BY SlashedLength
<1>4. (\A k \in 1..n : w[k] = c[k]) /\ w[n + 1] = "/"
  BY SlashedLeft
<1>5. \A k \in 1..Len(m) : w[n + 1 + k] = m[k]
  BY SlashedRight
<1> HIDE DEF w, n
<1> SUFFICES ASSUME NEW k \in 1..Len(w), w[k] = "/" PROVE k < Len(w) /\ w[k + 1] # "/"
  BY DEF Single, w
<1>6. CASE k <= n
  <2>1. k \in 1..n
    BY <1>1, <1>6
  <2>2. k < n /\ c[k + 1] # "/"
    BY <1>2, <1>4, <2>1
  <2>3. k + 1 \in 1..n
    BY <1>1, <2>1, <2>2
  <2> QED BY <1>1, <1>3, <1>4, <2>2, <2>3
<1>7. CASE k = n + 1
  <2>1. 1 \in 1..Len(m) /\ n + 1 + 1 = k + 1
    BY <1>1, <1>7
  <2>2. w[k + 1] = m[1]
    BY <1>5, <2>1
  <2> QED BY <1>1, <1>3, <1>7, <2>1, <2>2
<1>8. CASE k > n + 1
  <2>1. k - (n + 1) \in 1..Len(m) /\ n + 1 + (k - (n + 1)) = k
    BY <1>1, <1>3, <1>8
  <2>2. w[k] = m[k - (n + 1)]
    BY <1>5, <2>1
  <2> QED BY <1>1, <2>1, <2>2
<1> QED BY <1>1, <1>3, <1>6, <1>7, <1>8

\* Names are sequences of the characters of any set that has theirs.
LEMMA NameIn ==
  ASSUME NEW s, IsSeq(s), NEW X, ToSet(s) \subseteq X
  PROVE  s \in Seq(X)
<1>1. Len(s) \in Nat /\ DOMAIN s = 1..Len(s) /\ \A k \in DOMAIN s : s[k] \in ToSet(s)
  BY SeqFacts
<1>2. s \in Seq(ToSet(s))
  BY DEF IsSeq
<1> QED BY <1>2, SeqDef

\* What may be a symbol's method.
IsNamed(c, m, a) == IsClassName(c) /\ IsMethodName(m) /\ IsName(a)

\* A symbol says which method it is of, and the long one what that takes.
LEMMA SymbolReadBack ==
  ASSUME NEW c, NEW m, NEW a, IsNamed(c, m, a), NEW d, NEW n, NEW b, IsNamed(d, n, b)
  PROVE  /\ ShortSymbol(c, m) = ShortSymbol(d, n) => c = d /\ m = n
         /\ LongSymbol(c, m, a) = LongSymbol(d, n, b) => c = d /\ m = n /\ a = b
         /\ ShortSymbol(c, m) # LongSymbol(d, n, b)
<1> DEFINE X == UNION {ToSet(c), ToSet(m), ToSet(a), ToSet(d), ToSet(n), ToSet(b), {"/"}}
           S(p, q) == Slashed(p, q)
           L(p, q, r) == LongName(p, q, r)
           P == JavaPrefix
           Y == Mangled(X) \cup {"Java"}
<1>1. "/" \in X /\ "." \notin X
  BY DEF IsNamed, IsClassName, IsMethodName, IsName
<1>2. /\ ToSet(c) \subseteq X /\ ToSet(m) \subseteq X /\ ToSet(a) \subseteq X
      /\ ToSet(d) \subseteq X /\ ToSet(n) \subseteq X /\ ToSet(b) \subseteq X
  OBVIOUS
<1> HIDE DEF X
<1>3. /\ c \in Seq(X) /\ m \in Seq(X) /\ a \in Seq(X)
      /\ d \in Seq(X) /\ n \in Seq(X) /\ b \in Seq(X)
  BY <1>2, NameIn DEF IsNamed, IsClassName, IsMethodName, IsName
<1>4. /\ Undigited(c) /\ Undigited(m) /\ Undigited(a)
      /\ Undigited(d) /\ Undigited(n) /\ Undigited(b)
  BY DEF Undigited, IsNamed, IsClassName, IsMethodName, IsName
<1>5. <<>> \in Seq(X) /\ Undigited(<<>>)
  BY EmptySeq DEF Undigited, IdentStarts
<1>6. \A p, q \in Seq(X) : S(p, q) \in Seq(X)
  BY <1>1, SlashedLength
<1>7. \A p, q \in Seq(X) : Undigited(p) /\ Undigited(q) => Undigited(S(p, q)) /\ Readable(S(p, q))
  <2> SUFFICES ASSUME NEW p \in Seq(X), NEW q \in Seq(X), Undigited(p), Undigited(q)
               PROVE  Undigited(S(p, q)) /\ Readable(S(p, q))
    OBVIOUS
  <2>1. Undigited(S(p, q))
    BY <1>1, UndigitedFacts
  <2>2. S(p, q) \in Seq(X)
    BY <1>6
  <2> HIDE DEF S
  <2> QED BY <1>1, <2>1, <2>2, UndigitedFacts
<1>8. /\ S(c, m) \in Seq(X) /\ Readable(S(c, m)) /\ Undigited(S(c, m))
      /\ S(d, n) \in Seq(X) /\ Readable(S(d, n)) /\ Undigited(S(d, n))
      /\ S(<<>>, a) \in Seq(X) /\ Undigited(S(<<>>, a))
      /\ S(<<>>, b) \in Seq(X) /\ Undigited(S(<<>>, b))
  <2> HIDE DEF S
  <2> QED BY <1>3, <1>4, <1>5, <1>6, <1>7
<1>9. /\ L(c, m, a) \in Seq(X) /\ Readable(L(c, m, a))
      /\ L(d, n, b) \in Seq(X) /\ Readable(L(d, n, b))
  <2>1. L(c, m, a) = S(S(c, m), S(<<>>, a)) /\ L(d, n, b) = S(S(d, n), S(<<>>, b))
    BY DEF LongName
  <2> HIDE DEF S, L
  <2> QED BY <1>6, <1>7, <1>8, <2>1
<1>10. Single(S(c, m)) /\ Single(S(d, n))
  BY <1>1, <1>3, SingleSlashes DEF IsNamed
<1>11. \A s, t \in Seq(X) :
         Readable(s) /\ Readable(t) /\ P \o MangleUnit(s) = P \o MangleUnit(t) => s = t
  <2> SUFFICES ASSUME NEW s \in Seq(X), NEW t \in Seq(X), Readable(s), Readable(t),
                      P \o MangleUnit(s) = P \o MangleUnit(t)
               PROVE  s = t
    OBVIOUS
  <2>1. P \in Seq(Y)
    <3>1. Underscore \in Y /\ "Java" \in Y
      BY DEF Mangled
    <3>2. P = <<"Java", Underscore>>
      BY Zenon DEF JavaPrefix, Underscore
    <3> HIDE DEF Y
    <3> QED BY <3>1, <3>2, Tuples
  <2>2. MangleUnit(s) \in Seq(Mangled(X)) /\ MangleUnit(t) \in Seq(Mangled(X))
    BY <1>1, MangleFacts
  <2>3. MangleUnit(s) \in Seq(Y) /\ MangleUnit(t) \in Seq(Y)
    <3>1. Mangled(X) \subseteq Y
      OBVIOUS
    <3> QED BY <2>2, <3>1
  <2> HIDE DEF P, Y
  <2>4. MangleUnit(s) = MangleUnit(t)
    BY <2>1, <2>3, ConcatSimplifications
  <2> QED BY <1>1, <2>4, MangleDecodes
<1>12. /\ ShortSymbol(c, m) = P \o MangleUnit(S(c, m))
       /\ LongSymbol(c, m, a) = P \o MangleUnit(L(c, m, a))
  <2>1. c \in Seq(X) /\ m \in Seq(X) /\ a \in Seq(X) /\ "." \notin X /\ "/" \in X
    BY <1>1, <1>3
  <2>2. ShortSymbol(c, m) = JavaPrefix \o MangleUnit(Slashed(c, m))
    BY <2>1, SymbolIs
  <2>3. LongSymbol(c, m, a) = JavaPrefix \o MangleUnit(LongName(c, m, a))
    BY <2>1, SymbolIs
  <2> QED BY <2>2, <2>3
<1>13. /\ ShortSymbol(d, n) = P \o MangleUnit(S(d, n))
       /\ LongSymbol(d, n, b) = P \o MangleUnit(L(d, n, b))
  <2>1. d \in Seq(X) /\ n \in Seq(X) /\ b \in Seq(X) /\ "." \notin X /\ "/" \in X
    BY <1>1, <1>3
  <2>2. ShortSymbol(d, n) = JavaPrefix \o MangleUnit(Slashed(d, n))
    BY <2>1, SymbolIs
  <2>3. LongSymbol(d, n, b) = JavaPrefix \o MangleUnit(LongName(d, n, b))
    BY <2>1, SymbolIs
  <2> QED BY <2>2, <2>3
<1>14. "/" \notin ToSet(m) /\ "/" \notin ToSet(n)
  BY DEF IsNamed, IsMethodName
<1>15. S(c, m) = S(d, n) => c = d /\ m = n
  BY <1>1, <1>3, <1>14, SlashedLast
<1>16. L(c, m, a) = L(d, n, b) => S(c, m) = S(d, n) /\ a = b
  <2> SUFFICES ASSUME L(c, m, a) = L(d, n, b) PROVE S(c, m) = S(d, n) /\ a = b
    OBVIOUS
  <2> DEFINE p == S(c, m)
             q == S(d, n)
  <2>1. p \in Seq(X) /\ q \in Seq(X) /\ Single(p) /\ Single(q)
    BY <1>8, <1>10
  <2>2. Slashed(p, Slashed(<<>>, a)) = Slashed(q, Slashed(<<>>, b))
    BY DEF LongName
  <2> HIDE DEF p, q
  <2>3. p = q /\ a = b
    BY <1>1, <1>3, <2>1, <2>2, SlashedFirst
  <2> QED BY <2>3 DEF p, q
<1>17. S(c, m) # L(d, n, b)
  <2> DEFINE p == S(d, n)
             z == Slashed(<<>>, b)
             w == Slashed(p, z)
  <2>1. p \in Seq(X) /\ z \in Seq(X)
    BY <1>8
  <2>2. Len(z) = 0 + 1 + Len(b) /\ Len(b) \in Nat /\ z[0 + 1] = "/"
    <3>1. Len(<<>>) = 0
      BY EmptySeq
    <3>2. Len(b) \in Nat
      BY <1>3, LenProperties
    <3>3. Len(z) = Len(<<>>) + 1 + Len(b)
      BY <1>1, <1>3, <1>5, SlashedLength
    <3>4. z[Len(<<>>) + 1] = "/"
      BY <1>1, <1>3, <1>5, SlashedLeft
    <3> HIDE DEF z
    <3> QED BY <3>1, <3>2, <3>3, <3>4
  <2> HIDE DEF p, z
  <2>3. Len(w) = Len(p) + 1 + Len(z) /\ w[Len(p) + 1] = "/"
    BY <1>1, <2>1, SlashedLength, SlashedLeft
  <2>4. \A k \in 1..Len(z) : w[Len(p) + 1 + k] = z[k]
    BY <1>1, <2>1, SlashedRight
  <2>5. Len(p) \in Nat
    BY <2>1, LenProperties
  <2> HIDE DEF w
  <2>6. 1 \in 1..Len(z) /\ Len(p) + 1 \in 1..Len(w) /\ Len(p) + 1 + 1 = (Len(p) + 1) + 1
    BY <2>2, <2>3, <2>5
  <2>7. w[(Len(p) + 1) + 1] = "/"
    BY <2>2, <2>4, <2>6
  <2>8. ~Single(w)
    BY <2>3, <2>6, <2>7 DEF Single
  <2>9. L(d, n, b) = w
    BY DEF w, z, p, LongName
  <2> HIDE DEF S, L
  <2> QED BY <1>10, <2>8, <2>9
<1> HIDE DEF S, L, P
<1>18. ShortSymbol(c, m) = ShortSymbol(d, n) => c = d /\ m = n
  BY <1>8, <1>11, <1>12, <1>13, <1>15
<1>19. LongSymbol(c, m, a) = LongSymbol(d, n, b) => c = d /\ m = n /\ a = b
  BY <1>9, <1>11, <1>12, <1>13, <1>15, <1>16
<1>20. ShortSymbol(c, m) # LongSymbol(d, n, b)
  BY <1>8, <1>9, <1>11, <1>12, <1>13, <1>17
<1> QED BY <1>18, <1>19, <1>20

-----------------------------------------------------------------------------
(* The whole report, as it could be read off the two sides.                *)

\* The exports that can be paired, and those of a symbol.
Unbroken == {k \in DOMAIN exports : ~Broken(exports[k])}
OfSymbol(s) == {k \in Unbroken : exports[k].symbol = s}
Before(S, n) == {k \in S : k < n}
Callers(s) == {j \in DOMAIN natives : natives[j].symbol = s}

\* What is to be said of export k on its own.
ExportSays(k) ==
  IF Broken(exports[k]) THEN {Diag(ProblemCode[exports[k].problem], 0, 0, k, 0)}
  ELSE IF Before(OfSymbol(exports[k].symbol), k) = {} THEN {} ELSE {Diag("E000", 0, 0, k, 0)}

\* What is to be said of native j and the export k it is paired with.
PairSays(j, k) ==
  LET n == natives[j]
      e == exports[k]
  IN  {Diag(c, 0, j, k, 0) : c \in ReceiverCodes(n, e)}
        \cup IF Len(n.params) # Len(e.params) THEN {Diag("E010", 0, j, k, 0)}
             ELSE (UNION {{Diag("E02", d, j, k, s) : d \in Compare(n.params[s], e.params[s])} :
                            s \in DOMAIN n.params})
                    \cup {Diag("E03", d, j, k, 0) : d \in Compare(n.ret, e.ret)}

\* What is to be said of native j: the last export of its symbol is its own.
NativeSays(j) ==
  LET s == natives[j].symbol
  IN  (IF Before(Callers(s), j) = {} THEN {} ELSE {Diag("E005", 0, j, 0, 0)})
        \cup IF OfSymbol(s) = {} THEN {Diag("E001", 0, j, 0, 0)} ELSE PairSays(j, Max(OfSymbol(s)))

\* What is to be said of export k once the natives are known.
CallSays(k) ==
  IF Broken(exports[k]) THEN {}
  ELSE (IF Callers(exports[k].symbol) = {} THEN {Diag("W001", 0, 0, k, 0)} ELSE {})
         \cup IF IsBorrow(exports[k].ret) THEN {Diag("W003", 0, 0, k, 0)} ELSE {}

RefSays(k) == {Diag(c, 0, 0, k, 0) : c \in CodesOf(k)}

\* The positions in S that the loop of phase q has passed, when phase p is at n.
Order == [p \in Phases |-> CASE p = "index" -> 1 [] p = "match" -> 2 [] p = "lint" -> 3
                             [] p = "refs" -> 4 [] p = "done" -> 5 [] OTHER -> 0]
PassedAt(p, n, q, S) == IF p = q THEN Before(S, n) ELSE IF Order[p] > Order[q] THEN S ELSE {}

Indexed   == PassedAt(phase, i, "index", DOMAIN exports)
Paired    == PassedAt(phase, i, "match", DOMAIN natives)
Linted    == PassedAt(phase, i, "lint", DOMAIN exports)
RefsSaid  == PassedAt(phase, i, "refs", DOMAIN refs)

\* The exports are found by their symbol, the last of it, and the natives by
\* theirs; the report says so far what the iterations had to say.
IndexInv ==
  /\ phase \in {"seeds", "closing"} => i = 1
  /\ DOMAIN index = {exports[k].symbol : k \in Indexed \cap Unbroken}
  /\ \A s \in DOMAIN index :
       /\ index[s] \in Indexed \cap OfSymbol(s)
       /\ \A k \in Indexed \cap OfSymbol(s) : k <= index[s]

SeenInv ==
  /\ seen = {natives[j].symbol : j \in Paired}
  /\ matched = seen \cap DOMAIN index

SaidInv ==
  report = (UNION {ExportSays(k) : k \in Indexed})
             \cup (UNION {NativeSays(j) : j \in Paired})
             \cup (UNION {CallSays(k) : k \in Linted})
             \cup (UNION {RefSays(k) : k \in RefsSaid})

\* The report of `run`.
ReportExact ==
  Done =>
    report = (UNION {ExportSays(k) : k \in DOMAIN exports})
               \cup (UNION {NativeSays(j) : j \in DOMAIN natives})
               \cup (UNION {CallSays(k) : k \in DOMAIN exports})
               \cup (UNION {RefSays(k) : k \in DOMAIN refs})

SideInv == IndexInv /\ SeenInv /\ SaidInv

\* How the loops move on: an iteration passes a position, the other loops stay
\* where they are, and where a loop ends nothing is left of it.
LEMMA Iterated ==
  ASSUME NEW p, NEW N \in Nat, NEW n \in 1..N
  PROVE  PassedAt(p, n + 1, p, 1..N) = PassedAt(p, n, p, 1..N) \cup {n}
BY DEF PassedAt, Before

\* The other loops stay where they are.
LEMMA OtherLoop ==
  ASSUME NEW p, NEW q, p # q, NEW S, NEW m, NEW n
  PROVE  PassedAt(p, m, q, S) = PassedAt(p, n, q, S)
BY DEF PassedAt

\* The phases of the four loops, in order.
Follows(p, next) ==
  \/ p = "index" /\ next = "match"
  \/ p = "match" /\ next = "lint"
  \/ p = "lint"  /\ next = "refs"
  \/ p = "refs"  /\ next = "done"

\* A loop that ends has passed all there is, and the next has passed nothing.
LEMMA LoopEnds ==
  ASSUME NEW p, NEW next, Follows(p, next), NEW q \in {"index", "match", "lint", "refs"},
         NEW N \in Nat, NEW n \in Nat, p = q => n > N
  PROVE  PassedAt(next, 1, q, 1..N) = PassedAt(p, n, q, 1..N)
<1>1. /\ Order["index"] = 1 /\ Order["match"] = 2 /\ Order["lint"] = 3
      /\ Order["refs"] = 4 /\ Order["done"] = 5
  BY DEF Order, Phases
<1>2. Before(1..N, 1) = {} /\ (n > N => Before(1..N, n) = 1..N)
  BY DEF Before
<1>3. CASE p = q
  BY <1>1, <1>2, <1>3 DEF PassedAt, Follows
<1>4. CASE next = q
  <2>1. PassedAt(next, 1, q, 1..N) = {}
    BY <1>2, <1>4 DEF PassedAt
  <2>2. PassedAt(p, n, q, 1..N) = {}
    BY <1>1, <1>4 DEF PassedAt, Follows
  <2> QED BY <2>1, <2>2
<1>5. CASE p # q /\ next # q
  <2>1. Order[p] > Order[q] <=> Order[next] > Order[q]
    BY <1>1, <1>5 DEF Follows
  <2> QED BY <1>5, <2>1 DEF PassedAt
<1> QED BY <1>3, <1>4, <1>5

\* No loop has begun before `check` is called.
LEMMA NotBegun ==
  ASSUME NEW p \in {"seeds", "closing", "index"}, NEW q \in {"index", "match", "lint", "refs"},
         NEW N \in Nat
  PROVE  PassedAt(p, 1, q, 1..N) = {}
<1>1. /\ Order["seeds"] = 0 /\ Order["closing"] = 0
      /\ Order["index"] = 1 /\ Order["match"] = 2 /\ Order["lint"] = 3 /\ Order["refs"] = 4
  BY DEF Order, Phases
<1>2. Before(1..N, 1) = {}
  BY DEF Before
<1> QED BY <1>1, <1>2 DEF PassedAt

\* What is to be said of a native or an export depends on the two sides alone.
LEMMA SameSays ==
  ASSUME UNCHANGED <<natives, exports>>
  PROVE  /\ Unbroken' = Unbroken /\ \A s : OfSymbol(s)' = OfSymbol(s)
         /\ \A k : ExportSays(k)' = ExportSays(k) /\ CallSays(k)' = CallSays(k)
         /\ \A j : NativeSays(j)' = NativeSays(j)
<1>1. Unbroken' = Unbroken
  BY DEF Unbroken
<1>2. \A s : OfSymbol(s)' = OfSymbol(s)
  BY <1>1 DEF OfSymbol
<1>3. \A s : Callers(s)' = Callers(s)
  BY DEF Callers
<1>4. \A k : ExportSays(k)' = ExportSays(k)
  BY <1>2 DEF ExportSays
<1>5. \A k : CallSays(k)' = CallSays(k)
  BY <1>3 DEF CallSays
<1>6. \A j, k : PairSays(j, k)' = PairSays(j, k)
  BY DEF PairSays
<1>7. \A j : NativeSays(j)' = NativeSays(j)
  BY <1>2, <1>3, <1>6 DEF NativeSays
<1> QED BY <1>1, <1>2, <1>4, <1>5, <1>7

\* The loop that indexes the exports.
LEMMA IndexSaid == CheckInv /\ SideInv /\ IndexExport => SideInv'
<1> SUFFICES ASSUME CheckInv, SideInv, IndexExport PROVE SideInv'
  OBVIOUS
<1> DEFINE e == exports[i]
           D == ExportSays(i)
           N == Len(exports)
<1>1. /\ phase = "index" /\ phase' = "index" /\ i' = i + 1 /\ i \in 1..N /\ N \in Nat
      /\ DOMAIN exports = 1..N /\ UNCHANGED <<natives, exports, refs, seen, matched>>
  BY VisitKeeps, SideFacts DEF IndexExport, Visit, CheckInv
<1>2. /\ Indexed' = Indexed \cup {i} /\ Paired' = Paired /\ Linted' = Linted /\ RefsSaid' = RefsSaid
      /\ Indexed = Before(1..N, i)
  BY <1>1, Iterated, OtherLoop DEF Indexed, Paired, Linted, RefsSaid, PassedAt
<1>3. Paired = {} /\ Linted = {} /\ RefsSaid = {}
  <2>1. Order["index"] = 1 /\ Order["match"] = 2 /\ Order["lint"] = 3 /\ Order["refs"] = 4
    BY DEF Order, Phases
  <2> QED BY <1>1, <2>1 DEF Paired, Linted, RefsSaid, PassedAt
<1>4. Before(OfSymbol(e.symbol), i) = Indexed \cap OfSymbol(e.symbol)
  BY <1>1, <1>2 DEF Before, OfSymbol, Unbroken
<1>5. i \in Unbroken <=> ~Broken(e)
  BY <1>1 DEF Unbroken
<1>6. e.symbol \in DOMAIN index <=> Before(OfSymbol(e.symbol), i) # {}
  BY <1>4 DEF SideInv, IndexInv, OfSymbol
<1>7. report' = report \cup D
  <2>1. CASE Broken(e)
    BY <2>1 DEF IndexExport, ExportSays
  <2>2. CASE ~Broken(e)
    BY <1>6, <2>2 DEF IndexExport, ExportSays
  <2> QED BY <2>1, <2>2
<1>8. Unbroken' = Unbroken /\ (\A s : OfSymbol(s)' = OfSymbol(s)) /\ \A k : ExportSays(k)' = ExportSays(k)
  BY <1>1, SameSays
<1>9. SaidInv'
  <2>1. report = UNION {ExportSays(k) : k \in Indexed}
    BY <1>3 DEF SideInv, SaidInv
  <2>2. report' = UNION {ExportSays(k) : k \in Indexed'}
    BY <1>2, <1>7, <2>1
  <2>3. report' = UNION {ExportSays(k)' : k \in Indexed'}
    BY <1>8, <2>2
  <2> QED BY <1>2, <1>3, <2>3 DEF SaidInv
<1>10. IndexInv'
  <2>1. CASE Broken(e)
    <3>1. index' = index /\ Indexed' \cap Unbroken' = Indexed \cap Unbroken
      BY <1>2, <1>5, <1>8, <2>1 DEF IndexExport
    <3>2. \A s : Indexed' \cap OfSymbol(s)' = Indexed \cap OfSymbol(s)
      BY <1>2, <1>5, <1>8, <2>1 DEF OfSymbol
    <3> QED BY <1>1, <3>1, <3>2 DEF SideInv, IndexInv
  <2>2. CASE ~Broken(e)
    <3>1. /\ DOMAIN index' = DOMAIN index \cup {e.symbol}
          /\ \A s \in DOMAIN index' : index'[s] = IF s = e.symbol THEN i ELSE index[s]
      BY <2>2 DEF IndexExport
    <3>2. Indexed' \cap Unbroken' = (Indexed \cap Unbroken) \cup {i}
      BY <1>2, <1>5, <1>8, <2>2
    <3>3. DOMAIN index' = {exports'[k].symbol : k \in Indexed' \cap Unbroken'}
      BY <1>1, <3>1, <3>2 DEF SideInv, IndexInv
    <3>4. \A s : Indexed' \cap OfSymbol(s)' = (Indexed \cap OfSymbol(s)) \cup (IF s = e.symbol THEN {i} ELSE {})
      BY <1>2, <1>5, <1>8, <2>2 DEF OfSymbol
    <3>5. \A k \in Indexed : k < i /\ k \in Nat
      BY <1>1, <1>2 DEF Before
    <3>6. ASSUME NEW s \in DOMAIN index'
          PROVE  /\ index'[s] \in Indexed' \cap OfSymbol(s)'
                 /\ \A k \in Indexed' \cap OfSymbol(s)' : k <= index'[s]
      <4>1. CASE s = e.symbol
        <5>1. index'[s] = i /\ i \in Indexed' \cap OfSymbol(s)'
          BY <3>1, <3>4, <4>1
        <5>2. \A k \in Indexed' : k = i \/ k \in Indexed
          BY <1>2
        <5>3. \A k \in Indexed' : k <= i
          BY <1>1, <3>5, <5>2
        <5> QED BY <5>1, <5>3
      <4>2. CASE s # e.symbol
        BY <3>1, <3>4, <4>2 DEF SideInv, IndexInv
      <4> QED BY <4>1, <4>2
    <3> QED BY <1>1, <3>3, <3>6 DEF IndexInv
  <2> QED BY <2>1, <2>2
<1>11. SeenInv'
  <2>1. seen = {} /\ matched = {} /\ seen' = seen /\ matched' = matched /\ Paired' = {}
    BY <1>1, <1>2, <1>3 DEF SideInv, SeenInv
  <2> QED BY <2>1 DEF SeenInv
<1> QED BY <1>9, <1>10, <1>11 DEF SideInv

\* The greatest number of a set that has one.
LEMMA TheGreatest ==
  ASSUME NEW S \in SUBSET Nat, NEW m \in S, \A k \in S : k <= m
  PROVE  Max(S) = m
<1>1. \A y \in S : m >= y
  OBVIOUS
<1>2. \A x \in S : (\A y \in S : x >= y) => x = m
  OBVIOUS
<1>3. Max(S) \in S /\ \A y \in S : Max(S) >= y
  BY <1>1 DEF Max
<1> QED BY <1>2, <1>3

\* What the comparison says of native i is what is to be said of it.
LEMMA PairSaid == \A k : PairDiags(natives[i], k) = PairSays(i, k)
BY DEF PairDiags, SlotDiags, PairSays

\* The loop over the native methods.
LEMMA MatchSaid == CheckInv /\ SideInv /\ MatchNative => SideInv'
<1> SUFFICES ASSUME CheckInv, SideInv, MatchNative PROVE SideInv'
  OBVIOUS
<1> DEFINE n == natives[i]
           s == n.symbol
           N == Len(natives)
<1>1. /\ phase = "match" /\ phase' = "match" /\ i' = i + 1 /\ i \in 1..N /\ N \in Nat
      /\ DOMAIN natives = 1..N /\ UNCHANGED <<natives, exports, refs, index>>
      /\ DOMAIN exports \in SUBSET Nat
  BY VisitKeeps, SideFacts DEF MatchNative, Visit, CheckInv
<1>2. /\ Paired' = Paired \cup {i} /\ Indexed' = Indexed /\ Linted' = Linted /\ RefsSaid' = RefsSaid
      /\ Paired = Before(1..N, i)
  BY <1>1, Iterated, OtherLoop DEF Indexed, Paired, Linted, RefsSaid, PassedAt
<1>3. Indexed = DOMAIN exports /\ Linted = {} /\ RefsSaid = {}
  <2>1. Order["index"] = 1 /\ Order["match"] = 2 /\ Order["lint"] = 3 /\ Order["refs"] = 4
    BY DEF Order, Phases
  <2> QED BY <1>1, <2>1 DEF Indexed, Linted, RefsSaid, PassedAt
<1>4. s \in seen <=> Before(Callers(s), i) # {}
  <2>1. Before(Callers(s), i) = {j \in Paired : natives[j].symbol = s}
    BY <1>1, <1>2 DEF Before, Callers
  <2> QED BY <2>1 DEF SideInv, SeenInv
<1>5. s \in DOMAIN index <=> OfSymbol(s) # {}
  BY <1>3 DEF SideInv, IndexInv, OfSymbol, Unbroken
<1>6. s \in DOMAIN index => index[s] = Max(OfSymbol(s))
  <2> SUFFICES ASSUME s \in DOMAIN index PROVE index[s] = Max(OfSymbol(s))
    OBVIOUS
  <2>1. Indexed \cap OfSymbol(s) = OfSymbol(s) /\ OfSymbol(s) \in SUBSET Nat
    BY <1>1, <1>3 DEF OfSymbol, Unbroken
  <2>2. index[s] \in OfSymbol(s) /\ \A k \in OfSymbol(s) : k <= index[s]
    BY <2>1 DEF SideInv, IndexInv
  <2> QED BY <2>1, <2>2, TheGreatest
<1>7. report' = report \cup NativeSays(i)
  <2> DEFINE twice == IF s \in seen THEN {Diag("E005", 0, i, 0, 0)} ELSE {}
  <2>1. twice = IF Before(Callers(s), i) = {} THEN {} ELSE {Diag("E005", 0, i, 0, 0)}
    BY <1>4
  <2>2. CASE s \in DOMAIN index
    <3>1. report' = (report \cup twice) \cup PairDiags(n, index[s])
      BY <2>2 DEF MatchNative
    <3>2. NativeSays(i) = twice \cup PairSays(i, index[s])
      BY <1>5, <1>6, <2>1, <2>2 DEF NativeSays
    <3> QED BY <3>1, <3>2, PairSaid
  <2>3. CASE s \notin DOMAIN index
    <3>1. report' = (report \cup twice) \cup {Diag("E001", 0, i, 0, 0)}
      BY <2>3 DEF MatchNative
    <3>2. NativeSays(i) = twice \cup {Diag("E001", 0, i, 0, 0)}
      BY <1>5, <2>1, <2>3 DEF NativeSays
    <3> QED BY <3>1, <3>2
  <2> QED BY <2>2, <2>3
<1>8. /\ Unbroken' = Unbroken /\ \A x : OfSymbol(x)' = OfSymbol(x)
      /\ \A k : ExportSays(k)' = ExportSays(k) /\ NativeSays(k)' = NativeSays(k)
  BY <1>1, SameSays
<1>9. SaidInv'
  <2>1. report = (UNION {ExportSays(k) : k \in Indexed}) \cup UNION {NativeSays(j) : j \in Paired}
    BY <1>3 DEF SideInv, SaidInv
  <2>2. UNION {NativeSays(j) : j \in Paired'} = (UNION {NativeSays(j) : j \in Paired}) \cup NativeSays(i)
    BY <1>2
  <2>3. report' = (UNION {ExportSays(k) : k \in Indexed'}) \cup UNION {NativeSays(j) : j \in Paired'}
    BY <1>2, <1>7, <2>1, <2>2
  <2>4. report' = (UNION {ExportSays(k)' : k \in Indexed'}) \cup UNION {NativeSays(j)' : j \in Paired'}
    BY <1>8, <2>3
  <2> QED BY <1>2, <1>3, <2>4 DEF SaidInv
<1>10. IndexInv'
  BY <1>1, <1>2, <1>8 DEF SideInv, IndexInv
<1>11. SeenInv'
  <2>1. seen' = seen \cup {s} /\ matched' = matched \cup (IF s \in DOMAIN index THEN {s} ELSE {})
    BY DEF MatchNative
  <2>2. seen' = {natives[j].symbol : j \in Paired'}
    BY <1>2, <2>1 DEF SideInv, SeenInv
  <2>3. matched' = seen' \cap DOMAIN index'
    BY <1>1, <2>1 DEF SideInv, SeenInv
  <2> QED BY <1>1, <2>2, <2>3 DEF SeenInv
<1> QED BY <1>9, <1>10, <1>11 DEF SideInv

\* A step that leaves the index and what is matched alone.
LEMMA SamePairs ==
  ASSUME SideInv, UNCHANGED <<natives, exports, pairing>>, Indexed' = Indexed, Paired' = Paired,
         phase' \notin {"seeds", "closing"}
  PROVE  IndexInv' /\ SeenInv'
<1>1. Unbroken' = Unbroken /\ \A s : OfSymbol(s)' = OfSymbol(s)
  BY SameSays
<1>2. UNCHANGED <<index, seen, matched>>
  BY DEF pairing
<1>3. IndexInv'
  BY <1>1, <1>2 DEF SideInv, IndexInv
<1>4. SeenInv'
  BY <1>2 DEF SideInv, SeenInv
<1> QED BY <1>3, <1>4

\* The loop over the exports that looks for those nobody calls.
LEMMA LintSaid == CheckInv /\ SideInv /\ LintExport => SideInv'
<1> SUFFICES ASSUME CheckInv, SideInv, LintExport PROVE SideInv'
  OBVIOUS
<1> DEFINE e == exports[i]
           N == Len(exports)
<1>1. /\ phase = "lint" /\ phase' = "lint" /\ i' = i + 1 /\ i \in 1..N /\ N \in Nat
      /\ DOMAIN exports = 1..N /\ UNCHANGED <<natives, exports, refs, pairing>>
  BY VisitKeeps, SideFacts DEF LintExport, Visit, CheckInv
<1>2. Linted' = Linted \cup {i} /\ Indexed' = Indexed /\ Paired' = Paired /\ RefsSaid' = RefsSaid
  BY <1>1, Iterated, OtherLoop DEF Indexed, Paired, Linted, RefsSaid, PassedAt
<1>3. Indexed = DOMAIN exports /\ Paired = DOMAIN natives /\ RefsSaid = {}
  <2>1. Order["index"] = 1 /\ Order["match"] = 2 /\ Order["lint"] = 3 /\ Order["refs"] = 4
    BY DEF Order, Phases
  <2> QED BY <1>1, <2>1 DEF Indexed, Paired, RefsSaid, PassedAt
<1>4. ~Broken(e) => (e.symbol \in matched <=> Callers(e.symbol) # {})
  <2>1. ~Broken(e) => e.symbol \in DOMAIN index
    BY <1>1, <1>3 DEF SideInv, IndexInv, Unbroken
  <2>2. e.symbol \in seen <=> Callers(e.symbol) # {}
    BY <1>3 DEF SideInv, SeenInv, Callers
  <2> QED BY <2>1, <2>2 DEF SideInv, SeenInv
<1>5. report' = report \cup CallSays(i)
  <2>1. CASE Broken(e)
    BY <2>1 DEF LintExport, CallSays
  <2>2. CASE ~Broken(e)
    <3> DEFINE About(c) == Diag(c, 0, 0, i, 0)
    <3>1. report' = report \cup {About(c) : c \in LintCodes(e)}
      BY <2>2 DEF LintExport
    <3>2. CallSays(i) = (IF Callers(e.symbol) = {} THEN {About("W001")} ELSE {})
                          \cup IF IsBorrow(e.ret) THEN {About("W003")} ELSE {}
      BY <2>2 DEF CallSays
    <3> HIDE DEF About
    <3>3. CallSays(i) = {About(c) : c \in LintCodes(e)}
      BY <1>4, <2>2, <3>2 DEF LintCodes
    <3> QED BY <3>1, <3>3
  <2> QED BY <2>1, <2>2
<1>6. \A k : /\ ExportSays(k)' = ExportSays(k) /\ NativeSays(k)' = NativeSays(k)
             /\ CallSays(k)' = CallSays(k)
  BY <1>1, SameSays
<1>7. SaidInv'
  <2>1. report = (UNION {ExportSays(k) : k \in Indexed}) \cup (UNION {NativeSays(j) : j \in Paired})
                   \cup UNION {CallSays(k) : k \in Linted}
    BY <1>3 DEF SideInv, SaidInv
  <2>2. UNION {CallSays(k) : k \in Linted'} = (UNION {CallSays(k) : k \in Linted}) \cup CallSays(i)
    BY <1>2
  <2>3. report' = (UNION {ExportSays(k) : k \in Indexed'}) \cup (UNION {NativeSays(j) : j \in Paired'})
                   \cup UNION {CallSays(k) : k \in Linted'}
    BY <1>2, <1>5, <2>1, <2>2
  <2>4. report' = (UNION {ExportSays(k)' : k \in Indexed'}) \cup (UNION {NativeSays(j)' : j \in Paired'})
                   \cup UNION {CallSays(k)' : k \in Linted'}
    BY <1>6, <2>3
  <2> QED BY <1>2, <1>3, <2>4 DEF SaidInv
<1> QED BY <1>1, <1>2, <1>7, SamePairs DEF SideInv

\* The loop over the references.
LEMMA RefsSaidToo == CheckInv /\ SideInv /\ CheckRef => SideInv'
<1> SUFFICES ASSUME CheckInv, SideInv, CheckRef PROVE SideInv'
  OBVIOUS
<1> DEFINE N == Len(refs)
<1>1. /\ phase = "refs" /\ phase' = "refs" /\ i' = i + 1 /\ i \in 1..N /\ N \in Nat
      /\ DOMAIN refs = 1..N /\ UNCHANGED <<natives, exports, refs, models, pairing>>
  BY VisitKeeps, SideFacts DEF CheckRef, Visit, CheckInv, closing
<1>2. RefsSaid' = RefsSaid \cup {i} /\ Indexed' = Indexed /\ Paired' = Paired /\ Linted' = Linted
  BY <1>1, Iterated, OtherLoop DEF Indexed, Paired, Linted, RefsSaid, PassedAt
<1>3. report' = report \cup RefSays(i)
  BY DEF CheckRef, RefSays, CodesOf
<1>4. \A k : /\ ExportSays(k)' = ExportSays(k) /\ NativeSays(k)' = NativeSays(k)
             /\ CallSays(k)' = CallSays(k) /\ RefSays(k)' = RefSays(k)
  BY <1>1, SameSays, SameCodes DEF RefSays
<1>5. SaidInv'
  <2> DEFINE Others == (UNION {ExportSays(k) : k \in Indexed}) \cup (UNION {NativeSays(j) : j \in Paired})
                       \cup UNION {CallSays(k) : k \in Linted}
  <2>1. report = Others \cup UNION {RefSays(k) : k \in RefsSaid}
    BY DEF SideInv, SaidInv
  <2>2. UNION {RefSays(k) : k \in RefsSaid'} = (UNION {RefSays(k) : k \in RefsSaid}) \cup RefSays(i)
    BY <1>2
  <2>3. report' = Others \cup UNION {RefSays(k) : k \in RefsSaid'}
    BY <1>3, <2>1, <2>2
  <2>4. UNION {RefSays(k)' : k \in RefsSaid'} = UNION {RefSays(k) : k \in RefsSaid'}
    BY <1>4
  <2>5. Others' = Others
    BY <1>2, <1>4
  <2> QED BY <2>3, <2>4, <2>5 DEF SaidInv
<1> QED BY <1>1, <1>2, <1>5, SamePairs DEF SideInv

\* The step from one loop to the next.
LEMMA LeaveSaid ==
  ASSUME CheckInv, SideInv, NEW p, NEW next, Follows(p, next), NEW s, Leave(p, s, next),
         p \in {"index", "lint"} => Len(s) = Len(exports),
         p = "match" => Len(s) = Len(natives), p = "refs" => Len(s) = Len(refs)
  PROVE  SideInv'
<1>1. /\ phase = p /\ phase' = next /\ i' = 1 /\ i > Len(s) /\ i \in Nat
      /\ UNCHANGED <<natives, exports, refs, models, pairing, report>>
  BY DEF Leave, sides, closing, CheckInv, LoopInv
<1>2. /\ Len(natives) \in Nat /\ DOMAIN natives = 1..Len(natives)
      /\ Len(exports) \in Nat /\ DOMAIN exports = 1..Len(exports)
      /\ Len(refs) \in Nat /\ DOMAIN refs = 1..Len(refs)
  BY SideFacts DEF CheckInv
<1>3. Indexed' = Indexed /\ Paired' = Paired /\ Linted' = Linted /\ RefsSaid' = RefsSaid
  <2>1. Indexed' = Indexed
    BY <1>1, <1>2, LoopEnds DEF Indexed
  <2>2. Paired' = Paired
    BY <1>1, <1>2, LoopEnds DEF Paired
  <2>3. Linted' = Linted
    BY <1>1, <1>2, LoopEnds DEF Linted
  <2>4. RefsSaid' = RefsSaid
    BY <1>1, <1>2, LoopEnds DEF RefsSaid
  <2> QED BY <2>1, <2>2, <2>3, <2>4
<1>4. \A k : /\ ExportSays(k)' = ExportSays(k) /\ NativeSays(k)' = NativeSays(k)
             /\ CallSays(k)' = CallSays(k) /\ RefSays(k)' = RefSays(k)
  BY <1>1, SameSays, SameCodes DEF RefSays
<1>5. SaidInv'
  BY <1>1, <1>3, <1>4 DEF SideInv, SaidInv
<1>6. phase' \notin {"seeds", "closing"}
  BY <1>1 DEF Follows
<1> QED BY <1>1, <1>3, <1>5, <1>6, SamePairs DEF SideInv

\* The loops have not begun.
LEMMA NothingSaid ==
  ASSUME SidesRead, phase \in {"seeds", "closing", "index"}, i = 1
  PROVE  Indexed = {} /\ Paired = {} /\ Linted = {} /\ RefsSaid = {}
BY SideFacts, NotBegun DEF Indexed, Paired, Linted, RefsSaid

\* The report, the index and what is matched are empty before the loops.
LEMMA EmptySays ==
  ASSUME Indexed = {}, Paired = {}, Linted = {}, RefsSaid = {}
  PROVE  SideInv <=> /\ report = {} /\ DOMAIN index = {} /\ seen = {} /\ matched = {}
                     /\ phase \in {"seeds", "closing"} => i = 1
<1>1. SaidInv <=> report = {}
  BY DEF SaidInv
<1>2. (DOMAIN index = {exports[k].symbol : k \in Indexed \cap Unbroken}) <=> DOMAIN index = {}
  OBVIOUS
<1>3. IndexInv <=> DOMAIN index = {} /\ (phase \in {"seeds", "closing"} => i = 1)
  BY <1>2 DEF IndexInv
<1>4. DOMAIN index = {} => (SeenInv <=> seen = {} /\ matched = {})
  BY DEF SeenInv
<1> QED BY <1>1, <1>3, <1>4 DEF SideInv

\* The search for classes of the JDK.
LEMMA ResolutionSaid == CheckInv /\ SideInv /\ Resolution /\ CheckInv' => SideInv'
<1> SUFFICES ASSUME CheckInv, SideInv, Resolution, CheckInv' PROVE SideInv'
  OBVIOUS
<1>1. /\ phase \in {"seeds", "closing"} /\ phase' \in {"seeds", "closing", "index"} /\ i' = i
      /\ UNCHANGED <<sides, pairing, report>>
  BY DEF Resolution, ResolveJdk, SkipJdk, EndJdk, LoadJdkClass, DropJdkClass
<1>2. i = 1 /\ i' = 1 /\ UNCHANGED <<index, seen, matched>>
  BY <1>1 DEF SideInv, IndexInv, pairing
<1>3. Indexed = {} /\ Paired = {} /\ Linted = {} /\ RefsSaid = {}
  BY <1>1, <1>2, NothingSaid DEF CheckInv
<1>4. report' = {} /\ DOMAIN index' = {} /\ seen' = {} /\ matched' = {}
  BY <1>1, <1>2, <1>3, EmptySays
<1>5. Indexed' = {} /\ Paired' = {} /\ Linted' = {} /\ RefsSaid' = {}
  <2>1. /\ Len(natives) \in Nat /\ DOMAIN natives' = 1..Len(natives)
        /\ Len(exports) \in Nat /\ DOMAIN exports' = 1..Len(exports)
        /\ Len(refs) \in Nat /\ DOMAIN refs' = 1..Len(refs)
    BY <1>1, SideFacts DEF CheckInv, sides
  <2> QED BY <1>1, <1>2, <2>1, NotBegun DEF Indexed, Paired, Linted, RefsSaid
<1> QED BY <1>2, <1>4, <1>5 DEF SideInv, IndexInv, SeenInv, SaidInv

\* The loops of `check` keep their books, whatever the two sides are.
LEMMA LoopsSaid == Spec => []SideInv
<1>1. Init => SideInv
  <2> SUFFICES ASSUME Init PROVE SideInv
    OBVIOUS
  <2>1. CheckInv /\ phase = "seeds" /\ i = 1
    BY InitCheck DEF Init
  <2>2. Indexed = {} /\ Paired = {} /\ Linted = {} /\ RefsSaid = {}
    BY <2>1, NothingSaid DEF CheckInv
  <2>3. report = {} /\ DOMAIN index = {} /\ seen = {} /\ matched = {}
    BY DEF Init
  <2> QED BY <2>1, <2>2, <2>3, EmptySays
<1>2. CheckInv /\ CheckInv' /\ SideInv /\ [Next]_vars => SideInv'
  <2> SUFFICES ASSUME CheckInv, CheckInv', SideInv, [Next]_vars PROVE SideInv'
    OBVIOUS
  <2>1. CASE Resolution
    BY <2>1, ResolutionSaid
  <2>2. CASE IndexExport
    BY <2>2, IndexSaid
  <2>3. CASE MatchNative
    BY <2>3, MatchSaid
  <2>4. CASE LintExport
    BY <2>4, LintSaid
  <2>5. CASE CheckRef
    BY <2>5, RefsSaidToo
  <2>6. CASE Leave("index", exports, "match")
    BY <2>6, LeaveSaid DEF Follows
  <2>7. CASE Leave("match", natives, "lint")
    BY <2>7, LeaveSaid DEF Follows
  <2>8. CASE Leave("lint", exports, "refs")
    BY <2>8, LeaveSaid DEF Follows
  <2>9. CASE Leave("refs", refs, "done")
    BY <2>9, LeaveSaid DEF Follows
  <2>10. CASE UNCHANGED vars
    <3>1. UNCHANGED <<natives, exports, refs, models, phase, i, pairing, report>>
      BY <2>10 DEF vars, sides, closing
    <3>2. \A k : /\ ExportSays(k)' = ExportSays(k) /\ NativeSays(k)' = NativeSays(k)
                 /\ CallSays(k)' = CallSays(k) /\ RefSays(k)' = RefSays(k)
      BY <3>1, SameSays, SameCodes DEF RefSays
    <3>3. Indexed' = Indexed /\ Paired' = Paired /\ Linted' = Linted /\ RefsSaid' = RefsSaid
      BY <3>1 DEF Indexed, Paired, Linted, RefsSaid
    <3>4. SaidInv'
      BY <3>1, <3>2, <3>3 DEF SideInv, SaidInv
    <3>5. Unbroken' = Unbroken /\ \A s : OfSymbol(s)' = OfSymbol(s)
      BY <3>1, SameSays
    <3>6. UNCHANGED <<index, seen, matched>>
      BY <3>1 DEF pairing
    <3> QED BY <3>1, <3>3, <3>4, <3>5, <3>6 DEF SideInv, IndexInv, SeenInv
  <2> QED BY <2>1, <2>2, <2>3, <2>4, <2>5, <2>6, <2>7, <2>8, <2>9, <2>10 DEF Next, Matching
<1> QED BY <1>1, <1>2, CheckInvariance, PTL DEF Spec

\* The report of a finished run is what can be read off the two sides and the
\* models: the order of the loops, and what replaces what in the index, come
\* down to the last export of a symbol and the first native of it.
THEOREM ReportIsExact == Spec => []ReportExact
<1>1. CheckInv /\ SideInv => ReportExact
  <2> SUFFICES ASSUME CheckInv, SideInv, Done PROVE ReportExact
    BY DEF ReportExact
  <2>1. /\ Order["index"] = 1 /\ Order["match"] = 2 /\ Order["lint"] = 3 /\ Order["refs"] = 4
        /\ Order["done"] = 5 /\ phase = "done"
    BY DEF Order, Phases, Done
  <2>2. Indexed = DOMAIN exports /\ Paired = DOMAIN natives /\ Linted = DOMAIN exports
          /\ RefsSaid = DOMAIN refs
    BY <2>1 DEF Indexed, Paired, Linted, RefsSaid, PassedAt
  <2> QED BY <2>2 DEF SideInv, SaidInv, ReportExact
<1> QED BY <1>1, CheckInvariance, LoopsSaid, PTL

-----------------------------------------------------------------------------
(* Two natives never have the same symbol.                                 *)

\* Two elements of FlattenSeq, and the sequences they are from.
LEMMA FlattenPlaces ==
  ASSUME NEW ss, IsSeq(ss), \A k \in DOMAIN ss : IsSeq(ss[k])
  PROVE  \A q, r \in DOMAIN FlattenSeq(ss) : q < r =>
           \E k, l \in DOMAIN ss : \E x \in DOMAIN ss[k], y \in DOMAIN ss[l] :
             /\ FlattenSeq(ss)[q] = ss[k][x] /\ FlattenSeq(ss)[r] = ss[l][y]
             /\ k < l \/ (k = l /\ x < y)
<1> DEFINE S == UNION {ToSet(ss[k]) : k \in DOMAIN ss}
           f == FlattenSeq(ss)
<1>1. Len(ss) \in Nat /\ DOMAIN ss = 1..Len(ss) /\ \A k \in DOMAIN ss : ss[k] \in ToSet(ss)
  BY SeqFacts
<1>2. \A k \in DOMAIN ss : ss[k] \in Seq(S) /\ DOMAIN ss[k] = 1..Len(ss[k])
  <2> SUFFICES ASSUME NEW k \in DOMAIN ss PROVE ss[k] \in Seq(S) /\ DOMAIN ss[k] = 1..Len(ss[k])
    OBVIOUS
  <2>1. ss[k] \in Seq(ToSet(ss[k])) /\ ToSet(ss[k]) \subseteq S
    BY DEF IsSeq
  <2> HIDE DEF S
  <2> QED BY <2>1, SeqMonotonic, LenProperties
<1> HIDE DEF S
<1>3. ss \in Seq(Seq(S))
  <2>1. ss \in Seq(ToSet(ss))
    BY DEF IsSeq
  <2>2. ss \in [1..Len(ss) -> Seq(S)]
    BY <1>1, <1>2, <2>1, LenProperties
  <2> QED BY <1>1, <2>2, FunIsSeq
<1>4. DOMAIN f = 1..Len(f)
  <2>1. f \in Seq(S)
    BY <1>3, Flatten
  <2> HIDE DEF f
  <2> QED BY <2>1, LenProperties
<1> SUFFICES ASSUME NEW q \in 1..Len(f), NEW r \in 1..Len(f), q < r
             PROVE  \E k, l \in DOMAIN ss : \E x \in DOMAIN ss[k], y \in DOMAIN ss[l] :
                      /\ f[q] = ss[k][x] /\ f[r] = ss[l][y]
                      /\ k < l \/ (k = l /\ x < y)
  BY <1>4
<1>5. Placed(ss, q, r)
  <2>1. q \in 1..Len(FlattenSeq(ss)) /\ r \in 1..Len(FlattenSeq(ss)) /\ q < r
    OBVIOUS
  <2> HIDE DEF f
  <2> QED BY <1>3, <2>1, FlattenOrder
<1> QED BY <1>1, <1>2, <1>5 DEF Placed

\* The natives of a class, in the order of its methods.
LEMMA LowerNativesFacts ==
  ASSUME NEW c, IsClass(c)
  PROVE  /\ IsSeq(LowerNatives(c))
         /\ \A n \in ToSet(LowerNatives(c)) : \E k \in NativesOf(c) : n = LowerNative(c, c.methods[k])
         /\ \A q, r \in DOMAIN LowerNatives(c) : q < r =>
              \E k, l \in NativesOf(c) :
                /\ LowerNatives(c)[q] = LowerNative(c, c.methods[k])
                /\ LowerNatives(c)[r] = LowerNative(c, c.methods[l])
                /\ k # l
<1> DEFINE Lowered(m) == IF m.native /\ ~HasIgnore(m) THEN <<LowerNative(c, m)>> ELSE <<>>
           ls == [j \in DOMAIN c.methods |-> Lowered(c.methods[j])]
<1>1. DOMAIN c.methods = 1..Len(c.methods) /\ Len(c.methods) \in Nat
  BY SeqFacts DEF IsClass
<1>2. \A j \in DOMAIN c.methods :
        /\ IsSeq(Lowered(c.methods[j]))
        /\ \A x \in DOMAIN Lowered(c.methods[j]) :
             x = 1 /\ c.methods[j].native /\ Lowered(c.methods[j])[x] = LowerNative(c, c.methods[j])
        /\ \A n \in ToSet(Lowered(c.methods[j])) :
             c.methods[j].native /\ n = LowerNative(c, c.methods[j])
  <2> SUFFICES ASSUME NEW j \in DOMAIN c.methods
               PROVE  /\ IsSeq(Lowered(c.methods[j]))
                      /\ \A x \in DOMAIN Lowered(c.methods[j]) :
                           /\ x = 1 /\ c.methods[j].native
                           /\ Lowered(c.methods[j])[x] = LowerNative(c, c.methods[j])
                      /\ \A n \in ToSet(Lowered(c.methods[j])) :
                           c.methods[j].native /\ n = LowerNative(c, c.methods[j])
    OBVIOUS
  <2>1. CASE c.methods[j].native /\ ~HasIgnore(c.methods[j])
    <3> DEFINE n == LowerNative(c, c.methods[j])
    <3>1. Lowered(c.methods[j]) = <<n>>
      BY <2>1
    <3> HIDE DEF n, Lowered
    <3>2. DOMAIN <<n>> = {1} /\ <<n>>[1] = n /\ IsSeq(<<n>>) /\ ToSet(<<n>>) = {n}
      BY ShortSeqs
    <3> QED BY <2>1, <3>1, <3>2 DEF n
  <2>2. CASE ~(c.methods[j].native /\ ~HasIgnore(c.methods[j]))
    <3>1. Lowered(c.methods[j]) = <<>>
      BY <2>2
    <3>2. DOMAIN <<>> = {} /\ IsSeq(<<>>) /\ ToSet(<<>>) = {}
      BY ShortSeqs
    <3> HIDE DEF Lowered
    <3> QED BY <3>1, <3>2
  <2> QED BY <2>1, <2>2
<1> HIDE DEF Lowered
<1>3. DOMAIN ls = DOMAIN c.methods /\ \A j \in DOMAIN ls : ls[j] = Lowered(c.methods[j])
  OBVIOUS
<1>4. IsSeq(ls)
  <2>1. ls \in [1..Len(c.methods) -> {Lowered(c.methods[j]) : j \in DOMAIN c.methods}]
    BY <1>1
  <2> HIDE DEF ls
  <2> QED BY <1>1, <2>1, FunIsSeq
<1>5. LowerNatives(c) = FlattenSeq(ls)
  BY DEF LowerNatives, Lowered
<1> HIDE DEF ls
<1>6. \A j \in DOMAIN ls : IsSeq(ls[j])
  BY <1>2, <1>3
<1>7. /\ IsSeq(LowerNatives(c))
      /\ \A n : n \in ToSet(LowerNatives(c)) <=> \E j \in DOMAIN ls : n \in ToSet(ls[j])
  BY <1>4, <1>5, <1>6, FlattenIsSeq
<1>8. ASSUME NEW n \in ToSet(LowerNatives(c))
      PROVE  \E k \in NativesOf(c) : n = LowerNative(c, c.methods[k])
  <2>1. PICK j \in DOMAIN ls : n \in ToSet(ls[j])
    BY <1>7
  <2>2. c.methods[j].native /\ n = LowerNative(c, c.methods[j])
    BY <1>2, <1>3, <2>1
  <2> QED BY <1>3, <2>2 DEF NativesOf
<1>9. ASSUME NEW q \in DOMAIN LowerNatives(c), NEW r \in DOMAIN LowerNatives(c), q < r
      PROVE  \E k, l \in NativesOf(c) :
               /\ LowerNatives(c)[q] = LowerNative(c, c.methods[k])
               /\ LowerNatives(c)[r] = LowerNative(c, c.methods[l])
               /\ k # l
  <2>1. PICK k \in DOMAIN ls, l \in DOMAIN ls : \E x \in DOMAIN ls[k], y \in DOMAIN ls[l] :
          /\ FlattenSeq(ls)[q] = ls[k][x] /\ FlattenSeq(ls)[r] = ls[l][y]
          /\ k < l \/ (k = l /\ x < y)
    BY <1>4, <1>5, <1>6, <1>9, FlattenPlaces
  <2>2. PICK x \in DOMAIN ls[k], y \in DOMAIN ls[l] :
          /\ FlattenSeq(ls)[q] = ls[k][x] /\ FlattenSeq(ls)[r] = ls[l][y]
          /\ k < l \/ (k = l /\ x < y)
    BY <2>1
  <2>3. /\ x = 1 /\ c.methods[k].native /\ ls[k][x] = LowerNative(c, c.methods[k])
        /\ y = 1 /\ c.methods[l].native /\ ls[l][y] = LowerNative(c, c.methods[l])
    <3>1. /\ k \in DOMAIN c.methods /\ ls[k] = Lowered(c.methods[k])
          /\ l \in DOMAIN c.methods /\ ls[l] = Lowered(c.methods[l])
      BY <1>3
    <3>2. x = 1 /\ c.methods[k].native /\ ls[k][x] = LowerNative(c, c.methods[k])
      BY <1>2, <3>1
    <3>3. y = 1 /\ c.methods[l].native /\ ls[l][y] = LowerNative(c, c.methods[l])
      BY <1>2, <3>1
    <3> QED BY <3>2, <3>3
  <2>4. k # l
    <3>1. k \in Nat /\ l \in Nat
      BY <1>1, <1>3
    <3> QED BY <2>2, <2>3, <3>1
  <2> QED BY <1>3, <1>5, <2>2, <2>3, <2>4 DEF NativesOf
<1> QED BY <1>7, <1>8, <1>9

\* Natives of the same symbol are of classes of the same name and have the same
\* name themselves; either they take the same, or neither is overloaded.
LEMMA SameSymbol ==
  ASSUME NEW c, NEW k \in NativesOf(c), JavaNames(c),
         NEW d, NEW l \in NativesOf(d), JavaNames(d),
         LowerNative(c, c.methods[k]).symbol = LowerNative(d, d.methods[l]).symbol
  PROVE  /\ c.name = d.name /\ c.methods[k].name = d.methods[l].name
         /\ \/ ArgDescriptor(c.methods[k]) = ArgDescriptor(d.methods[l])
            \/ ~Overloaded(c, c.methods[k])
<1> DEFINE m == c.methods[k]
           n == d.methods[l]
           a == ArgDescriptor(m)
           b == ArgDescriptor(n)
           cn == c.name
           dn == d.name
           mn == m.name
           nn == n.name
<1>1. IsNamed(cn, mn, a) /\ IsNamed(dn, nn, b)
  BY DEF IsNamed, JavaNames
<1>2. /\ LowerNative(c, m).symbol
           = IF Overloaded(c, m) THEN LongSymbol(cn, mn, a) ELSE ShortSymbol(cn, mn)
      /\ LowerNative(d, n).symbol
           = IF Overloaded(d, n) THEN LongSymbol(dn, nn, b) ELSE ShortSymbol(dn, nn)
  BY DEF LowerNative
<1>3. LowerNative(c, m).symbol = LowerNative(d, n).symbol
  OBVIOUS
<1> HIDE DEF m, n, a, b, cn, dn, mn, nn
<1>4. /\ ShortSymbol(cn, mn) = ShortSymbol(dn, nn) => cn = dn /\ mn = nn
      /\ LongSymbol(cn, mn, a) = LongSymbol(dn, nn, b) => cn = dn /\ mn = nn /\ a = b
      /\ ShortSymbol(cn, mn) # LongSymbol(dn, nn, b)
  BY <1>1, SymbolReadBack
<1>5. ShortSymbol(dn, nn) # LongSymbol(cn, mn, a)
  BY <1>1, SymbolReadBack
<1>6. cn = dn /\ mn = nn /\ (a = b \/ ~Overloaded(c, m))
  BY <1>2, <1>3, <1>4, <1>5
<1> QED BY <1>6 DEF m, n, a, b, cn, dn, mn, nn

\* Two natives of one name overload it.
LEMMA TwoOverload ==
  ASSUME NEW c, IsClass(c), NEW k \in NativesOf(c), NEW l \in NativesOf(c), k # l,
         c.methods[k].name = c.methods[l].name
  PROVE  Overloaded(c, c.methods[k])
<1> DEFINE T == {j \in DOMAIN c.methods : c.methods[j].native /\ c.methods[j].name = c.methods[k].name}
<1>1. Len(c.methods) \in Nat /\ DOMAIN c.methods = 1..Len(c.methods)
  BY SeqFacts DEF IsClass
<1>2. k \in T /\ l \in T /\ T \subseteq 1..Len(c.methods)
  BY <1>1 DEF NativesOf
<1> HIDE DEF T
<1>3. IsFiniteSet(T) /\ IsFiniteSet({k, l}) /\ Cardinality({k, l}) = 2
  <2>1. IsFiniteSet(1..Len(c.methods))
    BY <1>1, FS_Interval
  <2>2. IsFiniteSet({l}) /\ Cardinality({l}) = 1
    BY FS_Singleton
  <2>3. IsFiniteSet({l} \cup {k}) /\ Cardinality({l} \cup {k}) = 2
    <3> DEFINE L == {l}
    <3>1. k \notin L /\ IsFiniteSet(L) /\ Cardinality(L) = 1
      BY <2>2
    <3> HIDE DEF L
    <3>2. IsFiniteSet(L \cup {k}) /\ Cardinality(L \cup {k}) = Cardinality(L) + 1
      BY <3>1, FS_AddElement
    <3> QED BY <3>1, <3>2 DEF L
  <2>4. {l} \cup {k} = {k, l}
    OBVIOUS
  <2> QED BY <1>2, <2>1, <2>3, <2>4, FS_Subset
<1>4. Cardinality({k, l}) <= Cardinality(T) /\ Cardinality(T) \in Nat
  <2>1. {k, l} \subseteq T
    BY <1>2
  <2> QED BY <1>3, <2>1, FS_Subset, FS_CardinalityType
<1>5. Cardinality(T) > 1
  BY <1>3, <1>4
<1> QED BY <1>5 DEF Overloaded, T

\* Where there are as many names as classes, no two classes share one.
LEMMA NamesApart ==
  ASSUME NEW java, IsSeq(java), Cardinality({c.name : c \in ToSet(java)}) = Len(java)
  PROVE  \A k, l \in DOMAIN java : java[k].name = java[l].name => k = l
<1> DEFINE N == {c.name : c \in ToSet(java)}
           S == 1..Len(java)
           f == [k \in S |-> java[k].name]
<1>1. Len(java) \in Nat /\ DOMAIN java = S /\ \A k \in S : java[k] \in ToSet(java)
  BY SeqFacts
<1>2. f \in [S -> N] /\ \A x \in N : \E k \in S : f[k] = x
  <2>1. f \in [S -> N]
    BY <1>1
  <2>2. ASSUME NEW x \in N PROVE \E k \in S : f[k] = x
    <3>1. PICK c \in ToSet(java) : x = c.name
      OBVIOUS
    <3>2. PICK k \in S : java[k] = c
      BY <1>1 DEF ToSet
    <3> QED BY <3>1, <3>2
  <2> QED BY <2>1, <2>2
<1>3. IsFiniteSet(S) /\ Cardinality(S) = Len(java)
  <2> DEFINE n == Len(java)
  <2>1. n \in Nat
    BY <1>1
  <2> HIDE DEF n
  <2>2. IsFiniteSet(1..n) /\ Cardinality(1..n) = IF 1 > n THEN 0 ELSE n - 1 + 1
    BY <2>1, FS_Interval
  <2>3. IsFiniteSet(1..n) /\ Cardinality(1..n) = n
    BY <2>1, <2>2
  <2> QED BY <2>3 DEF n
<1>4. \A k \in S : f[k] = java[k].name
  OBVIOUS
<1> HIDE DEF N, f
<1>5. f \in Surjection(S, N)
  BY <1>2 DEF Surjection
<1>6. Cardinality(N) = Cardinality(S)
  BY <1>3 DEF N
<1>7. f \in Injection(S, N)
  BY <1>3, <1>5, <1>6, FS_Surjection
<1>8. \A k, l \in S : f[k] = f[l] => k = l
  BY <1>2, <1>7 DEF Injection, IsInjective
<1> QED BY <1>1, <1>4, <1>8

\* No two natives of classes that are given once share a symbol.
LEMMA NativesApart ==
  ASSUME NEW java, IsSeq(java), \A c \in ToSet(java) : IsClass(c) /\ JavaNames(c),
         Cardinality({c.name : c \in ToSet(java)}) = Len(java)
  PROVE  \A q, r \in DOMAIN Natives(java) : q < r => Natives(java)[q].symbol # Natives(java)[r].symbol
<1> DEFINE ns == [k \in DOMAIN java |-> LowerNatives(java[k])]
           f == Natives(java)
<1>1. Len(java) \in Nat /\ DOMAIN java = 1..Len(java) /\ \A k \in DOMAIN java : java[k] \in ToSet(java)
  BY SeqFacts
<1>2. DOMAIN ns = DOMAIN java /\ \A k \in DOMAIN java : ns[k] = LowerNatives(java[k])
  OBVIOUS
<1>3. IsSeq(ns)
  <2>1. ns \in [1..Len(java) -> {LowerNatives(java[k]) : k \in DOMAIN java}]
    BY <1>1
  <2> HIDE DEF ns
  <2> QED BY <1>1, <2>1, FunIsSeq
<1>4. f = FlattenSeq(ns)
  BY DEF Natives
<1> HIDE DEF ns, f
<1>5. \A k \in DOMAIN ns : IsSeq(ns[k])
  BY <1>1, <1>2, LowerNativesFacts
<1> SUFFICES ASSUME NEW q \in DOMAIN f, NEW r \in DOMAIN f, q < r, f[q].symbol = f[r].symbol
             PROVE  FALSE
  BY DEF f
<1>6. PICK k \in DOMAIN ns, l \in DOMAIN ns : \E x \in DOMAIN ns[k], y \in DOMAIN ns[l] :
        f[q] = ns[k][x] /\ f[r] = ns[l][y] /\ (k < l \/ (k = l /\ x < y))
  BY <1>3, <1>4, <1>5, FlattenPlaces
<1>7. PICK x \in DOMAIN ns[k], y \in DOMAIN ns[l] :
        f[q] = ns[k][x] /\ f[r] = ns[l][y] /\ (k < l \/ (k = l /\ x < y))
  BY <1>6
<1> DEFINE c == java[k]
           d == java[l]
<1>8. /\ ns[k] = LowerNatives(c) /\ IsClass(c) /\ JavaNames(c)
      /\ ns[l] = LowerNatives(d) /\ IsClass(d) /\ JavaNames(d)
  BY <1>1, <1>2
<1>9. c.name = d.name => k = l
  BY <1>2, NamesApart
<1>10. CASE k # l
  <2>1. ns[k][x] \in ToSet(LowerNatives(c)) /\ ns[l][y] \in ToSet(LowerNatives(d))
    BY <1>8 DEF ToSet
  <2> HIDE DEF c, d
  <2>2. PICK i1 \in NativesOf(c) : ns[k][x] = LowerNative(c, c.methods[i1])
    BY <1>8, <2>1, LowerNativesFacts
  <2>3. PICK i2 \in NativesOf(d) : ns[l][y] = LowerNative(d, d.methods[i2])
    BY <1>8, <2>1, LowerNativesFacts
  <2>4. LowerNative(c, c.methods[i1]).symbol = LowerNative(d, d.methods[i2]).symbol
    BY <1>7, <2>2, <2>3
  <2>5. c.name = d.name
    BY <1>8, <2>4, SameSymbol
  <2> QED BY <1>9, <1>10, <2>5
<1>11. CASE k = l
  <2>1. x < y
    <3>1. k \in Nat /\ l \in Nat
      BY <1>1, <1>2
    <3> QED BY <1>7, <1>11, <3>1
  <2>2. x \in DOMAIN LowerNatives(c) /\ y \in DOMAIN LowerNatives(c)
    BY <1>8, <1>11
  <2> HIDE DEF c, d
  <2>3. PICK i1 \in NativesOf(c), i2 \in NativesOf(c) :
          /\ LowerNatives(c)[x] = LowerNative(c, c.methods[i1])
          /\ LowerNatives(c)[y] = LowerNative(c, c.methods[i2])
          /\ i1 # i2
    BY <1>8, <2>1, <2>2, LowerNativesFacts
  <2>4. LowerNative(c, c.methods[i1]).symbol = LowerNative(c, c.methods[i2]).symbol
    <3>1. ns[k][x] = LowerNatives(c)[x] /\ ns[l][y] = LowerNatives(c)[y]
      BY <1>8, <1>11
    <3> QED BY <1>7, <2>3, <3>1
  <2>5. /\ c.methods[i1].name = c.methods[i2].name
        /\ \/ ArgDescriptor(c.methods[i1]) = ArgDescriptor(c.methods[i2])
           \/ ~Overloaded(c, c.methods[i1])
    BY <1>8, <2>4, SameSymbol
  <2>6. Overloaded(c, c.methods[i1])
    BY <1>8, <2>3, <2>5, TwoOverload
  <2> QED BY <1>8, <2>3, <2>5, <2>6 DEF JavaNames
<1> QED BY <1>10, <1>11

NativesDiffer == \A q, r \in DOMAIN natives : natives[q].symbol = natives[r].symbol => q = r

LEMMA NativesDo == ASSUME SidesRead, ClassesOnce PROVE NativesDiffer
<1>1. /\ natives = Natives(project.java)
      /\ IsSeq(project.java) /\ \A c \in ToSet(project.java) : IsClass(c)
  BY ProjectFacts DEF SidesRead
<1>2. \A c \in ToSet(project.java) : JavaNames(c)
  BY JavaNamesAssumption DEF SidesRead
<1>3. Cardinality({c.name : c \in ToSet(project.java)}) = Len(project.java)
  BY DEF ClassesOnce
<1>4. \A q, r \in DOMAIN natives : q < r => natives[q].symbol # natives[r].symbol
  BY <1>1, <1>2, <1>3, NativesApart
<1>5. \A q \in DOMAIN natives : q \in Nat
  BY SideFacts
<1>6. ASSUME NEW q \in DOMAIN natives, NEW r \in DOMAIN natives, natives[q].symbol = natives[r].symbol
      PROVE  q = r
  <2>1. ~(q < r) /\ ~(r < q) /\ q \in Nat /\ r \in Nat
    BY <1>4, <1>5, <1>6
  <2> QED BY <2>1
<1> QED BY <1>6 DEF NativesDiffer

\* What is to be said, but that natives share a symbol, has a code of its own.
LEMMA OtherCodes ==
  ASSUME SidesRead
  PROVE  /\ \A k \in DOMAIN exports : \A d \in ExportSays(k) \cup CallSays(k) : d.code # "E005"
         /\ \A k \in DOMAIN refs : \A d \in RefSays(k) : d.code # "E005"
         /\ \A j \in DOMAIN natives : \A k : \A d \in PairSays(j, k) : d.code # "E005"
<1>1. \A code, digit, j, k, s : Diag(code, digit, j, k, s).code = code
  BY DEF Diag
<1>2. ASSUME NEW k \in DOMAIN exports, NEW d \in ExportSays(k) \cup CallSays(k) PROVE d.code # "E005"
  <2>1. exports[k].problem \in Problems
    BY SideFacts
  <2>2. Broken(exports[k]) => ProblemCode[exports[k].problem] \in {"W002", "E004"}
    BY <2>1 DEF Broken, Problems, ProblemCode
  <2>3. d.code \in {"W002", "E004", "E000", "W001", "W003"}
    BY <1>1, <2>2 DEF ExportSays, CallSays
  <2> QED BY <2>3
<1>3. ASSUME NEW k \in DOMAIN refs, NEW d \in RefSays(k) PROVE d.code # "E005"
  <2>1. refs[k].kind \in RefKinds
    BY SideFacts
  <2>2. CodesOf(k) \subseteq RefErrors
    BY <2>1, RefCodesType DEF CodesOf
  <2>3. d.code \in RefErrors
    BY <1>1, <2>2 DEF RefSays
  <2> QED BY <2>3 DEF RefErrors
<1>4. ASSUME NEW j \in DOMAIN natives, NEW k, NEW d \in PairSays(j, k) PROVE d.code # "E005"
  <2> DEFINE n == natives[j]
             e == exports[k]
  <2>1. \A c \in ReceiverCodes(n, e) : c = "E002"
    BY DEF ReceiverCodes
  <2>2. d.code \in {"E002", "E010", "E02", "E03"}
    <3>1. \/ \E c \in ReceiverCodes(n, e) : d = Diag(c, 0, j, k, 0)
          \/ d = Diag("E010", 0, j, k, 0)
          \/ \E s \in DOMAIN n.params : \E x \in Compare(n.params[s], e.params[s]) : d = Diag("E02", x, j, k, s)
          \/ \E x \in Compare(n.ret, e.ret) : d = Diag("E03", x, j, k, 0)
      BY Zenon DEF PairSays
    <3> HIDE DEF n, e
    <3>2. ASSUME NEW c \in ReceiverCodes(n, e), d = Diag(c, 0, j, k, 0) PROVE d.code = "E002"
      BY <1>1, <2>1, <3>2
    <3>3. d = Diag("E010", 0, j, k, 0) => d.code = "E010"
      BY <1>1
    <3>4. ASSUME NEW x, NEW s, d = Diag("E02", x, j, k, s) PROVE d.code = "E02"
      BY <1>1, <3>4
    <3>5. ASSUME NEW x, d = Diag("E03", x, j, k, 0) PROVE d.code = "E03"
      BY <1>1, <3>5
    <3> QED BY <3>1, <3>2, <3>3, <3>4, <3>5, Zenon
  <2> QED BY <2>2
<1> QED BY <1>2, <1>3, <1>4

\* SymbolsDistinct: an E005 is said of a class given twice and of nothing else.
\* What is mangled can be read back, from the left a character at a time, and the
\* slashes say where the class ends, the method, and what it takes; so natives of
\* one symbol would be one native.
THEOREM SymbolsAreDistinct == Spec => []SymbolsDistinct
<1>1. CheckInv /\ ReportExact => SymbolsDistinct
  <2> SUFFICES ASSUME CheckInv, ReportExact, Done, ClassesOnce,
                      NEW d \in report, d.code = "E005"
               PROVE  FALSE
    BY DEF SymbolsDistinct
  <2>1. SidesRead
    BY DEF CheckInv
  <2>2. PICK j \in DOMAIN natives : d \in NativeSays(j)
    <3>1. \/ \E k \in DOMAIN exports : d \in ExportSays(k) \cup CallSays(k)
          \/ \E k \in DOMAIN natives : d \in NativeSays(k)
          \/ \E k \in DOMAIN refs : d \in RefSays(k)
      BY DEF ReportExact
    <3> QED BY <2>1, <3>1, OtherCodes
  <2>3. Before(Callers(natives[j].symbol), j) # {}
    <3>1. \A k : d \notin PairSays(j, k)
      BY <2>1, OtherCodes
    <3>2. Diag("E001", 0, j, 0, 0).code = "E001" /\ d.code # "E001"
      BY DEF Diag
    <3> QED BY <2>2, <3>1, <3>2 DEF NativeSays
  <2>4. PICK q \in DOMAIN natives : natives[q].symbol = natives[j].symbol /\ q < j
    BY <2>3 DEF Before, Callers
  <2>5. NativesDiffer
    BY <2>1, NativesDo
  <2>6. q = j /\ j \in Nat
    BY <2>1, <2>4, <2>5, SideFacts DEF NativesDiffer
  <2> QED BY <2>4, <2>6
<1> QED BY <1>1, CheckInvariance, ReportIsExact, PTL
-----------------------------------------------------------------------------
(* The hierarchy of a class.                                               *)

\* The classes next to those of S, or in S.
Above(S, idx) == S \cup UNION {idx[k].supers : k \in S \cap DOMAIN idx}

\* S has c, and with a class what is next above it.
Upward(idx, c, S) == c \in S /\ \A k \in S \cap DOMAIN idx : idx[k].supers \subseteq S

\* The classes at most n steps above c, by the way up to them.
Reached(idx, c, n) ==
  LET all == {c} \cup UNION {{k} \cup idx[k].supers : k \in DOMAIN idx}
  IN  {x \in all : \E w \in [0..n -> all] :
         /\ w[0] = c /\ w[n] = x
         /\ \A m \in 0..(n - 1) : w[m + 1] \in Above({w[m]}, idx)}

\* A step further.
LEMMA ReachedNext ==
  ASSUME NEW idx, NEW c, NEW n \in Nat
  PROVE  /\ Reached(idx, c, 0) = {c}
         /\ Reached(idx, c, n + 1) = Above(Reached(idx, c, n), idx)
<1> DEFINE all == {c} \cup UNION {{k} \cup idx[k].supers : k \in DOMAIN idx}
           Way(w, m, x) == /\ w \in [0..m -> all] /\ w[0] = c /\ w[m] = x
                           /\ \A l \in 0..(m - 1) : w[l + 1] \in Above({w[l]}, idx)
<1>1. \A m, x : x \in Reached(idx, c, m) <=> x \in all /\ \E w : Way(w, m, x)
  BY DEF Reached
<1>2. \A x, y : y \in Above({x}, idx) <=> y = x \/ (x \in DOMAIN idx /\ y \in idx[x].supers)
  BY DEF Above
<1>3. \A x \in all : \A y : y \in Above({x}, idx) => y \in all
  <2>1. \A x \in DOMAIN idx : idx[x].supers \subseteq all
    OBVIOUS
  <2> HIDE DEF all
  <2> QED BY <1>2, <2>1
<1>4. \A S, y : y \in Above(S, idx) <=> \E x \in S : y \in Above({x}, idx)
  BY <1>2 DEF Above
<1>5. c \in all
  OBVIOUS
<1> HIDE DEF all
<1>6. Reached(idx, c, 0) = {c}
  <2>1. Way([m \in 0..0 |-> c], 0, c)
    BY <1>5
  <2>2. \A w, x : Way(w, 0, x) => x = c
    OBVIOUS
  <2> HIDE DEF Way
  <2> QED BY <1>1, <1>5, <2>1, <2>2
<1>7. ASSUME NEW x \in Reached(idx, c, n + 1) PROVE x \in Above(Reached(idx, c, n), idx)
  <2>1. PICK w : Way(w, n + 1, x)
    <3> HIDE DEF Way
    <3> QED BY <1>1, <1>7
  <2> DEFINE v == [m \in 0..n |-> w[m]]
  <2>2. 0..n \subseteq 0..(n + 1) /\ n \in 0..((n + 1) - 1) /\ n \in 0..n
    OBVIOUS
  <2>3. Way(v, n, w[n]) /\ w[n] \in all
    BY <2>1, <2>2
  <2>4. x \in Above({w[n]}, idx)
    BY <2>1, <2>2
  <2> HIDE DEF Way, v
  <2> QED BY <1>1, <1>4, <2>3, <2>4
<1>8. ASSUME NEW y \in Above(Reached(idx, c, n), idx) PROVE y \in Reached(idx, c, n + 1)
  <2>1. PICK x \in Reached(idx, c, n) : y \in Above({x}, idx)
    BY <1>4
  <2>2. PICK w : Way(w, n, x)
    <3> HIDE DEF Way
    <3> QED BY <1>1, <2>1
  <2> DEFINE v == [m \in 0..(n + 1) |-> IF m = n + 1 THEN y ELSE w[m]]
  <2>3. x \in all /\ y \in all
    BY <1>1, <1>3, <2>1
  <2>4. v \in [0..(n + 1) -> all] /\ v[0] = c /\ v[n + 1] = y
    BY <2>2, <2>3
  <2>5. \A l \in 0..n : v[l + 1] \in Above({v[l]}, idx)
    <3> SUFFICES ASSUME NEW l \in 0..n PROVE v[l + 1] \in Above({v[l]}, idx)
      OBVIOUS
    <3>1. CASE l = n
      <4>1. v[l + 1] = y /\ v[l] = x
        BY <2>2, <3>1
      <4> QED BY <2>1, <4>1
    <3>2. CASE l # n
      <4>1. l \in 0..(n - 1) /\ v[l + 1] = w[l + 1] /\ v[l] = w[l]
        BY <3>2
      <4> QED BY <2>2, <4>1
    <3> QED BY <3>1, <3>2
  <2>6. Way(v, n + 1, y)
    BY <2>4, <2>5
  <2> HIDE DEF Way, v
  <2> QED BY <1>1, <2>3, <2>6
<1> QED BY <1>6, <1>7, <1>8

\* `Hierarchy` looks at the models of the least set with c that is closed
\* upwards: as many rounds as there are classes are enough.
LEMMA HierarchyLeast ==
  ASSUME NEW idx, NEW c, IsFiniteSet(DOMAIN idx)
  PROVE  \E R : /\ Hierarchy(c, idx) = {idx[k] : k \in R \cap DOMAIN idx}
                /\ Upward(idx, c, R)
                /\ \A S : Upward(idx, c, S) => R \subseteq S
<1> DEFINE up == CHOOSE f : f = [n \in Nat |-> IF n = 0 THEN {c} ELSE Above(f[n - 1], idx)]
           D == DOMAIN idx
           N == Cardinality(D)
           R == up[N]
<1>1. Hierarchy(c, idx) = {idx[k] : k \in R \cap DOMAIN idx}
  BY DEF Hierarchy, Above
<1>2. N \in Nat /\ \A T \in SUBSET D : IsFiniteSet(T) /\ Cardinality(T) \in Nat /\ Cardinality(T) <= N
  BY FS_CardinalityType, FS_Subset
<1>3. up[0] = {c} /\ \A n \in Nat : up[n + 1] = Above(up[n], idx)
  <2> DEFINE g == [n \in Nat |-> Reached(idx, c, n)]
  <2>1. \A n \in Nat : g[n] = IF n = 0 THEN {c} ELSE Above(g[n - 1], idx)
    <3> SUFFICES ASSUME NEW n \in Nat PROVE g[n] = IF n = 0 THEN {c} ELSE Above(g[n - 1], idx)
      OBVIOUS
    <3>1. CASE n = 0
      BY <3>1, ReachedNext
    <3>2. CASE n # 0
      <4>1. n - 1 \in Nat /\ (n - 1) + 1 = n
        BY <3>2
      <4> DEFINE m == n - 1
      <4> HIDE DEF m
      <4>2. m \in Nat /\ m + 1 = n
        BY <4>1 DEF m
      <4>3. Reached(idx, c, n) = Above(Reached(idx, c, m), idx)
        BY <4>2, ReachedNext
      <4> QED BY <3>2, <4>2, <4>3 DEF m
    <3> QED BY <3>1, <3>2
  <2>2. g = [n \in Nat |-> IF n = 0 THEN {c} ELSE Above(g[n - 1], idx)]
    BY <2>1
  <2>3. up = [n \in Nat |-> IF n = 0 THEN {c} ELSE Above(up[n - 1], idx)]
    BY <2>2
  <2> HIDE DEF up
  <2>4. \A n \in Nat : up[n] = IF n = 0 THEN {c} ELSE Above(up[n - 1], idx)
    BY <2>3
  <2>5. \A n \in Nat : n + 1 \in Nat /\ n + 1 # 0 /\ (n + 1) - 1 = n
    OBVIOUS
  <2> QED BY <2>4, <2>5
<1> HIDE DEF up
<1>4. \A S, T : S \cap D = T \cap D /\ S \subseteq T => Above(T, idx) = T \cup Above(S, idx)
  BY DEF Above
<1>5. \A S : S \subseteq Above(S, idx)
  BY DEF Above
<1> HIDE DEF D, N
<1> DEFINE Full(n) == up[n + 1] = up[n] \/ Cardinality(up[n] \cap D) >= n + 1
           Filled == {n \in Nat : Full(n)}
<1>6. Full(0)
  <2>1. CASE c \in D
    <3>1. up[0] \cap D = {c}
      BY <1>3, <2>1
    <3>2. Cardinality(up[0] \cap D) = 1
      BY <3>1, FS_Singleton
    <3> QED BY <3>2
  <2>2. CASE c \notin D
    <3>1. Above({c}, idx) = {c}
      BY <2>2 DEF Above, D
    <3>2. up[0 + 1] = Above(up[0], idx)
      BY <1>3
    <3> QED BY <1>3, <3>1, <3>2
  <2> QED BY <2>1, <2>2
<1>7. ASSUME NEW n \in Nat, Full(n) PROVE Full(n + 1)
  <2>1. n + 1 \in Nat /\ up[n + 1] = Above(up[n], idx) /\ up[(n + 1) + 1] = Above(up[n + 1], idx)
    BY <1>3
  <2>2. CASE up[n + 1] = up[n]
    BY <2>1, <2>2
  <2>3. CASE up[n + 1] # up[n] /\ up[n + 1] \cap D = up[n] \cap D
    <3>1. up[n] \subseteq up[n + 1]
      BY <1>5, <2>1
    <3>2. Above(up[n + 1], idx) = up[n + 1] \cup Above(up[n], idx)
      BY <1>4, <2>3, <3>1
    <3> QED BY <2>1, <3>2
  <2>4. CASE up[n + 1] # up[n] /\ up[n + 1] \cap D # up[n] \cap D
    <3> DEFINE T == up[n + 1] \cap D
               S == up[n] \cap D
    <3>1. S \in SUBSET T /\ S # T /\ T \in SUBSET D
      BY <1>5, <2>1, <2>4
    <3>2. Cardinality(S) >= n + 1
      BY <2>4, <1>7
    <3> HIDE DEF S, T
    <3>3. IsFiniteSet(T) /\ Cardinality(T) \in Nat
      BY <1>2, <3>1
    <3>4. S \in SUBSET D
      BY <3>1
    <3>5. Cardinality(S) \in Nat /\ Cardinality(S) <= Cardinality(T) /\ Cardinality(S) # Cardinality(T)
      BY <1>2, <3>1, <3>3, <3>4, FS_Subset
    <3>6. Cardinality(T) >= (n + 1) + 1
      BY <3>2, <3>3, <3>5
    <3> QED BY <3>6 DEF T
  <2> QED BY <2>2, <2>3, <2>4
<1>8. Filled = Nat
  <2> HIDE DEF Full
  <2>1. Filled \in SUBSET Nat /\ 0 \in Filled /\ \A n \in Filled : n + 1 \in Filled
    BY <1>6, <1>7
  <2> HIDE DEF Filled
  <2> QED BY <2>1, NatSet
<1>9. up[N + 1] = R
  <2>1. N \in Filled
    BY <1>2, <1>8
  <2>2. up[N] \cap D \in SUBSET D
    OBVIOUS
  <2>3. Cardinality(up[N] \cap D) \in Nat /\ Cardinality(up[N] \cap D) <= N
    BY <1>2, <2>2
  <2> QED BY <1>2, <2>1, <2>3
<1>10. ASSUME NEW S, Upward(idx, c, S) PROVE \A n \in Nat : up[n] \subseteq S
  <2> DEFINE Below == {n \in Nat : up[n] \subseteq S}
  <2>1. \A T : T \subseteq S => Above(T, idx) \subseteq S
    BY <1>10 DEF Upward, Above
  <2>2. 0 \in Below
    BY <1>3, <1>10 DEF Upward
  <2>3. \A n \in Below : n + 1 \in Below
    BY <1>3, <2>1
  <2>4. Below \in SUBSET Nat
    OBVIOUS
  <2>5. Below = Nat
    <3> HIDE DEF Below
    <3> QED BY <2>2, <2>3, <2>4, NatSet
  <2> QED BY <2>5
<1>11. \A n \in Nat : c \in up[n]
  <2> DEFINE With == {n \in Nat : c \in up[n]}
  <2>1. 0 \in With /\ With \in SUBSET Nat /\ \A n \in With : n + 1 \in With
    BY <1>3, <1>5
  <2> HIDE DEF With
  <2>2. With = Nat
    BY <2>1, NatSet
  <2> QED BY <2>2 DEF With
<1>12. Upward(idx, c, R)
  <2>1. Above(R, idx) = R /\ c \in R
    BY <1>2, <1>3, <1>9, <1>11
  <2> HIDE DEF R
  <2> QED BY <2>1 DEF Upward, Above
<1>13. \A S : Upward(idx, c, S) => R \subseteq S
  BY <1>2, <1>10
<1> HIDE DEF R
<1> QED BY <1>1, <1>12, <1>13

\* The supertypes of a class are the least set of that kind over the table.
LEMMA AncestorsLeast ==
  ASSUME NEW table, NEW c
  PROVE  /\ Upward(table, c, Ancestors(table, c))
         /\ \A S : Upward(table, c, S) => Ancestors(table, c) \subseteq S
<1> DEFINE all == {c} \cup UNION {{k} \cup table[k].supers : k \in DOMAIN table}
<1>1. \A S : Reaches(table, c, S) <=> Upward(table, c, S)
  BY DEF Reaches, Upward
<1>2. Ancestors(table, c) = {x \in all : \A S \in SUBSET all : Upward(table, c, S) => x \in S}
  BY <1>1 DEF Ancestors
<1>3. c \in all /\ \A k \in DOMAIN table : table[k].supers \subseteq all
  OBVIOUS
<1> HIDE DEF all
<1>4. \A S : Upward(table, c, S) => Upward(table, c, S \cap all)
  BY <1>3 DEF Upward
<1>5. Upward(table, c, Ancestors(table, c))
  BY <1>2, <1>3 DEF Upward
<1>6. ASSUME NEW S, Upward(table, c, S) PROVE Ancestors(table, c) \subseteq S
  <2>1. S \cap all \in SUBSET all
    OBVIOUS
  <2> QED BY <1>2, <1>4, <1>6, <2>1
<1> QED BY <1>5, <1>6

\* The parts of a model.
LEMMA ModelOf ==
  \A x : /\ BuildModel(x).name = x.name /\ BuildModel(x).supers = x.supers
         /\ BuildModel(x).methods
              = {MethodSig(m) : m \in ToSet(x.methods) \ Named(x, {ClassInit, Init_})}
         /\ BuildModel(x).fields = {FieldSig(f) : f \in ToSet(x.fields)}
         /\ BuildModel(x).constructors = {ArgDescriptor(m) : m \in Named(x, {Init_})}
BY DEF BuildModel

\* What the models are made of: of the user's classes, and of classes of the JDK
\* under the name they have there.
ModelsRead ==
  /\ \A k \in DOMAIN project.java : models[k] = BuildModel(project.java[k])
  /\ \A k \in (Len(project.java) + 1)..Len(models) :
       /\ models[k].name \in DOMAIN JdkTable(project.home)
       /\ models[k] = BuildModel(JdkTable(project.home)[models[k].name])

LEMMA ModelsAreRead == Spec => []ModelsRead
<1>1. Init => ModelsRead
  <2> SUFFICES ASSUME Init PROVE ModelsRead
    OBVIOUS
  <2>1. models = Models(project.java) /\ SidesRead
    BY DEF Init, SidesRead
  <2>2. Len(models) = Len(project.java) /\ Len(project.java) \in Nat
    BY <2>1, ModelFacts, ProjectFacts, SeqFacts
  <2>3. \A k \in (Len(project.java) + 1)..Len(models) : FALSE
    BY <2>2
  <2>4. \A k \in DOMAIN project.java : models[k] = BuildModel(project.java[k])
    BY <2>1 DEF Models
  <2> QED BY <2>3, <2>4 DEF ModelsRead
<1>2. CheckInv /\ ModelsRead /\ [Next]_vars => ModelsRead'
  <2> SUFFICES ASSUME CheckInv, ModelsRead, [Next]_vars PROVE ModelsRead'
    OBVIOUS
  <2>1. ASSUME NEW c \in waiting, LoadJdkClass(c) PROVE ModelsRead'
    <3> DEFINE m == BuildModel(jdk[c])
               J == JdkTable(project.home)
    <3>1. project' = project /\ models' = Append(models, m) /\ c \in DOMAIN jdk /\ phase = "closing"
      BY <2>1 DEF LoadJdkClass
    <3>2. jdk = J /\ J[c].name = c
      BY <3>1, JdkFacts DEF CheckInv, QueueInv
    <3>3. m.name = c
      BY <3>2 DEF BuildModel
    <3>4. m = BuildModel(J[c]) /\ c \in DOMAIN J
      BY <3>1, <3>2
    <3> HIDE DEF m
    <3>5. J' = J
      BY <3>1
    <3> HIDE DEF J
    <3> DEFINE S == ToSet(models) \cup {m}
    <3>6. models \in Seq(S) /\ m \in S
      BY SeqMonotonic DEF CheckInv, QueueInv, IsSeq
    <3> HIDE DEF S
    <3>7. /\ \A k \in 1..Len(models) : models'[k] = models[k]
          /\ Len(models') = Len(models) + 1 /\ models'[Len(models) + 1] = m
      BY <3>1, <3>6, AppendProperties
    <3>8. /\ DOMAIN project.java = 1..Len(project.java) /\ Len(project.java) \in Nat
          /\ Len(models) \in Nat /\ Len(project.java) <= Len(models)
      BY <3>6, LenProperties, ProjectFacts, SeqFacts DEF CheckInv, QueueInv
    <3>9. \A k \in DOMAIN project.java : models'[k] = BuildModel(project.java[k])
      BY <3>7, <3>8 DEF ModelsRead
    <3>10. ASSUME NEW k \in (Len(project.java) + 1)..Len(models')
           PROVE  models'[k].name \in DOMAIN J /\ models'[k] = BuildModel(J[models'[k].name])
      <4>1. CASE k = Len(models) + 1
        BY <3>3, <3>4, <3>7, <4>1
      <4>2. CASE k # Len(models) + 1
        <5>1. k \in (Len(project.java) + 1)..Len(models) /\ k \in 1..Len(models)
          BY <3>7, <3>8, <4>2
        <5> QED BY <3>7, <5>1 DEF ModelsRead, J
      <4> QED BY <4>1, <4>2
    <3> QED BY <3>1, <3>5, <3>9, <3>10 DEF ModelsRead, J
  <2>2. ASSUME UNCHANGED <<project, models>> PROVE ModelsRead'
    BY <2>2 DEF ModelsRead
  <2> QED BY <2>1, <2>2 DEF Next, Resolution, Matching, ResolveJdk, SkipJdk, DropJdkClass, EndJdk,
             IndexExport, MatchNative, LintExport, CheckRef, Visit, Leave, vars, closing
<1> QED BY <1>1, <1>2, CheckInvariance, PTL DEF Spec

\* What holds of the models when they are looked at.
Looked == CheckInv /\ ModelsRead /\ CP!ClosureExact /\ Done /\ ClassesOnce

\* The classes, by the table they are found in.
LEMMA ClassTables ==
  LET U == UserTable(project.java)
      J == JdkTable(project.home)
  IN  /\ DOMAIN U = UserNames /\ DOMAIN Classes = UserNames \cup DOMAIN J
      /\ \A c \in UserNames : Classes[c] = U[c]
      /\ \A c \in DOMAIN J \ UserNames : Classes[c] = J[c]
<1> DEFINE U == UserTable(project.java)
           J == JdkTable(project.home)
<1>1. DOMAIN U = UserNames
  BY DEF UserTable, UserNames
<1>2. Classes = [c \in DOMAIN U \cup DOMAIN J |-> IF c \in DOMAIN U THEN U[c] ELSE J[c]]
  BY DEF Classes, ClassesOf
<1> HIDE DEF U, J
<1>3. /\ DOMAIN Classes = DOMAIN U \cup DOMAIN J
      /\ \A c \in DOMAIN U : Classes[c] = U[c]
      /\ \A c \in DOMAIN J \ DOMAIN U : Classes[c] = J[c]
  BY <1>2
<1> QED BY <1>1, <1>3 DEF U, J

\* The model of a name is that of the class the JVM has under the name.
LEMMA LookedUp ==
  ASSUME Looked
  PROVE  /\ DOMAIN ModelIndex = UserNames \cup Fetched /\ IsFiniteSet(DOMAIN ModelIndex)
         /\ Fetched \subseteq DOMAIN JdkTable(project.home) /\ Fetched \cap UserNames = {}
         /\ \A c \in DOMAIN ModelIndex : c \in DOMAIN Classes /\ ModelIndex[c] = BuildModel(Classes[c])
<1> DEFINE java == project.java
           n == Len(java)
           U == UserTable(java)
           J == JdkTable(project.home)
<1>1. /\ SidesRead /\ ModelsRead /\ phase = "done" /\ Stage = "done"
      /\ \A k, l \in DOMAIN java : java[k].name = java[l].name => k = l
  <2>1. SidesRead /\ ModelsRead /\ phase = "done" /\ Stage = "done"
    BY DEF Looked, Stage, Done, CheckInv
  <2>2. IsSeq(java)
    BY <2>1, ProjectFacts
  <2>3. Cardinality({c.name : c \in ToSet(java)}) = Len(java)
    BY DEF Looked, ClassesOnce
  <2> HIDE DEF java
  <2> QED BY <2>1, <2>2, <2>3, NamesApart
<1>2. /\ DOMAIN java = 1..n /\ n \in Nat /\ n <= Len(models)
      /\ DOMAIN models = 1..Len(models) /\ Len(models) \in Nat
  BY <1>1, ProjectFacts, SeqFacts DEF Looked, CheckInv, QueueInv
<1>3. /\ DOMAIN U = UserNames /\ DOMAIN Classes = UserNames \cup DOMAIN J
      /\ \A c \in UserNames : Classes[c] = U[c]
      /\ \A c \in DOMAIN J \ UserNames : Classes[c] = J[c]
  BY ClassTables
<1>4. Fetched \cap UserNames = {}
  BY <1>1, <1>3, GraphFacts DEF Looked, CP!ClosureExact, Stage, Fetched, UserGraph
<1>5. \A k \in 1..n : java[k].name \in UserNames /\ U[java[k].name] = java[k]
  <2> SUFFICES ASSUME NEW k \in 1..n PROVE java[k].name \in UserNames /\ U[java[k].name] = java[k]
    OBVIOUS
  <2> DEFINE c == java[k].name
             named == {l \in DOMAIN java : java[l].name = c}
  <2>1. c \in UserNames
    BY <1>2 DEF UserNames, ToSet
  <2>2. named = {k}
    BY <1>1, <1>2
  <2>3. U[c] = java[Min(named)]
    BY <1>3, <2>1 DEF UserTable
  <2>4. Min({k}) \in {k}
    BY LeastNat
  <2> HIDE DEF named
  <2> QED BY <2>1, <2>2, <2>3, <2>4
<1>6. \A k \in (n + 1)..Len(models) : models[k].name \in Fetched
  BY DEF Fetched
<1>7. \A k \in 1..n : models[k] = BuildModel(java[k]) /\ models[k].name = java[k].name
  BY <1>1, <1>2, ModelOf DEF ModelsRead
<1>8. \A k \in (n + 1)..Len(models) :
        models[k].name \in DOMAIN J /\ models[k] = BuildModel(J[models[k].name])
  BY <1>1 DEF ModelsRead
<1> HIDE DEF java, n, U, J
<1>9. \A k \in DOMAIN models : k \in 1..n \/ k \in (n + 1)..Len(models)
  BY <1>2
<1>10. \A k \in DOMAIN models :
         models[k].name \in DOMAIN Classes /\ models[k] = BuildModel(Classes[models[k].name])
  <2> SUFFICES ASSUME NEW k \in DOMAIN models
               PROVE  /\ models[k].name \in DOMAIN Classes
                      /\ models[k] = BuildModel(Classes[models[k].name])
    OBVIOUS
  <2>1. CASE k \in 1..n
    BY <1>3, <1>5, <1>7, <2>1
  <2>2. CASE k \in (n + 1)..Len(models)
    BY <1>3, <1>4, <1>6, <1>8, <2>2
  <2> QED BY <1>9, <2>1, <2>2
<1>11. DOMAIN ModelIndex = ModelNames /\ IsFiniteSet(ModelNames)
  <2>1. IsFiniteSet(1..Len(models))
    BY <1>2, FS_Interval
  <2> DEFINE Name(k) == models[k].name
             f == [k \in DOMAIN models |-> Name(k)]
  <2>2. ModelNames = {Name(k) : k \in DOMAIN models}
    BY DEF ModelNames
  <2>3. f \in Surjection(DOMAIN models, ModelNames)
    <3> HIDE DEF Name
    <3>1. f \in [DOMAIN models -> ModelNames]
      BY <2>2
    <3>2. \A x \in ModelNames : \E k \in DOMAIN models : f[k] = x
      BY <2>2
    <3> HIDE DEF f
    <3> QED BY <3>1, <3>2 DEF Surjection
  <2> HIDE DEF f
  <2>4. IsFiniteSet(ModelNames)
    BY <1>2, <2>1, <2>3, FS_Surjection
  <2> QED BY <2>4 DEF ModelIndex
<1>12. ModelNames = UserNames \cup Fetched
  <2>1. \A x : x \in UserNames <=> \E l \in 1..n : x = models[l].name
    BY <1>2, <1>7 DEF UserNames, ToSet, java
  <2>2. \A x : x \in Fetched <=> \E l \in (n + 1)..Len(models) : x = models[l].name
    BY DEF Fetched, n, java
  <2>3. \A x : x \in ModelNames <=> \E l \in DOMAIN models : x = models[l].name
    BY DEF ModelNames
  <2>4. \A l : l \in 1..n \/ l \in (n + 1)..Len(models) => l \in DOMAIN models
    BY <1>2
  <2> QED BY <1>9, <2>1, <2>2, <2>3, <2>4
<1>13. \A x \in Fetched : x \in DOMAIN J
  BY <1>8 DEF Fetched, n, java
<1>14. ASSUME NEW c \in ModelNames PROVE c \in DOMAIN Classes /\ ModelIndex[c] = BuildModel(Classes[c])
  <2> DEFINE last(k) == models[k].name = c /\ \A l \in DOMAIN models : models[l].name = c => l <= k
             k == CHOOSE l \in DOMAIN models : last(l)
             T == {l \in DOMAIN models : models[l].name = c}
  <2>1. \E l \in DOMAIN models : last(l)
    <3>1. T \in SUBSET Nat /\ T # {} /\ \A l \in T : l <= Len(models)
      BY <1>2 DEF ModelNames
    <3>2. \E l \in T : \A m \in T : m <= l
      <4> HIDE DEF T
      <4> DEFINE D == {Len(models) - l : l \in T}
      <4>1. D \in SUBSET Nat /\ D # {}
        <5>1. \A l \in T : Len(models) - l \in Nat
          BY <1>2, <3>1
        <5> QED BY <3>1, <5>1
      <4>2. PICK d \in D : \A x \in D : d <= x
        <5> HIDE DEF D
        <5> QED BY <4>1, LeastNat
      <4>3. PICK l \in T : d = Len(models) - l
        OBVIOUS
      <4>4. \A m \in T : Len(models) - l <= Len(models) - m
        BY <4>2, <4>3
      <4> QED BY <1>2, <3>1, <4>4
    <3> QED BY <3>2
  <2>2. k \in DOMAIN models /\ models[k].name = c
    BY <2>1
  <2>3. ModelIndex[c] = models[k]
    BY DEF ModelIndex
  <2> HIDE DEF k
  <2> QED BY <1>10, <2>2, <2>3
<1> QED BY <1>4, <1>11, <1>12, <1>13, <1>14 DEF J

\* A reference is looked for in classes that are above its own, and where they are
\* Resolvable in all of them.
LEMMA LookedThrough ==
  ASSUME Looked, NEW c
  PROVE  /\ \A m \in Hierarchy(c, ModelIndex) :
              \E a \in Ancestors(Classes, c) \cap DOMAIN Classes : m = BuildModel(Classes[a])
         /\ Resolvable(c) /\ c \in {refs[k].class : k \in DOMAIN refs} =>
              \A a \in Ancestors(Classes, c) \cap DOMAIN Classes :
                BuildModel(Classes[a]) \in Hierarchy(c, ModelIndex)
<1> DEFINE idx == ModelIndex
           A == Ancestors(Classes, c)
           J == DOMAIN JdkTable(project.home)
<1>1. /\ DOMAIN idx = UserNames \cup Fetched /\ IsFiniteSet(DOMAIN idx)
      /\ Fetched \subseteq J /\ Fetched \cap UserNames = {}
      /\ \A k \in DOMAIN idx : k \in DOMAIN Classes /\ idx[k] = BuildModel(Classes[k])
  BY LookedUp
<1> HIDE DEF idx
<1>2. PICK R : /\ Hierarchy(c, idx) = {idx[k] : k \in R \cap DOMAIN idx}
               /\ Upward(idx, c, R) /\ \A S : Upward(idx, c, S) => R \subseteq S
  BY <1>1, HierarchyLeast
<1>3. Upward(Classes, c, A) /\ \A S : Upward(Classes, c, S) => A \subseteq S
  BY AncestorsLeast
<1> HIDE DEF A
<1>4. \A k \in DOMAIN idx : idx[k].supers = Classes[k].supers
  BY <1>1, ModelOf
<1>5. Upward(idx, c, A)
  BY <1>1, <1>3, <1>4 DEF Upward
<1>6. R \subseteq A
  BY <1>2, <1>5
<1>7. \A m \in Hierarchy(c, idx) : \E a \in A \cap DOMAIN Classes : m = BuildModel(Classes[a])
  BY <1>1, <1>2, <1>6
<1>8. ASSUME Resolvable(c), c \in {refs[k].class : k \in DOMAIN refs}
      PROVE  \A a \in A \cap DOMAIN Classes : BuildModel(Classes[a]) \in Hierarchy(c, idx)
  <2>1. /\ SidesRead /\ Stage = "done"
        /\ {refs[k].class : k \in DOMAIN refs} = BoundClasses(project.files)
    BY SideFacts DEF Looked, CheckInv, Stage, Done
  <2>2. /\ DOMAIN UserGraph = UserNames /\ DOMAIN JdkGraph = J
        /\ \A k \in UserNames : UserGraph[k] = Classes[k].supers
        /\ \A k \in J \ UserNames : JdkGraph[k] = Classes[k].supers
        /\ DOMAIN Classes = UserNames \cup J
    BY <2>1, GraphFacts, ClassTables
  <2>3. /\ HomeSources # <<>> => CP!Closed(Fetched)
        /\ Fetched # {} => HomeSources # <<>>
    BY <2>1 DEF Looked, CP!ClosureExact, Stage, Fetched
  <2>4. \A b \in BoundClasses(project.files) :
          CP!SeedsOf(b) \ UserNames \subseteq CP!Seeds
    BY <2>2 DEF CP!Seeds, BoundClasses, UserGraph
  <2>5. \A b : CP!SeedsOf(b) = IF b \in UserNames THEN Classes[b].supers ELSE {b}
    BY <2>2 DEF CP!SeedsOf, UserGraph
  <2>6. ASSUME HomeSources # <<>> PROVE CP!Seeds \cap J \subseteq Fetched
    BY <2>2, <2>3, <2>6 DEF CP!Closed, JdkGraph
  <2>7. ASSUME NEW k \in Fetched PROVE (Classes[k].supers \ UserNames) \cap J \subseteq Fetched
    <3>1. CP!Closed(Fetched) /\ k \in J \ UserNames
      BY <1>1, <2>3, <2>7
    <3>2. (JdkGraph[k] \ DOMAIN UserGraph) \cap DOMAIN JdkGraph \subseteq Fetched
      BY <2>2, <2>7, <3>1 DEF CP!Closed, JdkGraph, UserGraph
    <3> QED BY <2>2, <3>1, <3>2
  <2>8. /\ \A a \in A \ UserNames : HomeSources # <<>>
        /\ \A a \in A \cap UserNames :
             a \in BoundClasses(project.files) \/ Classes[a].supers \subseteq UserNames
    BY <1>8, <2>1 DEF Resolvable, A
  <2> DEFINE S == {x \in R : x \in J \ UserNames => x \in Fetched}
  <2>9. c \in S
    <3>1. c \in R /\ c \in BoundClasses(project.files)
      BY <1>2, <1>8, <2>1 DEF Upward
    <3>2. ASSUME c \in J \ UserNames PROVE c \in Fetched
      <4>1. HomeSources # <<>>
        BY <1>6, <2>8, <3>1, <3>2
      <4>2. c \in CP!Seeds
        BY <2>4, <2>5, <3>1, <3>2
      <4> QED BY <2>6, <3>2, <4>1, <4>2
    <3> QED BY <3>1, <3>2
  <2>10. ASSUME NEW k \in S \cap DOMAIN idx, NEW x \in idx[k].supers PROVE x \in S
    <3>1. x \in R /\ x \in Classes[k].supers
      BY <1>2, <1>4 DEF Upward
    <3>2. ASSUME x \in J \ UserNames PROVE x \in Fetched
      <4>1. HomeSources # <<>>
        BY <1>6, <2>8, <3>1, <3>2
      <4>2. CASE k \in Fetched
        BY <2>7, <3>1, <3>2, <4>2
      <4>3. CASE k \in UserNames
        <5>1. k \in BoundClasses(project.files)
          BY <1>6, <2>8, <3>1, <3>2, <4>3
        <5>2. x \in CP!Seeds
          BY <2>4, <2>5, <3>1, <3>2, <4>3, <5>1
        <5> QED BY <2>6, <3>2, <4>1, <5>2
      <4> QED BY <1>1, <4>2, <4>3
    <3> QED BY <3>1, <3>2
  <2>11. Upward(idx, c, S)
    <3> HIDE DEF S
    <3> QED BY <2>9, <2>10 DEF Upward
  <2>12. R \subseteq S
    <3> HIDE DEF S
    <3> QED BY <1>2, <2>11
  <2>13. R \cap DOMAIN Classes \subseteq DOMAIN idx
    BY <1>1, <2>2, <2>12
  <2>14. Upward(Classes, c, R)
    BY <1>2, <1>4, <2>13 DEF Upward
  <2>15. A \subseteq R
    BY <1>3, <2>14
  <2> QED BY <1>1, <1>2, <2>13, <2>15
<1> QED BY <1>7, <1>8 DEF idx, A

-----------------------------------------------------------------------------
(* The members that are found.                                             *)

\* What the front end makes of a reference, in terms of what was written.
ReadAs(r, reg) ==
  /\ r.kind # "Constructor" => r.name = MethodName(r.origin) /\ r.static = r.origin.static
  /\ r.kind # "Field" => r.params = LowerTypes(r.origin.params, reg)
  /\ r.kind = "Method" => r.ret = LowerRet(r.origin.ret, reg)
  /\ r.kind = "Field" => r.field = LowerType(r.origin.type, reg)

AllReadAs(s, reg) == IsSeq(s) /\ \A r \in ToSet(s) : ReadAs(r, reg)

\* One entry of a binding.
LEMMA EntryRead ==
  ASSUME NEW e, NEW class, NEW reg
  PROVE  /\ AllReadAs(MethodRef(e, class, reg), reg) /\ AllReadAs(CtorRef(e, class, reg), reg)
         /\ AllReadAs(FieldRef(e, class, reg), reg)
<1>1. AllReadAs(<<>>, reg) /\ \A r : ReadAs(r, reg) => AllReadAs(<<r>>, reg)
  BY ShortSeqs DEF AllReadAs
<1>2. \A m, c, f :
        ReadAs(JavaRef("Method", c, MethodName(m), m.static, LowerTypes(m.params, reg),
                       LowerRet(m.ret, reg), f, m), reg)
  BY DEF ReadAs, JavaRef
<1>3. \A m, c, n, st, ret, f :
        ReadAs(JavaRef("Constructor", c, n, st, LowerTypes(m.params, reg), ret, f, m), reg)
  BY DEF ReadAs, JavaRef
<1>4. \A m, c, ps, ret :
        ReadAs(JavaRef("Field", c, MethodName(m), m.static, ps, ret, LowerType(m.type, reg), m), reg)
  BY DEF ReadAs, JavaRef
<1>5. AllReadAs(MethodRef(e, class, reg), reg)
  BY <1>1, <1>2 DEF MethodRef
<1>6. AllReadAs(CtorRef(e, class, reg), reg)
  BY <1>1, <1>3 DEF CtorRef
<1>7. AllReadAs(FieldRef(e, class, reg), reg)
  BY <1>1, <1>4 DEF FieldRef
<1> QED BY <1>5, <1>6, <1>7

\* Entries one after another.
LEMMA FlattenRead ==
  ASSUME NEW es, IsSeq(es), NEW ss, DOMAIN ss = DOMAIN es, ss = [k \in DOMAIN es |-> ss[k]],
         NEW reg, \A k \in DOMAIN es : AllReadAs(ss[k], reg)
  PROVE  AllReadAs(FlattenSeq(ss), reg)
<1>1. Len(es) \in Nat /\ DOMAIN es = 1..Len(es)
  BY SeqFacts
<1>2. ss \in [1..Len(es) -> {ss[k] : k \in DOMAIN es}]
  BY <1>1
<1>3. IsSeq(ss) /\ \A k \in DOMAIN ss : IsSeq(ss[k])
  BY <1>1, <1>2, FunIsSeq DEF AllReadAs
<1> QED BY <1>3, FlattenIsSeq DEF AllReadAs

\* The references of a crate.
LEMMA ReferencesRead ==
  ASSUME NEW files, Crate(files)
  PROVE  AllReadAs(References(files), Registry(files))
<1> DEFINE reg == Registry(files)
           binds == Items(files, "bind")
           rs == [k \in DOMAIN binds |-> BoundRefs(binds[k], reg)]
<1>1. IsSeq(binds) /\ \A x \in ToSet(binds) : IsItem(x) /\ x.item = "bind"
  BY ItemsType
<1>2. References(files) = FlattenSeq(rs)
  BY DEF References
<1> HIDE DEF reg, binds
<1>3. ASSUME NEW k \in DOMAIN binds PROVE AllReadAs(BoundRefs(binds[k], reg), reg)
  <2> DEFINE item == binds[k]
             c  == ClassDottedToInternal(item.class)
             ms == [l \in DOMAIN item.methods |-> MethodRef(item.methods[l], c, reg)]
             cs == [l \in DOMAIN item.constructors |-> CtorRef(item.constructors[l], c, reg)]
             fs == [l \in DOMAIN item.fields |-> FieldRef(item.fields[l], c, reg)]
  <2>1. binds[k] \in ToSet(binds)
    BY <1>1, SeqFacts
  <2>2. IsSeq(item.methods) /\ IsSeq(item.constructors) /\ IsSeq(item.fields)
    BY <1>1, <2>1 DEF IsItem
  <2>3. BoundRefs(item, reg) = FlattenSeq(ms) \o FlattenSeq(cs) \o FlattenSeq(fs)
    BY DEF BoundRefs
  <2> HIDE DEF c, item
  <2>4. AllReadAs(FlattenSeq(ms), reg)
    <3>1. /\ DOMAIN ms = DOMAIN item.methods /\ ms = [l \in DOMAIN item.methods |-> ms[l]]
          /\ \A l \in DOMAIN item.methods : AllReadAs(ms[l], reg)
      BY EntryRead
    <3> HIDE DEF ms
    <3> QED BY <2>2, <3>1, FlattenRead
  <2>5. AllReadAs(FlattenSeq(cs), reg)
    <3>1. /\ DOMAIN cs = DOMAIN item.constructors /\ cs = [l \in DOMAIN item.constructors |-> cs[l]]
          /\ \A l \in DOMAIN item.constructors : AllReadAs(cs[l], reg)
      BY EntryRead
    <3> HIDE DEF cs
    <3> QED BY <2>2, <3>1, FlattenRead
  <2>6. AllReadAs(FlattenSeq(fs), reg)
    <3>1. /\ DOMAIN fs = DOMAIN item.fields /\ fs = [l \in DOMAIN item.fields |-> fs[l]]
          /\ \A l \in DOMAIN item.fields : AllReadAs(fs[l], reg)
      BY EntryRead
    <3> HIDE DEF fs
    <3> QED BY <2>2, <3>1, FlattenRead
  <2> HIDE DEF ms, cs, fs
  <2>7. AllReadAs(FlattenSeq(ms) \o FlattenSeq(cs), reg)
    BY <2>4, <2>5, JoinIsSeq DEF AllReadAs
  <2>8. AllReadAs(FlattenSeq(ms) \o FlattenSeq(cs) \o FlattenSeq(fs), reg)
    BY <2>6, <2>7, JoinIsSeq DEF AllReadAs
  <2> QED BY <2>3, <2>8 DEF item
<1>4. DOMAIN rs = DOMAIN binds /\ rs = [k \in DOMAIN binds |-> rs[k]]
  OBVIOUS
<1>5. \A k \in DOMAIN binds : AllReadAs(rs[k], reg)
  BY <1>3
<1> HIDE DEF rs
<1>6. AllReadAs(FlattenSeq(rs), reg)
  BY <1>1, <1>4, <1>5, FlattenRead
<1> QED BY <1>2, <1>6 DEF reg

\* The name of a reference is that the JVM is asked for, and so are its types.
NamedAs(r) == RefName(r) = r.name /\ r.name \notin {ClassInit, Init_} /\ r.static = r.origin.static
TakesAs(r) ==
  /\ Encodable(r.params) <=> ToSet(r.origin.params) \subseteq DOMAIN Wire
  /\ Encodable(r.params) => ArgsDescriptor(r.params) = Encoded(r.origin.params)
ReturnsAs(r) ==
  /\ ExpectedRet(r.ret) # <<>> <=> r.origin.ret \in DOMAIN Wire \cup NoType
  /\ ExpectedRet(r.ret) # <<>> => ExpectedRet(r.ret) = WireReturn(r.origin.ret)
HoldsAs(r) ==
  /\ FieldDescriptor(r.field) # <<>> <=> r.origin.type \in DOMAIN Wire
  /\ FieldDescriptor(r.field) # <<>> => FieldDescriptor(r.field) = Wire[r.origin.type]

LEMMA AskedFor ==
  ASSUME SidesRead, NEW k \in DOMAIN refs
  PROVE  /\ refs[k].kind # "Constructor" => NamedAs(refs[k])
         /\ refs[k].kind # "Field" => TakesAs(refs[k])
         /\ refs[k].kind = "Method" => ReturnsAs(refs[k])
         /\ refs[k].kind = "Field" => HoldsAs(refs[k])
<1> DEFINE r == refs[k]
           reg == Registry(project.files)
           Desc(t) == FieldDescriptor(LowerType(t, reg))
<1>1. PICK p \in Plans : project = ProjectOf(p)
  BY DEF SidesRead
<1>2. refs = References(project.files) /\ Crate(project.files)
  BY ProjectFacts DEF SidesRead
<1>3. r \in ToSet(References(project.files)) /\ ReadAs(r, reg)
  <2>1. AllReadAs(refs, reg)
    BY <1>2, ReferencesRead
  <2>2. r \in ToSet(refs)
    BY DEF ToSet
  <2> QED BY <1>2, <2>1, <2>2 DEF AllReadAs
<1>4. /\ \A t \in DOMAIN Wire : Wire[t] # <<>>
      /\ r.kind # "Constructor" =>
           /\ MethodName(r.origin) \notin {ClassInit, Init_}
           /\ r.origin.name = None =>
                r.origin.fn # None /\ JavaName[r.origin.fn] = SnakeToLowerCamel(r.origin.fn)
      /\ \A t \in TypesOf(r) : Desc(t) = IF t \in DOMAIN Wire THEN Wire[t] ELSE <<>>
      /\ r.kind = "Method" =>
           ExpectedRet(LowerRet(r.origin.ret, reg))
             = IF r.origin.ret \in DOMAIN Wire \cup NoType THEN WireReturn(r.origin.ret) ELSE <<>>
  BY <1>1, <1>3, BindingAssumption
<1>5. r.kind \in RefKinds
  BY SideFacts
<1> HIDE DEF r, reg
<1>6. r.kind # "Constructor" => NamedAs(r)
  BY <1>3, <1>4 DEF ReadAs, NamedAs, RefName, MethodName
<1>7. ASSUME r.kind # "Field" PROVE TakesAs(r)
  <2> DEFINE ts == r.origin.params
  <2>1. r.params = [j \in DOMAIN ts |-> LowerType(ts[j], reg)]
    BY <1>3, <1>7 DEF ReadAs, LowerTypes
  <2>2. \A j \in DOMAIN ts : Desc(ts[j]) = IF ts[j] \in DOMAIN Wire THEN Wire[ts[j]] ELSE <<>>
    BY <1>4, <1>7 DEF TypesOf, ToSet
  <2> HIDE DEF ts
  <2>3. /\ DOMAIN r.params = DOMAIN ts
        /\ \A j \in DOMAIN ts : FieldDescriptor(r.params[j]) = Desc(ts[j])
    BY <2>1
  <2> HIDE DEF Desc
  <2>4. Encodable(r.params) <=> \A j \in DOMAIN ts : ts[j] \in DOMAIN Wire
    BY <1>4, <2>2, <2>3 DEF Encodable
  <2>5. ASSUME Encodable(r.params) PROVE ArgsDescriptor(r.params) = Encoded(ts)
    <3>1. \A j \in DOMAIN ts : FieldDescriptor(r.params[j]) = Wire[ts[j]]
      BY <2>2, <2>3, <2>4, <2>5
    <3>2. [j \in DOMAIN r.params |-> FieldDescriptor(r.params[j])] = [j \in DOMAIN ts |-> Wire[ts[j]]]
      BY <2>3, <3>1
    <3> QED BY <3>2 DEF ArgsDescriptor, Encoded
  <2>6. ToSet(ts) \subseteq DOMAIN Wire <=> \A j \in DOMAIN ts : ts[j] \in DOMAIN Wire
    BY DEF ToSet
  <2> QED BY <2>4, <2>5, <2>6 DEF TakesAs, ts
<1>8. ASSUME r.kind = "Method" PROVE ReturnsAs(r)
  <2>1. r.origin.ret \in DOMAIN Wire \cup NoType => WireReturn(r.origin.ret) # <<>>
    BY <1>4 DEF WireReturn, NoType
  <2>2. r.ret = LowerRet(r.origin.ret, reg)
    BY <1>3, <1>8 DEF ReadAs
  <2> QED BY <1>4, <1>8, <2>1, <2>2 DEF ReturnsAs
<1>9. ASSUME r.kind = "Field" PROVE HoldsAs(r)
  <2>1. r.field = LowerType(r.origin.type, reg) /\ r.origin.type \in TypesOf(r)
    BY <1>3, <1>9 DEF ReadAs, TypesOf
  <2> QED BY <1>4, <2>1 DEF HoldsAs
<1> QED BY <1>6, <1>7, <1>8, <1>9 DEF r


\* The classes the JVM has are classes.
LEMMA ClassesAre ==
  ASSUME SidesRead, NEW c \in DOMAIN Classes
  PROVE  IsClass(Classes[c])
<1> DEFINE java == project.java
           J == JdkTable(project.home)
<1>1. CASE c \in UserNames
  <2> DEFINE T == {k \in DOMAIN java : java[k].name = c}
  <2>1. Classes[c] = java[Min(T)]
    BY <1>1, ClassTables DEF UserTable, UserNames
  <2>2. IsSeq(java) /\ \A x \in ToSet(java) : IsClass(x)
    BY ProjectFacts
  <2>3. T # {} /\ T \in SUBSET Nat /\ T \subseteq DOMAIN java
    <3>1. DOMAIN java \subseteq Nat
      BY <2>2, SeqFacts
    <3>2. \E k \in DOMAIN java : java[k].name = c
      BY <1>1 DEF UserNames, ToSet
    <3> QED BY <3>1, <3>2
  <2>4. Min(T) \in T
    <3> HIDE DEF T
    <3> QED BY <2>3, LeastNat
  <2>5. java[Min(T)] \in ToSet(java)
    <3> HIDE DEF T
    <3> QED BY <2>2, <2>3, <2>4, SeqFacts
  <2> QED BY <2>1, <2>2, <2>5
<1>2. CASE c \notin UserNames
  <2>1. c \in DOMAIN J /\ Classes[c] = J[c]
    BY <1>2, ClassTables
  <2>2. project.home # NoHome
    BY <2>1 DEF JdkTable
  <2>3. IsTable(J)
    BY <2>2, ProjectFacts, ClassBytesExact
  <2> QED BY <2>1, <2>3 DEF IsTable
<1> QED BY <1>1, <1>2

\* A method that is looked at is one of a class above, and where the classes are
\* Resolvable each of them is looked at.
LEMMA MethodsSeen ==
  ASSUME Looked, NEW k \in DOMAIN refs, NamedAs(refs[k])
  PROVE  LET r == refs[k]
             A == Ancestors(Classes, r.class) \cap DOMAIN Classes
             seenM == UNION {c.methods : c \in Hierarchy(r.class, ModelIndex)}
         IN  /\ \A m \in seenM : \E a \in A : \E x \in ToSet(Classes[a].methods) : m = MethodSig(x)
             /\ Resolvable(r.class) =>
                  \A a \in A : \A x \in ToSet(Classes[a].methods) :
                    x.name = r.name => MethodSig(x) \in seenM
<1> DEFINE r == refs[k]
           A == Ancestors(Classes, r.class) \cap DOMAIN Classes
           H == Hierarchy(r.class, ModelIndex)
           seenM == UNION {c.methods : c \in H}
<1>1. /\ \A m \in H : \E a \in A : m = BuildModel(Classes[a])
      /\ Resolvable(r.class) => \A a \in A : BuildModel(Classes[a]) \in H
  BY LookedThrough
<1>2. \A c : BuildModel(c).methods
               = {MethodSig(m) : m \in ToSet(c.methods) \ Named(c, {ClassInit, Init_})}
  BY ModelOf
<1>3. \A c : \A x \in ToSet(c.methods) : x.name = r.name => x \notin Named(c, {ClassInit, Init_})
  BY DEF NamedAs, Named
<1> HIDE DEF H, A, r
<1>4. \A m \in seenM : \E a \in A : \E x \in ToSet(Classes[a].methods) : m = MethodSig(x)
  BY <1>1, <1>2
<1>5. ASSUME Resolvable(r.class), NEW a \in A, NEW x \in ToSet(Classes[a].methods), x.name = r.name
      PROVE  MethodSig(x) \in seenM
  <2>1. BuildModel(Classes[a]) \in H
    BY <1>1, <1>5
  <2>2. MethodSig(x) \in BuildModel(Classes[a]).methods
    BY <1>2, <1>3, <1>5
  <2> QED BY <2>1, <2>2
<1> QED BY <1>4, <1>5 DEF r, A, H

\* Fields likewise.
LEMMA FieldsSeen ==
  ASSUME Looked, NEW k \in DOMAIN refs
  PROVE  LET r == refs[k]
             A == Ancestors(Classes, r.class) \cap DOMAIN Classes
             seenF == UNION {c.fields : c \in Hierarchy(r.class, ModelIndex)}
         IN  /\ \A m \in seenF : \E a \in A : \E x \in ToSet(Classes[a].fields) : m = FieldSig(x)
             /\ Resolvable(r.class) =>
                  \A a \in A : \A x \in ToSet(Classes[a].fields) : FieldSig(x) \in seenF
<1> DEFINE r == refs[k]
           A == Ancestors(Classes, r.class) \cap DOMAIN Classes
           H == Hierarchy(r.class, ModelIndex)
<1>1. /\ \A m \in H : \E a \in A : m = BuildModel(Classes[a])
      /\ Resolvable(r.class) => \A a \in A : BuildModel(Classes[a]) \in H
  BY LookedThrough
<1>2. \A c : BuildModel(c).fields = {FieldSig(f) : f \in ToSet(c.fields)}
  BY ModelOf
<1> HIDE DEF H, A, r
<1>3. \A m \in UNION {c.fields : c \in H} : \E a \in A : \E x \in ToSet(Classes[a].fields) : m = FieldSig(x)
  BY <1>1, <1>2
<1>4. ASSUME Resolvable(r.class), NEW a \in A, NEW x \in ToSet(Classes[a].fields)
      PROVE  FieldSig(x) \in UNION {c.fields : c \in H}
  <2>1. BuildModel(Classes[a]) \in H
    BY <1>1, <1>4
  <2>2. FieldSig(x) \in BuildModel(Classes[a]).fields
    BY <1>2, <1>4
  <2> QED BY <2>1, <2>2
<1> QED BY <1>3, <1>4 DEF r, A, H

\* The parts of a member.
LEMMA SigOf ==
  \A x : /\ MethodSig(x).name = x.name /\ MethodSig(x).static = x.static
         /\ MethodSig(x).args = ArgDescriptor(x) /\ MethodSig(x).ret = x.ret.desc
         /\ FieldSig(x).name = x.name /\ FieldSig(x).static = x.static
         /\ FieldSig(x).desc = x.type.desc /\ FieldSig(x).ann = FieldPointerAnnotation(x.type)
BY DEF MethodSig, FieldSig

\* What is said of a method that is looked for.
LEMMA MethodSaid ==
  ASSUME Looked, NEW k \in DOMAIN refs, refs[k].kind = "Method"
  PROVE  LET r == refs[k]
             said == MethodCodes(r, Hierarchy(r.class, ModelIndex))
         IN  /\ Describable(r) /\ said = {} => Exists(r, Classes)
             /\ Resolvable(r.class) /\ said # {} => ~Exists(r, Classes)
<1> DEFINE r == refs[k]
           A == Ancestors(Classes, r.class) \cap DOMAIN Classes
           H == Hierarchy(r.class, ModelIndex)
           methods == UNION {c.methods : c \in H}
           named == {m \in methods : m.name = r.name /\ m.static = r.static}
           typed == Encodable(r.params) /\ ExpectedRet(r.ret) # <<>>
           asked(x) == /\ x.name = r.name /\ x.static = r.static
                       /\ ArgDescriptor(x) = Encoded(r.origin.params)
                       /\ x.ret.desc = WireReturn(r.origin.ret)
<1>1. NamedAs(r) /\ TakesAs(r) /\ ReturnsAs(r)
  BY AskedFor DEF Looked, CheckInv
<1>2. Exists(r, Classes) <=> \E a \in A : \E x \in ToSet(Classes[a].methods) : asked(x)
  BY <1>1 DEF Exists, HasMethod, NamedAs
<1>3. /\ \A m \in methods : \E a \in A : \E x \in ToSet(Classes[a].methods) : m = MethodSig(x)
      /\ Resolvable(r.class) =>
           \A a \in A : \A x \in ToSet(Classes[a].methods) : x.name = r.name => MethodSig(x) \in methods
  BY <1>1, MethodsSeen
<1>4. MethodCodes(r, H) = IF named = {} THEN {"E040"}
                          ELSE IF typed /\ ~\E m \in named : SameDescriptor(m, r) THEN {"E041"} ELSE {}
  BY DEF MethodCodes
<1>5. typed => /\ ArgsDescriptor(r.params) = Encoded(r.origin.params)
               /\ ExpectedRet(r.ret) = WireReturn(r.origin.ret)
  BY <1>1 DEF TakesAs, ReturnsAs
<1>6. Describable(r) => typed
  BY <1>1 DEF Describable, TakesAs, ReturnsAs, NoType
<1> HIDE DEF H, A, r, methods, typed
<1>7. ASSUME Describable(r), MethodCodes(r, H) = {} PROVE Exists(r, Classes)
  <2>1. PICK m \in named : SameDescriptor(m, r)
    BY <1>4, <1>6, <1>7
  <2>2. PICK a \in A : \E x \in ToSet(Classes[a].methods) : m = MethodSig(x)
    BY <1>3
  <2>3. PICK x \in ToSet(Classes[a].methods) : m = MethodSig(x)
    BY <2>2
  <2>4. asked(x)
    BY <1>5, <1>6, <1>7, <2>1, <2>3, SigOf DEF SameDescriptor
  <2> QED BY <1>2, <2>4
<1>8. ASSUME Resolvable(r.class), Exists(r, Classes) PROVE MethodCodes(r, H) = {}
  <2>1. PICK a \in A : \E x \in ToSet(Classes[a].methods) : asked(x)
    BY <1>2, <1>8
  <2>2. PICK x \in ToSet(Classes[a].methods) : asked(x)
    BY <2>1
  <2>3. MethodSig(x) \in named
    BY <1>3, <1>8, <2>2, SigOf
  <2>4. typed => SameDescriptor(MethodSig(x), r)
    BY <1>5, <2>2, SigOf DEF SameDescriptor
  <2> QED BY <1>4, <2>3, <2>4
<1> QED BY <1>7, <1>8 DEF r, H

\* What is said of a constructor, of a class there is a model of.
LEMMA ConstructorSaid ==
  ASSUME Looked, NEW k \in DOMAIN refs, refs[k].kind = "Constructor", refs[k].class \in DOMAIN ModelIndex
  PROVE  LET r == refs[k]
             said == ConstructorCodes(r, ModelIndex[r.class])
         IN  /\ Describable(r) /\ said = {} => Exists(r, Classes)
             /\ said # {} => ~Exists(r, Classes)
<1> DEFINE r == refs[k]
           c == Classes[r.class]
           asked(x) == /\ x.name = Init_ /\ ~x.static /\ x.ret.desc = <<"V">>
                       /\ ArgDescriptor(x) = Encoded(r.origin.params)
<1>1. TakesAs(r)
  BY AskedFor DEF Looked, CheckInv
<1>2. r.class \in DOMAIN Classes /\ ModelIndex[r.class] = BuildModel(c)
  BY LookedUp
<1>3. IsClass(c)
  BY <1>2, ClassesAre DEF Looked, CheckInv
<1>4. Exists(r, Classes) <=> \E x \in ToSet(c.methods) : asked(x)
  BY <1>2 DEF Exists, HasMethod
<1>5. ModelIndex[r.class].constructors = {ArgDescriptor(m) : m \in Named(c, {Init_})}
  BY <1>2, ModelOf
<1> HIDE DEF c, r
<1>6. \A m : m \in Named(c, {Init_}) <=> m \in ToSet(c.methods) /\ m.name = Init_
  BY DEF Named
<1>7. \A m \in Named(c, {Init_}) : ~m.static /\ m.ret.desc = <<"V">>
  BY <1>3 DEF IsClass
<1>8. Exists(r, Classes) <=> Encoded(r.origin.params) \in ModelIndex[r.class].constructors
  BY <1>4, <1>5, <1>6, <1>7
<1>9. Describable(r) => Encodable(r.params)
  BY <1>1 DEF Describable, TakesAs, r
<1>10. ConstructorCodes(r, ModelIndex[r.class])
         = IF Encodable(r.params) /\ ArgsDescriptor(r.params) \notin ModelIndex[r.class].constructors
           THEN {"E044"} ELSE {}
  BY DEF ConstructorCodes
<1>11. Encodable(r.params) => ArgsDescriptor(r.params) = Encoded(r.origin.params)
  BY <1>1 DEF TakesAs
<1> QED BY <1>8, <1>9, <1>10, <1>11 DEF r

\* The fields of the name and the descriptor that are looked at, and those the JVM
\* would find.
LEMMA FieldsFound ==
  ASSUME Looked, NEW k \in DOMAIN refs, refs[k].kind = "Field",
         FieldDescriptor(refs[k].field) # <<>>
  PROVE  LET r == refs[k]
             found == {f \in UNION {c.fields : c \in Hierarchy(r.class, ModelIndex)} :
                         f.name = r.name /\ f.static = r.static /\ f.desc = FieldDescriptor(r.field)}
             there == {f \in FieldsFor(r, Classes) : f.type.desc = Wire[r.origin.type]}
         IN  /\ found \subseteq {FieldSig(f) : f \in there}
             /\ Resolvable(r.class) => found = {FieldSig(f) : f \in there}
<1> DEFINE r == refs[k]
           A == Ancestors(Classes, r.class) \cap DOMAIN Classes
           H == Hierarchy(r.class, ModelIndex)
           fields == UNION {c.fields : c \in H}
           desc == FieldDescriptor(r.field)
           found == {f \in fields : f.name = r.name /\ f.static = r.static /\ f.desc = desc}
           there == {f \in FieldsFor(r, Classes) : f.type.desc = Wire[r.origin.type]}
<1>1. NamedAs(r) /\ HoldsAs(r)
  BY AskedFor DEF Looked, CheckInv
<1>2. desc = Wire[r.origin.type]
  BY <1>1 DEF HoldsAs
<1>3. /\ \A m \in fields : \E a \in A : \E x \in ToSet(Classes[a].fields) : m = FieldSig(x)
      /\ Resolvable(r.class) =>
           \A a \in A : \A x \in ToSet(Classes[a].fields) : FieldSig(x) \in fields
  BY FieldsSeen
<1>4. \A x : x \in there <=> /\ \E a \in A : x \in ToSet(Classes[a].fields)
                             /\ x.name = r.name /\ x.static = r.static /\ x.type.desc = desc
  BY <1>1, <1>2 DEF FieldsFor, NamedAs
<1> HIDE DEF H, A, r, fields, desc, there
<1>5. ASSUME NEW f \in found PROVE \E x \in there : f = FieldSig(x)
  <2>1. PICK a \in A : \E x \in ToSet(Classes[a].fields) : f = FieldSig(x)
    BY <1>3
  <2>2. PICK x \in ToSet(Classes[a].fields) : f = FieldSig(x)
    BY <2>1
  <2>3. x \in there
    BY <1>4, <1>5, <2>2, SigOf
  <2> QED BY <2>2, <2>3
<1>6. ASSUME Resolvable(r.class), NEW x \in there PROVE FieldSig(x) \in found
  BY <1>3, <1>4, <1>6, SigOf
<1>7. found \subseteq {FieldSig(f) : f \in there}
  BY <1>5
<1>8. Resolvable(r.class) => found = {FieldSig(f) : f \in there}
  BY <1>6, <1>7
<1> QED BY <1>7, <1>8 DEF r, H, fields, desc, there

\* What is said of a field that is looked for, but for its annotation.
LEMMA FieldSaid ==
  ASSUME Looked, NEW k \in DOMAIN refs, refs[k].kind = "Field"
  PROVE  LET r == refs[k]
             said == FieldCodes(r, Hierarchy(r.class, ModelIndex))
         IN  /\ Describable(r) /\ said = {} => Exists(r, Classes)
             /\ Resolvable(r.class) /\ said \cap {"E042", "E043"} # {} => ~Exists(r, Classes)
<1> DEFINE r == refs[k]
           H == Hierarchy(r.class, ModelIndex)
           fields == UNION {c.fields : c \in H}
           desc == FieldDescriptor(r.field)
           named == {f \in fields : f.name = r.name /\ f.static = r.static}
           typed == {f \in named : f.desc = desc}
           found == {f \in fields : f.name = r.name /\ f.static = r.static /\ f.desc = desc}
           there == {f \in FieldsFor(r, Classes) : f.type.desc = Wire[r.origin.type]}
<1>1. NamedAs(r) /\ HoldsAs(r)
  BY AskedFor DEF Looked, CheckInv
<1>2. Exists(r, Classes) <=> there # {}
  BY DEF Exists
<1>3. desc # <<>> => /\ found \subseteq {FieldSig(f) : f \in there}
                     /\ Resolvable(r.class) => found = {FieldSig(f) : f \in there}
  BY FieldsFound
<1>4. FieldCodes(r, H) = IF named = {} THEN {"E042"}
                         ELSE IF desc = <<>> THEN {}
                         ELSE IF typed = {} THEN {"E043"}
                         ELSE IF r.field.ir = "Pointer" THEN HandleCodes(r, typed) ELSE {}
  BY DEF FieldCodes
<1>5. Describable(r) => desc # <<>>
  BY <1>1 DEF Describable, HoldsAs
<1>6. \A fs : HandleCodes(r, fs) \cap {"E042", "E043"} = {}
  BY DEF HandleCodes
<1>7. typed = found
  OBVIOUS
<1>8. ASSUME Resolvable(r.class), Exists(r, Classes)
      PROVE  \E a \in Ancestors(Classes, r.class) \cap DOMAIN Classes :
               \E x \in ToSet(Classes[a].fields) : x.name = r.name /\ x.static = r.static
  BY <1>1, <1>2, <1>8 DEF FieldsFor, NamedAs
<1>9. Resolvable(r.class) =>
        \A a \in Ancestors(Classes, r.class) \cap DOMAIN Classes :
          \A x \in ToSet(Classes[a].fields) : FieldSig(x) \in fields
  BY FieldsSeen
<1> HIDE DEF H, r, fields, desc, there
<1>10. Resolvable(r.class) /\ Exists(r, Classes) => named # {}
  BY <1>8, <1>9, SigOf
<1> HIDE DEF named, typed, found
<1>11. Describable(r) /\ FieldCodes(r, H) = {} => Exists(r, Classes)
  <2> SUFFICES ASSUME Describable(r), FieldCodes(r, H) = {} PROVE there # {}
    BY <1>2
  <2>1. desc # <<>> /\ typed # {}
    BY <1>4, <1>5
  <2> QED BY <1>3, <1>7, <2>1
<1>12. Resolvable(r.class) /\ Exists(r, Classes) => FieldCodes(r, H) \cap {"E042", "E043"} = {}
  <2> SUFFICES ASSUME Resolvable(r.class), Exists(r, Classes)
               PROVE  FieldCodes(r, H) \cap {"E042", "E043"} = {}
    OBVIOUS
  <2>1. named # {} /\ (desc # <<>> => typed # {})
    BY <1>2, <1>3, <1>7, <1>10
  <2> QED BY <1>4, <1>6, <2>1
<1> QED BY <1>11, <1>12 DEF r, H

\* A code about a reference is reported if and only if it is to be.
LEMMA SaidOf ==
  ASSUME CheckInv, RefsInv, Done, NEW k \in DOMAIN refs
  PROVE  /\ \A c \in RefErrors : Reported(c, k) <=> c \in CodesOf(k)
         /\ (\A d \in report : d.code \in RefErrors => d.rust # k) <=> CodesOf(k) = {}
<1>1. refs[k].kind \in RefKinds
  BY SideFacts DEF CheckInv
<1>2. CodesOf(k) \subseteq RefErrors
  BY <1>1, RefCodesType DEF CodesOf
<1> HIDE DEF RefErrors
<1>3. \A c \in RefErrors : Reported(c, k) <=> c \in CodesOf(k)
  BY DEF RefsInv, Reported, Done
<1> QED BY <1>2, <1>3 DEF Reported

\* What is to be said of a reference says whether the JVM finds it.
LEMMA SaidOfMember ==
  ASSUME Looked, NEW k \in DOMAIN refs
  PROVE  /\ Describable(refs[k]) /\ CodesOf(k) = {} => Exists(refs[k], Classes)
         /\ /\ Resolvable(refs[k].class)
            /\ CodesOf(k) \cap {"E040", "E041", "E042", "E043", "E044"} # {}
            => ~Exists(refs[k], Classes)
<1> DEFINE r == refs[k]
           idx == ModelIndex
           missing == {"E040", "E041", "E042", "E043", "E044"}
<1>1. r.kind \in RefKinds
  BY SideFacts DEF Looked, CheckInv
<1> HIDE DEF idx
<1>2. CASE r.class \notin DOMAIN idx
  <2>1. CodesOf(k) = {"W004"}
    BY <1>2 DEF CodesOf, RefCodes, idx
  <2> QED BY <2>1
<1>3. CASE r.class \in DOMAIN idx /\ r.kind = "Method"
  <2>1. CodesOf(k) = MethodCodes(r, Hierarchy(r.class, idx))
    BY <1>3 DEF CodesOf, RefCodes, idx
  <2> QED BY <1>3, <2>1, MethodSaid DEF idx
<1>4. CASE r.class \in DOMAIN idx /\ r.kind = "Constructor"
  <2>1. CodesOf(k) = ConstructorCodes(r, idx[r.class])
    BY <1>4 DEF CodesOf, RefCodes, idx
  <2> QED BY <1>4, <2>1, ConstructorSaid DEF idx
<1>5. CASE r.class \in DOMAIN idx /\ r.kind = "Field"
  <2>1. CodesOf(k) = FieldCodes(r, Hierarchy(r.class, idx))
    BY <1>5 DEF CodesOf, RefCodes, idx
  <2>2. \A cs : FieldCodes(r, cs) \cap {"E040", "E041", "E044"} = {}
    <3>1. \A fs : HandleCodes(r, fs) \cap {"E040", "E041", "E044"} = {}
      BY DEF HandleCodes
    <3> QED BY <3>1 DEF FieldCodes
  <2> QED BY <1>5, <2>1, <2>2, FieldSaid DEF idx
<1> QED BY <1>1, <1>2, <1>3, <1>4, <1>5 DEF RefKinds

\* The resolution of the classes ends with the least closure.
LEMMA ClosedExactly == Spec => []CP!ClosureExact
<1>1. CP!Spec => []CP!ClosureExact
  BY CP!LeastClosure
<1>2. Spec => CP!Spec
  BY ClosureInit, ClosureStep, CheckInvariance, PTL DEF Spec, CP!Spec
<1> QED BY <1>1, <1>2, PTL

\* AcceptedExists: what the checker is silent about, `check_method_ref` and its
\* like found in a class the JVM looks in, under the name, with the types.
THEOREM AcceptedIsFound == Spec => []AcceptedExists
<1>1. CheckInv /\ RefsInv /\ ModelsRead /\ CP!ClosureExact => AcceptedExists
  <2> SUFFICES ASSUME CheckInv, RefsInv, ModelsRead, CP!ClosureExact, Done, ClassesOnce,
                      NEW k \in DOMAIN refs, Describable(refs[k]),
                      \A d \in report : d.code \in RefErrors => d.rust # k
               PROVE  Exists(refs[k], Classes)
    BY DEF AcceptedExists
  <2>1. CodesOf(k) = {}
    BY SaidOf
  <2> QED BY <2>1, SaidOfMember DEF Looked
<1> QED BY <1>1, CheckInvariance, ReferencesReported, ModelsAreRead, ClosedExactly, PTL

\* MissingIsReal: what is reported missing, no class the JVM looks in has, where
\* the resolution of the JDK's classes got to see them all.
THEOREM MissingIsMissing == Spec => []MissingIsReal
<1>1. CheckInv /\ RefsInv /\ ModelsRead /\ CP!ClosureExact /\ UnverifiedIsAbsent => MissingIsReal
  <2> SUFFICES ASSUME CheckInv, RefsInv, ModelsRead, CP!ClosureExact, Done, ClassesOnce,
                      NEW k \in DOMAIN refs, Resolvable(refs[k].class),
                      NEW c \in {"E040", "E041", "E042", "E043", "E044"}, Reported(c, k)
               PROVE  ~Exists(refs[k], Classes)
    BY DEF MissingIsReal
  <2>1. c \in RefErrors
    BY DEF RefErrors
  <2>2. c \in CodesOf(k)
    BY <2>1, SaidOf
  <2> QED BY <2>2, SaidOfMember DEF Looked
<1> QED BY <1>1, CheckInvariance, ReferencesReported, ModelsAreRead, ClosedExactly,
           UnverifiedExact, PTL

-----------------------------------------------------------------------------
(* What the Rust front end makes of an export, in terms of what was        *)
(* written.                                                                *)

\* One property of a block, or one entry of `native_method!`.
Said(op, spec, e) == IF op = "entry" THEN ApplyEntry(spec, e) ELSE ApplyProperty(spec, e)

\* The fold over the first entries, as a function of which of them are folded.
Folds(g, op, n, ps) ==
  g = [s \in SUBSET (1..n) |-> IF s = {} THEN SpecNew ELSE Said(op, g[s \ {Max(s)}], ps[Max(s)])]

\* A set of the first numbers has a greatest, and is one smaller without it.
LEMMA WithoutGreatest ==
  ASSUME NEW n \in Nat, NEW s \in SUBSET (1..n)
  PROVE  /\ IsFiniteSet(s) /\ Cardinality(s) \in Nat /\ (Cardinality(s) = 0 <=> s = {})
         /\ s # {} => /\ Max(s) \in s /\ s \ {Max(s)} \in SUBSET (1..n)
                      /\ Cardinality(s \ {Max(s)}) = Cardinality(s) - 1
<1>1. IsFiniteSet(s) /\ Cardinality(s) \in Nat
  <2>1. 1 \in Int /\ n \in Int
    OBVIOUS
  <2>2. IsFiniteSet(1..n)
    BY <2>1, FS_Interval
  <2> QED BY <2>2, FS_Subset, FS_CardinalityType
<1>2. Cardinality(s) = 0 <=> s = {}
  BY <1>1, FS_EmptySet
<1>3. ASSUME s # {} PROVE Max(s) \in s
  <2> DEFINE T == {n - k : k \in s}
  <2>1. T \in SUBSET Nat /\ T # {}
    <3>1. \A k \in s : k \in 1..n /\ n - k \in Nat
      OBVIOUS
    <3>2. PICK k \in s : TRUE
      BY <1>3
    <3> QED BY <3>1, <3>2
  <2>2. PICK m \in T : \A y \in T : m <= y
    BY <2>1, LeastNat
  <2>3. n - m \in s /\ \A k \in s : k <= n - m
    <3>1. PICK k \in s : m = n - k
      BY <2>2
    <3>2. \A l \in s : n - k <= n - l
      BY <2>2, <3>1
    <3> QED BY <3>1, <3>2
  <2>4. \E x \in s : \A y \in s : x >= y
    BY <2>3
  <2> QED BY <2>4 DEF Max
<1>4. ASSUME s # {} PROVE Cardinality(s \ {Max(s)}) = Cardinality(s) - 1
  BY <1>1, <1>3, <1>4, FS_RemoveElement
<1> QED BY <1>1, <1>2, <1>3, <1>4

\* There is such a fold.
LEMMA FoldThere ==
  ASSUME NEW op, NEW n \in Nat, NEW ps
  PROVE  \E g : Folds(g, op, n, ps)
<1> DEFINE Upto(m) == {s \in SUBSET (1..n) : Cardinality(s) <= m}
           Step(g, s) == IF s = {} THEN SpecNew ELSE Said(op, g[s \ {Max(s)}], ps[Max(s)])
           Starts(m) == \E g : \A s \in Upto(m) : g[s] = Step(g, s)
           Good == {m \in Nat : Starts(m)}
<1>1. Starts(0)
  <2> DEFINE g == [s \in SUBSET (1..n) |-> SpecNew]
  <2>1. ASSUME NEW s \in Upto(0) PROVE s = {}
    <3>1. Cardinality(s) \in Nat /\ Cardinality(s) <= 0 /\ (Cardinality(s) = 0 <=> s = {})
      BY WithoutGreatest
    <3> QED BY <3>1
  <2>2. \A s \in Upto(0) : g[s] = Step(g, s)
    BY <2>1
  <2> QED BY <2>2
<1>2. ASSUME NEW m \in Nat, Starts(m) PROVE Starts(m + 1)
  <2>1. PICK g : \A s \in Upto(m) : g[s] = Step(g, s)
    BY <1>2
  <2> DEFINE h == [s \in SUBSET (1..n) |-> IF s \in Upto(m) THEN g[s] ELSE Step(g, s)]
  <2>2. ASSUME NEW s \in Upto(m + 1) PROVE h[s] = Step(h, s)
    <3>1. h[s] = Step(g, s)
      BY <2>1
    <3>2. ASSUME s # {} PROVE s \ {Max(s)} \in Upto(m)
      <4> DEFINE t == s \ {Max(s)}
      <4>1. /\ t \in SUBSET (1..n) /\ Cardinality(t) = Cardinality(s) - 1
            /\ Cardinality(s) \in Nat /\ Cardinality(s) <= m + 1
        BY <3>2, WithoutGreatest
      <4> HIDE DEF t
      <4>2. t \in Upto(m)
        BY <4>1
      <4> QED BY <4>2 DEF t
    <3>3. s # {} => h[s \ {Max(s)}] = g[s \ {Max(s)}]
      BY <3>2
    <3> HIDE DEF h
    <3>4. Step(h, s) = Step(g, s)
      BY <3>3
    <3> QED BY <3>1, <3>4
  <2> HIDE DEF h
  <2> QED BY <2>2
<1> HIDE DEF Starts
<1>3. n \in Good
  <2>1. 0 \in Good /\ Good \in SUBSET Nat /\ \A m \in Good : m + 1 \in Good
    BY <1>1, <1>2
  <2> HIDE DEF Good
  <2> QED BY <2>1, NatSet
<1>4. PICK g : \A s \in Upto(n) : g[s] = Step(g, s)
  BY <1>3 DEF Starts
<1>5. Upto(n) = SUBSET (1..n)
  <2>1. ASSUME NEW s \in SUBSET (1..n) PROVE Cardinality(s) <= n
    <3>1. IsFiniteSet(1..n) /\ Cardinality(1..n) = n
      <4>1. 1 \in Int /\ n \in Int /\ 1..n = 1..n
        OBVIOUS
      <4>2. Cardinality(1..n) = IF 1 > n THEN 0 ELSE n - 1 + 1
        BY <4>1, FS_Interval
      <4> QED BY <4>1, <4>2, FS_Interval
    <3> QED BY <3>1, FS_Subset
  <2> QED BY <2>1
<1> DEFINE h == [s \in SUBSET (1..n) |-> g[s]]
<1>6. \A s \in SUBSET (1..n) : h[s] = Step(h, s)
  <2> SUFFICES ASSUME NEW s \in SUBSET (1..n) PROVE h[s] = Step(h, s)
    OBVIOUS
  <2>1. h[s] = Step(g, s)
    BY <1>4, <1>5
  <2>2. s # {} => s \ {Max(s)} \in SUBSET (1..n)
    BY WithoutGreatest
  <2>3. s # {} => h[s \ {Max(s)}] = g[s \ {Max(s)}]
    BY <2>2
  <2> HIDE DEF h
  <2>4. Step(h, s) = Step(g, s)
    BY <2>3
  <2> QED BY <2>1, <2>4
<1>7. h = [s \in SUBSET (1..n) |-> h[s]]
  OBVIOUS
<1> HIDE DEF h
<1>8. h = [s \in SUBSET (1..n) |-> Step(h, s)]
  BY <1>6, <1>7
<1> QED BY <1>8 DEF Folds

Shaped(x) == DOMAIN x = DOMAIN SpecNew

\* What each step of a fold keeps, the fold keeps.
LEMMA FoldKeeps ==
  ASSUME NEW op, NEW n \in Nat, NEW ps, NEW g, Folds(g, op, n, ps),
         \A k \in 1..n : \A x : Shaped(x) => Shaped(Said(op, x, ps[k]))
  PROVE  Shaped(g[1..n])
<1> DEFINE Good == {m \in Nat : \A s \in SUBSET (1..n) : Cardinality(s) = m => Shaped(g[s])}
<1>1. ASSUME NEW s \in SUBSET (1..n)
      PROVE  g[s] = IF s = {} THEN SpecNew ELSE Said(op, g[s \ {Max(s)}], ps[Max(s)])
  BY DEF Folds
<1>2. 0 \in Good
  <2>1. \A s \in SUBSET (1..n) : Cardinality(s) = 0 => s = {}
    BY WithoutGreatest
  <2>2. g[{}] = SpecNew
    BY <1>1
  <2> QED BY <2>1, <2>2 DEF Shaped
<1>3. ASSUME NEW m \in Good PROVE m + 1 \in Good
  <2> SUFFICES ASSUME NEW s \in SUBSET (1..n), Cardinality(s) = m + 1 PROVE Shaped(g[s])
    OBVIOUS
  <2> DEFINE x == Max(s)
             t == s \ {x}
  <2>1. s # {}
    <3>1. Cardinality(s) = 0 <=> s = {}
      BY WithoutGreatest
    <3> QED BY <3>1
  <2>2. x \in 1..n /\ t \in SUBSET (1..n) /\ Cardinality(t) = m
    <3>1. x \in s /\ t \in SUBSET (1..n) /\ Cardinality(t) = Cardinality(s) - 1
      BY <2>1, WithoutGreatest
    <3> HIDE DEF t, x
    <3> QED BY <3>1
  <2>3. g[s] = Said(op, g[t], ps[x])
    BY <1>1, <2>1
  <2> HIDE DEF t, x
  <2>4. Shaped(g[t])
    BY <2>2
  <2> QED BY <2>2, <2>3, <2>4
<1>4. n \in Good
  <2>1. Good \in SUBSET Nat
    OBVIOUS
  <2> HIDE DEF Good
  <2> QED BY <1>2, <1>3, <2>1, NatSet
<1>5. Cardinality(1..n) = n
  <2>1. 1 \in Int /\ n \in Int
    OBVIOUS
  <2>2. Cardinality(1..n) = IF 1 > n THEN 0 ELSE n - 1 + 1
    BY <2>1, FS_Interval
  <2> QED BY <2>2
<1> QED BY <1>4, <1>5

\* A property sets a part of what is there.
LEMMA PropertyShaped == \A x, e : Shaped(x) => Shaped(ApplyProperty(x, e))
BY DEF ApplyProperty, Shaped

\* What a block of properties comes to.
LEMMA BlockShaped ==
  ASSUME NEW ps, IsSeq(ps)
  PROVE  Shaped(FoldLeft(ApplyProperty, SpecNew, ps))
<1> DEFINE n == Len(ps)
           Is(g) == g = [s \in SUBSET (DOMAIN ps) |->
                          IF s = {} THEN SpecNew ELSE ApplyProperty(g[s \ {Max(s)}], ps[Max(s)])]
<1>1. n \in Nat /\ DOMAIN ps = 1..n
  BY SeqFacts
<1>2. \A x, e : Said("property", x, e) = ApplyProperty(x, e)
  BY DEF Said
<1>3. FoldLeft(ApplyProperty, SpecNew, ps) = (CHOOSE g : Is(g))[DOMAIN ps]
  BY DEF FoldLeft, MapThenFoldSet
<1>4. \A g : Is(g) <=> Folds(g, "property", n, ps)
  BY <1>1, <1>2 DEF Folds
<1> HIDE DEF Is, n
<1>5. \E g : Is(g)
  BY <1>1, <1>4, FoldThere
<1>6. Is(CHOOSE g : Is(g))
  BY <1>5
<1>7. Folds(CHOOSE g : Is(g), "property", n, ps)
  BY <1>4, <1>6
<1>8. Shaped((CHOOSE g : Is(g))[1..n])
  BY <1>1, <1>2, <1>7, PropertyShaped, FoldKeeps
<1> QED BY <1>1, <1>3, <1>8

\* One method as `parse_method` reads it.
LEMMA MethodShaped == ASSUME NEW e, IsEntry(e), e.entry \in {"fn", "block"} PROVE Shaped(ParseMethod(e))
<1> DEFINE ps == IF e.entry = "fn" THEN <<[entry |-> "sig", params |-> e.params, ret |-> e.ret]>>
                 ELSE e.props
           b == FoldLeft(ApplyProperty, SpecNew, ps)
<1>1. IsSeq(ps)
  BY ShortSeqs DEF IsEntry
<1>2. ParseMethod(e) = [b EXCEPT !.static = @ \/ e.static, !.fn = e.fn]
  BY DEF ParseMethod
<1> HIDE DEF ps
<1>3. Shaped(b)
  BY <1>1, BlockShaped
<1> HIDE DEF b
<1> QED BY <1>2, <1>3 DEF Shaped

\* One entry of `native_method!`.
LEMMA EntryShaped ==
  ASSUME NEW x, Shaped(x), NEW e, IsEntry(e)
  PROVE  Shaped(ApplyEntry(x, e))
<1>1. CASE e.entry \notin {"fn", "block"}
  BY <1>1, PropertyShaped DEF ApplyEntry
<1>2. CASE e.entry \in {"fn", "block"}
  <2> DEFINE m == ParseMethod(e)
  <2>1. Shaped(m)
    BY <1>2, MethodShaped
  <2>2. ApplyEntry(x, e)
          = IF ~IsMethod(e) THEN x
            ELSE [m EXCEPT !.class = x.class, !.static = @ \/ x.static,
                           !.name = IF @ = None THEN x.name ELSE @]
    BY <1>2 DEF ApplyEntry
  <2> HIDE DEF m
  <2> QED BY <2>1, <2>2 DEF Shaped
<1> QED BY <1>1, <1>2

\* All the entries of one.
LEMMA EntriesShaped ==
  ASSUME NEW es, IsSeq(es), \A e \in ToSet(es) : IsEntry(e)
  PROVE  Shaped(FoldLeft(ApplyEntry, SpecNew, es))
<1> DEFINE n == Len(es)
           Is(g) == g = [s \in SUBSET (DOMAIN es) |->
                          IF s = {} THEN SpecNew ELSE ApplyEntry(g[s \ {Max(s)}], es[Max(s)])]
<1>1. n \in Nat /\ DOMAIN es = 1..n /\ \A k \in 1..n : IsEntry(es[k])
  BY SeqFacts
<1>2. \A x, e : Said("entry", x, e) = ApplyEntry(x, e)
  BY DEF Said
<1>3. FoldLeft(ApplyEntry, SpecNew, es) = (CHOOSE g : Is(g))[DOMAIN es]
  BY DEF FoldLeft, MapThenFoldSet
<1>4. \A g : Is(g) <=> Folds(g, "entry", n, es)
  BY <1>1, <1>2 DEF Folds
<1> HIDE DEF Is, n
<1>5. \E g : Is(g)
  BY <1>1, <1>4, FoldThere
<1>6. Is(CHOOSE g : Is(g))
  BY <1>5
<1>7. Folds(CHOOSE g : Is(g), "entry", n, es)
  BY <1>4, <1>6
<1>8. Shaped((CHOOSE g : Is(g))[1..n])
  BY <1>1, <1>2, <1>7, EntryShaped, FoldKeeps
<1> QED BY <1>1, <1>3, <1>8

\* What an export is called before overloads are resolved.
OwnSymbol(e) ==
  LET m == ParseJniMangle(e.origin.mangle)
  IN  CASE IsLegacy(e) -> e.origin.ident
        [] IsMangle(e) -> IF m.signed THEN LongSymbol(e.class, e.name, m.args)
                          ELSE ShortSymbol(e.class, e.name)
        [] IsMacro(e)  -> ShortSymbol(e.class, e.name)

LEMMA SameOwn ==
  ASSUME NEW e, NEW f, e.origin = f.origin, e.class = f.class, e.name = f.name
  PROVE  OwnSymbol(e) = OwnSymbol(f)
<1>1. /\ (IsLegacy(e) <=> IsLegacy(f)) /\ (IsMangle(e) <=> IsMangle(f)) /\ (IsMacro(e) <=> IsMacro(f))
      /\ IsLegacy(e) \/ IsMangle(e) \/ IsMacro(e)
      /\ ~(IsLegacy(e) /\ IsMangle(e)) /\ ~(IsLegacy(e) /\ IsMacro(e)) /\ ~(IsMangle(e) /\ IsMacro(e))
  BY DEF IsFn, IsMacro, IsLegacy, IsMangle
<1>2. CASE IsLegacy(e)
  <2>1. OwnSymbol(e) = e.origin.ident /\ OwnSymbol(f) = f.origin.ident
    BY <1>1, <1>2 DEF OwnSymbol
  <2> QED BY <2>1
<1>3. CASE IsMangle(e)
  <2> DEFINE m == ParseJniMangle(e.origin.mangle)
  <2>1. OwnSymbol(e) = IF m.signed THEN LongSymbol(e.class, e.name, m.args)
                       ELSE ShortSymbol(e.class, e.name)
    BY <1>1, <1>3 DEF OwnSymbol
  <2>2. OwnSymbol(f) = IF m.signed THEN LongSymbol(e.class, e.name, m.args)
                       ELSE ShortSymbol(e.class, e.name)
    BY <1>1, <1>3 DEF OwnSymbol
  <2> QED BY <2>1, <2>2
<1>4. CASE IsMacro(e)
  <2>1. OwnSymbol(e) = ShortSymbol(e.class, e.name) /\ OwnSymbol(f) = ShortSymbol(f.class, f.name)
    BY <1>1, <1>4 DEF OwnSymbol
  <2> QED BY <2>1
<1> QED BY <1>1, <1>2, <1>3, <1>4

\* What an export takes and gives, to whom, and what is wrong with it.
LoweredAs(e, reg) ==
  /\ DOMAIN e = {"symbol", "class", "name", "receiver", "params", "ret", "problem", "origin"}
  /\ e.params = LowerTypes(RustParams(e), reg)
  /\ e.ret = IF IsFn(e) /\ RustReturn(e) # None THEN LowerType(RustReturn(e), reg)
             ELSE LowerRet(RustReturn(e), reg)
  /\ IsFn(e) =>
       /\ IsSeq(e.origin.inputs) /\ e.origin.noMangle \in Kept
       /\ e.receiver = IF Len(e.origin.inputs) < 2 THEN "Unknown" ELSE ReceiverKind(e.origin.inputs[2])
       /\ e.problem = IF IsLegacy(e) THEN LegacyProblem(e.origin) ELSE TooFewParams(e.origin)
  /\ IsLegacy(e) => e.class = None
  /\ IsMangle(e) =>
       e.name = LET m == ParseJniMangle(e.origin.mangle)
                IN  IF m.name = None THEN SnakeToLowerCamel(e.origin.ident) ELSE m.name
  /\ IsMacro(e) =>
       /\ e.receiver = IF e.origin.static THEN "Class" ELSE "Object"
       /\ e.name = MethodName(e.origin) /\ e.problem = "none"

AllLowered(s, reg) ==
  IsSeq(s) /\ \A e \in ToSet(s) : LoweredAs(e, reg) /\ e.symbol = OwnSymbol(e)

\* No export, and one.
LEMMA LoweredShort ==
  ASSUME NEW reg
  PROVE  /\ AllLowered(<<>>, reg)
         /\ \A e : LoweredAs(e, reg) /\ e.symbol = OwnSymbol(e) => AllLowered(<<e>>, reg)
BY ShortSeqs DEF AllLowered

\* The record is the record.
LEMMA ExportFields ==
  \A symbol, class, name, receiver, params, ret, problem, origin :
    LET e == Export(symbol, class, name, receiver, params, ret, problem, origin)
    IN  /\ DOMAIN e = {"symbol", "class", "name", "receiver", "params", "ret", "problem", "origin"}
        /\ e.symbol = symbol /\ e.class = class /\ e.name = name /\ e.receiver = receiver
        /\ e.params = params /\ e.ret = ret /\ e.problem = problem /\ e.origin = origin
BY DEF Export

\* What FnExport makes of a function.
LEMMA FnFields ==
  ASSUME NEW f, "ident" \in DOMAIN f, IsSeq(f.inputs), f.noMangle \in Kept,
         NEW symbol, NEW class, NEW name, NEW problem, NEW reg,
         NEW e, e = FnExport(f, symbol, class, name, problem, reg)
  PROVE  /\ DOMAIN e = {"symbol", "class", "name", "receiver", "params", "ret", "problem", "origin"}
         /\ e.symbol = symbol /\ e.class = class /\ e.name = name /\ e.problem = problem /\ e.origin = f
         /\ IsFn(e) /\ ~IsMacro(e) /\ IsSeq(e.origin.inputs) /\ e.origin.noMangle \in Kept
         /\ e.receiver = IF Len(f.inputs) < 2 THEN "Unknown" ELSE ReceiverKind(f.inputs[2])
         /\ e.params = LowerTypes(RustParams(e), reg)
         /\ e.ret = IF IsFn(e) /\ RustReturn(e) # None THEN LowerType(RustReturn(e), reg)
                    ELSE LowerRet(RustReturn(e), reg)
<1>1. /\ DOMAIN e = {"symbol", "class", "name", "receiver", "params", "ret", "problem", "origin"}
      /\ e.symbol = symbol /\ e.class = class /\ e.name = name /\ e.problem = problem /\ e.origin = f
      /\ e.receiver = IF Len(f.inputs) < 2 THEN "Unknown" ELSE ReceiverKind(f.inputs[2])
      /\ e.params = LowerTypes(SubSeq(f.inputs, 3, Len(f.inputs)), reg)
      /\ e.ret = IF f.output = None THEN Void ELSE LowerType(f.output, reg)
  BY ExportFields DEF FnExport
<1>2. IsFn(e) /\ ~IsMacro(e)
  BY <1>1 DEF IsFn, IsMacro
<1>3. RustParams(e) = SubSeq(f.inputs, 3, Len(f.inputs)) /\ RustReturn(e) = f.output
  BY <1>1, <1>2 DEF RustParams, RustReturn
<1>4. LowerRet(None, reg) = Void
  BY DEF LowerRet
<1> QED BY <1>1, <1>2, <1>3, <1>4

\* A function.
LEMMA LowerFnRead ==
  ASSUME NEW f, "ident" \in DOMAIN f, IsSeq(f.inputs), f.noMangle \in Kept, NEW reg
  PROVE  AllLowered(LowerFn(f, reg), reg)
<1>1. CASE f.mangle # None
  <2> DEFINE m == ParseJniMangle(f.mangle)
             class == ClassDottedToInternal(m.namespace)
             method == IF m.name = None THEN SnakeToLowerCamel(f.ident) ELSE m.name
             symbol == IF m.signed THEN LongSymbol(class, method, m.args)
                       ELSE ShortSymbol(class, method)
             e == FnExport(f, symbol, class, method, TooFewParams(f), reg)
  <2>1. LowerFn(f, reg) = <<e>>
    BY <1>1 DEF LowerFn, LowerMangled
  <2> HIDE DEF symbol, class, method, e
  <2>2. /\ DOMAIN e = {"symbol", "class", "name", "receiver", "params", "ret", "problem", "origin"}
        /\ e.symbol = symbol /\ e.class = class /\ e.name = method /\ e.problem = TooFewParams(f)
        /\ e.origin = f /\ IsFn(e) /\ ~IsMacro(e)
        /\ IsSeq(e.origin.inputs) /\ e.origin.noMangle \in Kept
        /\ e.receiver = IF Len(f.inputs) < 2 THEN "Unknown" ELSE ReceiverKind(f.inputs[2])
        /\ e.params = LowerTypes(RustParams(e), reg)
        /\ e.ret = IF IsFn(e) /\ RustReturn(e) # None THEN LowerType(RustReturn(e), reg)
                   ELSE LowerRet(RustReturn(e), reg)
    BY FnFields DEF e
  <2>3. IsMangle(e) /\ ~IsLegacy(e)
    BY <1>1, <2>2 DEF IsMangle, IsLegacy
  <2>4. e.symbol = OwnSymbol(e)
    BY <2>2, <2>3 DEF OwnSymbol, symbol
  <2>5. e.name = LET n == ParseJniMangle(e.origin.mangle)
                 IN  IF n.name = None THEN SnakeToLowerCamel(e.origin.ident) ELSE n.name
    BY <2>2 DEF method
  <2>6. LoweredAs(e, reg)
    BY <2>2, <2>3, <2>5 DEF LoweredAs
  <2> QED BY <2>1, <2>4, <2>6, LoweredShort
<1>2. CASE f.mangle = None
  <2> DEFINE e == FnExport(f, f.ident, None, None, LegacyProblem(f), reg)
  <2>1. LowerFn(f, reg) = <<e>> \/ LowerFn(f, reg) = <<>>
    BY <1>2 DEF LowerFn
  <2> HIDE DEF e
  <2>2. /\ DOMAIN e = {"symbol", "class", "name", "receiver", "params", "ret", "problem", "origin"}
        /\ e.symbol = f.ident /\ e.class = None /\ e.problem = LegacyProblem(f)
        /\ e.origin = f /\ IsFn(e) /\ ~IsMacro(e)
        /\ IsSeq(e.origin.inputs) /\ e.origin.noMangle \in Kept
        /\ e.receiver = IF Len(f.inputs) < 2 THEN "Unknown" ELSE ReceiverKind(f.inputs[2])
        /\ e.params = LowerTypes(RustParams(e), reg)
        /\ e.ret = IF IsFn(e) /\ RustReturn(e) # None THEN LowerType(RustReturn(e), reg)
                   ELSE LowerRet(RustReturn(e), reg)
    BY FnFields DEF e
  <2>3. IsLegacy(e) /\ ~IsMangle(e)
    BY <1>2, <2>2 DEF IsMangle, IsLegacy
  <2>4. e.symbol = OwnSymbol(e)
    BY <2>2, <2>3 DEF OwnSymbol
  <2>5. LoweredAs(e, reg)
    BY <2>2, <2>3 DEF LoweredAs
  <2> QED BY <2>1, <2>4, <2>5, LoweredShort
<1> QED BY <1>1, <1>2

\* A method of a macro.
LEMMA SignatureRead ==
  ASSUME NEW spec, Shaped(spec), NEW class, NEW reg
  PROVE  AllLowered(BuildSignature(spec, class, reg), reg)
<1> DEFINE c == ClassDottedToInternal(class)
           e == Export(ShortSymbol(c, MethodName(spec)), c, MethodName(spec),
                       IF spec.static THEN "Class" ELSE "Object",
                       LowerTypes(spec.params, reg), LowerRet(spec.ret, reg), "none", spec)
<1>1. BuildSignature(spec, class, reg) = <<e>> \/ BuildSignature(spec, class, reg) = <<>>
  BY DEF BuildSignature
<1>2. /\ DOMAIN e = {"symbol", "class", "name", "receiver", "params", "ret", "problem", "origin"}
      /\ e.symbol = ShortSymbol(c, MethodName(spec)) /\ e.class = c /\ e.name = MethodName(spec)
      /\ e.receiver = IF spec.static THEN "Class" ELSE "Object"
      /\ e.params = LowerTypes(spec.params, reg) /\ e.ret = LowerRet(spec.ret, reg)
      /\ e.problem = "none" /\ e.origin = spec
  BY ExportFields
<1> HIDE DEF e, c
<1>3. ~IsFn(e) /\ IsMacro(e) /\ ~IsMangle(e) /\ ~IsLegacy(e)
  BY <1>2 DEF Shaped, SpecNew, IsFn, IsMacro, IsMangle, IsLegacy
<1>4. RustParams(e) = spec.params /\ RustReturn(e) = spec.ret
  BY <1>2, <1>3 DEF RustParams, RustReturn
<1>5. LoweredAs(e, reg) /\ e.symbol = OwnSymbol(e)
  BY <1>2, <1>3, <1>4 DEF LoweredAs, OwnSymbol
<1> QED BY <1>1, <1>5, LoweredShort

\* Exports one after another.
LEMMA FlattenLowered ==
  ASSUME NEW es, IsSeq(es), NEW ss, DOMAIN ss = DOMAIN es, ss = [k \in DOMAIN es |-> ss[k]],
         NEW reg, \A k \in DOMAIN es : AllLowered(ss[k], reg)
  PROVE  AllLowered(FlattenSeq(ss), reg)
<1>1. Len(es) \in Nat /\ DOMAIN es = 1..Len(es)
  BY SeqFacts
<1>2. ss \in [1..Len(es) -> {ss[k] : k \in DOMAIN es}]
  BY <1>1
<1>3. IsSeq(ss) /\ \A k \in DOMAIN ss : IsSeq(ss[k])
  BY <1>1, <1>2, FunIsSeq DEF AllLowered
<1> QED BY <1>3, FlattenIsSeq DEF AllLowered

\* The exports of a file.
LEMMA FileExportsRead ==
  ASSUME NEW file, NEW reg, IsSeq(file), \A x \in ToSet(file) : IsItem(x)
  PROVE  AllLowered(FileExports(file, reg), reg)
<1> DEFINE fns == OfKinds(file, {"fn"})
           ms  == OfKinds(file, {"bind", "native_method"})
           Macro(x, r) == IF x.item = "bind" THEN BoundNatives(x, r) ELSE NativeMethod(x, r)
           lfns == [k \in DOMAIN fns |-> LowerFn(fns[k], reg)]
           lms  == [k \in DOMAIN ms |-> Macro(ms[k], reg)]
<1>1. /\ IsSeq(fns) /\ IsSeq(ms)
      /\ \A x \in ToSet(fns) : IsItem(x) /\ x.item = "fn"
      /\ \A x \in ToSet(ms) : IsItem(x) /\ x.item \in {"bind", "native_method"}
  BY OfKindsType
<1> HIDE DEF fns, ms
<1>2. AllLowered(FlattenSeq(lfns), reg)
  <2>1. \A k \in DOMAIN fns : fns[k] \in ToSet(fns)
    BY <1>1, SeqFacts
  <2>2. \A k \in DOMAIN fns : AllLowered(lfns[k], reg)
    BY <1>1, <2>1, LowerFnRead DEF IsItem
  <2>3. DOMAIN lfns = DOMAIN fns /\ lfns = [k \in DOMAIN fns |-> lfns[k]]
    OBVIOUS
  <2> HIDE DEF lfns
  <2> QED BY <1>1, <2>2, <2>3, FlattenLowered
<1>3. ASSUME NEW x \in ToSet(ms) PROVE AllLowered(Macro(x, reg), reg)
  <2>1. CASE x.item = "native_method"
    <3>1. IsSeq(x.entries) /\ \A e \in ToSet(x.entries) : IsEntry(e)
      BY <1>1, <2>1 DEF IsItem
    <3>2. Shaped(FoldLeft(ApplyEntry, SpecNew, x.entries))
      BY <3>1, EntriesShaped
    <3>3. AllLowered(NativeMethod(x, reg), reg)
      BY <3>2, SignatureRead DEF NativeMethod
    <3> QED BY <2>1, <3>3
  <2>2. CASE x.item = "bind"
    <3> DEFINE ns == [k \in DOMAIN x.natives |->
                        BuildSignature(ApplyEntry(SpecNew, x.natives[k]), x.class, reg)]
    <3>1. IsSeq(x.natives) /\ \A e \in ToSet(x.natives) : IsEntry(e)
      BY <1>1, <2>2 DEF IsItem
    <3>2. \A k \in DOMAIN x.natives : IsEntry(x.natives[k])
      BY <3>1, SeqFacts
    <3>3. Shaped(SpecNew)
      BY DEF Shaped
    <3>4. \A k \in DOMAIN x.natives : AllLowered(ns[k], reg)
      BY <3>2, <3>3, EntryShaped, SignatureRead
    <3>5. DOMAIN ns = DOMAIN x.natives /\ ns = [k \in DOMAIN x.natives |-> ns[k]]
      OBVIOUS
    <3> HIDE DEF ns
    <3>6. AllLowered(FlattenSeq(ns), reg)
      BY <3>1, <3>4, <3>5, FlattenLowered
    <3> QED BY <2>2, <3>6 DEF BoundNatives, ns
  <2> QED BY <1>1, <2>1, <2>2
<1>4. AllLowered(FlattenSeq(lms), reg)
  <2>1. \A k \in DOMAIN ms : ms[k] \in ToSet(ms)
    BY <1>1, SeqFacts
  <2> HIDE DEF Macro
  <2>2. \A k \in DOMAIN ms : AllLowered(lms[k], reg)
    BY <1>3, <2>1
  <2>3. DOMAIN lms = DOMAIN ms /\ lms = [k \in DOMAIN ms |-> lms[k]]
    OBVIOUS
  <2> HIDE DEF lms
  <2> QED BY <1>1, <2>2, <2>3, FlattenLowered
<1>5. FileExports(file, reg) = FlattenSeq(lfns) \o FlattenSeq(lms)
  BY DEF FileExports, fns, ms
<1> HIDE DEF lfns, lms
<1> QED BY <1>2, <1>4, <1>5, JoinIsSeq DEF AllLowered

\* The exports of the class and name of e.
GroupOf(es, e) == {k \in DOMAIN es : es[k].class = e.class /\ es[k].name = e.name}

\* An export is as it was lowered, and of those that share a class and a name,
\* each with types that can be encoded has the long symbol.
ResolvedAs(es, k, reg) ==
  LET e == es[k]
  IN  /\ LoweredAs(e, reg)
      /\ e.symbol =
           IF e.class # None /\ Cardinality(GroupOf(es, e)) > 1 /\ Encodable(e.params)
           THEN LongSymbol(e.class, e.name, ArgsDescriptor(e.params)) ELSE OwnSymbol(e)

LEMMA ExportsRead ==
  ASSUME NEW files, Crate(files)
  PROVE  \A k \in DOMAIN Exports(files) : ResolvedAs(Exports(files), k, Registry(files))
<1> DEFINE reg == Registry(files)
           fe == [k \in DOMAIN files |-> FileExports(files[k], reg)]
           es == FlattenSeq(fe)
           rs == Exports(files)
<1> HIDE DEF reg
<1>1. IsSeq(files) /\ \A k \in DOMAIN files : files[k] \in ToSet(files)
  BY SeqFacts DEF Crate
<1>2. \A k \in DOMAIN files : AllLowered(fe[k], reg)
  BY <1>1, FileExportsRead DEF Crate
<1>3. DOMAIN fe = DOMAIN files /\ fe = [k \in DOMAIN files |-> fe[k]]
  OBVIOUS
<1>4. rs = ResolveOverloads(es)
  BY DEF Exports, reg
<1> HIDE DEF fe
<1>5. AllLowered(es, reg)
  BY <1>1, <1>2, <1>3, FlattenLowered
<1> HIDE DEF es, rs
<1>6. \A k \in DOMAIN es : LoweredAs(es[k], reg) /\ es[k].symbol = OwnSymbol(es[k])
  BY <1>5, SeqFacts DEF AllLowered
<1> DEFINE Apart(e) == e.class # None /\ Cardinality(GroupOf(es, e)) > 1 /\ Encodable(e.params)
<1>7. /\ DOMAIN rs = DOMAIN es
      /\ \A k \in DOMAIN es :
           rs[k] = IF Apart(es[k])
                   THEN [es[k] EXCEPT !.symbol = LongSymbol(es[k].class, es[k].name,
                                                            ArgsDescriptor(es[k].params))]
                   ELSE es[k]
  BY <1>4 DEF ResolveOverloads, GroupOf
<1>8. \A k \in DOMAIN es : DOMAIN es[k] = {"symbol", "class", "name", "receiver", "params", "ret",
                                         "problem", "origin"}
  BY <1>6 DEF LoweredAs
<1> HIDE DEF Apart
<1>9. ASSUME NEW k \in DOMAIN es
      PROVE  /\ DOMAIN rs[k] = DOMAIN es[k] /\ rs[k].class = es[k].class /\ rs[k].name = es[k].name
             /\ rs[k].receiver = es[k].receiver /\ rs[k].params = es[k].params
             /\ rs[k].ret = es[k].ret /\ rs[k].problem = es[k].problem /\ rs[k].origin = es[k].origin
             /\ rs[k].symbol = IF Apart(es[k])
                               THEN LongSymbol(es[k].class, es[k].name, ArgsDescriptor(es[k].params))
                               ELSE es[k].symbol
  BY <1>7, <1>8
<1>10. \A k \in DOMAIN es : Apart(es[k]) <=>
         rs[k].class # None /\ Cardinality(GroupOf(rs, rs[k])) > 1 /\ Encodable(rs[k].params)
  <2> SUFFICES ASSUME NEW k \in DOMAIN es
               PROVE  Apart(es[k]) <=> /\ rs[k].class # None /\ Cardinality(GroupOf(rs, rs[k])) > 1
                                      /\ Encodable(rs[k].params)
    OBVIOUS
  <2>1. GroupOf(rs, rs[k]) = GroupOf(es, es[k])
    BY <1>7, <1>9 DEF GroupOf
  <2> QED BY <1>9, <2>1 DEF Apart
<1>11. ASSUME NEW k \in DOMAIN es PROVE LoweredAs(rs[k], reg) /\ OwnSymbol(rs[k]) = OwnSymbol(es[k])
  <2>1. /\ IsFn(rs[k]) <=> IsFn(es[k])
        /\ IsMacro(rs[k]) <=> IsMacro(es[k])
        /\ IsLegacy(rs[k]) <=> IsLegacy(es[k])
        /\ IsMangle(rs[k]) <=> IsMangle(es[k])
    BY <1>9 DEF IsFn, IsMacro, IsLegacy, IsMangle
  <2>2. RustParams(rs[k]) = RustParams(es[k]) /\ RustReturn(rs[k]) = RustReturn(es[k])
    BY <1>9, <2>1 DEF RustParams, RustReturn
  <2>3. LoweredAs(rs[k], reg)
    BY <1>6, <1>9, <2>1, <2>2 DEF LoweredAs
  <2>4. OwnSymbol(rs[k]) = OwnSymbol(es[k])
    BY <1>9, SameOwn
  <2> QED BY <2>3, <2>4
<1> QED BY <1>6, <1>7, <1>9, <1>10, <1>11 DEF ResolvedAs, rs, reg

\* The native methods that are not ignored, and nothing else, are read.
LEMMA NativesRead ==
  ASSUME NEW java, IsSeq(java), \A c \in ToSet(java) : IsClass(c)
  PROVE  \A n : n \in ToSet(Natives(java)) <=>
           \E c \in ToSet(java) : \E m \in ToSet(c.methods) :
             m.native /\ ~HasIgnore(m) /\ n = LowerNative(c, m)
<1> DEFINE From(c) == {LowerNative(c, m) : m \in {x \in ToSet(c.methods) : x.native /\ ~HasIgnore(x)}}
           ns == [k \in DOMAIN java |-> LowerNatives(java[k])]
<1>1. ASSUME NEW c \in ToSet(java) PROVE IsSeq(LowerNatives(c)) /\ ToSet(LowerNatives(c)) = From(c)
  <2> DEFINE Lowered(m) == IF m.native /\ ~HasIgnore(m) THEN <<LowerNative(c, m)>> ELSE <<>>
             ls == [j \in DOMAIN c.methods |-> Lowered(c.methods[j])]
  <2>1. IsSeq(c.methods)
    BY DEF IsClass
  <2>2. DOMAIN c.methods = 1..Len(c.methods) /\ Len(c.methods) \in Nat
    BY <2>1, SeqFacts
  <2>3. \A m : /\ IsSeq(Lowered(m))
               /\ \A x : x \in ToSet(Lowered(m)) <=> m.native /\ ~HasIgnore(m) /\ x = LowerNative(c, m)
    <3> SUFFICES ASSUME NEW m
                 PROVE  /\ IsSeq(Lowered(m))
                        /\ \A x : x \in ToSet(Lowered(m)) <=>
                             m.native /\ ~HasIgnore(m) /\ x = LowerNative(c, m)
      OBVIOUS
    <3>1. CASE m.native /\ ~HasIgnore(m)
      BY <3>1, ShortSeqs
    <3>2. CASE ~(m.native /\ ~HasIgnore(m))
      BY <3>2, ShortSeqs
    <3> QED BY <3>1, <3>2
  <2> HIDE DEF Lowered
  <2>4. ls \in [1..Len(c.methods) -> {Lowered(c.methods[j]) : j \in DOMAIN c.methods}]
    BY <2>2
  <2>6. LowerNatives(c) = FlattenSeq(ls)
    BY DEF LowerNatives, Lowered
  <2>7. DOMAIN ls = DOMAIN c.methods /\ \A j \in DOMAIN ls : ls[j] = Lowered(c.methods[j])
    OBVIOUS
  <2> HIDE DEF ls
  <2>5. IsSeq(ls) /\ \A j \in DOMAIN ls : IsSeq(ls[j])
    BY <2>2, <2>3, <2>4, <2>7, FunIsSeq
  <2>8. /\ IsSeq(LowerNatives(c))
        /\ \A x : x \in ToSet(LowerNatives(c)) <=> \E j \in DOMAIN c.methods : x \in ToSet(ls[j])
    BY <2>5, <2>6, <2>7, FlattenIsSeq
  <2>9. \A x : x \in ToSet(LowerNatives(c)) <=>
          \E j \in DOMAIN c.methods :
            c.methods[j].native /\ ~HasIgnore(c.methods[j]) /\ x = LowerNative(c, c.methods[j])
    BY <2>3, <2>7, <2>8
  <2>10. ToSet(c.methods) = {c.methods[j] : j \in DOMAIN c.methods}
    BY DEF ToSet
  <2>11. \A x : x \in ToSet(LowerNatives(c)) <=> x \in From(c)
    BY <2>9, <2>10
  <2> QED BY <2>8, <2>11
<1>2. /\ Len(java) \in Nat /\ DOMAIN java = 1..Len(java)
      /\ \A k \in DOMAIN java : java[k] \in ToSet(java)
  BY SeqFacts
<1>3. ns \in [1..Len(java) -> {LowerNatives(java[k]) : k \in DOMAIN java}]
  BY <1>2
<1>4. DOMAIN ns = DOMAIN java /\ \A k \in DOMAIN java : ns[k] = LowerNatives(java[k])
  OBVIOUS
<1>5. Natives(java) = FlattenSeq(ns)
  BY DEF Natives
<1> HIDE DEF ns, From
<1>6. IsSeq(ns) /\ \A k \in DOMAIN ns : IsSeq(ns[k])
  BY <1>1, <1>2, <1>3, <1>4, FunIsSeq
<1>7. \A n : n \in ToSet(Natives(java)) <=> \E k \in DOMAIN java : n \in From(java[k])
  BY <1>1, <1>2, <1>4, <1>5, <1>6, FlattenIsSeq
<1>8. \A n : n \in ToSet(Natives(java)) <=> \E c \in ToSet(java) : n \in From(c)
  BY <1>7 DEF ToSet
<1> QED BY <1>8 DEF From

-----------------------------------------------------------------------------
(* A report without an error.                                              *)

\* What it means for a native and the export of its symbol to agree, to the checker.
Matches(j, k) ==
  /\ ReceiverCodes(natives[j], exports[k]) = {}
  /\ Len(natives[j].params) = Len(exports[k].params)
  /\ \A s \in DOMAIN natives[j].params : Compare(natives[j].params[s], exports[k].params[s]) = {}
  /\ Compare(natives[j].ret, exports[k].ret) = {}

\* What a report without an error says of the two sides.
CleanSays ==
  /\ \A k \in DOMAIN exports : exports[k].problem = "none"
  /\ \A k, l \in DOMAIN exports : exports[k].symbol = exports[l].symbol => k = l
  /\ \A k \in DOMAIN exports : \E j \in DOMAIN natives : natives[j].symbol = exports[k].symbol
  /\ \A j \in DOMAIN natives : \E k \in DOMAIN exports : natives[j].symbol = exports[k].symbol
  /\ \A j \in DOMAIN natives, k \in DOMAIN exports :
       natives[j].symbol = exports[k].symbol => Matches(j, k)

LEMMA CleanRead == ASSUME SidesRead, ReportExact, Done, Clean PROVE CleanSays
<1> DEFINE Error(c) == c \notin RefErrors \cup {"W003"}
<1>1. \A code, digit, j, k, s : Diag(code, digit, j, k, s) \in report => ~Error(code)
  BY DEF Clean, Diag
<1>2. /\ \A k \in DOMAIN exports : ExportSays(k) \subseteq report /\ CallSays(k) \subseteq report
      /\ \A j \in DOMAIN natives : NativeSays(j) \subseteq report
  BY DEF ReportExact
<1>3. /\ Error("E000") /\ Error("E001") /\ Error("E002") /\ Error("E004") /\ Error("E005")
      /\ Error("E010") /\ Error("E02") /\ Error("E03") /\ Error("W001") /\ Error("W002")
  BY DEF RefErrors
<1> HIDE DEF Error
<1>4. ASSUME NEW k \in DOMAIN exports PROVE exports[k].problem = "none"
  <2> SUFFICES ASSUME exports[k].problem # "none" PROVE FALSE
    OBVIOUS
  <2>1. Error(ProblemCode[exports[k].problem])
    <3>1. exports[k].problem \in {"NotExported", "TooFewParams"}
      BY SideFacts DEF Problems
    <3> QED BY <1>3, <3>1 DEF ProblemCode
  <2>2. Diag(ProblemCode[exports[k].problem], 0, 0, k, 0) \in ExportSays(k)
    BY DEF ExportSays, Broken
  <2> QED BY <1>1, <1>2, <2>1, <2>2
<1>5. \A k \in DOMAIN exports : ~Broken(exports[k])
  BY <1>4 DEF Broken
<1>6. /\ \A s : OfSymbol(s) = {k \in DOMAIN exports : exports[k].symbol = s}
      /\ DOMAIN exports \in SUBSET Nat
  BY <1>5, SideFacts DEF OfSymbol, Unbroken
<1>7. ASSUME NEW k \in DOMAIN exports PROVE Before(OfSymbol(exports[k].symbol), k) = {}
  <2> SUFFICES ASSUME Before(OfSymbol(exports[k].symbol), k) # {} PROVE FALSE
    OBVIOUS
  <2>1. Diag("E000", 0, 0, k, 0) \in ExportSays(k)
    BY <1>5 DEF ExportSays
  <2> QED BY <1>1, <1>2, <1>3, <2>1
<1>8. ASSUME NEW k \in DOMAIN exports, NEW l \in DOMAIN exports, exports[k].symbol = exports[l].symbol
      PROVE  k = l
  <2>1. ~(k < l) /\ ~(l < k) /\ k \in Nat /\ l \in Nat
    BY <1>6, <1>7, <1>8 DEF Before
  <2> QED BY <2>1
<1>9. ASSUME NEW k \in DOMAIN exports
      PROVE  \E j \in DOMAIN natives : natives[j].symbol = exports[k].symbol
  <2> SUFFICES ASSUME Callers(exports[k].symbol) = {} PROVE FALSE
    BY DEF Callers
  <2>1. Diag("W001", 0, 0, k, 0) \in CallSays(k)
    BY <1>5 DEF CallSays
  <2> QED BY <1>1, <1>2, <1>3, <2>1
<1>10. ASSUME NEW j \in DOMAIN natives
       PROVE  \E k \in DOMAIN exports : natives[j].symbol = exports[k].symbol
  <2> SUFFICES ASSUME OfSymbol(natives[j].symbol) = {} PROVE FALSE
    BY <1>6
  <2>1. Diag("E001", 0, j, 0, 0) \in NativeSays(j)
    BY DEF NativeSays
  <2> QED BY <1>1, <1>2, <1>3, <2>1
<1>11. ASSUME NEW j \in DOMAIN natives, NEW k \in DOMAIN exports, natives[j].symbol = exports[k].symbol
       PROVE  Matches(j, k)
  <2>1. OfSymbol(natives[j].symbol) = {k} /\ k \in Nat
    BY <1>6, <1>8, <1>11
  <2>2. Max(OfSymbol(natives[j].symbol)) = k
    <3>1. {k} \in SUBSET Nat /\ k \in {k} /\ \A l \in {k} : l <= k
      BY <2>1
    <3>2. Max({k}) = k
      BY <3>1, TheGreatest
    <3> QED BY <2>1, <3>2
  <2>3. PairSays(j, k) \subseteq report
    BY <1>2, <2>1, <2>2 DEF NativeSays
  <2>4. ReceiverCodes(natives[j], exports[k]) = {}
    <3>1. \A c \in ReceiverCodes(natives[j], exports[k]) : c = "E002" /\ Diag(c, 0, j, k, 0) \in report
      BY <2>3 DEF PairSays, ReceiverCodes
    <3> QED BY <1>1, <1>3, <3>1
  <2>5. Len(natives[j].params) = Len(exports[k].params)
    <3>1. Len(natives[j].params) # Len(exports[k].params) => Diag("E010", 0, j, k, 0) \in report
      BY <2>3 DEF PairSays
    <3> QED BY <1>1, <1>3, <3>1
  <2>6. ASSUME NEW s \in DOMAIN natives[j].params
        PROVE  Compare(natives[j].params[s], exports[k].params[s]) = {}
    <3>1. \A d \in Compare(natives[j].params[s], exports[k].params[s]) : Diag("E02", d, j, k, s) \in report
      BY <2>3, <2>5 DEF PairSays
    <3> QED BY <1>1, <1>3, <3>1
  <2>7. Compare(natives[j].ret, exports[k].ret) = {}
    <3>1. \A d \in Compare(natives[j].ret, exports[k].ret) : Diag("E03", d, j, k, 0) \in report
      BY <2>3, <2>5 DEF PairSays
    <3> QED BY <1>1, <1>3, <3>1
  <2> QED BY <2>4, <2>5, <2>6, <2>7 DEF Matches
<1> QED BY <1>4, <1>8, <1>9, <1>10, <1>11 DEF CleanSays

\* m is a native method of the class c that the checker reads.
IsDeclared(c, m) ==
  c \in ToSet(project.java) /\ m \in ToSet(c.methods) /\ m.native /\ ~HasIgnore(m)

LEMMA DeclaredAre ==
  ASSUME SidesRead
  PROVE  /\ \A p \in Declared : \E c, m : p = <<c, m>> /\ IsDeclared(c, m)
         /\ \A c, m : IsDeclared(c, m) => <<c, m>> \in Declared
         /\ \A c, m : IsDeclared(c, m) => \E j \in DOMAIN natives : natives[j] = LowerNative(c, m)
         /\ \A j \in DOMAIN natives : \E c, m : IsDeclared(c, m) /\ natives[j] = LowerNative(c, m)
<1>1. /\ \A p \in Declared : \E c, m : p = <<c, m>> /\ IsDeclared(c, m)
      /\ \A c, m : IsDeclared(c, m) => <<c, m>> \in Declared
  BY DEF Declared, IsDeclared
<1>2. \A n : n \in ToSet(natives) <=> \E c, m : IsDeclared(c, m) /\ n = LowerNative(c, m)
  <2>1. IsSeq(project.java) /\ (\A c \in ToSet(project.java) : IsClass(c)) /\ natives = Natives(project.java)
    BY ProjectFacts DEF SidesRead
  <2>2. \A n : n \in ToSet(natives) <=>
          \E c \in ToSet(project.java) : \E m \in ToSet(c.methods) :
            m.native /\ ~HasIgnore(m) /\ n = LowerNative(c, m)
    BY <2>1, NativesRead
  <2> QED BY <2>2 DEF IsDeclared
<1>3. ToSet(natives) = {natives[j] : j \in DOMAIN natives}
  BY DEF ToSet
<1> QED BY <1>1, <1>2, <1>3

\* What is assumed of an export of the crate.
LEMMA ExportKnown ==
  ASSUME SidesRead, NEW k \in DOMAIN exports
  PROVE  LET e   == exports[k]
             reg == Registry(project.files)
         IN  /\ ResolvedAs(exports, k, reg)
             /\ IsSeq(RustParams(e))
             /\ ~IsLegacy(e) =>
                  IsClassName(e.class) /\ IsMethodName(e.name) /\ IsName(WrittenArgs(e))
             /\ \A n \in Derived(e) : JavaName[n] = SnakeToLowerCamel(n)
             /\ IsFn(e) => e.origin.output \notin {<<"()">>, <<"void">>}
             /\ \A t \in ToSet(RustParams(e)) :
                  FieldDescriptor(LowerType(t, reg)) = IF t \in DOMAIN Wire THEN Wire[t] ELSE <<>>
             /\ \A j \in DOMAIN natives :
                  LET m == natives[j].origin
                  IN  /\ \A s \in ToSet(m.params), t \in ToSet(RustParams(e)) :
                           Compare(LowerSlot(Collected(s)), LowerType(t, reg)) = {} <=> <<s, t>> \in Fits
                      /\ Compare(LowerReturn(Collected(m.ret)), LowerRet(RustReturn(e), reg)) = {}
                           <=> ReturnFits(m.ret, RustReturn(e))
<1>1. PICK p \in Plans : project = ProjectOf(p)
  BY DEF SidesRead
<1>2. exports = Exports(project.files) /\ natives = Natives(project.java) /\ Crate(project.files)
  BY ProjectFacts DEF SidesRead
<1>3. ResolvedAs(exports, k, Registry(project.files))
  BY <1>2, ExportsRead
<1>4. exports[k] \in ToSet(Exports(ProjectOf(p).files))
  BY <1>1, <1>2 DEF ToSet
<1>5. \A j \in DOMAIN natives : natives[j].origin \in {n.origin : n \in ToSet(Natives(ProjectOf(p).java))}
  BY <1>1, <1>2 DEF ToSet
<1> QED BY <1>1, <1>3, <1>4, <1>5, ExportAssumption

\* Native j, which is m, and export k have as many slots as what they were read
\* from, and agree in the checker's own words where they do in Java's and Rust's.
SlotsRead(m, j, k) ==
  LET e == exports[k]
  IN  /\ Len(natives[j].params) = Len(m.params) /\ Len(e.params) = Len(RustParams(e))
      /\ DOMAIN m.params = 1..Len(m.params) /\ DOMAIN RustParams(e) = 1..Len(RustParams(e))
      /\ DOMAIN natives[j].params = DOMAIN m.params /\ DOMAIN e.params = DOMAIN RustParams(e)
      /\ Len(m.params) \in Nat /\ Len(RustParams(e)) \in Nat
      /\ \A s \in DOMAIN m.params \cap DOMAIN RustParams(e) :
           Compare(natives[j].params[s], e.params[s]) = {} <=>
             <<m.params[s], RustParams(e)[s]>> \in Fits
      /\ Compare(natives[j].ret, e.ret) = {} <=> ReturnFits(m.ret, RustReturn(e))

LEMMA SlotsFit ==
  ASSUME SidesRead, NEW c, NEW m, IsDeclared(c, m), NEW k \in DOMAIN exports,
         NEW j \in DOMAIN natives, natives[j] = LowerNative(c, m)
  PROVE  SlotsRead(m, j, k)
<1> DEFINE e == exports[k]
           n == natives[j]
           reg == Registry(project.files)
           ts == RustParams(e)
<1>1. /\ LoweredAs(e, reg) /\ IsSeq(ts)
      /\ IsFn(e) => e.origin.output \notin {<<"()">>, <<"void">>}
  BY ExportKnown DEF ResolvedAs
<1>2. n.params = LowerParams(m) /\ n.ret = LowerReturn(Collected(m.ret)) /\ n.origin = m
  BY DEF LowerNative
<1>3. /\ \A s \in ToSet(m.params), t \in ToSet(ts) :
           Compare(LowerSlot(Collected(s)), LowerType(t, reg)) = {} <=> <<s, t>> \in Fits
      /\ Compare(LowerReturn(Collected(m.ret)), LowerRet(RustReturn(e), reg)) = {}
           <=> ReturnFits(m.ret, RustReturn(e))
  BY <1>2, ExportKnown
<1>4. IsSeq(m.params)
  BY ProjectFacts DEF IsDeclared, IsClass
<1> HIDE DEF n, reg, ts
<1>5. /\ Len(m.params) \in Nat /\ DOMAIN m.params = 1..Len(m.params)
      /\ \A s \in DOMAIN m.params : m.params[s] \in ToSet(m.params)
  BY <1>4, SeqFacts
<1>6. /\ Len(ts) \in Nat /\ DOMAIN ts = 1..Len(ts) /\ \A s \in DOMAIN ts : ts[s] \in ToSet(ts)
  BY <1>1, SeqFacts
<1>7. n.params = [s \in DOMAIN m.params |-> LowerSlot(Collected(m.params[s]))]
  BY <1>2 DEF LowerParams
<1>8. e.params = [s \in DOMAIN ts |-> LowerType(ts[s], reg)]
  BY <1>1 DEF LoweredAs, LowerTypes, ts
<1> HIDE DEF e
<1>9. Len(n.params) = Len(m.params) /\ DOMAIN n.params = DOMAIN m.params
  <2> DEFINE f == [s \in 1..Len(m.params) |-> LowerSlot(Collected(m.params[s]))]
  <2>1. f \in [1..Len(m.params) -> {f[s] : s \in 1..Len(m.params)}] /\ n.params = f
    BY <1>5, <1>7
  <2> HIDE DEF f
  <2> QED BY <1>5, <2>1, FunIsSeq
<1>10. Len(e.params) = Len(ts) /\ DOMAIN e.params = DOMAIN ts
  <2> DEFINE f == [s \in 1..Len(ts) |-> LowerType(ts[s], reg)]
  <2>1. f \in [1..Len(ts) -> {f[s] : s \in 1..Len(ts)}] /\ e.params = f
    BY <1>6, <1>8
  <2> HIDE DEF f
  <2> QED BY <1>6, <2>1, FunIsSeq
<1>11. ASSUME NEW s \in DOMAIN m.params \cap DOMAIN ts
       PROVE  Compare(n.params[s], e.params[s]) = {} <=> <<m.params[s], ts[s]>> \in Fits
  <2>1. n.params[s] = LowerSlot(Collected(m.params[s])) /\ e.params[s] = LowerType(ts[s], reg)
    BY <1>7, <1>8
  <2> QED BY <1>3, <1>5, <1>6, <2>1
<1>12. e.ret = LowerRet(RustReturn(e), reg)
  <2>1. CASE IsFn(e) /\ RustReturn(e) # None
    <3>1. RustReturn(e) \notin {None, <<"()">>, <<"void">>}
      BY <1>1, <2>1 DEF RustReturn, e
    <3> QED BY <1>1, <2>1, <3>1 DEF LoweredAs, LowerRet, e
  <2>2. CASE ~(IsFn(e) /\ RustReturn(e) # None)
    BY <1>1, <2>2 DEF LoweredAs, e
  <2> QED BY <2>1, <2>2
<1>13. Compare(n.ret, e.ret) = {} <=> ReturnFits(m.ret, RustReturn(e))
  BY <1>2, <1>3, <1>12
<1> QED BY <1>5, <1>6, <1>9, <1>10, <1>11, <1>13 DEF SlotsRead, e, n, ts

\* An export whose types are those of a native has its descriptor, however it is
\* made: the checker's, from the types as it reads them, or that of the crate.
LEMMA FittingTakes ==
  ASSUME SidesRead, NEW k \in DOMAIN exports, NEW m, DOMAIN RustParams(exports[k]) = DOMAIN m.params,
         \A s \in DOMAIN m.params : <<m.params[s], RustParams(exports[k])[s]>> \in Fits
  PROVE  LET e == exports[k]
         IN  /\ Encodable(e.params)
             /\ ArgsDescriptor(e.params) = ArgDescriptor(m)
             /\ Encoded(RustParams(e)) = ArgDescriptor(m)
<1> DEFINE e == exports[k]
           ts == RustParams(e)
           ps == m.params
           reg == Registry(project.files)
<1>1. \A s \in DOMAIN ps : ts[s] \in DOMAIN Wire /\ Wire[ts[s]] = ps[s].desc /\ Wire[ts[s]] # <<>>
  <2> SUFFICES ASSUME NEW s \in DOMAIN ps
               PROVE  ts[s] \in DOMAIN Wire /\ Wire[ts[s]] = ps[s].desc /\ Wire[ts[s]] # <<>>
    OBVIOUS
  <2> DEFINE f == <<ps[s], ts[s]>>
  <2>1. f \in Fits /\ f[1] = ps[s] /\ f[2] = ts[s]
    OBVIOUS
  <2> HIDE DEF f, ps, ts
  <2>2. f[2] \in DOMAIN Wire /\ Wire[f[2]] = f[1].desc
    BY <2>1, ExportAssumption
  <2> QED BY <2>1, <2>2, BindingAssumption
<1>2. e.params = LowerTypes(ts, reg)
  BY ExportKnown DEF ResolvedAs, LoweredAs
<1>3. DOMAIN e.params = DOMAIN ps
  BY <1>2 DEF LowerTypes
<1>4. \A s \in DOMAIN ps : FieldDescriptor(e.params[s]) = Wire[ts[s]]
  <2> SUFFICES ASSUME NEW s \in DOMAIN ps PROVE FieldDescriptor(e.params[s]) = Wire[ts[s]]
    OBVIOUS
  <2>1. e.params[s] = LowerType(ts[s], reg)
    BY <1>2 DEF LowerTypes
  <2>2. ts[s] \in ToSet(ts)
    BY DEF ToSet
  <2>3. \A t \in ToSet(ts) : FieldDescriptor(LowerType(t, reg)) = IF t \in DOMAIN Wire THEN Wire[t] ELSE <<>>
    BY ExportKnown
  <2> HIDE DEF reg, e, ts, ps
  <2> QED BY <1>1, <2>1, <2>2, <2>3
<1>5. DOMAIN ts = DOMAIN ps
  OBVIOUS
<1>6. Encodable(e.params)
  BY <1>1, <1>3, <1>4 DEF Encodable
<1> HIDE DEF e, ts, ps, reg
<1>7. ArgsDescriptor(e.params) = ArgDescriptor(m)
  <2> DEFINE f == [s \in DOMAIN e.params |-> FieldDescriptor(e.params[s])]
             g == [s \in DOMAIN m.params |-> m.params[s].desc]
  <2>1. f = g
    BY <1>1, <1>3, <1>4 DEF ps
  <2> HIDE DEF f, g
  <2>2. FlattenSeq(f) = FlattenSeq(g)
    BY <2>1
  <2> QED BY <2>2 DEF ArgsDescriptor, ArgDescriptor, f, g
<1>8. Encoded(ts) = ArgDescriptor(m)
  <2> DEFINE f == [s \in DOMAIN ts |-> Wire[ts[s]]]
             g == [s \in DOMAIN m.params |-> m.params[s].desc]
  <2>1. f = g
    BY <1>1, <1>5 DEF ps
  <2> HIDE DEF f, g
  <2>2. FlattenSeq(f) = FlattenSeq(g)
    BY <2>1
  <2> QED BY <2>2 DEF Encoded, ArgDescriptor, f, g
<1> QED BY <1>6, <1>7, <1>8 DEF e, ts

\* A native and the export of its symbol.
Called(c, m, k) ==
  k \in DOMAIN exports /\ exports[k].symbol = LowerNative(c, m).symbol

\* In a crate without an error an export takes what its native gives, and says so.
LEMMA PairAgrees ==
  ASSUME SidesRead, CleanSays, ReceiversKnown, NEW c, NEW m, IsDeclared(c, m), NEW k, Called(c, m, k)
  PROVE  LET e == exports[k]
         IN  /\ Agrees(e, m)
             /\ Encodable(e.params)
             /\ ArgsDescriptor(e.params) = ArgDescriptor(m)
             /\ Encoded(RustParams(e)) = ArgDescriptor(m)
<1> DEFINE e == exports[k]
           ts == RustParams(e)
           ps == m.params
<1>1. k \in DOMAIN exports
  BY DEF Called
<1>2. PICK j \in DOMAIN natives : natives[j] = LowerNative(c, m)
  BY DeclaredAre
<1>3. natives[j].symbol = e.symbol
  BY <1>2 DEF Called
<1>4. /\ Len(natives[j].params) = Len(ps) /\ Len(e.params) = Len(ts)
      /\ DOMAIN ps = 1..Len(ps) /\ DOMAIN ts = 1..Len(ts)
      /\ DOMAIN natives[j].params = DOMAIN ps /\ DOMAIN e.params = DOMAIN ts
      /\ \A s \in DOMAIN ps \cap DOMAIN ts :
           Compare(natives[j].params[s], e.params[s]) = {} <=> <<ps[s], ts[s]>> \in Fits
      /\ Compare(natives[j].ret, e.ret) = {} <=> ReturnFits(m.ret, RustReturn(e))
  <2>1. SlotsRead(m, j, k)
    BY <1>1, <1>2, SlotsFit
  <2> QED BY <2>1 DEF SlotsRead
<1>5. /\ e.problem = "none" /\ ReceiverCodes(natives[j], e) = {}
      /\ Len(natives[j].params) = Len(e.params)
      /\ \A s \in DOMAIN natives[j].params : Compare(natives[j].params[s], e.params[s]) = {}
      /\ Compare(natives[j].ret, e.ret) = {}
  BY <1>1, <1>3 DEF CleanSays, Matches
<1>6. /\ Len(ts) = Len(ps) /\ DOMAIN ts = DOMAIN ps /\ DOMAIN e.params = DOMAIN ps
      /\ \A s \in DOMAIN ps : <<ps[s], ts[s]>> \in Fits
      /\ ReturnFits(m.ret, RustReturn(e))
  BY <1>4, <1>5
<1>7. /\ Encodable(e.params) /\ ArgsDescriptor(e.params) = ArgDescriptor(m)
      /\ Encoded(RustParams(e)) = ArgDescriptor(m)
  BY <1>1, <1>6, FittingTakes
<1> HIDE DEF e, ts, ps
<1>8. Misfits(e, m) = {}
  BY <1>6 DEF Misfits, ts, ps
<1>9. natives[j].static = m.static /\ m.static \in BOOLEAN
  BY <1>2, ProjectFacts DEF LowerNative, IsDeclared, IsClass
<1>10. LoweredAs(e, Registry(project.files))
  BY <1>1, ExportKnown DEF ResolvedAs, e
<1>11. <<m.static, e.receiver>> \notin {<<TRUE, "Object">>, <<FALSE, "Class">>}
  BY <1>5, <1>9 DEF ReceiverCodes
<1>12. ASSUME IsFn(e)
       PROVE  /\ Len(e.origin.inputs) >= 2
              /\ IsLegacy(e) => e.origin.abi # "Rust"
              /\ TakesClass(e) <=> m.static
  <2>1. ~(Len(e.origin.inputs) < 2) /\ Len(e.origin.inputs) \in Nat
    BY <1>5, <1>10, <1>12, SeqFacts DEF LoweredAs, LegacyProblem, TooFewParams
  <2>2. e.receiver = ReceiverKind(e.origin.inputs[2]) /\ e.receiver # "Unknown"
    <3>1. ~Broken(e)
      BY <1>5 DEF Broken
    <3> QED BY <1>1, <1>10, <1>12, <2>1, <3>1 DEF LoweredAs, ReceiversKnown, e
  <2>3. IsLegacy(e) => e.origin.abi # "Rust"
    BY <1>5, <1>10, <1>12 DEF LoweredAs, LegacyProblem, IsSystemAbi
  <2>4. TakesClass(e) <=> e.receiver = "Class"
    BY <1>12, <2>2 DEF TakesClass, ReceiverKind
  <2>5. e.receiver \in {"Class", "Object"}
    BY <2>2 DEF ReceiverKind
  <2>6. TakesClass(e) <=> m.static
    BY <1>9, <1>11, <2>4, <2>5
  <2>7. Len(e.origin.inputs) >= 2
    BY <2>1
  <2> QED BY <2>3, <2>6, <2>7
<1>13. ASSUME IsMacro(e) PROVE TakesClass(e) <=> m.static
  <2>1. ~IsFn(e) /\ e.receiver = IF e.origin.static THEN "Class" ELSE "Object"
    BY <1>10, <1>13 DEF LoweredAs, IsMacro
  <2> QED BY <1>9, <1>11, <2>1 DEF TakesClass
<1>14. Agrees(e, m)
  BY <1>6, <1>8, <1>12, <1>13 DEF Agrees, IsMacro, IsLegacy, ts, ps
<1> QED BY <1>7, <1>14 DEF e

\* The library has a function under the name its export has of its own, if it
\* has it at all, and Java calls it what the checker says.
LEMMA SymbolNamed ==
  ASSUME SidesRead, NEW k \in DOMAIN exports
  PROVE  LET e == exports[k]
         IN  /\ IsLegacy(e) =>
                  /\ e.class = None /\ e.symbol = OwnSymbol(e)
                  /\ SymbolsOf(e) = IF e.origin.noMangle = "no" THEN {} ELSE {OwnSymbol(e)}
             /\ IsMangle(e) => SymbolsOf(e) = {OwnSymbol(e)} /\ RustName(e) = e.name
             /\ IsMacro(e) =>
                  /\ SymbolsOf(e) = {} /\ RustName(e) = e.name
                  /\ OwnSymbol(e) = ShortSymbol(e.class, e.name)
<1> DEFINE e == exports[k]
           reg == Registry(project.files)
           m == ParseJniMangle(e.origin.mangle)
<1>1. ResolvedAs(exports, k, reg) /\ \A n \in Derived(e) : JavaName[n] = SnakeToLowerCamel(n)
  BY ExportKnown
<1>2. /\ LoweredAs(e, reg)
      /\ e.symbol = IF e.class # None /\ Cardinality(GroupOf(exports, e)) > 1 /\ Encodable(e.params)
                    THEN LongSymbol(e.class, e.name, ArgsDescriptor(e.params)) ELSE OwnSymbol(e)
  BY <1>1 DEF ResolvedAs
<1>3. /\ IsMacro(e) <=> ~IsFn(e)
      /\ IsLegacy(e) <=> IsFn(e) /\ e.origin.mangle = None
      /\ IsMangle(e) <=> IsFn(e) /\ e.origin.mangle # None
  BY DEF IsMacro, IsLegacy, IsMangle
<1> HIDE DEF reg
<1>4. ASSUME IsLegacy(e)
      PROVE  /\ e.class = None /\ e.symbol = OwnSymbol(e)
             /\ SymbolsOf(e) = IF e.origin.noMangle = "no" THEN {} ELSE {OwnSymbol(e)}
  <2>1. e.class = None
    BY <1>2, <1>4 DEF LoweredAs
  <2>2. OwnSymbol(e) = e.origin.ident
    BY <1>3, <1>4 DEF OwnSymbol
  <2>3. SymbolsOf(e) = IF e.origin.noMangle = "no" THEN {} ELSE {e.origin.ident}
    BY <1>3, <1>4 DEF SymbolsOf
  <2> QED BY <1>2, <2>1, <2>2, <2>3
<1>5. ASSUME IsMangle(e) PROVE SymbolsOf(e) = {OwnSymbol(e)} /\ RustName(e) = e.name
  <2>1. RustName(e) = e.name
    <3>1. e.name = IF m.name = None THEN SnakeToLowerCamel(e.origin.ident) ELSE m.name
      BY <1>2, <1>5 DEF LoweredAs
    <3>2. RustName(e) = IF m.name # None THEN m.name ELSE JavaName[e.origin.ident]
      BY <1>3, <1>5 DEF RustName
    <3>3. m.name = None => e.origin.ident \in Derived(e)
      BY <1>3, <1>5 DEF Derived
    <3> HIDE DEF e, m
    <3> QED BY <1>1, <3>1, <3>2, <3>3
  <2>2. SymbolsOf(e) = {IF m.signed THEN LongSymbol(e.class, e.name, m.args)
                        ELSE ShortSymbol(e.class, e.name)}
    BY <1>3, <1>5, <2>1 DEF SymbolsOf
  <2>3. OwnSymbol(e) = IF m.signed THEN LongSymbol(e.class, e.name, m.args)
                       ELSE ShortSymbol(e.class, e.name)
    BY <1>3, <1>5 DEF OwnSymbol
  <2> HIDE DEF e, m
  <2> QED BY <2>1, <2>2, <2>3
<1>6. ASSUME IsMacro(e)
      PROVE  /\ SymbolsOf(e) = {} /\ RustName(e) = e.name
             /\ OwnSymbol(e) = ShortSymbol(e.class, e.name)
  <2>1. SymbolsOf(e) = {}
    BY <1>3, <1>6 DEF SymbolsOf
  <2>2. OwnSymbol(e) = ShortSymbol(e.class, e.name)
    BY <1>3, <1>6 DEF OwnSymbol
  <2>3. RustName(e) = IF e.origin.name # None THEN e.origin.name ELSE JavaName[e.origin.fn]
    BY <1>3, <1>6 DEF RustName
  <2>4. e.name = MethodName(e.origin)
    BY <1>2, <1>6 DEF LoweredAs
  <2>5. e.name # None
    BY <1>3, <1>6, ExportKnown DEF IsMethodName, None
  <2>6. e.origin.name = None => e.origin.fn \in Derived(e)
    BY <1>3, <1>6 DEF Derived
  <2> HIDE DEF e
  <2>7. RustName(e) = e.name
    BY <1>1, <2>3, <2>4, <2>5, <2>6 DEF MethodName
  <2> QED BY <2>1, <2>2, <2>7
<1> QED BY <1>4, <1>5, <1>6 DEF e

\* In a crate without an error the long symbol of an export says what it takes,
\* and the symbol of a function is the one it has in the library.
LEMMA SymbolSays ==
  ASSUME SidesRead, CleanSays, ReceiversKnown, HonestSignatures, NEW k \in DOMAIN exports
  PROVE  LET e == exports[k]
         IN  /\ IsFn(e) => SymbolsOf(e) = {e.symbol}
             /\ IsMacro(e) =>
                  /\ SymbolsOf(e) = {} /\ RustName(e) = e.name
                  /\ e.symbol \in {ShortSymbol(e.class, e.name),
                                   LongSymbol(e.class, e.name, ArgsDescriptor(e.params))}
<1> DEFINE e == exports[k]
           m == ParseJniMangle(e.origin.mangle)
<1>1. ResolvedAs(exports, k, Registry(project.files))
  BY ExportKnown
<1>2. /\ LoweredAs(e, Registry(project.files))
      /\ e.symbol = IF e.class # None /\ Cardinality(GroupOf(exports, e)) > 1 /\ Encodable(e.params)
                    THEN LongSymbol(e.class, e.name, ArgsDescriptor(e.params)) ELSE OwnSymbol(e)
  BY <1>1 DEF ResolvedAs
<1>3. PICK c, l : IsDeclared(c, l) /\ Called(c, l, k)
  BY DeclaredAre DEF CleanSays, Called
<1>4. ArgsDescriptor(e.params) = Encoded(RustParams(e))
  BY <1>3, PairAgrees
<1>5. /\ IsMacro(e) <=> ~IsFn(e)
      /\ IsLegacy(e) <=> IsFn(e) /\ e.origin.mangle = None
      /\ IsMangle(e) <=> IsFn(e) /\ e.origin.mangle # None
  BY DEF IsMacro, IsLegacy, IsMangle
<1>6. e.problem = "none"
  BY DEF CleanSays
<1>7. ASSUME IsLegacy(e) PROVE SymbolsOf(e) = {e.symbol}
  <2>1. LegacyProblem(e.origin) = "none"
    BY <1>2, <1>5, <1>6, <1>7 DEF LoweredAs
  <2>2. e.origin.noMangle # "no"
    BY <2>1 DEF LegacyProblem, IsNoMangle
  <2> QED BY <1>7, <2>2, SymbolNamed
<1>8. ASSUME IsMangle(e) PROVE SymbolsOf(e) = {e.symbol}
  <2>1. SymbolsOf(e) = {OwnSymbol(e)}
    BY <1>8, SymbolNamed
  <2>2. OwnSymbol(e) = IF m.signed THEN LongSymbol(e.class, e.name, m.args)
                       ELSE ShortSymbol(e.class, e.name)
    BY <1>5, <1>8 DEF OwnSymbol
  <2>3. \/ GroupOf(exports, e) = {k}
        \/ m.signed /\ m.args = Encoded(RustParams(e))
    BY <1>8 DEF HonestSignatures, GroupOf
  <2>4. GroupOf(exports, e) = {k} => ~(Cardinality(GroupOf(exports, e)) > 1)
    <3>1. Cardinality({k}) = 1
      BY FS_Singleton
    <3> QED BY <3>1
  <2> HIDE DEF e, m
  <2> QED BY <1>2, <1>4, <2>1, <2>2, <2>3, <2>4
<1>9. ASSUME IsMacro(e)
      PROVE  /\ SymbolsOf(e) = {} /\ RustName(e) = e.name
             /\ e.symbol \in {ShortSymbol(e.class, e.name),
                              LongSymbol(e.class, e.name, ArgsDescriptor(e.params))}
  BY <1>2, <1>9, SymbolNamed
<1> QED BY <1>5, <1>7, <1>8, <1>9 DEF e

\* A native has names as Java has them.
LEMMA DeclaredNamed ==
  ASSUME SidesRead, NEW c, NEW m, IsDeclared(c, m)
  PROVE  /\ IsNamed(c.name, m.name, ArgDescriptor(m))
         /\ LowerNative(c, m).symbol = IF Overloaded(c, m) THEN Long(c, m) ELSE Short(c, m)
<1>1. PICK p \in Plans : project = ProjectOf(p)
  BY DEF SidesRead
<1>2. JavaNames(c)
  BY <1>1, JavaNamesAssumption DEF IsDeclared
<1>3. PICK k \in DOMAIN c.methods : m = c.methods[k]
  BY DEF IsDeclared, ToSet
<1>4. k \in NativesOf(c)
  BY <1>3 DEF NativesOf, IsDeclared
<1> QED BY <1>2, <1>3, <1>4 DEF JavaNames, IsNamed, LowerNative, Long, Short

\* Which class it is, where each is given once.
LEMMA OneClass ==
  ASSUME SidesRead, ClassesOnce, NEW c \in ToSet(project.java), NEW d \in ToSet(project.java),
         c.name = d.name
  PROVE  c = d
<1>1. IsSeq(project.java)
  BY ProjectFacts
<1>2. \A k, l \in DOMAIN project.java : project.java[k].name = project.java[l].name => k = l
  BY <1>1, NamesApart DEF ClassesOnce
<1>3. (\E k \in DOMAIN project.java : c = project.java[k]) /\ \E k \in DOMAIN project.java : d = project.java[k]
  BY DEF ToSet
<1> QED BY <1>2, <1>3

\* A native whose symbol could be m's is called as m is.
LEMMA SymbolShared ==
  ASSUME SidesRead, ClassesOnce, NEW c, NEW m, IsDeclared(c, m), NEW d, NEW n, IsDeclared(d, n),
         LowerNative(d, n).symbol \in {Short(c, m), Long(c, m)}
  PROVE  c = d /\ m.name = n.name /\ LowerNative(d, n).symbol = LowerNative(c, m).symbol
<1>1. /\ IsNamed(c.name, m.name, ArgDescriptor(m)) /\ IsNamed(d.name, n.name, ArgDescriptor(n))
      /\ LowerNative(c, m).symbol = IF Overloaded(c, m) THEN Long(c, m) ELSE Short(c, m)
      /\ LowerNative(d, n).symbol = IF Overloaded(d, n) THEN Long(d, n) ELSE Short(d, n)
  BY DeclaredNamed
<1>2. /\ Short(d, n) = Short(c, m) => d.name = c.name /\ n.name = m.name
      /\ Long(d, n) = Long(c, m) => d.name = c.name /\ n.name = m.name
      /\ Short(d, n) # Long(c, m)
  BY <1>1, SymbolReadBack DEF Short, Long
<1>3. Short(c, m) # Long(d, n)
  BY <1>1, SymbolReadBack DEF Short, Long
<1>4. d.name = c.name /\ n.name = m.name
  BY <1>1, <1>2, <1>3
<1>5. c = d
  BY <1>4, OneClass DEF IsDeclared
<1>6. Overloaded(c, m) <=> Overloaded(c, n)
  BY <1>4 DEF Overloaded
<1> QED BY <1>1, <1>2, <1>3, <1>4, <1>5, <1>6

\* What the JVM calls, by cases.
LEMMA LinkCases ==
  ASSUME NEW es, NEW c, NEW m, NEW k,
         \A l \in DOMAIN es : Registers(es[l], c, m) => l = k,
         \A l \in DOMAIN es : Short(c, m) \in SymbolsOf(es[l]) => l = k,
         \A l \in DOMAIN es : Long(c, m) \in SymbolsOf(es[l]) => l = k,
         k \in DOMAIN es,
         Registers(es[k], c, m) \/ Short(c, m) \in SymbolsOf(es[k]) \/ Long(c, m) \in SymbolsOf(es[k])
  PROVE  LinkOf(es, c, m) = {k}
<1> DEFINE registered == {l \in DOMAIN es : Registers(es[l], c, m)}
           short == {l \in DOMAIN es : Short(c, m) \in SymbolsOf(es[l])}
           long == {l \in DOMAIN es : Long(c, m) \in SymbolsOf(es[l])}
<1>1. LinkOf(es, c, m) = CASE registered # {} -> registered
                           [] registered = {} /\ short # {} -> short
                           [] OTHER -> long
  BY DEF LinkOf
<1>2. registered \subseteq {k} /\ short \subseteq {k} /\ long \subseteq {k}
  OBVIOUS
<1>3. k \in registered \/ k \in short \/ k \in long
  OBVIOUS
<1> HIDE DEF registered, short, long
<1> QED BY <1>1, <1>2, <1>3

\* In a crate without an error, the export of a native's symbol is what the JVM
\* calls for it; a macro registers it.
LEMMA CleanLinks ==
  ASSUME SidesRead, ClassesOnce, CleanSays, ReceiversKnown, HonestSignatures,
         NEW c, NEW m, IsDeclared(c, m), NEW k, Called(c, m, k)
  PROVE  LinkOf(exports, c, m) = {k} /\ (IsMacro(exports[k]) => Registers(exports[k], c, m))
<1> DEFINE e == exports[k]
           s == LowerNative(c, m).symbol
<1>1. /\ IsNamed(c.name, m.name, ArgDescriptor(m))
      /\ s = IF Overloaded(c, m) THEN Long(c, m) ELSE Short(c, m)
  BY DeclaredNamed
<1>2. k \in DOMAIN exports /\ e.symbol = s
  BY DEF Called
<1>3. ASSUME NEW l \in DOMAIN exports, exports[l].symbol \in {Short(c, m), Long(c, m)} PROVE l = k
  <2>1. PICK d, n : IsDeclared(d, n) /\ LowerNative(d, n).symbol = exports[l].symbol
    <3>1. PICK j \in DOMAIN natives : natives[j].symbol = exports[l].symbol
      BY DEF CleanSays
    <3> QED BY <3>1, DeclaredAre
  <2>2. exports[l].symbol = s
    BY <1>3, <2>1, SymbolShared
  <2> QED BY <1>2, <2>2 DEF CleanSays
<1>4. ASSUME NEW l \in DOMAIN exports, Registers(exports[l], c, m) PROVE l = k
  <2>1. /\ IsMacro(exports[l]) /\ exports[l].class = c.name /\ RustName(exports[l]) = m.name
        /\ Encoded(RustParams(exports[l])) = ArgDescriptor(m)
    BY <1>4 DEF Registers
  <2>2. ArgsDescriptor(exports[l].params) = Encoded(RustParams(exports[l]))
    <3>1. PICK d, n : IsDeclared(d, n) /\ Called(d, n, l)
      BY DeclaredAre DEF CleanSays, Called
    <3> QED BY <3>1, PairAgrees
  <2>3. exports[l].symbol \in {Short(c, m), Long(c, m)}
    BY <2>1, <2>2, SymbolSays DEF Short, Long
  <2> QED BY <1>3, <2>3
<1>5. ASSUME NEW l \in DOMAIN exports, NEW x \in {Short(c, m), Long(c, m)}, x \in SymbolsOf(exports[l])
      PROVE  l = k
  <2>1. IsFn(exports[l]) \/ IsMacro(exports[l])
    BY DEF IsMacro
  <2>2. SymbolsOf(exports[l]) = {exports[l].symbol}
    BY <1>5, <2>1, SymbolSays
  <2> QED BY <1>3, <1>5, <2>2
<1>6. ASSUME IsMacro(e) PROVE Registers(e, c, m)
  <2> DEFINE a == ArgsDescriptor(e.params)
  <2>1. RustName(e) = e.name /\ e.symbol \in {ShortSymbol(e.class, e.name), LongSymbol(e.class, e.name, a)}
    BY <1>2, <1>6, SymbolSays
  <2>2. IsNamed(e.class, e.name, a)
    BY <1>2, <1>6, ExportKnown DEF IsNamed, WrittenArgs, IsMacro, IsLegacy
  <2>3. Encoded(RustParams(e)) = ArgDescriptor(m)
    BY <1>2, PairAgrees
  <2> DEFINE b == ArgDescriptor(m)
             cn == c.name
             mn == m.name
  <2>4. e.symbol \in {ShortSymbol(cn, mn), LongSymbol(cn, mn, b)}
    BY <1>1, <1>2 DEF Short, Long
  <2>5. IsNamed(cn, mn, b)
    BY <1>1
  <2> HIDE DEF a, b, cn, mn
  <2>6. /\ ShortSymbol(e.class, e.name) = ShortSymbol(cn, mn) => e.class = cn /\ e.name = mn
        /\ LongSymbol(e.class, e.name, a) = LongSymbol(cn, mn, b) => e.class = cn /\ e.name = mn
        /\ ShortSymbol(e.class, e.name) # LongSymbol(cn, mn, b)
    BY <2>2, <2>5, SymbolReadBack
  <2>7. ShortSymbol(cn, mn) # LongSymbol(e.class, e.name, a)
    BY <2>2, <2>5, SymbolReadBack
  <2>8. e.class = cn /\ e.name = mn
    BY <2>1, <2>4, <2>6, <2>7
  <2> QED BY <1>6, <2>1, <2>3, <2>8 DEF Registers, cn, mn
<1>7. Registers(e, c, m) \/ Short(c, m) \in SymbolsOf(e) \/ Long(c, m) \in SymbolsOf(e)
  <2>1. CASE IsMacro(e)
    BY <1>6, <2>1
  <2>2. CASE IsFn(e)
    <3>1. SymbolsOf(e) = {s}
      BY <1>2, <2>2, SymbolSays
    <3> QED BY <1>1, <3>1
  <2> QED BY <2>1, <2>2 DEF IsMacro
<1>8. LinkOf(exports, c, m) = {k}
  BY <1>2, <1>4, <1>5, <1>7, LinkCases
<1> QED BY <1>6, <1>8

\* CleanMeansLinked: where nothing but a warning about a borrow or a reference is
\* reported, each native method the checker reads has one function that the JVM
\* calls for it, which takes and returns what Java declares, and everything that
\* is registered is a native method.  Two symbols of one native would be two
\* exports of one symbol or an export nobody calls, since a symbol can be read back.
THEOREM CleanIsLinked == Spec => []CleanMeansLinked
<1>1. CheckInv /\ ReportExact => CleanMeansLinked
  <2> SUFFICES ASSUME CheckInv, ReportExact, Done, ClassesOnce, HonestSignatures, ReceiversKnown, Clean
               PROVE  /\ \A p \in Declared :
                           \E k \in DOMAIN exports :
                             LinkOf(exports, p[1], p[2]) = {k} /\ Agrees(exports[k], p[2])
                      /\ \A k \in DOMAIN exports :
                           IsMacro(exports[k]) => \E p \in Declared : Registers(exports[k], p[1], p[2])
    BY DEF CleanMeansLinked
  <2>1. SidesRead
    BY DEF CheckInv
  <2>2. CleanSays
    BY <2>1, CleanRead
  <2>3. ASSUME NEW p \in Declared
        PROVE  \E k \in DOMAIN exports :
                 LinkOf(exports, p[1], p[2]) = {k} /\ Agrees(exports[k], p[2])
    <3>1. PICK c, m : p = <<c, m>> /\ IsDeclared(c, m)
      BY <2>1, DeclaredAre
    <3>2. PICK j \in DOMAIN natives : natives[j] = LowerNative(c, m)
      BY <2>1, <3>1, DeclaredAre
    <3>3. PICK k \in DOMAIN exports : Called(c, m, k)
      BY <2>2, <3>2 DEF CleanSays, Called
    <3>4. LinkOf(exports, c, m) = {k} /\ Agrees(exports[k], m)
      BY <2>1, <2>2, <3>1, <3>3, CleanLinks, PairAgrees
    <3> QED BY <3>1, <3>4
  <2>4. ASSUME NEW k \in DOMAIN exports, IsMacro(exports[k])
        PROVE  \E p \in Declared : Registers(exports[k], p[1], p[2])
    <3>1. PICK j \in DOMAIN natives : natives[j].symbol = exports[k].symbol
      BY <2>2 DEF CleanSays
    <3>2. PICK c, m : IsDeclared(c, m) /\ natives[j] = LowerNative(c, m)
      BY <2>1, DeclaredAre
    <3>3. Called(c, m, k)
      BY <3>1, <3>2 DEF Called
    <3>4. Registers(exports[k], c, m)
      BY <2>1, <2>2, <2>4, <3>2, <3>3, CleanLinks
    <3>5. <<c, m>> \in Declared /\ <<c, m>>[1] = c /\ <<c, m>>[2] = m
      BY <2>1, <3>2, DeclaredAre
    <3> QED BY <3>4, <3>5
  <2> QED BY <2>3, <2>4
<1> QED BY <1>1, CheckInvariance, ReportIsExact, PTL

-----------------------------------------------------------------------------
(* A crate without a mistake.                                              *)

\* Sets of more than one element.
LEMMA MoreThanOne ==
  ASSUME NEW S, IsFiniteSet(S), NEW a \in S
  PROVE  Cardinality(S) > 1 <=> \E b \in S : b # a
<1>1. IsFiniteSet({a}) /\ Cardinality({a}) = 1 /\ Cardinality(S) \in Nat
  BY FS_Singleton, FS_CardinalityType
<1>2. ASSUME \A b \in S : b = a PROVE ~(Cardinality(S) > 1)
  <2>1. S = {a}
    BY <1>2
  <2> QED BY <1>1, <2>1
<1>3. ASSUME NEW b \in S, b # a PROVE Cardinality(S) > 1
  <2>1. {a} \subseteq S /\ {a} # S
    BY <1>3
  <2> DEFINE T == {a}
  <2>2. T \subseteq S /\ T # S /\ Cardinality(T) = 1
    BY <1>1, <2>1
  <2> HIDE DEF T
  <2>3. Cardinality(T) <= Cardinality(S) /\ (Cardinality(S) = Cardinality(T) => T = S)
    BY <2>2, FS_Subset
  <2> QED BY <1>1, <2>2, <2>3
<1> QED BY <1>2, <1>3

\* The natives of one name, and which of them a native is.
LEMMA SameNames ==
  ASSUME SidesRead, NEW c, NEW m, IsDeclared(c, m)
  PROVE  /\ m \in SameName(c, m)
         /\ \A x \in SameName(c, m) :
              /\ x.name = m.name /\ IsNamed(c.name, x.name, ArgDescriptor(x))
              /\ ArgDescriptor(x) = ArgDescriptor(m) => x = m
              /\ ~HasIgnore(x) => IsDeclared(c, x)
         /\ Overloaded(c, m) <=> \E x \in SameName(c, m) : x # m
         /\ Overloaded(c, m) <=> Cardinality(SameName(c, m)) > 1
<1> DEFINE S == SameName(c, m)
<1>1. PICK p \in Plans : project = ProjectOf(p)
  BY DEF SidesRead
<1>2. JavaNames(c) /\ IsClass(c)
  BY <1>1, JavaNamesAssumption, ProjectFacts DEF IsDeclared
<1>3. PICK k \in DOMAIN c.methods : m = c.methods[k]
  BY DEF IsDeclared, ToSet
<1>4. k \in NativesOf(c) /\ m \in S
  BY <1>3 DEF NativesOf, IsDeclared, SameName
<1>5. \A x \in S : \E l \in NativesOf(c) : x = c.methods[l] /\ x.name = m.name
  BY DEF SameName, ToSet, NativesOf
<1>6. ASSUME NEW x \in S
      PROVE  /\ x.name = m.name /\ IsNamed(c.name, x.name, ArgDescriptor(x))
             /\ ArgDescriptor(x) = ArgDescriptor(m) => x = m
             /\ ~HasIgnore(x) => IsDeclared(c, x)
  <2>1. PICK l \in NativesOf(c) : x = c.methods[l] /\ x.name = m.name
    BY <1>5
  <2>2. IsNamed(c.name, x.name, ArgDescriptor(x))
    BY <1>2, <2>1 DEF JavaNames, IsNamed
  <2>3. ArgDescriptor(x) = ArgDescriptor(m) => l = k
    BY <1>2, <1>3, <1>4, <2>1 DEF JavaNames
  <2>4. ~HasIgnore(x) => IsDeclared(c, x)
    BY DEF SameName, IsDeclared
  <2> QED BY <1>3, <2>1, <2>2, <2>3, <2>4
<1>7. Overloaded(c, m) <=> \E x \in S : x # m
  <2> DEFINE T == {l \in DOMAIN c.methods : c.methods[l].native /\ c.methods[l].name = m.name}
  <2>1. Overloaded(c, m) <=> Cardinality(T) > 1
    BY DEF Overloaded
  <2>2. IsFiniteSet(T)
    <3>1. Len(c.methods) \in Nat /\ DOMAIN c.methods = 1..Len(c.methods)
      BY <1>2, SeqFacts DEF IsClass
    <3>2. IsFiniteSet(1..Len(c.methods)) /\ T \subseteq 1..Len(c.methods)
      BY <3>1, FS_Interval
    <3> HIDE DEF T
    <3> QED BY <3>2, FS_Subset
  <2>3. k \in T /\ T \subseteq NativesOf(c) /\ \A l \in T : c.methods[l] \in S
    BY <1>3, <1>4 DEF NativesOf, SameName, ToSet
  <2>4. \A x \in S : \E l \in T : x = c.methods[l]
    BY <1>5 DEF NativesOf
  <2>5. \A l \in T : c.methods[l] = m => l = k
    BY <1>2, <1>3, <1>4, <2>3 DEF JavaNames
  <2> HIDE DEF T, S
  <2>6. Cardinality(T) > 1 <=> \E l \in T : l # k
    BY <2>2, <2>3, MoreThanOne
  <2> QED BY <1>3, <2>1, <2>3, <2>4, <2>5, <2>6
<1>8. Overloaded(c, m) <=> Cardinality(S) > 1
  <2>1. IsFiniteSet(S)
    <3> DEFINE I == 1..Len(c.methods)
               f(l) == c.methods[l]
    <3>1. Len(c.methods) \in Nat /\ DOMAIN c.methods = I
      BY <1>2, SeqFacts DEF IsClass
    <3>2. IsFiniteSet(I)
      BY <3>1, FS_Interval
    <3> DEFINE g == [l \in I |-> c.methods[l]]
               R == {c.methods[l] : l \in I}
    <3>3. g \in Surjection(I, R)
      BY DEF Surjection
    <3>4. IsFiniteSet(R)
      BY <3>2, <3>3, FS_Surjection
    <3>5. S \subseteq R
      BY <3>1 DEF SameName, ToSet
    <3> HIDE DEF S, R
    <3> QED BY <3>4, <3>5, FS_Subset
  <2> HIDE DEF S
  <2>2. Cardinality(S) > 1 <=> \E x \in S : x # m
    BY <1>4, <2>1, MoreThanOne
  <2> QED BY <1>7, <2>2
<1> QED BY <1>4, <1>6, <1>7, <1>8

\* Export k is what the JVM calls for the native m of c, and agrees with it.
Implements(k, c, m) ==
  /\ IsDeclared(c, m) /\ k \in DOMAIN exports
  /\ LinkOf(exports, c, m) = {k} /\ Agrees(exports[k], m)

\* So it agrees with it in the checker's own words, and says what it takes.
LEMMA ImplementsMatches ==
  ASSUME SidesRead, NEW c, NEW m, NEW k, Implements(k, c, m),
         NEW j \in DOMAIN natives, natives[j] = LowerNative(c, m)
  PROVE  /\ Matches(j, k)
         /\ Encodable(exports[k].params)
         /\ ArgsDescriptor(exports[k].params) = ArgDescriptor(m)
<1> DEFINE e == exports[k]
           ts == RustParams(e)
           ps == m.params
<1>1. IsDeclared(c, m) /\ k \in DOMAIN exports /\ Agrees(e, m)
  BY DEF Implements
<1>2. /\ Len(natives[j].params) = Len(ps) /\ Len(e.params) = Len(ts)
      /\ DOMAIN ps = 1..Len(ps) /\ DOMAIN ts = 1..Len(ts)
      /\ DOMAIN natives[j].params = DOMAIN ps /\ DOMAIN e.params = DOMAIN ts
      /\ \A s \in DOMAIN ps \cap DOMAIN ts :
           Compare(natives[j].params[s], e.params[s]) = {} <=> <<ps[s], ts[s]>> \in Fits
      /\ Compare(natives[j].ret, e.ret) = {} <=> ReturnFits(m.ret, RustReturn(e))
  <2>1. SlotsRead(m, j, k)
    BY <1>1, SlotsFit
  <2> QED BY <2>1 DEF SlotsRead
<1>3. Len(ts) = Len(ps) /\ Misfits(e, m) = {}
  BY <1>1 DEF Agrees
<1>4. (\A s \in DOMAIN ps : <<ps[s], ts[s]>> \in Fits) /\ ReturnFits(m.ret, RustReturn(e))
  BY <1>3 DEF Misfits
<1>5. DOMAIN ts = DOMAIN ps
  BY <1>2, <1>3
<1>6. natives[j].static = m.static /\ m.static \in BOOLEAN
  BY <1>1, ProjectFacts DEF LowerNative, IsDeclared, IsClass
<1>7. LoweredAs(e, Registry(project.files))
  BY <1>1, ExportKnown DEF ResolvedAs
<1>8. TakesClass(e) <=> m.static
  BY <1>1 DEF Agrees
<1>9. ReceiverCodes(natives[j], e) = {}
  <2>1. CASE IsFn(e)
    <3>1. Len(e.origin.inputs) >= 2 /\ Len(e.origin.inputs) \in Nat
      BY <1>1, <1>7, <2>1, SeqFacts DEF Agrees, LoweredAs
    <3>2. e.receiver = ReceiverKind(e.origin.inputs[2])
      BY <1>7, <2>1, <3>1 DEF LoweredAs
    <3>3. TakesClass(e) <=> e.receiver = "Class"
      BY <2>1, <3>2 DEF TakesClass, ReceiverKind
    <3> QED BY <1>6, <1>8, <3>3 DEF ReceiverCodes
  <2>2. CASE ~IsFn(e)
    <3>1. e.receiver = IF e.origin.static THEN "Class" ELSE "Object"
      BY <1>7, <2>2 DEF LoweredAs, IsMacro
    <3>2. e.origin.static <=> m.static
      BY <1>8, <2>2 DEF TakesClass
    <3> QED BY <1>6, <3>1, <3>2 DEF ReceiverCodes
  <2> QED BY <2>1, <2>2
<1>10. Matches(j, k)
  BY <1>2, <1>3, <1>4, <1>5, <1>9 DEF Matches
<1> QED BY <1>1, <1>4, <1>5, <1>10, FittingTakes

\* What the JVM calls was registered or is in the library.
LEMMA LinkMeans ==
  ASSUME NEW es, NEW c, NEW m, NEW k \in LinkOf(es, c, m)
  PROVE  /\ k \in DOMAIN es
         /\ Registers(es[k], c, m) \/ Short(c, m) \in SymbolsOf(es[k]) \/ Long(c, m) \in SymbolsOf(es[k])
<1> DEFINE registered == {l \in DOMAIN es : Registers(es[l], c, m)}
           short == {l \in DOMAIN es : Short(c, m) \in SymbolsOf(es[l])}
           long == {l \in DOMAIN es : Long(c, m) \in SymbolsOf(es[l])}
<1>1. LinkOf(es, c, m) = CASE registered # {} -> registered
                           [] registered = {} /\ short # {} -> short
                           [] OTHER -> long
  BY DEF LinkOf
<1> HIDE DEF registered, short, long
<1>2. k \in registered \/ k \in short \/ k \in long
  <2>1. CASE registered # {}
    BY <1>1, <2>1
  <2>2. CASE registered = {} /\ short # {}
    BY <1>1, <2>2
  <2>3. CASE registered = {} /\ short = {}
    BY <1>1, <2>3
  <2> QED BY <2>1, <2>2, <2>3
<1> QED BY <1>2 DEF registered, short, long

\* What the JVM calls for a native has a symbol of the native, or registers it;
\* and what is not a `Java_*` function has its class and its name.
LEMMA LinkedNames ==
  ASSUME SidesRead, NEW c, NEW m, IsDeclared(c, m), NEW k \in LinkOf(exports, c, m)
  PROVE  LET e == exports[k]
         IN  /\ k \in DOMAIN exports
             /\ IsFn(e) => OwnSymbol(e) \in SymbolsOf(e) /\ OwnSymbol(e) \in {Short(c, m), Long(c, m)}
             /\ IsMacro(e) => Registers(e, c, m) /\ OwnSymbol(e) = Short(c, m)
             /\ ~IsLegacy(e) => e.class = c.name /\ e.name = m.name
<1> DEFINE e == exports[k]
           a == ParseJniMangle(e.origin.mangle).args
           signed == ParseJniMangle(e.origin.mangle).signed
<1>1. k \in DOMAIN exports
  BY LinkMeans
<1>2. Registers(e, c, m) \/ Short(c, m) \in SymbolsOf(e) \/ Long(c, m) \in SymbolsOf(e)
  BY LinkMeans
<1>3. /\ IsMacro(e) <=> ~IsFn(e)
      /\ IsLegacy(e) <=> IsFn(e) /\ ~IsMangle(e)
      /\ IsMangle(e) => IsFn(e)
  BY DEF IsMacro, IsLegacy, IsMangle
<1>4. ASSUME IsFn(e)
      PROVE  OwnSymbol(e) \in SymbolsOf(e) /\ OwnSymbol(e) \in {Short(c, m), Long(c, m)}
  <2>1. ~Registers(e, c, m)
    BY <1>3, <1>4 DEF Registers
  <2>2. \A s \in SymbolsOf(e) : s = OwnSymbol(e)
    <3>1. IsLegacy(e) => SymbolsOf(e) = IF e.origin.noMangle = "no" THEN {} ELSE {OwnSymbol(e)}
      BY <1>1, SymbolNamed
    <3>2. IsMangle(e) => SymbolsOf(e) = {OwnSymbol(e)}
      BY <1>1, SymbolNamed
    <3> HIDE DEF e
    <3> QED BY <1>3, <1>4, <3>1, <3>2
  <2> QED BY <1>2, <2>1, <2>2
<1>5. ASSUME IsMacro(e)
      PROVE  /\ Registers(e, c, m) /\ OwnSymbol(e) = Short(c, m)
             /\ e.class = c.name /\ e.name = m.name
  <2>1. /\ SymbolsOf(e) = {} /\ RustName(e) = e.name
        /\ OwnSymbol(e) = ShortSymbol(e.class, e.name)
    BY <1>1, <1>5, SymbolNamed
  <2>2. Registers(e, c, m)
    BY <1>2, <2>1
  <2>3. e.class = c.name /\ e.name = m.name
    BY <2>1, <2>2 DEF Registers
  <2> QED BY <2>1, <2>2, <2>3 DEF Short
<1>6. ASSUME IsMangle(e) PROVE e.class = c.name /\ e.name = m.name
  <2> DEFINE ec == e.class
             en == e.name
             cn == c.name
             mn == m.name
             b == ArgDescriptor(m)
  <2>1. IsNamed(ec, en, a)
    BY <1>1, <1>3, <1>6, ExportKnown DEF IsNamed, WrittenArgs
  <2>2. IsNamed(cn, mn, b)
    BY DeclaredNamed
  <2>3. OwnSymbol(e) = IF signed THEN LongSymbol(ec, en, a) ELSE ShortSymbol(ec, en)
    BY <1>3, <1>6 DEF OwnSymbol
  <2>4. OwnSymbol(e) \in {ShortSymbol(cn, mn), LongSymbol(cn, mn, b)}
    BY <1>3, <1>4, <1>6 DEF Short, Long
  <2> HIDE DEF a, b, cn, mn, ec, en, signed, e
  <2>5. /\ ShortSymbol(ec, en) = ShortSymbol(cn, mn) => ec = cn /\ en = mn
        /\ LongSymbol(ec, en, a) = LongSymbol(cn, mn, b) => ec = cn /\ en = mn
        /\ ShortSymbol(ec, en) # LongSymbol(cn, mn, b)
    BY <2>1, <2>2, SymbolReadBack
  <2>6. ShortSymbol(cn, mn) # LongSymbol(ec, en, a)
    BY <2>1, <2>2, SymbolReadBack
  <2>7. ec = cn /\ en = mn
    BY <2>3, <2>4, <2>5, <2>6
  <2> QED BY <2>7 DEF ec, en, cn, mn
<1> QED BY <1>1, <1>3, <1>4, <1>5, <1>6

\* What Conventional says of a native and what the JVM calls for it.
LEMMA ConventionSays ==
  ASSUME SidesRead, Conventional, NEW c, NEW m, IsDeclared(c, m), NEW k \in LinkOf(exports, c, m)
  PROVE  LET many == Cardinality(SameName(c, m)) > 1
         IN  /\ \A x \in SameName(c, m) : ~HasIgnore(x)
             /\ \A s \in SymbolsOf(exports[k]) : \E x \in SameName(c, m) :
                  s = IF many THEN Long(c, x) ELSE Short(c, x)
             /\ IsLegacy(exports[k]) => exports[k].origin.abi \in {"Rust", "system", "C", "extern"}
             /\ \A x \in SameName(c, m) : \A l \in LinkOf(exports, c, x) :
                  IsLegacy(exports[k]) <=> IsLegacy(exports[l])
<1> DEFINE p == <<c, m>>
           many == Cardinality(SameName(c, m)) > 1
           mine == UNION {LinkOf(exports, c, x) : x \in SameName(c, m)}
<1>1. p \in Declared /\ p[1] = c /\ p[2] = m
  BY DeclaredAre
<1>2. /\ \A x \in SameName(c, m) : ~HasIgnore(x)
      /\ \A l \in mine : SymbolsOf(exports[l]) \subseteq
           {IF many THEN Long(c, x) ELSE Short(c, x) : x \in SameName(c, m)}
      /\ \A l \in mine :
           IsLegacy(exports[l]) => exports[l].origin.abi \in {"Rust", "system", "C", "extern"}
      /\ \A l, n \in mine : IsLegacy(exports[l]) <=> IsLegacy(exports[n])
  <2> HIDE DEF p
  <2>1. /\ \A x \in SameName(p[1], p[2]) : ~HasIgnore(x)
        /\ LET d == p[1]
               n == p[2]
               all == UNION {LinkOf(exports, d, x) : x \in SameName(d, n)}
               more == Cardinality(SameName(d, n)) > 1
           IN  /\ \A l \in all : SymbolsOf(exports[l]) \subseteq
                    {IF more THEN Long(d, x) ELSE Short(d, x) : x \in SameName(d, n)}
               /\ \A l \in all :
                    IsLegacy(exports[l]) => exports[l].origin.abi \in {"Rust", "system", "C", "extern"}
               /\ \A k_1, k_2 \in all : IsLegacy(exports[k_1]) <=> IsLegacy(exports[k_2])
    BY <1>1 DEF Conventional
  <2> QED BY <1>1, <2>1
<1>3. m \in SameName(c, m)
  BY SameNames
<1>4. k \in mine /\ \A x \in SameName(c, m) : LinkOf(exports, c, x) \subseteq mine
  BY <1>3
<1> HIDE DEF mine
<1> QED BY <1>2, <1>4

\* Two natives are not implemented by one function: it would take the same for
\* both.
LEMMA OneNative ==
  ASSUME SidesRead, ClassesOnce, NEW k, NEW c, NEW m, Implements(k, c, m),
         NEW d, NEW n, Implements(k, d, n)
  PROVE  c = d /\ m = n
<1> DEFINE e == exports[k]
<1>1. /\ IsDeclared(c, m) /\ k \in LinkOf(exports, c, m)
      /\ IsDeclared(d, n) /\ k \in LinkOf(exports, d, n) /\ k \in DOMAIN exports
  BY DEF Implements
<1>2. c.name = d.name /\ m.name = n.name
  <2>1. CASE IsLegacy(e)
    <3> DEFINE cn == c.name
               mn == m.name
               a == ArgDescriptor(m)
               dn == d.name
               nn == n.name
               b == ArgDescriptor(n)
               s == OwnSymbol(e)
    <3>1. s \in {ShortSymbol(cn, mn), LongSymbol(cn, mn, a)} /\ s \in {ShortSymbol(dn, nn), LongSymbol(dn, nn, b)}
      BY <1>1, <2>1, LinkedNames DEF IsLegacy, Short, Long
    <3>2. IsNamed(cn, mn, a) /\ IsNamed(dn, nn, b)
      BY <1>1, DeclaredNamed
    <3> HIDE DEF cn, mn, a, dn, nn, b, s
    <3>3. /\ ShortSymbol(cn, mn) = ShortSymbol(dn, nn) => cn = dn /\ mn = nn
          /\ LongSymbol(cn, mn, a) = LongSymbol(dn, nn, b) => cn = dn /\ mn = nn
          /\ ShortSymbol(cn, mn) # LongSymbol(dn, nn, b)
      BY <3>2, SymbolReadBack
    <3>4. ShortSymbol(dn, nn) # LongSymbol(cn, mn, a)
      BY <3>2, SymbolReadBack
    <3>5. cn = dn /\ mn = nn
      BY <3>1, <3>3, <3>4
    <3> QED BY <3>5 DEF cn, dn, mn, nn
  <2>2. CASE ~IsLegacy(e)
    BY <1>1, <2>2, LinkedNames
  <2> QED BY <2>1, <2>2
<1>3. c = d
  BY <1>1, <1>2, OneClass DEF IsDeclared
<1>4. ArgDescriptor(m) = ArgDescriptor(n)
  <2>1. (\E j \in DOMAIN natives : natives[j] = LowerNative(c, m)) /\ \E j \in DOMAIN natives : natives[j] = LowerNative(d, n)
    BY <1>1, DeclaredAre
  <2> QED BY <2>1, ImplementsMatches
<1>5. n \in SameName(c, m)
  BY <1>1, <1>2, <1>3 DEF SameName, IsDeclared
<1> QED BY <1>1, <1>3, <1>4, <1>5, SameNames

\* Each native that is read has its export, each export its native.
AllImplemented ==
  /\ \A c, m : IsDeclared(c, m) => \E k : Implements(k, c, m)
  /\ \A k \in DOMAIN exports : \E c, m : Implements(k, c, m)

\* A function is in the library under the symbol the checker looks for.
LEMMA OwnIsLooked ==
  ASSUME SidesRead, Conventional, NEW c, NEW m, NEW k, Implements(k, c, m), IsFn(exports[k])
  PROVE  OwnSymbol(exports[k]) = LowerNative(c, m).symbol
<1> DEFINE s == OwnSymbol(exports[k])
           a == ArgDescriptor(m)
<1>1. IsDeclared(c, m) /\ k \in LinkOf(exports, c, m)
  BY DEF Implements
<1>2. /\ IsNamed(c.name, m.name, a)
      /\ LowerNative(c, m).symbol = IF Overloaded(c, m) THEN Long(c, m) ELSE Short(c, m)
  BY <1>1, DeclaredNamed
<1>3. s \in SymbolsOf(exports[k]) /\ s \in {Short(c, m), Long(c, m)}
  BY <1>1, LinkedNames
<1>4. PICK x \in SameName(c, m) : s = IF Cardinality(SameName(c, m)) > 1 THEN Long(c, x) ELSE Short(c, x)
  BY <1>1, <1>3, ConventionSays
<1>5. /\ Overloaded(c, m) <=> Cardinality(SameName(c, m)) > 1
      /\ IsNamed(c.name, x.name, ArgDescriptor(x))
  BY <1>1, SameNames
<1>6. Short(c, m) # Long(c, x) /\ Short(c, x) # Long(c, m)
  BY <1>2, <1>5, SymbolReadBack DEF Short, Long
<1> HIDE DEF s
<1>7. s = LowerNative(c, m).symbol
  <2>1. CASE Overloaded(c, m)
    BY <1>2, <1>3, <1>4, <1>5, <1>6, <2>1
  <2>2. CASE ~Overloaded(c, m)
    BY <1>2, <1>3, <1>4, <1>5, <1>6, <2>2
  <2> QED BY <2>1, <2>2
<1> QED BY <1>7 DEF s

\* An export is of an overloaded method if and only if the checker sees another
\* of its class and name.
LEMMA GroupsOverload ==
  ASSUME SidesRead, ClassesOnce, Conventional, AllImplemented,
         NEW c, NEW m, NEW k, Implements(k, c, m), ~IsLegacy(exports[k])
  PROVE  Cardinality(GroupOf(exports, exports[k])) > 1 <=> Overloaded(c, m)
<1> DEFINE e == exports[k]
           G == GroupOf(exports, e)
<1>1. IsDeclared(c, m) /\ k \in LinkOf(exports, c, m) /\ k \in DOMAIN exports
  BY DEF Implements
<1>2. e.class = c.name /\ e.name = m.name /\ e.class # None
  <2>1. e.class = c.name /\ e.name = m.name
    BY <1>1, LinkedNames
  <2>2. e.class # None
    BY <1>1, ExportKnown DEF IsClassName, None
  <2> QED BY <2>1, <2>2
<1>3. k \in G /\ IsFiniteSet(G)
  <2>1. k \in G /\ G \subseteq DOMAIN exports
    BY <1>1 DEF GroupOf
  <2>2. IsFiniteSet(DOMAIN exports)
    <3>1. Len(exports) \in Nat /\ DOMAIN exports = 1..Len(exports)
      BY SideFacts
    <3> QED BY <3>1, FS_Interval
  <2> HIDE DEF G
  <2> QED BY <2>1, <2>2, FS_Subset
<1> HIDE DEF e, G
<1>4. Cardinality(G) > 1 <=> \E l \in G : l # k
  BY <1>3, MoreThanOne
<1>5. ASSUME NEW l \in G, l # k PROVE Overloaded(c, m)
  <2>1. l \in DOMAIN exports /\ exports[l].class = e.class /\ exports[l].name = e.name
    BY DEF G, GroupOf
  <2>2. ~IsLegacy(exports[l])
    BY <1>2, <2>1, SymbolNamed
  <2>3. PICK d, n : Implements(l, d, n)
    BY <2>1 DEF AllImplemented
  <2>4. IsDeclared(d, n) /\ l \in LinkOf(exports, d, n) /\ LinkOf(exports, d, n) = {l} /\ LinkOf(exports, c, m) = {k}
    BY <2>3 DEF Implements
  <2>5. exports[l].class = d.name /\ exports[l].name = n.name
    BY <2>2, <2>4, LinkedNames
  <2>6. d = c /\ n.name = m.name
    BY <1>1, <1>2, <2>1, <2>4, <2>5, OneClass DEF IsDeclared
  <2>7. n \in SameName(c, m) /\ n # m
    BY <1>5, <2>4, <2>6 DEF SameName, IsDeclared
  <2> QED BY <1>1, <2>7, SameNames
<1>6. ASSUME Overloaded(c, m) PROVE \E l \in G : l # k
  <2>1. PICK n \in SameName(c, m) : n # m
    BY <1>1, <1>6, SameNames
  <2>2. IsDeclared(c, n) /\ n.name = m.name
    BY <1>1, SameNames, ConventionSays
  <2>3. PICK l : Implements(l, c, n)
    BY <2>2 DEF AllImplemented
  <2>4. l \in LinkOf(exports, c, n) /\ l \in DOMAIN exports
    BY <2>3 DEF Implements
  <2>5. ~IsLegacy(exports[l])
    BY <1>1, <2>1, <2>4, ConventionSays
  <2>6. exports[l].class = c.name /\ exports[l].name = n.name
    BY <2>2, <2>4, <2>5, LinkedNames
  <2>7. l \in G
    BY <1>2, <2>2, <2>4, <2>6 DEF G, GroupOf
  <2>8. l # k
    BY <2>1, <2>3, OneNative
  <2> QED BY <2>7, <2>8
<1> QED BY <1>4, <1>5, <1>6 DEF G, e

\* An export that implements a native has its symbol.
LEMMA ImplementsCalled ==
  ASSUME SidesRead, ClassesOnce, Conventional, AllImplemented,
         NEW c, NEW m, NEW k, Implements(k, c, m)
  PROVE  Called(c, m, k)
<1> DEFINE e == exports[k]
           s == LowerNative(c, m).symbol
<1>1. IsDeclared(c, m) /\ k \in LinkOf(exports, c, m) /\ k \in DOMAIN exports
  BY DEF Implements
<1>2. s = IF Overloaded(c, m) THEN Long(c, m) ELSE Short(c, m)
  BY <1>1, DeclaredNamed
<1>3. e.symbol = IF e.class # None /\ Cardinality(GroupOf(exports, e)) > 1 /\ Encodable(e.params)
                 THEN LongSymbol(e.class, e.name, ArgsDescriptor(e.params)) ELSE OwnSymbol(e)
  BY <1>1, ExportKnown DEF ResolvedAs
<1>4. e.symbol = s
  <2>1. CASE IsLegacy(e)
    <3>1. e.symbol = OwnSymbol(e)
      BY <1>1, <2>1, SymbolNamed
    <3>2. IsFn(e)
      BY <2>1 DEF IsLegacy
    <3> QED BY <3>1, <3>2, OwnIsLooked
  <2>2. CASE ~IsLegacy(e)
    <3>1. e.class = c.name /\ e.name = m.name
      BY <1>1, <2>2, LinkedNames
    <3>2. e.class # None
      BY <1>1, <2>2, ExportKnown DEF IsClassName, None
    <3>3. Cardinality(GroupOf(exports, e)) > 1 <=> Overloaded(c, m)
      BY <2>2, GroupsOverload
    <3>4. Encodable(e.params) /\ ArgsDescriptor(e.params) = ArgDescriptor(m)
      <4>1. PICK j \in DOMAIN natives : natives[j] = LowerNative(c, m)
        BY <1>1, DeclaredAre
      <4> QED BY <4>1, ImplementsMatches
    <3>5. CASE Overloaded(c, m)
      BY <1>2, <1>3, <3>1, <3>2, <3>3, <3>4, <3>5 DEF Long
    <3>6. CASE ~Overloaded(c, m)
      <4>1. e.symbol = OwnSymbol(e)
        BY <1>3, <3>3, <3>6
      <4>2. IsMacro(e) => OwnSymbol(e) = Short(c, m)
        BY <1>1, LinkedNames
      <4>3. IsFn(e) => OwnSymbol(e) = s
        BY OwnIsLooked
      <4>4. IsFn(e) \/ IsMacro(e)
        BY DEF IsMacro
      <4> QED BY <1>2, <3>6, <4>1, <4>2, <4>3, <4>4
    <3> QED BY <3>5, <3>6
  <2> QED BY <2>1, <2>2
<1> QED BY <1>1, <1>4 DEF Called

\* Nothing is wrong with an export that implements a native.
LEMMA ImplementsWell ==
  ASSUME SidesRead, Conventional, NEW c, NEW m, NEW k, Implements(k, c, m)
  PROVE  exports[k].problem = "none"
<1> DEFINE e == exports[k]
<1>1. IsDeclared(c, m) /\ k \in LinkOf(exports, c, m) /\ k \in DOMAIN exports /\ Agrees(e, m)
  BY DEF Implements
<1>2. LoweredAs(e, Registry(project.files))
  BY <1>1, ExportKnown DEF ResolvedAs
<1>3. CASE IsMacro(e)
  BY <1>2, <1>3 DEF LoweredAs
<1>4. CASE IsFn(e)
  <2>1. TooFewParams(e.origin) = "none"
    <3>1. Len(e.origin.inputs) >= 2 /\ Len(e.origin.inputs) \in Nat
      BY <1>1, <1>2, <1>4, SeqFacts DEF Agrees, LoweredAs
    <3> QED BY <3>1 DEF TooFewParams
  <2>2. IsLegacy(e) => LegacyProblem(e.origin) = "none"
    <3> SUFFICES ASSUME IsLegacy(e) PROVE LegacyProblem(e.origin) = "none"
      OBVIOUS
    <3>1. SymbolsOf(e) # {} /\ SymbolsOf(e) = IF e.origin.noMangle = "no" THEN {} ELSE {OwnSymbol(e)}
      BY <1>1, <1>4, LinkedNames, SymbolNamed
    <3>2. e.origin.noMangle # "no"
      BY <3>1
    <3>3. IsNoMangle(e.origin)
      BY <1>2, <1>4, <3>2 DEF LoweredAs, Kept, IsNoMangle
    <3>4. e.origin.abi \in {"Rust", "system", "C", "extern"} /\ e.origin.abi # "Rust"
      BY <1>1, ConventionSays DEF Agrees
    <3> QED BY <2>1, <3>3, <3>4 DEF LegacyProblem, IsSystemAbi
  <2> QED BY <1>2, <1>4, <2>1, <2>2 DEF LoweredAs
<1> QED BY <1>3, <1>4 DEF IsMacro

\* Where the JVM has one agreeing function for each native and no other, the two
\* sides have the symbols in common.
LEMMA ImplementedIsClean ==
  ASSUME SidesRead, ClassesOnce, Conventional, AllImplemented
  PROVE  CleanSays
<1>1. NativesDiffer
  BY NativesDo
<1>2. ASSUME NEW k \in DOMAIN exports
      PROVE  \E c, m : \E j \in DOMAIN natives :
               /\ Implements(k, c, m) /\ natives[j] = LowerNative(c, m)
               /\ natives[j].symbol = exports[k].symbol
  <2>1. PICK c, m : Implements(k, c, m)
    BY DEF AllImplemented
  <2>2. PICK j \in DOMAIN natives : natives[j] = LowerNative(c, m)
    BY <2>1, DeclaredAre DEF Implements
  <2>3. Called(c, m, k)
    BY <2>1, ImplementsCalled
  <2> QED BY <2>1, <2>2, <2>3 DEF Called
<1>3. \A k \in DOMAIN exports : exports[k].problem = "none"
  BY <1>2, ImplementsWell
<1>4. ASSUME NEW k \in DOMAIN exports, NEW l \in DOMAIN exports, exports[k].symbol = exports[l].symbol
      PROVE  k = l
  <2>1. PICK c, m : \E j \in DOMAIN natives :
          /\ Implements(k, c, m) /\ natives[j] = LowerNative(c, m)
          /\ natives[j].symbol = exports[k].symbol
    BY <1>2
  <2>2. PICK d, n : \E j \in DOMAIN natives :
          /\ Implements(l, d, n) /\ natives[j] = LowerNative(d, n)
          /\ natives[j].symbol = exports[l].symbol
    BY <1>2
  <2>3. LowerNative(c, m) = LowerNative(d, n)
    BY <1>1, <1>4, <2>1, <2>2 DEF NativesDiffer
  <2>4. LowerNative(c, m).class = c.name /\ LowerNative(c, m).origin = m
    BY DEF LowerNative
  <2>5. LowerNative(d, n).class = d.name /\ LowerNative(d, n).origin = n
    BY DEF LowerNative
  <2>6. c = d /\ m = n
    <3>1. c \in ToSet(project.java) /\ d \in ToSet(project.java)
      BY <2>1, <2>2 DEF Implements, IsDeclared
    <3> QED BY <2>3, <2>4, <2>5, <3>1, OneClass
  <2>7. LinkOf(exports, c, m) = {k} /\ LinkOf(exports, d, n) = {l}
    BY <2>1, <2>2 DEF Implements
  <2> QED BY <2>6, <2>7
<1>5. ASSUME NEW j \in DOMAIN natives
      PROVE  \E k \in DOMAIN exports : natives[j].symbol = exports[k].symbol
  <2>1. PICK c, m : IsDeclared(c, m) /\ natives[j] = LowerNative(c, m)
    BY DeclaredAre
  <2>2. PICK k : Implements(k, c, m)
    BY <2>1 DEF AllImplemented
  <2>3. Called(c, m, k)
    BY <2>2, ImplementsCalled
  <2> QED BY <2>1, <2>3 DEF Called
<1>6. ASSUME NEW j \in DOMAIN natives, NEW k \in DOMAIN exports, natives[j].symbol = exports[k].symbol
      PROVE  Matches(j, k)
  <2>1. PICK c, m : \E q \in DOMAIN natives :
          /\ Implements(k, c, m) /\ natives[q] = LowerNative(c, m)
          /\ natives[q].symbol = exports[k].symbol
    BY <1>2
  <2>2. natives[j] = LowerNative(c, m)
    BY <1>1, <1>6, <2>1 DEF NativesDiffer
  <2> QED BY <2>1, <2>2, ImplementsMatches
<1> QED BY <1>2, <1>3, <1>4, <1>5, <1>6 DEF CleanSays, Matches

\* Two sides with which nothing is wrong are reported so.
LEMMA SaysClean == ASSUME SidesRead, ReportExact, Done, CleanSays, NativesDiffer PROVE Clean
<1> DEFINE Fine(d) == d.code \in RefErrors \cup {"W003"}
<1>1. \A code, digit, j, k, s : Diag(code, digit, j, k, s).code = code
  BY DEF Diag
<1>2. \A k \in DOMAIN exports : ~Broken(exports[k])
  BY DEF CleanSays, Broken
<1>3. \A s : OfSymbol(s) = {k \in DOMAIN exports : exports[k].symbol = s}
  BY <1>2 DEF OfSymbol, Unbroken
<1>4. DOMAIN exports \subseteq Nat /\ DOMAIN natives \subseteq Nat
  BY SideFacts
<1>5. ASSUME NEW k \in DOMAIN exports PROVE ExportSays(k) = {}
  <2>1. Before(OfSymbol(exports[k].symbol), k) = {}
    <3>1. \A l \in OfSymbol(exports[k].symbol) : l = k /\ ~(l < k)
      BY <1>3, <1>4 DEF CleanSays
    <3> QED BY <3>1 DEF Before
  <2> QED BY <1>2, <2>1 DEF ExportSays
<1>6. ASSUME NEW k \in DOMAIN exports, NEW d \in CallSays(k) PROVE Fine(d)
  <2>1. Callers(exports[k].symbol) # {}
    BY DEF CleanSays, Callers
  <2> QED BY <1>1, <2>1 DEF CallSays
<1>7. ASSUME NEW k \in DOMAIN refs, NEW d \in RefSays(k) PROVE Fine(d)
  <2>1. CodesOf(k) \subseteq RefErrors
    BY SideFacts, RefCodesType DEF CodesOf
  <2> QED BY <1>1, <2>1 DEF RefSays
<1>8. ASSUME NEW j \in DOMAIN natives PROVE NativeSays(j) = {}
  <2> DEFINE s == natives[j].symbol
  <2>1. Before(Callers(s), j) = {}
    <3>1. \A q \in Callers(s) : q = j /\ ~(q < j)
      BY <1>4 DEF NativesDiffer, Callers
    <3> QED BY <3>1 DEF Before
  <2>2. PICK k \in DOMAIN exports : natives[j].symbol = exports[k].symbol
    BY DEF CleanSays
  <2>3. OfSymbol(s) = {k}
    BY <1>3, <2>2 DEF CleanSays
  <2>4. Max(OfSymbol(s)) = k
    <3>1. {k} \in SUBSET Nat /\ k \in {k} /\ \A l \in {k} : l <= k
      BY <1>4
    <3>2. Max({k}) = k
      BY <3>1, TheGreatest
    <3> QED BY <2>3, <3>2
  <2>5. Matches(j, k)
    BY <2>2 DEF CleanSays, Matches
  <2>6. PairSays(j, k) = {}
    BY <2>5 DEF Matches, PairSays
  <2> HIDE DEF s
  <2> QED BY <2>1, <2>3, <2>4, <2>6 DEF NativeSays, s
<1>9. ASSUME NEW d \in report PROVE Fine(d)
  BY <1>5, <1>6, <1>7, <1>8 DEF ReportExact
<1> QED BY <1>9 DEF Clean

\* NoFalseAlarm: a crate in which the JVM calls one function for each native, which
\* takes and returns what Java declares, and which exports nothing else, is reported
\* clean.  That an export is of an overloaded method shows on the Rust side, in the
\* exports of its class and name, exactly when it does on Java's, in the natives; so
\* both sides come to the same symbol.
THEOREM NoAlarmIsFalse == Spec => []NoFalseAlarm
<1>1. CheckInv /\ ReportExact => NoFalseAlarm
  <2> SUFFICES ASSUME CheckInv, ReportExact, Done, ClassesOnce, Conventional,
                      \A p \in Declared :
                        \E k \in DOMAIN exports :
                          LinkOf(exports, p[1], p[2]) = {k} /\ Agrees(exports[k], p[2]),
                      \A k \in DOMAIN exports : \E p \in Declared : k \in LinkOf(exports, p[1], p[2])
               PROVE  Clean
    BY DEF NoFalseAlarm
  <2>1. SidesRead
    BY DEF CheckInv
  <2>2. ASSUME NEW c, NEW m, IsDeclared(c, m) PROVE \E k : Implements(k, c, m)
    <3> DEFINE p == <<c, m>>
    <3>1. p \in Declared /\ p[1] = c /\ p[2] = m
      BY <2>1, <2>2, DeclaredAre
    <3> HIDE DEF p
    <3>2. PICK k \in DOMAIN exports : LinkOf(exports, p[1], p[2]) = {k} /\ Agrees(exports[k], p[2])
      BY <3>1
    <3> QED BY <2>2, <3>1, <3>2 DEF Implements
  <2>3. ASSUME NEW k \in DOMAIN exports PROVE \E c, m : Implements(k, c, m)
    <3>1. PICK p \in Declared : k \in LinkOf(exports, p[1], p[2])
      OBVIOUS
    <3>2. PICK c, m : p = <<c, m>> /\ IsDeclared(c, m)
      BY <2>1, DeclaredAre
    <3>3. PICK l : Implements(l, c, m)
      BY <2>2, <3>2
    <3>4. k = l
      BY <3>1, <3>2, <3>3 DEF Implements
    <3> QED BY <3>3, <3>4
  <2>4. AllImplemented
    BY <2>2, <2>3 DEF AllImplemented
  <2> QED BY <2>1, <2>4, ImplementedIsClean, NativesDo, SaysClean
<1> QED BY <1>1, CheckInvariance, ReportIsExact, PTL

-----------------------------------------------------------------------------
(* The slots that are reported.                                            *)

\* The slots of native j and export k that the comparison finds to differ.
SlotsSaid(j, k) ==
  {s \in DOMAIN natives[j].params : Compare(natives[j].params[s], exports[k].params[s]) # {}}
    \cup IF Compare(natives[j].ret, exports[k].ret) # {} THEN {0} ELSE {}

IsSlotDiag(d, j) == d.java = j /\ d.code \in {"E02", "E03"}

\* Nothing but the comparison of a native with its export has such a code.
LEMMA SlotDiagsOf ==
  ASSUME SidesRead, ReportExact, Done, NEW j \in DOMAIN natives, OfSymbol(natives[j].symbol) # {},
         NEW k, k = Max(OfSymbol(natives[j].symbol))
  PROVE  {d \in report : IsSlotDiag(d, j)} = {d \in PairSays(j, k) : IsSlotDiag(d, j)}
<1>1. \A code, digit, java, rust, s :
        /\ Diag(code, digit, java, rust, s).code = code
        /\ Diag(code, digit, java, rust, s).java = java
  BY DEF Diag
<1>2. ASSUME NEW l \in DOMAIN exports, NEW d \in ExportSays(l) \cup CallSays(l) PROVE ~IsSlotDiag(d, j)
  <2>1. Broken(exports[l]) => ProblemCode[exports[l].problem] \in {"W002", "E004"}
    BY SideFacts DEF Broken, Problems, ProblemCode
  <2>2. d.code \in {"W002", "E004", "E000", "W001", "W003"}
    BY <1>1, <2>1 DEF ExportSays, CallSays
  <2> QED BY <2>2 DEF IsSlotDiag
<1>3. ASSUME NEW l \in DOMAIN refs, NEW d \in RefSays(l) PROVE ~IsSlotDiag(d, j)
  <2>1. refs[l].kind \in RefKinds
    BY SideFacts
  <2>2. CodesOf(l) \subseteq RefErrors
    BY <2>1, RefCodesType DEF CodesOf
  <2>3. d.code \in RefErrors
    BY <1>1, <2>2 DEF RefSays
  <2> QED BY <2>3 DEF RefErrors, IsSlotDiag
<1>4. \A l, n : \A d \in PairSays(l, n) : d.java = l
  BY <1>1 DEF PairSays
<1>5. ASSUME NEW l \in DOMAIN natives, NEW d \in NativeSays(l), IsSlotDiag(d, j)
      PROVE  d \in PairSays(j, k)
  <2>1. d.code # "E005" /\ d.code # "E001" /\ d.java = j
    BY <1>5 DEF IsSlotDiag
  <2>2. d \in PairSays(l, Max(OfSymbol(natives[l].symbol)))
    BY <1>1, <2>1 DEF NativeSays
  <2>3. l = j
    BY <1>4, <2>1, <2>2
  <2> QED BY <2>2, <2>3
<1>6. PairSays(j, k) \subseteq report
  <2>1. PairSays(j, k) \subseteq NativeSays(j)
    BY DEF NativeSays
  <2> QED BY <2>1 DEF ReportExact
<1>7. ASSUME NEW d \in report, IsSlotDiag(d, j) PROVE d \in PairSays(j, k)
  BY <1>2, <1>3, <1>5, <1>7 DEF ReportExact
<1> QED BY <1>6, <1>7

\* The slots such diagnostics name.
LEMMA SlotsNamed ==
  ASSUME NEW j, NEW k, Len(natives[j].params) = Len(exports[k].params)
  PROVE  {d.slot : d \in {x \in PairSays(j, k) : IsSlotDiag(x, j)}} = SlotsSaid(j, k)
<1> DEFINE n == natives[j]
           e == exports[k]
           slots == {d.slot : d \in {x \in PairSays(j, k) : IsSlotDiag(x, j)}}
<1>1. \A code, digit, java, rust, s :
        LET d == Diag(code, digit, java, rust, s)
        IN  d.code = code /\ d.java = java /\ d.slot = s
  BY DEF Diag
<1>2. ASSUME NEW d \in PairSays(j, k), IsSlotDiag(d, j) PROVE d.slot \in SlotsSaid(j, k)
  <2>1. \A c \in ReceiverCodes(n, e) : c = "E002"
    BY DEF ReceiverCodes
  <2>2. d \notin {Diag(c, 0, j, k, 0) : c \in ReceiverCodes(n, e)}
    BY <1>1, <1>2, <2>1 DEF IsSlotDiag
  <2>3. \/ \E s \in DOMAIN n.params : \E x \in Compare(n.params[s], e.params[s]) : d = Diag("E02", x, j, k, s)
        \/ \E x \in Compare(n.ret, e.ret) : d = Diag("E03", x, j, k, 0)
    BY <2>2 DEF PairSays
  <2>4. CASE \E s \in DOMAIN n.params : \E x \in Compare(n.params[s], e.params[s]) : d = Diag("E02", x, j, k, s)
    <3>1. PICK s \in DOMAIN n.params : \E x \in Compare(n.params[s], e.params[s]) : d = Diag("E02", x, j, k, s)
      BY <2>4
    <3>2. d.slot = s
      BY <1>1, <3>1
    <3> QED BY <3>1, <3>2 DEF SlotsSaid
  <2>5. CASE \E x \in Compare(n.ret, e.ret) : d = Diag("E03", x, j, k, 0)
    <3>1. d.slot = 0
      BY <1>1, <2>5
    <3> QED BY <2>5, <3>1 DEF SlotsSaid
  <2> QED BY <2>3, <2>4, <2>5
<1>3. ASSUME NEW s \in SlotsSaid(j, k)
      PROVE  \E d \in PairSays(j, k) : IsSlotDiag(d, j) /\ d.slot = s
  <2>1. CASE s \in DOMAIN n.params /\ Compare(n.params[s], e.params[s]) # {}
    <3>1. PICK x \in Compare(n.params[s], e.params[s]) : TRUE
      BY <2>1
    <3>2. Diag("E02", x, j, k, s) \in PairSays(j, k)
      BY <2>1, <3>1 DEF PairSays
    <3> QED BY <1>1, <3>2 DEF IsSlotDiag
  <2>2. CASE s = 0 /\ Compare(n.ret, e.ret) # {}
    <3>1. PICK x \in Compare(n.ret, e.ret) : TRUE
      BY <2>2
    <3>2. Diag("E03", x, j, k, 0) \in PairSays(j, k)
      BY <3>1 DEF PairSays
    <3> QED BY <1>1, <2>2, <3>2 DEF IsSlotDiag
  <2> QED BY <2>1, <2>2 DEF SlotsSaid
<1> QED BY <1>2, <1>3

\* SlotsExact: of a native and the export it is paired with, the slots that are
\* reported are those that Java and Rust declare differently, each where it is.
THEOREM SlotsAreExact == Spec => []SlotsExact
<1>1. CheckInv /\ SideInv /\ ReportExact => SlotsExact
  <2> SUFFICES ASSUME CheckInv, SideInv, ReportExact, Done,
                      NEW j \in DOMAIN natives, natives[j].symbol \in DOMAIN index,
                      Len(natives[j].params) = Len(exports[index[natives[j].symbol]].params)
               PROVE  Misfits(exports[index[natives[j].symbol]], natives[j].origin)
                        = {d.slot : d \in {x \in report : x.java = j /\ x.code \in {"E02", "E03"}}}
    BY DEF SlotsExact
  <2> DEFINE s == natives[j].symbol
             k == index[s]
             e == exports[k]
             m == natives[j].origin
  <2>1. SidesRead
    BY DEF CheckInv
  <2>2. Indexed = DOMAIN exports /\ DOMAIN exports \in SUBSET Nat
    <3>1. Order["index"] = 1 /\ Order["done"] = 5 /\ phase = "done"
      BY DEF Order, Phases, Done
    <3> QED BY <2>1, <3>1, SideFacts DEF Indexed, PassedAt
  <2>3. k \in OfSymbol(s) /\ k = Max(OfSymbol(s)) /\ k \in DOMAIN exports
    <3>1. k \in OfSymbol(s) /\ (\A l \in OfSymbol(s) : l <= k) /\ OfSymbol(s) \in SUBSET Nat
      BY <2>2 DEF SideInv, IndexInv, OfSymbol, Unbroken
    <3>2. k \in DOMAIN exports
      BY <3>1 DEF OfSymbol, Unbroken
    <3> QED BY <3>1, <3>2, TheGreatest
  <2>4. PICK c, l : IsDeclared(c, l) /\ natives[j] = LowerNative(c, l)
    BY <2>1, DeclaredAre
  <2>5. m = l
    BY <2>4 DEF LowerNative
  <2>6. SlotsRead(m, j, k)
    BY <2>1, <2>3, <2>4, <2>5, SlotsFit
  <2>7. SlotsSaid(j, k) = Misfits(e, m)
    <3> HIDE DEF k, m
    <3>1. DOMAIN RustParams(e) = DOMAIN m.params /\ DOMAIN natives[j].params = DOMAIN m.params
      BY <2>6 DEF SlotsRead, k
    <3>2. \A x \in DOMAIN m.params :
            Compare(natives[j].params[x], e.params[x]) = {} <=> <<m.params[x], RustParams(e)[x]>> \in Fits
      BY <2>6, <3>1 DEF SlotsRead
    <3>3. Compare(natives[j].ret, e.ret) = {} <=> ReturnFits(m.ret, RustReturn(e))
      BY <2>6 DEF SlotsRead
    <3> QED BY <3>1, <3>2, <3>3 DEF SlotsSaid, Misfits
  <2>8. {x \in report : IsSlotDiag(x, j)} = {x \in PairSays(j, k) : IsSlotDiag(x, j)}
    BY <2>1, <2>3, SlotDiagsOf
  <2>9. {d.slot : d \in {x \in PairSays(j, k) : IsSlotDiag(x, j)}} = SlotsSaid(j, k)
    BY SlotsNamed
  <2>10. {x \in report : IsSlotDiag(x, j)} = {x \in report : x.java = j /\ x.code \in {"E02", "E03"}}
    BY DEF IsSlotDiag
  <2> QED BY <2>7, <2>8, <2>9, <2>10
<1> QED BY <1>1, CheckInvariance, LoopsSaid, ReportIsExact, PTL

-----------------------------------------------------------------------------
(* Handles in fields.                                                      *)

\* The two rules for when handles agree, `compare` and `pointer_matches`, are one.
LEMMA OneRule ==
  ASSUME NEW kind, NEW type, NEW nullable, NEW rust, rust.ir = "Pointer"
  PROVE  Compare(Handle(kind, type, nullable), rust) = {}
           <=> PointerMatches(rust, Ann(kind, type, nullable))
<1> DEFINE j == Handle(kind, type, nullable)
           a == Ann(kind, type, nullable)
<1>1. j.ir = "Pointer" /\ j.kind = kind /\ j.type = type /\ j.nullable = nullable
  BY DEF Handle
<1>2. a.kind = kind /\ a.type = type /\ a.nullable = nullable
  BY DEF Ann
<1> HIDE DEF j, a
<1>3. Compare(j, rust) = ComparePointers(j, rust)
  BY <1>1 DEF Compare
<1>4. ComparePointers(j, rust) = {}
        <=> /\ j.kind = rust.kind /\ j.type = rust.type
            /\ j.kind \in Borrows => j.nullable = rust.nullable
  BY DEF ComparePointers
<1> QED BY <1>1, <1>2, <1>3, <1>4 DEF PointerMatches, j, a

\* Of a long that says at most one thing of a handle, a field and a parameter say
\* the same, although one keeps the first annotation and the other the last.
LEMMA SaidOnce ==
  ASSUME NEW slot, slot.desc = <<"J">>, IsSeq(slot.annotations),
         \A a, b \in Markers(slot) : a = b, NEW rust, rust.ir = "Pointer"
  PROVE  /\ Markers(slot) = {} <=> FieldPointerAnnotation(slot) = NoAnn
         /\ Markers(slot) # {} =>
              (PointerMatches(rust, FieldPointerAnnotation(slot))
                 <=> Compare(LowerSlot(Collected(slot)), rust) = {})
<1> DEFINE as == slot.annotations
           ks == TopLevel(slot)
<1>1. \A k \in DOMAIN as : k \in ks <=> as[k] \in Markers(slot)
  BY DEF TopLevel, Markers, PointerKinds, ToSet
<1>2. ks \subseteq DOMAIN as /\ \A a \in Markers(slot) : \E k \in DOMAIN as : a = as[k]
  BY DEF TopLevel, Markers, ToSet
<1>3. DOMAIN as = 1..Len(as) /\ Len(as) \in Nat
  BY SeqFacts
<1> HIDE DEF ks
<1>4. ks = {} <=> Markers(slot) = {}
  BY <1>1, <1>2
<1>5. ASSUME ks # {}
      PROVE  /\ FieldPointerAnnotation(slot) # NoAnn
             /\ PointerMatches(rust, FieldPointerAnnotation(slot))
                  <=> Compare(LowerSlot(Collected(slot)), rust) = {}
  <2>1. ks \in SUBSET Nat /\ \A k \in ks : k <= Len(as)
    BY <1>2, <1>3
  <2>2. Min(ks) \in ks
    BY <1>5, <2>1, LeastNat
  <2>3. Max(ks) \in ks
    <3>1. ks \in SUBSET (1..Len(as))
      BY <1>2, <1>3
    <3> QED BY <1>3, <1>5, <3>1, WithoutGreatest
  <2>4. as[Max(ks)] = as[Min(ks)] /\ as[Min(ks)].class \in PointerKinds
    BY <1>1, <1>2, <2>2, <2>3 DEF ks, TopLevel
  <2> DEFINE a == as[Min(ks)]
             m == ReadMembers(a.elements)
  <2>5. /\ FieldPointerAnnotation(slot) = Ann(a.class, m.type, m.nullable)
        /\ Collected(slot) = [desc |-> slot.desc, ann |-> Ann(a.class, m.type, m.nullable)]
    BY <1>5, <2>4 DEF FieldPointerAnnotation, Collected, PointerOf, ks
  <2> HIDE DEF m, a
  <2>6. Ann(a.class, m.type, m.nullable) # NoAnn
    <3>1. Ann(a.class, m.type, m.nullable).kind = a.class /\ NoAnn.kind = "none"
      BY DEF Ann, NoAnn
    <3>2. a.class # "none"
      BY <2>4 DEF PointerKinds, a
    <3> QED BY <3>1, <3>2
  <2>7. LowerSlot(Collected(slot)) = Handle(a.class, m.type, m.nullable)
    <3>1. Collected(slot).desc = <<"J">> /\ Collected(slot).ann = Ann(a.class, m.type, m.nullable)
      BY <2>5
    <3>2. LowerSlot(Collected(slot)) = PointerIr(Collected(slot))
      BY <2>6, <3>1 DEF LowerSlot, Annotated
    <3> QED BY <3>1, <3>2 DEF PointerIr, Ann
  <2> QED BY <2>5, <2>6, <2>7, OneRule
<1>6. ks = {} => FieldPointerAnnotation(slot) = NoAnn
  BY DEF FieldPointerAnnotation, ks
<1> QED BY <1>4, <1>5, <1>6

\* What a field reference makes of the long it names, in the terms of `compare`.
LEMMA HandleAsked ==
  ASSUME SidesRead, NEW k \in DOMAIN refs, refs[k].kind = "Field",
         NEW c \in DOMAIN Classes, NEW f \in ToSet(Classes[c].fields), f.type.desc = <<"J">>
  PROVE  Compare(LowerSlot(Collected(f.type)), refs[k].field) = {}
           <=> <<f.type, refs[k].origin.type>> \in Fits
<1>1. PICK p \in Plans : project = ProjectOf(p)
  BY DEF SidesRead
<1> DEFINE r == refs[k]
           q == ProjectOf(p)
           reg == Registry(q.files)
           fields == UNION {ToSet(ClassesOf(q)[x].fields) : x \in DOMAIN ClassesOf(q)}
           longs  == {x.type : x \in {y \in fields : y.type.desc = <<"J">>}}
<1>2. refs = References(q.files) /\ Crate(q.files)
  BY <1>1, ProjectFacts DEF SidesRead
<1>3. r \in ToSet(References(q.files)) /\ ReadAs(r, reg)
  <2>1. AllReadAs(refs, reg)
    BY <1>2, ReferencesRead
  <2>2. r \in ToSet(refs)
    BY DEF ToSet
  <2> QED BY <1>2, <2>1, <2>2 DEF AllReadAs
<1>4. \A t \in TypesOf(r) : r.kind = "Field" =>
        \A s \in longs : Compare(LowerSlot(Collected(s)), LowerType(t, reg)) = {} <=> <<s, t>> \in Fits
  BY <1>3, BindingAssumption
<1>5. f.type \in longs
  <2>1. Classes = ClassesOf(q)
    BY <1>1 DEF Classes
  <2>2. f \in fields
    BY <2>1
  <2> QED BY <2>2
<1>6. r.field = LowerType(r.origin.type, reg) /\ r.origin.type \in TypesOf(r)
  BY <1>3 DEF ReadAs, TypesOf
<1> HIDE DEF r, longs, reg
<1> QED BY <1>4, <1>5, <1>6 DEF r

\* A class without a model has nothing to look through.
LEMMA ThroughNothing ==
  ASSUME NEW idx, NEW c, IsFiniteSet(DOMAIN idx), Hierarchy(c, idx) # {}
  PROVE  c \in DOMAIN idx
<1> SUFFICES ASSUME c \notin DOMAIN idx PROVE FALSE
  OBVIOUS
<1>1. PICK R : /\ Hierarchy(c, idx) = {idx[k] : k \in R \cap DOMAIN idx}
               /\ Upward(idx, c, R) /\ \A S : Upward(idx, c, S) => R \subseteq S
  BY HierarchyLeast
<1>2. Upward(idx, c, {c})
  BY DEF Upward
<1>3. R \cap DOMAIN idx = {}
  BY <1>1, <1>2
<1> QED BY <1>1, <1>3

\* HandleFieldExact: `check_field_handle_annotation` accepts the field, warns about
\* it or rejects it as its annotation says.
THEOREM HandlesAreExact == Spec => []HandleFieldExact
<1>1. CheckInv /\ RefsInv /\ ModelsRead /\ CP!ClosureExact => HandleFieldExact
  <2> SUFFICES ASSUME CheckInv, RefsInv, ModelsRead, CP!ClosureExact, Done, ClassesOnce,
                      NEW k \in DOMAIN refs, refs[k].kind = "Field", Resolvable(refs[k].class),
                      refs[k].field.ir = "Pointer",
                      NEW f \in FieldsFor(refs[k], Classes), FieldsFor(refs[k], Classes) = {f},
                      f.type.desc = <<"J">>, \A a, b \in Markers(f.type) : a = b
               PROVE  /\ Reported("W005", k) <=> Markers(f.type) = {}
                      /\ Reported("E045", k) <=>
                           Markers(f.type) # {} /\ <<f.type, refs[k].origin.type>> \notin Fits
    BY DEF HandleFieldExact
  <2> DEFINE r == refs[k]
             H == Hierarchy(r.class, ModelIndex)
             fields == UNION {c.fields : c \in H}
             named == {x \in fields : x.name = r.name /\ x.static = r.static}
             typed == {x \in named : x.desc = FieldDescriptor(r.field)}
             found == {x \in fields :
                         x.name = r.name /\ x.static = r.static /\ x.desc = FieldDescriptor(r.field)}
             there == {x \in FieldsFor(r, Classes) : x.type.desc = Wire[r.origin.type]}
  <2>1. Looked /\ SidesRead
    BY DEF Looked, CheckInv
  <2>2. FieldDescriptor(r.field) = <<"J">> /\ <<"J">> # <<>>
    BY DEF FieldDescriptor
  <2>3. Wire[r.origin.type] = <<"J">>
    BY <2>1, <2>2, AskedFor DEF HoldsAs
  <2>4. there = {f}
    BY <2>3
  <2>5. found = {FieldSig(x) : x \in there}
    BY <2>1, <2>2, FieldsFound
  <2>6. typed = {FieldSig(f)}
    BY <2>4, <2>5
  <2>7. r.class \in DOMAIN ModelIndex
    <3>1. H # {}
      BY <2>6
    <3> QED BY <2>1, <3>1, LookedUp, ThroughNothing
  <2>8. CodesOf(k) = HandleCodes(r, {FieldSig(f)})
    <3>1. CodesOf(k) = FieldCodes(r, H)
      BY <2>7 DEF CodesOf, RefCodes
    <3>2. named # {}
      BY <2>6
    <3> HIDE DEF H, r
    <3> QED BY <2>2, <2>6, <3>1, <3>2 DEF FieldCodes, r
  <2>9. PICK c \in Ancestors(Classes, r.class) \cap DOMAIN Classes : f \in ToSet(Classes[c].fields)
    BY DEF FieldsFor
  <2>10. IsSeq(f.type.annotations)
    BY <2>1, <2>9, ClassesAre DEF IsClass
  <2> DEFINE ann == FieldPointerAnnotation(f.type)
  <2>11. /\ Markers(f.type) = {} <=> ann = NoAnn
         /\ Markers(f.type) # {} => (PointerMatches(r.field, ann) <=> <<f.type, r.origin.type>> \in Fits)
    BY <2>1, <2>9, <2>10, SaidOnce, HandleAsked
  <2>12. FieldSig(f).ann = ann
    BY SigOf
  <2>13. /\ ann = NoAnn => HandleCodes(r, {FieldSig(f)}) = {"W005"}
         /\ ann # NoAnn => HandleCodes(r, {FieldSig(f)})
                             = IF PointerMatches(r.field, ann) THEN {} ELSE {"E045"}
    <3> DEFINE anns == {x.ann : x \in {FieldSig(f)}} \ {NoAnn}
    <3>1. anns = {ann} \ {NoAnn}
      BY <2>12
    <3> HIDE DEF r, ann
    <3>2. HandleCodes(r, {FieldSig(f)}) =
            CASE \E a \in anns : PointerMatches(r.field, a) -> {}
              [] anns = {}                                  -> {"W005"}
              [] OTHER                                      -> {"E045"}
      BY DEF HandleCodes
    <3> HIDE DEF anns
    <3> QED BY <3>1, <3>2
  <2>14. /\ Reported("W005", k) <=> "W005" \in CodesOf(k)
         /\ Reported("E045", k) <=> "E045" \in CodesOf(k)
    BY SaidOf DEF RefErrors
  <2> HIDE DEF r, ann
  <2> QED BY <2>8, <2>11, <2>13, <2>14 DEF r
<1> QED BY <1>1, CheckInvariance, ReferencesReported, ModelsAreRead, ClosedExactly, PTL

=============================================================================
