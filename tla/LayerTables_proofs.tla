--------------------------- MODULE LayerTables_proofs ---------------------------
(***************************************************************************)
(* The tables of parse_layer_profile.py, for any graph, any captures of it *)
(* and any times.                                                          *)
(*                                                                         *)
(* The parser takes medians and reads lines one after the other.  What a   *)
(* median says of a majority, and where the parts of a flattened sequence  *)
(* lie, is shown first.  The lemmas rest on least numbers and smallest     *)
(* sets, in place of an induction.                                         *)
(***************************************************************************)
EXTENDS LayerTables, SequenceTheorems, FiniteSetTheorems, WellFoundedInduction, TLAPS

--------------------------------------------------------------------------------
(***************************************************************************)
(* Least counterexamples.                                                  *)
(***************************************************************************)

LEMMA LeastNatural ==
  ASSUME NEW T \in SUBSET Nat, T # {}
  PROVE  \E n \in T : \A m \in T : n <= m
<1>. DEFINE R == OpToRel(<, Nat)
<1>1. R = {p \in Nat \X Nat : p[1] < p[2]}
  BY DEF OpToRel
<1>2. IsWellFoundedOn(R, Nat)
  BY NatLessThanWellFounded
<1>. HIDE DEF R
<1>3. PICK n \in T : \A m \in T : <<m, n>> \notin R
  BY <1>2, WFMin
<1>4. \A m \in T : ~(m < n)
  BY <1>1, <1>3
<1>. QED BY <1>4

\* A smallest of the sets that are not as claimed: all its proper subsets are.
LEMMA SmallestSet ==
  ASSUME NEW S, IsFiniteSet(S), NEW C \in SUBSET (SUBSET S), C # {}
  PROVE  \E s \in C : \A t \in SUBSET s : t # s => t \notin C
<1>1. \A s \in SUBSET S : IsFiniteSet(s) /\ Cardinality(s) \in Nat
  BY FS_Subset, FS_CardinalityType
<1>. DEFINE T == {Cardinality(s) : s \in C}
<1>2. T \in SUBSET Nat /\ T # {}
  BY <1>1
<1>3. PICK n \in T : \A m \in T : n <= m
  BY <1>2, LeastNatural
<1>4. PICK s \in C : Cardinality(s) = n
  OBVIOUS
<1>5. ASSUME NEW t \in SUBSET s, t # s, t \in C PROVE FALSE
  <2>1. Cardinality(t) < Cardinality(s)
    BY <1>1, <1>5, FS_Subset
  <2>2. n <= Cardinality(t)
    BY <1>3, <1>5
  <2>. QED BY <1>1, <1>4, <1>5, <2>1, <2>2
<1>. QED BY <1>4, <1>5

LEMMA FiniteImage ==
  ASSUME NEW S, IsFiniteSet(S), NEW f
  PROVE  IsFiniteSet({f[x] : x \in S})
<1>. DEFINE T == {f[x] : x \in S}
            h == [x \in S |-> f[x]]
<1>1. h \in Surjection(S, T)
  BY DEF Surjection
<1>. HIDE DEF T, h
<1>2. IsFiniteSet(T)
  BY <1>1, FS_Surjection
<1>. QED BY <1>2 DEF T

--------------------------------------------------------------------------------
(***************************************************************************)
(* Medians.                                                                *)
(***************************************************************************)

LEMMA LargestNatural ==
  ASSUME NEW T \in SUBSET Nat, IsFiniteSet(T), T # {}
  PROVE  \E n \in T : \A m \in T : m <= n
<1>. DEFINE C == {s \in SUBSET T : s # {} /\ ~\E n \in s : \A m \in s : m <= n}
<1>1. C \in SUBSET (SUBSET T)
  OBVIOUS
<1>2. ASSUME C # {} PROVE FALSE
  <2>. HIDE DEF C
  <2>1. PICK t \in C : \A u \in SUBSET t : u # t => u \notin C
    BY <1>1, <1>2, SmallestSet
  <2>2. t \in SUBSET T /\ t # {} /\ ~\E n \in t : \A m \in t : m <= n
    BY DEF C
  <2>3. PICK x \in t : TRUE
    BY <2>2
  <2>. DEFINE u == t \ {x}
  <2>4. u \in SUBSET t /\ u # t /\ u \in SUBSET T
    BY <2>2, <2>3
  <2>5. CASE u = {}
    BY <2>2, <2>5
  <2>6. CASE u # {}
    <3>1. PICK y \in u : \A m \in u : m <= y
      BY <2>1, <2>4, <2>6 DEF C
    <3>2. CASE x <= y
      BY <2>2, <3>1, <3>2
    <3>3. CASE ~(x <= y)
      <4>1. \A m \in t : m <= x
        BY <2>2, <3>1, <3>3
      <4>. QED BY <2>2, <4>1
    <3>. QED BY <3>2, <3>3
  <2>. QED BY <2>5, <2>6
<1>3. T \notin C
  BY <1>2
<1>. QED BY <1>3

\* The median of some lines is the time of one of them; no more than half of them
\* took less, and more than half took no more.
LEMMA MedianFacts ==
  ASSUME NEW lines, NEW is, IsFiniteSet(is), is # {}, \A i \in is : lines[i].us \in Nat
  PROVE  /\ \E i \in is : Med(lines, is) = lines[i].us
         /\ Cardinality({i \in is : lines[i].us < Med(lines, is)}) <= Cardinality(is) \div 2
         /\ Cardinality({i \in is : lines[i].us <= Med(lines, is)}) > Cardinality(is) \div 2
<1>. DEFINE U == {lines[i].us : i \in is}
            half == Cardinality(is) \div 2
            Below(v) == {i \in is : lines[i].us < v}
            Upto(v) == {i \in is : lines[i].us <= v}
<1>1. Cardinality(is) \in Nat /\ half \in Nat /\ half < Cardinality(is)
  BY FS_CardinalityType, FS_EmptySet
<1>. DEFINE us == [i \in is |-> lines[i].us]
<1>2. U \in SUBSET Nat /\ U # {} /\ IsFiniteSet(U)
  <2>1. U = {us[i] : i \in is}
    OBVIOUS
  <2>2. IsFiniteSet({us[i] : i \in is})
    BY FiniteImage
  <2>. QED BY <2>1, <2>2
<1>3. PICK top \in U : \A v \in U : v <= top
  BY <1>2, LargestNatural
<1>4. Upto(top) = is
  BY <1>3
<1>. DEFINE T == {v \in U : Cardinality(Upto(v)) > half}
<1>5. T \in SUBSET Nat /\ T # {}
  BY <1>1, <1>2, <1>4
<1>. HIDE DEF T
<1>6. PICK med \in T : \A v \in T : med <= v
  BY <1>5, LeastNatural
<1>7. med \in U /\ Cardinality(Upto(med)) > half
  BY DEF T
<1>8. Cardinality(Below(med)) <= half
  <2>. SUFFICES ASSUME ~(Cardinality(Below(med)) <= half) PROVE FALSE
    OBVIOUS
  <2>1. IsFiniteSet(Below(med)) /\ Cardinality(Below(med)) \in Nat
    BY FS_Subset, FS_CardinalityType
  <2>2. Below(med) # {}
    BY <1>1, <2>1, FS_EmptySet
  <2>. DEFINE W == {lines[i].us : i \in Below(med)}
  <2>3. W \in SUBSET Nat /\ W # {} /\ IsFiniteSet(W)
    <3>1. W = {us[i] : i \in Below(med)}
      OBVIOUS
    <3>2. IsFiniteSet({us[i] : i \in Below(med)})
      <4>. HIDE DEF Below, us
      <4>. QED BY <2>1, FiniteImage
    <3>. QED BY <2>2, <3>1, <3>2
  <2>4. PICK v \in W : \A w \in W : w <= v
    BY <2>3, LargestNatural
  <2>5. v \in U /\ v < med
    OBVIOUS
  <2>6. Upto(v) = Below(med)
    BY <1>2, <1>7, <2>4, <2>5
  <2>7. Cardinality(Upto(v)) > half
    <3>1. Cardinality(Upto(v)) = Cardinality(Below(med))
      BY <2>6
    <3>2. ~(Cardinality(Below(med)) <= half)
      OBVIOUS
    <3>. HIDE DEF Upto, Below, half
    <3>. QED BY <1>1, <2>1, <3>1, <3>2
  <2>8. v \in T /\ v \in Nat /\ med \in Nat
    BY <1>2, <1>7, <2>5, <2>7 DEF T
  <2>. QED BY <1>6, <2>5, <2>8
<1>9. /\ Med(lines, is) \in U
      /\ Cardinality(Below(Med(lines, is))) <= half /\ Cardinality(Upto(Med(lines, is))) > half
  BY <1>7, <1>8 DEF Med
<1>. QED BY <1>9

\* The median lies within the times of any majority of the lines.
LEMMA MedianOfMajority ==
  ASSUME NEW lines, NEW is, IsFiniteSet(is), \A i \in is : lines[i].us \in Nat,
         NEW own, own \in SUBSET is, NEW others, others = is \ own,
         Cardinality(others) < Cardinality(own)
  PROVE  /\ is # {} /\ own # {}
         /\ \E lo \in own : lines[lo].us <= Med(lines, is)
         /\ \E hi \in own : Med(lines, is) <= lines[hi].us
<1>. DEFINE med == Med(lines, is)
            below == {i \in is : lines[i].us < med}
            upto == {i \in is : lines[i].us <= med}
<1>1. IsFiniteSet(own) /\ IsFiniteSet(others) /\ own \cap others = {} /\ is = own \cup others
  BY FS_Subset
<1>2. Cardinality(own) \in Nat /\ Cardinality(others) \in Nat /\ Cardinality(is) \in Nat
  BY <1>1, FS_CardinalityType
<1>3. Cardinality(is) = Cardinality(own) + Cardinality(others)
  <2>1. Cardinality(own \cap others) = 0
    BY <1>1, FS_EmptySet
  <2>2. Cardinality(own \cup others) =
          Cardinality(own) + Cardinality(others) - Cardinality(own \cap others)
    BY <1>1, FS_Union
  <2>3. Cardinality(is) = Cardinality(own) + Cardinality(others) - 0
    BY <1>1, <2>1, <2>2
  <2>. QED BY <1>2, <2>3
<1>4. own # {} /\ is # {}
  <2>1. Cardinality({}) = 0
    BY FS_EmptySet
  <2>. QED BY <1>2, <2>1
<1>5. /\ \E i \in is : med = lines[i].us
      /\ Cardinality(below) <= Cardinality(is) \div 2
      /\ Cardinality(upto) > Cardinality(is) \div 2
  BY <1>4, MedianFacts
<1>6. med \in Nat
  BY <1>5
<1>. HIDE DEF med
<1>7. \E lo \in own : lines[lo].us <= med
  <2>. SUFFICES ASSUME \A lo \in own : ~(lines[lo].us <= med) PROVE FALSE
    OBVIOUS
  <2>1. upto \in SUBSET others
    OBVIOUS
  <2>2. Cardinality(upto) \in Nat /\ Cardinality(upto) <= Cardinality(others)
    BY <1>1, <2>1, FS_Subset, FS_CardinalityType
  <2>. HIDE DEF upto
  <2>. QED BY <1>2, <1>3, <1>5, <2>2
<1>8. \E hi \in own : med <= lines[hi].us
  <2>. SUFFICES ASSUME \A hi \in own : ~(med <= lines[hi].us) PROVE FALSE
    OBVIOUS
  <2>1. own \in SUBSET below
    BY <1>6
  <2>2. IsFiniteSet(below) /\ Cardinality(below) \in Nat /\ Cardinality(own) <= Cardinality(below)
    <3>1. IsFiniteSet(below)
      BY FS_Subset
    <3>. HIDE DEF below
    <3>. QED BY <2>1, <3>1, FS_Subset, FS_CardinalityType
  <2>. HIDE DEF below
  <2>. QED BY <1>2, <1>3, <1>5, <2>2
<1>. QED BY <1>4, <1>7, <1>8 DEF med

--------------------------------------------------------------------------------
(***************************************************************************)
(* Flattened sequences.                                                    *)
(***************************************************************************)

\* The function FlattenSeq computes by: the first n sequences, one after the other.
JoinUp(ss, joined, i) == IF i = 1 THEN ss[i] ELSE joined[i - 1] \o ss[i]

Joins(ss, n, joined) == joined = [i \in 1 .. n |-> JoinUp(ss, joined, i)]

LEMMA FlattenDef ==
  ASSUME NEW ss, Len(ss) # 0
  PROVE  FlattenSeq(ss) = (CHOOSE joined : Joins(ss, Len(ss), joined))[Len(ss)]
BY DEF FlattenSeq, Joins, JoinUp

LEMMA JoinsExists ==
  ASSUME NEW ss, NEW n \in Nat
  PROVE  \E joined : Joins(ss, n, joined)
<1>. DEFINE Is(m) == \E joined : Joins(ss, m, joined)
            T == {m \in Nat : ~Is(m)}
<1>1. Is(0)
  <2>. DEFINE joined == [i \in 1 .. 0 |-> ss]
  <2>1. Joins(ss, 0, joined)
    BY DEF Joins
  <2>. QED BY <2>1
<1>2. ASSUME NEW m \in Nat \ {0}, Is(m - 1) PROVE Is(m)
  <2>1. PICK old : Joins(ss, m - 1, old)
    BY <1>2
  <2>. DEFINE joined == [i \in 1 .. m |-> JoinUp(ss, old, i)]
  <2>2. \A i \in 1 .. m - 1 : joined[i] = old[i]
    BY <2>1 DEF Joins
  <2>3. \A i \in 1 .. m : JoinUp(ss, old, i) = JoinUp(ss, joined, i)
    <3>1. \A i \in 1 .. m : i # 1 => old[i - 1] = joined[i - 1]
      <4>. TAKE i \in 1 .. m
      <4>1. i # 1 => i - 1 \in 1 .. m - 1
        OBVIOUS
      <4>. HIDE DEF joined
      <4>. QED BY <2>2, <4>1
    <3>. HIDE DEF joined
    <3>. QED BY <3>1 DEF JoinUp
  <2>4. Joins(ss, m, joined)
    BY <2>3 DEF Joins
  <2>. QED BY <2>4
<1>. HIDE DEF Is
<1>3. T = {}
  <2>. SUFFICES ASSUME T # {} PROVE FALSE
    OBVIOUS
  <2>1. PICK m \in T : \A i \in T : m <= i
    BY LeastNatural
  <2>2. m # 0 /\ m - 1 \in Nat /\ m - 1 \notin T
    BY <1>1, <2>1
  <2>. QED BY <1>2, <2>1, <2>2
<1>4. Is(n)
  BY <1>3
<1>. QED BY <1>4 DEF Is

\* Where the sequences lie in the flattened one: off[i] is where the i-th ends.
Laid(ss, off) ==
  /\ off \in [0 .. Len(ss) -> Nat] /\ off[0] = 0 /\ off[Len(ss)] = Len(FlattenSeq(ss))
  /\ \A i \in 1 .. Len(ss) : off[i] = off[i - 1] + Len(ss[i])
  /\ \A i \in 1 .. Len(ss) : \A k \in 1 .. Len(ss[i]) :
       /\ off[i - 1] + k \in 1 .. Len(FlattenSeq(ss))
       /\ FlattenSeq(ss)[off[i - 1] + k] = ss[i][k]
  /\ \A j \in 1 .. Len(FlattenSeq(ss)) : \E i \in 1 .. Len(ss) : \E k \in 1 .. Len(ss[i]) :
       j = off[i - 1] + k

LEMMA FlattenLaid ==
  ASSUME NEW S, NEW ss \in Seq(Seq(S))
  PROVE  FlattenSeq(ss) \in Seq(S) /\ \E off : Laid(ss, off)
<1>. DEFINE n == Len(ss)
            F == CHOOSE joined : Joins(ss, n, joined)
            off == [i \in 0 .. n |-> IF i = 0 THEN 0 ELSE Len(F[i])]
<1>1. n \in Nat /\ \A i \in 1 .. n : ss[i] \in Seq(S) /\ Len(ss[i]) \in Nat
  OBVIOUS
<1>2. Joins(ss, n, F)
  BY <1>1, JoinsExists
<1>. HIDE DEF F
<1>3. CASE n = 0
  <2>1. ss = <<>> /\ FlattenSeq(ss) = ss
    BY <1>3 DEF FlattenSeq
  <2>2. Laid(ss, off)
    BY <2>1 DEF Laid
  <2>. QED BY <2>1, <2>2
<1>4. CASE n # 0
  <2>1. FlattenSeq(ss) = F[n]
    BY <1>4, FlattenDef DEF F
  <2>2. \A i \in 1 .. n : F[i] = IF i = 1 THEN ss[i] ELSE F[i - 1] \o ss[i]
    BY <1>2 DEF Joins, JoinUp
  <2>3. \A i \in 1 .. n : F[i] \in Seq(S)
    <3>. DEFINE T == {i \in 1 .. n : F[i] \notin Seq(S)}
    <3>0. T \in SUBSET Nat
      BY <1>1
    <3>. SUFFICES ASSUME T # {} PROVE FALSE
      OBVIOUS
    <3>. HIDE DEF T
    <3>1. PICK i \in T : \A j \in T : i <= j
      BY <3>0, LeastNatural
    <3>2. i \in 1 .. n /\ F[i] \notin Seq(S)
      BY DEF T
    <3>3. CASE i = 1
      BY <1>1, <2>2, <3>2, <3>3
    <3>4. CASE i # 1
      <4>1. i - 1 \in 1 .. n /\ i - 1 \notin T /\ ss[i] \in Seq(S)
        BY <1>1, <3>1, <3>2, <3>4
      <4>2. F[i - 1] \in Seq(S)
        BY <4>1 DEF T
      <4>3. F[i] = F[i - 1] \o ss[i]
        BY <2>2, <3>2, <3>4
      <4>4. F[i - 1] \o ss[i] \in Seq(S)
        BY <4>1, <4>2, ConcatProperties
      <4>. QED BY <3>2, <4>3, <4>4
    <3>. QED BY <3>3, <3>4
  <2>4. off \in [0 .. n -> Nat] /\ off[0] = 0 /\ off[n] = Len(FlattenSeq(ss))
    BY <1>1, <1>4, <2>1, <2>3
  <2>9. \A i \in 1 .. n : off[i] = Len(F[i]) /\ i - 1 \in 0 .. n
    BY <1>1
  <2>10. \A i \in 1 .. n : i # 1 => i - 1 \in 1 .. n
    BY <1>1
  <2>11. off[0] = 0
    BY <1>1
  <2>. HIDE DEF off
  <2>5. \A i \in 1 .. n : off[i] = off[i - 1] + Len(ss[i])
    <3>. TAKE i \in 1 .. n
    <3>1. CASE i = 1
      <4>1. F[i] = ss[i] /\ i - 1 = 0 /\ Len(ss[i]) \in Nat
        BY <1>1, <2>2, <3>1
      <4>. QED BY <2>9, <2>11, <4>1
    <3>2. CASE i # 1
      <4>1. i - 1 \in 1 .. n /\ F[i] = F[i - 1] \o ss[i]
        BY <2>2, <2>10, <3>2
      <4>2. Len(F[i]) = Len(F[i - 1]) + Len(ss[i])
        BY <1>1, <2>3, <4>1, ConcatProperties
      <4>3. off[i] = Len(F[i]) /\ off[i - 1] = Len(F[i - 1])
        BY <2>9, <4>1
      <4>. QED BY <4>2, <4>3
    <3>. QED BY <3>1, <3>2
  <2>12. \A i \in 0 .. n : off[i] \in Nat
    BY <2>4
  <2>13. \A l, b \in Nat :
          /\ \A j \in 1 .. l : j \in 1 .. l + b /\ j <= l
          /\ \A k \in 1 .. b : l + k \in 1 .. l + b /\ ~(l + k <= l) /\ (l + k) - l = k
    OBVIOUS
  <2>6. \A m \in 1 .. n : \A i \in 1 .. m : \A k \in 1 .. Len(ss[i]) :
          off[i - 1] + k \in 1 .. Len(F[m]) /\ F[m][off[i - 1] + k] = ss[i][k]
    <3>. DEFINE Holds(m) == \A i \in 1 .. m : \A k \in 1 .. Len(ss[i]) :
                  off[i - 1] + k \in 1 .. Len(F[m]) /\ F[m][off[i - 1] + k] = ss[i][k]
                T == {m \in 1 .. n : ~Holds(m)}
    <3>0. T \in SUBSET Nat
      BY <1>1
    <3>1. ASSUME T # {} PROVE FALSE
      <4>. HIDE DEF T
      <4>1. PICK m \in T : \A j \in T : m <= j
        BY <3>0, <3>1, LeastNatural
      <4>2. m \in 1 .. n /\ ~Holds(m)
        BY DEF T
      <4>3. CASE m = 1
        <5>1. F[m] = ss[1] /\ off[0] = 0
          BY <1>1, <2>2, <2>11, <4>2, <4>3
        <5>2. \A i \in 1 .. m : i = 1
          BY <4>3
        <5>3. \A k \in 1 .. Len(ss[1]) : off[1 - 1] + k = k
          BY <2>11
        <5>4. Holds(m)
          BY <5>1, <5>2, <5>3
        <5>. QED BY <4>2, <5>4
      <4>4. CASE m # 1
        <5>1. m - 1 \in 1 .. n /\ m - 1 \notin T
          BY <1>1, <4>1, <4>2, <4>4
        <5>2. Holds(m - 1)
          BY <5>1 DEF T
        <5>3. /\ F[m] = F[m - 1] \o ss[m] /\ F[m - 1] \in Seq(S) /\ ss[m] \in Seq(S)
              /\ off[m - 1] = Len(F[m - 1])
          BY <1>1, <2>2, <2>3, <2>9, <4>2, <4>4, <5>1
        <5>4. /\ Len(F[m]) = Len(F[m - 1]) + Len(ss[m]) /\ Len(F[m - 1]) \in Nat
              /\ Len(ss[m]) \in Nat
              /\ \A j \in 1 .. Len(F[m - 1]) : F[m][j] = F[m - 1][j]
              /\ \A k \in 1 .. Len(ss[m]) : F[m][Len(F[m - 1]) + k] = ss[m][k]
          <6>1. \A j \in 1 .. Len(F[m - 1]) + Len(ss[m]) : F[m][j] =
                  IF j <= Len(F[m - 1]) THEN F[m - 1][j] ELSE ss[m][j - Len(F[m - 1])]
            BY <5>3, ConcatProperties
          <6>2. Len(F[m]) = Len(F[m - 1]) + Len(ss[m]) /\ Len(F[m - 1]) \in Nat
                /\ Len(ss[m]) \in Nat
            BY <5>3, ConcatProperties
          <6>. DEFINE l == Len(F[m - 1])
          <6>3. \A j \in 1 .. l : j \in 1 .. l + Len(ss[m]) /\ j <= l
            BY <2>13, <6>2
          <6>4. \A k \in 1 .. Len(ss[m]) :
                  l + k \in 1 .. l + Len(ss[m]) /\ ~(l + k <= l) /\ (l + k) - l = k
            BY <2>13, <6>2
          <6>5. \A j \in 1 .. l : F[m][j] = F[m - 1][j]
            BY <6>1, <6>3
          <6>6. \A k \in 1 .. Len(ss[m]) : F[m][l + k] = ss[m][k]
            BY <6>1, <6>4
          <6>. QED BY <6>2, <6>5, <6>6
        <5>6. /\ Len(F[m]) = Len(F[m - 1]) + Len(ss[m]) /\ Len(F[m - 1]) \in Nat
              /\ Len(ss[m]) \in Nat
          BY <5>4
        <5>5. ASSUME NEW i \in 1 .. m, NEW k \in 1 .. Len(ss[i])
              PROVE  off[i - 1] + k \in 1 .. Len(F[m]) /\ F[m][off[i - 1] + k] = ss[i][k]
          <6>1. CASE i = m
            <7>1. k \in 1 .. Len(ss[m]) /\ off[i - 1] = Len(F[m - 1]) /\ ss[i][k] = ss[m][k]
              BY <5>3, <6>1
            <7>2. F[m][Len(F[m - 1]) + k] = ss[m][k]
              BY <5>4, <7>1
            <7>3. Len(F[m - 1]) + k \in 1 .. Len(F[m - 1]) + Len(ss[m])
              BY <2>13, <5>6, <7>1
            <7>4. Len(F[m - 1]) + k \in 1 .. Len(F[m])
              BY <5>6, <7>3
            <7>. QED BY <7>1, <7>2, <7>4
          <6>2. CASE i # m
            <7>1. i \in 1 .. m - 1
              BY <4>2, <6>2
            <7>2. /\ off[i - 1] + k \in 1 .. Len(F[m - 1])
                  /\ F[m - 1][off[i - 1] + k] = ss[i][k]
              BY <5>2, <7>1 DEF Holds
            <7>5. \A j \in 1 .. Len(F[m - 1]) : j \in 1 .. Len(F[m - 1]) + Len(ss[m])
              BY <2>13, <5>6
            <7>6. \A j \in 1 .. Len(F[m - 1]) : j \in 1 .. Len(F[m])
              BY <5>6, <7>5
            <7>3. off[i - 1] + k \in 1 .. Len(F[m])
              BY <7>2, <7>6
            <7>4. F[m][off[i - 1] + k] = F[m - 1][off[i - 1] + k]
              BY <5>4, <7>2
            <7>. QED BY <7>2, <7>3, <7>4
          <6>. QED BY <6>1, <6>2
        <5>. QED BY <4>2, <5>5
      <4>. QED BY <4>3, <4>4
    <3>2. \A m \in 1 .. n : Holds(m)
      BY <3>1
    <3>. QED BY <3>2
  <2>7. \A j \in 1 .. Len(F[n]) : \E i \in 1 .. n : \E k \in 1 .. Len(ss[i]) : j = off[i - 1] + k
    <3>. TAKE j \in 1 .. Len(F[n])
    <3>. DEFINE T == {i \in 1 .. n : j <= off[i]}
    <3>1. T \in SUBSET Nat /\ T # {} /\ \A i \in 1 .. n : i \notin T => ~(j <= off[i])
      <4>1. n \in 1 .. n /\ off[n] = Len(F[n]) /\ Len(F[n]) \in Nat
        BY <1>1, <1>4, <2>3, <2>9
      <4>2. j <= Len(F[n])
        BY <4>1
      <4>3. n \in T
        BY <4>1, <4>2
      <4>. QED BY <1>1, <4>3
    <3>2. \A i \in T : i \in 1 .. n /\ j <= off[i]
      OBVIOUS
    <3>. HIDE DEF T
    <3>3. PICK i \in T : \A h \in T : i <= h
      BY <3>1, LeastNatural
    <3>4. off[i - 1] < j
      <4>1. CASE i = 1
        BY <2>11, <3>2, <4>1
      <4>2. CASE i # 1
        <5>1. i - 1 \in 1 .. n /\ i - 1 \notin T
          BY <1>1, <3>2, <3>3, <4>2
        <5>2. ~(j <= off[i - 1]) /\ off[i - 1] \in Nat
          BY <2>9, <2>12, <3>1, <5>1
        <5>. QED BY <1>4, <2>3, <5>2
      <4>. QED BY <4>1, <4>2
    <3>5. /\ off[i] = off[i - 1] + Len(ss[i]) /\ off[i - 1] \in Nat /\ Len(ss[i]) \in Nat
          /\ j <= off[i]
      BY <1>1, <2>5, <2>9, <2>12, <3>2
    <3>6. j - off[i - 1] \in 1 .. Len(ss[i]) /\ j = off[i - 1] + (j - off[i - 1])
      <4>1. j \in Nat
        BY <1>1, <1>4, <2>3
      <4>. QED BY <3>4, <3>5, <4>1
    <3>. QED BY <3>2, <3>6
  <2>. HIDE DEF off
  <2>8. Laid(ss, off)
    <3>1. \A i \in 1 .. n : \A k \in 1 .. Len(ss[i]) :
            off[i - 1] + k \in 1 .. Len(F[n]) /\ F[n][off[i - 1] + k] = ss[i][k]
      <4>1. n \in 1 .. n
        BY <1>1, <1>4
      <4>. QED BY <2>6, <4>1
    <3>. QED BY <2>1, <2>4, <2>5, <2>7, <3>1 DEF Laid
  <2>. QED BY <1>4, <2>1, <2>3, <2>8
<1>. QED BY <1>3, <1>4

\* What is in the flattened sequence.
LEMMA FlattenMembers ==
  ASSUME NEW S, NEW ss \in Seq(Seq(S))
  PROVE  /\ FlattenSeq(ss) \in Seq(S)
         /\ \A i \in 1 .. Len(ss) : \A k \in 1 .. Len(ss[i]) :
              \E j \in 1 .. Len(FlattenSeq(ss)) : FlattenSeq(ss)[j] = ss[i][k]
         /\ \A j \in 1 .. Len(FlattenSeq(ss)) :
              \E i \in 1 .. Len(ss) : \E k \in 1 .. Len(ss[i]) : FlattenSeq(ss)[j] = ss[i][k]
<1>1. FlattenSeq(ss) \in Seq(S)
  BY FlattenLaid
<1>2. PICK off : Laid(ss, off)
  BY FlattenLaid
<1>3. \A i \in 1 .. Len(ss) : \A k \in 1 .. Len(ss[i]) :
        \E j \in 1 .. Len(FlattenSeq(ss)) : FlattenSeq(ss)[j] = ss[i][k]
  BY <1>2 DEF Laid
<1>4. \A j \in 1 .. Len(FlattenSeq(ss)) :
        \E i \in 1 .. Len(ss) : \E k \in 1 .. Len(ss[i]) : FlattenSeq(ss)[j] = ss[i][k]
  <2>. TAKE j \in 1 .. Len(FlattenSeq(ss))
  <2>1. PICK i \in 1 .. Len(ss) : \E k \in 1 .. Len(ss[i]) : j = off[i - 1] + k
    BY <1>2 DEF Laid
  <2>2. PICK k \in 1 .. Len(ss[i]) : j = off[i - 1] + k
    BY <2>1
  <2>3. FlattenSeq(ss)[j] = ss[i][k]
    BY <1>2, <2>2 DEF Laid
  <2>. QED BY <2>3
<1>. QED BY <1>1, <1>3, <1>4

--------------------------------------------------------------------------------
(***************************************************************************)
(* The CPU-mode capture: every pass that was computed has left one line    *)
(* for each op of its splits, and no g has lines of two passes.            *)
(***************************************************************************)

LineType == [g : Nat, dst : Ops, us : Nat, at : Nat \X Nat \X Nat]

CaptureType ==
  /\ step \in Nat \ {0} /\ split \in 1 .. Len(Splits) + 1 /\ gcall \in Nat
  /\ log \in Seq(LineType)
  /\ done => split > Len(Splits)

\* Split s of pass p has been executed when split sp of pass st is the next.
Printed(p, s, st, sp) ==
  p \in 1 .. st /\ s \in 1 .. Len(Splits) /\ (p < st \/ s < sp)

ComesFrom(line, p, s, k) == line.at[1] = p /\ line.at[2] = s /\ line.at[3] = k

\* Each line is of an op of an executed split, each op of these has a line, and
\* only one.
LinesAreOps ==
  /\ \A i \in Lines : LET at == log[i].at IN
       /\ Printed(at[1], at[2], step, split)
       /\ at[3] \in 1 .. Len(Splits[at[2]]) /\ log[i].dst = Splits[at[2]][at[3]]
  /\ \A p, s \in Nat : Printed(p, s, step, split) => \A k \in 1 .. Len(Splits[s]) :
       \E i \in Lines : ComesFrom(log[i], p, s, k)
  /\ \A i, j \in Lines :
       ComesFrom(log[i], log[j].at[1], log[j].at[2], log[j].at[3]) => i = j

CallsOfPasses ==
  \A i \in Lines : /\ log[i].g <= gcall
                   /\ \A j \in Lines : log[i].g = log[j].g => log[i].at[1] = log[j].at[1]

CaptureInv == CaptureType /\ LinesAreOps /\ CallsOfPasses

LEMMA SplitFacts ==
  /\ Len(Splits) \in Nat \ {0}
  /\ \A s \in 1 .. Len(Splits) :
       /\ Splits[s] \in Seq(Ops) /\ Len(Splits[s]) \in Nat
       /\ \A k \in 1 .. Len(Splits[s]) : Splits[s][k] \in Ops
<1>1. Splits \in Seq(Seq(Ops)) /\ Splits # <<>>
  BY PhasesAssumption
<1>. QED BY <1>1

LEMMA BeforeNat == Before \in Nat \ {0}
BY PhasesAssumption DEF Before

LEMMA CaptureInit == Init => CaptureInv
<1>. SUFFICES ASSUME Init PROVE CaptureInv
  OBVIOUS
<1>1. step = 1 /\ split = 1 /\ done = FALSE /\ gcall = 0 /\ log = <<>>
  BY DEF Init
<1>2. Lines = {}
  BY <1>1 DEF Lines
<1>3. \A p, s \in Nat : ~Printed(p, s, step, split)
  BY <1>1 DEF Printed
<1>. QED BY <1>1, <1>2, <1>3, SplitFacts DEF CaptureInv, CaptureType, LinesAreOps, CallsOfPasses

\* One more split is printed.
LEMMA CaptureRunSplit ==
  ASSUME CaptureInv, RunSplit
  PROVE  CaptureInv'
<1>. DEFINE ops == Splits[split]
            n == Len(ops)
            g == gcall + 1
<1>1. /\ CaptureType /\ LinesAreOps /\ CallsOfPasses
      /\ ~done /\ split \in 1 .. Len(Splits) /\ split' = split + 1 /\ gcall' = g
      /\ step' = step /\ done' = done
  BY SplitFacts DEF RunSplit, CaptureInv, CaptureType
<1>2. PICK us \in Timings(ops, OpUs[PhaseOf(step)]) :
        log' = log \o [k \in 1 .. n |->
                          [g |-> g, dst |-> ops[k], us |-> us[k], at |-> <<step, split, k>>]]
  BY DEF RunSplit
<1>3. ops \in Seq(Ops) /\ n \in Nat /\ \A k \in 1 .. n : ops[k] \in Ops
  BY <1>1, SplitFacts
<1>4. \A k \in 1 .. n : us[k] \in Nat
  <2>1. \A k \in 1 .. n : us[k] \in OpUs[PhaseOf(step)][ops[k]]
    BY DEF Timings
  <2>2. PhaseOf(step) \in Phase
    BY DEF PhaseOf, Phase
  <2>3. \A op \in Ops : OpUs[PhaseOf(step)][op] \in SUBSET Nat
    BY <2>2, PhasesAssumption
  <2>. QED BY <1>3, <2>1, <2>3
<1>. DEFINE new == [k \in 1 .. n |->
                      [g |-> g, dst |-> ops[k], us |-> us[k], at |-> <<step, split, k>>]]
<1>5. g \in Nat /\ gcall \in Nat /\ step \in Nat \ {0} /\ split \in Nat /\ log \in Seq(LineType)
      /\ Len(log) \in Nat
  BY <1>1 DEF CaptureType
<1>6. \A k \in 1 .. n : /\ new[k] \in LineType
                        /\ new[k].g = g /\ new[k].dst = ops[k] /\ new[k].at = <<step, split, k>>
  BY <1>3, <1>4, <1>5 DEF LineType
<1>7. new \in Seq(LineType) /\ Len(new) = n
  <2>1. new \in [1 .. n -> LineType]
    BY <1>6
  <2>. HIDE DEF new, n
  <2>. QED BY <1>3, <2>1
<1>8. log' = log \o new
  BY <1>2
<1>. HIDE DEF new, n
<1>9. /\ log' \in Seq(LineType) /\ Len(log') = Len(log) + n
      /\ \A i \in 1 .. Len(log) : log'[i] = log[i]
      /\ \A k \in 1 .. n : Len(log) + k \in 1 .. Len(log') /\ log'[Len(log) + k] = new[k]
  <2>1. log' \in Seq(LineType) /\ Len(log') = Len(log) + n
    BY <1>5, <1>7, <1>8, ConcatProperties
  <2>2. \A i \in 1 .. Len(log) + n :
          log'[i] = IF i <= Len(log) THEN log[i] ELSE new[i - Len(log)]
    BY <1>5, <1>7, <1>8, ConcatProperties
  <2>3. \A i \in 1 .. Len(log) : log'[i] = log[i]
    BY <1>3, <1>5, <2>2
  <2>4. \A k \in 1 .. n : /\ Len(log) + k \in 1 .. Len(log) + n /\ ~(Len(log) + k <= Len(log))
                          /\ (Len(log) + k) - Len(log) = k
    BY <1>3, <1>5
  <2>. QED BY <2>1, <2>2, <2>3, <2>4
<1>10. \A i \in 1 .. Len(log') : i \in 1 .. Len(log) \/ \E k \in 1 .. n : i = Len(log) + k
  <2>. TAKE i \in 1 .. Len(log')
  <2>1. CASE i <= Len(log)
    BY <1>5, <2>1
  <2>2. CASE ~(i <= Len(log))
    <3>1. i - Len(log) \in 1 .. n /\ i = Len(log) + (i - Len(log))
      BY <1>3, <1>5, <1>9, <2>2
    <3>. QED BY <3>1
  <2>. QED BY <2>1, <2>2
<1>11. Lines = 1 .. Len(log) /\ Lines' = 1 .. Len(log')
  BY DEF Lines
<1>12. \A p, s \in Nat : Printed(p, s, step', split') <=>
         Printed(p, s, step, split) \/ (p = step /\ s = split)
  BY <1>1, <1>5 DEF Printed
<1>13. \A i \in 1 .. Len(log) :
         /\ log'[i] = log[i] /\ log[i].g \in Nat /\ log[i].g # g /\ log[i].g <= g
         /\ log[i].at[1] \in Nat /\ log[i].at[2] \in Nat
         /\ ~(log[i].at[1] = step /\ log[i].at[2] = split)
  <2>. TAKE i \in 1 .. Len(log)
  <2>1. log[i] \in LineType
    BY <1>5
  <2>2. log[i].g \in Nat /\ log[i].at[1] \in Nat /\ log[i].at[2] \in Nat
    BY <2>1 DEF LineType
  <2>3. log[i].g <= gcall
    BY <1>1, <1>11 DEF CallsOfPasses
  <2>4. Printed(log[i].at[1], log[i].at[2], step, split)
    BY <1>1, <1>11 DEF LinesAreOps
  <2>5. ~(log[i].at[1] = step /\ log[i].at[2] = split)
    BY <1>5, <2>4 DEF Printed
  <2>. QED BY <1>5, <1>9, <2>2, <2>3, <2>5
<1>14. CaptureType'
  <2>1. split' \in 1 .. Len(Splits) + 1
    BY <1>1, SplitFacts
  <2>. QED BY <1>1, <1>5, <1>9, <2>1 DEF CaptureType
<1>15. \A k \in 1 .. n : /\ log'[Len(log) + k].at[1] = step /\ log'[Len(log) + k].at[2] = split
                         /\ log'[Len(log) + k].at[3] = k /\ log'[Len(log) + k].g = g
                         /\ log'[Len(log) + k].dst = Splits[split][k]
  BY <1>6, <1>9
<1>16. \A i \in Lines' : LET at == log'[i].at IN
         /\ Printed(at[1], at[2], step', split')
         /\ at[3] \in 1 .. Len(Splits[at[2]]) /\ log'[i].dst = Splits[at[2]][at[3]]
  <2>. TAKE i \in Lines'
  <2>1. CASE i \in 1 .. Len(log)
    <3>1. /\ Printed(log[i].at[1], log[i].at[2], step, split)
          /\ log[i].at[3] \in 1 .. Len(Splits[log[i].at[2]])
          /\ log[i].dst = Splits[log[i].at[2]][log[i].at[3]]
      BY <1>1, <1>11, <2>1 DEF LinesAreOps
    <3>. QED BY <1>12, <1>13, <2>1, <3>1
  <2>2. CASE \E k \in 1 .. n : i = Len(log) + k
    <3>1. Printed(step, split, step', split') /\ 1 .. n = 1 .. Len(Splits[split])
      BY <1>5, <1>12 DEF n
    <3>2. PICK k \in 1 .. n : i = Len(log) + k
      BY <2>2
    <3>3. /\ log'[i].at[1] = step /\ log'[i].at[2] = split /\ log'[i].at[3] = k
          /\ log'[i].dst = Splits[split][k]
      BY <1>15, <3>2
    <3>4. k \in 1 .. Len(Splits[split])
      BY <3>1, <3>2
    <3>. QED BY <3>1, <3>3, <3>4
  <2>. QED BY <1>10, <1>11, <2>1, <2>2
<1>17. \A p, s \in Nat : Printed(p, s, step', split') => \A k \in 1 .. Len(Splits[s]) :
         \E i \in Lines' : ComesFrom(log'[i], p, s, k)
  <2>. TAKE p, s \in Nat
  <2>. HAVE Printed(p, s, step', split')
  <2>. TAKE k \in 1 .. Len(Splits[s])
  <2>1. CASE Printed(p, s, step, split)
    <3>1. \E i \in 1 .. Len(log) : ComesFrom(log[i], p, s, k)
      BY <1>1, <1>11, <2>1 DEF LinesAreOps
    <3>2. \A i \in 1 .. Len(log) : i \in Lines' /\ log'[i] = log[i]
      BY <1>3, <1>5, <1>9, <1>11
    <3>. QED BY <3>1, <3>2
  <2>2. CASE p = step /\ s = split
    <3>1. k \in 1 .. n
      BY <2>2 DEF n
    <3>2. Len(log) + k \in Lines' /\ ComesFrom(log'[Len(log) + k], p, s, k)
      BY <1>9, <1>11, <1>15, <2>2, <3>1 DEF ComesFrom
    <3>. QED BY <3>2
  <2>. QED BY <1>12, <2>1, <2>2
<1>18. \A i, j \in Lines' :
         ComesFrom(log'[i], log'[j].at[1], log'[j].at[2], log'[j].at[3]) => i = j
  <2>. TAKE i, j \in Lines'
  <2>. HAVE ComesFrom(log'[i], log'[j].at[1], log'[j].at[2], log'[j].at[3])
  <2>1. \A x \in Lines' : \/ x \in 1 .. Len(log) /\ ~(log'[x].at[1] = step /\ log'[x].at[2] = split)
                          \/ /\ log'[x].at[1] = step /\ log'[x].at[2] = split
                             /\ log'[x].at[3] \in Nat /\ x = Len(log) + log'[x].at[3]
    <3>. TAKE x \in Lines'
    <3>1. CASE x \in 1 .. Len(log)
      BY <1>13, <3>1
    <3>2. CASE \E k \in 1 .. n : x = Len(log) + k
      <4>1. PICK k \in 1 .. n : x = Len(log) + k
        BY <3>2
      <4>2. /\ log'[x].at[1] = step /\ log'[x].at[2] = split /\ log'[x].at[3] = k
        BY <1>15, <4>1
      <4>3. k \in Nat
        BY <1>3, <4>1
      <4>. QED BY <4>1, <4>2, <4>3
    <3>. QED BY <1>10, <1>11, <3>1, <3>2
  <2>2. CASE i \in 1 .. Len(log) /\ j \in 1 .. Len(log)
    BY <1>1, <1>11, <1>13, <2>2 DEF LinesAreOps
  <2>3. CASE ~(i \in 1 .. Len(log) /\ j \in 1 .. Len(log))
    BY <2>1, <2>3 DEF ComesFrom
  <2>. QED BY <2>2, <2>3
<1>19. \A i \in Lines' : /\ log'[i].g <= gcall'
                         /\ \A j \in Lines' : log'[i].g = log'[j].g => log'[i].at[1] = log'[j].at[1]
  <2>1. \A i \in Lines' : \/ i \in 1 .. Len(log) /\ log'[i] = log[i] /\ log[i].g # g /\ log[i].g <= g
                          \/ log'[i].g = g /\ log'[i].at[1] = step
    <3>. TAKE i \in Lines'
    <3>1. CASE i \in 1 .. Len(log)
      BY <1>13, <3>1
    <3>2. CASE \E k \in 1 .. n : i = Len(log) + k
      BY <1>15, <3>2
    <3>. QED BY <1>10, <1>11, <3>1, <3>2
  <2>2. g <= g
    BY <1>5
  <2>. QED BY <1>1, <1>11, <2>1, <2>2 DEF CallsOfPasses
<1>. QED BY <1>14, <1>16, <1>17, <1>18, <1>19 DEF CaptureInv, LinesAreOps, CallsOfPasses

\* The pass is over: on to the next one, or the end.
LEMMA CaptureNextPass ==
  ASSUME CaptureInv, NextPass
  PROVE  CaptureInv'
<1>1. /\ CaptureType /\ LinesAreOps /\ CallsOfPasses
      /\ split > Len(Splits) /\ step' = step + 1 /\ split' = 1 /\ ~done
      /\ done' = done /\ gcall' = gcall /\ log' = log
  BY DEF NextPass, CaptureInv
<1>2. step \in Nat \ {0} /\ split = Len(Splits) + 1 /\ Len(Splits) \in Nat \ {0}
  BY <1>1, SplitFacts DEF CaptureType
<1>3. CaptureType'
  BY <1>1, <1>2 DEF CaptureType
<1>4. \A p, s : Printed(p, s, step', split') <=> Printed(p, s, step, split)
  BY <1>1, <1>2 DEF Printed
<1>5. LinesAreOps'
  BY <1>1, <1>4 DEF LinesAreOps, Lines
<1>6. CallsOfPasses'
  BY <1>1 DEF CallsOfPasses, Lines
<1>. QED BY <1>3, <1>5, <1>6 DEF CaptureInv

LEMMA CaptureStep ==
  ASSUME CaptureInv, [Next]_vars
  PROVE  CaptureInv'
<1>1. CASE End \/ Finished \/ UNCHANGED vars
  <2>1. /\ step' = step /\ split' = split /\ gcall' = gcall /\ log' = log
        /\ done' => split > Len(Splits)
        /\ CaptureType /\ LinesAreOps /\ CallsOfPasses
    BY <1>1 DEF End, Finished, vars, CaptureInv, CaptureType
  <2>2. CaptureType'
    BY <2>1 DEF CaptureType
  <2>3. LinesAreOps' /\ CallsOfPasses'
    BY <2>1 DEF LinesAreOps, CallsOfPasses, Lines
  <2>. QED BY <2>2, <2>3 DEF CaptureInv
<1>. QED BY <1>1, CaptureRunSplit, CaptureNextPass DEF Next

\* More decode steps than other passes: a majority of the lines of an op that are not
\* filed under prefill are of decode steps.  For every other pass there is a decode step
\* whose line is filed under decode, and one of them is left over.
LEMMA DecodeMajority ==
  ASSUME CaptureInv, Captured, step - Before > Before + 1, NEW op \in Ops
  PROVE  LET is  == Filed(op, "decode")
             own == {i \in is : IsDecode(log[i])}
         IN  /\ IsFiniteSet(is) /\ is \in SUBSET Lines /\ \A i \in is : log[i].dst = op
             /\ Cardinality(is \ own) < Cardinality(own)
<1>. DEFINE is == Filed(op, "decode")
            own == {i \in is : IsDecode(log[i])}
            others == is \ own
            b == Before
            P(i) == log[i].at[1]
            S(i) == log[i].at[2]
            K(i) == log[i].at[3]
<1>1. /\ CaptureType /\ LinesAreOps /\ CallsOfPasses
      /\ step \in Nat /\ Lines = 1 .. Len(log) /\ Len(log) \in Nat
      /\ split > Len(Splits) /\ b \in Nat \ {0} /\ step >= 2 * b + 2
  BY BeforeNat DEF CaptureInv, CaptureType, Captured, Lines
<1>2. IsFiniteSet(is) /\ is \in SUBSET Lines
  <2>1. is \in SUBSET Lines
    BY DEF Filed
  <2>2. IsFiniteSet(Lines)
    BY <1>1, FS_Interval
  <2>. HIDE DEF is
  <2>. QED BY <2>1, <2>2, FS_Subset
<1>3. \A i \in Lines : i \in is <=> log[i].dst = op /\ log[i].g # PrefillG
  BY DEF Filed, Phases
<1>4. \A i \in Lines : /\ P(i) \in 1 .. step /\ S(i) \in 1 .. Len(Splits)
                       /\ P(i) \in Nat /\ S(i) \in Nat
                       /\ K(i) \in 1 .. Len(Splits[S(i)]) /\ log[i].dst = Splits[S(i)][K(i)]
  <2>1. Len(Splits) \in Nat
    BY SplitFacts
  <2>. QED BY <1>1, <2>1 DEF LinesAreOps, Printed
<1>5. \A p \in 1 .. step : \A s \in 1 .. Len(Splits) : \A k \in 1 .. Len(Splits[s]) :
        \E i \in Lines : P(i) = p /\ S(i) = s /\ K(i) = k
  <2>1. \A p \in 1 .. step : \A s \in 1 .. Len(Splits) : Printed(p, s, step, split)
    BY <1>1, SplitFacts DEF Printed, CaptureType
  <2>2. \A p \in 1 .. step : \A s \in 1 .. Len(Splits) : p \in Nat /\ s \in Nat
    OBVIOUS
  <2>3. \A p, s \in Nat : Printed(p, s, step, split) => \A k \in 1 .. Len(Splits[s]) :
          \E i \in Lines : P(i) = p /\ S(i) = s /\ K(i) = k
    BY <1>1 DEF LinesAreOps, ComesFrom
  <2>. QED BY <2>1, <2>2, <2>3
<1>6. \A i, j \in Lines : P(i) = P(j) /\ S(i) = S(j) /\ K(i) = K(j) => i = j
  BY <1>1 DEF LinesAreOps, ComesFrom
<1>7. \A i \in Lines : IsDecode(log[i]) <=> P(i) > b
  <2>1. \A p \in Nat : PhaseOf(p) = "decode" <=> p > b
    BY PhasesAssumption DEF PhaseOf, Before
  <2>. QED BY <1>4, <2>1 DEF IsDecode
\* The pass the group taken for the prefill is of.
<1>8. \E p0 \in Nat : \A i \in Lines : log[i].g = PrefillG => P(i) = p0
  <2>1. CASE \E i \in Lines : log[i].g = PrefillG
    <3>1. PICK i \in Lines : log[i].g = PrefillG
      BY <2>1
    <3>2. \A j \in Lines : log[j].g = PrefillG => P(j) = P(i)
      BY <1>1, <3>1 DEF CallsOfPasses
    <3>. QED BY <1>4, <3>1, <3>2
  <2>2. CASE ~\E i \in Lines : log[i].g = PrefillG
    <3>1. \A i \in Lines : log[i].g = PrefillG => P(i) = 0
      BY <2>2
    <3>. QED BY <3>1
  <2>. QED BY <2>1, <2>2
<1>9. PICK p0 \in Nat : \A i \in Lines : log[i].g = PrefillG => P(i) = p0
  BY <1>8
<1>10. PICK s0 \in 1 .. Len(Splits) : \E k \in 1 .. Len(Splits[s0]) : Splits[s0][k] = op
  <2>1. PICK s \in 1 .. Len(Splits) : op \in ToSet(Splits[s])
    BY DEF Ops
  <2>2. Splits[s] \in Seq(Ops)
    BY SplitFacts
  <2>. QED BY <2>1, <2>2 DEF ToSet
<1>11. PICK k0 \in 1 .. Len(Splits[s0]) : Splits[s0][k0] = op
  BY <1>10
<1>. DEFINE To(p) == IF p + b < p0 THEN p + b ELSE p + b + 1
            left == IF p0 = 2 * b + 2 THEN 2 * b + 1 ELSE 2 * b + 2
<1>. HIDE DEF is
<1>12. \A p \in 1 .. b : /\ To(p) \in 1 .. step /\ To(p) > b /\ To(p) # p0 /\ To(p) # left
                         /\ \A q \in 1 .. b : To(p) = To(q) => p = q
  BY <1>1
<1>13. left \in 1 .. step /\ left > b /\ left # p0
  BY <1>1
<1>. HIDE DEF To, left
<1>14. \A i \in others : i \in Lines /\ i \in is /\ P(i) \in 1 .. b
  BY <1>1, <1>2, <1>4, <1>7
<1>15. \A i \in others : \E j \in Lines : P(j) = To(P(i)) /\ S(j) = S(i) /\ K(j) = K(i)
  <2>. TAKE i \in others
  <2>1. To(P(i)) \in 1 .. step
    BY <1>12, <1>14
  <2>2. S(i) \in 1 .. Len(Splits) /\ K(i) \in 1 .. Len(Splits[S(i)])
    BY <1>4, <1>14
  <2>3. PICK s \in 1 .. Len(Splits) : s = S(i)
    BY <2>2
  <2>4. PICK k \in 1 .. Len(Splits[s]) : k = K(i)
    BY <2>2, <2>3
  <2>5. \E j \in Lines : P(j) = To(P(i)) /\ S(j) = s /\ K(j) = k
    BY <1>5, <2>1
  <2>. QED BY <2>3, <2>4, <2>5
<1>. DEFINE f == [i \in others |-> CHOOSE j \in Lines : P(j) = To(P(i)) /\ S(j) = S(i) /\ K(j) = K(i)]
<1>16. \A i \in others : f[i] \in Lines /\ P(f[i]) = To(P(i)) /\ S(f[i]) = S(i) /\ K(f[i]) = K(i)
  BY <1>15
<1>. HIDE DEF f
<1>17. PICK x \in Lines : P(x) = left /\ S(x) = s0 /\ K(x) = k0
  BY <1>5, <1>10, <1>11, <1>13
<1>18. x \in own
  <2>1. log[x].dst = op /\ log[x].g # PrefillG
    BY <1>4, <1>9, <1>11, <1>13, <1>17
  <2>. QED BY <1>3, <1>7, <1>13, <1>17, <2>1
<1>19. \A i \in others : f[i] \in own \ {x}
  <2>. TAKE i \in others
  <2>1. f[i] \in Lines /\ log[f[i]].dst = log[i].dst
    BY <1>4, <1>14, <1>16
  <2>2. log[f[i]].dst = op
    BY <1>3, <1>14, <2>1
  <2>3. P(f[i]) # p0 /\ P(f[i]) > b /\ P(f[i]) # left
    BY <1>12, <1>14, <1>16
  <2>4. f[i] \in is
    BY <1>3, <1>9, <2>1, <2>2, <2>3
  <2>. QED BY <1>7, <1>17, <2>1, <2>3, <2>4
<1>20. \A i, j \in others : f[i] = f[j] => i = j
  <2>. TAKE i, j \in others
  <2>. HAVE f[i] = f[j]
  <2>1. To(P(i)) = To(P(j)) /\ S(i) = S(j) /\ K(i) = K(j)
    BY <1>16
  <2>2. P(i) = P(j)
    BY <1>12, <1>14, <2>1
  <2>. QED BY <1>6, <1>14, <2>1, <2>2
<1>21. IsFiniteSet(own) /\ IsFiniteSet(others) /\ IsFiniteSet(own \ {x})
  BY <1>2, FS_Subset
<1>22. Cardinality(others) <= Cardinality(own \ {x})
  <2>1. f \in [others -> own \ {x}]
    BY <1>19 DEF f
  <2>2. f \in Injection(others, own \ {x})
    BY <1>20, <2>1 DEF Injection, IsInjective
  <2>. HIDE DEF others, own
  <2>. QED BY <1>21, <2>2, FS_Injection
<1>23. Cardinality(own \ {x}) < Cardinality(own)
  <2>1. own \ {x} \in SUBSET own /\ own \ {x} # own
    BY <1>18
  <2>. DEFINE less == own \ {x}
  <2>2. Cardinality(own) \in Nat /\ Cardinality(less) \in Nat
    BY <1>21, FS_CardinalityType
  <2>. HIDE DEF own, less
  <2>3. Cardinality(less) <= Cardinality(own) /\ (Cardinality(less) = Cardinality(own) => less = own)
    BY <1>21, <2>1, FS_Subset DEF less
  <2>. QED BY <2>1, <2>2, <2>3 DEF less
<1>24. Cardinality(others) < Cardinality(own)
  <2>1. Cardinality(own) \in Nat /\ Cardinality(own \ {x}) \in Nat /\ Cardinality(others) \in Nat
    BY <1>21, FS_CardinalityType
  <2>. HIDE DEF own, others
  <2>. QED BY <1>22, <1>23, <2>1
<1>25. \A i \in is : log[i].dst = op
  BY <1>2, <1>3
<1>. QED BY <1>2, <1>24, <1>25 DEF is

LEMMA CellFromInv == CaptureInv => CellWithinDecodes
<1>. SUFFICES ASSUME CaptureInv, Captured, step - Before > Before + 1,
                     NEW op \in Ops, Cell(op) # NA
              PROVE  LET times == {log[i].us : i \in {j \in Lines : log[j].dst = op /\ IsDecode(log[j])}}
                     IN  \E lo, hi \in times : lo <= Cell(op) /\ Cell(op) <= hi
  BY DEF CellWithinDecodes
<1>. DEFINE is == Filed(op, "decode")
            own == {i \in is : IsDecode(log[i])}
<1>1. /\ IsFiniteSet(is) /\ is \in SUBSET Lines /\ \A i \in is : log[i].dst = op
      /\ Cardinality(is \ own) < Cardinality(own)
  BY DecodeMajority
<1>2. \A i \in Lines : log[i].us \in Nat
  <2>1. \A i \in Lines : log[i] \in LineType
    BY DEF CaptureInv, CaptureType, Lines
  <2>. QED BY <2>1 DEF LineType
<1>. HIDE DEF is
<1>3. /\ is # {}
      /\ \E lo, hi \in own : log[lo].us <= Med(log, is) /\ Med(log, is) <= log[hi].us
  <2>1. \A i \in is : log[i].us \in Nat
    BY <1>1, <1>2
  <2>2. own \in SUBSET is
    OBVIOUS
  <2>. DEFINE others == is \ own
  <2>3. IsFiniteSet(is) /\ others = is \ own /\ Cardinality(others) < Cardinality(own)
    BY <1>1
  <2>. HIDE DEF own, others
  <2>4. /\ is # {} /\ own # {}
        /\ \E lo \in own : log[lo].us <= Med(log, is)
        /\ \E hi \in own : Med(log, is) <= log[hi].us
    BY <2>1, <2>2, <2>3, MedianOfMajority
  <2>. QED BY <2>4
<1>4. Cell(op) = Med(log, is)
  BY <1>3 DEF Cell, Cput, is
<1>. QED BY <1>1, <1>3, <1>4

\* Whatever passes the parser takes for the prefill and for decode steps: with enough
\* decode steps in the capture, the time in a cell is within the decode steps' times.
THEOREM LogCellWithinDecodes == Spec => []CellWithinDecodes
<1>1. Init => CaptureInv
  BY CaptureInit
<1>2. CaptureInv /\ [Next]_vars => CaptureInv'
  BY CaptureStep
<1>3. CaptureInv => CellWithinDecodes
  BY CellFromInv
<1>. QED BY <1>1, <1>2, <1>3, PTL DEF Spec

\* The same for the capture the tables are made from, together with the runs in HTP0 mode.
THEOREM TablesCellWithinDecodes == TablesSpec => []CellWithinDecodes
<1>1. TablesInit => CaptureInv
  BY CaptureInit DEF TablesInit
<1>2. CaptureInv /\ [TablesNext]_<<vars, tableVars>> => CaptureInv'
  <2>1. [TablesNext]_<<vars, tableVars>> => [Next]_vars
    BY DEF TablesNext, Next, AssignPass, ProfilePass
  <2>. QED BY <2>1, CaptureStep
<1>3. CaptureInv => CellWithinDecodes
  BY CellFromInv
<1>. QED BY <1>1, <1>2, <1>3, PTL DEF TablesSpec

--------------------------------------------------------------------------------
(***************************************************************************)
(* The passes of a run.                                                    *)
(***************************************************************************)

Group == Seq(Node) \ {<<>>}

LEMMA PassFacts ==
  ASSUME NEW pass \in Pass
  PROVE  /\ pass.splits \in Seq(Split) /\ Len(pass.splits) \in Nat \ {0}
         /\ pass.ntok \in Nat \ {0} /\ pass.outs \in Nat /\ pass.run \in BOOLEAN
         /\ \A k \in 1 .. Len(pass.splits) :
              /\ pass.splits[k] \in Split
              /\ pass.splits[k].be \in {"CPU", "HTP0"}
              /\ pass.splits[k].groups \in Seq(Group)
              /\ ToSet(pass.splits[k].groups) \in SUBSET GroupsOf(pass)
<1>. DEFINE splits == pass.splits
<1>1. splits \in Seq(Split) /\ splits # <<>> /\ pass.ntok \in Nat \ {0} /\ pass.outs \in Nat
        /\ pass.run \in BOOLEAN
  BY DEF Pass
<1>. HIDE DEF splits
<1>2. Len(splits) \in Nat \ {0} /\ \A k \in 1 .. Len(splits) : splits[k] \in Split
  BY <1>1
<1>3. \A sp \in Split : sp.be \in {"CPU", "HTP0"} /\ sp.groups \in Seq(Group)
  BY DEF Split, Group
<1>4. \A k \in 1 .. Len(splits) : splits[k] \in ToSet(splits)
  BY <1>1 DEF ToSet
<1>5. \A sp \in ToSet(splits) : ToSet(sp.groups) \in SUBSET GroupsOf(pass)
  BY DEF GroupsOf, splits
<1>. QED BY <1>1, <1>2, <1>3, <1>4, <1>5 DEF splits

\* The DSP is given the groups with rows, and no others.
LEMMA DspGroupsFacts ==
  ASSUME NEW pass, NEW sp \in Split
  PROVE  /\ DspGroups(sp, pass) \in Seq(Group)
         /\ \A i \in 1 .. Len(DspGroups(sp, pass)) :
              /\ DspGroups(sp, pass)[i] \in ToSet(sp.groups)
              /\ RowsOf(pass, DspGroups(sp, pass)[i][1]) > 0
         /\ \A grp \in ToSet(sp.groups) : RowsOf(pass, grp[1]) > 0 =>
              \E i \in 1 .. Len(DspGroups(sp, pass)) : DspGroups(sp, pass)[i] = grp
<1>. DEFINE groups == sp.groups
            HasRows(grp) == RowsOf(pass, grp[1]) > 0
            ss == [j \in DOMAIN groups |-> IF HasRows(groups[j]) THEN <<groups[j]>> ELSE <<>>]
<1>1. groups \in Seq(Group) /\ Len(groups) \in Nat /\ DOMAIN groups = 1 .. Len(groups)
        /\ \A j \in 1 .. Len(groups) : groups[j] \in Group
  <2>1. groups \in Seq(Group)
    BY DEF Split, Group
  <2>. HIDE DEF groups
  <2>. QED BY <2>1
<1>2. DspGroups(sp, pass) = FlattenSeq(ss)
  BY DEF DspGroups
<1>. HIDE DEF groups, HasRows
<1>3. ss \in Seq(Seq(Group)) /\ Len(ss) = Len(groups)
  <2>1. \A j \in 1 .. Len(groups) : ss[j] \in Seq(Group)
    BY <1>1
  <2>2. ss \in [1 .. Len(groups) -> Seq(Group)]
    BY <1>1, <2>1
  <2>. HIDE DEF ss
  <2>. QED BY <1>1, <2>2
<1>4. \A j \in 1 .. Len(ss) : \A k \in 1 .. Len(ss[j]) :
        HasRows(groups[j]) /\ ss[j][k] = groups[j]
  BY <1>1, <1>3
<1>5. \A j \in 1 .. Len(ss) : HasRows(groups[j]) => 1 \in 1 .. Len(ss[j]) /\ ss[j][1] = groups[j]
  BY <1>1, <1>3
<1>. HIDE DEF ss
<1>6. /\ FlattenSeq(ss) \in Seq(Group)
      /\ \A j \in 1 .. Len(ss) : \A k \in 1 .. Len(ss[j]) :
           \E i \in 1 .. Len(FlattenSeq(ss)) : FlattenSeq(ss)[i] = ss[j][k]
      /\ \A i \in 1 .. Len(FlattenSeq(ss)) :
           \E j \in 1 .. Len(ss) : \E k \in 1 .. Len(ss[j]) : FlattenSeq(ss)[i] = ss[j][k]
  BY <1>3, FlattenMembers
<1>7. \A i \in 1 .. Len(FlattenSeq(ss)) :
        FlattenSeq(ss)[i] \in ToSet(groups) /\ HasRows(FlattenSeq(ss)[i])
  <2>. TAKE i \in 1 .. Len(FlattenSeq(ss))
  <2>1. PICK j \in 1 .. Len(ss) : \E k \in 1 .. Len(ss[j]) : FlattenSeq(ss)[i] = ss[j][k]
    BY <1>6
  <2>2. HasRows(groups[j]) /\ FlattenSeq(ss)[i] = groups[j]
    BY <1>4, <2>1
  <2>3. groups[j] \in ToSet(groups)
    BY <1>1, <1>3 DEF ToSet
  <2>. QED BY <2>2, <2>3
<1>8. \A grp \in ToSet(groups) : HasRows(grp) =>
        \E i \in 1 .. Len(FlattenSeq(ss)) : FlattenSeq(ss)[i] = grp
  <2>. TAKE grp \in ToSet(groups)
  <2>. HAVE HasRows(grp)
  <2>1. PICK j \in 1 .. Len(groups) : grp = groups[j]
    BY <1>1 DEF ToSet
  <2>2. 1 \in 1 .. Len(ss[j]) /\ ss[j][1] = grp /\ j \in 1 .. Len(ss)
    BY <1>3, <1>5, <2>1
  <2>. QED BY <1>6, <2>2
<1>. QED BY <1>2, <1>6, <1>7, <1>8 DEF groups, HasRows

\* The groups of a pass that the DSP runs.
RunGroups(pass) ==
  FlattenSeq([k \in DOMAIN pass.splits |->
    IF pass.run /\ pass.splits[k].be = "HTP0" THEN DspGroups(pass.splits[k], pass) ELSE <<>>])

LEMMA RunGroupsFacts ==
  ASSUME NEW pass \in Pass
  PROVE  /\ RunGroups(pass) \in Seq(Group)
         /\ \A i \in 1 .. Len(RunGroups(pass)) : /\ RunGroups(pass)[i] \in GroupsOf(pass)
                                                 /\ RowsOf(pass, RunGroups(pass)[i][1]) > 0
<1>. DEFINE splits == pass.splits
            ss == [k \in DOMAIN splits |->
                     IF pass.run /\ splits[k].be = "HTP0" THEN DspGroups(splits[k], pass) ELSE <<>>]
<1>1. /\ DOMAIN splits = 1 .. Len(splits) /\ Len(splits) \in Nat
      /\ \A k \in 1 .. Len(splits) :
           splits[k] \in Split /\ ToSet(splits[k].groups) \in SUBSET GroupsOf(pass)
  BY PassFacts
<1>2. RunGroups(pass) = FlattenSeq(ss)
  BY DEF RunGroups
<1>. HIDE DEF splits
<1>3. \A k \in 1 .. Len(splits) : ss[k] \in Seq(Group)
  BY <1>1, DspGroupsFacts
<1>4. \A k \in 1 .. Len(splits) : \A i \in 1 .. Len(ss[k]) :
        ss[k][i] \in GroupsOf(pass) /\ RowsOf(pass, ss[k][i][1]) > 0
  <2>. TAKE k \in 1 .. Len(splits)
  <2>1. CASE pass.run /\ splits[k].be = "HTP0"
    <3>1. ss[k] = DspGroups(splits[k], pass)
      BY <1>1, <2>1
    <3>. HIDE DEF ss
    <3>. QED BY <1>1, <3>1, DspGroupsFacts
  <2>2. CASE ~(pass.run /\ splits[k].be = "HTP0")
    BY <1>1, <2>2
  <2>. QED BY <2>1, <2>2
<1>5. ss \in Seq(Seq(Group)) /\ Len(ss) = Len(splits)
  <2>1. ss \in [1 .. Len(splits) -> Seq(Group)]
    BY <1>1, <1>3
  <2>. HIDE DEF ss
  <2>. QED BY <1>1, <2>1
<1>. HIDE DEF ss
<1>6. /\ FlattenSeq(ss) \in Seq(Group)
      /\ \A i \in 1 .. Len(FlattenSeq(ss)) :
           \E j \in 1 .. Len(ss) : \E k \in 1 .. Len(ss[j]) : FlattenSeq(ss)[i] = ss[j][k]
  BY <1>5, FlattenMembers
<1>. QED BY <1>2, <1>4, <1>5, <1>6

--------------------------------------------------------------------------------
(***************************************************************************)
(* The HTP0-mode logs: both are of the passes of the run, in order, and a  *)
(* profile-op line is of a group of nodes of its pass.                     *)
(***************************************************************************)

SampleType == [dst : DOMAIN Parts, ntok : Nat \ {0}, us : Nat, nodes : SUBSET Node,
               tokens : Nat \ {0}]

SampleOf(pass, s) ==
  \E grp \in GroupsOf(pass) :
    /\ grp \in Group
    /\ s.dst = Last(grp).name /\ s.nodes = ToSet(grp) /\ s.ntok = RowsOf(pass, Last(grp))

TablesInv ==
  /\ hrun \in Runs
  /\ alog \in Seq(Pass) /\ Len(alog) <= Len(hrun)
  /\ \A i \in 1 .. Len(alog) : alog[i] = hrun[i]
  /\ plog \in Seq(Seq(SampleType)) /\ Len(plog) <= Len(hrun)
  /\ plog # <<>> => Len(alog) = Len(hrun)
  /\ \A i \in 1 .. Len(plog) : \A j \in 1 .. Len(plog[i]) : SampleOf(hrun[i], plog[i][j])

LEMMA RunFacts ==
  ASSUME NEW run \in Runs
  PROVE  /\ run \in Seq(Pass) /\ Len(run) \in Nat
         /\ \A i, j \in 1 .. Len(run) : NodesOf(run[i]) = NodesOf(run[j])
         /\ \A i \in 1 .. Len(run) :
              run[i] \in Pass
                /\ \A grp \in GroupsOf(run[i]) : \A n, m \in ToSet(grp) : n.trim = m.trim
<1>1. run \in Seq(Pass) /\ Len(run) \in Nat
  BY TablesAssumption
<1>2. \A i \in 1 .. Len(run) : run[i] \in ToSet(run) /\ run[i] \in Pass
  BY <1>1 DEF ToSet
<1>. QED BY <1>1, <1>2, TablesAssumption

LEMMA TablesInvInit == TablesInit => TablesInv
<1>. SUFFICES ASSUME TablesInit PROVE TablesInv
  OBVIOUS
<1>1. hrun \in Runs /\ alog = <<>> /\ plog = <<>>
  BY DEF TablesInit
<1>2. Len(hrun) \in Nat
  BY <1>1, RunFacts
<1>. QED BY <1>1, <1>2 DEF TablesInv

LEMMA TablesInvAssign ==
  ASSUME TablesInv, AssignPass
  PROVE  TablesInv'
<1>1. /\ hrun \in Runs /\ alog \in Seq(Pass) /\ plog \in Seq(Seq(SampleType))
      /\ Len(alog) < Len(hrun) /\ alog' = Append(alog, hrun[Len(alog) + 1])
      /\ hrun' = hrun /\ plog' = plog
  BY DEF TablesInv, AssignPass
<1>2. Len(hrun) \in Nat /\ Len(alog) \in Nat /\ Len(alog) + 1 \in 1 .. Len(hrun)
  BY <1>1, RunFacts
<1>3. hrun[Len(alog) + 1] \in Pass
  BY <1>1, <1>2, RunFacts
<1>4. alog' \in Seq(Pass) /\ Len(alog') = Len(alog) + 1
  BY <1>1, <1>3
<1>5. \A i \in 1 .. Len(alog') : alog'[i] = hrun[i]
  <2>. TAKE i \in 1 .. Len(alog')
  <2>1. CASE i = Len(alog) + 1
    BY <1>1, <1>2, <1>3, <2>1
  <2>2. CASE i # Len(alog) + 1
    <3>1. i \in 1 .. Len(alog)
      BY <1>2, <1>4, <2>2
    <3>2. alog'[i] = alog[i]
      BY <1>1, <1>3, <3>1
    <3>. QED BY <3>1, <3>2 DEF TablesInv
  <2>. QED BY <2>1, <2>2
<1>6. plog = <<>>
  BY <1>1, <1>2 DEF TablesInv
<1>7. Len(alog') <= Len(hrun) /\ Len(plog) <= Len(hrun)
  BY <1>2, <1>4 DEF TablesInv
<1>. QED BY <1>1, <1>4, <1>5, <1>6, <1>7 DEF TablesInv

LEMMA LastInGroup ==
  ASSUME NEW grp \in Group
  PROVE  /\ Last(grp) \in ToSet(grp) /\ Last(grp) \in Node /\ grp[1] \in ToSet(grp)
         /\ grp[1] \in Node /\ ToSet(grp) \in SUBSET Node
<1>1. grp \in Seq(Node) /\ Len(grp) \in 1 .. Len(grp) /\ 1 \in 1 .. Len(grp)
  BY DEF Group
<1>. QED BY <1>1 DEF Last, ToSet

LEMMA TablesInvProfile ==
  ASSUME TablesInv, ProfilePass
  PROVE  TablesInv'
<1>. DEFINE m == Len(plog) + 1
            pass == hrun[m]
            grps == RunGroups(pass)
            Time(i, bound) == DspUs[grps[i][1].op][IF RowsOf(pass, grps[i][1]) > DecodeMaxTok
                                                    THEN "many" ELSE "few"][bound]
<1>1. /\ hrun \in Runs /\ alog \in Seq(Pass) /\ plog \in Seq(Seq(SampleType))
      /\ Len(alog) = Len(hrun) /\ Len(plog) < Len(hrun) /\ hrun' = hrun /\ alog' = alog
  BY DEF TablesInv, ProfilePass
<1>2. Len(hrun) \in Nat /\ Len(plog) \in Nat /\ m \in 1 .. Len(hrun)
  BY <1>1, RunFacts
<1>3. pass \in Pass /\ \A grp \in GroupsOf(pass) : \A a, b \in ToSet(grp) : a.trim = b.trim
  BY <1>1, <1>2, RunFacts
<1>. DEFINE New(slow) ==
              [i \in DOMAIN grps |->
                 [dst |-> Last(grps[i]).name, ntok |-> RowsOf(pass, Last(grps[i])),
                  us |-> Time(i, IF i \in slow THEN 2 ELSE 1), nodes |-> ToSet(grps[i]),
                  tokens |-> pass.ntok]]
<1>4. PICK slow : plog' = Append(plog, New(slow))
  BY DEF ProfilePass, RunGroups
<1>. DEFINE new == New(slow)
<1>5. /\ grps \in Seq(Group) /\ Len(grps) \in Nat /\ DOMAIN grps = 1 .. Len(grps)
      /\ \A i \in 1 .. Len(grps) : /\ grps[i] \in Group /\ grps[i] \in GroupsOf(pass)
                                   /\ RowsOf(pass, grps[i][1]) > 0
  <2>1. grps \in Seq(Group)
    BY <1>3, RunGroupsFacts
  <2>. HIDE DEF pass
  <2>2. \A i \in 1 .. Len(grps) : grps[i] \in GroupsOf(pass) /\ RowsOf(pass, grps[i][1]) > 0
    BY <1>3, RunGroupsFacts
  <2>. HIDE DEF grps
  <2>. QED BY <2>1, <2>2
<1>. HIDE DEF grps, pass
<1>6. \A i \in 1 .. Len(grps) : \A b \in {1, 2} : Time(i, b) \in Nat
  <2>1. \A n \in Node : n.op \in DOMAIN DspUs
    BY DEF Node
  <2>2. \A op \in DOMAIN DspUs : \A r \in {"few", "many"} : \A b \in {1, 2} : DspUs[op][r][b] \in Nat
    <3>1. \A op \in DOMAIN DspUs : DspUs[op] \in [few : Nat \X Nat, many : Nat \X Nat]
      BY TablesAssumption
    <3>2. \A op \in DOMAIN DspUs : \A r \in {"few", "many"} : DspUs[op][r] \in Nat \X Nat
      BY <3>1
    <3>. QED BY <3>2
  <2>3. \A i \in 1 .. Len(grps) : grps[i][1].op \in DOMAIN DspUs
    BY <1>5, <2>1, LastInGroup
  <2>. QED BY <2>2, <2>3
<1>7. \A i \in 1 .. Len(grps) :
        /\ Last(grps[i]) \in Node /\ Last(grps[i]).name \in DOMAIN Parts
        /\ ToSet(grps[i]) \in SUBSET Node
        /\ RowsOf(pass, Last(grps[i])) \in Nat \ {0}
  <2>. TAKE i \in 1 .. Len(grps)
  <2>1. /\ Last(grps[i]) \in Node /\ Last(grps[i]) \in ToSet(grps[i]) /\ grps[i][1] \in ToSet(grps[i])
        /\ ToSet(grps[i]) \in SUBSET Node
    BY <1>5, LastInGroup
  <2>2. Last(grps[i]).name \in DOMAIN Parts
    BY <2>1 DEF Node
  <2>3. Last(grps[i]).trim = grps[i][1].trim
    BY <1>3, <1>5, <2>1
  <2>4. RowsOf(pass, Last(grps[i])) = RowsOf(pass, grps[i][1])
    BY <2>3 DEF RowsOf
  <2>5. RowsOf(pass, Last(grps[i])) \in Nat
    BY <1>3, PassFacts DEF RowsOf
  <2>. QED BY <1>5, <2>1, <2>2, <2>4, <2>5
<1>8. \A i \in 1 .. Len(grps) : /\ new[i].dst = Last(grps[i]).name
                                /\ new[i].ntok = RowsOf(pass, Last(grps[i]))
                                /\ new[i].nodes = ToSet(grps[i])
                                /\ new[i] \in SampleType
  <2>. TAKE i \in 1 .. Len(grps)
  <2>. DEFINE us == Time(i, IF i \in slow THEN 2 ELSE 1)
  <2>1. us \in Nat /\ pass.ntok \in Nat \ {0}
    BY <1>3, <1>6, PassFacts
  <2>2. new[i] = [dst |-> Last(grps[i]).name, ntok |-> RowsOf(pass, Last(grps[i])),
                  us |-> us, nodes |-> ToSet(grps[i]), tokens |-> pass.ntok]
    BY <1>5
  <2>. HIDE DEF us, new
  <2>. QED BY <1>7, <2>1, <2>2 DEF SampleType
<1>9. new \in Seq(SampleType) /\ Len(new) = Len(grps)
  <2>1. new \in [1 .. Len(grps) -> SampleType]
    BY <1>5, <1>8
  <2>. HIDE DEF new
  <2>. QED BY <1>5, <2>1
<1>10. plog' = Append(plog, new)
  BY <1>4
<1>. HIDE DEF new
<1>11. /\ plog' \in Seq(Seq(SampleType)) /\ Len(plog') = m /\ plog'[m] = new
       /\ \A i \in 1 .. Len(plog) : plog'[i] = plog[i]
  BY <1>1, <1>2, <1>9, <1>10
<1>12. \A j \in 1 .. Len(new) : SampleOf(pass, new[j])
  BY <1>5, <1>8, <1>9 DEF SampleOf
<1>13. \A i \in 1 .. Len(plog') : \A j \in 1 .. Len(plog'[i]) : SampleOf(hrun[i], plog'[i][j])
  <2>. TAKE i \in 1 .. Len(plog')
  <2>1. CASE i = m
    BY <1>11, <1>12, <2>1 DEF pass
  <2>2. CASE i # m
    <3>1. i \in 1 .. Len(plog)
      BY <1>2, <1>11, <2>2
    <3>. QED BY <1>11, <3>1 DEF TablesInv
  <2>. QED BY <2>1, <2>2
<1>14. Len(plog') <= Len(hrun)
  BY <1>2, <1>11
<1>. QED BY <1>1, <1>11, <1>13, <1>14 DEF TablesInv, SampleOf

LEMMA TablesInvStep == TablesInv /\ [TablesNext]_<<vars, tableVars>> => TablesInv'
<1>. SUFFICES ASSUME TablesInv, [TablesNext]_<<vars, tableVars>> PROVE TablesInv'
  OBVIOUS
<1>1. CASE UNCHANGED tableVars
  BY <1>1 DEF tableVars, TablesInv, SampleOf
<1>. QED BY <1>1, TablesInvAssign, TablesInvProfile DEF TablesNext

--------------------------------------------------------------------------------
(***************************************************************************)
(* The SPLIT lines: where those of a graph lie in the log, and what comes  *)
(* before the first of them.                                               *)
(***************************************************************************)

LinesOf(pass) == [k \in DOMAIN pass.splits |-> [index |-> k - 1, be |-> pass.splits[k].be]]

LEMMA SplitLinesLaid ==
  ASSUME NEW passes \in Seq(Pass)
  PROVE  LET ss == [i \in DOMAIN passes |-> LinesOf(passes[i])]
         IN  /\ Len(ss) = Len(passes) /\ Len(passes) \in Nat /\ Len(FlattenSeq(ss)) \in Nat
             /\ \A i \in 1 .. Len(passes) :
                  /\ Len(ss[i]) = Len(passes[i].splits) /\ Len(ss[i]) \in Nat \ {0}
                  /\ \A k \in 1 .. Len(ss[i]) : /\ ss[i][k].index = k - 1
                                                /\ ss[i][k].be = passes[i].splits[k].be
             /\ \E off : Laid(ss, off)
<1>. DEFINE ss == [i \in DOMAIN passes |-> LinesOf(passes[i])]
            SplitLine == [index : Int, be : {"CPU", "HTP0"}]
<1>1. /\ DOMAIN passes = 1 .. Len(passes) /\ Len(passes) \in Nat
      /\ \A i \in 1 .. Len(passes) : passes[i] \in Pass
  OBVIOUS
<1>2. ASSUME NEW i \in 1 .. Len(passes)
      PROVE  /\ ss[i] \in Seq(SplitLine)
             /\ Len(ss[i]) = Len(passes[i].splits) /\ Len(ss[i]) \in Nat \ {0}
             /\ \A k \in 1 .. Len(ss[i]) : ss[i][k].index = k - 1 /\ ss[i][k].be = passes[i].splits[k].be
  <2>. DEFINE splits == passes[i].splits
              n == Len(splits)
              lines == [k \in 1 .. n |-> [index |-> k - 1, be |-> splits[k].be]]
  <2>1. /\ DOMAIN splits = 1 .. n /\ n \in Nat \ {0}
        /\ \A k \in 1 .. n : splits[k].be \in {"CPU", "HTP0"}
    BY <1>1, PassFacts
  <2>2. ss[i] = lines
    BY <1>1, <2>1 DEF LinesOf
  <2>3. \A k \in 1 .. n : k - 1 \in Int
    BY <2>1
  <2>. HIDE DEF splits, n, ss
  <2>4. lines \in [1 .. n -> SplitLine]
    BY <2>1, <2>3
  <2>5. \A k \in 1 .. n : lines[k].index = k - 1 /\ lines[k].be = splits[k].be
    OBVIOUS
  <2>. HIDE DEF lines, SplitLine
  <2>6. lines \in Seq(SplitLine) /\ Len(lines) = n
    BY <2>1, <2>4
  <2>7. Len(ss[i]) = n /\ n = Len(passes[i].splits) /\ splits = passes[i].splits
    BY <2>2, <2>6 DEF n, splits
  <2>. QED BY <2>1, <2>2, <2>5, <2>6, <2>7
<1>3. ss \in Seq(Seq(SplitLine)) /\ Len(ss) = Len(passes)
  <2>1. ss \in [1 .. Len(passes) -> Seq(SplitLine)]
    BY <1>1, <1>2
  <2>. HIDE DEF ss
  <2>. QED BY <1>1, <2>1
<1>. HIDE DEF ss, SplitLine
<1>4. FlattenSeq(ss) \in Seq(SplitLine) /\ \E off : Laid(ss, off)
  BY <1>3, FlattenLaid
<1>5. Len(FlattenSeq(ss)) \in Nat
  BY <1>4
<1>. QED BY <1>1, <1>2, <1>3, <1>4, <1>5 DEF ss

LEMMA TransitionsFromInv ==
  ASSUME TablesInv
  PROVE  TransitionsComplete
<1>. DEFINE ss == [i \in DOMAIN alog |-> LinesOf(alog[i])]
            lines == FlattenSeq(ss)
<1>1. alog \in Seq(Pass)
  BY DEF TablesInv
<1>2. SplitLines = lines
  BY DEF SplitLines, LinesOf
<1>3. /\ Len(ss) = Len(alog) /\ Len(alog) \in Nat /\ Len(lines) \in Nat
      /\ \A i \in 1 .. Len(alog) :
           /\ Len(ss[i]) = Len(alog[i].splits) /\ Len(ss[i]) \in Nat \ {0}
           /\ \A k \in 1 .. Len(ss[i]) : /\ ss[i][k].index = k - 1
                                         /\ ss[i][k].be = alog[i].splits[k].be
      /\ \E off : Laid(ss, off)
  BY <1>1, SplitLinesLaid
<1>. HIDE DEF ss
<1>4. PICK off : Laid(ss, off)
  BY <1>3
<1>5. /\ off \in [0 .. Len(alog) -> Nat] /\ off[0] = 0
      /\ \A i \in 1 .. Len(alog) : off[i] = off[i - 1] + Len(ss[i])
  BY <1>3, <1>4 DEF Laid
<1>6. \A i \in 1 .. Len(alog) : \A k \in 1 .. Len(ss[i]) :
        off[i - 1] + k \in 1 .. Len(lines) /\ lines[off[i - 1] + k] = ss[i][k]
  BY <1>3, <1>4 DEF Laid
<1>7. \A j \in 1 .. Len(lines) : \E i \in 1 .. Len(alog) : \E k \in 1 .. Len(ss[i]) :
        j = off[i - 1] + k
  <2>1. Len(ss) = Len(alog)
    BY <1>3
  <2>2. \A j \in 1 .. Len(lines) : \E i \in 1 .. Len(ss) : \E k \in 1 .. Len(ss[i]) :
          j = off[i - 1] + k
    BY <1>4 DEF Laid
  <2>. HIDE DEF lines
  <2>. QED BY <2>1, <2>2
<1>. HIDE DEF lines
<1>8. \A p \in ToSet(alog) : \E i \in 1 .. Len(alog) : p = alog[i]
  BY <1>1 DEF ToSet
<1>9. \A i \in 1 .. Len(alog) : alog[i] \in ToSet(alog)
  BY <1>1 DEF ToSet
<1>10. \A i \in 1 .. Len(alog) : off[i - 1] \in Nat
  <2>1. \A i \in 1 .. Len(alog) : i - 1 \in 0 .. Len(alog)
    BY <1>3
  <2>. QED BY <1>5, <2>1
<1>. DEFINE T(j) == [index |-> lines[j].index, src |-> lines[j - 1].be, dst |-> lines[j].be]
            Change(p, k) == [index |-> k - 1, src |-> p.splits[k - 1].be, dst |-> p.splits[k].be]
<1>11. Transitions = {T(j) : j \in {j \in 2 .. Len(lines) : lines[j].be # lines[j - 1].be}}
  BY <1>2 DEF Transitions
<1>12. ASSUME NEW i \in 1 .. Len(alog), NEW k \in 2 .. Len(alog[i].splits)
       PROVE  /\ off[i - 1] + k \in 2 .. Len(lines) /\ T(off[i - 1] + k) = Change(alog[i], k)
              /\ lines[off[i - 1] + k].be = alog[i].splits[k].be
              /\ lines[(off[i - 1] + k) - 1].be = alog[i].splits[k - 1].be
  <2>1. k \in 1 .. Len(ss[i]) /\ k - 1 \in 1 .. Len(ss[i])
    BY <1>3
  <2>2. (off[i - 1] + k) - 1 = off[i - 1] + (k - 1) /\ off[i - 1] + k >= 2
    BY <1>10
  <2>3. lines[off[i - 1] + k] = ss[i][k] /\ lines[off[i - 1] + (k - 1)] = ss[i][k - 1]
    BY <1>6, <2>1
  <2>4. ss[i][k].index = k - 1 /\ ss[i][k].be = alog[i].splits[k].be
         /\ ss[i][k - 1].be = alog[i].splits[k - 1].be
    BY <1>3, <2>1
  <2>5. off[i - 1] + k \in 1 .. Len(lines)
    BY <1>6, <2>1
  <2>6. off[i - 1] + k \in 2 .. Len(lines)
    BY <1>3, <2>2, <2>5
  <2>. QED BY <2>2, <2>3, <2>4, <2>6
<1>13. ASSUME NEW p \in ToSet(alog), NEW k \in 2 .. Len(p.splits),
              p.splits[k - 1].be # p.splits[k].be
       PROVE  Change(p, k) \in Transitions
  <2>1. PICK i \in 1 .. Len(alog) : p = alog[i]
    BY <1>8
  <2>. DEFINE j == off[i - 1] + k
  <2>2. /\ j \in 2 .. Len(lines) /\ T(j) = Change(p, k)
        /\ lines[j].be = p.splits[k].be /\ lines[j - 1].be = p.splits[k - 1].be
    BY <1>12, <2>1
  <2>3. lines[j].be # lines[j - 1].be
    BY <1>13, <2>2
  <2>. HIDE DEF j
  <2>. QED BY <1>11, <2>2, <2>3
<1>14. ASSUME NEW t \in Transitions
       PROVE  IF t.index = 0
                THEN \E p, q \in ToSet(alog) : t.src = Last(p.splits).be /\ t.dst = q.splits[1].be
                ELSE \E p \in ToSet(alog) : t.index < Len(p.splits) /\ t = Change(p, t.index + 1)
  <2>1. PICK j \in 2 .. Len(lines) : t = T(j)
    BY <1>11
  <2>2. PICK i \in 1 .. Len(alog) : \E k \in 1 .. Len(ss[i]) : j = off[i - 1] + k
    <3>1. Len(lines) \in Nat
      BY <1>3
    <3>2. j \in 1 .. Len(lines)
      BY <3>1
    <3>. QED BY <1>7, <3>2
  <2>3. PICK k \in 1 .. Len(ss[i]) : j = off[i - 1] + k
    BY <2>2
  <2>4. lines[j] = ss[i][k] /\ ss[i][k].index = k - 1 /\ ss[i][k].be = alog[i].splits[k].be
         /\ Len(ss[i]) = Len(alog[i].splits) /\ Len(ss[i]) \in Nat \ {0}
    BY <1>3, <1>6, <2>3
  <2>5. t.index = k - 1 /\ t.dst = alog[i].splits[k].be /\ t.src = lines[j - 1].be
    BY <2>1, <2>4
  <2>6. CASE k = 1
    <3>1. i # 1
      <4>1. off[i - 1] # 0 /\ 1 - 1 = 0
        BY <1>10, <2>3, <2>6
      <4>. QED BY <1>5, <4>1
    <3>2. i - 1 \in 1 .. Len(alog) /\ (i - 1) - 1 \in 0 .. Len(alog)
      BY <1>3, <3>1
    <3>. DEFINE h == i - 1
                n == Len(ss[h])
    <3>3. h \in 1 .. Len(alog) /\ n \in Nat \ {0} /\ n = Len(alog[h].splits) /\ n \in 1 .. n
      BY <1>3, <3>2
    <3>4. off[h] = off[h - 1] + n /\ off[h] \in Nat
      BY <1>5, <1>10, <3>3
    <3>5. j - 1 = off[h]
      BY <2>3, <2>6, <3>4
    <3>6. lines[off[h - 1] + n] = ss[h][n] /\ ss[h][n].be = alog[h].splits[n].be
      BY <1>3, <1>6, <3>3
    <3>7. lines[j - 1].be = alog[h].splits[n].be
      BY <3>4, <3>5, <3>6
    <3>. HIDE DEF h, n
    <3>8. Last(alog[h].splits) = alog[h].splits[n]
      BY <3>3 DEF Last
    <3>9. t.src = Last(alog[h].splits).be /\ t.dst = alog[i].splits[1].be /\ t.index = 0
      BY <2>5, <2>6, <3>7, <3>8
    <3>. QED BY <1>9, <3>3, <3>9
  <2>7. CASE k # 1
    <3>1. k \in 2 .. Len(alog[i].splits) /\ t.index # 0 /\ t.index + 1 = k
            /\ t.index < Len(alog[i].splits)
      BY <2>4, <2>5, <2>7
    <3>2. t = Change(alog[i], k)
      BY <1>12, <2>1, <2>3, <3>1
    <3>3. t = Change(alog[i], t.index + 1)
      BY <3>1, <3>2
    <3>. HIDE DEF Change
    <3>. QED BY <1>9, <3>1, <3>3
  <2>. QED BY <2>6, <2>7
<1>. HIDE DEF T
<1>. QED BY <1>13, <1>14 DEF TransitionsComplete

\* No change of backend inside a graph is missing from backend_transition.csv, and what
\* is in it beside them is a change from the last split of a graph to the first of one.
THEOREM TablesTransitionsComplete == TablesSpec => []TransitionsComplete
<1>1. TablesInit => TablesInv
  BY TablesInvInit
<1>2. TablesInv /\ [TablesNext]_<<vars, tableVars>> => TablesInv'
  BY TablesInvStep
<1>3. TablesInv => TransitionsComplete
  BY TransitionsFromInv
<1>. QED BY <1>1, <1>2, <1>3, PTL DEF TablesSpec

--------------------------------------------------------------------------------
(***************************************************************************)
(* The "node #" lines and the profile-op lines.                            *)
(***************************************************************************)

NodeLine == [node : Node, be : {"CPU", "HTP0"}]

\* The nodes of a split, in the order of their groups.
LEMMA SplitNodesFacts ==
  ASSUME NEW sp \in Split
  PROVE  LET nodes == FlattenSeq(sp.groups)
             ls    == [j \in DOMAIN nodes |-> [node |-> nodes[j], be |-> sp.be]]
         IN  /\ ls \in Seq(NodeLine)
             /\ \A j \in 1 .. Len(ls) : ls[j].be = sp.be
                  /\ \E grp \in ToSet(sp.groups) : ls[j].node \in ToSet(grp)
             /\ \A grp \in ToSet(sp.groups) : \A n \in ToSet(grp) :
                  \E j \in 1 .. Len(ls) : ls[j] = [node |-> n, be |-> sp.be]
<1>. DEFINE groups == sp.groups
            nodes == FlattenSeq(groups)
            ls == [j \in DOMAIN nodes |-> [node |-> nodes[j], be |-> sp.be]]
<1>1. groups \in Seq(Seq(Node)) /\ sp.be \in {"CPU", "HTP0"}
  <2>1. groups \in Seq(Group) /\ sp.be \in {"CPU", "HTP0"}
    BY DEF Split, Group
  <2>2. \A k \in 1 .. Len(groups) : groups[k] \in Seq(Node)
    BY <2>1 DEF Group
  <2>. HIDE DEF groups
  <2>. QED BY <2>1, <2>2
<1>. HIDE DEF groups
<1>2. /\ nodes \in Seq(Node)
      /\ \A i \in 1 .. Len(groups) : \A k \in 1 .. Len(groups[i]) :
           \E j \in 1 .. Len(nodes) : nodes[j] = groups[i][k]
      /\ \A j \in 1 .. Len(nodes) :
           \E i \in 1 .. Len(groups) : \E k \in 1 .. Len(groups[i]) : nodes[j] = groups[i][k]
  BY <1>1, FlattenMembers
<1>. HIDE DEF nodes
<1>3. ls \in Seq(NodeLine) /\ Len(ls) = Len(nodes)
        /\ \A j \in 1 .. Len(nodes) : ls[j] = [node |-> nodes[j], be |-> sp.be]
  <2>1. DOMAIN nodes = 1 .. Len(nodes) /\ Len(nodes) \in Nat
          /\ \A j \in 1 .. Len(nodes) : nodes[j] \in Node
    BY <1>2
  <2>2. \A j \in 1 .. Len(nodes) : ls[j] = [node |-> nodes[j], be |-> sp.be]
    BY <2>1
  <2>3. ls \in [1 .. Len(nodes) -> NodeLine]
    BY <1>1, <2>1 DEF NodeLine
  <2>. HIDE DEF ls
  <2>4. ls \in Seq(NodeLine) /\ Len(ls) = Len(nodes)
    BY <2>1, <2>3
  <2>. QED BY <2>2, <2>4
<1>. HIDE DEF ls
<1>4. ASSUME NEW j \in 1 .. Len(ls)
      PROVE  ls[j].be = sp.be /\ \E grp \in ToSet(groups) : ls[j].node \in ToSet(grp)
  <2>1. ls[j].be = sp.be /\ ls[j].node = nodes[j]
    <3>1. j \in 1 .. Len(nodes)
      BY <1>3
    <3>2. ls[j] = [node |-> nodes[j], be |-> sp.be]
      BY <1>3, <3>1
    <3>. QED BY <3>2
  <2>2. PICK i \in 1 .. Len(groups) : \E k \in 1 .. Len(groups[i]) : nodes[j] = groups[i][k]
    BY <1>2, <1>3
  <2>3. groups[i] \in ToSet(groups) /\ nodes[j] \in ToSet(groups[i])
    BY <1>1, <2>2 DEF ToSet
  <2>. QED BY <2>1, <2>3
<1>5. ASSUME NEW grp \in ToSet(groups), NEW n \in ToSet(grp)
      PROVE  \E j \in 1 .. Len(ls) : ls[j] = [node |-> n, be |-> sp.be]
  <2>1. PICK i \in 1 .. Len(groups) : grp = groups[i]
    BY <1>1 DEF ToSet
  <2>2. PICK k \in 1 .. Len(groups[i]) : n = groups[i][k]
    BY <1>1, <2>1 DEF ToSet
  <2>3. PICK j \in 1 .. Len(nodes) : nodes[j] = n
    BY <1>2, <2>2
  <2>. QED BY <1>3, <2>3
<1>. QED BY <1>3, <1>4, <1>5 DEF ls, nodes, groups

LEMMA NodeLinesFacts ==
  ASSUME TablesInv
  PROVE  /\ NodeLines \in Seq(NodeLine)
         /\ \A l \in 1 .. Len(NodeLines) : \E i \in 1 .. Len(alog) :
              \E k \in 1 .. Len(alog[i].splits) :
                /\ NodeLines[l].be = alog[i].splits[k].be
                /\ \E grp \in ToSet(alog[i].splits[k].groups) : NodeLines[l].node \in ToSet(grp)
         /\ \A i \in 1 .. Len(alog) : \A k \in 1 .. Len(alog[i].splits) :
              \A grp \in ToSet(alog[i].splits[k].groups) : \A n \in ToSet(grp) :
                \E l \in 1 .. Len(NodeLines) :
                  NodeLines[l] = [node |-> n, be |-> alog[i].splits[k].be]
<1>. DEFINE ls(sp) == LET nodes == FlattenSeq(sp.groups)
                      IN  [j \in DOMAIN nodes |-> [node |-> nodes[j], be |-> sp.be]]
            kk(i) == [k \in DOMAIN alog[i].splits |-> ls(alog[i].splits[k])]
            ii == [i \in DOMAIN alog |-> FlattenSeq(kk(i))]
<1>1. NodeLines = FlattenSeq(ii)
  BY DEF NodeLines
<1>2. /\ DOMAIN alog = 1 .. Len(alog) /\ Len(alog) \in Nat
      /\ \A i \in 1 .. Len(alog) : alog[i] \in Pass
  BY DEF TablesInv
<1>3. \A i \in 1 .. Len(alog) :
        /\ DOMAIN alog[i].splits = 1 .. Len(alog[i].splits) /\ Len(alog[i].splits) \in Nat
        /\ \A k \in 1 .. Len(alog[i].splits) : alog[i].splits[k] \in Split
  BY <1>2, PassFacts
<1>4. ASSUME NEW sp \in Split
      PROVE  /\ ls(sp) \in Seq(NodeLine)
             /\ \A j \in 1 .. Len(ls(sp)) : ls(sp)[j].be = sp.be
                  /\ \E grp \in ToSet(sp.groups) : ls(sp)[j].node \in ToSet(grp)
             /\ \A grp \in ToSet(sp.groups) : \A n \in ToSet(grp) :
                  \E j \in 1 .. Len(ls(sp)) : ls(sp)[j] = [node |-> n, be |-> sp.be]
  BY SplitNodesFacts
<1>. HIDE DEF ls
<1>5. ASSUME NEW i \in 1 .. Len(alog)
      PROVE  /\ kk(i) \in Seq(Seq(NodeLine)) /\ Len(kk(i)) = Len(alog[i].splits)
             /\ \A k \in 1 .. Len(alog[i].splits) : kk(i)[k] = ls(alog[i].splits[k])
  <2>. DEFINE splits == alog[i].splits
  <2>1. DOMAIN splits = 1 .. Len(splits) /\ Len(splits) \in Nat
          /\ \A k \in 1 .. Len(splits) : ls(splits[k]) \in Seq(NodeLine)
    BY <1>3, <1>4
  <2>2. kk(i) \in [1 .. Len(splits) -> Seq(NodeLine)]
          /\ \A k \in 1 .. Len(splits) : kk(i)[k] = ls(splits[k])
    BY <2>1
  <2>. HIDE DEF kk, splits
  <2>3. kk(i) \in Seq(Seq(NodeLine)) /\ Len(kk(i)) = Len(splits)
    BY <2>1, <2>2
  <2>. QED BY <2>2, <2>3 DEF splits
<1>. HIDE DEF kk
<1>6. ASSUME NEW i \in 1 .. Len(alog)
      PROVE  /\ FlattenSeq(kk(i)) \in Seq(NodeLine)
             /\ \A k \in 1 .. Len(kk(i)) : \A j \in 1 .. Len(kk(i)[k]) :
                  \E l \in 1 .. Len(FlattenSeq(kk(i))) : FlattenSeq(kk(i))[l] = kk(i)[k][j]
             /\ \A l \in 1 .. Len(FlattenSeq(kk(i))) : \E k \in 1 .. Len(kk(i)) :
                  \E j \in 1 .. Len(kk(i)[k]) : FlattenSeq(kk(i))[l] = kk(i)[k][j]
  BY <1>5, FlattenMembers
<1>7. ii \in Seq(Seq(NodeLine)) /\ Len(ii) = Len(alog)
        /\ \A i \in 1 .. Len(alog) : ii[i] = FlattenSeq(kk(i))
  <2>1. ii \in [1 .. Len(alog) -> Seq(NodeLine)]
          /\ \A i \in 1 .. Len(alog) : ii[i] = FlattenSeq(kk(i))
    BY <1>2, <1>6
  <2>. HIDE DEF ii
  <2>. QED BY <1>2, <2>1
<1>. HIDE DEF ii
<1>8. /\ FlattenSeq(ii) \in Seq(NodeLine)
      /\ \A i \in 1 .. Len(ii) : \A k \in 1 .. Len(ii[i]) :
           \E j \in 1 .. Len(FlattenSeq(ii)) : FlattenSeq(ii)[j] = ii[i][k]
      /\ \A j \in 1 .. Len(FlattenSeq(ii)) :
           \E i \in 1 .. Len(ii) : \E k \in 1 .. Len(ii[i]) : FlattenSeq(ii)[j] = ii[i][k]
  BY <1>7, FlattenMembers
<1>9. ASSUME NEW l \in 1 .. Len(NodeLines)
      PROVE  \E i \in 1 .. Len(alog) : \E k \in 1 .. Len(alog[i].splits) :
                /\ NodeLines[l].be = alog[i].splits[k].be
                /\ \E grp \in ToSet(alog[i].splits[k].groups) : NodeLines[l].node \in ToSet(grp)
  <2>1. PICK i \in 1 .. Len(alog) : \E m \in 1 .. Len(ii[i]) : NodeLines[l] = ii[i][m]
    BY <1>1, <1>7, <1>8
  <2>2. PICK m \in 1 .. Len(FlattenSeq(kk(i))) : NodeLines[l] = FlattenSeq(kk(i))[m]
    BY <1>7, <2>1
  <2>3. PICK k \in 1 .. Len(kk(i)) : \E j \in 1 .. Len(kk(i)[k]) : NodeLines[l] = kk(i)[k][j]
    BY <1>6, <2>2
  <2>4. k \in 1 .. Len(alog[i].splits) /\ kk(i)[k] = ls(alog[i].splits[k])
    BY <1>5, <2>3
  <2>5. alog[i].splits[k] \in Split
    BY <1>3, <2>4
  <2>6. PICK j \in 1 .. Len(ls(alog[i].splits[k])) : NodeLines[l] = ls(alog[i].splits[k])[j]
    BY <2>3, <2>4
  <2>7. /\ NodeLines[l].be = alog[i].splits[k].be
        /\ \E grp \in ToSet(alog[i].splits[k].groups) : NodeLines[l].node \in ToSet(grp)
    BY <1>4, <2>5, <2>6
  <2>. QED BY <2>4, <2>7
<1>10. ASSUME NEW i \in 1 .. Len(alog), NEW k \in 1 .. Len(alog[i].splits),
              NEW grp \in ToSet(alog[i].splits[k].groups), NEW n \in ToSet(grp)
       PROVE  \E l \in 1 .. Len(NodeLines) :
                NodeLines[l] = [node |-> n, be |-> alog[i].splits[k].be]
  <2>. DEFINE sp == alog[i].splits[k]
  <2>1. sp \in Split /\ k \in 1 .. Len(kk(i)) /\ kk(i)[k] = ls(sp)
    BY <1>3, <1>5
  <2>2. PICK j \in 1 .. Len(ls(sp)) : ls(sp)[j] = [node |-> n, be |-> sp.be]
    BY <1>4, <2>1
  <2>3. PICK m \in 1 .. Len(FlattenSeq(kk(i))) : FlattenSeq(kk(i))[m] = kk(i)[k][j]
    BY <1>6, <2>1, <2>2
  <2>4. i \in 1 .. Len(ii) /\ ii[i] = FlattenSeq(kk(i)) /\ m \in 1 .. Len(ii[i])
    BY <1>7, <2>3
  <2>5. PICK l \in 1 .. Len(FlattenSeq(ii)) : FlattenSeq(ii)[l] = ii[i][m]
    BY <1>8, <2>4
  <2>. QED BY <1>1, <2>1, <2>2, <2>3, <2>4, <2>5
<1>11. NodeLines \in Seq(NodeLine)
  BY <1>1, <1>8
<1>. QED BY <1>9, <1>10, <1>11

\* Every profile-op line is of a group whose last node is in the assignment log.
LEMMA SamplesFacts ==
  ASSUME TablesInv, Parsed
  PROVE  /\ Samples \in Seq(SampleType)
         /\ \A j \in 1 .. Len(Samples) : \E grp \in Group :
              /\ Samples[j].dst = Last(grp).name /\ Samples[j].nodes = ToSet(grp)
              /\ Last(grp) \in {l.node : l \in ToSet(NodeLines)}
<1>1. /\ plog \in Seq(Seq(SampleType)) /\ Len(plog) = Len(hrun) /\ Len(alog) = Len(hrun)
      /\ alog \in Seq(Pass) /\ \A i \in 1 .. Len(plog) : alog[i] = hrun[i]
  <2>1. Len(alog) = Len(hrun)
    <3>1. Len(alog) \in Nat /\ Len(alog) <= Len(hrun) /\ Len(plog) = Len(hrun)
            /\ (plog # <<>> => Len(alog) = Len(hrun)) /\ (plog = <<>> => Len(plog) = 0)
      BY DEF TablesInv, Parsed
    <3>. QED BY <3>1
  <2>. QED BY <2>1 DEF TablesInv, Parsed
<1>2. /\ Samples \in Seq(SampleType)
      /\ \A j \in 1 .. Len(Samples) :
           \E i \in 1 .. Len(plog) : \E k \in 1 .. Len(plog[i]) : Samples[j] = plog[i][k]
  <2>. HIDE DEF SampleType
  <2>. QED BY <1>1, FlattenMembers DEF Samples
<1>3. NodeLines \in Seq(NodeLine)
  BY NodeLinesFacts
<1>4. ASSUME NEW j \in 1 .. Len(Samples)
      PROVE  \E grp \in Group :
              /\ Samples[j].dst = Last(grp).name /\ Samples[j].nodes = ToSet(grp)
              /\ Last(grp) \in {l.node : l \in ToSet(NodeLines)}
  <2>0. PICK i \in 1 .. Len(plog) : \E k \in 1 .. Len(plog[i]) : Samples[j] = plog[i][k]
    BY <1>2
  <2>1. PICK k \in 1 .. Len(plog[i]) : Samples[j] = plog[i][k]
    BY <2>0
  <2>2. SampleOf(hrun[i], Samples[j])
    BY <2>1 DEF TablesInv
  <2>3. PICK grp \in GroupsOf(hrun[i]) :
          /\ grp \in Group
          /\ Samples[j].dst = Last(grp).name /\ Samples[j].nodes = ToSet(grp)
    BY <2>2 DEF SampleOf
  <2>4. PICK sp \in ToSet(alog[i].splits) : grp \in ToSet(sp.groups)
    BY <1>1, <2>3 DEF GroupsOf
  <2>5. PICK m \in 1 .. Len(alog[i].splits) : sp = alog[i].splits[m]
    <3>1. alog[i] \in Pass
      BY <1>1
    <3>2. DOMAIN alog[i].splits = 1 .. Len(alog[i].splits)
      BY <3>1, PassFacts
    <3>. QED BY <2>4, <3>2 DEF ToSet
  <2>6. Last(grp) \in ToSet(grp)
    BY <2>3, LastInGroup
  <2>7. PICK l \in 1 .. Len(NodeLines) :
          NodeLines[l] = [node |-> Last(grp), be |-> alog[i].splits[m].be]
    BY <1>1, <2>4, <2>5, <2>6, NodeLinesFacts
  <2>8. NodeLines[l] \in ToSet(NodeLines) /\ NodeLines[l].node = Last(grp)
    BY <1>3, <2>7 DEF ToSet
  <2>9. Last(grp) \in {x.node : x \in ToSet(NodeLines)}
    BY <2>8
  <2>. QED BY <2>3, <2>9
<1>. QED BY <1>2, <1>4

\* The time of an op is a median of samples filed under its name, if there is any.
LEMMA HtpTimeFacts ==
  ASSUME NEW samples \in Seq(SampleType), NEW dst
  PROVE  LET decode  == By(samples, dst, "decode")
             prefill == By(samples, dst, "prefill")
         IN  /\ HtpTime(samples, dst) # NA =>
                  \E i \in decode \cup prefill : HtpTime(samples, dst) = samples[i].us
             /\ decode # {} /\ (\A i \in decode : samples[i].us > 0) =>
                  \E i \in decode : HtpTime(samples, dst) = samples[i].us
<1>. DEFINE decode == By(samples, dst, "decode")
            prefill == By(samples, dst, "prefill")
<1>1. DOMAIN samples = 1 .. Len(samples) /\ Len(samples) \in Nat
        /\ \A i \in 1 .. Len(samples) : samples[i].us \in Nat
  <2>1. DOMAIN samples = 1 .. Len(samples) /\ Len(samples) \in Nat
          /\ \A i \in 1 .. Len(samples) : samples[i] \in SampleType
    OBVIOUS
  <2>. QED BY <2>1 DEF SampleType
<1>2. IsFiniteSet(1 .. Len(samples))
  BY <1>1, FS_Interval
<1>3. decode \in SUBSET (1 .. Len(samples)) /\ prefill \in SUBSET (1 .. Len(samples))
  BY <1>1 DEF By
<1>4. HtpTime(samples, dst) = IF decode # {} /\ Med(samples, decode) # 0 THEN Med(samples, decode)
        ELSE IF prefill # {} /\ Med(samples, prefill) # 0 THEN Med(samples, prefill) ELSE NA
  BY DEF HtpTime
<1>. HIDE DEF decode, prefill
<1>5. IsFiniteSet(decode) /\ IsFiniteSet(prefill)
  BY <1>2, <1>3, FS_Subset
<1>6. decode # {} => \E i \in decode : Med(samples, decode) = samples[i].us
  BY <1>1, <1>3, <1>5, MedianFacts
<1>7. prefill # {} => \E i \in prefill : Med(samples, prefill) = samples[i].us
  BY <1>1, <1>3, <1>5, MedianFacts
<1>8. HtpTime(samples, dst) # NA =>
        \E i \in decode \cup prefill : HtpTime(samples, dst) = samples[i].us
  BY <1>4, <1>6, <1>7
<1>9. decode # {} /\ (\A i \in decode : samples[i].us > 0) =>
        \E i \in decode : HtpTime(samples, dst) = samples[i].us
  BY <1>4, <1>6
<1>. QED BY <1>8, <1>9 DEF decode, prefill

LEMMA RowTimeFromInv ==
  ASSUME TablesInv
  PROVE  RowTimeIsOwn
<1>. SUFFICES ASSUME Parsed PROVE RowTimeIsOwn
  BY DEF RowTimeIsOwn
<1>. DEFINE nodes == {l.node : l \in ToSet(NodeLines)}
            all == ToSet(Samples)
<1>1. /\ Samples \in Seq(SampleType) /\ DOMAIN Samples = 1 .. Len(Samples)
      /\ \A j \in 1 .. Len(Samples) : Samples[j] \in SampleType
      /\ \A j \in 1 .. Len(Samples) : \E grp \in Group :
           /\ Samples[j].dst = Last(grp).name /\ Samples[j].nodes = ToSet(grp)
           /\ Last(grp) \in nodes
  <2>. HIDE DEF SampleType
  <2>. QED BY SamplesFacts
<1>2. \A j \in 1 .. Len(Samples) : Samples[j] \in all
  BY <1>1 DEF ToSet
<1>3. \A s \in all : \E j \in 1 .. Len(Samples) : s = Samples[j]
  BY <1>1 DEF ToSet
<1>4. \A j \in 1 .. Len(Samples) : Samples[j].ntok \in Nat \ {0}
  BY <1>1 DEF SampleType
<1>5. ASSUME NEW o,
             \A n \in nodes : n.name = o.name => n = o,
             \A s \in all : o \in s.nodes => s.nodes = {o}
      PROVE  LET own == {s \in all : s.nodes = {o}}
                 few == {s \in own : s.ntok <= DecodeMaxTok}
             IN  IF few # {} /\ \A s \in few : s.us > 0
                   THEN HtpTime(Samples, o.name) \in {s.us : s \in few}
                   ELSE HtpTime(Samples, o.name) \in {s.us : s \in own} \cup {NA}
  <2>. DEFINE own == {s \in all : s.nodes = {o}}
              few == {s \in own : s.ntok <= DecodeMaxTok}
              decode == By(Samples, o.name, "decode")
              prefill == By(Samples, o.name, "prefill")
  <2>1. \A i \in decode \cup prefill : i \in 1 .. Len(Samples) /\ Samples[i].dst = o.name
    BY <1>1 DEF By
  <2>2. \A i \in decode : Samples[i].ntok <= DecodeMaxTok
    BY <1>1, <1>4 DEF By, ProfPhase, DecodeMaxTok
  <2>3. ASSUME NEW i \in decode \cup prefill PROVE Samples[i] \in own
    <3>1. PICK grp \in Group : /\ Samples[i].dst = Last(grp).name
                               /\ Samples[i].nodes = ToSet(grp) /\ Last(grp) \in nodes
      BY <1>1, <2>1
    <3>2. Last(grp) = o
      BY <1>5, <2>1, <3>1
    <3>3. Samples[i] \in all /\ o \in Samples[i].nodes
      BY <1>2, <2>1, <3>1, <3>2, LastInGroup
    <3>. QED BY <1>5, <3>3
  <2>4. ASSUME NEW s \in few PROVE \E i \in decode : Samples[i] = s
    <3>1. PICK i \in 1 .. Len(Samples) : s = Samples[i]
      BY <1>3
    <3>2. PICK grp \in Group : /\ s.dst = Last(grp).name /\ s.nodes = ToSet(grp)
      BY <1>1, <3>1
    <3>3. Last(grp) = o
      BY <3>2, LastInGroup
    <3>4. s.dst = o.name /\ s.ntok <= DecodeMaxTok
      BY <3>2, <3>3
    <3>5. i \in decode
      BY <1>1, <1>4, <3>1, <3>4 DEF By, ProfPhase, DecodeMaxTok
    <3>. QED BY <3>1, <3>5
  <2>5. \A i \in decode : Samples[i] \in few
    BY <2>2, <2>3
  <2>6. /\ HtpTime(Samples, o.name) # NA =>
             \E i \in decode \cup prefill : HtpTime(Samples, o.name) = Samples[i].us
        /\ decode # {} /\ (\A i \in decode : Samples[i].us > 0) =>
             \E i \in decode : HtpTime(Samples, o.name) = Samples[i].us
    BY <1>1, HtpTimeFacts
  <2>. HIDE DEF decode, prefill, own, few
  <2>7. CASE few # {} /\ \A s \in few : s.us > 0
    <3>1. decode # {} /\ \A i \in decode : Samples[i].us > 0
      BY <2>4, <2>5, <2>7
    <3>. QED BY <2>5, <2>6, <2>7, <3>1 DEF few, own
  <2>8. CASE ~(few # {} /\ \A s \in few : s.us > 0)
    <3>1. HtpTime(Samples, o.name) \in {s.us : s \in own} \cup {NA}
      BY <2>3, <2>6
    <3>. QED BY <2>8, <3>1 DEF few, own
  <2>. QED BY <2>7, <2>8
<1>6. \A i \in DOMAIN HtpOps : HtpRows[i].htp = HtpTime(Samples, HtpOps[i].name)
  BY DEF HtpRows
<1>. HIDE DEF nodes, all
<1>. QED BY <1>5, <1>6 DEF RowTimeIsOwn, Alone, nodes, all

\* The time in the row of an op with a name of its own that is never fused is a time of
\* that op, of few rows if it ever ran on few and took a microsecond.
THEOREM TablesRowTimeIsOwn == TablesSpec => []RowTimeIsOwn
<1>1. TablesInit => TablesInv
  BY TablesInvInit
<1>2. TablesInv /\ [TablesNext]_<<vars, tableVars>> => TablesInv'
  BY TablesInvStep
<1>3. TablesInv => RowTimeIsOwn
  BY RowTimeFromInv
<1>. QED BY <1>1, <1>2, <1>3, PTL DEF TablesSpec

--------------------------------------------------------------------------------
(***************************************************************************)
(* The op_compare rows.                                                    *)
(***************************************************************************)

\* Every node of a pass is in a group of one of its splits.
LEMMA NodeInSplit ==
  ASSUME NEW p \in Pass, NEW n \in NodesOf(p)
  PROVE  \E k \in 1 .. Len(p.splits) : \E grp \in ToSet(p.splits[k].groups) : n \in ToSet(grp)
<1>1. PICK grp \in GroupsOf(p) : n \in ToSet(grp)
  BY DEF NodesOf
<1>2. PICK sp \in ToSet(p.splits) : grp \in ToSet(sp.groups)
  BY DEF GroupsOf
<1>3. DOMAIN p.splits = 1 .. Len(p.splits)
  BY PassFacts
<1>4. PICK k \in 1 .. Len(p.splits) : sp = p.splits[k]
  BY <1>2, <1>3 DEF ToSet
<1>. QED BY <1>1, <1>2, <1>4

\* The first CPU line of a name has a row unless HTP0 has one of that name.
LEMMA CpuRowOfName ==
  ASSUME TablesInv, NEW l \in 1 .. Len(NodeLines), NodeLines[l].be = "CPU",
         NodeLines[l].node.name \notin HtpDsts
  PROVE  \E i \in CpuRows : NodeLines[i].node.name = NodeLines[l].node.name
<1>1. DOMAIN NodeLines = 1 .. Len(NodeLines) /\ Len(NodeLines) \in Nat
  BY NodeLinesFacts
<1>. DEFINE T == {i \in 1 .. Len(NodeLines) :
                    NodeLines[i].be = "CPU" /\ NodeLines[i].node.name = NodeLines[l].node.name}
<1>2. T \in SUBSET Nat /\ l \in T
  BY <1>1
<1>3. \A i \in 1 .. Len(NodeLines) :
        i \in T <=> NodeLines[i].be = "CPU" /\ NodeLines[i].node.name = NodeLines[l].node.name
  OBVIOUS
<1>4. T \in SUBSET (1 .. Len(NodeLines))
  OBVIOUS
<1>. HIDE DEF T
<1>5. PICK i \in T : \A j \in T : i <= j
  BY <1>2, LeastNatural
<1>6. i \in 1 .. Len(NodeLines) /\ NodeLines[i].be = "CPU"
        /\ NodeLines[i].node.name = NodeLines[l].node.name
  BY <1>3, <1>4
<1>7. \A j \in 1 .. i - 1 : NodeLines[j].be = "CPU" => NodeLines[j].node.name # NodeLines[i].node.name
  <2>. TAKE j \in 1 .. i - 1
  <2>1. j \in 1 .. Len(NodeLines) /\ ~(i <= j)
    BY <1>1, <1>6
  <2>2. j \notin T
    BY <1>5, <2>1
  <2>. QED BY <1>3, <1>6, <2>1, <2>2
<1>8. i \in CpuRows
  BY <1>1, <1>6, <1>7 DEF CpuRows
<1>. QED BY <1>6, <1>8

LEMMA CompareFromInv ==
  ASSUME TablesInv
  PROVE  CompareCoversGraph
<1>. SUFFICES ASSUME Parsed PROVE CompareCoversGraph
  BY DEF CompareCoversGraph
<1>. DEFINE Dsp(p) == {k \in DOMAIN p.splits : p.splits[k].be = "HTP0"}
            whole == {p \in ToSet(alog) : p.run /\ p.outs > 0 /\ \E k \in DOMAIN p.splits :
                        Dsp(p) = {k} /\ HeadsOf(DspGroups(p.splits[k], p)) = HtpOps}
            Fused(p) == UNION {UNION {ToSet(Tail(grp)) : grp \in ToSet(p.splits[k].groups)} :
                                 k \in Dsp(p)}
<1>1. /\ hrun \in Runs /\ alog \in Seq(Pass) /\ Len(alog) \in Nat
      /\ \A i \in 1 .. Len(alog) : alog[i] \in Pass /\ alog[i] = hrun[i] /\ i \in 1 .. Len(hrun)
  <2>1. hrun \in Runs /\ alog \in Seq(Pass) /\ Len(alog) <= Len(hrun)
          /\ \A i \in 1 .. Len(alog) : alog[i] = hrun[i]
    BY DEF TablesInv
  <2>2. Len(hrun) \in Nat
    BY <2>1, RunFacts
  <2>. QED BY <2>1, <2>2
<1>2. NodeLines \in Seq(NodeLine) /\ DOMAIN NodeLines = 1 .. Len(NodeLines) /\ Len(NodeLines) \in Nat
  BY NodeLinesFacts
<1>3. \A i \in CpuRows : NodeLines[i].node.name \notin HtpDsts
  BY DEF CpuRows
<1>4. ASSUME NEW i \in CpuRows, NEW j \in CpuRows,
             NodeLines[i].node.name = NodeLines[j].node.name
      PROVE  i = j
  <2>1. /\ i \in 1 .. Len(NodeLines) /\ j \in 1 .. Len(NodeLines)
        /\ NodeLines[i].be = "CPU" /\ NodeLines[j].be = "CPU"
    BY <1>2 DEF CpuRows
  <2>2. ~(i < j)
    <3>. SUFFICES ASSUME i < j PROVE FALSE
      OBVIOUS
    <3>1. i \in 1 .. j - 1
      BY <1>2, <2>1
    <3>. QED BY <1>4, <2>1, <3>1 DEF CpuRows
  <2>3. ~(j < i)
    <3>. SUFFICES ASSUME j < i PROVE FALSE
      OBVIOUS
    <3>1. j \in 1 .. i - 1
      BY <1>2, <2>1
    <3>. QED BY <1>4, <2>1, <3>1 DEF CpuRows
  <2>. QED BY <1>2, <2>1, <2>2, <2>3
<1>5. ASSUME NEW p \in whole, NEW l \in ToSet(NodeLines), l.node.name \notin HtpDsts
      PROVE  (\E i \in CpuRows : NodeLines[i].node.name = l.node.name) \/ l.node \in Fused(p)
  <2>1. PICK i \in 1 .. Len(alog) : p = alog[i]
    BY <1>1 DEF ToSet
  <2>2. PICK m \in 1 .. Len(NodeLines) : l = NodeLines[m]
    BY <1>2 DEF ToSet
  <2>. DEFINE n == l.node
  <2>3. n \in NodesOf(p)
    <3>1. PICK a \in 1 .. Len(alog) : \E k \in 1 .. Len(alog[a].splits) :
            \E grp \in ToSet(alog[a].splits[k].groups) : n \in ToSet(grp)
      BY <2>2, NodeLinesFacts
    <3>2. PICK k \in 1 .. Len(alog[a].splits) :
            \E grp \in ToSet(alog[a].splits[k].groups) : n \in ToSet(grp)
      BY <3>1
    <3>3. PICK grp \in ToSet(alog[a].splits[k].groups) : n \in ToSet(grp)
      BY <3>2
    <3>4. alog[a] \in Pass
      BY <1>1
    <3>5. grp \in GroupsOf(alog[a])
      BY <3>4, PassFacts
    <3>6. n \in NodesOf(alog[a])
      BY <3>3, <3>5 DEF NodesOf
    <3>7. NodesOf(alog[a]) = NodesOf(alog[i])
      BY <1>1, RunFacts
    <3>. QED BY <2>1, <3>6, <3>7
  <2>4. p \in Pass
    BY <1>1, <2>1
  <2>5. PICK k \in 1 .. Len(p.splits) : \E grp \in ToSet(p.splits[k].groups) : n \in ToSet(grp)
    BY <2>3, <2>4, NodeInSplit
  <2>6. PICK grp \in ToSet(p.splits[k].groups) : n \in ToSet(grp)
    BY <2>5
  <2>. DEFINE sp == p.splits[k]
  <2>7. sp \in Split /\ sp.be \in {"CPU", "HTP0"} /\ sp.groups \in Seq(Group) /\ grp \in Group
          /\ DOMAIN p.splits = 1 .. Len(p.splits)
    <3>1. sp \in Split /\ sp.be \in {"CPU", "HTP0"} /\ sp.groups \in Seq(Group)
            /\ DOMAIN p.splits = 1 .. Len(p.splits)
      BY <2>4, PassFacts
    <3>2. grp \in Group
      BY <2>6, <3>1 DEF ToSet
    <3>. QED BY <3>1, <3>2
  <2>8. CASE sp.be = "CPU"
    <3>1. PICK a \in 1 .. Len(NodeLines) : NodeLines[a] = [node |-> n, be |-> sp.be]
      BY <2>1, <2>6, NodeLinesFacts
    <3>2. NodeLines[a].be = "CPU" /\ NodeLines[a].node.name = n.name
      BY <2>8, <3>1
    <3>. QED BY <1>5, <3>2, CpuRowOfName
  <2>9. CASE sp.be = "HTP0"
    <3>1. k \in Dsp(p)
      BY <2>7, <2>9
    <3>2. CASE n \in ToSet(Tail(grp))
      BY <2>6, <3>1, <3>2
    <3>3. CASE n = grp[1]
      <4>1. p.outs > 0 /\ p.ntok > 0
        BY <2>4, PassFacts
      <4>2. RowsOf(p, grp[1]) > 0
        BY <4>1 DEF RowsOf
      <4>. DEFINE grps == DspGroups(sp, p)
      <4>3. grps \in Seq(Group) /\ \E j \in 1 .. Len(grps) : grps[j] = grp
        BY <2>6, <2>7, <4>2, DspGroupsFacts
      <4>4. HeadsOf(grps) = HtpOps
        BY <3>1
      <4>. HIDE DEF grps
      <4>5. PICK j \in 1 .. Len(grps) : grps[j] = grp
        BY <4>3
      <4>6. j \in DOMAIN HeadsOf(grps) /\ HeadsOf(grps)[j] = Head(grp)
        BY <4>3, <4>5 DEF HeadsOf
      <4>7. Head(grp) = n
        BY <2>7, <3>3 DEF Group
      <4>8. n.name \in HtpDsts
        BY <4>4, <4>6, <4>7 DEF HtpDsts
      <4>. QED BY <1>5, <4>8
    <3>4. n = grp[1] \/ n \in ToSet(Tail(grp))
      <4>1. /\ grp \in Seq(Node) /\ grp # <<>> /\ Len(grp) \in Nat \ {0}
            /\ DOMAIN grp = 1 .. Len(grp)
        BY <2>7 DEF Group
      <4>. HIDE DEF n
      <4>2. PICK j \in 1 .. Len(grp) : n = grp[j]
        BY <2>6, <4>1 DEF ToSet
      <4>3. CASE j # 1
        <5>1. Tail(grp) \in Seq(Node) /\ Len(Tail(grp)) = Len(grp) - 1
          BY <4>1
        <5>2. j - 1 \in 1 .. Len(Tail(grp)) /\ (j - 1) + 1 = j
          BY <4>1, <4>3, <5>1
        <5>3. Tail(grp)[j - 1] = grp[j]
          BY <4>1, <5>2, HeadTailProperties
        <5>4. j - 1 \in DOMAIN Tail(grp)
          BY <5>1, <5>2
        <5>. QED BY <4>2, <5>3, <5>4 DEF ToSet
      <4>. QED BY <4>2, <4>3
    <3>. QED BY <3>2, <3>3, <3>4
  <2>. QED BY <2>7, <2>8, <2>9
<1>. HIDE DEF Dsp, whole, Fused
<1>. QED BY <1>3, <1>4, <1>5 DEF CompareCoversGraph, Dsp, whole, Fused

\* op_compare.csv has every op of a graph in one mode only, where the largest block is
\* all the DSP computed of that graph.
THEOREM TablesCompareCoversGraph == TablesSpec => []CompareCoversGraph
<1>1. TablesInit => TablesInv
  BY TablesInvInit
<1>2. TablesInv /\ [TablesNext]_<<vars, tableVars>> => TablesInv'
  BY TablesInvStep
<1>3. TablesInv => CompareCoversGraph
  BY CompareFromInv
<1>. QED BY <1>1, <1>2, <1>3, PTL DEF TablesSpec

================================================================================
