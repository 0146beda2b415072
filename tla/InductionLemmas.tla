-------------------------- MODULE InductionLemmas --------------------------
(***************************************************************************)
(* Induction and recursion over data in a form the provers can use: the    *)
(* predicate is a set and the step a function, so that a lemma is applied  *)
(* by naming them, never by instantiating an operator.  Everything rests   *)
(* on the well-foundedness of < on Nat.                                    *)
(***************************************************************************)
EXTENDS Integers, SequencesExt, WellFoundedInduction, FiniteSetTheorems,
        SequenceTheorems, TLAPS

(* A set of naturals that is not empty has a least element. *)
LEMMA LeastNatural ==
    ASSUME NEW S, S \subseteq Nat, S # {}
    PROVE  \E m \in S : \A k \in S : m <= k
<1> DEFINE R == OpToRel(<, Nat)
<1>1. IsWellFoundedOn(R, Nat)
  BY NatLessThanWellFounded
<1>2. \A x, y \in Nat : y < x => <<y, x>> \in R
  BY DEF OpToRel
<1> HIDE DEF R
<1>3. PICK x \in S : \A y \in S : ~ (<<y, x>> \in R)
  BY <1>1, WFMin
<1>4. \A y \in S : ~ (y < x)
  BY <1>2, <1>3
<1>5. \A y \in S : x <= y
  BY <1>4
<1> QED BY <1>5

(* Induction: a set that has 0 and is closed under successor has every     *)
(* natural number.                                                         *)
LEMMA SetInduction ==
    ASSUME NEW S, 0 \in S, \A n \in Nat : n \in S => n + 1 \in S
    PROVE  Nat \subseteq S
<1> SUFFICES ASSUME Nat \ S # {} PROVE FALSE
  OBVIOUS
<1>1. PICK m \in Nat \ S : \A k \in Nat \ S : m <= k
  BY LeastNatural
<1> QED BY <1>1

(* A bounded set of integers that is not empty has a greatest element. *)
LEMMA GreatestNatural ==
    ASSUME NEW S, NEW n \in Nat, S \subseteq 0 .. n, S # {}
    PROVE  \E m \in S : \A k \in S : k <= m
<1> DEFINE T == {n - k : k \in S}
<1>1. T \subseteq Nat /\ T # {}
  <2>1. \A k \in S : n - k \in Nat
    OBVIOUS
  <2> QED BY <2>1
<1> HIDE DEF T
<1>2. PICK m \in T : \A k \in T : m <= k
  BY <1>1, LeastNatural
<1>3. PICK s \in S : m = n - s
  BY <1>2 DEF T
<1>4. \A k \in S : n - k \in T
  BY DEF T
<1>5. \A k \in S : k <= s
  BY <1>2, <1>3, <1>4
<1> QED BY <1>5

(* f starts with base and takes step[i] from i - 1 to i. *)
Iterates(f, n, V, base, step) ==
    /\ f \in [0 .. n -> V]
    /\ f[0] = base
    /\ \A i \in 1 .. n : f[i] = step[i][f[i - 1]]

(* A function over 0 .. n is defined by its value at 0 and by the step     *)
(* from each argument to the next.                                         *)
LEMMA Recursion ==
    ASSUME NEW n, n \in Nat, NEW V, NEW base, base \in V,
           NEW step, step \in [1 .. n -> [V -> V]]
    PROVE  \E f : Iterates(f, n, V, base, step)
<1> DEFINE Upto(m, f) == f[0] = base /\ \A i \in 1 .. m : f[i] = step[i][f[i - 1]]
           S == {m \in Nat : m <= n => \E f \in [0 .. m -> V] : Upto(m, f)}
<1>1. 0 \in S
  <2> DEFINE g == [i \in 0 .. 0 |-> base]
  <2>1. g \in [0 .. 0 -> V] /\ Upto(0, g)
    OBVIOUS
  <2> QED BY <2>1
<1>2. ASSUME NEW m \in Nat, m \in S PROVE m + 1 \in S
  <2> SUFFICES ASSUME m + 1 <= n PROVE \E f \in [0 .. m + 1 -> V] : Upto(m + 1, f)
    OBVIOUS
  <2>1. PICK f \in [0 .. m -> V] : Upto(m, f)
    BY <1>2
  <2> DEFINE g == [i \in 0 .. m + 1 |-> IF i = m + 1 THEN step[m + 1][f[m]] ELSE f[i]]
  <2>2. m + 1 \in 1 .. n /\ m \in 0 .. m
    OBVIOUS
  <2>3. step[m + 1][f[m]] \in V
    BY <2>2
  <2>4. g \in [0 .. m + 1 -> V]
    BY <2>3
  <2>5. \A i \in 1 .. m : i \in 0 .. m + 1 /\ i - 1 \in 0 .. m + 1 /\ i # m + 1 /\ i - 1 # m + 1
    OBVIOUS
  <2>6. \A i \in 1 .. m : g[i] = step[i][g[i - 1]]
    BY <2>1, <2>5
  <2>7. g[m + 1] = step[m + 1][g[m]] /\ g[0] = base
    <3>1. m \in 0 .. m + 1 /\ m # m + 1 /\ m + 1 \in 0 .. m + 1 /\ 0 \in 0 .. m + 1 /\ 0 # m + 1
      OBVIOUS
    <3> QED BY <2>1, <3>1
  <2> HIDE DEF g
  <2>8. ASSUME NEW i \in 1 .. m + 1 PROVE g[i] = step[i][g[i - 1]]
    <3>1. i \in 1 .. m \/ (i = m + 1 /\ i - 1 = m)
      OBVIOUS
    <3> QED BY <2>6, <2>7, <3>1
  <2> QED BY <2>4, <2>7, <2>8
<1> HIDE DEF S
<1>3. n \in S
  BY <1>1, <1>2, SetInduction
<1> QED BY <1>3 DEF S, Iterates

(* The length of a sequence is the end of its domain. *)
LEMMA LenIs ==
    ASSUME NEW V, NEW s \in Seq(V), NEW n \in Nat, DOMAIN s = 1 .. n
    PROVE  Len(s) = n
<1>1. Len(s) \in Nat /\ 1 .. Len(s) = 1 .. n
  BY LenProperties
<1>2. ASSUME Len(s) < n PROVE FALSE
  <2>1. n \in 1 .. n /\ n \notin 1 .. Len(s)
    BY <1>1, <1>2
  <2> QED BY <1>1, <2>1
<1>3. ASSUME n < Len(s) PROVE FALSE
  <2>1. Len(s) \in 1 .. Len(s) /\ Len(s) \notin 1 .. n
    BY <1>1, <1>3
  <2> QED BY <1>1, <2>1
<1> QED BY <1>1, <1>2, <1>3

(* FlattenSeq concatenates from the left. *)
LEMMA FlattenSteps ==
    ASSUME NEW V, NEW seqs \in Seq(Seq(V))
    PROVE  \E f \in [0 .. Len(seqs) -> Seq(V)] :
              /\ f[0] = <<>>
              /\ \A i \in 1 .. Len(seqs) : f[i] = f[i - 1] \o seqs[i]
              /\ FlattenSeq(seqs) = f[Len(seqs)]
<1> DEFINE n == Len(seqs)
           step == [i \in 1 .. n |-> [v \in Seq(V) |-> v \o seqs[i]]]
<1>1. n \in Nat /\ \A i \in 1 .. n : seqs[i] \in Seq(V)
  BY LenProperties, ElementOfSeq
<1>2. step \in [1 .. n -> [Seq(V) -> Seq(V)]]
  BY <1>1
<1> HIDE DEF n
<1>3. PICK f \in [0 .. n -> Seq(V)] : /\ f[0] = <<>>
                                      /\ \A i \in 1 .. n : f[i] = step[i][f[i - 1]]
  <2> DEFINE e == <<>>
             W == Seq(V)
  <2>1. e \in W
    OBVIOUS
  <2> HIDE DEF step, e, W
  <2>2. step \in [1 .. n -> [W -> W]]
    BY <1>2 DEF W
  <2>3. \E f : Iterates(f, n, W, e, step)
    BY <1>1, <2>1, <2>2, Recursion
  <2> QED BY <2>3 DEF e, W, Iterates
<1>4. \A i \in 1 .. n : f[i - 1] \in Seq(V) /\ f[i] = f[i - 1] \o seqs[i]
  <2> SUFFICES ASSUME NEW i \in 1 .. n
               PROVE  f[i - 1] \in Seq(V) /\ f[i] = f[i - 1] \o seqs[i]
    OBVIOUS
  <2>1. i - 1 \in 0 .. n
    BY <1>1
  <2>2. f[i - 1] \in Seq(V)
    BY <2>1
  <2> QED BY <1>3, <2>2
<1> HIDE DEF step
<1>5. 1 \in 1 .. n => f[1] = seqs[1]
  <2> SUFFICES ASSUME 1 \in 1 .. n PROVE f[1] = seqs[1]
    OBVIOUS
  <2>0. \A i : i = 1 => i \in 1 .. n /\ i - 1 = 0
    OBVIOUS
  <2>1. f[1] = f[0] \o seqs[1] /\ seqs[1] \in Seq(V)
    BY <1>1, <1>4, <2>0
  <2>2. <<>> \o seqs[1] = seqs[1]
    BY <2>1, ConcatEmptySeq
  <2> QED BY <1>3, <2>1, <2>2
<1>6. CASE n = 0
  <2>1. seqs = <<>>
    BY <1>6, EmptySeq DEF n
  <2> QED BY <1>3, <1>4, <1>6, <2>1 DEF FlattenSeq, n
<1>7. CASE n # 0
  <2> DEFINE Rec(g) == g = [i \in 1 .. n |-> IF i = 1 THEN seqs[i] ELSE g[i - 1] \o seqs[i]]
             h == [i \in 1 .. n |-> f[i]]
             g == CHOOSE x : Rec(x)
  <2>1. Rec(h)
    <3>1. ASSUME NEW i \in 1 .. n
          PROVE  f[i] = IF i = 1 THEN seqs[i] ELSE h[i - 1] \o seqs[i]
      <4>1. CASE i = 1
        BY <1>5, <4>1
      <4>2. CASE i # 1
        <5>1. i - 1 \in 1 .. n
          BY <1>1, <4>2
        <5> QED BY <1>4, <4>2, <5>1
      <4> QED BY <4>1, <4>2
    <3> QED BY <3>1
  <2>2. Rec(g)
    BY <2>1
  <2> HIDE DEF h
  <2>3. FlattenSeq(seqs) = g[n]
    BY <1>7 DEF FlattenSeq, n
  <2> HIDE DEF g
  <2> DEFINE S == {m \in Nat : m + 1 \in 1 .. n => g[m + 1] = f[m + 1]}
  <2>4. 0 \in S
    <3>1. 1 \in 1 .. n
      BY <1>1, <1>7
    <3>2. g[1] = seqs[1]
      BY <2>2, <3>1
    <3> QED BY <1>5, <3>1, <3>2
  <2>5. ASSUME NEW m \in Nat, m \in S PROVE m + 1 \in S
    <3> SUFFICES ASSUME m + 2 \in 1 .. n PROVE g[m + 2] = f[m + 2]
      OBVIOUS
    <3>1. m + 1 \in 1 .. n /\ m + 2 # 1 /\ (m + 2) - 1 = m + 1
      BY <1>1
    <3>2. g[m + 2] = g[m + 1] \o seqs[m + 2]
      BY <2>2, <3>1
    <3>3. f[m + 2] = f[m + 1] \o seqs[m + 2]
      BY <1>4, <3>1
    <3> QED BY <2>5, <3>1, <3>2, <3>3
  <2>6. n - 1 \in S
    <3> HIDE DEF S
    <3>1. Nat \subseteq S
      BY <2>4, <2>5, SetInduction
    <3> QED BY <1>1, <1>7, <3>1
  <2>7. g[n] = f[n]
    BY <1>1, <1>7, <2>6
  <2> QED BY <1>3, <1>4, <2>3, <2>7 DEF n
<1> QED BY <1>6, <1>7

(* f folds the subsets of S, taking pick[s] from each. *)
FoldsTo(f, S, V, base, pick, step) ==
    /\ f \in [SUBSET S -> V]
    /\ f[{}] = base
    /\ \A s \in SUBSET S : s # {} => f[s] = step[pick[s]][f[s \ {pick[s]}]]

(* A function over the subsets of a finite set is defined by its value at  *)
(* the empty set and by the step that takes one element away.              *)
LEMMA SetRecursion ==
    ASSUME NEW S, IsFiniteSet(S), NEW V, NEW base, base \in V, NEW pick,
           \A s \in SUBSET S : s # {} => pick[s] \in s,
           NEW step, step \in [S -> [V -> V]]
    PROVE  \E f : FoldsTo(f, S, V, base, pick, step)
<1> DEFINE Eq(f, s) == f[s] = step[pick[s]][f[s \ {pick[s]}]]
           Upto(m, f) == /\ f \in [SUBSET S -> V] /\ f[{}] = base
                         /\ \A s \in SUBSET S : s # {} /\ Cardinality(s) <= m => Eq(f, s)
           N == {m \in Nat : \E f : Upto(m, f)}
<1>1. \A s \in SUBSET S : /\ IsFiniteSet(s) /\ Cardinality(s) \in Nat
                          /\ Cardinality(s) <= Cardinality(S)
                          /\ Cardinality(s) = 0 <=> s = {}
  <2> SUFFICES ASSUME NEW s \in SUBSET S
               PROVE  /\ IsFiniteSet(s) /\ Cardinality(s) \in Nat
                      /\ Cardinality(s) <= Cardinality(S)
                      /\ Cardinality(s) = 0 <=> s = {}
    OBVIOUS
  <2>1. IsFiniteSet(s) /\ Cardinality(s) <= Cardinality(S)
    BY FS_Subset
  <2>2. Cardinality(s) \in Nat
    BY <2>1, FS_CardinalityType
  <2>3. Cardinality(s) = 0 <=> s = {}
    BY <2>1, FS_EmptySet
  <2> QED BY <2>1, <2>2, <2>3
<1>2. \A s \in SUBSET S : s # {} => /\ pick[s] \in S /\ s \ {pick[s]} \in SUBSET S
                                    /\ Cardinality(s \ {pick[s]}) = Cardinality(s) - 1
  <2> SUFFICES ASSUME NEW s \in SUBSET S, s # {}
               PROVE  /\ pick[s] \in S /\ s \ {pick[s]} \in SUBSET S
                      /\ Cardinality(s \ {pick[s]}) = Cardinality(s) - 1
    OBVIOUS
  <2>1. pick[s] \in s /\ IsFiniteSet(s)
    BY <1>1
  <2>2. Cardinality(s \ {pick[s]}) = Cardinality(s) - 1
    BY <2>1, FS_RemoveElement
  <2> QED BY <2>1, <2>2
<1>3. 0 \in N
  <2> DEFINE g == [s \in SUBSET S |-> base]
  <2>1. g \in [SUBSET S -> V] /\ g[{}] = base
    OBVIOUS
  <2>2. \A s \in SUBSET S : s # {} => ~ (Cardinality(s) <= 0)
    BY <1>1
  <2>3. Upto(0, g)
    BY <2>1, <2>2
  <2> HIDE DEF Upto
  <2> QED BY <2>3
<1>4. ASSUME NEW m \in Nat, m \in N PROVE m + 1 \in N
  <2>1. PICK f : Upto(m, f)
    BY <1>4
  <2> DEFINE g == [s \in SUBSET S |-> IF Cardinality(s) <= m THEN f[s]
                                      ELSE step[pick[s]][f[s \ {pick[s]}]]]
  <2>2. \A s \in SUBSET S : Cardinality(s) <= m => g[s] = f[s]
    OBVIOUS
  <2>3. \A s \in SUBSET S : ~ (Cardinality(s) <= m) => g[s] = step[pick[s]][f[s \ {pick[s]}]]
    OBVIOUS
  <2> HIDE DEF g
  <2>4. ASSUME NEW s \in SUBSET S PROVE g[s] \in V
    <3>1. CASE Cardinality(s) <= m
      BY <2>1, <2>2, <3>1
    <3>2. CASE ~ (Cardinality(s) <= m)
      <4>1. s # {}
        BY <1>1, <3>2
      <4>2. pick[s] \in S /\ f[s \ {pick[s]}] \in V
        BY <1>2, <2>1, <4>1
      <4>3. step[pick[s]] \in [V -> V]
        BY <4>2
      <4>4. step[pick[s]][f[s \ {pick[s]}]] \in V
        BY <4>2, <4>3
      <4>5. g[s] = step[pick[s]][f[s \ {pick[s]}]]
        BY <2>3, <3>2
      <4> QED BY <4>4, <4>5
    <3> QED BY <3>1, <3>2
  <2>5. g \in [SUBSET S -> V]
    BY <2>4 DEF g
  <2>6. g[{}] = base
    <3>1. Cardinality({}) = 0
      BY FS_EmptySet
    <3> QED BY <2>1, <2>2, <3>1
  <2>7. ASSUME NEW s \in SUBSET S, s # {}, Cardinality(s) <= m + 1 PROVE Eq(g, s)
    <3> DEFINE t == s \ {pick[s]}
    <3>1. t \in SUBSET S /\ Cardinality(t) = Cardinality(s) - 1 /\ Cardinality(s) \in Nat
      BY <1>1, <1>2, <2>7
    <3>2. Cardinality(t) <= m
      BY <2>7, <3>1
    <3>3. g[t] = f[t]
      BY <2>2, <3>1, <3>2
    <3>4. g[s] = step[pick[s]][f[t]]
      BY <2>1, <2>2, <2>3, <2>7
    <3> QED BY <3>3, <3>4
  <2>8. Upto(m + 1, g)
    BY <2>5, <2>6, <2>7
  <2> HIDE DEF Upto
  <2> QED BY <2>8
<1> HIDE DEF N
<1>5. Cardinality(S) \in N
  <2>1. Nat \subseteq N
    BY <1>3, <1>4, SetInduction
  <2> QED BY <2>1, FS_CardinalityType
<1>6. PICK f : Upto(Cardinality(S), f)
  BY <1>5 DEF N
<1> QED BY <1>1, <1>6 DEF FoldsTo
=============================================================================
