-------------------------- MODULE ShieldScanProofs --------------------------
(***************************************************************************)
(* Proofs about ShieldScan, for any tables and buffers.  A state of an     *)
(* automaton stands for the word that leads to it, its label; the proofs   *)
(* say of every label which others end it, and so what the fail links, the *)
(* flattened rows and the outputs must be.                                 *)
(***************************************************************************)
EXTENDS ShieldScan, InductionLemmas, TLAPS

----------------------------------------------------------------------------
(* Where words end                                                         *)

(* The empty word ends everywhere. *)
LEMMA EndsEmpty ==
    ASSUME NEW t, NEW i \in Nat
    PROVE  EndsAt(<<>>, t, i)
BY DEF EndsAt

(* A word ends where it does without its last byte, one byte later. *)
LEMMA EndsAppend ==
    ASSUME NEW A, NEW x \in Seq(A), NEW b \in A, NEW t, NEW i \in Nat
    PROVE  EndsAt(Append(x, b), t, i + 1) <=> EndsAt(x, t, i) /\ t[i + 1] = b
<1> DEFINE y == Append(x, b)
           n == Len(x)
<1>1. /\ y \in Seq(A) /\ Len(y) = n + 1 /\ y[n + 1] = b /\ n \in Nat
      /\ \A k \in 1 .. n : y[k] = x[k]
  BY AppendProperties, LenProperties
<1>2. DOMAIN y = 1 .. n + 1 /\ DOMAIN x = 1 .. n
  BY <1>1, LenProperties
<1> HIDE DEF y, n
<1>3. \A k \in Int : (i + 1) - (n + 1) + k = i - n + k
  BY <1>1
<1>4. ASSUME EndsAt(y, t, i + 1) PROVE EndsAt(x, t, i) /\ t[i + 1] = b
  <2>1. n + 1 <= i + 1 /\ \A k \in 1 .. n + 1 : y[k] = t[(i + 1) - (n + 1) + k]
    BY <1>1, <1>2, <1>4 DEF EndsAt
  <2>2. y[n + 1] = t[(i + 1) - (n + 1) + (n + 1)]
    BY <1>1, <2>1
  <2>3. (i + 1) - (n + 1) + (n + 1) = i + 1
    BY <1>1
  <2>4. ASSUME NEW k \in 1 .. n PROVE x[k] = t[i - n + k]
    <3>1. k \in 1 .. n + 1 /\ (i + 1) - (n + 1) + k = i - n + k
      BY <1>1
    <3> QED BY <1>1, <2>1, <3>1
  <2>5. Len(x) = n
    BY DEF n
  <2> QED BY <1>1, <1>2, <2>1, <2>2, <2>3, <2>4, <2>5 DEF EndsAt
<1>5. ASSUME EndsAt(x, t, i), t[i + 1] = b PROVE EndsAt(y, t, i + 1)
  <2>1. Len(x) = n
    BY DEF n
  <2>2. n <= i /\ \A k \in 1 .. n : x[k] = t[i - n + k]
    BY <1>2, <1>5, <2>1 DEF EndsAt
  <2>3. ASSUME NEW k \in 1 .. n + 1 PROVE y[k] = t[(i + 1) - (n + 1) + k]
    <3>1. CASE k = n + 1
      <4>1. (i + 1) - (n + 1) + k = i + 1
        BY <1>1, <3>1
      <4> QED BY <1>1, <1>5, <3>1, <4>1
    <3>2. CASE k # n + 1
      <4>1. k \in 1 .. n /\ (i + 1) - (n + 1) + k = i - n + k
        BY <1>1, <3>2
      <4> QED BY <1>1, <2>2, <4>1
    <3> QED BY <3>1, <3>2
  <2>4. n + 1 <= i + 1
    BY <1>1, <2>2
  <2> QED BY <1>1, <1>2, <2>3, <2>4 DEF EndsAt
<1> QED BY <1>4, <1>5 DEF y

(* What ends at the end of a word ends wherever the word does. *)
LEMMA EndsTrans ==
    ASSUME NEW A, NEW x \in Seq(A), NEW B, NEW y \in Seq(B), NEW t, NEW i \in Nat,
           EndsAt(y, t, i), EndsAt(x, y, Len(y))
    PROVE  EndsAt(x, t, i)
<1> DEFINE n == Len(x)
           m == Len(y)
<1>1. n \in Nat /\ m \in Nat /\ DOMAIN x = 1 .. n /\ DOMAIN y = 1 .. m
  BY LenProperties
<1>2. /\ m <= i /\ \A k \in 1 .. m : y[k] = t[i - m + k]
      /\ n <= m /\ \A k \in 1 .. n : x[k] = y[m - n + k]
  BY <1>1 DEF EndsAt
<1> HIDE DEF n, m
<1>3. ASSUME NEW k \in 1 .. n PROVE x[k] = t[i - n + k]
  <2>1. m - n + k \in 1 .. m /\ i - m + (m - n + k) = i - n + k
    BY <1>1, <1>2
  <2> QED BY <1>2, <2>1
<1>4. n <= i
  BY <1>1, <1>2
<1> QED BY <1>1, <1>3, <1>4 DEF EndsAt, n

(* Of two words that end at the same place the shorter ends the longer. *)
LEMMA EndsNested ==
    ASSUME NEW A, NEW x \in Seq(A), NEW B, NEW y \in Seq(B), NEW t, NEW i \in Nat,
           EndsAt(x, t, i), EndsAt(y, t, i), Len(x) <= Len(y)
    PROVE  EndsAt(x, y, Len(y))
<1> DEFINE n == Len(x)
           m == Len(y)
<1>1. n \in Nat /\ m \in Nat /\ DOMAIN x = 1 .. n /\ DOMAIN y = 1 .. m
  BY LenProperties
<1>2. /\ m <= i /\ \A k \in 1 .. m : y[k] = t[i - m + k]
      /\ n <= m /\ \A k \in 1 .. n : x[k] = t[i - n + k]
  BY <1>1 DEF EndsAt
<1> HIDE DEF n, m
<1>3. ASSUME NEW k \in 1 .. n PROVE x[k] = y[m - n + k]
  <2>1. m - n + k \in 1 .. m /\ i - m + (m - n + k) = i - n + k
    BY <1>1, <1>2
  <2> QED BY <1>2, <2>1
<1> QED BY <1>1, <1>2, <1>3 DEF EndsAt, n, m

(* A word ends at its own end. *)
LEMMA EndsSelf ==
    ASSUME NEW A, NEW x \in Seq(A)
    PROVE  EndsAt(x, x, Len(x))
<1>1. Len(x) \in Nat /\ DOMAIN x = 1 .. Len(x)
  BY LenProperties
<1>2. \A k \in 1 .. Len(x) : Len(x) - Len(x) + k = k
  BY <1>1
<1> QED BY <1>1, <1>2 DEF EndsAt

(* and is the only one of its length that does. *)
LEMMA EndsFull ==
    ASSUME NEW A, NEW x \in Seq(A), NEW y \in Seq(A), EndsAt(x, y, Len(y)),
           Len(x) = Len(y)
    PROVE  x = y
<1> DEFINE n == Len(x)
<1>1. n \in Nat /\ DOMAIN x = 1 .. n /\ DOMAIN y = 1 .. n /\ Len(y) = n
  BY LenProperties
<1> HIDE DEF n
<1>2. ASSUME NEW k \in 1 .. n PROVE x[k] = y[k]
  <2>1. n - n + k = k
    BY <1>1
  <2>2. x[k] = y[n - n + k]
    BY <1>1 DEF EndsAt, n
  <2> QED BY <2>1, <2>2
<1>3. Len(x) = n
  BY DEF n
<1> QED BY <1>1, <1>2, <1>3, SeqEqual

(* A byte more at the end of a text changes nothing before it. *)
LEMMA EndsWithin ==
    ASSUME NEW A, NEW x \in Seq(A), NEW y \in Seq(A), NEW b \in A
    PROVE  EndsAt(x, Append(y, b), Len(y)) <=> EndsAt(x, y, Len(y))
<1> DEFINE n == Len(x)
           m == Len(y)
           z == Append(y, b)
<1>1. n \in Nat /\ m \in Nat /\ DOMAIN x = 1 .. n /\ \A k \in 1 .. m : z[k] = y[k]
  BY LenProperties, AppendProperties
<1> HIDE DEF n, m, z
<1>2. n <= m => \A k \in 1 .. n : m - n + k \in 1 .. m
  BY <1>1
<1>3. EndsAt(x, z, m) <=> n <= m /\ \A k \in 1 .. n : x[k] = z[m - n + k]
  BY <1>1 DEF EndsAt, n
<1>4. EndsAt(x, y, m) <=> n <= m /\ \A k \in 1 .. n : x[k] = y[m - n + k]
  BY <1>1 DEF EndsAt, n
<1>5. EndsAt(x, z, m) <=> EndsAt(x, y, m)
  BY <1>1, <1>2, <1>3, <1>4
<1> QED BY <1>5 DEF m, z

(* W labels the n states of a trie over A: state 0 with the empty word,    *)
(* each of the others with a word that is one byte longer than another's,  *)
(* and no two alike.                                                       *)
Labels(W, n, A) ==
    /\ n \in Nat \ {0}
    /\ W \in [0 .. n - 1 -> Seq(A)]
    /\ W[0] = <<>>
    /\ \A s, v \in 0 .. n - 1 : W[s] = W[v] => s = v
    /\ \A v \in 1 .. n - 1 : \E p \in 0 .. n - 1, b \in A : W[v] = Append(W[p], b)

(* s is the state with the longest label that ends at position i of t. *)
Longest(W, n, t, i, s) ==
    /\ s \in 0 .. n - 1
    /\ EndsAt(W[s], t, i)
    /\ \A u \in 0 .. n - 1 : EndsAt(W[u], t, i) => Len(W[u]) <= Len(W[s])

(* f is the state with the longest label that ends v's and is not v's. *)
Link(W, n, v, f) ==
    /\ f \in 0 .. n - 1
    /\ EndsAt(W[f], W[v], Len(W[v])) /\ Len(W[f]) < Len(W[v])
    /\ \A u \in 0 .. n - 1 :
          EndsAt(W[u], W[v], Len(W[v])) /\ Len(W[u]) < Len(W[v])
             => Len(W[u]) <= Len(W[f])

(* u is where state s goes on byte b. *)
Goes(W, n, s, b, u) == Longest(W, n, Append(W[s], b), Len(W[s]) + 1, u)

(* What Labels says, in the form that is cited. *)
LEMMA LabelFacts ==
    ASSUME NEW W, NEW n, NEW A, Labels(W, n, A)
    PROVE  /\ n \in Nat /\ n > 0 /\ 0 \in 0 .. n - 1 /\ W[0] = <<>> /\ Len(W[0]) = 0
           /\ \A v \in 0 .. n - 1 : W[v] \in Seq(A) /\ Len(W[v]) \in Nat
           /\ \A v \in 0 .. n - 1 : v # 0 =>
                 \E p \in 0 .. n - 1, b \in A : W[v] = Append(W[p], b)
<1>1. n \in Nat /\ n > 0 /\ 0 \in 0 .. n - 1 /\ W[0] = <<>> /\ Len(W[0]) = 0
  BY DEF Labels
<1>2. \A v \in 0 .. n - 1 : W[v] \in Seq(A) /\ Len(W[v]) \in Nat
  BY LenProperties DEF Labels
<1>3. \A v \in 0 .. n - 1 : v # 0 => v \in 1 .. n - 1
  BY <1>1
<1> QED BY <1>1, <1>2, <1>3 DEF Labels

(* A word with a byte more. *)
LEMMA AppendLen ==
    ASSUME NEW A, NEW x \in Seq(A), NEW b \in A
    PROVE  /\ Append(x, b) \in Seq(A) /\ Len(Append(x, b)) = Len(x) + 1
           /\ Append(x, b)[Len(x) + 1] = b /\ Len(x) \in Nat
           /\ Append(x, b) # <<>>
<1>1. /\ Append(x, b) \in Seq(A) /\ Len(Append(x, b)) = Len(x) + 1
      /\ Append(x, b)[Len(x) + 1] = b /\ Len(x) \in Nat
  BY AppendProperties, LenProperties
<1>2. Len(Append(x, b)) # 0
  BY <1>1
<1> QED BY <1>1, <1>2, EmptySeq

(* Two words are equal when they are without their last bytes and end in   *)
(* the same one.                                                           *)
LEMMA AppendSame ==
    ASSUME NEW A
    PROVE  \A x, y \in Seq(A) : \A b, c \in A :
              Append(x, b) = Append(y, c) => x = y /\ b = c
<1> SUFFICES ASSUME NEW x \in Seq(A), NEW y \in Seq(A), NEW b \in A, NEW c \in A,
                    Append(x, b) = Append(y, c)
             PROVE  x = y /\ b = c
  OBVIOUS
<1>1. /\ Len(Append(x, b)) = Len(x) + 1 /\ Len(Append(y, c)) = Len(y) + 1
      /\ Append(x, b)[Len(x) + 1] = b /\ Append(y, c)[Len(y) + 1] = c
      /\ Len(x) \in Nat /\ Len(y) \in Nat
  BY AppendLen
<1>2. Len(x) = Len(y)
  BY <1>1
<1>3. \A k \in 1 .. Len(x) : x[k] = y[k]
  <2>1. \A k \in 1 .. Len(x) : Append(x, b)[k] = x[k]
    BY AppendProperties
  <2>2. \A k \in 1 .. Len(y) : Append(y, c)[k] = y[k]
    BY AppendProperties
  <2> QED BY <1>2, <2>1, <2>2
<1>4. x = y
  BY <1>2, <1>3, SeqEqual
<1> QED BY <1>1, <1>2, <1>4

(* u is the child on the byte b of a state whose label ends at i. *)
ChildAt(W, n, A, t, i, b, u) ==
    b \in A /\ \E p \in 0 .. n - 1 : W[u] = Append(W[p], b) /\ EndsAt(W[p], t, i)

(* What ends after a byte ends before it without the byte. *)
LEMMA LastByte ==
    ASSUME NEW W, NEW n, NEW A, Labels(W, n, A), NEW t, NEW i \in Nat,
           NEW u \in 0 .. n - 1, u # 0, EndsAt(W[u], t, i + 1)
    PROVE  ChildAt(W, n, A, t, i, t[i + 1], u)
<1>1. PICK p \in 0 .. n - 1, b \in A : W[u] = Append(W[p], b)
  BY LabelFacts
<1>2. W[p] \in Seq(A)
  BY LabelFacts
<1>3. EndsAt(W[p], t, i) /\ t[i + 1] = b
  BY <1>1, <1>2, EndsAppend
<1> QED BY <1>1, <1>3 DEF ChildAt

(* The longest label before a byte, and where its state goes on the byte,  *)
(* give the longest label after it.                                        *)
LEMMA LongestStep ==
    ASSUME NEW W, NEW n, NEW A, Labels(W, n, A), NEW t, NEW i \in Nat, NEW s,
           Longest(W, n, t, i, s), t[i + 1] \in A, NEW u, Goes(W, n, s, t[i + 1], u)
    PROVE  Longest(W, n, t, i + 1, u)
<1> DEFINE b == t[i + 1]
           y == Append(W[s], b)
<1>1. s \in 0 .. n - 1 /\ W[s] \in Seq(A) /\ Len(W[s]) \in Nat /\ u \in 0 .. n - 1
  BY LabelFacts DEF Longest, Goes
<1>2. y \in Seq(A) /\ Len(y) = Len(W[s]) + 1 /\ y[Len(W[s]) + 1] = b
  BY <1>1, AppendLen
<1>3. EndsAt(y, t, i + 1)
  BY <1>1, EndsAppend DEF Longest
<1>4. EndsAt(W[u], t, i + 1)
  <2>1. EndsAt(W[u], y, Len(y)) /\ W[u] \in Seq(A) /\ i + 1 \in Nat
    BY <1>1, <1>2, LabelFacts DEF Goes, Longest
  <2> HIDE DEF y
  <2> QED BY <1>2, <1>3, <2>1, EndsTrans
<1>5. ASSUME NEW v \in 0 .. n - 1, EndsAt(W[v], t, i + 1)
      PROVE  Len(W[v]) <= Len(W[u])
  <2>1. CASE v = 0
    BY <1>1, <2>1, LabelFacts
  <2>2. CASE v # 0
    <3>1. PICK p \in 0 .. n - 1 : W[v] = Append(W[p], b) /\ EndsAt(W[p], t, i)
      BY <1>5, <2>2, LastByte DEF ChildAt
    <3>2. W[p] \in Seq(A) /\ Len(W[p]) <= Len(W[s])
      BY <3>1, LabelFacts DEF Longest
    <3>3. EndsAt(W[p], W[s], Len(W[s]))
      BY <1>1, <3>1, <3>2, EndsNested DEF Longest
    <3>4. EndsAt(W[p], y, Len(W[s]))
      BY <1>1, <3>2, <3>3, EndsWithin
    <3> HIDE DEF y
    <3>5. EndsAt(Append(W[p], b), y, Len(W[s]) + 1)
      BY <1>1, <1>2, <3>2, <3>4, EndsAppend
    <3> QED BY <3>1, <3>5 DEF Goes, Longest, y
  <2> QED BY <2>1, <2>2
<1> QED BY <1>1, <1>4, <1>5 DEF Longest

(* A byte that is in no word leads back to the root. *)
LEMMA LongestOther ==
    ASSUME NEW W, NEW n, NEW A, Labels(W, n, A), NEW t, NEW i \in Nat,
           t[i + 1] \notin A
    PROVE  Longest(W, n, t, i + 1, 0)
<1>1. 0 \in 0 .. n - 1 /\ W[0] = <<>> /\ Len(W[0]) = 0 /\ i + 1 \in Nat
  BY LabelFacts
<1>2. EndsAt(W[0], t, i + 1)
  BY <1>1, EndsEmpty
<1>3. ASSUME NEW v \in 0 .. n - 1, EndsAt(W[v], t, i + 1) PROVE v = 0
  BY <1>3, LastByte DEF ChildAt
<1> QED BY <1>1, <1>2, <1>3 DEF Longest

(* At the start of a text only the root's label ends. *)
LEMMA LongestStart ==
    ASSUME NEW W, NEW n, NEW A, Labels(W, n, A), NEW t
    PROVE  Longest(W, n, t, 0, 0)
<1>1. 0 \in 0 .. n - 1 /\ W[0] = <<>> /\ Len(W[0]) = 0
  BY LabelFacts
<1>2. EndsAt(W[0], t, 0)
  BY <1>1, EndsEmpty
<1> QED BY <1>1, <1>2 DEF Longest, EndsAt

(* A child is where its parent goes. *)
LEMMA GoesChild ==
    ASSUME NEW W, NEW n, NEW A, Labels(W, n, A), NEW s \in 0 .. n - 1, NEW b \in A,
           NEW v \in 0 .. n - 1, W[v] = Append(W[s], b)
    PROVE  Goes(W, n, s, b, v)
<1>1. W[s] \in Seq(A) /\ W[v] \in Seq(A) /\ Len(W[v]) = Len(W[s]) + 1
  BY AppendLen, LabelFacts
<1>2. EndsAt(W[v], W[v], Len(W[v]))
  BY <1>1, EndsSelf
<1> QED BY <1>1, <1>2 DEF Goes, Longest, EndsAt

(* A label that ends the label of s with a byte more, and is not all of    *)
(* it, is one that ends where the link of s goes.                          *)
LEMMA LinkEnds ==
    ASSUME NEW W, NEW n, NEW A, Labels(W, n, A), NEW s \in 0 .. n - 1, NEW f,
           Link(W, n, s, f), NEW b \in A, NEW v \in 0 .. n - 1,
           EndsAt(W[v], Append(W[s], b), Len(W[s]) + 1), Len(W[v]) < Len(W[s]) + 1
    PROVE  EndsAt(W[v], Append(W[f], b), Len(W[f]) + 1)
<1> DEFINE y == Append(W[s], b)
           z == Append(W[f], b)
<1>1. /\ f \in 0 .. n - 1 /\ W[s] \in Seq(A) /\ W[f] \in Seq(A) /\ W[v] \in Seq(A)
      /\ Len(W[s]) \in Nat /\ Len(W[f]) \in Nat
  BY LabelFacts DEF Link
<1>2. y[Len(W[s]) + 1] = b /\ z[Len(W[f]) + 1] = b
  BY <1>1, AppendLen
<1>3. CASE v = 0
  <2>1. W[v] = <<>> /\ Len(W[f]) + 1 \in Nat
    BY <1>1, <1>3, LabelFacts
  <2> QED BY <2>1, EndsEmpty
<1>4. CASE v # 0
  <2>1. PICK p \in 0 .. n - 1 : W[v] = Append(W[p], b) /\ EndsAt(W[p], y, Len(W[s]))
    <3>1. EndsAt(W[v], y, Len(W[s]) + 1)
      OBVIOUS
    <3> DEFINE i == Len(W[s])
    <3>2. i \in Nat /\ EndsAt(W[v], y, i + 1) /\ y[i + 1] = b
      BY <1>1, <1>2, <3>1
    <3> HIDE DEF y, i
    <3>3. ChildAt(W, n, A, y, i, y[i + 1], v) BY <1>4, <3>2, LastByte
    <3> QED BY <3>2, <3>3 DEF ChildAt, i
  <2>2. W[p] \in Seq(A) /\ Len(W[p]) \in Nat /\ Len(W[v]) = Len(W[p]) + 1
    BY <2>1, LabelFacts, AppendLen
  <2>3. EndsAt(W[p], W[s], Len(W[s])) /\ Len(W[p]) < Len(W[s])
    BY <1>1, <2>1, <2>2, EndsWithin
  <2>4. Len(W[p]) <= Len(W[f]) /\ EndsAt(W[f], W[s], Len(W[s]))
    BY <2>3 DEF Link
  <2>5. EndsAt(W[p], W[f], Len(W[f]))
    BY <1>1, <2>2, <2>3, <2>4, EndsNested
  <2>6. EndsAt(W[p], z, Len(W[f]))
    BY <1>1, <2>2, <2>5, EndsWithin
  <2> HIDE DEF z, y
  <2>7. EndsAt(Append(W[p], b), z, Len(W[f]) + 1)
    BY <1>1, <1>2, <2>2, <2>6, EndsAppend
  <2> QED BY <2>1, <2>7 DEF z
<1> QED BY <1>3, <1>4

(* Where the link of s goes ends the label of s with a byte more. *)
LEMMA LinkGoes ==
    ASSUME NEW W, NEW n, NEW A, Labels(W, n, A), NEW s \in 0 .. n - 1, NEW f,
           Link(W, n, s, f), NEW b \in A, NEW u, Goes(W, n, f, b, u)
    PROVE  /\ u \in 0 .. n - 1
           /\ EndsAt(W[u], Append(W[s], b), Len(W[s]) + 1)
           /\ Len(W[u]) < Len(W[s]) + 1
<1> DEFINE y == Append(W[s], b)
           z == Append(W[f], b)
<1>1. /\ f \in 0 .. n - 1 /\ W[s] \in Seq(A) /\ W[f] \in Seq(A) /\ u \in 0 .. n - 1
      /\ W[u] \in Seq(A)
      /\ Len(W[s]) \in Nat /\ Len(W[f]) \in Nat /\ Len(W[f]) < Len(W[s])
  BY LabelFacts DEF Link, Goes, Longest
<1>2. /\ y[Len(W[s]) + 1] = b /\ y \in Seq(A) /\ z \in Seq(A)
      /\ Len(z) = Len(W[f]) + 1 /\ Len(y) = Len(W[s]) + 1
  BY <1>1, AppendLen
<1>3. EndsAt(W[f], y, Len(W[s]))
  BY <1>1, EndsWithin DEF Link
<1>4. EndsAt(z, y, Len(W[s]) + 1)
  BY <1>1, <1>2, <1>3, EndsAppend
<1>5. EndsAt(W[u], z, Len(z)) /\ Len(W[u]) <= Len(z)
  BY <1>2 DEF Goes, Longest, EndsAt
<1>6. Len(W[s]) + 1 \in Nat /\ Len(z) < Len(W[s]) + 1 /\ Len(W[u]) \in Nat
  BY <1>1, <1>2, LabelFacts
<1> HIDE DEF y, z
<1>7. EndsAt(W[u], y, Len(W[s]) + 1)
  BY <1>1, <1>2, <1>4, <1>5, <1>6, EndsTrans
<1>8. Len(W[u]) < Len(W[s]) + 1
  BY <1>1, <1>2, <1>5, <1>6
<1> QED BY <1>1, <1>7, <1>8 DEF y

(* so it is the link of the child *)
LEMMA LinkChild ==
    ASSUME NEW W, NEW n, NEW A, Labels(W, n, A), NEW s \in 0 .. n - 1, NEW f,
           Link(W, n, s, f), NEW b \in A, NEW u, Goes(W, n, f, b, u),
           NEW v \in 0 .. n - 1, W[v] = Append(W[s], b)
    PROVE  Link(W, n, v, u)
<1>1. Len(W[v]) = Len(W[s]) + 1
  BY LabelFacts, AppendLen
<1>2. u \in 0 .. n - 1 /\ EndsAt(W[u], W[v], Len(W[v])) /\ Len(W[u]) < Len(W[v])
  BY <1>1, LinkGoes
<1>3. ASSUME NEW x \in 0 .. n - 1, EndsAt(W[x], W[v], Len(W[v])), Len(W[x]) < Len(W[v])
      PROVE  Len(W[x]) <= Len(W[u])
  <2>1. EndsAt(W[x], Append(W[f], b), Len(W[f]) + 1)
    BY <1>1, <1>3, LinkEnds
  <2> QED BY <2>1 DEF Goes, Longest
<1> QED BY <1>2, <1>3 DEF Link

(* and, where there is no child, where s goes. *)
LEMMA GoesLink ==
    ASSUME NEW W, NEW n, NEW A, Labels(W, n, A), NEW s \in 0 .. n - 1, NEW f,
           Link(W, n, s, f), NEW b \in A, NEW u, Goes(W, n, f, b, u),
           \A v \in 0 .. n - 1 : W[v] # Append(W[s], b)
    PROVE  Goes(W, n, s, b, u)
<1>1. /\ W[s] \in Seq(A) /\ Append(W[s], b) \in Seq(A)
      /\ Len(Append(W[s], b)) = Len(W[s]) + 1 /\ Len(W[s]) \in Nat
  BY LabelFacts, AppendLen
<1>2. u \in 0 .. n - 1 /\ EndsAt(W[u], Append(W[s], b), Len(W[s]) + 1)
  BY LinkGoes
<1>3. ASSUME NEW x \in 0 .. n - 1, EndsAt(W[x], Append(W[s], b), Len(W[s]) + 1)
      PROVE  Len(W[x]) <= Len(W[u])
  <2>1. W[x] \in Seq(A) /\ Len(W[x]) \in Nat /\ Len(W[x]) <= Len(W[s]) + 1
    BY <1>3, LabelFacts DEF EndsAt
  <2>2. Len(W[x]) # Len(W[s]) + 1
    BY <1>1, <1>3, <2>1, EndsFull
  <2>3. EndsAt(W[x], Append(W[f], b), Len(W[f]) + 1)
    BY <1>1, <1>3, <2>1, <2>2, LinkEnds
  <2> QED BY <2>3 DEF Goes, Longest
<1> QED BY <1>2, <1>3 DEF Goes, Longest

(* A child of the root falls back to the root. *)
LEMMA LinkRoot ==
    ASSUME NEW W, NEW n, NEW A, Labels(W, n, A), NEW v \in 0 .. n - 1, Len(W[v]) = 1
    PROVE  Link(W, n, v, 0)
<1>1. 0 \in 0 .. n - 1 /\ W[0] = <<>> /\ Len(W[0]) = 0
  BY LabelFacts
<1>2. EndsAt(W[0], W[v], Len(W[v]))
  BY <1>1, EndsEmpty
<1>3. \A u \in 0 .. n - 1 : Len(W[u]) < 1 => Len(W[u]) <= 0
  BY LabelFacts
<1> QED BY <1>1, <1>2, <1>3 DEF Link

(* The root goes to a child, or stays. *)
LEMMA GoesRoot ==
    ASSUME NEW W, NEW n, NEW A, Labels(W, n, A), NEW b \in A,
           \A v \in 0 .. n - 1 : W[v] # Append(W[0], b)
    PROVE  Goes(W, n, 0, b, 0)
<1> DEFINE y == Append(W[0], b)
<1>1. 0 \in 0 .. n - 1 /\ W[0] = <<>> /\ Len(W[0]) = 0 /\ W[0] \in Seq(A)
  BY LabelFacts
<1>2. y \in Seq(A) /\ Len(y) = 1
  BY <1>1, AppendLen
<1> HIDE DEF y
<1>3. EndsAt(W[0], y, 1)
  BY <1>1, EndsEmpty
<1>4. ASSUME NEW u \in 0 .. n - 1, EndsAt(W[u], y, 1) PROVE Len(W[u]) <= 0
  <2>1. W[u] \in Seq(A)
    BY LabelFacts
  <2>2. Len(W[u]) \in Nat /\ Len(W[u]) <= 1
    BY <1>4, LabelFacts DEF EndsAt
  <2>3. Len(W[u]) # 1
    BY <1>2, <1>4, <2>1, EndsFull DEF y
  <2>4. \A l \in Nat : l <= 1 /\ l # 1 => l <= 0
    OBVIOUS
  <2> QED BY <2>2, <2>3, <2>4, Zenon
<1>5. Len(W[0]) + 1 = 1
  BY <1>1
<1>6. Longest(W, n, y, 1, 0)
  BY <1>1, <1>3, <1>4 DEF Longest
<1> QED BY <1>5, <1>6 DEF Goes, y

(* What the words say that end at position i of t, and what the first d of *)
(* them say that are x: oo[k] is what word ww[k] says.                     *)
AllOf(ww, oo, t, i) == UNION {oo[k] : k \in {j \in DOMAIN ww : EndsAt(ww[j], t, i)}}

(* The outputs of those of the first d words that are x itself. *)
OwnOf(ww, oo, d, x) == UNION {oo[k] : k \in {j \in 1 .. d : ww[j] = x}}

(* Every word is a label. *)
Spelt(W, n, ww) == \A j \in DOMAIN ww : \E v \in 0 .. n - 1 : W[v] = ww[j]

(* The words that end at a position are those that end the longest label   *)
(* that does.                                                              *)
LEMMA LongestAll ==
    ASSUME NEW W, NEW n, NEW A, Labels(W, n, A), NEW ww, Spelt(W, n, ww), NEW oo,
           NEW t, NEW i \in Nat, NEW s, Longest(W, n, t, i, s)
    PROVE  AllOf(ww, oo, W[s], Len(W[s])) = AllOf(ww, oo, t, i)
<1>1. ASSUME NEW j \in DOMAIN ww
      PROVE  EndsAt(ww[j], W[s], Len(W[s])) <=> EndsAt(ww[j], t, i)
  <2>1. PICK v \in 0 .. n - 1 : W[v] = ww[j]
    BY DEF Spelt
  <2>2. /\ s \in 0 .. n - 1 /\ EndsAt(W[s], t, i) /\ W[s] \in Seq(A) /\ W[v] \in Seq(A)
        /\ EndsAt(W[v], t, i) => Len(W[v]) <= Len(W[s])
    BY LabelFacts DEF Longest
  <2>3. EndsAt(W[v], W[s], Len(W[s])) => EndsAt(W[v], t, i)
    BY <2>2, EndsTrans
  <2>4. EndsAt(W[v], t, i) => EndsAt(W[v], W[s], Len(W[s]))
    BY <2>2, EndsNested
  <2> QED BY <2>1, <2>3, <2>4
<1> QED BY <1>1 DEF AllOf

(* The words are numbered from 1 to d. *)
Numbered(ww, d) == DOMAIN ww = 1 .. d

(* What v accepts itself and what ends where its fail state does are       *)
(* together what ends at v.                                                *)
Gathers(W, ww, oo, d, v, f) ==
    OwnOf(ww, oo, d, W[v]) \cup AllOf(ww, oo, W[f], Len(W[f])) = AllOf(ww, oo, W[v], Len(W[v]))

(* The words that end a label are the label itself and those that end the  *)
(* label of its link.                                                      *)
LEMMA LinkAll ==
    ASSUME NEW W, NEW n, NEW A, Labels(W, n, A), NEW ww, Spelt(W, n, ww), NEW oo,
           NEW d, Numbered(ww, d), NEW v \in 0 .. n - 1, NEW f, Link(W, n, v, f)
    PROVE  Gathers(W, ww, oo, d, v, f)
<1>1. ASSUME NEW j \in 1 .. d
      PROVE  EndsAt(ww[j], W[v], Len(W[v]))
                <=> ww[j] = W[v] \/ EndsAt(ww[j], W[f], Len(W[f]))
  <2>1. PICK u \in 0 .. n - 1 : W[u] = ww[j]
    BY DEF Spelt, Numbered
  <2>2. /\ f \in 0 .. n - 1 /\ EndsAt(W[f], W[v], Len(W[v])) /\ W[f] \in Seq(A)
        /\ W[v] \in Seq(A) /\ W[u] \in Seq(A) /\ Len(W[v]) \in Nat /\ Len(W[u]) \in Nat
    BY LabelFacts DEF Link
  <2>3. ASSUME EndsAt(W[u], W[v], Len(W[v])), W[u] # W[v]
        PROVE  EndsAt(W[u], W[f], Len(W[f]))
    <3>1. Len(W[u]) # Len(W[v])
      BY <2>2, <2>3, EndsFull
    <3>2. Len(W[u]) < Len(W[v])
      BY <2>2, <2>3, <3>1 DEF EndsAt
    <3>3. Len(W[u]) <= Len(W[f])
      BY <2>3, <3>2 DEF Link
    <3> QED BY <2>2, <2>3, <3>3, EndsNested
  <2>4. EndsAt(W[u], W[f], Len(W[f])) => EndsAt(W[u], W[v], Len(W[v]))
    BY <2>2, EndsTrans
  <2>5. EndsAt(W[v], W[v], Len(W[v]))
    BY <2>2, EndsSelf
  <2> QED BY <2>1, <2>3, <2>4, <2>5
<1> QED BY <1>1 DEF AllOf, OwnOf, Gathers, Numbered

----------------------------------------------------------------------------
(* Sequences without repetition                                            *)

(* No element twice. *)
Distinct(q) == \A i, j \in DOMAIN q : q[i] = q[j] => i = j

(* The elements behind an append: a new one keeps them distinct. *)
LEMMA AppendElements ==
    ASSUME NEW V, NEW q \in Seq(V), NEW v \in V
    PROVE  /\ Append(q, v) \in Seq(V) /\ ToSet(Append(q, v)) = ToSet(q) \cup {v}
           /\ Distinct(q) /\ v \notin ToSet(q) => Distinct(Append(q, v))
<1> DEFINE r == Append(q, v)
           n == Len(q)
<1>1. /\ r \in Seq(V) /\ n \in Nat /\ DOMAIN q = 1 .. n /\ DOMAIN r = 1 .. n + 1
      /\ r[n + 1] = v /\ \A i \in 1 .. n : r[i] = q[i]
  BY AppendProperties, LenProperties
<1> HIDE DEF r, n
<1>2. 1 .. n + 1 = (1 .. n) \cup {n + 1} /\ n + 1 \notin 1 .. n
  BY <1>1
<1>3. ToSet(r) = ToSet(q) \cup {v}
  BY <1>1, <1>2 DEF ToSet
<1>4. \A i \in 1 .. n : q[i] \in ToSet(q)
  BY <1>1 DEF ToSet
<1>5. ASSUME Distinct(q), v \notin ToSet(q) PROVE Distinct(r)
  BY <1>1, <1>2, <1>4, <1>5 DEF Distinct
<1> QED BY <1>1, <1>3, <1>5 DEF r

(* The elements of two sequences that are put one behind the other. *)
LEMMA ConcatElements ==
    ASSUME NEW V, NEW q \in Seq(V), NEW r \in Seq(V)
    PROVE  /\ q \o r \in Seq(V) /\ ToSet(q \o r) = ToSet(q) \cup ToSet(r)
           /\ Len(q \o r) = Len(q) + Len(r) /\ Len(q) \in Nat /\ Len(r) \in Nat
           /\ \A i \in 1 .. Len(q) : (q \o r)[i] = q[i]
           /\ \A i \in 1 .. Len(q \o r) : i > Len(q) => (q \o r)[i] \in ToSet(r)
           /\ Distinct(q) /\ Distinct(r) /\ ToSet(q) \cap ToSet(r) = {} => Distinct(q \o r)
<1> DEFINE c == q \o r
           n == Len(q)
           m == Len(r)
<1>1. /\ c \in Seq(V) /\ n \in Nat /\ m \in Nat /\ Len(c) = n + m
      /\ \A i \in 1 .. n + m : c[i] = IF i <= n THEN q[i] ELSE r[i - n]
  BY ConcatProperties, LenProperties
<1>2. DOMAIN q = 1 .. n /\ DOMAIN r = 1 .. m /\ DOMAIN c = 1 .. n + m
  BY <1>1, LenProperties
<1> HIDE DEF c, n, m
<1>3. ASSUME NEW i \in 1 .. n PROVE i \in 1 .. n + m /\ c[i] = q[i] /\ c[i] \in ToSet(q)
  <2>1. i \in 1 .. n + m /\ i <= n
    BY <1>1
  <2> QED BY <1>1, <1>2, <2>1 DEF ToSet
<1>4. ASSUME NEW i \in 1 .. n + m, i > n PROVE i - n \in 1 .. m /\ c[i] = r[i - n] /\ c[i] \in ToSet(r)
  <2>1. i - n \in 1 .. m /\ ~ (i <= n)
    BY <1>1, <1>4
  <2>2. c[i] = r[i - n]
    BY <1>1, <2>1
  <2> QED BY <1>2, <2>1, <2>2 DEF ToSet
<1>5. ASSUME NEW k \in 1 .. m PROVE n + k \in 1 .. n + m /\ c[n + k] = r[k]
  <2>1. n + k \in 1 .. n + m /\ n + k > n /\ (n + k) - n = k
    BY <1>1
  <2> QED BY <1>4, <2>1
<1>6. \A i \in 1 .. n + m : i \in 1 .. n \/ i > n
  BY <1>1
<1>7. ToSet(c) = ToSet(q) \cup ToSet(r)
  <2>1. ASSUME NEW x \in ToSet(c) PROVE x \in ToSet(q) \cup ToSet(r)
    BY <1>2, <1>3, <1>4, <1>6, <2>1 DEF ToSet
  <2>2. ASSUME NEW x \in ToSet(q) PROVE x \in ToSet(c)
    BY <1>2, <1>3, <2>2 DEF ToSet
  <2>3. ASSUME NEW x \in ToSet(r) PROVE x \in ToSet(c)
    BY <1>2, <1>5, <2>3 DEF ToSet
  <2> QED BY <2>1, <2>2, <2>3
<1>8. ASSUME Distinct(q), Distinct(r), ToSet(q) \cap ToSet(r) = {}
      PROVE  Distinct(c)
  <2> SUFFICES ASSUME NEW i \in 1 .. n + m, NEW j \in 1 .. n + m, c[i] = c[j]
               PROVE  i = j
    BY <1>2 DEF Distinct
  <2>1. CASE i \in 1 .. n /\ j \in 1 .. n
    BY <1>2, <1>3, <1>8, <2>1 DEF Distinct
  <2>2. CASE i > n /\ j > n
    <3>1. i - n = j - n
      BY <1>2, <1>4, <1>8, <2>2 DEF Distinct
    <3> QED BY <1>1, <3>1
  <2>3. CASE i \in 1 .. n /\ j > n
    BY <1>3, <1>4, <1>8, <2>3
  <2>4. CASE j \in 1 .. n /\ i > n
    BY <1>3, <1>4, <1>8, <2>4
  <2> QED BY <1>6, <2>1, <2>2, <2>3, <2>4
<1> QED BY <1>1, <1>3, <1>4, <1>7, <1>8 DEF c, n, m

(* A sequence without repetition is no longer than the set it is from. *)
LEMMA DistinctLen ==
    ASSUME NEW m \in Nat, NEW q \in Seq(1 .. m), Distinct(q)
    PROVE  Len(q) <= m
<1>1. Len(q) \in Nat /\ q \in [1 .. Len(q) -> 1 .. m] /\ DOMAIN q = 1 .. Len(q)
  BY LenProperties
<1>2. /\ IsFiniteSet(1 .. Len(q)) /\ Cardinality(1 .. Len(q)) = Len(q)
      /\ IsFiniteSet(1 .. m) /\ Cardinality(1 .. m) = m
  <2>1. \A k \in Nat : IsFiniteSet(1 .. k) /\ Cardinality(1 .. k) = k
    <3> SUFFICES ASSUME NEW k \in Nat
                 PROVE  IsFiniteSet(1 .. k) /\ Cardinality(1 .. k) = k
      OBVIOUS
    <3>1. /\ IsFiniteSet(1 .. k)
          /\ Cardinality(1 .. k) = IF 1 > k THEN 0 ELSE k - 1 + 1
      BY FS_Interval
    <3>2. (IF 1 > k THEN 0 ELSE k - 1 + 1) = k
      OBVIOUS
    <3> QED BY <3>1, <3>2
  <2> QED BY <1>1, <2>1
<1>3. q \in Injection(1 .. Len(q), 1 .. m)
  BY <1>1 DEF Injection, IsInjective, Distinct
<1> QED BY <1>2, <1>3, FS_Injection

----------------------------------------------------------------------------
(* Flattened sequences                                                     *)

(* A flattened sequence has the elements of its parts. *)
LEMMA FlattenElements ==
    ASSUME NEW V, NEW ss \in Seq(Seq(V))
    PROVE  /\ FlattenSeq(ss) \in Seq(V)
           /\ \A x : x \in ToSet(FlattenSeq(ss)) <=> \E i \in DOMAIN ss : x \in ToSet(ss[i])
<1> DEFINE n == Len(ss)
<1>1. n \in Nat /\ DOMAIN ss = 1 .. n /\ \A i \in 1 .. n : ss[i] \in Seq(V)
  BY LenProperties, ElementOfSeq
<1>2. PICK g \in [0 .. n -> Seq(V)] : /\ g[0] = <<>>
                                      /\ \A i \in 1 .. n : g[i] = g[i - 1] \o ss[i]
                                      /\ FlattenSeq(ss) = g[n]
  BY FlattenSteps
<1> HIDE DEF n
<1> DEFINE S == {k \in Nat : k <= n =>
                    \A x : x \in ToSet(g[k]) <=> \E i \in 1 .. k : x \in ToSet(ss[i])}
<1>3. 0 \in S
  BY <1>2 DEF ToSet
<1>4. ASSUME NEW k \in Nat, k \in S PROVE k + 1 \in S
  <2> SUFFICES ASSUME k + 1 <= n
               PROVE  \A x : x \in ToSet(g[k + 1]) <=> \E i \in 1 .. k + 1 : x \in ToSet(ss[i])
    OBVIOUS
  <2>1. k \in 0 .. n /\ k + 1 \in 1 .. n /\ (k + 1) - 1 = k /\ k <= n
    BY <1>1
  <2>2. g[k + 1] = g[k] \o ss[k + 1] /\ g[k] \in Seq(V) /\ ss[k + 1] \in Seq(V)
    BY <1>1, <1>2, <2>1
  <2>3. ToSet(g[k + 1]) = ToSet(g[k]) \cup ToSet(ss[k + 1])
    BY <2>2, ConcatElements
  <2>4. 1 .. k + 1 = (1 .. k) \cup {k + 1}
    OBVIOUS
  <2>5. \A x : x \in ToSet(g[k]) <=> \E i \in 1 .. k : x \in ToSet(ss[i])
    BY <1>4, <2>1
  <2> QED BY <2>3, <2>4, <2>5
<1>5. n \in S
  <2> HIDE DEF S
  <2> QED BY <1>1, <1>3, <1>4, SetInduction
<1>6. \A x : x \in ToSet(g[n]) <=> \E i \in 1 .. n : x \in ToSet(ss[i])
  BY <1>1, <1>5
<1>7. n \in 0 .. n
  BY <1>1
<1>8. FlattenSeq(ss) \in Seq(V)
  BY <1>2, <1>7
<1> QED BY <1>1, <1>2, <1>6, <1>8

(* The numbers of a sequence add up from the left. *)
LEMMA SumSteps ==
    ASSUME NEW seq \in Seq(Nat)
    PROVE  /\ SumTo(seq, 0) = 0
           /\ \A i \in 0 .. Len(seq) : SumTo(seq, i) \in Nat
           /\ \A i \in Nat : i < Len(seq) => SumTo(seq, i + 1) = SumTo(seq, i) + seq[i + 1]
           /\ \A i \in 0 .. Len(seq) : SumTo(seq, i) <= SumTo(seq, Len(seq))
<1> DEFINE n == Len(seq)
           step == [i \in 1 .. n |-> [v \in Nat |-> v + seq[i]]]
           Rec(f) == f = [i \in 0 .. n |-> IF i = 0 THEN 0 ELSE f[i - 1] + seq[i]]
           g == CHOOSE x : Rec(x)
<1>1. n \in Nat /\ \A i \in 1 .. n : seq[i] \in Nat
  BY LenProperties, ElementOfSeq
<1>2. \A m : SumTo(seq, m) = g[m]
  BY DEF SumTo
<1>3. step \in [1 .. n -> [Nat -> Nat]]
  BY <1>1
<1> HIDE DEF n, g
<1>4. PICK h : Iterates(h, n, Nat, 0, step)
  <2> DEFINE z == 0
  <2>1. z \in Nat
    OBVIOUS
  <2> HIDE DEF step, z
  <2>2. \E h : Iterates(h, n, Nat, z, step)
    BY <1>1, <1>3, <2>1, Recursion
  <2> QED BY <2>2 DEF z
<1>5. Rec(h)
  <2>1. ASSUME NEW i \in 0 .. n PROVE h[i] = IF i = 0 THEN 0 ELSE h[i - 1] + seq[i]
    <3>1. CASE i = 0
      BY <1>4, <3>1 DEF Iterates
    <3>2. CASE i # 0
      <4>1. i \in 1 .. n /\ i - 1 \in 0 .. n
        BY <1>1, <3>2
      <4>2. h[i] = step[i][h[i - 1]] /\ h[i - 1] \in Nat
        BY <1>4, <4>1 DEF Iterates
      <4> QED BY <3>2, <4>1, <4>2
    <3> QED BY <3>1, <3>2
  <2> QED BY <1>4, <2>1 DEF Iterates
<1>6. Rec(g)
  BY <1>5 DEF g
<1>7. g[0] = 0
  <2>1. 0 \in 0 .. n
    BY <1>1
  <2> QED BY <1>6, <2>1
<1>8. ASSUME NEW i \in Nat, i < n PROVE g[i + 1] = g[i] + seq[i + 1] /\ seq[i + 1] \in Nat
  <2>1. i + 1 \in 0 .. n /\ i + 1 # 0 /\ (i + 1) - 1 = i /\ i + 1 \in 1 .. n
    BY <1>1, <1>8
  <2> QED BY <1>1, <1>6, <2>1
<1> HIDE DEF Rec
<1> DEFINE S == {m \in Nat : m <= n => g[m] \in Nat /\ \A i \in 0 .. m : g[i] \in Nat /\ g[i] <= g[m]}
<1>9. 0 \in S
  <2>1. \A i \in 0 .. 0 : i = 0
    OBVIOUS
  <2> QED BY <1>7, <2>1
<1>10. ASSUME NEW m \in Nat, m \in S PROVE m + 1 \in S
  <2> SUFFICES ASSUME m + 1 <= n
               PROVE  g[m + 1] \in Nat /\ \A i \in 0 .. m + 1 : g[i] \in Nat /\ g[i] <= g[m + 1]
    OBVIOUS
  <2>1. g[m] \in Nat /\ \A i \in 0 .. m : g[i] \in Nat /\ g[i] <= g[m]
    BY <1>1, <1>10
  <2>2. g[m + 1] = g[m] + seq[m + 1] /\ seq[m + 1] \in Nat
    BY <1>1, <1>8
  <2>3. g[m + 1] \in Nat /\ g[m] <= g[m + 1] /\ g[m] \in Nat
    BY <2>1, <2>2
  <2>4. ASSUME NEW i \in 0 .. m + 1 PROVE g[i] \in Nat /\ g[i] <= g[m + 1]
    <3>1. CASE i = m + 1
      BY <2>3, <3>1
    <3>2. CASE i # m + 1
      <4>1. i \in 0 .. m
        BY <3>2
      <4> QED BY <2>1, <2>3, <4>1
    <3> QED BY <3>1, <3>2
  <2> QED BY <2>3, <2>4
<1> HIDE DEF S
<1>11. Nat \subseteq S
  BY <1>9, <1>10, SetInduction
<1>12. \A m \in 0 .. n : g[m] \in Nat
  BY <1>1, <1>11 DEF S
<1>13. \A i \in 0 .. n : g[i] <= g[n]
  BY <1>1, <1>11 DEF S
<1>14. /\ \A i \in 0 .. n : SumTo(seq, i) \in Nat
       /\ \A i \in 0 .. n : SumTo(seq, i) <= SumTo(seq, n)
  BY <1>2, <1>12, <1>13
<1>15. \A i \in Nat : i < n => SumTo(seq, i + 1) = SumTo(seq, i) + seq[i + 1]
  BY <1>2, <1>8
<1>16. SumTo(seq, 0) = 0
  BY <1>2, <1>7
<1> QED BY <1>14, <1>15, <1>16 DEF n

----------------------------------------------------------------------------
(* The tables                                                              *)

(* The words that a table can hold, and a word with what it accepts. *)
NonEmpty == Seq(Alphabet) \ {<<>>}
Word == [w : NonEmpty, out : SUBSET Categories, rout : SUBSET (Nat \X Nat)]

(* The bytes of the tables: each once, and no capital. *)
LEMMA BytesFacts ==
    ASSUME tab \in Tables
    PROVE  /\ Bytes \in Seq(Byte \ Capital) /\ Distinct(Bytes)
           /\ Alphabet \subseteq Byte \ Capital
           /\ \A b : b \in Alphabet <=> \E i \in DOMAIN Bytes : b = Bytes[i]
<1>1. Bytes \in Seq(Byte \ Capital) /\ Distinct(Bytes)
  BY BytesAssumption DEF Bytes, Distinct
<1>2. \A i \in DOMAIN Bytes : Bytes[i] \in Byte \ Capital
  BY <1>1, ElementOfSeq, LenProperties
<1>3. \A b : b \in Alphabet <=> \E i \in DOMAIN Bytes : b = Bytes[i]
  BY DEF Alphabet, ToSet
<1> QED BY <1>1, <1>2, <1>3

(* The rows of categories, from TablesAssumption. *)
LEMMA CategoryFacts ==
    ASSUME tab \in Tables
    PROVE  /\ NCATEGORIES \in Nat /\ DOMAIN tab.categories = 1 .. NCATEGORIES
           /\ \A i \in 1 .. NCATEGORIES :
                 /\ tab.categories[i].cat \in Categories
                 /\ tab.categories[i].sigs \in Seq(NonEmpty)
           /\ \A i, j \in 1 .. NCATEGORIES :
                 tab.categories[i].cat = tab.categories[j].cat => i = j
<1> DEFINE C == [cat : Categories, bufs : SUBSET Flavours, sigs : Seq(WordsOver(tab))]
<1>1. WordsOver(tab) = NonEmpty
  BY DEF WordsOver, NonEmpty, Alphabet, Bytes
<1>2. tab.categories \in Seq(C)
  BY TablesAssumption
<1>3. NCATEGORIES \in Nat /\ DOMAIN tab.categories = 1 .. NCATEGORIES
  <2> HIDE DEF C
  <2> QED BY <1>2, LenProperties DEF NCATEGORIES
<1>4. \A i \in 1 .. NCATEGORIES : tab.categories[i] \in C
  <2> HIDE DEF C
  <2> QED BY <1>2, ElementOfSeq DEF NCATEGORIES
<1>5. \A i, j \in DOMAIN tab.categories :
         tab.categories[i].cat = tab.categories[j].cat => i = j
  BY TablesAssumption
<1> QED BY <1>1, <1>3, <1>4, <1>5

(* The rules, from TablesAssumption: each has a term and a row. *)
LEMMA RuleFacts ==
    ASSUME tab \in Tables
    PROVE  /\ Len(tab.rules) \in Nat /\ DOMAIN tab.rules = 1 .. Len(tab.rules)
           /\ \A k \in DOMAIN tab.rules :
                 /\ tab.rules[k].cat \in Categories
                 /\ tab.rules[k].terms \in Seq(NonEmpty)
                 /\ DOMAIN tab.rules[k].terms # {} /\ DOMAIN tab.rules[k].terms \subseteq Nat
                 /\ \E i \in 1 .. NCATEGORIES : tab.categories[i].cat = tab.rules[k].cat
<1> DEFINE C == [cat : Categories, bufs : SUBSET Flavours,
                 terms : Seq(WordsOver(tab)) \ {<<>>}]
<1>1. WordsOver(tab) = NonEmpty
  BY DEF WordsOver, NonEmpty, Alphabet, Bytes
<1>2. tab.rules \in Seq(C)
  BY TablesAssumption
<1>3. Len(tab.rules) \in Nat /\ DOMAIN tab.rules = 1 .. Len(tab.rules)
  <2> HIDE DEF C
  <2> QED BY <1>2, LenProperties
<1>4. \A i \in DOMAIN tab.rules : tab.rules[i] \in C
  <2> HIDE DEF C
  <2> QED BY <1>2, <1>3, ElementOfSeq
<1>5. \A k \in DOMAIN tab.rules : \E i \in DOMAIN tab.categories :
         tab.categories[i].cat = tab.rules[k].cat
  BY TablesAssumption
<1>6. \A k \in DOMAIN tab.rules : \E i \in 1 .. NCATEGORIES :
         tab.categories[i].cat = tab.rules[k].cat
  BY <1>5, CategoryFacts
<1>7. ASSUME NEW k \in DOMAIN tab.rules
      PROVE  /\ tab.rules[k].cat \in Categories
             /\ tab.rules[k].terms \in Seq(NonEmpty)
             /\ DOMAIN tab.rules[k].terms # {} /\ DOMAIN tab.rules[k].terms \subseteq Nat
  <2>1. tab.rules[k].cat \in Categories /\ tab.rules[k].terms \in Seq(NonEmpty)
        /\ tab.rules[k].terms # <<>>
    BY <1>1, <1>4
  <2> DEFINE ts == tab.rules[k].terms
  <2> HIDE DEF ts
  <2>2. ts \in Seq(NonEmpty) /\ ts # <<>>
    BY <2>1 DEF ts
  <2>3. Len(ts) \in Nat /\ Len(ts) # 0 /\ DOMAIN ts = 1 .. Len(ts)
    BY <2>2, EmptySeq, LenProperties
  <2>4. DOMAIN ts # {} /\ DOMAIN ts \subseteq Nat
    <3>1. 1 \in 1 .. Len(ts)
      BY <2>3
    <3> QED BY <2>3, <3>1
  <2> QED BY <2>1, <2>4 DEF ts
<1> QED BY <1>3, <1>6, <1>7

(* The words of a flavour are the signatures of its categories and the     *)
(* terms of its rules.                                                     *)
SigWord(f, e) ==
    \E i \in 1 .. NCATEGORIES : /\ f \in tab.categories[i].bufs
                                /\ \E j \in DOMAIN tab.categories[i].sigs :
                                      e = [w |-> tab.categories[i].sigs[j],
                                           out |-> {tab.categories[i].cat}, rout |-> {}]

(* And a rule term of f. *)
TermWord(f, e) ==
    \E i \in DOMAIN tab.rules : /\ f \in tab.rules[i].bufs
                                /\ \E j \in DOMAIN tab.rules[i].terms :
                                      e = [w |-> tab.rules[i].terms[j],
                                           out |-> {}, rout |-> {<<i, j>>}]

(* SigWords(f) lists the signatures of the flavour f and nothing else. *)
LEMMA SigWordsFacts ==
    ASSUME tab \in Tables, NEW f
    PROVE  /\ SigWords(f) \in Seq(Word)
           /\ \A e : e \in ToSet(SigWords(f)) <=> SigWord(f, e)
<1> DEFINE rec(i) == [j \in DOMAIN tab.categories[i].sigs |->
                        [w |-> tab.categories[i].sigs[j],
                         out |-> {tab.categories[i].cat}, rout |-> {}]]
           part(i) == IF f \in tab.categories[i].bufs THEN rec(i) ELSE <<>>
           ss == [i \in 1 .. NCATEGORIES |-> part(i)]
<1>1. SigWords(f) = FlattenSeq(ss)
  BY DEF SigWords
<1>2. ASSUME NEW i \in 1 .. NCATEGORIES PROVE part(i) \in Seq(Word)
  <2> DEFINE sg == tab.categories[i].sigs
             ct == tab.categories[i].cat
  <2>1. sg \in Seq(NonEmpty) /\ ct \in Categories
    BY CategoryFacts
  <2> HIDE DEF sg, ct
  <2>2. Len(sg) \in Nat /\ DOMAIN sg = 1 .. Len(sg) /\ \A j \in 1 .. Len(sg) : sg[j] \in NonEmpty
    BY <2>1, LenProperties, ElementOfSeq
  <2> DEFINE r == [j \in 1 .. Len(sg) |-> [w |-> sg[j], out |-> {ct}, rout |-> {}]]
  <2>3. \A j \in 1 .. Len(sg) : r[j] \in Word
    BY <2>1, <2>2 DEF Word
  <2>4. r \in [1 .. Len(sg) -> Word]
    BY <2>3
  <2> HIDE DEF r
  <2>5. r \in Seq(Word)
    BY <2>2, <2>4
  <2>6. rec(i) = r
    BY <2>2 DEF r, sg, ct
  <2> HIDE DEF rec
  <2>7. <<>> \in Seq(Word)
    BY EmptySeq
  <2> QED BY <2>5, <2>6, <2>7
<1>3. NCATEGORIES \in Nat
  BY CategoryFacts
<1>4. ss \in Seq(Seq(Word))
  <2> DEFINE V == Seq(Word)
  <2>1. \A i \in 1 .. NCATEGORIES : part(i) \in V
    BY <1>2
  <2> HIDE DEF part, V
  <2>2. ss \in [1 .. NCATEGORIES -> V]
    BY <2>1
  <2> HIDE DEF ss
  <2>3. ss \in Seq(V)
    BY <1>3, <2>2
  <2> QED BY <2>3 DEF V
<1> HIDE DEF ss
<1>5. /\ FlattenSeq(ss) \in Seq(Word)
      /\ \A e : e \in ToSet(FlattenSeq(ss)) <=> \E i \in DOMAIN ss : e \in ToSet(ss[i])
  BY <1>4, FlattenElements
<1>6. \A e : (\E i \in DOMAIN ss : e \in ToSet(ss[i])) <=> SigWord(f, e)
  <2>1. DOMAIN ss = 1 .. NCATEGORIES
    BY DEF ss
  <2>2. ASSUME NEW i \in 1 .. NCATEGORIES, NEW e
        PROVE  e \in ToSet(ss[i]) <=>
                  /\ f \in tab.categories[i].bufs
                  /\ \E j \in DOMAIN tab.categories[i].sigs :
                        e = [w |-> tab.categories[i].sigs[j],
                             out |-> {tab.categories[i].cat}, rout |-> {}]
    <3>1. CASE f \in tab.categories[i].bufs
      <4>1. ss[i] = rec(i)
        BY <3>1 DEF ss
      <4> QED BY <3>1, <4>1 DEF ToSet
    <3>2. CASE f \notin tab.categories[i].bufs
      <4>1. ss[i] = <<>>
        BY <3>2 DEF ss
      <4> QED BY <3>2, <4>1 DEF ToSet
    <3> QED BY <3>1, <3>2
  <2> QED BY <2>1, <2>2 DEF SigWord
<1> QED BY <1>1, <1>5, <1>6

(* TermWords(f) lists the terms of its rules and nothing else. *)
LEMMA TermWordsFacts ==
    ASSUME tab \in Tables, NEW f
    PROVE  /\ TermWords(f) \in Seq(Word)
           /\ \A e : e \in ToSet(TermWords(f)) <=> TermWord(f, e)
<1> DEFINE rec(i) == [j \in DOMAIN tab.rules[i].terms |->
                        [w |-> tab.rules[i].terms[j], out |-> {}, rout |-> {<<i, j>>}]]
           part(i) == IF f \in tab.rules[i].bufs THEN rec(i) ELSE <<>>
           ss == [i \in DOMAIN tab.rules |-> part(i)]
<1>1. TermWords(f) = FlattenSeq(ss)
  BY DEF TermWords
<1>2. ASSUME NEW i \in DOMAIN tab.rules PROVE part(i) \in Seq(Word)
  <2> DEFINE tm == tab.rules[i].terms
  <2>1. tm \in Seq(NonEmpty) /\ i \in Nat
    BY RuleFacts
  <2> HIDE DEF tm
  <2>2. Len(tm) \in Nat /\ DOMAIN tm = 1 .. Len(tm) /\ \A j \in 1 .. Len(tm) : tm[j] \in NonEmpty
    BY <2>1, LenProperties, ElementOfSeq
  <2> DEFINE r == [j \in 1 .. Len(tm) |-> [w |-> tm[j], out |-> {}, rout |-> {<<i, j>>}]]
  <2>3. \A j \in 1 .. Len(tm) : r[j] \in Word
    BY <2>1, <2>2 DEF Word
  <2>4. r \in [1 .. Len(tm) -> Word]
    BY <2>3
  <2> HIDE DEF r
  <2>5. r \in Seq(Word)
    BY <2>2, <2>4
  <2>6. rec(i) = r
    BY <2>2 DEF r, tm
  <2> HIDE DEF rec
  <2>7. <<>> \in Seq(Word)
    BY EmptySeq
  <2> QED BY <2>5, <2>6, <2>7
<1>3. Len(tab.rules) \in Nat /\ DOMAIN tab.rules = 1 .. Len(tab.rules)
  BY RuleFacts
<1>4. ss \in Seq(Seq(Word))
  <2> DEFINE V == Seq(Word)
  <2>1. \A i \in DOMAIN tab.rules : part(i) \in V
    BY <1>2
  <2> HIDE DEF part, V
  <2>2. ss \in [DOMAIN tab.rules -> V]
    BY <2>1
  <2> HIDE DEF ss
  <2>3. ss \in Seq(V)
    BY <1>3, <2>2
  <2> QED BY <2>3 DEF V
<1> HIDE DEF ss
<1>5. /\ FlattenSeq(ss) \in Seq(Word)
      /\ \A e : e \in ToSet(FlattenSeq(ss)) <=> \E i \in DOMAIN ss : e \in ToSet(ss[i])
  BY <1>4, FlattenElements
<1>6. \A e : (\E i \in DOMAIN ss : e \in ToSet(ss[i])) <=> TermWord(f, e)
  <2>1. DOMAIN ss = DOMAIN tab.rules
    BY DEF ss
  <2>2. ASSUME NEW i \in DOMAIN tab.rules, NEW e
        PROVE  e \in ToSet(ss[i]) <=>
                  /\ f \in tab.rules[i].bufs
                  /\ \E j \in DOMAIN tab.rules[i].terms :
                        e = [w |-> tab.rules[i].terms[j], out |-> {}, rout |-> {<<i, j>>}]
    <3>1. CASE f \in tab.rules[i].bufs
      <4>1. ss[i] = rec(i)
        BY <3>1 DEF ss
      <4> QED BY <3>1, <4>1 DEF ToSet
    <3>2. CASE f \notin tab.rules[i].bufs
      <4>1. ss[i] = <<>>
        BY <3>2 DEF ss
      <4> QED BY <3>2, <4>1 DEF ToSet
    <3> QED BY <3>1, <3>2
  <2> QED BY <2>1, <2>2 DEF TermWord
<1> QED BY <1>1, <1>5, <1>6

(* The words of a flavour: its signatures and its terms. *)
LEMMA WordsFacts ==
    ASSUME tab \in Tables, NEW f
    PROVE  /\ Words(f) \in Seq(Word) /\ Len(Words(f)) \in Nat
           /\ DOMAIN Words(f) = 1 .. Len(Words(f))
           /\ \A k \in 1 .. Len(Words(f)) : Words(f)[k] \in Word
           /\ \A e : e \in ToSet(Words(f)) <=> SigWord(f, e) \/ TermWord(f, e)
<1>1. /\ SigWords(f) \in Seq(Word) /\ TermWords(f) \in Seq(Word)
      /\ \A e : e \in ToSet(SigWords(f)) <=> SigWord(f, e)
      /\ \A e : e \in ToSet(TermWords(f)) <=> TermWord(f, e)
  BY SigWordsFacts, TermWordsFacts
<1>2. /\ Words(f) \in Seq(Word)
      /\ ToSet(Words(f)) = ToSet(SigWords(f)) \cup ToSet(TermWords(f))
  BY <1>1, ConcatElements DEF Words
<1>3. /\ Len(Words(f)) \in Nat /\ DOMAIN Words(f) = 1 .. Len(Words(f))
      /\ \A k \in 1 .. Len(Words(f)) : Words(f)[k] \in Word
  BY <1>2, LenProperties, ElementOfSeq
<1> QED BY <1>1, <1>2, <1>3

(* The words of a flavour and what they say, apart. *)
Spellings(f) == [k \in DOMAIN Words(f) |-> Words(f)[k].w]
Outs(f) == [k \in DOMAIN Words(f) |-> Words(f)[k].out]
Routs(f) == [k \in DOMAIN Words(f) |-> Words(f)[k].rout]

(* The categories with a signature that ends at position i of t. *)
LEMMA OutsEnd ==
    ASSUME tab \in Tables, NEW f, NEW t, NEW i, NEW c
    PROVE  c \in AllOf(Spellings(f), Outs(f), t, i) <=>
              \E r \in 1 .. NCATEGORIES :
                 /\ f \in tab.categories[r].bufs /\ tab.categories[r].cat = c
                 /\ \E j \in DOMAIN tab.categories[r].sigs :
                       EndsAt(tab.categories[r].sigs[j], t, i)
<1>1. c \in AllOf(Spellings(f), Outs(f), t, i) <=>
         \E k \in DOMAIN Words(f) : EndsAt(Words(f)[k].w, t, i) /\ c \in Words(f)[k].out
  BY DEF AllOf, Spellings, Outs
<1>2. (\E k \in DOMAIN Words(f) : EndsAt(Words(f)[k].w, t, i) /\ c \in Words(f)[k].out)
         <=> \E e \in ToSet(Words(f)) : EndsAt(e.w, t, i) /\ c \in e.out
  BY DEF ToSet
<1>3. (\E e \in ToSet(Words(f)) : EndsAt(e.w, t, i) /\ c \in e.out)
         <=> \E e : SigWord(f, e) /\ EndsAt(e.w, t, i) /\ c \in e.out
  <2>1. ASSUME NEW e, TermWord(f, e) PROVE c \notin e.out
    BY <2>1 DEF TermWord
  <2> QED BY <2>1, WordsFacts
<1>4. (\E e : SigWord(f, e) /\ EndsAt(e.w, t, i) /\ c \in e.out)
         <=> \E r \in 1 .. NCATEGORIES :
                 /\ f \in tab.categories[r].bufs /\ tab.categories[r].cat = c
                 /\ \E j \in DOMAIN tab.categories[r].sigs :
                       EndsAt(tab.categories[r].sigs[j], t, i)
  <2>1. ASSUME NEW e, SigWord(f, e), EndsAt(e.w, t, i), c \in e.out
        PROVE  \E r \in 1 .. NCATEGORIES :
                 /\ f \in tab.categories[r].bufs /\ tab.categories[r].cat = c
                 /\ \E j \in DOMAIN tab.categories[r].sigs :
                       EndsAt(tab.categories[r].sigs[j], t, i)
    BY <2>1 DEF SigWord
  <2>2. ASSUME NEW r \in 1 .. NCATEGORIES, f \in tab.categories[r].bufs,
               tab.categories[r].cat = c, NEW j \in DOMAIN tab.categories[r].sigs,
               EndsAt(tab.categories[r].sigs[j], t, i)
        PROVE  \E e : SigWord(f, e) /\ EndsAt(e.w, t, i) /\ c \in e.out
    <3> DEFINE e == [w |-> tab.categories[r].sigs[j], out |-> {tab.categories[r].cat},
                     rout |-> {}]
    <3>1. EndsAt(e.w, t, i) /\ c \in e.out
      BY <2>2
    <3>2. SigWord(f, e)
      BY <2>2 DEF SigWord
    <3> HIDE DEF e
    <3> QED BY <3>1, <3>2
  <2> QED BY <2>1, <2>2
<1> QED BY <1>1, <1>2, <1>3, <1>4

(* The rule terms that end at position i of t. *)
LEMMA RoutsEnd ==
    ASSUME tab \in Tables, NEW f, NEW t, NEW i,
           NEW k \in DOMAIN tab.rules, NEW j \in DOMAIN tab.rules[k].terms
    PROVE  <<k, j>> \in AllOf(Spellings(f), Routs(f), t, i) <=>
              f \in tab.rules[k].bufs /\ EndsAt(tab.rules[k].terms[j], t, i)
<1> DEFINE c == <<k, j>>
<1>1. c \in AllOf(Spellings(f), Routs(f), t, i) <=>
         \E l \in DOMAIN Words(f) : EndsAt(Words(f)[l].w, t, i) /\ c \in Words(f)[l].rout
  BY DEF AllOf, Spellings, Routs
<1>2. (\E l \in DOMAIN Words(f) : EndsAt(Words(f)[l].w, t, i) /\ c \in Words(f)[l].rout)
         <=> \E e \in ToSet(Words(f)) : EndsAt(e.w, t, i) /\ c \in e.rout
  BY DEF ToSet
<1>3. (\E e \in ToSet(Words(f)) : EndsAt(e.w, t, i) /\ c \in e.rout)
         <=> \E e : TermWord(f, e) /\ EndsAt(e.w, t, i) /\ c \in e.rout
  <2>1. ASSUME NEW e, SigWord(f, e) PROVE c \notin e.rout
    BY <2>1 DEF SigWord
  <2> HIDE DEF c
  <2> QED BY <2>1, WordsFacts
<1>4. (\E e : TermWord(f, e) /\ EndsAt(e.w, t, i) /\ c \in e.rout)
         <=> f \in tab.rules[k].bufs /\ EndsAt(tab.rules[k].terms[j], t, i)
  <2>1. ASSUME NEW e, TermWord(f, e), EndsAt(e.w, t, i), c \in e.rout
        PROVE  f \in tab.rules[k].bufs /\ EndsAt(tab.rules[k].terms[j], t, i)
    BY <2>1 DEF TermWord
  <2>2. ASSUME f \in tab.rules[k].bufs, EndsAt(tab.rules[k].terms[j], t, i)
        PROVE  \E e : TermWord(f, e) /\ EndsAt(e.w, t, i) /\ c \in e.rout
    <3> DEFINE e == [w |-> tab.rules[k].terms[j], out |-> {}, rout |-> {<<k, j>>}]
    <3>1. EndsAt(e.w, t, i) /\ c \in e.rout
      BY <2>2
    <3>2. TermWord(f, e)
      BY <2>2 DEF TermWord
    <3> HIDE DEF e
    <3> QED BY <3>1, <3>2
  <2> QED BY <2>1, <2>2
<1> QED BY <1>1, <1>2, <1>3, <1>4

(* The targets of a row in order are its targets, each once. *)
LEMMA InOrderFacts ==
    ASSUME tab \in Tables, NEW m \in Nat, NEW row \in [Alphabet -> 0 .. m],
           \A a, b \in Alphabet : row[a] = row[b] /\ row[a] # 0 => a = b
    PROVE  /\ InOrder(row) \in Seq(1 .. m) /\ Distinct(InOrder(row))
           /\ \A v : v \in ToSet(InOrder(row)) <=> v # 0 /\ \E b \in Alphabet : row[b] = v
<1> DEFINE V == 1 .. m
           n == Len(Bytes)
           part(i) == IF row[Bytes[i]] = 0 THEN <<>> ELSE <<row[Bytes[i]]>>
           ss == [i \in DOMAIN Bytes |-> part(i)]
<1>1. InOrder(row) = FlattenSeq(ss)
  BY DEF InOrder
<1>2. /\ n \in Nat /\ DOMAIN Bytes = 1 .. n /\ Distinct(Bytes)
      /\ \A i \in 1 .. n : Bytes[i] \in Alphabet
  BY BytesFacts, LenProperties
<1>3. \A i \in 1 .. n : row[Bytes[i]] \in 0 .. m
  BY <1>2
<1>4. \A i \in 1 .. n : row[Bytes[i]] # 0 => row[Bytes[i]] \in V
  BY <1>3
<1>5. \A i \in 1 .. n : part(i) \in Seq(V)
  <2> SUFFICES ASSUME NEW i \in 1 .. n PROVE part(i) \in Seq(V)
    OBVIOUS
  <2>1. CASE row[Bytes[i]] = 0
    BY <2>1, EmptySeq
  <2>2. CASE row[Bytes[i]] # 0
    <3>1. row[Bytes[i]] \in V
      BY <1>4, <2>2
    <3> HIDE DEF V
    <3> QED BY <2>2, <3>1
  <2> QED BY <2>1, <2>2
<1>6. ss \in Seq(Seq(V)) /\ Len(ss) = n
  <2> DEFINE U == Seq(V)
  <2>1. \A i \in 1 .. n : part(i) \in U
    BY <1>5
  <2> HIDE DEF part, U
  <2>2. ss \in [1 .. n -> U] /\ DOMAIN ss = 1 .. n
    BY <1>2, <2>1
  <2> HIDE DEF ss, n
  <2>3. ss \in Seq(U)
    BY <1>2, <2>2
  <2>4. Len(ss) = n
    BY <1>2, <2>2, <2>3, LenIs
  <2> QED BY <2>3, <2>4 DEF U
<1>7. \A i \in 1 .. n : ss[i] = part(i)
  BY <1>2
<1> HIDE DEF ss, V, n
<1>8. PICK g \in [0 .. n -> Seq(V)] : /\ g[0] = <<>>
                                      /\ \A i \in 1 .. n : g[i] = g[i - 1] \o ss[i]
                                      /\ FlattenSeq(ss) = g[n]
  <2>1. PICK g \in [0 .. Len(ss) -> Seq(V)] :
           /\ g[0] = <<>>
           /\ \A i \in 1 .. Len(ss) : g[i] = g[i - 1] \o ss[i]
           /\ FlattenSeq(ss) = g[Len(ss)]
    BY <1>6, FlattenSteps
  <2> QED BY <1>6, <2>1
<1> DEFINE Has(k) == \A v : v \in ToSet(g[k]) <=> v # 0 /\ \E i \in 1 .. k : row[Bytes[i]] = v
           S == {k \in Nat : k <= n => Distinct(g[k]) /\ Has(k)}
<1>9. 0 \in S
  <2>1. ToSet(g[0]) = {} /\ Distinct(g[0])
    BY <1>8 DEF ToSet, Distinct
  <2>2. \A i : i \notin 1 .. 0
    OBVIOUS
  <2> QED BY <2>1, <2>2
<1>10. ASSUME NEW k \in Nat, k \in S PROVE k + 1 \in S
  <2> SUFFICES ASSUME k + 1 <= n PROVE Distinct(g[k + 1]) /\ Has(k + 1)
    OBVIOUS
  <2>1. k \in 0 .. n /\ k + 1 \in 1 .. n /\ (k + 1) - 1 = k /\ k <= n
    BY <1>2
  <2>2. Distinct(g[k]) /\ Has(k)
    BY <1>10, <2>1
  <2>3. g[k + 1] = g[k] \o ss[k + 1] /\ g[k] \in Seq(V)
    BY <1>8, <2>1
  <2>4. 1 .. k + 1 = (1 .. k) \cup {k + 1} /\ k + 1 \notin 1 .. k /\ 1 .. k \subseteq 1 .. n
    BY <1>2, <2>1
  <2>5. CASE row[Bytes[k + 1]] = 0
    <3>1. ss[k + 1] = <<>>
      BY <1>7, <2>1, <2>5
    <3>2. g[k + 1] = g[k]
      BY <2>3, <3>1, ConcatEmptySeq
    <3> QED BY <2>2, <2>4, <2>5, <3>2
  <2>6. CASE row[Bytes[k + 1]] # 0
    <3> DEFINE v == row[Bytes[k + 1]]
    <3>1. ss[k + 1] = <<v>> /\ v \in V
      BY <1>4, <1>7, <2>1, <2>6
    <3>2. v \notin ToSet(g[k])
      <4> SUFFICES ASSUME v \in ToSet(g[k]) PROVE FALSE
        OBVIOUS
      <4>1. PICK i \in 1 .. k : row[Bytes[i]] = v
        BY <2>2
      <4>2. i \in 1 .. n /\ i # k + 1
        BY <2>4
      <4>3. Bytes[i] = Bytes[k + 1]
        BY <1>2, <2>1, <2>6, <4>1, <4>2
      <4> QED BY <1>2, <2>1, <4>2, <4>3 DEF Distinct
    <3> HIDE DEF v
    <3>3. g[k + 1] = Append(g[k], v)
      BY <2>3, <3>1
    <3>4. Distinct(g[k + 1]) /\ ToSet(g[k + 1]) = ToSet(g[k]) \cup {v}
      <4> DEFINE q == g[k]
      <4>1. q \in Seq(V) /\ Distinct(q) /\ v \notin ToSet(q) /\ g[k + 1] = Append(q, v)
        BY <2>2, <2>3, <3>2, <3>3
      <4> HIDE DEF q, S, Has
      <4>2. Distinct(Append(q, v)) /\ ToSet(Append(q, v)) = ToSet(q) \cup {v}
        BY <3>1, <4>1, AppendElements
      <4> QED BY <4>1, <4>2 DEF q
    <3> QED BY <2>2, <2>4, <2>6, <3>4 DEF v
  <2> QED BY <2>5, <2>6
<1>11. n \in S
  <2> HIDE DEF S
  <2> QED BY <1>2, <1>9, <1>10, SetInduction
<1>12. Distinct(g[n]) /\ Has(n) /\ g[n] \in Seq(V)
  BY <1>2, <1>8, <1>11
<1>13. \A v : (\E i \in 1 .. n : row[Bytes[i]] = v) <=> \E b \in Alphabet : row[b] = v
  BY <1>2, BytesFacts
<1> QED BY <1>1, <1>8, <1>12, <1>13 DEF V

----------------------------------------------------------------------------
(* The trie                                                                *)

(* A row of the goto table holds the children of s, and 0 for the others. *)
Goto(W, n, A, nx, s) ==
    \A b \in A : /\ nx[s][b] \in 0 .. n - 1
                 /\ nx[s][b] # 0 => W[nx[s][b]] = Append(W[s], b)
                 /\ \A v \in 0 .. n - 1 : W[v] = Append(W[s], b) => nx[s][b] = v

(* The arrays of an automaton under construction, with cap entries. *)
Record(A, cap) == [next : [0 .. cap - 1 -> [A -> Nat]],
                   out : [0 .. cap - 1 -> SUBSET Categories],
                   rout : [0 .. cap - 1 -> SUBSET (Nat \X Nat)], nstates : Nat]

(* t is a trie with the labels W: each row leads to the children, and the  *)
(* rows that are not in use are blank.                                     *)
Trie(W, A, cap, t) ==
    /\ Labels(W, t.nstates, A) /\ t \in Record(A, cap) /\ t.nstates <= cap
    /\ \A s \in 0 .. t.nstates - 1 : Goto(W, t.nstates, A, t.next, s)
    /\ \A s \in t.nstates .. cap - 1 : \A b \in A : t.next[s][b] = 0

(* t2 is t with more states. *)
Grown(W, t, W2, t2) ==
    /\ t.nstates <= t2.nstates /\ \A v \in 0 .. t.nstates - 1 : W2[v] = W[v]
    /\ t2.out = t.out /\ t2.rout = t.rout

(* One byte creates one state at most, and reaches the state whose label   *)
(* has the byte.                                                           *)
Extended(W, A, cap, s, t, b, W2, at) ==
    /\ Trie(W2, A, cap, at.t) /\ Grown(W, t, W2, at.t)
    /\ at = [s |-> at.s, t |-> at.t]
    /\ at.s \in 0 .. at.t.nstates - 1 /\ W2[at.s] = Append(W[s], b)
    /\ at.t.nstates <= t.nstates + 1

(* s has no child on b. *)
Fresh(W, n, s, b) == \A v \in 0 .. n - 1 : W[v] # Append(W[s], b)

(* A row with no transition on b belongs to a state with no child on b. *)
LEMMA GotoFresh ==
    ASSUME NEW W, NEW n, NEW A, Labels(W, n, A), NEW nx, NEW s \in 0 .. n - 1, NEW b \in A,
           \A x \in 0 .. n - 1 : Goto(W, n, A, nx, x), nx[s][b] = 0
    PROVE  Fresh(W, n, s, b)
<1> SUFFICES ASSUME NEW v \in 0 .. n - 1, W[v] = Append(W[s], b) PROVE FALSE
  BY DEF Fresh
<1>1. v = 0
  BY DEF Goto
<1>2. W[s] \in Seq(A) /\ W[0] = <<>>
  BY LabelFacts
<1> QED BY <1>1, <1>2, AppendLen

(* W2 labels a state more, the child of s on b. *)
Adds(W, n, A, s, b, W2) ==
    /\ W2 \in [0 .. n -> Seq(A)] /\ W2[n] = Append(W[s], b)
    /\ \A v \in 0 .. n - 1 : W2[v] = W[v]

(* A new state with a new word as its label keeps the labels distinct, and *)
(* it has no child.                                                        *)
LEMMA LabelsExtend ==
    ASSUME NEW W, NEW n, NEW A, Labels(W, n, A), NEW s \in 0 .. n - 1, NEW b \in A,
           Fresh(W, n, s, b),
           NEW W2, Adds(W, n, A, s, b, W2)
    PROVE  /\ Labels(W2, n + 1, A)
           /\ \A v \in 0 .. n : \A c \in A : W2[v] # Append(W2[n], c)
<1>1. n \in Nat /\ n > 0 /\ W[0] = <<>> /\ \A v \in 0 .. n - 1 : W[v] \in Seq(A)
  BY LabelFacts
<1>2. /\ (n + 1) - 1 = n /\ n + 1 \in Nat \ {0} /\ n \in 0 .. n /\ 0 \in 0 .. n - 1
      /\ \A v \in 0 .. n - 1 : v # n /\ v \in 0 .. n
      /\ \A v \in 0 .. n : v = n \/ v \in 0 .. n - 1
  BY <1>1
<1> DEFINE y == Append(W[s], b)
<1>3. y \in Seq(A) /\ Len(y) = Len(W[s]) + 1 /\ Len(W[s]) \in Nat
  BY <1>1, AppendLen
<1> HIDE DEF y
<1>4. W2[n] = y /\ \A v \in 0 .. n - 1 : W2[v] = W[v]
  BY DEF y, Adds
<1>7. ASSUME NEW u \in 0 .. n, NEW v \in 0 .. n, W2[u] = W2[v] PROVE u = v
  <2>1. \A x \in 0 .. n - 1 : W[x] # y
    BY DEF y, Fresh
  <2> QED BY <1>2, <1>4, <1>7, <2>1 DEF Labels
<1>8. ASSUME NEW v \in 1 .. n PROVE \E p \in 0 .. n, c \in A : W2[v] = Append(W2[p], c)
  <2>1. CASE v = n
    BY <1>2, <1>4, <2>1 DEF y
  <2>2. CASE v # n
    <3>1. v \in 1 .. n - 1 /\ v \in 0 .. n - 1
      BY <1>1, <2>2
    <3>2. PICK p \in 0 .. n - 1, c \in A : W[v] = Append(W[p], c)
      BY <3>1 DEF Labels
    <3>3. W2[v] = Append(W2[p], c) /\ p \in 0 .. n
      BY <1>2, <1>4, <3>1, <3>2
    <3> QED BY <3>3
  <2> QED BY <2>1, <2>2
<1>9. Labels(W2, n + 1, A)
  <2> DEFINE m == n + 1
  <2>1. 0 .. m - 1 = 0 .. n /\ 1 .. m - 1 = 1 .. n /\ m \in Nat \ {0}
    BY <1>1
  <2>2. W2[0] = <<>>
    BY <1>1, <1>2, <1>4
  <2> HIDE DEF m
  <2>3. W2 \in [0 .. m - 1 -> Seq(A)]
    BY <2>1 DEF Adds
  <2>4. \A u, v \in 0 .. m - 1 : W2[u] = W2[v] => u = v
    BY <1>7, <2>1
  <2>5. \A v \in 1 .. m - 1 : \E p \in 0 .. m - 1, c \in A : W2[v] = Append(W2[p], c)
    BY <1>8, <2>1
  <2>6. Labels(W2, m, A)
    BY <2>1, <2>2, <2>3, <2>4, <2>5 DEF Labels
  <2> QED BY <2>6 DEF m
<1>10. ASSUME NEW v \in 0 .. n, NEW c \in A, W2[v] = Append(W2[n], c) PROVE FALSE
  <2>1. v # n
    BY <1>3, <1>4, <1>10, AppendLen
  <2>2. v \in 0 .. n - 1 /\ W[v] = Append(y, c)
    BY <1>2, <1>4, <1>10, <2>1
  <2>3. v # 0
    BY <1>1, <1>3, <2>2, AppendLen
  <2>4. v \in 0 .. n - 1
    BY <2>2
  <2>5. PICK p \in 0 .. n - 1, d \in A : W[v] = Append(W[p], d)
    BY <2>3, <2>4, LabelFacts
  <2>6. W[p] \in Seq(A) /\ Append(W[p], d) = Append(y, c)
    BY <1>1, <2>2, <2>5
  <2>7. W[p] = y
    BY <1>3, <2>6, AppendSame
  <2> QED BY <2>7 DEF y, Fresh
<1> QED BY <1>9, <1>10

(* A label has one parent and one last byte. *)
LEMMA OneParent ==
    ASSUME NEW W, NEW n, NEW A, Labels(W, n, A)
    PROVE  \A x, s \in 0 .. n - 1 : \A b, c \in A :
              Append(W[x], c) = Append(W[s], b) => x = s /\ c = b
<1> SUFFICES ASSUME NEW x \in 0 .. n - 1, NEW s \in 0 .. n - 1, NEW b \in A, NEW c \in A,
                    Append(W[x], c) = Append(W[s], b)
             PROVE  x = s /\ c = b
  OBVIOUS
<1>1. W[x] \in Seq(A) /\ W[s] \in Seq(A)
  BY LabelFacts
<1>2. W[x] = W[s] /\ c = b
  BY <1>1, AppendSame
<1> QED BY <1>2 DEF Labels

(* One byte of a word (the inner loop of ac_build): the state that is      *)
(* reached has the longer label, and the rest of the trie stays as it is.  *)
LEMMA ExtendFacts ==
    ASSUME NEW W, NEW A, NEW cap \in Nat, NEW t, Trie(W, A, cap, t), t.nstates < cap,
           NEW s \in 0 .. t.nstates - 1, NEW b \in A
    PROVE  \E W2 : Extended(W, A, cap, s, t, b, W2, Extend([s |-> s, t |-> t], b))
<1> DEFINE n == t.nstates
           nx == t.next
           at == Extend([s |-> s, t |-> t], b)
<1>1. /\ n \in Nat /\ n > 0 /\ n < cap /\ s \in 0 .. n - 1 /\ s \in 0 .. cap - 1
      /\ t \in Record(A, cap) /\ Labels(W, n, A)
      /\ \A x \in 0 .. n - 1 : Goto(W, n, A, nx, x)
      /\ \A x \in n .. cap - 1 : \A c \in A : nx[x][c] = 0
  BY LabelFacts DEF Trie
<1>2. nx \in [0 .. cap - 1 -> [A -> Nat]]
  BY <1>1 DEF Record
<1>3. CASE nx[s][b] # 0
  <2>1. at = [s |-> nx[s][b], t |-> t]
    BY <1>3 DEF Extend
  <2>2. at.s = nx[s][b] /\ at.t = t
    BY <2>1
  <2>3. nx[s][b] \in 0 .. n - 1 /\ W[nx[s][b]] = Append(W[s], b)
    BY <1>1, <1>3 DEF Goto
  <2>4. n <= n + 1 /\ n <= n
    BY <1>1
  <2> HIDE DEF at
  <2>5. Extended(W, A, cap, s, t, b, W, at)
    BY <2>1, <2>2, <2>3, <2>4 DEF Extended, Grown
  <2> QED BY <2>5 DEF at
<1>4. CASE nx[s][b] = 0
  <2> DEFINE t2 == [t EXCEPT !.next[s][b] = t.nstates, !.nstates = @ + 1]
             nx2 == [nx EXCEPT ![s][b] = n]
             W2 == [v \in 0 .. n |-> IF v = n THEN Append(W[s], b) ELSE W[v]]
  <2>1. at = [s |-> n, t |-> t2]
    BY <1>4 DEF Extend
  <2>2. nx2 \in [0 .. cap - 1 -> [A -> Nat]]
    BY <1>1, <1>2
  <2>3. t2.next = nx2 /\ t2.nstates = n + 1 /\ t2.out = t.out /\ t2.rout = t.rout
    BY <1>1 DEF Record
  <2>4. t2 \in Record(A, cap)
    <3>1. t2 = [t EXCEPT !.next = nx2, !.nstates = n + 1]
      OBVIOUS
    <3>2. n + 1 \in Nat
      BY <1>1
    <3> HIDE DEF nx2, t2, nx, n
    <3> QED BY <1>1, <2>2, <3>1, <3>2 DEF Record
  <2>5. /\ nx2[s][b] = n
        /\ \A x \in 0 .. cap - 1 : \A c \in A : x # s \/ c # b => nx2[x][c] = nx[x][c]
    BY <1>1, <1>2
  <2> HIDE DEF t2, nx2, at, n, nx
  <2>6. Fresh(W, n, s, b)
    BY <1>1, <1>4, GotoFresh
  <2>7. /\ Labels(W2, n + 1, A) /\ W2[n] = Append(W[s], b)
        /\ \A v \in 0 .. n - 1 : W2[v] = W[v]
        /\ \A v \in 0 .. n : \A c \in A : W2[v] # Append(W2[n], c)
    <3> DEFINE V == Seq(A)
               y == Append(W[s], b)
    <3>1. y \in V /\ \A v \in 0 .. n - 1 : W[v] \in V
      BY <1>1, LabelFacts, AppendLen
    <3>2. n \in 0 .. n /\ \A v \in 0 .. n : v = n \/ v \in 0 .. n - 1
      BY <1>1
    <3>3. \A v \in 0 .. n - 1 : v # n /\ v \in 0 .. n
      BY <1>1
    <3> HIDE DEF V, y
    <3>4. W2 = [v \in 0 .. n |-> IF v = n THEN y ELSE W[v]]
      BY DEF y
    <3> HIDE DEF W2
    <3>5. W2 \in [0 .. n -> V] /\ W2[n] = y /\ \A v \in 0 .. n - 1 : W2[v] = W[v]
      BY <3>1, <3>2, <3>3, <3>4
    <3>6. W2 \in [0 .. n -> Seq(A)] /\ W2[n] = Append(W[s], b)
      BY <3>5 DEF V, y
    <3>7. Adds(W, n, A, s, b, W2)
      BY <3>5, <3>6 DEF Adds
    <3>8. Labels(W, n, A) /\ s \in 0 .. n - 1
      BY <1>1
    <3>9. /\ Labels(W2, n + 1, A)
          /\ \A v \in 0 .. n : \A c \in A : W2[v] # Append(W2[n], c)
      BY <2>6, <3>7, <3>8, LabelsExtend
    <3> QED BY <3>5, <3>6, <3>9
  <2> HIDE DEF W2
  <2>8. /\ (n + 1) - 1 = n /\ \A x \in 0 .. n : x = n \/ x \in 0 .. n - 1
        /\ \A x \in 0 .. n : x \in 0 .. cap - 1 /\ n \in n .. cap - 1 /\ n \in 0 .. n
        /\ \A x \in (n + 1) .. cap - 1 : x \in n .. cap - 1 /\ x \in 0 .. cap - 1 /\ x # s
        /\ n # s /\ n \in 0 .. cap - 1 /\ n \in 0 .. n /\ n # 0 /\ 0 \in 0 .. n
        /\ \A x \in 0 .. n - 1 : x \in 0 .. n /\ x # n
    BY <1>1
  <2>9. ASSUME NEW x \in 0 .. n PROVE Goto(W2, n + 1, A, nx2, x)
    <3> SUFFICES ASSUME NEW c \in A
                 PROVE  /\ nx2[x][c] \in 0 .. n
                        /\ nx2[x][c] # 0 => W2[nx2[x][c]] = Append(W2[x], c)
                        /\ \A v \in 0 .. n : W2[v] = Append(W2[x], c) => nx2[x][c] = v
      BY <2>8 DEF Goto
    <3>1. CASE x = s /\ c = b
      <4>1. nx2[x][c] = n /\ W2[x] = W[s]
        BY <2>5, <2>7, <3>1, <1>1
      <4>2. \A v \in 0 .. n : W2[v] = Append(W2[x], c) => v = n
        BY <2>6, <2>7, <2>8, <3>1, <4>1 DEF Fresh
      <4> QED BY <2>7, <2>8, <3>1, <4>1, <4>2
    <3>2. CASE x = n
      <4>1. nx2[x][c] = 0
        BY <1>1, <2>5, <2>8, <3>2
      <4> QED BY <2>7, <2>8, <3>2, <4>1
    <3>3. CASE x # n /\ ~ (x = s /\ c = b)
      <4>1. x \in 0 .. n - 1 /\ nx2[x][c] = nx[x][c] /\ W2[x] = W[x]
        BY <2>5, <2>7, <2>8, <3>3
      <4>2. /\ nx[x][c] \in 0 .. n - 1
            /\ nx[x][c] # 0 => W[nx[x][c]] = Append(W[x], c)
            /\ \A v \in 0 .. n - 1 : W[v] = Append(W[x], c) => nx[x][c] = v
        BY <1>1, <4>1 DEF Goto
      <4>3. W2[n] # Append(W[x], c)
        <5>1. s \in 0 .. n - 1 /\ b \in A /\ W2[n] = Append(W[s], b) BY <1>1, <2>7
        <5>2. Append(W[x], c) = Append(W[s], b) => x = s /\ c = b
          BY <1>1, <4>1, <5>1, OneParent
        <5> QED BY <3>3, <5>1, <5>2
      <4> QED BY <2>7, <2>8, <4>1, <4>2, <4>3
    <3> QED BY <3>1, <3>2, <3>3
  <2>10. \A x \in (n + 1) .. cap - 1 : \A c \in A : nx2[x][c] = 0
    BY <1>1, <2>5, <2>8
  <2>11. Trie(W2, A, cap, t2)
    <3>1. n + 1 <= cap
      BY <1>1
    <3> QED BY <2>3, <2>4, <2>7, <2>8, <2>9, <2>10, <3>1 DEF Trie
  <2>12. Grown(W, t, W2, t2)
    <3>1. n <= n + 1
      BY <1>1
    <3> QED BY <2>3, <2>7, <3>1 DEF Grown, n
  <2>13. at.s = n /\ at.t = t2
    BY <2>1
  <2>14. Extended(W, A, cap, s, t, b, W2, at)
    <3>1. n + 1 <= n + 1 /\ n \in 0 .. (n + 1) - 1
      BY <1>1
    <3>2. at.t.nstates = n + 1 /\ t.nstates = n
      BY <2>3, <2>13 DEF n
    <3> QED BY <2>1, <2>7, <2>11, <2>12, <2>13, <3>1, <3>2 DEF Extended
  <2> QED BY <2>14 DEF at
<1> QED BY <1>3, <1>4

(* A prefix with one byte more. *)
LEMMA PrefixStep ==
    ASSUME NEW A, NEW w \in Seq(A), NEW m \in Nat, m < Len(w)
    PROVE  SubSeq(w, 1, m + 1) = Append(SubSeq(w, 1, m), w[m + 1])
<1> DEFINE x == SubSeq(w, 1, m)
           y == SubSeq(w, 1, m + 1)
           z == Append(x, w[m + 1])
<1>1. Len(w) \in Nat /\ w[m + 1] \in A /\ m + 1 \in 1 .. Len(w)
  BY LenProperties, ElementOfSeq
<1>2. /\ x \in Seq(A) /\ Len(x) = m /\ \A i \in 1 .. m : x[i] = w[i]
      /\ y \in Seq(A) /\ Len(y) = m + 1 /\ \A i \in 1 .. m + 1 : y[i] = w[i]
  BY <1>1
<1> HIDE DEF x, y
<1>3. z \in Seq(A) /\ Len(z) = m + 1 /\ z[m + 1] = w[m + 1] /\ \A i \in 1 .. m : z[i] = x[i]
  BY <1>1, <1>2, AppendProperties
<1> HIDE DEF z
<1>4. ASSUME NEW i \in 1 .. m + 1 PROVE y[i] = z[i]
  <2>1. i \in 1 .. m \/ i = m + 1
    OBVIOUS
  <2> QED BY <1>2, <1>3, <2>1
<1>5. y = z
  BY <1>2, <1>3, <1>4, SeqEqual
<1> QED BY <1>5 DEF x, y, z

(* A walk takes the bytes of its word one after the other. *)
LEMMA WalkSteps ==
    ASSUME NEW t, NEW A, NEW w \in Seq(A)
    PROVE  \E f : /\ f[0] = [s |-> 0, t |-> t] /\ Walk(t, w) = f[Len(w)]
                  /\ \A k \in Nat : k < Len(w) => f[k + 1] = Extend(f[k], w[k + 1])
<1> DEFINE n == Len(w)
           Part(m, f) == f = [k \in 0 .. m |-> IF k = 0 THEN [s |-> 0, t |-> t]
                                               ELSE Extend(f[k - 1], w[k])]
           g == CHOOSE f : Part(n, f)
           S == {m \in Nat : \E f : Part(m, f)}
<1>1. n \in Nat
  BY LenProperties
<1>2. Walk(t, w) = g[n]
  BY DEF Walk
<1> HIDE DEF n, g
<1>3. 0 \in S
  <2> DEFINE h == [k \in 0 .. 0 |-> [s |-> 0, t |-> t]]
  <2>1. \A k \in 0 .. 0 : k = 0
    OBVIOUS
  <2>2. Part(0, h)
    BY <2>1
  <2> HIDE DEF Part
  <2> QED BY <2>2
<1>4. ASSUME NEW m \in Nat, m \in S PROVE m + 1 \in S
  <2>1. PICK f : Part(m, f)
    BY <1>4
  <2> DEFINE h == [k \in 0 .. m + 1 |-> IF k = m + 1 THEN Extend(f[m], w[m + 1]) ELSE f[k]]
             h2 == [k \in 0 .. m + 1 |-> IF k = 0 THEN [s |-> 0, t |-> t]
                                         ELSE Extend(h[k - 1], w[k])]
  <2>2. /\ \A k \in 0 .. m : k \in 0 .. m + 1 /\ k # m + 1
        /\ m + 1 \in 0 .. m + 1 /\ m + 1 # 0 /\ (m + 1) - 1 = m /\ m \in 0 .. m
        /\ \A k \in 0 .. m : k # 0 => k - 1 \in 0 .. m
        /\ \A k \in 0 .. m + 1 : k = m + 1 \/ k \in 0 .. m
    OBVIOUS
  <2>3. \A k \in 0 .. m : h[k] = f[k]
    BY <2>2
  <2>4. h[m + 1] = Extend(f[m], w[m + 1])
    BY <2>2
  <2>5. \A k \in 0 .. m : f[k] = IF k = 0 THEN [s |-> 0, t |-> t] ELSE Extend(f[k - 1], w[k])
    BY <2>1
  <2>6. DOMAIN h = 0 .. m + 1 /\ h = [k \in 0 .. m + 1 |-> h[k]]
    OBVIOUS
  <2> HIDE DEF h
  <2>7. ASSUME NEW k \in 0 .. m + 1
        PROVE  h[k] = IF k = 0 THEN [s |-> 0, t |-> t] ELSE Extend(h[k - 1], w[k])
    <3>1. CASE k = m + 1
      BY <2>2, <2>3, <2>4, <3>1
    <3>2. CASE k \in 0 .. m /\ k = 0
      BY <2>3, <2>5, <3>2
    <3>3. CASE k \in 0 .. m /\ k # 0
      <4>1. k - 1 \in 0 .. m
        BY <2>2, <3>3
      <4> QED BY <2>3, <2>5, <3>3, <4>1
    <3> QED BY <2>2, <3>1, <3>2, <3>3
  <2>8. Part(m + 1, h)
    BY <2>6, <2>7
  <2> HIDE DEF Part
  <2> QED BY <2>8
<1>5. n \in S
  <2> HIDE DEF S
  <2> QED BY <1>1, <1>3, <1>4, SetInduction
<1>6. Part(n, g)
  <2> HIDE DEF Part
  <2> QED BY <1>5 DEF g
<1>7. g[0] = [s |-> 0, t |-> t]
  <2>1. 0 \in 0 .. n
    BY <1>1
  <2> QED BY <1>6, <2>1
<1>8. ASSUME NEW k \in Nat, k < n PROVE g[k + 1] = Extend(g[k], w[k + 1])
  <2>1. k + 1 \in 0 .. n /\ k + 1 # 0 /\ (k + 1) - 1 = k
    BY <1>1, <1>8
  <2> QED BY <1>6, <2>1
<1> HIDE DEF Part
<1> QED BY <1>2, <1>7, <1>8 DEF n

(* The walk of x from the root of t has reached at. *)
Reached(W, A, cap, t, x, m, W2, at) ==
    /\ Trie(W2, A, cap, at.t) /\ Grown(W, t, W2, at.t)
    /\ at = [s |-> at.s, t |-> at.t]
    /\ at.s \in 0 .. at.t.nstates - 1 /\ W2[at.s] = x
    /\ at.t.nstates <= t.nstates + m

(* A trie that has grown twice has grown. *)
LEMMA GrownTrans ==
    ASSUME NEW W, NEW t, NEW W2, NEW t2, NEW W3, NEW t3, Grown(W, t, W2, t2),
           Grown(W2, t2, W3, t3), t.nstates \in Nat, t2.nstates \in Nat, t3.nstates \in Nat
    PROVE  Grown(W, t, W3, t3)
<1>1. t.nstates <= t3.nstates /\ \A v \in 0 .. t.nstates - 1 : v \in 0 .. t2.nstates - 1
  BY DEF Grown
<1> QED BY <1>1 DEF Grown

(* A byte more of a word creates one state at most. *)
LEMMA ReachedStep ==
    ASSUME NEW W, NEW A, NEW cap \in Nat, NEW t, NEW x, NEW m \in Nat, NEW W2, NEW at,
           Reached(W, A, cap, t, x, m, W2, at), t.nstates \in Nat,
           t.nstates + m < cap, NEW b \in A
    PROVE  \E W3 : Reached(W, A, cap, t, Append(x, b), m + 1, W3, Extend(at, b))
<1> DEFINE s == at.s
           u == at.t
           at2 == Extend(at, b)
<1>1. /\ Trie(W2, A, cap, u) /\ Grown(W, t, W2, u) /\ at = [s |-> s, t |-> u]
      /\ s \in 0 .. u.nstates - 1 /\ W2[s] = x /\ u.nstates <= t.nstates + m
  BY DEF Reached
<1> HIDE DEF s, u, at2
<1>2. u.nstates \in Nat /\ u.nstates < cap
  BY <1>1, LabelFacts DEF Trie
<1>3. PICK W3 : Extended(W2, A, cap, s, u, b, W3, Extend([s |-> s, t |-> u], b))
  BY <1>1, <1>2, ExtendFacts
<1>4. Extended(W2, A, cap, s, u, b, W3, at2)
  BY <1>1, <1>3 DEF at2
<1>5. /\ Trie(W3, A, cap, at2.t) /\ Grown(W2, u, W3, at2.t)
      /\ at2 = [s |-> at2.s, t |-> at2.t]
      /\ at2.s \in 0 .. at2.t.nstates - 1 /\ W3[at2.s] = Append(x, b)
      /\ at2.t.nstates <= u.nstates + 1
  BY <1>1, <1>4 DEF Extended
<1>6. at2.t.nstates \in Nat
  BY <1>5, LabelFacts DEF Trie
<1>7. at2.t.nstates <= t.nstates + (m + 1)
  <2>1. u.nstates <= t.nstates + m /\ at2.t.nstates <= u.nstates + 1
    BY <1>1, <1>5
  <2> QED BY <1>2, <1>6, <2>1
<1>8. Grown(W, t, W3, at2.t)
  BY <1>1, <1>2, <1>5, <1>6, GrownTrans
<1>9. Reached(W, A, cap, t, Append(x, b), m + 1, W3, at2)
  BY <1>5, <1>7, <1>8 DEF Reached
<1> QED BY <1>9 DEF at2

(* A whole word: Walk ends in the state with that word as its label. *)
LEMMA WalkFacts ==
    ASSUME NEW W, NEW A, NEW cap \in Nat, NEW t, Trie(W, A, cap, t), NEW w \in Seq(A),
           t.nstates + Len(w) <= cap
    PROVE  \E W2 : Reached(W, A, cap, t, w, Len(w), W2, Walk(t, w))
<1> DEFINE n == Len(w)
<1>1. n \in Nat /\ t.nstates \in Nat /\ t.nstates > 0 /\ 0 \in 0 .. t.nstates - 1 /\ W[0] = <<>>
  BY LenProperties, LabelFacts DEF Trie
<1>2. PICK f : /\ f[0] = [s |-> 0, t |-> t] /\ Walk(t, w) = f[n]
               /\ \A k \in Nat : k < n => f[k + 1] = Extend(f[k], w[k + 1])
  BY WalkSteps
<1> DEFINE At(m, W2) == Reached(W, A, cap, t, SubSeq(w, 1, m), m, W2, f[m])
           S == {m \in Nat : m <= n => \E W2 : At(m, W2)}
<1>3. 0 \in S
  <2>1. SubSeq(w, 1, 0) = <<>>
    BY SubSeqEmpty
  <2>2. f[0].s = 0 /\ f[0].t = t
    BY <1>2
  <2>3. t.nstates <= t.nstates + 0 /\ t.nstates <= t.nstates
    BY <1>1
  <2>4. At(0, W)
    BY <1>1, <1>2, <2>1, <2>2, <2>3 DEF Reached, Grown
  <2> HIDE DEF At
  <2> QED BY <2>4
<1>4. ASSUME NEW m \in Nat, m \in S PROVE m + 1 \in S
  <2> SUFFICES ASSUME m + 1 <= n PROVE \E W2 : At(m + 1, W2)
    OBVIOUS
  <2>1. m < n /\ m <= n /\ t.nstates + m < cap /\ m + 1 \in 1 .. n
    BY <1>1
  <2>2. PICK W2 : At(m, W2)
    BY <1>4, <2>1
  <2> DEFINE b == w[m + 1]
             x == SubSeq(w, 1, m)
             at == f[m]
  <2>3. b \in A /\ f[m + 1] = Extend(at, b) /\ SubSeq(w, 1, m + 1) = Append(x, b)
    BY <1>2, <2>1, PrefixStep, ElementOfSeq
  <2>4. Reached(W, A, cap, t, x, m, W2, at)
    BY <2>2
  <2> HIDE DEF b, x, at, n
  <2>5. \E W3 : Reached(W, A, cap, t, Append(x, b), m + 1, W3, Extend(at, b))
    BY <1>1, <2>1, <2>3, <2>4, ReachedStep
  <2> QED BY <2>3, <2>5
<1>5. n \in S
  <2> HIDE DEF S, n
  <2> QED BY <1>1, <1>3, <1>4, SetInduction
<1>6. SubSeq(w, 1, n) = w
  BY SubSeqFull
<1> HIDE DEF n
<1>7. PICK W2 : At(n, W2)
  BY <1>1, <1>5
<1>8. Reached(W, A, cap, t, w, n, W2, Walk(t, w))
  BY <1>2, <1>6, <1>7
<1> QED BY <1>8 DEF n

----------------------------------------------------------------------------
(* The outputs of the trie                                                 *)

(* Each of the first d words is a label, and o holds what they say.        *)
SpeltTo(W, n, ww, d) == \A j \in 1 .. d : \E v \in 0 .. n - 1 : W[v] = ww[j]

(* o is what the first d words accept at each state; nothing where there   *)
(* is no state.                                                            *)
Says(W, n, cap, ww, oo, d, o) ==
    /\ \A v \in 0 .. n - 1 : o[v] = OwnOf(ww, oo, d, W[v])
    /\ \A v \in n .. cap - 1 : o[v] = {}

(* What the word d + 1 adds to its own state. *)
Gains(ww, oo, d) ==
    OwnOf(ww, oo, d + 1, ww[d + 1]) = OwnOf(ww, oo, d, ww[d + 1]) \cup oo[d + 1]

(* One word more adds its output to its own state, *)
LEMMA OwnNew ==
    ASSUME NEW ww, NEW oo, NEW d \in Nat PROVE Gains(ww, oo, d)
<1>1. 1 .. d + 1 = (1 .. d) \cup {d + 1}
  OBVIOUS
<1> QED BY <1>1 DEF OwnOf, Gains

(* and to no other. *)
LEMMA OwnOther ==
    ASSUME NEW ww, NEW oo, NEW d \in Nat, NEW x, ww[d + 1] # x
    PROVE  OwnOf(ww, oo, d + 1, x) = OwnOf(ww, oo, d, x)
<1>1. 1 .. d + 1 = (1 .. d) \cup {d + 1}
  OBVIOUS
<1> QED BY <1>1 DEF OwnOf

(* More is accepted at the state e. *)
Accepts(o, e, more, o2) == o2 = [o EXCEPT ![e] = @ \cup more]

(* Inserting the word d + 1 adds its output where its label is. *)
LEMMA InsertSays ==
    ASSUME NEW A, NEW W, NEW n \in Nat, NEW W2, NEW n2, Labels(W2, n2, A), n <= n2,
           NEW cap \in Nat, n2 <= cap, \A v \in 0 .. n - 1 : W2[v] = W[v],
           NEW ww, NEW oo, NEW d \in Nat, SpeltTo(W, n, ww, d),
           NEW o, DOMAIN o = 0 .. cap - 1, Says(W, n, cap, ww, oo, d, o),
           NEW e \in 0 .. n2 - 1, W2[e] = ww[d + 1],
           NEW o2, Accepts(o, e, oo[d + 1], o2)
    PROVE  SpeltTo(W2, n2, ww, d + 1) /\ Says(W2, n2, cap, ww, oo, d + 1, o2)
<1>1. /\ n2 \in Nat /\ \A v \in 0 .. n2 - 1 : v \in 0 .. n - 1 \/ v \in n .. cap - 1
      /\ \A v \in n2 .. cap - 1 : v \in n .. cap - 1 /\ v # e /\ v \in 0 .. cap - 1
      /\ \A v \in 0 .. n - 1 : v \in 0 .. n2 - 1 /\ v \notin n .. cap - 1
      /\ \A v \in 0 .. n2 - 1 : v \in 0 .. cap - 1
  BY LabelFacts
<1>2. \A u, v \in 0 .. n2 - 1 : W2[u] = W2[v] => u = v
  BY DEF Labels
<1>3. ASSUME NEW v \in 0 .. n2 - 1 PROVE o[v] = OwnOf(ww, oo, d, W2[v])
  <2>1. CASE v \in 0 .. n - 1
    BY <2>1 DEF Says
  <2>2. CASE v \in n .. cap - 1
    <3>1. ASSUME NEW j \in 1 .. d PROVE ww[j] # W2[v]
      <4>1. PICK u \in 0 .. n - 1 : W[u] = ww[j]
        BY DEF SpeltTo
      <4>2. W2[u] = ww[j] /\ u \in 0 .. n2 - 1 /\ u # v
        BY <1>1, <2>2, <4>1
      <4> QED BY <1>2, <4>2
    <3>2. OwnOf(ww, oo, d, W2[v]) = {}
      BY <3>1 DEF OwnOf
    <3> QED BY <2>2, <3>2 DEF Says
  <2> QED BY <1>1, <2>1, <2>2
<1>4. /\ o2[e] = o[e] \cup oo[d + 1]
      /\ \A v \in 0 .. cap - 1 : v # e => o2[v] = o[v]
  BY <1>1 DEF Accepts
<1>5. ASSUME NEW v \in 0 .. n2 - 1 PROVE o2[v] = OwnOf(ww, oo, d + 1, W2[v])
  <2>1. CASE v = e
    <3>1. Gains(ww, oo, d) BY OwnNew
    <3>2. o2[e] = o[e] \cup oo[d + 1] BY <1>4
    <3>3. o[e] = OwnOf(ww, oo, d, W2[e]) BY <1>3
    <3> QED BY <2>1, <3>1, <3>2, <3>3 DEF Gains
  <2>2. CASE v # e
    <3>1. ww[d + 1] # W2[v]
      BY <1>2, <2>2
    <3>2. OwnOf(ww, oo, d + 1, W2[v]) = OwnOf(ww, oo, d, W2[v])
      BY <3>1, OwnOther
    <3> QED BY <1>1, <1>3, <1>4, <2>2, <3>2
  <2> QED BY <2>1, <2>2
<1>6. \A v \in n2 .. cap - 1 : o2[v] = {}
  BY <1>1, <1>4 DEF Says
<1>7. ASSUME NEW j \in 1 .. d + 1 PROVE \E v \in 0 .. n2 - 1 : W2[v] = ww[j]
  <2>1. CASE j = d + 1
    BY <2>1
  <2>2. CASE j # d + 1
    <3>1. j \in 1 .. d
      BY <2>2
    <3> QED BY <1>1, <3>1 DEF SpeltTo
  <2> QED BY <2>1, <2>2
<1> QED BY <1>5, <1>6, <1>7 DEF SpeltTo, Says

(* What an automaton is built from: the bytes, the words, their lengths,   *)
(* what each says, and the number of states that is allocated.             *)
Given(f) == [bytes |-> Alphabet, words |-> Spellings(f), lens |-> Lengths(Words(f)),
             outs |-> Outs(f), routs |-> Routs(f), cap |-> Cap(f)]

(* The words are not empty and made of the bytes, and cap is the size that *)
(* ac_build allocates for them.                                            *)
Sound(g) ==
    /\ g.lens \in Seq(Nat) /\ DOMAIN g.words = 1 .. Len(g.lens)
    /\ g.cap = 1 + SumTo(g.lens, Len(g.lens))
    /\ \A k \in 1 .. Len(g.lens) :
          /\ g.words[k] \in Seq(g.bytes) /\ g.words[k] # <<>> /\ Len(g.words[k]) = g.lens[k]
          /\ g.outs[k] \subseteq Categories /\ g.routs[k] \subseteq Nat \X Nat

(* The tables give each flavour sound words. *)
LEMMA GivenSound ==
    ASSUME tab \in Tables, NEW f
    PROVE  /\ Sound(Given(f)) /\ Given(f).bytes = Alphabet /\ Given(f).cap = Cap(f)
           /\ Len(Given(f).lens) = Len(Words(f))
  <1>1. /\ Len(Words(f)) \in Nat /\ DOMAIN Words(f) = 1 .. Len(Words(f))
        /\ \A k \in 1 .. Len(Words(f)) : Words(f)[k] \in Word
    BY WordsFacts
  <1>2. \A k \in 1 .. Len(Words(f)) :
           /\ Words(f)[k].w \in Seq(Alphabet) /\ Words(f)[k].w # <<>>
           /\ Words(f)[k].out \subseteq Categories /\ Words(f)[k].rout \subseteq Nat \X Nat
    BY <1>1 DEF Word, NonEmpty
  <1>3. \A k \in 1 .. Len(Words(f)) : Len(Words(f)[k].w) \in Nat
    BY <1>2, LenProperties
  <1>4. /\ Lengths(Words(f)) \in Seq(Nat) /\ Len(Lengths(Words(f))) = Len(Words(f))
        /\ \A k \in 1 .. Len(Words(f)) : Lengths(Words(f))[k] = Len(Words(f)[k].w)
    BY <1>1, <1>3, LenIs DEF Lengths
  <1>5. Cap(f) = 1 + SumTo(Lengths(Words(f)), Len(Lengths(Words(f))))
    BY <1>4 DEF Cap
  <1>6. /\ DOMAIN Spellings(f) = 1 .. Len(Words(f))
        /\ \A k \in 1 .. Len(Words(f)) : /\ Spellings(f)[k] = Words(f)[k].w
                                         /\ Outs(f)[k] = Words(f)[k].out
                                         /\ Routs(f)[k] = Words(f)[k].rout
    BY <1>1 DEF Spellings, Outs, Routs
  <1> DEFINE g == Given(f)
  <1>7. /\ g.bytes = Alphabet /\ g.words = Spellings(f) /\ g.lens = Lengths(Words(f))
        /\ g.outs = Outs(f) /\ g.routs = Routs(f) /\ g.cap = Cap(f)
    BY DEF Given
  <1> HIDE DEF g
  <1>8. /\ g.lens \in Seq(Nat) /\ Len(g.lens) = Len(Words(f))
        /\ DOMAIN g.words = 1 .. Len(g.lens) /\ g.cap = 1 + SumTo(g.lens, Len(g.lens))
    BY <1>4, <1>5, <1>6, <1>7
  <1>9. ASSUME NEW k \in 1 .. Len(g.lens)
        PROVE  /\ g.words[k] \in Seq(g.bytes) /\ g.words[k] # <<>>
               /\ Len(g.words[k]) = g.lens[k]
               /\ g.outs[k] \subseteq Categories /\ g.routs[k] \subseteq Nat \X Nat
    <2>1. k \in 1 .. Len(Words(f)) BY <1>8
    <2> QED BY <1>2, <1>4, <1>6, <1>7, <2>1
  <1>10. Sound(g) BY <1>8, <1>9 DEF Sound
  <1> QED BY <1>7, <1>8, <1>10 DEF g

(* The words change with the tables only. *)
LEMMA GivenSame ==
    ASSUME tab' = tab
    PROVE  /\ Alphabet' = Alphabet /\ \A f : Words(f)' = Words(f)
           /\ \A f : Given(f)' = Given(f) /\ Cap(f)' = Cap(f)
  <1>1. Alphabet' = Alphabet BY DEF Alphabet, Bytes
  <1>2. \A f : Words(f)' = Words(f) BY DEF Words, SigWords, TermWords, NCATEGORIES
  <1>3. \A f : Cap(f)' = Cap(f) BY <1>2 DEF Cap
  <1>4. \A f : Given(f)' = Given(f)
    BY <1>1, <1>2, <1>3 DEF Given, Spellings, Outs, Routs
  <1> QED BY <1>1, <1>2, <1>3, <1>4

----------------------------------------------------------------------------
(* Inserting the words                                                     *)

(* t is the trie of the first d words of g. *)
TrieAt(W, g, d, t) ==
    /\ Trie(W, g.bytes, g.cap, t) /\ d \in 0 .. Len(g.lens)
    /\ t.nstates <= 1 + SumTo(g.lens, d)
    /\ SpeltTo(W, t.nstates, g.words, d)
    /\ Says(W, t.nstates, g.cap, g.words, g.outs, d, t.out)
    /\ Says(W, t.nstates, g.cap, g.words, g.routs, d, t.rout)

(* The arrays as ac_build clears them. *)
Blank(g) == [next |-> [s \in 0 .. g.cap - 1 |-> [b \in g.bytes |-> 0]],
             out |-> [s \in 0 .. g.cap - 1 |-> {}],
             rout |-> [s \in 0 .. g.cap - 1 |-> {}], nstates |-> 1]

(* The root alone is the trie of no words. *)
LEMMA TrieEmpty ==
    ASSUME NEW g, Sound(g)
    PROVE  \E W : TrieAt(W, g, 0, Blank(g))
  <1> DEFINE t == Blank(g)
  <1> DEFINE A == g.bytes
             cap == g.cap
             W == [v \in 0 .. 0 |-> <<>>]
             e == <<>>
  <1>1. /\ cap \in Nat /\ cap >= 1 /\ SumTo(g.lens, 0) = 0 /\ Len(g.lens) \in Nat
    <2>1. /\ g.lens \in Seq(Nat) /\ cap = 1 + SumTo(g.lens, Len(g.lens)) BY DEF Sound
    <2>2. Len(g.lens) \in Nat BY <2>1, LenProperties
    <2> HIDE DEF cap
    <2>3. SumTo(g.lens, 0) = 0 /\ SumTo(g.lens, Len(g.lens)) \in Nat BY <2>1, <2>2, SumSteps
    <2> QED BY <2>1, <2>2, <2>3
  <1>2. e \in Seq(A) /\ Len(e) = 0 BY EmptySeq
  <1>3. \A b \in A : Append(e, b) # e BY <1>2, AppendLen
  <1> HIDE DEF A, cap, e
  <1>4. W = [v \in 0 .. 0 |-> e] BY DEF e
  <1>5. W \in [0 .. 0 -> Seq(A)] /\ W[0] = e BY <1>2, <1>4
  <1> HIDE DEF W
  <1>6. Labels(W, 1, A) BY <1>5 DEF Labels, e
  <1>7. t \in Record(A, cap) /\ t.nstates = 1 /\ t.next = [s \in 0 .. cap - 1 |-> [b \in A |-> 0]]
        /\ t.out = [s \in 0 .. cap - 1 |-> {}] /\ t.rout = [s \in 0 .. cap - 1 |-> {}]
    BY DEF Record, A, cap, Blank
  <1> HIDE DEF t
  <1>71. \A s \in 0 .. cap - 1 : /\ t.out[s] = {} /\ t.rout[s] = {}
                                  /\ \A b \in A : t.next[s][b] = 0
    BY <1>7
  <1>72. 1 - 1 = 0 /\ 0 \in 0 .. 0 /\ 0 \in 0 .. cap - 1 /\ \A v \in 0 .. 0 : v = 0
    BY <1>1
  <1>73. \A v \in 1 .. cap - 1 : v \in 0 .. cap - 1 BY <1>1
  <1>8. Goto(W, 1, A, t.next, 0)
    BY <1>3, <1>5, <1>71, <1>72 DEF Goto
  <1>9. Trie(W, A, cap, t)
    BY <1>1, <1>6, <1>7, <1>8, <1>71, <1>72, <1>73 DEF Trie
  <1>10. \A oo : OwnOf(g.words, oo, 0, e) = {} BY DEF OwnOf
  <1>11. /\ Says(W, 1, cap, g.words, g.outs, 0, t.out)
         /\ Says(W, 1, cap, g.words, g.routs, 0, t.rout)
    BY <1>5, <1>10, <1>71, <1>72, <1>73 DEF Says
  <1>12. SpeltTo(W, 1, g.words, 0) BY DEF SpeltTo
  <1> QED BY <1>1, <1>7, <1>9, <1>11, <1>12 DEF TrieAt, A, cap, t

(* Inserting a word keeps the trie: the step of the first phase. *)
LEMMA TrieInsert ==
    ASSUME NEW g, Sound(g), NEW d, d < Len(g.lens), NEW t, NEW W, TrieAt(W, g, d, t),
           NEW at, at = Walk(t, g.words[d + 1]), NEW t2,
           t2 = [at.t EXCEPT !.out[at.s] = @ \cup g.outs[d + 1],
                             !.rout[at.s] = @ \cup g.routs[d + 1]]
    PROVE  \E W2 : TrieAt(W2, g, d + 1, t2)
  <1> DEFINE A == g.bytes
             cap == g.cap
             w == g.words[d + 1]
             m == Len(w)
  <1>1. /\ Trie(W, A, cap, t) /\ d \in 0 .. Len(g.lens) /\ t.nstates <= 1 + SumTo(g.lens, d)
        /\ SpeltTo(W, t.nstates, g.words, d)
        /\ Says(W, t.nstates, cap, g.words, g.outs, d, t.out)
        /\ Says(W, t.nstates, cap, g.words, g.routs, d, t.rout)
    BY DEF TrieAt
  <1>2. /\ g.lens \in Seq(Nat) /\ Len(g.lens) \in Nat /\ cap = 1 + SumTo(g.lens, Len(g.lens))
    BY LenProperties DEF Sound
  <1>3. d \in Nat /\ d + 1 \in 1 .. Len(g.lens) /\ d + 1 \in 0 .. Len(g.lens)
    BY <1>1, <1>2
  <1>4. /\ w \in Seq(A) /\ m = g.lens[d + 1]
        /\ g.outs[d + 1] \subseteq Categories /\ g.routs[d + 1] \subseteq Nat \X Nat
    BY <1>3 DEF Sound
  <1> HIDE DEF A, cap, w, m
  <1>5. /\ SumTo(g.lens, d + 1) = SumTo(g.lens, d) + m
        /\ SumTo(g.lens, d + 1) <= SumTo(g.lens, Len(g.lens))
        /\ SumTo(g.lens, d) \in Nat /\ SumTo(g.lens, d + 1) \in Nat
        /\ SumTo(g.lens, Len(g.lens)) \in Nat
    <2>1. d \in 0 .. Len(g.lens) /\ Len(g.lens) \in 0 .. Len(g.lens) BY <1>1, <1>2
    <2> QED BY <1>2, <1>3, <1>4, <2>1, SumSteps
  <1>6. m \in Nat /\ t.nstates \in Nat /\ t.nstates >= 1
    BY <1>1, <1>4, LenProperties, LabelFacts DEF m, Trie
  <1>7. cap \in Nat /\ t.nstates + m <= cap
    <2>1. t.nstates <= 1 + SumTo(g.lens, d) BY <1>1
    <2>2. cap = 1 + SumTo(g.lens, Len(g.lens)) BY <1>2
    <2> QED BY <1>5, <1>6, <2>1, <2>2
  <1>8. PICK W2 : Reached(W, A, cap, t, w, m, W2, Walk(t, w))
    BY <1>1, <1>4, <1>7, WalkFacts DEF m
  <1>9. Reached(W, A, cap, t, w, m, W2, at) BY <1>8 DEF w
  <1> DEFINE u == at.t
             e == at.s
             n2 == u.nstates
             o2 == [u.out EXCEPT ![e] = @ \cup g.outs[d + 1]]
             r2 == [u.rout EXCEPT ![e] = @ \cup g.routs[d + 1]]
  <1>10. /\ Trie(W2, A, cap, u) /\ Grown(W, t, W2, u)
         /\ e \in 0 .. n2 - 1 /\ W2[e] = w /\ n2 <= t.nstates + m
    BY <1>9 DEF Reached
  <1>11. /\ t.nstates <= n2 /\ \A v \in 0 .. t.nstates - 1 : W2[v] = W[v]
         /\ u.out = t.out /\ u.rout = t.rout
    BY <1>10 DEF Grown
  <1>12. /\ Labels(W2, n2, A) /\ u \in Record(A, cap) /\ n2 <= cap /\ n2 \in Nat
         /\ \A s \in 0 .. n2 - 1 : Goto(W2, n2, A, u.next, s)
         /\ \A s \in n2 .. cap - 1 : \A b \in A : u.next[s][b] = 0
    BY <1>10, LabelFacts DEF Trie
  <1>13. t2 = [u EXCEPT !.out = o2, !.rout = r2] 
    BY <1>12 DEF Record
  <1>14. e \in 0 .. cap - 1
    <2>1. e \in 0 .. n2 - 1 /\ n2 \in Nat /\ n2 <= cap BY <1>10, <1>12
    <2> QED BY <1>7, <2>1
  <1>15. /\ u.out \in [0 .. cap - 1 -> SUBSET Categories]
         /\ u.rout \in [0 .. cap - 1 -> SUBSET (Nat \X Nat)]
    BY <1>12 DEF Record
  <1>16. /\ Accepts(t.out, e, g.outs[d + 1], o2) /\ Accepts(t.rout, e, g.routs[d + 1], r2)
    BY <1>11 DEF Accepts
  <1>17. o2 \in [0 .. cap - 1 -> SUBSET Categories] BY <1>4, <1>14, <1>15
  <1>18. r2 \in [0 .. cap - 1 -> SUBSET (Nat \X Nat)] BY <1>4, <1>14, <1>15
  <1>19. DOMAIN t.out = 0 .. cap - 1 /\ DOMAIN t.rout = 0 .. cap - 1 BY <1>11, <1>15
  <1> HIDE DEF o2, r2
  <1>20. /\ t2 \in Record(A, cap) /\ t2.nstates = n2 /\ t2.next = u.next
         /\ t2.out = o2 /\ t2.rout = r2
    BY <1>12, <1>13, <1>17, <1>18 DEF Record
  <1> HIDE DEF u, e, n2
  <1>21. Trie(W2, A, cap, t2) BY <1>12, <1>20 DEF Trie
  <1>22. W2[e] = g.words[d + 1] BY <1>10 DEF w
  <1>23. SpeltTo(W2, n2, g.words, d + 1) /\ Says(W2, n2, cap, g.words, g.outs, d + 1, o2)
    BY <1>1, <1>3, <1>6, <1>7, <1>10, <1>11, <1>12, <1>16, <1>19, <1>22, InsertSays
  <1>24. Says(W2, n2, cap, g.words, g.routs, d + 1, r2)
    BY <1>1, <1>3, <1>6, <1>7, <1>10, <1>11, <1>12, <1>16, <1>19, <1>22, InsertSays
  <1>25. n2 <= 1 + SumTo(g.lens, d + 1)
    BY <1>1, <1>5, <1>6, <1>10, <1>12
  <1> QED BY <1>3, <1>20, <1>21, <1>23, <1>24, <1>25 DEF TrieAt, A, cap

----------------------------------------------------------------------------
(* The breadth-first pass                                                  *)

(* The states that have left queue q when its head is h, and the root. *)
Left(q, h) == {0} \cup {q[i] : i \in 1 .. h - 1}

(* k holds the children of s. *)
ChildrenOf(W, n, A, s, k) ==
    /\ k \in Seq(1 .. n - 1) /\ Distinct(k)
    /\ \A v \in 1 .. n - 1 : v \in ToSet(k) <=> \E b \in A : W[v] = Append(W[s], b)

(* The queue is in the order of depth. *)
Sorted(W, q) == \A i, j \in 1 .. Len(q) : i <= j => Len(W[q[i]]) <= Len(W[q[j]])

(* The queue spans two levels of the trie at most, those of its head and   *)
(* of the next.                                                            *)
Spans(W, q, h) == h <= Len(q) => \A i \in 1 .. Len(q) : Len(W[q[i]]) <= Len(W[q[h]]) + 1

(* What has been queued is the children of what has left the queue. *)
Holds(W, n, A, q, h) ==
    \A v \in 1 .. n - 1 : v \in ToSet(q) <=>
       \E p \in 0 .. n - 1, b \in A : p \in Left(q, h) /\ W[v] = Append(W[p], b)

(* The order of the breadth-first pass. *)
Order(W, n, A, q, h) ==
    /\ q \in Seq(1 .. n - 1) /\ Distinct(q) /\ h \in 1 .. Len(q) + 1
    /\ Sorted(W, q) /\ Spans(W, q, h) /\ Holds(W, n, A, q, h)

(* What Order says, in the form that is cited. *)
LEMMA QueueFacts ==
    ASSUME NEW W, NEW n, NEW A, Labels(W, n, A), NEW q, NEW h, Order(W, n, A, q, h)
    PROVE  /\ Len(q) \in Nat /\ DOMAIN q = 1 .. Len(q) /\ h \in Nat /\ h >= 1
           /\ h <= Len(q) + 1
           /\ \A i \in 1 .. Len(q) : q[i] \in 1 .. n - 1 /\ q[i] \in 0 .. n - 1 /\ q[i] # 0
                                     /\ Len(W[q[i]]) \in Nat /\ q[i] \in ToSet(q)
           /\ \A v : v \in ToSet(q) <=> \E i \in 1 .. Len(q) : v = q[i]
           /\ Left(q, h) \subseteq 0 .. n - 1
           /\ \A v \in 0 .. n - 1 : v = 0 \/ v \in 1 .. n - 1
  <1>1. q \in Seq(1 .. n - 1) /\ h \in 1 .. Len(q) + 1 BY DEF Order
  <1>2. Len(q) \in Nat /\ DOMAIN q = 1 .. Len(q) /\ \A i \in 1 .. Len(q) : q[i] \in 1 .. n - 1
    BY <1>1, LenProperties, ElementOfSeq
  <1>3. n \in Nat /\ n > 0 /\ \A v \in 0 .. n - 1 : Len(W[v]) \in Nat BY LabelFacts
  <1>4. \A v \in 1 .. n - 1 : v \in 0 .. n - 1 /\ v # 0 BY <1>3
  <1>5. \A v : v \in ToSet(q) <=> \E i \in 1 .. Len(q) : v = q[i] BY <1>2 DEF ToSet
  <1>6. h \in Nat /\ h >= 1 /\ h <= Len(q) + 1 /\ \A i \in 1 .. h - 1 : i \in 1 .. Len(q)
    BY <1>1, <1>2
  <1>7. Left(q, h) \subseteq 0 .. n - 1 BY <1>2, <1>3, <1>4, <1>6 DEF Left
  <1>8. \A v \in 0 .. n - 1 : v = 0 \/ v \in 1 .. n - 1 BY <1>3
  <1> QED BY <1>2, <1>3, <1>4, <1>5, <1>6, <1>7, <1>8

(* Something no deeper than a state that has not left is still queued. *)
Waits(W, q, h, v) == \E i \in 1 .. Len(q) : h <= i /\ Len(W[q[i]]) <= Len(W[v])

(* A state that has not left has itself or an ancestor in the queue. *)
LEMMA NotLeft ==
    ASSUME NEW W, NEW n, NEW A, Labels(W, n, A), NEW q, NEW h, Order(W, n, A, q, h)
    PROVE  \A v \in 0 .. n - 1 : v \notin Left(q, h) => Waits(W, q, h, v)
  <1> DEFINE P(k) == \A v \in 0 .. n - 1 :
                        Len(W[v]) = k /\ v \notin Left(q, h) => Waits(W, q, h, v)
             S == {k \in Nat : P(k)}
  <1>1. ASSUME NEW v \in 0 .. n - 1, v \notin Left(q, h)
        PROVE  \/ Waits(W, q, h, v)
               \/ \E p \in 0 .. n - 1 : /\ Len(W[v]) = Len(W[p]) + 1
                                        /\ p \notin Left(q, h)
    <2>1. v # 0 BY <1>1 DEF Left
    <2>2. PICK p \in 0 .. n - 1, b \in A : W[v] = Append(W[p], b)
      BY <1>1, <2>1, LabelFacts
    <2>3. Len(W[v]) = Len(W[p]) + 1 /\ Len(W[v]) \in Nat BY <2>2, LabelFacts, AppendLen
    <2>4. CASE p \in Left(q, h)
      <3>1. v \in ToSet(q) BY <1>1, <2>1, <2>2, <2>4, QueueFacts DEF Order, Holds
      <3>2. PICK i \in 1 .. Len(q) : v = q[i] BY <3>1, QueueFacts
      <3>3. i \notin 1 .. h - 1 BY <1>1, <3>2 DEF Left
      <3>4. h <= i BY <3>3, QueueFacts
      <3> QED BY <2>3, <3>2, <3>4 DEF Waits
    <2> QED BY <2>3, <2>4
  <1>2. \A v \in 0 .. n - 1 : Len(W[v]) \in Nat BY LabelFacts
  <1>3. 0 \in S
    <2>1. \A p \in 0 .. n - 1 : Len(W[p]) + 1 # 0 BY <1>2
    <2> QED BY <1>1, <2>1
  <1>4. ASSUME NEW k \in S PROVE k + 1 \in S
    <2>1. k \in Nat /\ k + 1 \in Nat OBVIOUS
    <2>2. SUFFICES ASSUME NEW v \in 0 .. n - 1, Len(W[v]) = k + 1, v \notin Left(q, h)
                   PROVE  Waits(W, q, h, v)
      BY <2>1
    <2>3. SUFFICES ASSUME NEW p \in 0 .. n - 1, Len(W[v]) = Len(W[p]) + 1,
                          p \notin Left(q, h)
                   PROVE  Waits(W, q, h, v)
      BY <1>1, <2>2
    <2>4. Len(W[p]) = k BY <1>2, <2>1, <2>2, <2>3
    <2>5. Waits(W, q, h, p) BY <1>4, <2>3, <2>4
    <2>6. \A i \in 1 .. Len(q) : Len(W[q[i]]) \in Nat BY QueueFacts
    <2> QED BY <2>1, <2>2, <2>4, <2>5, <2>6 DEF Waits
  <1> HIDE DEF S
  <1>5. Nat \subseteq S BY <1>3, <1>4, SetInduction
  <1> QED BY <1>2, <1>5 DEF S

(* When the queue is empty everything has left it. *)
LEMMA AllLeft ==
    ASSUME NEW W, NEW n, NEW A, Labels(W, n, A), NEW q, NEW h, Order(W, n, A, q, h),
           h > Len(q)
    PROVE  \A v \in 0 .. n - 1 : v \in Left(q, h)
  <1>1. h \in Nat /\ Len(q) \in Nat BY QueueFacts
  <1>2. \A i \in 1 .. Len(q) : ~ h <= i BY <1>1
  <1>3. \A v : ~ Waits(W, q, h, v) BY <1>2 DEF Waits
  <1> QED BY <1>3, NotLeft

(* What is not as deep as its head has left it, and what is no deeper has  *)
(* been queued.                                                            *)
LEMMA Shallow ==
    ASSUME NEW W, NEW n, NEW A, Labels(W, n, A), NEW q, NEW h, Order(W, n, A, q, h),
           h <= Len(q)
    PROVE  /\ q[h] \in 0 .. n - 1 /\ q[h] \notin Left(q, h) /\ q[h] \in ToSet(q)
           /\ \A v \in 0 .. n - 1 : Len(W[v]) < Len(W[q[h]]) => v \in Left(q, h)
           /\ \A v \in 0 .. n - 1 : Len(W[v]) <= Len(W[q[h]]) => v = 0 \/ v \in ToSet(q)
  <1>1. h \in 1 .. Len(q) BY QueueFacts
  <1>2. q[h] \in 0 .. n - 1 /\ q[h] \in ToSet(q) /\ q[h] # 0 BY <1>1, QueueFacts
  <1>3. q[h] \notin Left(q, h)
    <2>1. \A i \in 1 .. h - 1 : i # h /\ i \in DOMAIN q BY <1>1, QueueFacts
    <2>2. h \in DOMAIN q BY <1>1, QueueFacts
    <2> QED BY <1>2, <2>1, <2>2 DEF Left, Order, Distinct
  <1>4. ASSUME NEW v \in 0 .. n - 1, Len(W[v]) < Len(W[q[h]]), v \notin Left(q, h)
        PROVE  FALSE
    <2>1. PICK i \in 1 .. Len(q) : h <= i /\ Len(W[q[i]]) <= Len(W[v])
      BY <1>4, NotLeft DEF Waits
    <2>2. Len(W[q[h]]) <= Len(W[q[i]]) BY <1>1, <2>1 DEF Order, Sorted
    <2>3. Len(W[q[i]]) \in Nat /\ Len(W[q[h]]) \in Nat BY <1>1, <2>1, QueueFacts
    <2>4. Len(W[v]) \in Nat BY LabelFacts
    <2> QED BY <1>4, <2>1, <2>2, <2>3, <2>4
  <1>5. ASSUME NEW v \in 0 .. n - 1, Len(W[v]) <= Len(W[q[h]]), v # 0
        PROVE  v \in ToSet(q)
    <2>1. PICK p \in 0 .. n - 1, b \in A : W[v] = Append(W[p], b)
      BY <1>5, LabelFacts
    <2>2. Len(W[v]) = Len(W[p]) + 1 /\ Len(W[p]) \in Nat BY <2>1, LabelFacts, AppendLen
    <2>3. Len(W[q[h]]) \in Nat BY <1>2, LabelFacts
    <2>4. Len(W[p]) < Len(W[q[h]]) BY <1>5, <2>2, <2>3
    <2>5. p \in Left(q, h) BY <1>4, <2>4
    <2>6. v \in 1 .. n - 1 BY <1>5, QueueFacts
    <2> QED BY <2>1, <2>5, <2>6 DEF Order, Holds
  <1> QED BY <1>2, <1>3, <1>4, <1>5

(* The root's children start the queue. *)
LEMMA OrderStart ==
    ASSUME NEW W, NEW n, NEW A, Labels(W, n, A), NEW k, ChildrenOf(W, n, A, 0, k)
    PROVE  Order(W, n, A, k, 1)
  <1>1. k \in Seq(1 .. n - 1) /\ Distinct(k) BY DEF ChildrenOf
  <1>2. Len(k) \in Nat /\ DOMAIN k = 1 .. Len(k) /\ \A i \in 1 .. Len(k) : k[i] \in 1 .. n - 1
    BY <1>1, LenProperties, ElementOfSeq
  <1>3. n \in Nat /\ 0 \in 0 .. n - 1 /\ W[0] = <<>> /\ W[0] \in Seq(A) /\ Len(W[0]) = 0 BY LabelFacts
  <1>4. \A i \in 1 .. Len(k) : Len(W[k[i]]) = 1
    <2> SUFFICES ASSUME NEW i \in 1 .. Len(k) PROVE Len(W[k[i]]) = 1
      OBVIOUS
    <2>1. k[i] \in ToSet(k) /\ k[i] \in 1 .. n - 1 BY <1>2 DEF ToSet
    <2>2. PICK b \in A : W[k[i]] = Append(W[0], b) BY <2>1 DEF ChildrenOf
    <2> QED BY <1>3, <2>2, AppendLen
  <1>5. Left(k, 1) = {0} BY DEF Left
  <1>6. 1 \in 1 .. Len(k) + 1 BY <1>2
  <1>7. Sorted(W, k) BY <1>4 DEF Sorted
  <1>8. Spans(W, k, 1)
    <2>1. 1 <= Len(k) => 1 \in 1 .. Len(k) BY <1>2
    <2> QED BY <1>4, <2>1 DEF Spans
  <1>9. Holds(W, n, A, k, 1) BY <1>3, <1>5 DEF Holds, ChildrenOf
  <1> QED BY <1>1, <1>6, <1>7, <1>8, <1>9 DEF Order

(* A depth is at most one more than another that is no less deep. *)
LEMMA AtMostNext ==
    ASSUME NEW x \in Nat, NEW y \in Nat, NEW z \in Nat, x <= y + 1, y <= z
    PROVE  x <= z + 1
  OBVIOUS

(* A state leaves the queue and its children join it. *)
LEMMA OrderStep ==
    ASSUME NEW W, NEW n, NEW A, Labels(W, n, A), NEW q, NEW h, Order(W, n, A, q, h),
           h <= Len(q), NEW k, ChildrenOf(W, n, A, q[h], k)
    PROVE  /\ Order(W, n, A, q \o k, h + 1)
           /\ Left(q \o k, h + 1) = Left(q, h) \cup {q[h]}
           /\ ToSet(q \o k) = ToSet(q) \cup ToSet(k)
           /\ ToSet(q) \cap ToSet(k) = {}
  <1> DEFINE s == q[h]
             c == q \o k
             V == 1 .. n - 1
  <1>1. /\ q \in Seq(V) /\ Distinct(q) /\ Sorted(W, q) /\ Spans(W, q, h)
        /\ Holds(W, n, A, q, h) /\ h \in 1 .. Len(q) + 1
    BY DEF Order
  <1>2. /\ k \in Seq(V) /\ Distinct(k)
        /\ \A v \in V : v \in ToSet(k) <=> \E b \in A : W[v] = Append(W[s], b)
    BY DEF ChildrenOf
  <1>3. /\ s \in 0 .. n - 1 /\ s \notin Left(q, h) BY Shallow
  <1>4. /\ Len(q) \in Nat /\ h \in Nat /\ h >= 1 /\ h \in 1 .. Len(q)
        /\ \A i \in 1 .. Len(q) : q[i] \in V /\ Len(W[q[i]]) \in Nat
        /\ \A v : v \in ToSet(q) <=> \E i \in 1 .. Len(q) : v = q[i]
        /\ Left(q, h) \subseteq 0 .. n - 1
    BY QueueFacts
  <1>5. Len(k) \in Nat /\ ToSet(k) \subseteq V
    <2>1. Len(k) \in Nat /\ DOMAIN k = 1 .. Len(k) /\ \A i \in 1 .. Len(k) : k[i] \in V
      BY <1>2, LenProperties, ElementOfSeq
    <2> HIDE DEF V
    <2> QED BY <2>1 DEF ToSet
  <1>6. \A v \in ToSet(k) : Len(W[v]) = Len(W[s]) + 1
    <2> SUFFICES ASSUME NEW v \in ToSet(k) PROVE Len(W[v]) = Len(W[s]) + 1
      OBVIOUS
    <2>1. PICK b \in A : W[v] = Append(W[s], b) BY <1>2, <1>5
    <2>2. W[s] \in Seq(A) BY <1>3, LabelFacts
    <2> QED BY <2>1, <2>2, AppendLen
  <1> HIDE DEF V
  <1>7. ToSet(q) \cap ToSet(k) = {}
    <2> SUFFICES ASSUME NEW v \in ToSet(q), v \in ToSet(k) PROVE FALSE
      OBVIOUS
    <2>1. v \in V BY <1>5
    <2>2. PICK b \in A : W[v] = Append(W[s], b) BY <1>2, <2>1
    <2>3. PICK p \in 0 .. n - 1, a \in A : p \in Left(q, h) /\ W[v] = Append(W[p], a)
      BY <1>1, <2>1 DEF Holds, V
    <2>4. Append(W[p], a) = Append(W[s], b) BY <2>2, <2>3
    <2>5. \A x, y \in 0 .. n - 1 : \A e, f \in A :
             Append(W[x], f) = Append(W[y], e) => x = y
      BY OneParent
    <2>6. p = s BY <1>3, <2>4, <2>5
    <2> QED BY <1>3, <2>3, <2>6
  <1>8. /\ c \in Seq(V) /\ ToSet(c) = ToSet(q) \cup ToSet(k) /\ Len(c) = Len(q) + Len(k)
        /\ \A i \in 1 .. Len(q) : c[i] = q[i]
        /\ \A i \in 1 .. Len(c) : i > Len(q) => c[i] \in ToSet(k)
        /\ Distinct(c)
    BY <1>1, <1>2, <1>7, ConcatElements
  <1> HIDE DEF c
  <1>9. Left(c, h + 1) = Left(q, h) \cup {s}
    <2>1. /\ \A i \in 1 .. (h + 1) - 1 : i = h \/ i \in 1 .. h - 1
          /\ h \in 1 .. (h + 1) - 1 /\ \A i \in 1 .. h - 1 : i \in 1 .. (h + 1) - 1
          /\ \A i \in 1 .. (h + 1) - 1 : i \in 1 .. Len(q)
      BY <1>4
    <2> QED BY <1>8, <2>1 DEF Left
  <1>10. /\ Len(W[s]) \in Nat
         /\ \A i \in 1 .. Len(q) : Len(W[q[i]]) <= Len(W[s]) + 1
    BY <1>1, <1>4 DEF Spans
  <1>11. \A i \in 1 .. Len(c) : Len(W[c[i]]) \in Nat /\ Len(W[c[i]]) <= Len(W[s]) + 1
    <2> SUFFICES ASSUME NEW i \in 1 .. Len(c)
                 PROVE  Len(W[c[i]]) \in Nat /\ Len(W[c[i]]) <= Len(W[s]) + 1
      OBVIOUS
    <2>1. CASE i <= Len(q)
      <3>1. i \in 1 .. Len(q) BY <1>4, <2>1
      <3> QED BY <1>4, <1>8, <1>10, <3>1
    <2>2. CASE ~ i <= Len(q)
      <3>1. c[i] \in ToSet(k) BY <1>4, <1>8, <2>2
      <3> QED BY <1>6, <1>10, <3>1
    <2> QED BY <2>1, <2>2
  <1>12. \A i \in 1 .. Len(c) : i > Len(q) => Len(W[c[i]]) = Len(W[s]) + 1
    BY <1>6, <1>8
  <1>13. Sorted(W, c)
    <2> SUFFICES ASSUME NEW i \in 1 .. Len(c), NEW j \in 1 .. Len(c), i <= j
                 PROVE  Len(W[c[i]]) <= Len(W[c[j]])
      BY DEF Sorted
    <2>1. CASE j <= Len(q)
      <3>1. i \in 1 .. Len(q) /\ j \in 1 .. Len(q) BY <1>4, <1>5, <1>8, <2>1
      <3> QED BY <1>1, <1>8, <3>1 DEF Sorted
    <2>2. CASE ~ j <= Len(q)
      <3>1. Len(W[c[j]]) = Len(W[s]) + 1 BY <1>4, <1>5, <1>8, <1>12, <2>2
      <3> QED BY <1>11, <3>1
    <2> QED BY <2>1, <2>2
  <1>14. Spans(W, c, h + 1)
    <2> SUFFICES ASSUME h + 1 <= Len(c), NEW i \in 1 .. Len(c)
                 PROVE  Len(W[c[i]]) <= Len(W[c[h + 1]]) + 1
      BY DEF Spans
    <2>1. h + 1 \in 1 .. Len(c) /\ h \in 1 .. Len(c) /\ h <= h + 1 BY <1>4, <1>5, <1>8
    <2>2. Len(W[c[h]]) <= Len(W[c[h + 1]]) BY <1>13, <2>1 DEF Sorted
    <2>3. c[h] = s BY <1>4, <1>8
    <2>4. Len(W[c[i]]) <= Len(W[s]) + 1 /\ Len(W[c[i]]) \in Nat BY <1>11
    <2>5. Len(W[c[h + 1]]) \in Nat BY <1>11, <2>1
    <2>6. Len(W[s]) <= Len(W[c[h + 1]]) BY <2>2, <2>3
    <2>7. Len(W[s]) \in Nat BY <1>10
    <2> QED BY <2>4, <2>5, <2>6, <2>7, AtMostNext
  <1>15. Holds(W, n, A, c, h + 1)
    <2> SUFFICES ASSUME NEW v \in V
                 PROVE  v \in ToSet(c) <=>
                           \E p \in 0 .. n - 1, b \in A : /\ p \in Left(c, h + 1)
                                                          /\ W[v] = Append(W[p], b)
      BY DEF Holds, V
    <2>1. v \in ToSet(q) <=>
             \E p \in 0 .. n - 1, b \in A : p \in Left(q, h) /\ W[v] = Append(W[p], b)
      BY <1>1 DEF Holds, V
    <2>2. v \in ToSet(k) <=> \E b \in A : W[v] = Append(W[s], b) BY <1>2
    <2> QED BY <1>3, <1>8, <1>9, <2>1, <2>2
  <1>16. h + 1 \in 1 .. Len(c) + 1 BY <1>4, <1>5, <1>8
  <1>17. Order(W, n, A, c, h + 1)
    BY <1>8, <1>13, <1>14, <1>15, <1>16 DEF Order, V
  <1> QED BY <1>7, <1>8, <1>9, <1>17 DEF c

(* A row of the trie has the children, each once. *)
LEMMA GotoRow ==
    ASSUME NEW W, NEW n, NEW A, Labels(W, n, A), NEW nx, NEW s \in 0 .. n - 1,
           Goto(W, n, A, nx, s)
    PROVE  /\ \A b \in A : nx[s][b] \in 0 .. n - 1
           /\ \A b \in A : nx[s][b] = 0 => Fresh(W, n, s, b)
           /\ \A b \in A : nx[s][b] # 0 => W[nx[s][b]] = Append(W[s], b)
           /\ \A a, b \in A : nx[s][a] = nx[s][b] /\ nx[s][a] # 0 => a = b
           /\ \A v \in 1 .. n - 1 : \A b \in A : nx[s][b] = v <=> W[v] = Append(W[s], b)
  <1>1. /\ n \in Nat /\ n > 0 /\ W[s] \in Seq(A) /\ W[0] = <<>> BY LabelFacts
  <1>2. \A b \in A : /\ nx[s][b] \in 0 .. n - 1
                     /\ nx[s][b] # 0 => W[nx[s][b]] = Append(W[s], b)
                     /\ \A v \in 0 .. n - 1 : W[v] = Append(W[s], b) => nx[s][b] = v
    BY DEF Goto
  <1>3. \A b \in A : Append(W[s], b) # W[0] BY <1>1, AppendLen
  <1>4. \A b \in A : nx[s][b] = 0 => Fresh(W, n, s, b) BY <1>2, <1>3 DEF Fresh
  <1>5. \A v \in 1 .. n - 1 : v \in 0 .. n - 1 /\ v # 0 BY <1>1
  <1>6. \A v \in 1 .. n - 1 : \A b \in A : nx[s][b] = v <=> W[v] = Append(W[s], b)
    BY <1>2, <1>5
  <1>7. ASSUME NEW a \in A, NEW b \in A, nx[s][a] = nx[s][b], nx[s][a] # 0 PROVE a = b
    <2>1. Append(W[s], a) = Append(W[s], b) BY <1>2, <1>7
    <2> QED BY <1>1, <2>1, AppendSame
  <1> QED BY <1>2, <1>4, <1>6, <1>7

(* In the goto table, the rows of the states that have left the queue are  *)
(* flat, and the others still those of the trie.                           *)
Rows(W, n, A, cap, nx, q, h) ==
    /\ \A s \in 0 .. n - 1 : s \in Left(q, h) => \A b \in A : Goes(W, n, s, b, nx[s][b])
    /\ \A s \in 0 .. n - 1 : s \notin Left(q, h) => Goto(W, n, A, nx, s)
    /\ \A s \in n .. cap - 1 : \A b \in A : nx[s][b] = 0

(* A queued state has its fail link, and the outputs that come with it. *)
Linked(W, n, q, fl) == \A v \in ToSet(q) : Link(W, n, v, fl[v])

(* The outputs are complete for the states that have been queued, and own  *)
(* ones for the others.                                                    *)
Output(W, n, ww, oo, d, q, o) ==
    \A v \in 0 .. n - 1 : IF v = 0 \/ v \in ToSet(q)
                            THEN o[v] = AllOf(ww, oo, W[v], Len(W[v]))
                            ELSE o[v] = OwnOf(ww, oo, d, W[v])

(* The links that a dequeued state s gives to its children, and its row. *)
Falls(W, n, A, nx, f, s, link) ==
    /\ \A v \in 1 .. n - 1 : v \in DOMAIN link <=> \E b \in A : W[v] = Append(W[s], b)
    /\ \A v \in DOMAIN link : v \in 1 .. n - 1
    /\ \A v \in 1 .. n - 1 : \A b \in A : W[v] = Append(W[s], b) => link[v] = nx[f][b]

(* The row of s takes over what is missing from the row of f. *)
Flattened(A, cap, nx, f, s, nx2) ==
    /\ \A b \in A : nx2[s][b] = IF nx[s][b] = 0 THEN nx[f][b] ELSE nx[s][b]
    /\ \A x \in 0 .. cap - 1 : x # s => nx2[x] = nx[x]

(* The link of the head has left the queue, so its row is flat. *)
LEMMA HeadLink ==
    ASSUME NEW W, NEW n, NEW A, Labels(W, n, A), NEW q, NEW h, Order(W, n, A, q, h),
           h <= Len(q), NEW fl, Linked(W, n, q, fl), NEW cap, NEW nx,
           Rows(W, n, A, cap, nx, q, h)
    PROVE  /\ Link(W, n, q[h], fl[q[h]]) /\ fl[q[h]] \in 0 .. n - 1
           /\ fl[q[h]] \in Left(q, h) /\ Goto(W, n, A, nx, q[h])
           /\ \A b \in A : Goes(W, n, fl[q[h]], b, nx[fl[q[h]]][b])
  <1>1. q[h] \in ToSet(q) /\ q[h] \in 0 .. n - 1 /\ q[h] \notin Left(q, h) BY Shallow
  <1>2. Link(W, n, q[h], fl[q[h]]) BY <1>1 DEF Linked
  <1>3. fl[q[h]] \in 0 .. n - 1 /\ Len(W[fl[q[h]]]) < Len(W[q[h]]) BY <1>2 DEF Link
  <1>4. fl[q[h]] \in Left(q, h) BY <1>3, Shallow
  <1> QED BY <1>1, <1>2, <1>3, <1>4 DEF Rows

(* In the trie the root alone is flat. *)
LEMMA RowsStart ==
    ASSUME NEW W, NEW n, NEW A, Labels(W, n, A), NEW cap, NEW nx, NEW q,
           \A s \in 0 .. n - 1 : Goto(W, n, A, nx, s),
           \A s \in n .. cap - 1 : \A b \in A : nx[s][b] = 0
    PROVE  Rows(W, n, A, cap, nx, q, 1)
  <1>1. Left(q, 1) = {0} BY DEF Left
  <1>2. 0 \in 0 .. n - 1 BY LabelFacts
  <1>3. ASSUME NEW b \in A PROVE Goes(W, n, 0, b, nx[0][b])
    <2>1. /\ nx[0][b] \in 0 .. n - 1
          /\ nx[0][b] = 0 => Fresh(W, n, 0, b)
          /\ nx[0][b] # 0 => W[nx[0][b]] = Append(W[0], b)
      BY <1>2, <1>3, GotoRow
    <2>2. CASE nx[0][b] = 0 BY <2>1, <2>2, GoesRoot DEF Fresh
    <2>3. CASE nx[0][b] # 0 BY <1>2, <2>1, <2>3, GoesChild
    <2> QED BY <2>2, <2>3
  <1> QED BY <1>1, <1>3 DEF Rows

(* Dequeuing a state makes its row flat, and no other row changes. *)
LEMMA RowsStep ==
    ASSUME NEW W, NEW n, NEW A, Labels(W, n, A), NEW q, NEW h, Order(W, n, A, q, h),
           h <= Len(q), NEW fl, Linked(W, n, q, fl), NEW cap \in Nat, n <= cap, NEW nx,
           Rows(W, n, A, cap, nx, q, h), NEW nx2, Flattened(A, cap, nx, fl[q[h]], q[h], nx2),
           NEW q2, Left(q2, h + 1) = Left(q, h) \cup {q[h]}
    PROVE  Rows(W, n, A, cap, nx2, q2, h + 1)
  <1> DEFINE s == q[h]
             f == fl[s]
  <1>1. s \in 0 .. n - 1 /\ s \notin Left(q, h) BY Shallow
  <1>2. /\ Link(W, n, s, f) /\ Goto(W, n, A, nx, s)
        /\ \A b \in A : Goes(W, n, f, b, nx[f][b])
    BY HeadLink
  <1>3. /\ \A b \in A : nx2[s][b] = IF nx[s][b] = 0 THEN nx[f][b] ELSE nx[s][b]
        /\ \A x \in 0 .. cap - 1 : x # s => nx2[x] = nx[x]
    BY DEF Flattened
  <1> HIDE DEF f, s
  <1>4. n \in Nat BY LabelFacts
  <1>5. /\ \A x \in 0 .. n - 1 : x \in 0 .. cap - 1
        /\ \A x \in n .. cap - 1 : x \in 0 .. cap - 1 /\ x # s
    BY <1>1, <1>4
  <1>6. ASSUME NEW b \in A PROVE Goes(W, n, s, b, nx2[s][b])
    <2>1. /\ nx[s][b] \in 0 .. n - 1
          /\ nx[s][b] = 0 => Fresh(W, n, s, b)
          /\ nx[s][b] # 0 => W[nx[s][b]] = Append(W[s], b)
      BY <1>1, <1>2, <1>6, GotoRow
    <2>2. CASE nx[s][b] = 0
      <3>1. nx2[s][b] = nx[f][b] BY <1>3, <1>6, <2>2
      <3>2. Goes(W, n, f, b, nx[f][b]) BY <1>2, <1>6
      <3>3. \A v \in 0 .. n - 1 : W[v] # Append(W[s], b) BY <2>1, <2>2 DEF Fresh
      <3>4. Goes(W, n, s, b, nx[f][b]) BY <1>1, <1>2, <1>6, <3>2, <3>3, GoesLink
      <3> QED BY <3>1, <3>4
    <2>3. CASE nx[s][b] # 0
      <3>1. nx2[s][b] = nx[s][b] BY <1>3, <1>6, <2>3
      <3>2. Goes(W, n, s, b, nx[s][b]) BY <1>1, <1>6, <2>1, <2>3, GoesChild
      <3> QED BY <3>1, <3>2
    <2> QED BY <2>2, <2>3
  <1>7. \A x \in 0 .. n - 1 : x \in Left(q, h) => x # s BY <1>1
  <1>8. \A x : x \in Left(q2, h + 1) <=> x \in Left(q, h) \/ x = s BY DEF s
  <1>9. \A x \in 0 .. n - 1 : x \in Left(q2, h + 1) => \A b \in A : Goes(W, n, x, b, nx2[x][b])
    <2> SUFFICES ASSUME NEW x \in 0 .. n - 1, x \in Left(q, h), NEW b \in A
                 PROVE  Goes(W, n, x, b, nx2[x][b])
      BY <1>6, <1>8
    <2>1. nx2[x] = nx[x] BY <1>3, <1>5, <1>7
    <2> QED BY <2>1 DEF Rows
  <1>10. \A x \in 0 .. n - 1 : x \notin Left(q2, h + 1) => Goto(W, n, A, nx2, x)
    <2> SUFFICES ASSUME NEW x \in 0 .. n - 1, x \notin Left(q, h), x # s
                 PROVE  Goto(W, n, A, nx2, x)
      BY <1>8
    <2>1. nx2[x] = nx[x] BY <1>3, <1>5
    <2>2. Goto(W, n, A, nx, x) BY DEF Rows
    <2> QED BY <2>1, <2>2 DEF Goto
  <1>11. \A x \in n .. cap - 1 : \A b \in A : nx2[x][b] = 0
    BY <1>3, <1>5 DEF Rows
  <1> QED BY <1>9, <1>10, <1>11 DEF Rows

(* The link of a child is its link, and no deeper than its parent. *)
LEMMA KidLink ==
    ASSUME NEW W, NEW n, NEW A, Labels(W, n, A), NEW q, NEW h, Order(W, n, A, q, h),
           h <= Len(q), NEW fl, Linked(W, n, q, fl), NEW cap, NEW nx,
           Rows(W, n, A, cap, nx, q, h), NEW link, Falls(W, n, A, nx, fl[q[h]], q[h], link),
           NEW v \in DOMAIN link
    PROVE  /\ v \in 1 .. n - 1 /\ Link(W, n, v, link[v]) /\ link[v] \in 0 .. n - 1
           /\ link[v] = 0 \/ link[v] \in ToSet(q)
  <1> DEFINE s == q[h]
             f == fl[s]
             u == link[v]
  <1>1. s \in 0 .. n - 1 BY Shallow
  <1>2. Link(W, n, s, f) /\ \A b \in A : Goes(W, n, f, b, nx[f][b]) BY HeadLink
  <1>3. v \in 1 .. n - 1 /\ v \in 0 .. n - 1
    <2>1. v \in 1 .. n - 1 BY DEF Falls
    <2> QED BY <2>1, LabelFacts
  <1>4. PICK b \in A : W[v] = Append(W[s], b) BY <1>3 DEF Falls
  <1>5. u = nx[f][b] BY <1>3, <1>4 DEF Falls
  <1>6. Goes(W, n, f, b, u) BY <1>2, <1>5
  <1> HIDE DEF s, f, u
  <1>7. Link(W, n, v, u) BY <1>1, <1>2, <1>3, <1>4, <1>6, LinkChild
  <1>8. u \in 0 .. n - 1 /\ Len(W[u]) < Len(W[v]) BY <1>7 DEF Link
  <1>9. /\ Len(W[v]) = Len(W[s]) + 1 /\ Len(W[s]) \in Nat /\ Len(W[u]) \in Nat
    BY <1>1, <1>4, <1>8, LabelFacts, AppendLen
  <1>10. Len(W[u]) <= Len(W[s]) BY <1>8, <1>9
  <1>11. u = 0 \/ u \in ToSet(q) BY <1>8, <1>10, Shallow DEF s
  <1> QED BY <1>3, <1>7, <1>8, <1>11 DEF u

(* The children get their links, and the others keep theirs. *)
Relinks(q, link, fl, fl2) == /\ \A v \in ToSet(q) : fl2[v] = fl[v]
                             /\ \A v \in DOMAIN link : fl2[v] = link[v]

(* The new links are right when the row of the fail state is flat. *)
LEMMA LinkedStep ==
    ASSUME NEW W, NEW n, NEW A, Labels(W, n, A), NEW q, NEW h, Order(W, n, A, q, h),
           h <= Len(q), NEW fl, Linked(W, n, q, fl), NEW cap, NEW nx,
           Rows(W, n, A, cap, nx, q, h), NEW link, Falls(W, n, A, nx, fl[q[h]], q[h], link),
           NEW q2, ToSet(q2) = ToSet(q) \cup DOMAIN link, ToSet(q) \cap DOMAIN link = {},
           NEW fl2, Relinks(q, link, fl, fl2)
    PROVE  Linked(W, n, q2, fl2)
  <1> SUFFICES ASSUME NEW v \in ToSet(q2) PROVE Link(W, n, v, fl2[v])
    BY DEF Linked
  <1>1. CASE v \in ToSet(q) BY <1>1 DEF Linked, Relinks
  <1>2. CASE v \in DOMAIN link
    <2>1. Link(W, n, v, link[v]) BY <1>2, KidLink
    <2> QED BY <1>2, <2>1 DEF Relinks
  <1> QED BY <1>1, <1>2

(* Uniting a child's outputs with those of its fail state completes them. *)
LEMMA OutputStep ==
    ASSUME NEW W, NEW n, NEW A, Labels(W, n, A), NEW q, NEW h, Order(W, n, A, q, h),
           h <= Len(q), NEW fl, Linked(W, n, q, fl), NEW cap \in Nat, n <= cap, NEW nx,
           Rows(W, n, A, cap, nx, q, h), NEW link, Falls(W, n, A, nx, fl[q[h]], q[h], link),
           NEW q2, ToSet(q2) = ToSet(q) \cup DOMAIN link, ToSet(q) \cap DOMAIN link = {},
           NEW ww, Spelt(W, n, ww), NEW d, Numbered(ww, d), NEW oo, NEW o,
           DOMAIN o = 0 .. cap - 1, Output(W, n, ww, oo, d, q, o)
    PROVE  Output(W, n, ww, oo, d, q2, United(o, link))
  <1> DEFINE all(v) == AllOf(ww, oo, W[v], Len(W[v]))
             own(v) == OwnOf(ww, oo, d, W[v])
             o2 == United(o, link)
  <1>1. n \in Nat BY LabelFacts
  <1>2. \A v \in 0 .. n - 1 : v \in 0 .. cap - 1 BY <1>1
  <1>3. \A v \in 0 .. n - 1 : o2[v] = IF v \in DOMAIN link THEN o[v] \cup o[link[v]] ELSE o[v]
    BY <1>2 DEF United
  <1>4. \A v \in 0 .. n - 1 : IF v = 0 \/ v \in ToSet(q) THEN o[v] = all(v) ELSE o[v] = own(v)
    BY DEF Output
  <1> HIDE DEF o2
  <1>5. ASSUME NEW v \in DOMAIN link
        PROVE  own(v) \cup all(link[v]) = all(v)
    <2>1. v \in 0 .. n - 1 /\ Link(W, n, v, link[v])
      <3>1. v \in 1 .. n - 1 /\ Link(W, n, v, link[v]) BY KidLink
      <3> QED BY <1>1, <3>1
    <2> DEFINE u == link[v]
    <2>2. Link(W, n, v, u) BY <2>1
    <2> HIDE DEF u
    <2>3. Gathers(W, ww, oo, d, v, u) BY <2>1, <2>2, LinkAll
    <2> QED BY <2>3 DEF u, Gathers
  <1>6. ASSUME NEW v \in DOMAIN link
        PROVE  /\ v \in 0 .. n - 1 /\ v # 0 /\ v \notin ToSet(q) /\ link[v] \in 0 .. n - 1
               /\ link[v] = 0 \/ link[v] \in ToSet(q)
    <2>1. v \in 1 .. n - 1 /\ link[v] \in 0 .. n - 1 /\ (link[v] = 0 \/ link[v] \in ToSet(q))
      BY KidLink
    <2>2. v \in 0 .. n - 1 /\ v # 0 BY <1>1, <2>1
    <2> QED BY <2>1, <2>2
  <1> HIDE DEF all, own
  <1>7. ASSUME NEW v \in DOMAIN link PROVE o2[v] = all(v)
    <2>1. o2[v] = o[v] \cup o[link[v]] BY <1>3, <1>6
    <2>2. o[v] = own(v) BY <1>4, <1>6
    <2>3. o[link[v]] = all(link[v]) BY <1>4, <1>6
    <2> QED BY <1>5, <2>1, <2>2, <2>3
  <1>8. ASSUME NEW v \in 0 .. n - 1
        PROVE  IF v = 0 \/ v \in ToSet(q2) THEN o2[v] = all(v) ELSE o2[v] = own(v)
    <2>1. CASE v \in DOMAIN link BY <1>7, <2>1
    <2>2. CASE v \notin DOMAIN link BY <1>3, <1>4, <2>2
    <2> QED BY <2>1, <2>2
  <1> QED BY <1>8 DEF Output, all, own, o2

(* The pass over t has come to h in queue q. *)
BfsAt(W, g, t, q, h, fl) ==
    /\ Labels(W, t.nstates, g.bytes) /\ t \in Record(g.bytes, g.cap) /\ t.nstates <= g.cap
    /\ Spelt(W, t.nstates, g.words) /\ fl \in [0 .. g.cap - 1 -> Nat]
    /\ Order(W, t.nstates, g.bytes, q, h)
    /\ Rows(W, t.nstates, g.bytes, g.cap, t.next, q, h)
    /\ Linked(W, t.nstates, q, fl)
    /\ Output(W, t.nstates, g.words, g.outs, Len(g.lens), q, t.out)
    /\ Output(W, t.nstates, g.words, g.routs, Len(g.lens), q, t.rout)

(* An automaton: every row is flat, and every state says what the words    *)
(* say that end its label.                                                 *)
Automaton(W, g, t) ==
    /\ Labels(W, t.nstates, g.bytes) /\ Spelt(W, t.nstates, g.words)
    /\ t \in Record(g.bytes, g.cap) /\ t.nstates <= g.cap
    /\ \A s \in 0 .. t.nstates - 1 : \A b \in g.bytes :
          Goes(W, t.nstates, s, b, t.next[s][b])
    /\ \A v \in 0 .. t.nstates - 1 :
          /\ t.out[v] = AllOf(g.words, g.outs, W[v], Len(W[v]))
          /\ t.rout[v] = AllOf(g.words, g.routs, W[v], Len(W[v]))

(* The words have a byte at least, so that none ends at the root. *)
LEMMA RootOutput ==
    ASSUME NEW g, Sound(g), NEW oo
    PROVE  /\ AllOf(g.words, oo, <<>>, 0) = {}
           /\ OwnOf(g.words, oo, Len(g.lens), <<>>) = {}
  <1>1. /\ DOMAIN g.words = 1 .. Len(g.lens)
        /\ \A k \in 1 .. Len(g.lens) : g.words[k] \in Seq(g.bytes) /\ g.words[k] # <<>>
    BY DEF Sound
  <1>2. \A k \in 1 .. Len(g.lens) : Len(g.words[k]) \in Nat /\ Len(g.words[k]) # 0
    BY <1>1, LenProperties, EmptySeq
  <1>3. \A k \in 1 .. Len(g.lens) : ~ EndsAt(g.words[k], <<>>, 0)
    BY <1>2 DEF EndsAt
  <1> QED BY <1>1, <1>3 DEF AllOf, OwnOf

(* The outputs are complete at the root and its children: no word is       *)
(* shorter than a byte.                                                    *)
LEMMA OutputStart ==
    ASSUME NEW g, Sound(g), NEW W, NEW n, Labels(W, n, g.bytes), NEW cap, NEW oo, NEW o,
           Says(W, n, cap, g.words, oo, Len(g.lens), o),
           Spelt(W, n, g.words), NEW k, ChildrenOf(W, n, g.bytes, 0, k)
    PROVE  Output(W, n, g.words, oo, Len(g.lens), k, o)
  <1> DEFINE ww == g.words
             d == Len(g.lens)
             A == g.bytes
  <1>1. n \in Nat /\ 0 \in 0 .. n - 1 /\ W[0] = <<>> /\ Len(W[0]) = 0 /\ W[0] \in Seq(A)
    BY LabelFacts
  <1>2. AllOf(ww, oo, W[0], Len(W[0])) = {} /\ OwnOf(ww, oo, d, W[0]) = {}
    BY <1>1, RootOutput
  <1>3. \A v \in 0 .. n - 1 : o[v] = OwnOf(ww, oo, d, W[v]) BY DEF Says
  <1>4. Numbered(ww, d) BY DEF Sound, Numbered
  <1> HIDE DEF ww, d, A
  <1>5. ASSUME NEW v \in 0 .. n - 1, v \in ToSet(k)
        PROVE  o[v] = AllOf(ww, oo, W[v], Len(W[v]))
    <2>1. CASE v = 0 BY <1>1, <1>2, <1>3, <2>1
    <2>2. CASE v # 0
      <3>1. v \in 1 .. n - 1 BY <1>1, <2>2
      <3>2. PICK b \in A : W[v] = Append(W[0], b) BY <1>5, <3>1 DEF ChildrenOf, A
      <3>3. Len(W[v]) = 1 BY <1>1, <3>2, AppendLen
      <3>4. Link(W, n, v, 0) BY <3>3, LinkRoot DEF A
      <3>5. Gathers(W, ww, oo, d, v, 0) BY <1>4, <3>4, LinkAll DEF A, ww
      <3> QED BY <1>2, <1>3, <3>5 DEF Gathers
    <2> QED BY <2>1, <2>2
  <1>6. o[0] = AllOf(ww, oo, W[0], Len(W[0])) BY <1>1, <1>2, <1>3
  <1>7. \A v \in 0 .. n - 1 : IF v = 0 \/ v \in ToSet(k)
                                THEN o[v] = AllOf(ww, oo, W[v], Len(W[v]))
                                ELSE o[v] = OwnOf(ww, oo, d, W[v])
    BY <1>3, <1>5, <1>6
  <1> QED BY <1>7 DEF Output, ww, d

(* The trie of all the words, and its root's children, start the pass. *)
LEMMA BfsStart ==
    ASSUME NEW g, Sound(g), NEW t, NEW W, TrieAt(W, g, Len(g.lens), t), NEW k,
           ChildrenOf(W, t.nstates, g.bytes, 0, k), NEW fl,
           fl = [s \in 0 .. g.cap - 1 |-> 0]
    PROVE  BfsAt(W, g, t, k, 1, fl)
  <1> DEFINE n == t.nstates
             A == g.bytes
             cap == g.cap
  <1>1. /\ Labels(W, n, A) /\ t \in Record(A, cap) /\ n <= cap
        /\ \A s \in 0 .. n - 1 : Goto(W, n, A, t.next, s)
        /\ \A s \in n .. cap - 1 : \A b \in A : t.next[s][b] = 0
        /\ SpeltTo(W, n, g.words, Len(g.lens))
        /\ Says(W, n, cap, g.words, g.outs, Len(g.lens), t.out)
        /\ Says(W, n, cap, g.words, g.routs, Len(g.lens), t.rout)
    BY DEF TrieAt, Trie
  <1>2. Spelt(W, n, g.words) BY <1>1 DEF Spelt, SpeltTo, Sound
  <1>3. fl \in [0 .. cap - 1 -> Nat] /\ \A s \in 0 .. cap - 1 : fl[s] = 0 OBVIOUS
  <1> HIDE DEF n, A, cap
  <1>4. ChildrenOf(W, n, A, 0, k) BY DEF n, A
  <1>5. Order(W, n, A, k, 1) BY <1>1, <1>4, OrderStart
  <1>6. Rows(W, n, A, cap, t.next, k, 1) BY <1>1, RowsStart
  <1>7. Linked(W, n, k, fl)
    <2> SUFFICES ASSUME NEW v \in ToSet(k) PROVE Link(W, n, v, fl[v])
      BY DEF Linked
    <2>1. n \in Nat /\ n >= 1 /\ W[0] \in Seq(A) /\ Len(W[0]) = 0 BY <1>1, LabelFacts
    <2>2. v \in 1 .. n - 1 BY <1>1, <1>5, QueueFacts
    <2>3. PICK b \in A : W[v] = Append(W[0], b) BY <1>4, <2>2 DEF ChildrenOf
    <2>4. Len(W[v]) = 1 BY <2>1, <2>3, AppendLen
    <2>5. v \in 0 .. n - 1 BY <2>1, <2>2
    <2>6. cap \in Nat
      <3>1. g.lens \in Seq(Nat) /\ cap = 1 + SumTo(g.lens, Len(g.lens)) BY DEF Sound, cap
      <3>2. Len(g.lens) \in 0 .. Len(g.lens) BY <3>1, LenProperties
      <3>3. SumTo(g.lens, Len(g.lens)) \in Nat BY <3>1, <3>2, SumSteps
      <3> QED BY <3>1, <3>3
    <2>7. v \in 0 .. cap - 1 BY <1>1, <2>1, <2>2, <2>6
    <2>8. Link(W, n, v, 0) BY <1>1, <2>4, <2>5, LinkRoot
    <2> QED BY <1>3, <2>7, <2>8
  <1>8. Output(W, n, g.words, g.outs, Len(g.lens), k, t.out)
    BY <1>1, <1>2, <1>4, OutputStart DEF A
  <1>9. Output(W, n, g.words, g.routs, Len(g.lens), k, t.rout)
    BY <1>1, <1>2, <1>4, OutputStart DEF A
  <1> QED BY <1>1, <1>2, <1>3, <1>5, <1>6, <1>7, <1>8, <1>9 DEF BfsAt, n, A, cap

(* t2 and fl2 are t and fl after state s is dequeued. *)
Dequeues(A, cap, t, fl, s, link, t2, fl2) ==
    /\ t2 = [t EXCEPT !.next[s] = [b \in A |-> IF t.next[s][b] = 0 THEN t.next[fl[s]][b]
                                                ELSE t.next[s][b]],
                      !.out = United(@, link), !.rout = United(@, link)]
    /\ fl2 = [v \in DOMAIN fl |-> IF v \in DOMAIN link THEN link[v] ELSE fl[v]]

(* Dequeuing a state keeps the breadth-first pass: the step of the second  *)
(* phase.                                                                  *)
LEMMA BfsStep ==
    ASSUME NEW g, Sound(g), NEW t, NEW q, NEW h, NEW fl, NEW W, BfsAt(W, g, t, q, h, fl),
           h <= Len(q), NEW k, ChildrenOf(W, t.nstates, g.bytes, q[h], k),
           NEW link, Falls(W, t.nstates, g.bytes, t.next, fl[q[h]], q[h], link),
           NEW t2, NEW fl2, Dequeues(g.bytes, g.cap, t, fl, q[h], link, t2, fl2)
    PROVE  BfsAt(W, g, t2, q \o k, h + 1, fl2)
  <1> DEFINE n == t.nstates
             A == g.bytes
             cap == g.cap
             s == q[h]
             f == fl[s]
             q2 == q \o k
             nx == t.next
             row == [b \in A |-> IF nx[s][b] = 0 THEN nx[f][b] ELSE nx[s][b]]
             nx2 == [nx EXCEPT ![s] = row]
             o2 == United(t.out, link)
             r2 == United(t.rout, link)
             ww == g.words
             d == Len(g.lens)
  <1>1. /\ Labels(W, n, A) /\ t \in Record(A, cap) /\ n <= cap
        /\ Spelt(W, n, ww) /\ fl \in [0 .. cap - 1 -> Nat]
        /\ Order(W, n, A, q, h) /\ Rows(W, n, A, cap, nx, q, h) /\ Linked(W, n, q, fl)
        /\ Output(W, n, ww, g.outs, d, q, t.out) /\ Output(W, n, ww, g.routs, d, q, t.rout)
    BY DEF BfsAt
  <1>2. cap \in Nat
    <2>1. g.lens \in Seq(Nat) /\ cap = 1 + SumTo(g.lens, Len(g.lens)) BY DEF Sound
    <2> HIDE DEF cap
    <2>2. Len(g.lens) \in 0 .. Len(g.lens) BY <2>1, LenProperties
    <2>3. SumTo(g.lens, Len(g.lens)) \in Nat BY <2>1, <2>2, SumSteps
    <2> QED BY <2>1, <2>3
  <1>3. Numbered(ww, d) BY DEF Sound, Numbered
  <1>4. /\ nx \in [0 .. cap - 1 -> [A -> Nat]]
        /\ t.out \in [0 .. cap - 1 -> SUBSET Categories]
        /\ t.rout \in [0 .. cap - 1 -> SUBSET (Nat \X Nat)]
    BY <1>1 DEF Record
  <1>5. t2 = [t EXCEPT !.next = nx2, !.out = o2, !.rout = r2]
    BY <1>1 DEF Dequeues, Record
  <1>6. fl2 = [v \in 0 .. cap - 1 |-> IF v \in DOMAIN link THEN link[v] ELSE fl[v]]
    BY <1>1 DEF Dequeues
  <1>7. ChildrenOf(W, n, A, s, k) /\ Falls(W, n, A, nx, f, s, link) OBVIOUS
  <1> HIDE DEF n, A, cap, nx, row, nx2, o2, r2, q2, ww, d
  <1>8. /\ Order(W, n, A, q2, h + 1) /\ Left(q2, h + 1) = Left(q, h) \cup {s}
        /\ ToSet(q2) = ToSet(q) \cup ToSet(k) /\ ToSet(q) \cap ToSet(k) = {}
    BY <1>1, <1>7, OrderStep DEF q2
  <1>9. n \in Nat /\ n >= 1 BY <1>1, LabelFacts
  <1>10. s \in 0 .. n - 1 /\ f \in 0 .. n - 1 BY <1>1, Shallow, HeadLink
  <1>11. s \in 0 .. cap - 1 /\ f \in 0 .. cap - 1 BY <1>1, <1>2, <1>9, <1>10
  <1>12. row \in [A -> Nat] BY <1>4, <1>11 DEF row
  <1>13. nx2 \in [0 .. cap - 1 -> [A -> Nat]] BY <1>4, <1>11, <1>12 DEF nx2
  <1>14. Flattened(A, cap, nx, f, s, nx2)
    BY <1>4, <1>11 DEF Flattened, nx2, row
  <1>15. \A v \in DOMAIN link : /\ v \in 1 .. n - 1 /\ Link(W, n, v, link[v])
                                 /\ link[v] \in 0 .. n - 1
    BY <1>1, <1>7, KidLink
  <1>16. \A v \in DOMAIN link : v \in 0 .. cap - 1 /\ link[v] \in 0 .. cap - 1 /\ link[v] \in Nat
    BY <1>1, <1>2, <1>9, <1>15
  <1>17. o2 \in [0 .. cap - 1 -> SUBSET Categories] BY <1>4, <1>16 DEF o2, United
  <1>18. r2 \in [0 .. cap - 1 -> SUBSET (Nat \X Nat)] BY <1>4, <1>16 DEF r2, United
  <1>19. /\ t2 \in Record(A, cap) /\ t2.nstates = n /\ t2.next = nx2
         /\ t2.out = o2 /\ t2.rout = r2
    BY <1>1, <1>5, <1>13, <1>17, <1>18 DEF Record, n
  <1>20. fl2 \in [0 .. cap - 1 -> Nat] BY <1>1, <1>6, <1>16
  <1>21. DOMAIN link = ToSet(k)
    <2>1. ToSet(k) \subseteq 1 .. n - 1
      <3>1. k \in Seq(1 .. n - 1) BY <1>7 DEF ChildrenOf
      <3>2. DOMAIN k = 1 .. Len(k) /\ \A i \in 1 .. Len(k) : k[i] \in 1 .. n - 1
        BY <3>1, LenProperties, ElementOfSeq
      <3> QED BY <3>2 DEF ToSet
    <2>2. \A v \in 1 .. n - 1 : v \in ToSet(k) <=> v \in DOMAIN link
      BY <1>7 DEF ChildrenOf, Falls
    <2>3. \A v : v \in DOMAIN link => v \in 1 .. n - 1 BY <1>15
    <2> QED BY <2>1, <2>2, <2>3
  <1>22. ToSet(q2) = ToSet(q) \cup DOMAIN link /\ ToSet(q) \cap DOMAIN link = {}
    BY <1>8, <1>21
  <1>23. Rows(W, n, A, cap, nx2, q2, h + 1)
    BY <1>1, <1>2, <1>8, <1>14, RowsStep
  <1>24. Linked(W, n, q2, fl2)
    <2>1. \A v \in DOMAIN link : fl2[v] = link[v] BY <1>6, <1>16
    <2>2. \A v \in ToSet(q) : v \in 0 .. cap - 1
      <3>1. \A v \in ToSet(q) : v \in 1 .. n - 1 BY <1>1, QueueFacts
      <3> QED BY <1>1, <1>2, <1>9, <3>1
    <2>3. \A v \in ToSet(q) : fl2[v] = fl[v] BY <1>6, <1>22, <2>2
    <2>4. Relinks(q, link, fl, fl2) BY <2>1, <2>3 DEF Relinks
    <2> QED BY <1>1, <1>7, <1>22, <2>4, LinkedStep
  <1>25. DOMAIN t.out = 0 .. cap - 1 /\ DOMAIN t.rout = 0 .. cap - 1 BY <1>4
  <1>26. Output(W, n, ww, g.outs, d, q2, o2)
    BY <1>1, <1>2, <1>3, <1>7, <1>22, <1>25, OutputStep DEF o2
  <1>27. Output(W, n, ww, g.routs, d, q2, r2)
    BY <1>1, <1>2, <1>3, <1>7, <1>22, <1>25, OutputStep DEF r2
  <1> QED BY <1>1, <1>8, <1>19, <1>20, <1>23, <1>24, <1>26, <1>27
          DEF BfsAt, A, cap, ww, d, q2

(* A finished pass leaves an automaton. *)
LEMMA BfsEnd ==
    ASSUME NEW g, NEW t, NEW q, NEW h, NEW fl, NEW W, BfsAt(W, g, t, q, h, fl),
           h > Len(q)
    PROVE  Automaton(W, g, t)
  <1> DEFINE n == t.nstates
             A == g.bytes
  <1>1. /\ Labels(W, n, A) /\ t \in Record(A, g.cap) /\ n <= g.cap /\ Spelt(W, n, g.words)
        /\ Order(W, n, A, q, h) /\ Rows(W, n, A, g.cap, t.next, q, h)
        /\ Output(W, n, g.words, g.outs, Len(g.lens), q, t.out)
        /\ Output(W, n, g.words, g.routs, Len(g.lens), q, t.rout)
    BY DEF BfsAt
  <1> HIDE DEF n, A
  <1>2. \A v \in 0 .. n - 1 : v \in Left(q, h) BY <1>1, AllLeft
  <1>3. \A v \in 0 .. n - 1 : v = 0 \/ v \in ToSet(q)
    <2>1. h \in Nat /\ Len(q) \in Nat /\ h <= Len(q) + 1 BY <1>1, QueueFacts
    <2>2. \A i \in 1 .. h - 1 : i \in 1 .. Len(q) BY <2>1
    <2>3. \A i \in 1 .. Len(q) : q[i] \in ToSet(q) BY <1>1, QueueFacts
    <2> QED BY <1>2, <2>2, <2>3 DEF Left
  <1>4. \A s \in 0 .. n - 1 : \A b \in A : Goes(W, n, s, b, t.next[s][b])
    BY <1>1, <1>2 DEF Rows
  <1>5. \A v \in 0 .. n - 1 : /\ t.out[v] = AllOf(g.words, g.outs, W[v], Len(W[v]))
                               /\ t.rout[v] = AllOf(g.words, g.routs, W[v], Len(W[v]))
    BY <1>1, <1>3 DEF Output
  <1> QED BY <1>1, <1>4, <1>5 DEF Automaton, n, A

(* The children of a state in order, and their links, as the pass computes *)
(* them from its row.                                                      *)
LEMMA RowChildren ==
    ASSUME tab \in Tables, NEW W, NEW n, Labels(W, n, Alphabet), NEW nx,
           NEW s \in 0 .. n - 1, nx[s] \in [Alphabet -> Nat], Goto(W, n, Alphabet, nx, s)
    PROVE  ChildrenOf(W, n, Alphabet, s, InOrder(nx[s]))
  <1> DEFINE A == Alphabet
             row == nx[s]
             m == n - 1
  <1>1. /\ \A b \in A : nx[s][b] \in 0 .. n - 1
        /\ \A a, b \in A : nx[s][a] = nx[s][b] /\ nx[s][a] # 0 => a = b
        /\ \A v \in 1 .. n - 1 : \A b \in A : nx[s][b] = v <=> W[v] = Append(W[s], b)
    BY GotoRow
  <1>2. m \in Nat /\ \A v \in 1 .. m : v # 0 BY LabelFacts
  <1>3. row \in [A -> 0 .. m] BY <1>1
  <1>4. \A a, b \in A : row[a] = row[b] /\ row[a] # 0 => a = b BY <1>1
  <1> HIDE DEF row, m
  <1>5. /\ InOrder(row) \in Seq(1 .. m) /\ Distinct(InOrder(row))
        /\ \A v : v \in ToSet(InOrder(row)) <=> v # 0 /\ \E b \in A : row[b] = v
    BY <1>2, <1>3, <1>4, InOrderFacts DEF A
  <1>6. \A v \in 1 .. m : v \in ToSet(InOrder(row)) <=> \E b \in A : W[v] = Append(W[s], b)
    BY <1>1, <1>2, <1>5 DEF row, m
  <1> QED BY <1>5, <1>6 DEF ChildrenOf, row, m

(* FailLinks(s), read from the row of s, gives each child the transition   *)
(* of the fail state on the child's byte.                                  *)
LEMMA RowLinks ==
    ASSUME NEW W, NEW n, Labels(W, n, Alphabet), NEW s \in 0 .. n - 1,
           Goto(W, n, Alphabet, trie.next, s)
    PROVE  Falls(W, n, Alphabet, trie.next, fail[s], s, FailLinks(s))
  <1> DEFINE A == Alphabet
             nx == trie.next
             kids == {nx[s][b] : b \in A} \ {0}
             byte(v) == CHOOSE b \in A : nx[s][b] = v
             link == [v \in kids |-> nx[fail[s]][byte(v)]]
  <1>1. /\ \A b \in A : nx[s][b] \in 0 .. n - 1
        /\ \A a, b \in A : nx[s][a] = nx[s][b] /\ nx[s][a] # 0 => a = b
        /\ \A v \in 1 .. n - 1 : \A b \in A : nx[s][b] = v <=> W[v] = Append(W[s], b)
    BY GotoRow
  <1>2. n \in Nat /\ \A v \in 1 .. n - 1 : v # 0 /\ \A w \in 0 .. n - 1 : w # 0 => w \in 1 .. n - 1
    BY LabelFacts
  <1>3. FailLinks(s) = link BY DEF FailLinks, Children
  <1>4. \A v \in kids : v \in 1 .. n - 1
    BY <1>1, LabelFacts
  <1>5. \A v \in 1 .. n - 1 : v \in kids <=> \E b \in A : W[v] = Append(W[s], b)
    BY <1>1, <1>2
  <1>6. ASSUME NEW v \in 1 .. n - 1, NEW b \in A, W[v] = Append(W[s], b)
        PROVE  v \in kids /\ byte(v) = b
    <2>1. nx[s][b] = v /\ v # 0 BY <1>1, <1>2, <1>6
    <2>2. byte(v) \in A /\ nx[s][byte(v)] = v BY <2>1
    <2> HIDE DEF byte
    <2> QED BY <1>1, <2>1, <2>2
  <1> HIDE DEF kids, byte
  <1>7. DOMAIN link = kids /\ \A v \in kids : link[v] = nx[fail[s]][byte(v)] OBVIOUS
  <1> HIDE DEF link
  <1>8. \A v \in 1 .. n - 1 : \A b \in A : W[v] = Append(W[s], b) => link[v] = nx[fail[s]][b]
    BY <1>6, <1>7
  <1> QED BY <1>3, <1>4, <1>5, <1>7, <1>8 DEF Falls

----------------------------------------------------------------------------
(* The bounds of the arrays                                                *)

(* There is room for the root. *)
LEMMA CapFacts ==
    ASSUME NEW g, Sound(g)
    PROVE  g.cap \in Nat /\ g.cap >= 1
  <1>1. g.lens \in Seq(Nat) /\ g.cap = 1 + SumTo(g.lens, Len(g.lens)) BY DEF Sound
  <1>2. Len(g.lens) \in 0 .. Len(g.lens) BY <1>1, LenProperties
  <1>3. SumTo(g.lens, Len(g.lens)) \in Nat BY <1>1, <1>2, SumSteps
  <1> QED BY <1>1, <1>3

(* Every entry of the goto table is a state. *)
Closed(A, cap, t) == /\ DOMAIN t.next = 0 .. cap - 1 /\ t.nstates <= cap
                     /\ \A s \in 0 .. cap - 1 : \A b \in A : t.next[s][b] < t.nstates

(* No transition of the trie leaves the arrays, *)
LEMMA TrieClosed ==
    ASSUME NEW g, Sound(g), NEW t, NEW W, NEW d, TrieAt(W, g, d, t)
    PROVE  Closed(g.bytes, g.cap, t)
  <1> DEFINE n == t.nstates
             A == g.bytes
             cap == g.cap
  <1>1. /\ Labels(W, n, A) /\ t \in Record(A, cap) /\ n <= cap
        /\ \A s \in 0 .. n - 1 : Goto(W, n, A, t.next, s)
        /\ \A s \in n .. cap - 1 : \A b \in A : t.next[s][b] = 0
    BY DEF TrieAt, Trie
  <1>2. cap \in Nat BY CapFacts
  <1>3. DOMAIN t.next = 0 .. cap - 1 BY <1>1 DEF Record
  <1> HIDE DEF n, A, cap
  <1>4. n \in Nat /\ n >= 1 BY <1>1, LabelFacts
  <1>5. \A s \in 0 .. cap - 1 : s \in 0 .. n - 1 \/ s \in n .. cap - 1 BY <1>2, <1>4
  <1>6. \A s \in 0 .. n - 1 : \A b \in A : t.next[s][b] \in 0 .. n - 1 BY <1>1 DEF Goto
  <1>7. \A x \in 0 .. n - 1 : x < n BY <1>4
  <1>8. 0 < n BY <1>4
  <1>9. \A s \in 0 .. cap - 1 : \A b \in A : t.next[s][b] < n
    BY <1>1, <1>5, <1>6, <1>7, <1>8
  <1> QED BY <1>1, <1>3, <1>9 DEF Closed, n, A, cap

(* and none of a state in the pass, and the queue has room for every       *)
(* state.                                                                  *)
LEMMA BfsClosed ==
    ASSUME NEW g, Sound(g), NEW t, NEW W, NEW q, NEW h, NEW fl, BfsAt(W, g, t, q, h, fl)
    PROVE  Closed(g.bytes, g.cap, t) /\ Len(q) < g.cap /\ Distinct(q)
  <1> DEFINE n == t.nstates
             A == g.bytes
             cap == g.cap
  <1>1. /\ Labels(W, n, A) /\ t \in Record(A, cap) /\ n <= cap
        /\ Order(W, n, A, q, h) /\ Rows(W, n, A, cap, t.next, q, h)
    BY DEF BfsAt
  <1>2. cap \in Nat BY CapFacts
  <1>3. DOMAIN t.next = 0 .. cap - 1 BY <1>1 DEF Record
  <1> HIDE DEF n, A, cap
  <1>4. n \in Nat /\ n >= 1 BY <1>1, LabelFacts
  <1>5. \A s \in 0 .. cap - 1 : s \in 0 .. n - 1 \/ s \in n .. cap - 1 BY <1>2, <1>4
  <1>6. \A s \in 0 .. n - 1 : \A b \in A : t.next[s][b] \in 0 .. n - 1
    BY <1>1 DEF Rows, Goto, Goes, Longest
  <1>7. \A x \in 0 .. n - 1 : x < n BY <1>4
  <1>8. 0 < n BY <1>4
  <1>9. \A s \in n .. cap - 1 : \A b \in A : t.next[s][b] = 0 BY <1>1 DEF Rows
  <1>10. \A s \in 0 .. cap - 1 : \A b \in A : t.next[s][b] < n
    BY <1>5, <1>6, <1>7, <1>8, <1>9
  <1>11. q \in Seq(1 .. n - 1) /\ Distinct(q) BY <1>1 DEF Order
  <1>12. Len(q) \in Nat BY <1>11, LenProperties
  <1>13. n - 1 \in Nat BY <1>4
  <1>14. Len(q) <= n - 1 BY <1>11, <1>13, DistinctLen
  <1>15. Len(q) < cap BY <1>1, <1>2, <1>4, <1>12, <1>14
  <1> QED BY <1>1, <1>3, <1>10, <1>11, <1>15 DEF Closed, n, A, cap

----------------------------------------------------------------------------
(* The inductive invariant                                                 *)

(* The automaton of the flavour f is finished and accepts its words. *)
IsBuilt(f) == \E W : Automaton(W, Given(f), ac[f])

(* Where init is, and for which tables. *)
Control == /\ tab \in Tables /\ match \in Flavours /\ DOMAIN ac = Flavours
           /\ pc \in {"size", "trie", "bfs", "ready", "scanned", "refused"}

(* While words are inserted, the trie holds the first done of them. *)
TrieInv == pc = "trie" => /\ \E W : TrieAt(W, Given(match), done, trie)
                          /\ queue = <<>> /\ head = 1
                          /\ fail = [s \in 0 .. Cap(match) - 1 |-> 0]

(* During the breadth-first pass. *)
BfsInv == pc = "bfs" => \E W : BfsAt(W, Given(match), trie, queue, head, fail)

(* The flavours that are finished: decoded before raw, both before a scan. *)
AcInv == /\ match = "raw" => IsBuilt("decoded")
         /\ pc \in {"ready", "scanned"} => match = "raw" /\ IsBuilt("raw")

(* The inductive invariant of the construction. *)
BuildInv == Control /\ TrieInv /\ BfsInv /\ AcInv

(* It holds when init starts, *)
LEMMA InitBuildInv == Init => BuildInv
  <1> SUFFICES ASSUME Init PROVE BuildInv OBVIOUS
  <1>1. /\ tab \in Tables /\ pc = "size" /\ match = "decoded" /\ DOMAIN ac = Flavours BY DEF Init
  <1>2. Control BY <1>1 DEF Control, Flavours
  <1> QED BY <1>1, <1>2 DEF BuildInv, TrieInv, BfsInv, AcInv

(* when the arrays have been allocated or the tables refused, *)
LEMMA SizeInv == BuildInv /\ Size => BuildInv'
  <1> SUFFICES ASSUME BuildInv, Size PROVE BuildInv' OBVIOUS
  <1>1. /\ tab' = tab /\ match' = match /\ ac' = ac /\ queue' = <<>> /\ head' = 1
        /\ pc' \in {"trie", "refused"} BY DEF Size
  <1>2. Control' BY <1>1 DEF BuildInv, Control
  <1>3. /\ Alphabet' = Alphabet /\ \A f : Given(f)' = Given(f) /\ Cap(f)' = Cap(f)
    BY <1>1, GivenSame
  <1>4. AcInv' 
    <2>1. IsBuilt("decoded") => IsBuilt("decoded")' BY <1>1, <1>3 DEF IsBuilt
    <2> QED BY <1>1, <2>1 DEF BuildInv, AcInv
  <1>5. BfsInv' BY <1>1 DEF BfsInv
  <1>6. TrieInv'
    <2> SUFFICES ASSUME pc' = "trie"
                 PROVE  /\ \E W : TrieAt(W, Given(match)', done', trie')
                        /\ fail' = [s \in 0 .. Cap(match)' - 1 |-> 0]
      BY <1>1 DEF TrieInv
    <2>1. /\ done' = 0 /\ trie' = Empty(Cap(match))
          /\ fail' = [s \in 0 .. Cap(match) - 1 |-> 0]
      BY DEF Size
    <2> DEFINE g == Given(match)
    <2>2. tab \in Tables BY DEF BuildInv, Control
    <2>3. Sound(g) /\ g.bytes = Alphabet /\ g.cap = Cap(match) BY <2>2, GivenSound
    <2>4. trie' = Blank(g) BY <2>1, <2>3 DEF Empty, Blank
    <2>5. Given(match)' = g /\ Cap(match)' = Cap(match) BY <1>1, <1>3 
    <2> HIDE DEF g
    <2>6. \E W : TrieAt(W, g, 0, Blank(g)) BY <2>3, TrieEmpty
    <2> QED BY <2>1, <2>4, <2>5, <2>6
  <1> QED BY <1>2, <1>4, <1>5, <1>6 DEF BuildInv

(* when a word has been inserted, *)
LEMMA InsertInv == BuildInv /\ Insert => BuildInv'
  <1> SUFFICES ASSUME BuildInv, Insert PROVE BuildInv' OBVIOUS
  <1> DEFINE g == Given(match)
             word == Words(match)[done + 1]
             at == Walk(trie, word.w)
  <1>1. /\ pc = "trie" /\ done < Len(Words(match)) /\ done' = done + 1
        /\ trie' = [at.t EXCEPT !.out[at.s] = @ \cup word.out,
                                !.rout[at.s] = @ \cup word.rout]
        /\ tab' = tab /\ pc' = pc /\ match' = match /\ ac' = ac /\ queue' = queue
        /\ head' = head /\ fail' = fail
    BY DEF Insert
  <1>2. Control' BY <1>1 DEF BuildInv, Control
  <1>3. /\ \A f : Given(f)' = Given(f) /\ Cap(f)' = Cap(f) BY <1>1, GivenSame
  <1>4. AcInv'
    <2>1. IsBuilt("decoded") => IsBuilt("decoded")' BY <1>1, <1>3 DEF IsBuilt
    <2> QED BY <1>1, <2>1 DEF BuildInv, AcInv
  <1>5. BfsInv' BY <1>1 DEF BfsInv
  <1>6. tab \in Tables BY DEF BuildInv, Control
  <1>7. PICK W : TrieAt(W, g, done, trie) BY <1>1 DEF BuildInv, TrieInv
  <1>8. Sound(g) /\ Len(g.lens) = Len(Words(match)) BY <1>6, GivenSound
  <1>9. /\ word.w = g.words[done + 1] /\ word.out = g.outs[done + 1]
        /\ word.rout = g.routs[done + 1]
    <2>1. done + 1 \in DOMAIN Words(match)
      <3>1. done \in 0 .. Len(g.lens) BY <1>7 DEF TrieAt
      <3>2. Len(Words(match)) \in Nat /\ DOMAIN Words(match) = 1 .. Len(Words(match))
        BY <1>6, WordsFacts
      <3> QED BY <1>1, <1>8, <3>1, <3>2
    <2> QED BY <2>1 DEF Given, Spellings, Outs, Routs
  <1>10. at = Walk(trie, g.words[done + 1]) BY <1>9
  <1>11. trie' = [at.t EXCEPT !.out[at.s] = @ \cup g.outs[done + 1],
                              !.rout[at.s] = @ \cup g.routs[done + 1]]
    BY <1>1, <1>9
  <1>12. Given(match)' = g /\ Cap(match)' = Cap(match) BY <1>1, <1>3
  <1>13. done < Len(g.lens) BY <1>1, <1>8
  <1> HIDE DEF g, at, word
  <1>14. \E W2 : TrieAt(W2, g, done', trie')
    <2>1. PICK t2 : t2 = trie' OBVIOUS
    <2>2. PICK t : t = trie OBVIOUS
    <2>3. PICK d : d = done OBVIOUS
    <2>4. PICK a : a = at OBVIOUS
    <2>5. t2 = [a.t EXCEPT !.out[a.s] = @ \cup g.outs[d + 1],
                           !.rout[a.s] = @ \cup g.routs[d + 1]]
      BY <1>11, <2>1, <2>3, <2>4
    <2>6. TrieAt(W, g, d, t) /\ d < Len(g.lens) /\ a = Walk(t, g.words[d + 1])
      BY <1>7, <1>10, <1>13, <2>2, <2>3, <2>4
    <2>7. \E W2 : TrieAt(W2, g, d + 1, t2) BY <1>8, <2>5, <2>6, TrieInsert
    <2> QED BY <1>1, <2>1, <2>3, <2>7
  <1>15. TrieInv' 
    <2>1. queue = <<>> /\ head = 1 /\ fail = [s \in 0 .. Cap(match) - 1 |-> 0]
      BY <1>1 DEF BuildInv, TrieInv
    <2> QED BY <1>1, <1>12, <1>14, <2>1 DEF TrieInv
  <1> QED BY <1>2, <1>4, <1>5, <1>15 DEF BuildInv

(* when the root's children start the queue, *)
LEMMA SeedInv == BuildInv /\ Seed => BuildInv'
  <1> SUFFICES ASSUME BuildInv, Seed PROVE BuildInv' OBVIOUS
  <1> DEFINE g == Given(match)
  <1>1. /\ pc = "trie" /\ done = Len(Words(match)) /\ queue' = InOrder(trie.next[0])
        /\ pc' = "bfs" /\ tab' = tab /\ match' = match /\ ac' = ac /\ trie' = trie
        /\ head' = head /\ fail' = fail
    BY DEF Seed
  <1>2. Control' BY <1>1 DEF BuildInv, Control
  <1>3. /\ \A f : Given(f)' = Given(f) /\ Cap(f)' = Cap(f) BY <1>1, GivenSame
  <1>4. AcInv'
    <2>1. IsBuilt("decoded") => IsBuilt("decoded")' BY <1>1, <1>3 DEF IsBuilt
    <2> QED BY <1>1, <2>1 DEF BuildInv, AcInv
  <1>5. TrieInv' BY <1>1 DEF TrieInv
  <1>6. tab \in Tables BY DEF BuildInv, Control
  <1>7. PICK W : TrieAt(W, g, done, trie) BY <1>1 DEF BuildInv, TrieInv
  <1>8. /\ Sound(g) /\ Len(g.lens) = Len(Words(match)) /\ g.bytes = Alphabet
        /\ g.cap = Cap(match)
    BY <1>6, GivenSound
  <1>9. /\ head = 1 /\ fail = [s \in 0 .. Cap(match) - 1 |-> 0] BY <1>1 DEF BuildInv, TrieInv
  <1>10. Given(match)' = g BY <1>1, <1>3
  <1> HIDE DEF g
  <1> DEFINE n == trie.nstates
  <1>11. /\ Labels(W, n, Alphabet) /\ trie \in Record(Alphabet, g.cap)
         /\ \A s \in 0 .. n - 1 : Goto(W, n, Alphabet, trie.next, s)
    BY <1>7, <1>8 DEF TrieAt, Trie
  <1>12. 0 \in 0 .. n - 1 /\ 0 \in 0 .. g.cap - 1
    BY <1>8, <1>11, LabelFacts, CapFacts
  <1>13. trie.next[0] \in [Alphabet -> Nat] BY <1>11, <1>12 DEF Record
  <1>14. ChildrenOf(W, n, Alphabet, 0, queue')
    BY <1>1, <1>6, <1>11, <1>12, <1>13, RowChildren
  <1>15. BfsAt(W, g, trie, queue', 1, fail)
    <2>1. PICK k : k = queue' OBVIOUS
    <2>2. ChildrenOf(W, n, g.bytes, 0, k) BY <1>8, <1>14, <2>1
    <2>3. TrieAt(W, g, Len(g.lens), trie) BY <1>1, <1>7, <1>8
    <2>4. fail = [s \in 0 .. g.cap - 1 |-> 0] BY <1>8, <1>9
    <2>5. BfsAt(W, g, trie, k, 1, fail) BY <1>8, <2>2, <2>3, <2>4, BfsStart
    <2> QED BY <2>1, <2>5
  <1>16. BfsInv' BY <1>1, <1>9, <1>10, <1>15 DEF BfsInv
  <1> QED BY <1>2, <1>4, <1>5, <1>16 DEF BuildInv

(* when a state has been dequeued, *)
LEMMA DequeueInv == BuildInv /\ Dequeue => BuildInv'
  <1> SUFFICES ASSUME BuildInv, Dequeue PROVE BuildInv' OBVIOUS
  <1> DEFINE g == Given(match)
             s == queue[head]
             link == FailLinks(s)
             n == trie.nstates
             k == InOrder(trie.next[s])
  <1>1. /\ pc = "bfs" /\ head <= Len(queue) /\ queue' = queue \o k /\ head' = head + 1
        /\ tab' = tab /\ pc' = pc /\ match' = match /\ ac' = ac
    BY DEF Dequeue
  <1>2. /\ trie' = [trie EXCEPT !.next[s] = [b \in Alphabet |->
                                     IF trie.next[s][b] = 0 THEN trie.next[fail[s]][b]
                                     ELSE trie.next[s][b]],
                                !.out = United(@, link), !.rout = United(@, link)]
        /\ fail' = [v \in DOMAIN fail |-> IF v \in DOMAIN link THEN link[v] ELSE fail[v]]
    BY DEF Dequeue
  <1>3. Control' BY <1>1 DEF BuildInv, Control
  <1>4. /\ \A f : Given(f)' = Given(f) /\ Cap(f)' = Cap(f) BY <1>1, GivenSame
  <1>5. AcInv'
    <2>1. IsBuilt("decoded") => IsBuilt("decoded")' BY <1>1, <1>4 DEF IsBuilt
    <2> QED BY <1>1, <2>1 DEF BuildInv, AcInv
  <1>6. TrieInv' BY <1>1 DEF TrieInv
  <1>7. tab \in Tables BY DEF BuildInv, Control
  <1>8. PICK W : BfsAt(W, g, trie, queue, head, fail) BY <1>1 DEF BuildInv, BfsInv
  <1>9. Sound(g) /\ g.bytes = Alphabet BY <1>7, GivenSound
  <1>10. Given(match)' = g BY <1>1, <1>4
  <1>11. Dequeues(g.bytes, g.cap, trie, fail, s, link, trie', fail')
    BY <1>2, <1>9 DEF Dequeues
  <1> HIDE DEF g, link, k
  <1>12. /\ Labels(W, n, Alphabet) /\ trie \in Record(Alphabet, g.cap) /\ n <= g.cap
         /\ Order(W, n, Alphabet, queue, head)
         /\ Rows(W, n, Alphabet, g.cap, trie.next, queue, head) /\ Linked(W, n, queue, fail)
    BY <1>8, <1>9 DEF BfsAt
  <1>13. s \in 0 .. n - 1 /\ Goto(W, n, Alphabet, trie.next, s)
    BY <1>1, <1>12, Shallow, HeadLink
  <1>14. s \in 0 .. g.cap - 1
    BY <1>9, <1>12, <1>13, LabelFacts, CapFacts
  <1>15. trie.next[s] \in [Alphabet -> Nat] BY <1>12, <1>14 DEF Record
  <1>16. ChildrenOf(W, n, Alphabet, s, k)
    BY <1>7, <1>12, <1>13, <1>15, RowChildren DEF k
  <1>17. Falls(W, n, Alphabet, trie.next, fail[s], s, link)
    BY <1>12, <1>13, RowLinks DEF link
  <1>18. BfsAt(W, g, trie', queue \o k, head + 1, fail')
    <2>1. PICK t2 : t2 = trie' OBVIOUS
    <2>2. PICK fl2 : fl2 = fail' OBVIOUS
    <2>3. Dequeues(g.bytes, g.cap, trie, fail, queue[head], link, t2, fl2) BY <1>11, <2>1, <2>2
    <2>4. ChildrenOf(W, trie.nstates, g.bytes, queue[head], k) BY <1>9, <1>16
    <2>5. Falls(W, trie.nstates, g.bytes, trie.next, fail[queue[head]], queue[head], link)
      BY <1>9, <1>17
    <2>6. BfsAt(W, g, t2, queue \o k, head + 1, fl2)
      BY <1>1, <1>8, <1>9, <2>3, <2>4, <2>5, BfsStep
    <2> QED BY <2>1, <2>2, <2>6
  <1>19. BfsInv' BY <1>1, <1>10, <1>18 DEF BfsInv
  <1> QED BY <1>3, <1>5, <1>6, <1>19 DEF BuildInv

(* when an automaton is finished, *)
LEMMA BuiltInv == BuildInv /\ Built => BuildInv'
  <1> SUFFICES ASSUME BuildInv, Built PROVE BuildInv' OBVIOUS
  <1>1. /\ pc = "bfs" /\ head > Len(queue) /\ ac' = [ac EXCEPT ![match] = trie]
        /\ pc' = IF match = "decoded" THEN "size" ELSE "ready"
        /\ match' = "raw" /\ tab' = tab
    BY DEF Built
  <1>2. tab \in Tables /\ match \in {"decoded", "raw"} /\ DOMAIN ac = {"decoded", "raw"}
    BY DEF BuildInv, Control, Flavours
  <1>3. Control'
    <2>1. DOMAIN ac' = DOMAIN ac BY <1>1
    <2> QED BY <1>1, <1>2, <2>1 DEF Control, Flavours
  <1>4. \A f : Given(f)' = Given(f) BY <1>1, GivenSame
  <1>5. TrieInv' /\ BfsInv' BY <1>1 DEF TrieInv, BfsInv
  <1>6. \E W : Automaton(W, Given(match), trie)
    <2>1. PICK W : BfsAt(W, Given(match), trie, queue, head, fail)
      BY <1>1 DEF BuildInv, BfsInv
    <2> QED BY <1>1, <2>1, BfsEnd
  <1>7. CASE match = "decoded"
    <2>1. ac'["decoded"] = trie BY <1>1, <1>2, <1>7
    <2>2. IsBuilt("decoded")' BY <1>4, <1>6, <1>7, <2>1 DEF IsBuilt
    <2>3. pc' = "size" BY <1>1, <1>7
    <2>4. AcInv' BY <2>2, <2>3 DEF AcInv
    <2> QED BY <1>3, <1>5, <2>4 DEF BuildInv
  <1>8. CASE match = "raw"
    <2>1. ac'["raw"] = trie /\ ac'["decoded"] = ac["decoded"] BY <1>1, <1>2, <1>8
    <2>2. IsBuilt("raw")' BY <1>4, <1>6, <1>8, <2>1 DEF IsBuilt
    <2>3. IsBuilt("decoded") BY <1>8 DEF BuildInv, AcInv
    <2>4. IsBuilt("decoded")' BY <1>4, <2>1, <2>3 DEF IsBuilt
    <2>5. AcInv' BY <1>1, <2>2, <2>4 DEF AcInv
    <2> QED BY <1>3, <1>5, <2>5 DEF BuildInv
  <1> QED BY <1>2, <1>7, <1>8

(* What neither builds nor fails leaves the tables and the automata alone. *)
Idle == /\ tab' = tab /\ match' = match /\ ac' = ac /\ done' = done /\ trie' = trie
        /\ queue' = queue /\ head' = head /\ fail' = fail
        /\ \/ pc' = pc
           \/ pc \in {"ready", "scanned"} /\ pc' \in {"ready", "scanned"}

(* and when nothing is built. *)
LEMMA RestInv == BuildInv /\ Idle => BuildInv'
  <1> SUFFICES ASSUME BuildInv, Idle PROVE BuildInv' OBVIOUS
  <1> USE DEF Idle
  <1>1. \A f : Given(f)' = Given(f) /\ Cap(f)' = Cap(f) BY GivenSame
  <1>2. Given(match)' = Given(match) /\ Cap(match)' = Cap(match) BY <1>1
  <1>3. Control' BY DEF BuildInv, Control
  <1>4. TrieInv' BY <1>2 DEF BuildInv, TrieInv
  <1>5. BfsInv' BY <1>2 DEF BuildInv, BfsInv
  <1>6. \A f : IsBuilt(f) => IsBuilt(f)' BY <1>1 DEF IsBuilt
  <1>7. AcInv' BY <1>6 DEF BuildInv, AcInv
  <1> QED BY <1>3, <1>4, <1>5, <1>7 DEF BuildInv

(* The construction of an automaton (ngx_http_shield_ac_build) is sound at *)
(* every step, whatever the tables: while words are inserted the states    *)
(* are the prefixes of those inserted, each once; in the breadth-first     *)
(* pass the queue holds the children of the states that left it, in the    *)
(* order of their depth, every state that was queued has the fail link and *)
(* the outputs that it must have, and every row that left is flat; and     *)
(* what init keeps in the end is, for either flavour, an automaton whose   *)
(* rows lead to the longest prefix that ends at the byte and whose outputs *)
(* are those of all words that end there.                                  *)
THEOREM BuildIsSound == Spec => []BuildInv
  <1>1. BuildInv /\ [Next]_vars => BuildInv'
    <2> SUFFICES ASSUME BuildInv, [Next]_vars PROVE BuildInv' OBVIOUS
    <2>1. CASE Size BY <2>1, SizeInv
    <2>2. CASE Insert BY <2>2, InsertInv
    <2>3. CASE Seed BY <2>3, SeedInv
    <2>4. CASE Dequeue BY <2>4, DequeueInv
    <2>5. CASE Built BY <2>5, BuiltInv
    <2>6. CASE Scan BY <2>6, RestInv DEF Scan, build, Idle
    <2>7. CASE Return BY <2>7, RestInv DEF Return, build, Idle
    <2>8. CASE UNCHANGED vars
      <3>1. Idle BY <2>8 DEF vars, Idle
      <3> QED BY <3>1, RestInv
    <2>9. CASE Refused BY <2>8, <2>9 DEF Refused
    <2> QED BY <2>1, <2>2, <2>3, <2>4, <2>5, <2>6, <2>7, <2>8, <2>9 DEF Next, Build
  <1> QED BY <1>1, InitBuildInv, PTL DEF Spec

(* ac_build writes outside none of its arrays, whatever the tables: the    *)
(* count of "one state per signature byte, plus the root" bounds the       *)
(* states, the transitions and the queue, and no state is queued twice.    *)
THEOREM ArraysAreLargeEnough == Spec => []InBounds
  <1>1. BuildInv => InBounds
    <2> SUFFICES ASSUME BuildInv, pc \in {"trie", "bfs"}
                 PROVE  /\ trie.nstates <= Cap(match)
                        /\ \A s \in DOMAIN trie.next : \A b \in Alphabet :
                              trie.next[s][b] < trie.nstates
                        /\ Len(queue) < Cap(match)
                        /\ \A i, j \in DOMAIN queue : queue[i] = queue[j] => i = j
      BY DEF InBounds
    <2> DEFINE g == Given(match)
    <2>1. tab \in Tables BY DEF BuildInv, Control
    <2>2. Sound(g) /\ g.bytes = Alphabet /\ g.cap = Cap(match) BY <2>1, GivenSound
    <2> HIDE DEF g
    <2>3. CASE pc = "trie"
      <3>1. PICK W : TrieAt(W, g, done, trie) BY <2>3 DEF BuildInv, TrieInv, g
      <3>2. Closed(Alphabet, Cap(match), trie) BY <2>2, <3>1, TrieClosed
      <3>3. queue = <<>> BY <2>3 DEF BuildInv, TrieInv
      <3>4. Cap(match) \in Nat /\ Cap(match) >= 1 BY <2>2, CapFacts
      <3>5. Len(queue) < Cap(match) /\ DOMAIN queue = {} BY <3>3, <3>4
      <3> QED BY <3>2, <3>5 DEF Closed
    <2>4. CASE pc = "bfs"
      <3>1. PICK W : BfsAt(W, g, trie, queue, head, fail) BY <2>4 DEF BuildInv, BfsInv, g
      <3>2. Closed(Alphabet, Cap(match), trie) /\ Len(queue) < Cap(match) /\ Distinct(queue)
        BY <2>2, <3>1, BfsClosed
      <3> QED BY <3>2 DEF Closed, Distinct
    <2> QED BY <2>3, <2>4
  <1> QED BY <1>1, BuildIsSound, PTL

(* ac_build never copies from a row that is not flat yet: the fail state   *)
(* of the state that is dequeued is the root or has left the queue before  *)
(* it, as the comment in the breadth-first pass claims.                    *)
THEOREM FailStatesAreFlat == Spec => []FailIsFlat
  <1>1. BuildInv => FailIsFlat
    <2> SUFFICES ASSUME BuildInv, pc = "bfs", head <= Len(queue)
                 PROVE  fail[queue[head]] \in {0} \cup ToSet(SubSeq(queue, 1, head - 1))
      BY DEF FailIsFlat
    <2> DEFINE g == Given(match)
               n == trie.nstates
    <2>1. PICK W : BfsAt(W, g, trie, queue, head, fail) BY DEF BuildInv, BfsInv
    <2>2. /\ Labels(W, n, g.bytes) /\ Order(W, n, g.bytes, queue, head)
          /\ Rows(W, n, g.bytes, g.cap, trie.next, queue, head) /\ Linked(W, n, queue, fail)
      BY <2>1 DEF BfsAt
    <2> HIDE DEF g, n
    <2>3. fail[queue[head]] \in Left(queue, head) BY <2>2, HeadLink
    <2>4. /\ head \in Nat /\ head >= 1 /\ Len(queue) \in Nat BY <2>2, QueueFacts
    <2>5. queue \in Seq(1 .. n - 1) BY <2>2 DEF Order
    <2>6. /\ DOMAIN SubSeq(queue, 1, head - 1) = 1 .. head - 1
          /\ \A i \in 1 .. head - 1 : SubSeq(queue, 1, head - 1)[i] = queue[i]
      BY <2>4, <2>5, SubSeqProperties
    <2> QED BY <2>3, <2>6 DEF Left, ToSet
  <1> QED BY <1>1, BuildIsSound, PTL

----------------------------------------------------------------------------
(* The scan                                                                *)

(* After every byte the automaton is in the state with the longest label   *)
(* that ends there.                                                        *)
LEMMA StatesLongest ==
    ASSUME NEW g, Sound(g), NEW W, NEW a, Automaton(W, g, a), NEW B, NEW t \in Seq(B)
    PROVE  \A i \in 0 .. Len(t) : Longest(W, a.nstates, t, i, States(a, t)[i])
  <1> DEFINE n == a.nstates
             A == g.bytes
             nx == a.next
             l == Len(t)
             V == 0 .. n - 1
             by(i, v) == IF t[i] \in A THEN nx[v][t[i]] ELSE 0
             step == [i \in 1 .. l |-> [v \in V |-> by(i, v)]]
             Rec(s) == s = [i \in 0 .. l |-> IF i > 0 /\ t[i] \in DOMAIN nx[0]
                                               THEN nx[s[i - 1]][t[i]] ELSE 0]
             r == CHOOSE s : Rec(s)
  <1>1. /\ Labels(W, n, A) /\ a \in Record(A, g.cap) /\ n <= g.cap
        /\ \A s \in V : \A b \in A : Goes(W, n, s, b, nx[s][b])
    BY DEF Automaton
  <1>2. States(a, t) = r BY DEF States
  <1>3. l \in Nat BY LenProperties
  <1>4. n \in Nat /\ n >= 1 /\ 0 \in V BY <1>1, LabelFacts
  <1>5. 0 \in 0 .. g.cap - 1 BY CapFacts
  <1>6. DOMAIN nx[0] = A BY <1>1, <1>5 DEF Record
  <1>7. \A s \in V : \A b \in A : nx[s][b] \in V BY <1>1 DEF Goes, Longest
  <1> HIDE DEF n, A, nx, l, V, r
  <1>8. \A i \in 1 .. l : \A v \in V : by(i, v) \in V BY <1>4, <1>7
  <1> HIDE DEF by
  <1>9. step \in [1 .. l -> [V -> V]] BY <1>8
  <1>10. PICK h : Iterates(h, l, V, 0, step)
    <2> DEFINE z == 0
    <2>1. z \in V BY <1>4
    <2> HIDE DEF step, z
    <2>2. \E h : Iterates(h, l, V, z, step) BY <1>3, <1>9, <2>1, Recursion
    <2> QED BY <2>2 DEF z
  <1>11. Rec(h)
    <2>1. ASSUME NEW i \in 0 .. l
          PROVE  h[i] = IF i > 0 /\ t[i] \in DOMAIN nx[0] THEN nx[h[i - 1]][t[i]] ELSE 0
      <3>1. CASE i = 0
        <4>1. ~ i > 0 BY <3>1
        <4> QED BY <1>10, <3>1, <4>1 DEF Iterates
      <3>2. CASE i # 0
        <4>1. i \in 1 .. l /\ i - 1 \in 0 .. l /\ i > 0 BY <1>3, <3>2
        <4>2. h[i] = step[i][h[i - 1]] /\ h[i - 1] \in V BY <1>10, <4>1 DEF Iterates
        <4>3. h[i] = by(i, h[i - 1]) BY <4>1, <4>2
        <4> QED BY <1>6, <4>1, <4>3 DEF by
      <3> QED BY <3>1, <3>2
    <2>2. h = [i \in 0 .. l |-> h[i]] BY <1>10 DEF Iterates
    <2> QED BY <2>1, <2>2
  <1>12. Rec(r) BY <1>11 DEF r
  <1>13. r[0] = 0
    <2>1. 0 \in 0 .. l /\ ~ 0 > 0 BY <1>3
    <2> QED BY <1>12, <2>1
  <1>14. ASSUME NEW i \in Nat, i < l
         PROVE  r[i + 1] = IF t[i + 1] \in A THEN nx[r[i]][t[i + 1]] ELSE 0
    <2>1. i + 1 \in 0 .. l /\ i + 1 > 0 /\ (i + 1) - 1 = i BY <1>3, <1>14
    <2> QED BY <1>6, <1>12, <2>1
  <1> HIDE DEF Rec
  <1> DEFINE S == {i \in Nat : i <= l => Longest(W, n, t, i, r[i])}
  <1>15. 0 \in S BY <1>1, <1>13, LongestStart
  <1>16. ASSUME NEW i \in Nat, i \in S PROVE i + 1 \in S
    <2> SUFFICES ASSUME i + 1 <= l PROVE Longest(W, n, t, i + 1, r[i + 1])
      OBVIOUS
    <2>1. i < l /\ Longest(W, n, t, i, r[i]) BY <1>3, <1>16
    <2> DEFINE s == r[i]
               u == nx[s][t[i + 1]]
    <2>2. CASE t[i + 1] \in A
      <3>1. r[i + 1] = u BY <1>14, <2>1, <2>2
      <3>2. s \in V BY <2>1 DEF Longest, V
      <3>3. Goes(W, n, s, t[i + 1], u) BY <1>1, <2>2, <3>2
      <3> HIDE DEF u, s
      <3>4. Longest(W, n, t, i + 1, u)
        <4>1. Longest(W, n, t, i, s) BY <2>1 DEF s
        <4> QED BY <1>1, <2>2, <3>3, <4>1, LongestStep
      <3> QED BY <3>1, <3>4
    <2>3. CASE t[i + 1] \notin A
      <3>1. r[i + 1] = 0 BY <1>14, <2>1, <2>3
      <3>2. Longest(W, n, t, i + 1, 0) BY <1>1, <2>3, LongestOther
      <3> QED BY <3>1, <3>2
    <2> QED BY <2>2, <2>3
  <1> HIDE DEF S
  <1>17. Nat \subseteq S BY <1>15, <1>16, SetInduction
  <1>18. \A i \in 0 .. l : Longest(W, n, t, i, r[i]) BY <1>3, <1>17 DEF S
  <1> QED BY <1>2, <1>18 DEF n, l

(* so that its outputs are those of all the words that end there. *)
LEMMA StatesOutput ==
    ASSUME NEW g, Sound(g), NEW W, NEW a, Automaton(W, g, a), NEW B, NEW t \in Seq(B),
           NEW i \in 0 .. Len(t)
    PROVE  /\ a.out[States(a, t)[i]] = AllOf(g.words, g.outs, t, i)
           /\ a.rout[States(a, t)[i]] = AllOf(g.words, g.routs, t, i)
  <1> DEFINE n == a.nstates
             s == States(a, t)[i]
             A == g.bytes
  <1>1. Labels(W, n, A) /\ Spelt(W, n, g.words) BY DEF Automaton
  <1>2. Longest(W, n, t, i, s) BY StatesLongest
  <1>3. s \in 0 .. n - 1 BY <1>2 DEF Longest
  <1>4. /\ a.out[s] = AllOf(g.words, g.outs, W[s], Len(W[s]))
        /\ a.rout[s] = AllOf(g.words, g.routs, W[s], Len(W[s]))
    BY <1>3 DEF Automaton
  <1>5. i \in Nat BY LenProperties
  <1> HIDE DEF n, s, A
  <1>6. AllOf(g.words, g.outs, W[s], Len(W[s])) = AllOf(g.words, g.outs, t, i)
    BY <1>1, <1>2, <1>5, LongestAll
  <1>7. AllOf(g.words, g.routs, W[s], Len(W[s])) = AllOf(g.words, g.routs, t, i)
    BY <1>1, <1>2, <1>5, LongestAll
  <1> QED BY <1>4, <1>6, <1>7 DEF s

(* The least element is there, and there is only one. *)
LEMMA LeastFacts ==
    ASSUME NEW S, S \subseteq Nat, S # {}
    PROVE  /\ Least(S) \in S /\ \A j \in S : Least(S) <= j
           /\ \A i \in S : (\A j \in S : i <= j) => i = Least(S)
  <1>1. \E i \in S : \A j \in S : i <= j BY LeastNatural
  <1>2. Least(S) \in S /\ \A j \in S : Least(S) <= j BY <1>1 DEF Least
  <1> HIDE DEF Least
  <1>3. ASSUME NEW i \in S, \A j \in S : i <= j PROVE i = Least(S)
    <2>1. i <= Least(S) /\ Least(S) <= i /\ i \in Nat /\ Least(S) \in Nat BY <1>2, <1>3
    <2> QED BY <2>1
  <1> QED BY <1>2, <1>3

(* A category's row is where it is in the table. *)
LEMMA RowOfCategory ==
    ASSUME tab \in Tables, NEW f, NEW r \in 1 .. NCATEGORIES, f \in tab.categories[r].bufs
    PROVE  Row(f, tab.categories[r].cat) = r
  <1> DEFINE c == tab.categories[r].cat
             inF(i) == \/ f \in tab.categories[i].bufs
                       \/ \E k \in DOMAIN tab.rules : f \in tab.rules[k].bufs
                                                      /\ tab.rules[k].cat = c
             rows == {i \in 1 .. NCATEGORIES : tab.categories[i].cat = c /\ inF(i)}
  <1>1. rows = {r} BY CategoryFacts
  <1>2. Row(f, c) = IF rows = {} THEN NCATEGORIES + 1 ELSE CHOOSE i \in rows : TRUE
    BY DEF Row
  <1> HIDE DEF rows
  <1> QED BY <1>1, <1>2

(* and a rule's category has one. *)
LEMMA RowOfRule ==
    ASSUME tab \in Tables, NEW f, NEW k \in DOMAIN tab.rules, f \in tab.rules[k].bufs
    PROVE  Row(f, tab.rules[k].cat) <= NCATEGORIES
  <1> DEFINE c == tab.rules[k].cat
             inF(i) == \/ f \in tab.categories[i].bufs
                       \/ \E j \in DOMAIN tab.rules : f \in tab.rules[j].bufs
                                                      /\ tab.rules[j].cat = c
             rows == {i \in 1 .. NCATEGORIES : tab.categories[i].cat = c /\ inF(i)}
  <1>1. rows # {} BY RuleFacts
  <1>2. Row(f, c) = IF rows = {} THEN NCATEGORIES + 1 ELSE CHOOSE i \in rows : TRUE
    BY DEF Row
  <1>3. NCATEGORIES \in Nat BY CategoryFacts
  <1>4. rows \subseteq 1 .. NCATEGORIES OBVIOUS
  <1> HIDE DEF rows, c
  <1>5. Row(f, c) \in 1 .. NCATEGORIES BY <1>1, <1>2, <1>4
  <1>6. Row(f, c) <= NCATEGORIES BY <1>3, <1>5
  <1> QED BY <1>6 DEF c

(* The rows with a signature that ends at i and is not masked, and the     *)
(* rules whose terms all occur.                                            *)
RowsAt(f, t, mask, i) == {r \in 1 .. NCATEGORIES :
                            /\ f \in tab.categories[r].bufs
                            /\ tab.categories[r].cat \notin mask
                            /\ \E j \in DOMAIN tab.categories[r].sigs :
                                  EndsAt(tab.categories[r].sigs[j], t, i)}

(* The rules of f that are complete in t, *)
Complete(f, t, mask) == {k \in DOMAIN tab.rules :
                   /\ f \in tab.rules[k].bufs /\ tab.rules[k].cat \notin mask
                   /\ \A j \in DOMAIN tab.rules[k].terms : Occurs(tab.rules[k].terms[j], t)}

(* and the categories of the signatures that end at i. *)
CatsAt(f, t, mask, i, cats) ==
    \A c : c \in cats <=> \E r \in RowsAt(f, t, mask, i) : tab.categories[r].cat = c

(* What is live after a byte are the categories of those rows. *)
LEMMA LiveRows ==
    ASSUME tab \in Tables, NEW f, IsBuilt(f), NEW B, NEW t \in Seq(B), NEW mask,
           NEW i \in DOMAIN t
    PROVE  CatsAt(f, t, mask, i, Live(f, States(ac[f], t)[i], mask))
  <1> SUFFICES ASSUME NEW c
               PROVE  c \in Live(f, States(ac[f], t)[i], mask)
                         <=> \E r \in RowsAt(f, t, mask, i) : tab.categories[r].cat = c
    BY DEF CatsAt
  <1> DEFINE g == Given(f)
             a == ac[f]
  <1>1. Sound(g) BY GivenSound
  <1>2. PICK W : Automaton(W, g, a) BY DEF IsBuilt
  <1>3. i \in 0 .. Len(t) BY LenProperties
  <1>4. g.words = Spellings(f) /\ g.outs = Outs(f) BY DEF Given
  <1> HIDE DEF g, a
  <1>5. a.out[States(a, t)[i]] = AllOf(g.words, g.outs, t, i)
    BY <1>1, <1>2, <1>3, StatesOutput
  <1>6. c \in a.out[States(a, t)[i]] <=>
              \E r \in 1 .. NCATEGORIES :
                 /\ f \in tab.categories[r].bufs /\ tab.categories[r].cat = c
                 /\ \E j \in DOMAIN tab.categories[r].sigs :
                       EndsAt(tab.categories[r].sigs[j], t, i)
    BY <1>4, <1>5, OutsEnd
  <1>7. c \in Live(f, States(a, t)[i], mask) <=> c \in a.out[States(a, t)[i]] /\ c \notin mask
    BY DEF Live, a
  <1> QED BY <1>6, <1>7 DEF RowsAt, a

(* The best of them is that of the first row. *)
LEMMA BestRow ==
    ASSUME tab \in Tables, NEW f, NEW t, NEW mask, NEW i, NEW cats,
           RowsAt(f, t, mask, i) # {},
           CatsAt(f, t, mask, i, cats)
    PROVE  Best(f, cats) = tab.categories[Least(RowsAt(f, t, mask, i))].cat
  <1> DEFINE R == RowsAt(f, t, mask, i)
             cat(r) == tab.categories[r].cat
             l == Least(R)
             Is(c) == c \in cats /\ \A d \in cats : Row(f, c) <= Row(f, d)
  <1>1. \A r \in R : r \in 1 .. NCATEGORIES /\ f \in tab.categories[r].bufs BY DEF RowsAt
  <1>2. \A r \in R : Row(f, cat(r)) = r BY <1>1, RowOfCategory
  <1>3. NCATEGORIES \in Nat BY CategoryFacts
  <1>4. R \subseteq Nat BY <1>1, <1>3
  <1> HIDE DEF R, l, cat
  <1>5. R # {} /\ \A c : c \in cats <=> \E r \in R : cat(r) = c BY DEF R, cat, CatsAt
  <1>6. l \in R /\ \A j \in R : l <= j BY <1>4, <1>5, LeastFacts DEF l
  <1>7. Is(cat(l)) BY <1>2, <1>5, <1>6
  <1>8. Best(f, cats) = CHOOSE c : Is(c)
    <2>1. Best(f, cats) = CHOOSE c \in cats : \A d \in cats : Row(f, c) <= Row(f, d)
      BY DEF Best
    <2> QED BY <2>1
  <1>9. Is(Best(f, cats)) BY <1>7, <1>8
  <1>10. PICK r \in R : cat(r) = Best(f, cats) BY <1>5, <1>9
  <1>11. r <= l BY <1>2, <1>5, <1>6, <1>9, <1>10
  <1>12. l <= r /\ l \in Nat /\ r \in Nat BY <1>4, <1>6
  <1>13. r = l BY <1>11, <1>12
  <1> QED BY <1>10, <1>13 DEF l, R, cat

(* A rule is complete when each of its terms has been seen. *)
LEMMA SeenTerms ==
    ASSUME tab \in Tables, NEW f, IsBuilt(f), NEW B, NEW t \in Seq(B),
           NEW k \in DOMAIN tab.rules, NEW j \in DOMAIN tab.rules[k].terms,
           f \in tab.rules[k].bufs
    PROVE  <<k, j>> \in UNION {ac[f].rout[States(ac[f], t)[i]] : i \in DOMAIN t}
              <=> Occurs(tab.rules[k].terms[j], t)
  <1> DEFINE g == Given(f)
             a == ac[f]
             s == States(a, t)
             e == <<k, j>>
  <1>1. Sound(g) BY GivenSound
  <1>2. PICK W : Automaton(W, g, a) BY DEF IsBuilt
  <1>3. \A i \in DOMAIN t : i \in 0 .. Len(t) BY LenProperties
  <1>4. g.words = Spellings(f) /\ g.routs = Routs(f) BY DEF Given
  <1> HIDE DEF g, a, s
  <1>5. ASSUME NEW i \in DOMAIN t
        PROVE  e \in a.rout[s[i]] <=> EndsAt(tab.rules[k].terms[j], t, i)
    <2>1. a.rout[s[i]] = AllOf(g.words, g.routs, t, i)
      BY <1>1, <1>2, <1>3, StatesOutput DEF s
    <2> QED BY <1>4, <2>1, RoutsEnd
  <1> HIDE DEF e
  <1>6. e \in UNION {a.rout[s[i]] : i \in DOMAIN t} <=> \E i \in DOMAIN t : e \in a.rout[s[i]]
    OBVIOUS
  <1> QED BY <1>5, <1>6 DEF Occurs, a, s, e

(* The rules that the term bitmap completes are those whose terms all      *)
(* occur.                                                                  *)
LEMMA SeenRules ==
    ASSUME tab \in Tables, NEW f, IsBuilt(f), NEW B, NEW t \in Seq(B), NEW mask
    PROVE  {i \in DOMAIN tab.rules :
              /\ Need(f, i) # {}
              /\ Need(f, i) \subseteq UNION {ac[f].rout[States(ac[f], t)[p]] : p \in DOMAIN t}
              /\ tab.rules[i].cat \notin mask
              /\ Row(f, tab.rules[i].cat) <= NCATEGORIES} = Complete(f, t, mask)
  <1> DEFINE seen == UNION {ac[f].rout[States(ac[f], t)[p]] : p \in DOMAIN t}
             In(i) == /\ Need(f, i) # {} /\ Need(f, i) \subseteq seen
                      /\ tab.rules[i].cat \notin mask
                      /\ Row(f, tab.rules[i].cat) <= NCATEGORIES
  <1>1. \A k \in DOMAIN tab.rules : \A j \in DOMAIN tab.rules[k].terms :
           f \in tab.rules[k].bufs => (<<k, j>> \in seen <=> Occurs(tab.rules[k].terms[j], t))
    BY SeenTerms
  <1> HIDE DEF seen
  <1>2. ASSUME NEW k \in DOMAIN tab.rules
        PROVE  In(k) <=>
                  /\ f \in tab.rules[k].bufs /\ tab.rules[k].cat \notin mask
                  /\ \A j \in DOMAIN tab.rules[k].terms : Occurs(tab.rules[k].terms[j], t)
    <2>1. CASE f \notin tab.rules[k].bufs
      <3>1. Need(f, k) = {} BY <2>1 DEF Need
      <3> QED BY <2>1, <3>1
    <2>2. CASE f \in tab.rules[k].bufs
      <3>1. Need(f, k) = {<<k, j>> : j \in DOMAIN tab.rules[k].terms} BY <2>2 DEF Need
      <3>2. DOMAIN tab.rules[k].terms # {} BY RuleFacts
      <3>3. Need(f, k) # {} BY <3>1, <3>2
      <3>4. Need(f, k) \subseteq seen <=> \A j \in DOMAIN tab.rules[k].terms : <<k, j>> \in seen
        BY <3>1
      <3>5. Row(f, tab.rules[k].cat) <= NCATEGORIES BY <2>2, RowOfRule
      <3> QED BY <1>1, <2>2, <3>3, <3>4, <3>5
    <2> QED BY <2>1, <2>2
  <1> HIDE DEF In
  <1>3. {i \in DOMAIN tab.rules : In(i)} = Complete(f, t, mask) BY <1>2 DEF Complete
  <1> QED BY <1>3 DEF In, seen

(* A scan reports what is wanted. *)
LEMMA ScanFinds ==
    ASSUME tab \in Tables, NEW f, IsBuilt(f), NEW B, NEW t \in Seq(B), NEW mask
    PROVE  ac_scan(f, t, mask) = Wanted(f, t, mask)
  <1> DEFINE s == States(ac[f], t)
             live(i) == Live(f, s[i], mask)
             hits == {i \in DOMAIN t : live(i) # {}}
             seen == UNION {ac[f].rout[s[i]] : i \in DOMAIN t}
             complete == {i \in DOMAIN tab.rules :
                            /\ Need(f, i) # {} /\ Need(f, i) \subseteq seen
                            /\ tab.rules[i].cat \notin mask
                            /\ Row(f, tab.rules[i].cat) <= NCATEGORIES}
             ends == {i \in DOMAIN t : RowsAt(f, t, mask, i) # {}}
             all == Complete(f, t, mask)
  <1>1. ac_scan(f, t, mask) =
           CASE hits # {} -> Best(f, live(Least(hits)))
             [] hits = {} /\ complete # {} -> tab.rules[Least(complete)].cat
             [] OTHER -> NoHit
    BY DEF ac_scan
  <1>2. Wanted(f, t, mask) =
           IF ends # {} THEN tab.categories[Least(RowsAt(f, t, mask, Least(ends)))].cat
           ELSE IF all # {} THEN tab.rules[Least(all)].cat ELSE NoHit
    BY DEF Wanted, RowsAt, Complete
  <1>3. complete = all BY SeenRules
  <1>4. \A i \in DOMAIN t : CatsAt(f, t, mask, i, live(i)) BY LiveRows
  <1>5. hits = ends
    <2>1. \A i \in DOMAIN t : live(i) # {} <=> RowsAt(f, t, mask, i) # {}
      <3> HIDE DEF live
      <3> QED BY <1>4 DEF CatsAt
    <2> HIDE DEF live
    <2> QED BY <2>1
  <1>6. ends \subseteq Nat /\ ends \subseteq DOMAIN t BY LenProperties
  <1>7. \A i \in ends : RowsAt(f, t, mask, i) # {} OBVIOUS
  <1> HIDE DEF hits, complete, ends, all, live
  <1>8. CASE ends # {}
    <2> DEFINE i == Least(ends)
    <2>1. i \in ends BY <1>6, <1>8, LeastFacts
    <2> HIDE DEF i
    <2>2. RowsAt(f, t, mask, i) # {} BY <1>7, <2>1
    <2>3. CatsAt(f, t, mask, i, live(i))
      BY <1>4, <1>6, <2>1
    <2>4. PICK cats : cats = live(i) OBVIOUS
    <2>5. Best(f, cats) = tab.categories[Least(RowsAt(f, t, mask, i))].cat
      BY <2>2, <2>3, <2>4, BestRow
    <2> QED BY <1>1, <1>2, <1>5, <1>8, <2>4, <2>5 DEF i
  <1>9. CASE ends = {} BY <1>1, <1>2, <1>3, <1>5, <1>9
  <1> QED BY <1>8, <1>9

----------------------------------------------------------------------------
(* Normalisation                                                           *)

(* The value of a hex digit; 16 is no digit. *)
LEMMA HexFacts ==
    ASSUME NEW b \in Byte
    PROVE  /\ Lower(b) \in Byte /\ HexDigit(b) \in 0 .. 16
           /\ b \in 48 .. 57 => HexDigit(b) = b - 48
           /\ Lower(b) \in 97 .. 102 => HexDigit(b) = Lower(b) - 87
  <1>1. Lower(b) \in Byte BY DEF Lower, Byte, Capital
  <1>2. Lower(b) \in 97 .. 102 => b \notin 48 .. 57 BY DEF Lower, Byte, Capital
  <1> DEFINE l == Lower(b)
  <1> HIDE DEF l
  <1>3. HexDigit(b) = CASE b \in 48 .. 57 -> b - 48 [] l \in 97 .. 102 -> l - 87 [] OTHER -> 16
    BY DEF HexDigit, l
  <1>4. CASE b \in 48 .. 57
    <2>1. l \notin 97 .. 102 BY <1>2, <1>4 DEF l
    <2>2. HexDigit(b) = b - 48 BY <1>3, <1>4, <2>1
    <2>3. b - 48 \in 0 .. 16 BY <1>4
    <2> QED BY <1>1, <2>1, <2>2, <2>3 DEF l
  <1>5. CASE l \in 97 .. 102
    <2>1. b \notin 48 .. 57 BY <1>2, <1>5 DEF l
    <2>2. HexDigit(b) = l - 87 BY <1>3, <1>5, <2>1
    <2>3. l - 87 \in 0 .. 16 BY <1>5
    <2> QED BY <1>1, <2>1, <2>2, <2>3 DEF l
  <1>6. CASE b \notin 48 .. 57 /\ l \notin 97 .. 102
    <2>1. HexDigit(b) = 16 BY <1>3, <1>6
    <2> QED BY <1>1, <1>6, <2>1 DEF l
  <1> QED BY <1>4, <1>5, <1>6

(* What a step of ngx_unescape_uri keeps, and how it grows. *)
Unescaping == [high : 0 .. 17, dst : Seq(Byte)]

(* The cases of the switch in ngx_unescape_uri. *)
LEMMA UnescapeCases ==
    ASSUME NEW at, NEW b
    PROVE  /\ at.high = 16 /\ b = PERCENT => UnescapeByte(at, b) = [at EXCEPT !.high = 17]
           /\ at.high = 16 /\ b # PERCENT =>
                 UnescapeByte(at, b) = [at EXCEPT !.dst = Append(at.dst, b)]
           /\ at.high = 17 /\ HexDigit(b) < 16 =>
                 UnescapeByte(at, b) = [at EXCEPT !.high = HexDigit(b)]
           /\ at.high = 17 /\ HexDigit(b) = 16 /\ ~ HexDigit(b) < 16 =>
                 UnescapeByte(at, b) = [high |-> 16, dst |-> Append(at.dst, b)]
           /\ at.high < 16 /\ at.high \in Nat /\ HexDigit(b) < 16 =>
                 UnescapeByte(at, b)
                    = [high |-> 16, dst |-> Append(at.dst, 16 * at.high + HexDigit(b))]
           /\ at.high < 16 /\ at.high \in Nat /\ ~ HexDigit(b) < 16 =>
                 UnescapeByte(at, b) = [at EXCEPT !.high = 16]
  <1> DEFINE c1 == at.high = 16 /\ b = PERCENT
             c2 == at.high = 16 /\ b # PERCENT
             c3 == at.high = 17 /\ HexDigit(b) < 16
             c4 == at.high = 17 /\ HexDigit(b) = 16
             c5 == at.high < 16 /\ HexDigit(b) < 16
             e1 == [at EXCEPT !.high = 17]
             e2 == [at EXCEPT !.dst = Append(at.dst, b)]
             e3 == [at EXCEPT !.high = HexDigit(b)]
             e4 == [high |-> 16, dst |-> Append(at.dst, b)]
             e5 == [high |-> 16, dst |-> Append(at.dst, 16 * at.high + HexDigit(b))]
             e6 == [at EXCEPT !.high = 16]
             u == UnescapeByte(at, b)
  <1>1. u = CASE c1 -> e1 [] c2 -> e2 [] c3 -> e3 [] c4 -> e4 [] c5 -> e5 [] OTHER -> e6
    BY DEF UnescapeByte
  <1> HIDE DEF u, e1, e2, e3, e4, e5, e6
  <1>2. at.high = 16 => ~ at.high = 17 /\ ~ at.high < 16 OBVIOUS
  <1>3. at.high = 17 => ~ at.high = 16 /\ ~ at.high < 16 OBVIOUS
  <1>4. at.high < 16 /\ at.high \in Nat => ~ at.high = 16 /\ ~ at.high = 17 OBVIOUS
  <1>5. c1 => u = e1 BY <1>1, <1>2
  <1>6. c2 => u = e2 BY <1>1, <1>2
  <1>7. c3 => u = e3
    <2>1. HexDigit(b) < 16 /\ HexDigit(b) = 16 => FALSE OBVIOUS
    <2> QED BY <1>1, <1>3, <2>1
  <1>8. c4 /\ ~ HexDigit(b) < 16 => u = e4 BY <1>1, <1>3
  <1>9. c5 /\ at.high \in Nat => u = e5 BY <1>1, <1>4
  <1>10. at.high < 16 /\ at.high \in Nat /\ ~ HexDigit(b) < 16 => u = e6 BY <1>1, <1>4
  <1> QED BY <1>5, <1>6, <1>7, <1>8, <1>9, <1>10 DEF u, e1, e2, e3, e4, e5, e6

(* A byte of the source writes one byte at most. *)
LEMMA UnescapeFacts ==
    ASSUME NEW at \in Unescaping, NEW b \in Byte
    PROVE  /\ UnescapeByte(at, b) \in Unescaping
           /\ Len(at.dst) \in Nat /\ Len(UnescapeByte(at, b).dst) \in Nat
           /\ Len(UnescapeByte(at, b).dst) <= Len(at.dst) + 1
  <1> DEFINE u == UnescapeByte(at, b)
             d == HexDigit(b)
  <1>1. at.high \in 0 .. 17 /\ at.dst \in Seq(Byte) /\ at = [high |-> at.high, dst |-> at.dst]
    BY DEF Unescaping
  <1>2. d \in 0 .. 16 BY HexFacts
  <1>3. Len(at.dst) \in Nat BY <1>1, LenProperties
  <1>4. \A x \in 0 .. 17 : \A s \in Seq(Byte) : [high |-> x, dst |-> s] \in Unescaping
    BY DEF Unescaping
  <1>5. \A x \in Byte : Append(at.dst, x) \in Seq(Byte) /\ Len(Append(at.dst, x)) = Len(at.dst) + 1
    BY <1>1, AppendLen
  <1>6. at.high < 16 /\ d < 16 => 16 * at.high + d \in Byte
    <2> DEFINE x == at.high
    <2>1. x \in 0 .. 17 BY <1>1
    <2> HIDE DEF x, d
    <2>2. x < 16 /\ d < 16 => 16 * x + d \in 0 .. 255 BY <1>2, <2>1
    <2> QED BY <2>2 DEF x, Byte
  <1> DEFINE Ok(r) == r \in Unescaping /\ Len(r.dst) \in Nat /\ Len(r.dst) <= Len(at.dst) + 1
  <1>7. \A x \in 0 .. 17 : Ok([at EXCEPT !.high = x])
    <2> SUFFICES ASSUME NEW x \in 0 .. 17 PROVE Ok([at EXCEPT !.high = x]) OBVIOUS
    <2>1. [at EXCEPT !.high = x] = [high |-> x, dst |-> at.dst] BY <1>1
    <2> DEFINE r == [at EXCEPT !.high = x]
    <2>2. r \in Unescaping /\ r.dst = at.dst BY <1>1, <1>4, <2>1
    <2> HIDE DEF r
    <2>3. Len(r.dst) \in Nat /\ Len(r.dst) <= Len(at.dst) + 1 BY <1>3, <2>2
    <2>4. Ok(r) BY <2>2, <2>3
    <2> QED BY <2>4 DEF r
  <1>8. \A x \in Byte : \A h \in 0 .. 17 : Ok([high |-> h, dst |-> Append(at.dst, x)])
    <2> SUFFICES ASSUME NEW x \in Byte, NEW h \in 0 .. 17
                 PROVE  Ok([high |-> h, dst |-> Append(at.dst, x)])
      OBVIOUS
    <2> DEFINE y == Append(at.dst, x)
               r == [high |-> h, dst |-> y]
    <2>1. y \in Seq(Byte) /\ Len(y) = Len(at.dst) + 1 BY <1>5
    <2> HIDE DEF y
    <2>2. r \in Unescaping /\ r.dst = y BY <1>4, <2>1
    <2> HIDE DEF r
    <2>3. Ok(r) BY <1>3, <2>1, <2>2
    <2> QED BY <2>3 DEF r, y
  <1>9. [at EXCEPT !.dst = Append(at.dst, b)] = [high |-> at.high, dst |-> Append(at.dst, b)]
    <2> DEFINE y == Append(at.dst, b)
    <2> HIDE DEF y
    <2>1. [at EXCEPT !.dst = y] = [high |-> at.high, dst |-> y] BY DEF Unescaping
    <2> QED BY <2>1 DEF y
  <1> HIDE DEF Ok, d
  <1>10. CASE at.high = 16 /\ b = PERCENT
    <2>1. u = [at EXCEPT !.high = 17] BY <1>10, UnescapeCases
    <2>2. 17 \in 0 .. 17 OBVIOUS
    <2>3. Ok(u) BY <1>7, <2>1, <2>2
    <2> QED BY <1>3, <2>3 DEF Ok
  <1>11. CASE at.high = 16 /\ b # PERCENT
    <2>1. u = [high |-> at.high, dst |-> Append(at.dst, b)] BY <1>9, <1>11, UnescapeCases
    <2>2. Ok(u) BY <1>1, <1>8, <2>1
    <2> QED BY <1>3, <2>2 DEF Ok
  <1>12. CASE at.high = 17 /\ d < 16
    <2>1. u = [at EXCEPT !.high = d] BY <1>12, UnescapeCases DEF d
    <2>2. d \in 0 .. 17 BY <1>2
    <2>3. Ok(u) BY <1>7, <2>1, <2>2
    <2> QED BY <1>3, <2>3 DEF Ok
  <1>13. CASE at.high = 17 /\ ~ d < 16
    <2>1. d = 16 BY <1>2, <1>13
    <2>2. u = [high |-> 16, dst |-> Append(at.dst, b)] BY <1>13, <2>1, UnescapeCases DEF d
    <2>3. 16 \in 0 .. 17 OBVIOUS
    <2>4. Ok(u) BY <1>8, <2>2, <2>3
    <2> QED BY <1>3, <2>4 DEF Ok
  <1>14. CASE at.high < 16 /\ d < 16
    <2>1. at.high \in Nat BY <1>1
    <2>2. u = [high |-> 16, dst |-> Append(at.dst, 16 * at.high + d)]
      BY <1>14, <2>1, UnescapeCases DEF d
    <2>3. 16 \in 0 .. 17 OBVIOUS
    <2>4. Ok(u) BY <1>6, <1>8, <1>14, <2>2, <2>3
    <2> QED BY <1>3, <2>4 DEF Ok
  <1>15. CASE at.high < 16 /\ ~ d < 16
    <2>1. at.high \in Nat BY <1>1
    <2>2. u = [at EXCEPT !.high = 16] BY <1>15, <2>1, UnescapeCases DEF d
    <2>3. 16 \in 0 .. 17 OBVIOUS
    <2>4. Ok(u) BY <1>7, <2>2, <2>3
    <2> QED BY <1>3, <2>4 DEF Ok
  <1>16. at.high = 16 \/ at.high = 17 \/ at.high < 16 BY <1>1
  <1> QED BY <1>10, <1>11, <1>12, <1>13, <1>14, <1>15, <1>16

(* ngx_unescape_uri takes its bytes one after the other. *)
Unescapes(t, at) ==
    /\ at[0] = [high |-> 16, dst |-> <<>>] /\ ngx_unescape_uri(t) = at[Len(t)].dst
    /\ \A i \in 0 .. Len(t) : at[i] \in Unescaping
    /\ \A i \in Nat : i < Len(t) => at[i + 1] = UnescapeByte(at[i], t[i + 1])

(* The states of ngx_unescape_uri exist: its loop as a recursive function. *)
LEMMA UnescapeSteps ==
    ASSUME NEW t \in Seq(Byte)
    PROVE  \E at : Unescapes(t, at)
  <1> DEFINE l == Len(t)
             V == Unescaping
             z == [high |-> 16, dst |-> <<>>]
             step == [i \in 1 .. l |-> [v \in V |-> UnescapeByte(v, t[i])]]
             Rec(s) == s = [i \in 0 .. l |-> IF i = 0 THEN z ELSE UnescapeByte(s[i - 1], t[i])]
             r == CHOOSE s : Rec(s)
  <1>1. l \in Nat /\ \A i \in 1 .. l : t[i] \in Byte BY LenProperties, ElementOfSeq
  <1>2. ngx_unescape_uri(t) = r[l].dst BY DEF ngx_unescape_uri
  <1>3. z \in V
    <2>1. <<>> \in Seq(Byte) /\ 16 \in 0 .. 17 BY EmptySeq
    <2> QED BY <2>1 DEF Unescaping
  <1> HIDE DEF l, V, z, r
  <1>4. \A i \in 1 .. l : \A v \in V : UnescapeByte(v, t[i]) \in V
    BY <1>1, UnescapeFacts DEF V
  <1>5. step \in [1 .. l -> [V -> V]] BY <1>4
  <1>6. PICK h : Iterates(h, l, V, z, step)
    <2> HIDE DEF step
    <2> QED BY <1>1, <1>3, <1>5, Recursion
  <1>7. Rec(h)
    <2>1. ASSUME NEW i \in 0 .. l
          PROVE  h[i] = IF i = 0 THEN z ELSE UnescapeByte(h[i - 1], t[i])
      <3>1. CASE i = 0 BY <1>6, <3>1 DEF Iterates
      <3>2. CASE i # 0
        <4>1. i \in 1 .. l /\ i - 1 \in 0 .. l BY <1>1, <3>2
        <4>2. h[i] = step[i][h[i - 1]] /\ h[i - 1] \in V BY <1>6, <4>1 DEF Iterates
        <4> QED BY <3>2, <4>1, <4>2
      <3> QED BY <3>1, <3>2
    <2>2. h = [i \in 0 .. l |-> h[i]] BY <1>6 DEF Iterates
    <2> QED BY <2>1, <2>2
  <1>8. Rec(r) BY <1>7 DEF r
  <1>9. r[0] = z
    <2>1. 0 \in 0 .. l BY <1>1
    <2> QED BY <1>8, <2>1
  <1>10. ASSUME NEW i \in Nat, i < l PROVE r[i + 1] = UnescapeByte(r[i], t[i + 1])
    <2>1. i + 1 \in 0 .. l /\ i + 1 # 0 /\ (i + 1) - 1 = i BY <1>1, <1>10
    <2> QED BY <1>8, <2>1
  <1> HIDE DEF Rec
  <1> DEFINE S == {i \in Nat : i <= l => r[i] \in V}
  <1>11. 0 \in S BY <1>3, <1>9
  <1>12. ASSUME NEW i \in Nat, i \in S PROVE i + 1 \in S
    <2> SUFFICES ASSUME i + 1 <= l PROVE r[i + 1] \in V OBVIOUS
    <2>1. i < l /\ r[i] \in V /\ i + 1 \in 1 .. l BY <1>1, <1>12
    <2> QED BY <1>4, <1>10, <2>1
  <1> HIDE DEF S
  <1>13. Nat \subseteq S BY <1>11, <1>12, SetInduction
  <1>14. \A i \in 0 .. l : r[i] \in V BY <1>1, <1>13 DEF S
  <1>15. Unescapes(t, r) BY <1>2, <1>9, <1>10, <1>14 DEF Unescapes, l, z, V
  <1> QED BY <1>15

(* Its result is bytes, and no more of them. *)
LEMMA UnescapedFacts ==
    ASSUME NEW t \in Seq(Byte)
    PROVE  /\ ngx_unescape_uri(t) \in Seq(Byte) /\ Len(ngx_unescape_uri(t)) \in Nat
           /\ Len(ngx_unescape_uri(t)) <= Len(t)
  <1> DEFINE l == Len(t)
  <1>1. l \in Nat /\ \A i \in 1 .. l : t[i] \in Byte BY LenProperties, ElementOfSeq
  <1>2. PICK at : Unescapes(t, at) BY UnescapeSteps
  <1>3. /\ at[0] = [high |-> 16, dst |-> <<>>] /\ ngx_unescape_uri(t) = at[l].dst
        /\ \A i \in 0 .. l : at[i] \in Unescaping
        /\ \A i \in Nat : i < l => at[i + 1] = UnescapeByte(at[i], t[i + 1])
    BY <1>2 DEF Unescapes
  <1> HIDE DEF l
  <1> DEFINE S == {i \in Nat : i <= l => Len(at[i].dst) \in Nat /\ Len(at[i].dst) <= i}
  <1>4. 0 \in S BY <1>3
  <1>5. ASSUME NEW i \in Nat, i \in S PROVE i + 1 \in S
    <2> SUFFICES ASSUME i + 1 <= l PROVE Len(at[i + 1].dst) \in Nat /\ Len(at[i + 1].dst) <= i + 1
      OBVIOUS
    <2>1. /\ i < l /\ i \in 0 .. l /\ i + 1 \in 1 .. l BY <1>1, <1>5
    <2>2. Len(at[i].dst) <= i /\ Len(at[i].dst) \in Nat BY <1>1, <1>5
    <2> DEFINE x == at[i]
               b == t[i + 1]
    <2>3. x \in Unescaping /\ b \in Byte /\ at[i + 1] = UnescapeByte(x, b) BY <1>1, <1>3, <2>1
    <2> HIDE DEF b
    <2>4. /\ Len(UnescapeByte(x, b).dst) \in Nat /\ Len(UnescapeByte(x, b).dst) <= Len(x.dst) + 1
      <3> HIDE DEF x
      <3> QED BY <2>3, UnescapeFacts
    <2> QED BY <2>2, <2>3, <2>4
  <1> HIDE DEF S
  <1>6. Nat \subseteq S BY <1>4, <1>5, SetInduction
  <1>7. Len(at[l].dst) \in Nat /\ Len(at[l].dst) <= l BY <1>1, <1>6 DEF S
  <1>8. at[l] \in Unescaping BY <1>1, <1>3
  <1>9. at[l].dst \in Seq(Byte) BY <1>8 DEF Unescaping
  <1> QED BY <1>3, <1>7, <1>9 DEF l

(* A text whose bytes are replaced one by one. *)
LEMMA MapBytes ==
    ASSUME NEW t \in Seq(Byte), NEW u, DOMAIN u = DOMAIN t, u = [i \in DOMAIN u |-> u[i]],
           \A i \in DOMAIN t : u[i] \in Byte
    PROVE  u \in Seq(Byte) /\ Len(u) = Len(t)
  <1>1. Len(t) \in Nat /\ DOMAIN t = 1 .. Len(t) BY LenProperties
  <1>2. u = [i \in 1 .. Len(t) |-> u[i]] /\ \A i \in 1 .. Len(t) : u[i] \in Byte BY <1>1
  <1>3. u \in [1 .. Len(t) -> Byte] BY <1>2
  <1>4. u \in Seq(Byte) BY <1>1, <1>3
  <1> QED BY <1>1, <1>3, <1>4, LenIs

(* ngx_strlow keeps the length, *)
LEMMA LowerFacts ==
    ASSUME NEW t \in Seq(Byte)
    PROVE  ngx_strlow(t) \in Seq(Byte) /\ Len(ngx_strlow(t)) = Len(t)
  <1> DEFINE u == ngx_strlow(t)
  <1>1. DOMAIN t = 1 .. Len(t) /\ \A i \in DOMAIN t : t[i] \in Byte
    BY LenProperties, ElementOfSeq
  <1>2. DOMAIN u = DOMAIN t /\ \A i \in DOMAIN t : u[i] = Lower(t[i]) BY DEF ngx_strlow
  <1>3. u = [i \in DOMAIN u |-> u[i]] BY DEF ngx_strlow
  <1>4. \A i \in DOMAIN t : u[i] \in Byte BY <1>1, <1>2, HexFacts
  <1> HIDE DEF u
  <1>5. u \in Seq(Byte) /\ Len(u) = Len(t) BY <1>2, <1>3, <1>4, MapBytes
  <1> QED BY <1>5 DEF u

(* so does turning "+" into a space, *)
LEMMA PlusFacts ==
    ASSUME NEW t \in Seq(Byte)
    PROVE  PlusToSpace(t) \in Seq(Byte) /\ Len(PlusToSpace(t)) = Len(t)
  <1> DEFINE u == PlusToSpace(t)
  <1>1. DOMAIN t = 1 .. Len(t) /\ \A i \in DOMAIN t : t[i] \in Byte
    BY LenProperties, ElementOfSeq
  <1>2. /\ DOMAIN u = DOMAIN t
        /\ \A i \in DOMAIN t : u[i] = IF t[i] = PLUS THEN SPACE ELSE t[i]
    BY DEF PlusToSpace
  <1>3. u = [i \in DOMAIN u |-> u[i]] BY DEF PlusToSpace
  <1>4. \A i \in DOMAIN t : u[i] \in Byte
    <2>1. SPACE \in Byte BY DEF SPACE, Byte
    <2> HIDE DEF u
    <2> QED BY <1>1, <1>2, <2>1
  <1> HIDE DEF u
  <1>5. u \in Seq(Byte) /\ Len(u) = Len(t) BY <1>2, <1>3, <1>4, MapBytes
  <1> QED BY <1>5 DEF u

(* and the decoded form never outgrows the buffer of len bytes. *)
LEMMA DecodedFacts ==
    ASSUME NEW t \in Seq(Byte)
    PROVE  Decoded(t) \in Seq(Byte) /\ Len(Decoded(t)) <= Len(t)
  <1>1. ngx_unescape_uri(t) \in Seq(Byte) /\ Len(ngx_unescape_uri(t)) <= Len(t)
    BY UnescapedFacts
  <1>2. /\ PlusToSpace(ngx_unescape_uri(t)) \in Seq(Byte)
        /\ Len(PlusToSpace(ngx_unescape_uri(t))) = Len(ngx_unescape_uri(t))
    BY <1>1, PlusFacts
  <1> QED BY <1>1, <1>2, LowerFacts DEF Decoded

(* What scan_input must report of t, as ScanIsExact has it. *)
Expected(t, mask) == LET raw == Wanted("raw", ngx_strlow(t), mask)
                     IN  IF raw # NoHit THEN raw ELSE Wanted("decoded", Decoded(t), mask)

(* What a scan must report depends on the tables, the buffer and the mask  *)
(* only.                                                                   *)
LEMMA WantedSame ==
    ASSUME tab' = tab
    PROVE  \A f, t, mask : Wanted(f, t, mask)' = Wanted(f, t, mask)
  BY DEF Wanted, NCATEGORIES

(* With both automata finished scan_input reports what it must. *)
LEMMA InputFinds ==
    ASSUME BuildInv, pc \in {"ready", "scanned"}, NEW t \in Seq(Byte), NEW mask
    PROVE  scan_input(t, mask) = Expected(t, mask)
  <1>1. tab \in Tables /\ IsBuilt("raw") /\ IsBuilt("decoded") BY DEF BuildInv, Control, AcInv
  <1>2. ngx_strlow(t) \in Seq(Byte) /\ Decoded(t) \in Seq(Byte) BY LowerFacts, DecodedFacts
  <1>3. ac_scan("raw", ngx_strlow(t), mask) = Wanted("raw", ngx_strlow(t), mask)
    BY <1>1, <1>2, ScanFinds
  <1>4. ac_scan("decoded", Decoded(t), mask) = Wanted("decoded", Decoded(t), mask)
    BY <1>1, <1>2, ScanFinds
  <1> QED BY <1>3, <1>4 DEF scan_input, Expected

(* A buffer that has been scanned is one of the table's, and its hit the   *)
(* one that is wanted.                                                     *)
ScanInv == pc = "scanned" => text \in Texts(tab) /\ hit = Expected(text, skip)

(* Every step keeps ScanInv, *)
LEMMA ScanInvStep == BuildInv /\ ScanInv /\ [Next]_vars => ScanInv'
  <1> SUFFICES ASSUME BuildInv, ScanInv, [Next]_vars, pc' = "scanned"
               PROVE  text' \in Texts(tab') /\ (hit = Expected(text, skip))'
    BY DEF ScanInv
  <1>1. CASE Scan
    <2>1. PICK t \in Texts(tab), m \in Skips(tab) :
             text' = t /\ skip' = m /\ hit' = scan_input(t, m)
      BY <1>1 DEF Scan
    <2>2. pc = "ready" /\ tab' = tab BY <1>1 DEF Scan
    <2>3. t \in Seq(Byte)
      <3>1. tab \in Tables BY DEF BuildInv, Control
      <3> QED BY <3>1, TextsAssumption
    <2>4. hit' = Expected(t, m) BY <2>1, <2>2, <2>3, InputFinds
    <2>5. Expected(text, skip)' = Expected(t, m)
      BY <2>1, <2>2, WantedSame DEF Expected
    <2> QED BY <2>1, <2>2, <2>4, <2>5
  <1>2. CASE UNCHANGED vars
    <2>1. /\ pc = "scanned" /\ tab' = tab /\ text' = text /\ skip' = skip /\ hit' = hit
      BY <1>2 DEF vars
    <2>2. Expected(text, skip)' = Expected(text, skip) BY <2>1, WantedSame DEF Expected
    <2> QED BY <2>1, <2>2 DEF ScanInv
  <1>3. CASE Size BY <1>3 DEF Size
  <1>4. CASE Insert BY <1>4 DEF Insert
  <1>5. CASE Seed BY <1>5 DEF Seed
  <1>6. CASE Dequeue BY <1>6 DEF Dequeue
  <1>7. CASE Built BY <1>7 DEF Built
  <1>8. CASE Return BY <1>8 DEF Return
  <1>9. CASE Refused BY <1>2, <1>9 DEF Refused
  <1> QED BY <1>1, <1>2, <1>3, <1>4, <1>5, <1>6, <1>7, <1>8, <1>9 DEF Next, Build

(* which therefore always holds. *)
LEMMA ScanInvHolds == Spec => []ScanInv
  <1>1. Init => ScanInv BY DEF Init, ScanInv
  <1> QED BY <1>1, ScanInvStep, BuildIsSound, PTL DEF Spec

(* For any tables, buffer and skip mask the two automata (scan_input,      *)
(* ac_scan) report exactly the signature or rule that a search without an  *)
(* automaton finds: the raw form first, in it the signature that ends      *)
(* first and the lowest row that ends there, a rule only where no          *)
(* signature ends.                                                         *)
THEOREM ScansAreExact == Spec => []ScanIsExact
  <1>1. ScanInv => ScanIsExact BY DEF ScanInv, ScanIsExact, Expected
  <1> QED BY <1>1, ScanInvHolds, PTL

(* A text without escapes is its own. *)
LEMMA UnescapePlain ==
    ASSUME NEW t \in Seq(Byte), \A i \in DOMAIN t : t[i] # PERCENT
    PROVE  ngx_unescape_uri(t) = t
  <1> DEFINE l == Len(t)
  <1>1. l \in Nat /\ DOMAIN t = 1 .. l /\ \A i \in 1 .. l : t[i] \in Byte
    BY LenProperties, ElementOfSeq
  <1>2. PICK at : Unescapes(t, at) BY UnescapeSteps
  <1>3. /\ at[0] = [high |-> 16, dst |-> <<>>] /\ ngx_unescape_uri(t) = at[l].dst
        /\ \A i \in 0 .. l : at[i] \in Unescaping
        /\ \A i \in Nat : i < l => at[i + 1] = UnescapeByte(at[i], t[i + 1])
    BY <1>2 DEF Unescapes
  <1> HIDE DEF l
  <1> DEFINE S == {i \in Nat : i <= l => at[i].high = 16 /\ at[i].dst = SubSeq(t, 1, i)}
  <1>4. 0 \in S
    <2>1. SubSeq(t, 1, 0) = <<>> BY SubSeqEmpty
    <2>2. at[0].high = 16 /\ at[0].dst = <<>> BY <1>3
    <2> QED BY <2>1, <2>2
  <1>5. ASSUME NEW i \in Nat, i \in S PROVE i + 1 \in S
    <2> SUFFICES ASSUME i + 1 <= l
                 PROVE  at[i + 1].high = 16 /\ at[i + 1].dst = SubSeq(t, 1, i + 1)
      OBVIOUS
    <2> DEFINE x == at[i]
               b == t[i + 1]
    <2>1. i < l /\ i + 1 \in 1 .. l /\ i \in 0 .. l BY <1>1
    <2>2. x.high = 16 /\ x.dst = SubSeq(t, 1, i) /\ x \in Unescaping BY <1>1, <1>3, <1>5, <2>1
    <2>3. b # PERCENT BY <1>1, <2>1
    <2>4. at[i + 1] = UnescapeByte(x, b) BY <1>3, <2>1
    <2> HIDE DEF x, b
    <2>5. UnescapeByte(x, b) = [x EXCEPT !.dst = Append(x.dst, b)] BY <2>2, <2>3, UnescapeCases
    <2>6. SubSeq(t, 1, i + 1) = Append(x.dst, b) BY <2>1, <2>2, PrefixStep DEF b, l
    <2> DEFINE y == Append(x.dst, b)
    <2> HIDE DEF y
    <2>7. [x EXCEPT !.dst = y].high = x.high /\ [x EXCEPT !.dst = y].dst = y
      BY <2>2 DEF Unescaping
    <2> QED BY <2>2, <2>4, <2>5, <2>6, <2>7 DEF y
  <1> HIDE DEF S
  <1>6. Nat \subseteq S BY <1>4, <1>5, SetInduction
  <1>7. at[l].dst = SubSeq(t, 1, l) BY <1>1, <1>6 DEF S
  <1> QED BY <1>3, <1>7, SubSeqFull DEF l

(* A hex digit is read back. *)
LEMMA DigitFacts ==
    ASSUME NEW n \in 0 .. 15
    PROVE  Digit(n) \in Byte /\ HexDigit(Digit(n)) = n /\ Digit(n) # PERCENT
  <1> DEFINE b == Digit(n)
  <1>1. CASE n < 10
    <2>1. b = n + 48 BY <1>1 DEF Digit
    <2>2. b \in Byte /\ b \in 48 .. 57 /\ b - 48 = n /\ b # PERCENT BY <1>1, <2>1 DEF Byte, PERCENT
    <2> HIDE DEF b
    <2>3. HexDigit(b) = n BY <2>2, HexFacts
    <2> QED BY <2>2, <2>3 DEF b
  <1>2. CASE ~ n < 10
    <2>1. b = n + 87 BY <1>2 DEF Digit
    <2>2. b \in Byte /\ b \notin Capital /\ b \in 97 .. 102 /\ b - 87 = n /\ b # PERCENT
      BY <1>2, <2>1 DEF Byte, PERCENT, Capital
    <2>3. Lower(b) = b BY <2>2 DEF Lower
    <2> HIDE DEF b
    <2>4. HexDigit(b) = n BY <2>2, <2>3, HexFacts
    <2> QED BY <2>2, <2>4 DEF b
  <1> QED BY <1>1, <1>2

(* One escape in a text is one byte of the result. *)
LEMMA UnescapeEscape ==
    ASSUME NEW at \in Unescaping, at.high = 16, NEW c \in Byte
    PROVE  UnescapeByte(UnescapeByte(UnescapeByte(at, PERCENT), Digit(c \div 16)),
                        Digit(c % 16)) = [high |-> 16, dst |-> Append(at.dst, c)]
  <1> DEFINE x == c \div 16
             y == c % 16
             a1 == UnescapeByte(at, PERCENT)
             a2 == UnescapeByte(a1, Digit(x))
             a3 == UnescapeByte(a2, Digit(y))
             d == at.dst
  <1>1. x \in 0 .. 15 /\ y \in 0 .. 15 /\ 16 * x + y = c BY DEF Byte
  <1> HIDE DEF x, y
  <1>2. HexDigit(Digit(x)) = x /\ HexDigit(Digit(y)) = y BY <1>1, DigitFacts
  <1>3. x < 16 /\ y < 16 /\ x \in Nat BY <1>1
  <1>4. a1 = [high |-> 17, dst |-> d]
    <2>1. a1 = [at EXCEPT !.high = 17] BY UnescapeCases
    <2>2. [at EXCEPT !.high = 17] = [high |-> 17, dst |-> d] BY DEF Unescaping
    <2> QED BY <2>1, <2>2
  <1> HIDE DEF a1, d
  <1>5. a1.high = 17 /\ a1.dst = d BY <1>4
  <1>6. a2 = [high |-> x, dst |-> d]
    <2>1. a2 = [a1 EXCEPT !.high = x] BY <1>2, <1>3, <1>5, UnescapeCases
    <2>2. [a1 EXCEPT !.high = x] = [high |-> x, dst |-> d] BY <1>4
    <2> QED BY <2>1, <2>2
  <1> HIDE DEF a2
  <1>7. a2.high = x /\ a2.dst = d BY <1>6
  <1>8. a3 = [high |-> 16, dst |-> Append(d, 16 * x + y)]
    BY <1>2, <1>3, <1>7, UnescapeCases
  <1> QED BY <1>1, <1>8 DEF a1, a2, d, x, y

(* The encoding of a text: three bytes for each of its own. *)
Escapes(t, n, e) ==
    /\ e \in Seq(Byte) /\ Len(e) = 3 * n
    /\ \A i \in 1 .. n : /\ e[3 * i - 2] = PERCENT /\ e[3 * i - 1] = Digit(t[i] \div 16)
                         /\ e[3 * i] = Digit(t[i] % 16)

(* One byte more of the text is one escape more. *)
LEMMA EscapeOne ==
    ASSUME NEW t \in Seq(Byte), NEW n \in Nat, n < Len(t), NEW e, Escapes(t, n, e)
    PROVE  Escapes(t, n + 1, e \o <<PERCENT, Digit(t[n + 1] \div 16), Digit(t[n + 1] % 16)>>)
  <1> DEFINE c == t[n + 1]
             x == Digit(c \div 16)
             y == Digit(c % 16)
             p == <<PERCENT, x, y>>
             e2 == e \o p
             m == 3 * n
  <1>1. c \in Byte BY ElementOfSeq, LenProperties
  <1>2. x \in Byte /\ y \in Byte
    <2> HIDE DEF c
    <2>1. c \div 16 \in 0 .. 15 /\ c % 16 \in 0 .. 15 BY <1>1 DEF Byte
    <2> QED BY <2>1, DigitFacts
  <1>3. PERCENT \in Byte BY DEF PERCENT, Byte
  <1> HIDE DEF c, x, y
  <1>4. p \in Seq(Byte) /\ Len(p) = 3 /\ p[1] = PERCENT /\ p[2] = x /\ p[3] = y
    BY <1>2, <1>3
  <1>5. e \in Seq(Byte) /\ Len(e) = m /\ m \in Nat BY DEF Escapes
  <1> HIDE DEF p
  <1>6. /\ e2 \in Seq(Byte) /\ Len(e2) = m + 3
        /\ \A i \in 1 .. m + 3 : e2[i] = IF i <= m THEN e[i] ELSE p[i - m]
    <2> HIDE DEF m
    <2>1. /\ e2 \in Seq(Byte) /\ Len(e2) = Len(e) + Len(p)
          /\ \A i \in 1 .. Len(e) + Len(p) :
                e2[i] = IF i <= Len(e) THEN e[i] ELSE p[i - Len(e)]
      BY <1>4, <1>5, ConcatProperties
    <2> HIDE DEF e2
    <2> QED BY <1>4, <1>5, <2>1
  <1> HIDE DEF e2
  <1>7. e2[m + 1] = PERCENT /\ e2[m + 2] = x /\ e2[m + 3] = y
    <2>1. /\ m + 1 \in 1 .. m + 3 /\ m + 2 \in 1 .. m + 3 /\ m + 3 \in 1 .. m + 3
          /\ ~ m + 1 <= m /\ ~ m + 2 <= m /\ ~ m + 3 <= m
          /\ (m + 1) - m = 1 /\ (m + 2) - m = 2 /\ (m + 3) - m = 3
      BY <1>5
    <2> HIDE DEF m
    <2> QED BY <1>4, <1>6, <2>1
  <1>8. \A i \in 1 .. m : e2[i] = e[i]
    <2>1. \A i \in 1 .. m : i \in 1 .. m + 3 /\ i <= m BY <1>5
    <2> HIDE DEF m
    <2> QED BY <1>6, <2>1
  <1>9. ASSUME NEW i \in 1 .. n + 1
        PROVE  /\ e2[3 * i - 2] = PERCENT /\ e2[3 * i - 1] = Digit(t[i] \div 16)
               /\ e2[3 * i] = Digit(t[i] % 16)
    <2>1. CASE i = n + 1
      <3>1. 3 * i - 2 = m + 1 /\ 3 * i - 1 = m + 2 /\ 3 * i = m + 3 BY <2>1
      <3> QED BY <1>7, <2>1, <3>1 DEF x, y, c
    <2>2. CASE i # n + 1
      <3>1. /\ i \in 1 .. n /\ 3 * i - 2 \in 1 .. m /\ 3 * i - 1 \in 1 .. m /\ 3 * i \in 1 .. m
        BY <2>2
      <3> QED BY <1>8, <3>1 DEF Escapes
    <2> QED BY <2>1, <2>2
  <1>10. Len(e2) = 3 * (n + 1) BY <1>6
  <1>11. Escapes(t, n + 1, e2) BY <1>6, <1>9, <1>10 DEF Escapes
  <1> QED BY <1>11 DEF e2, p, x, y, c

(* Encode escapes every byte of the text. *)
LEMMA EncodeFacts ==
    ASSUME NEW t \in Seq(Byte)
    PROVE  Escapes(t, Len(t), Encode(t))
  <1> DEFINE l == Len(t)
             part(i) == <<PERCENT, Digit(t[i] \div 16), Digit(t[i] % 16)>>
             ss == [i \in DOMAIN t |-> part(i)]
  <1>1. l \in Nat /\ DOMAIN t = 1 .. l /\ \A i \in 1 .. l : t[i] \in Byte
    BY LenProperties, ElementOfSeq
  <1>2. Encode(t) = FlattenSeq(ss) BY DEF Encode
  <1>3. ASSUME NEW i \in 1 .. l PROVE part(i) \in Seq(Byte)
    <2>1. t[i] \div 16 \in 0 .. 15 /\ t[i] % 16 \in 0 .. 15
      <3> DEFINE c == t[i]
      <3>1. c \in Byte BY <1>1, <1>3
      <3> HIDE DEF c
      <3>2. c \div 16 \in 0 .. 15 /\ c % 16 \in 0 .. 15 BY <3>1 DEF Byte
      <3> QED BY <3>2 DEF c
    <2>2. Digit(t[i] \div 16) \in Byte /\ Digit(t[i] % 16) \in Byte BY <2>1, DigitFacts
    <2>3. PERCENT \in Byte BY DEF PERCENT, Byte
    <2> QED BY <2>2, <2>3
  <1> HIDE DEF l
  <1>4. ss \in Seq(Seq(Byte)) /\ Len(ss) = l /\ \A i \in 1 .. l : ss[i] = part(i)
    <2> HIDE DEF part
    <2>1. ss = [i \in 1 .. l |-> part(i)] BY <1>1
    <2> DEFINE V == Seq(Byte)
    <2>2. \A i \in 1 .. l : part(i) \in V BY <1>3
    <2> HIDE DEF V
    <2>3. ss \in [1 .. l -> V] BY <2>1, <2>2
    <2>4. ss \in Seq(V) /\ Len(ss) = l BY <1>1, <2>3, LenIs
    <2> QED BY <2>1, <2>4 DEF V
  <1> HIDE DEF ss
  <1>5. PICK g \in [0 .. l -> Seq(Byte)] : /\ g[0] = <<>>
                                           /\ \A i \in 1 .. l : g[i] = g[i - 1] \o ss[i]
                                           /\ FlattenSeq(ss) = g[l]
    BY <1>4, FlattenSteps
  <1> DEFINE S == {k \in Nat : k <= l => Escapes(t, k, g[k])}
  <1>6. 0 \in S
    <2>1. <<>> \in Seq(Byte) /\ Len(<<>>) = 0 /\ 3 * 0 = 0 BY EmptySeq
    <2>2. Escapes(t, 0, <<>>) BY <2>1 DEF Escapes
    <2> QED BY <1>5, <2>2
  <1>7. ASSUME NEW k \in Nat, k \in S PROVE k + 1 \in S
    <2> SUFFICES ASSUME k + 1 <= l PROVE Escapes(t, k + 1, g[k + 1])
      OBVIOUS
    <2>1. k < l /\ k + 1 \in 1 .. l /\ (k + 1) - 1 = k BY <1>1
    <2>2. Escapes(t, k, g[k]) BY <1>1, <1>7
    <2>3. g[k + 1] = g[k] \o part(k + 1) BY <1>4, <1>5, <2>1
    <2> DEFINE e == g[k]
    <2>4. Escapes(t, k + 1, e \o part(k + 1))
      <3>1. Escapes(t, k, e) BY <2>2
      <3> HIDE DEF e
      <3> QED BY <2>1, <3>1, EscapeOne DEF l
    <2> QED BY <2>3, <2>4
  <1> HIDE DEF S
  <1>8. Nat \subseteq S BY <1>6, <1>7, SetInduction
  <1>9. Escapes(t, l, g[l]) BY <1>1, <1>8 DEF S
  <1> QED BY <1>2, <1>5, <1>9 DEF l

(* ngx_unescape_uri takes every escape back. *)
LEMMA UnescapeEncode ==
    ASSUME NEW t \in Seq(Byte)
    PROVE  Encode(t) \in Seq(Byte) /\ ngx_unescape_uri(Encode(t)) = t
  <1> DEFINE l == Len(t)
             e == Encode(t)
  <1>1. l \in Nat /\ \A i \in 1 .. l : t[i] \in Byte BY LenProperties, ElementOfSeq
  <1>2. Escapes(t, l, e) BY EncodeFacts
  <1>3. e \in Seq(Byte) /\ Len(e) = 3 * l BY <1>2 DEF Escapes
  <1> HIDE DEF e
  <1>4. PICK at : Unescapes(e, at) BY <1>3, UnescapeSteps
  <1>5. /\ at[0] = [high |-> 16, dst |-> <<>>] /\ ngx_unescape_uri(e) = at[3 * l].dst
        /\ \A i \in 0 .. 3 * l : at[i] \in Unescaping
        /\ \A i \in Nat : i < 3 * l => at[i + 1] = UnescapeByte(at[i], e[i + 1])
    BY <1>3, <1>4 DEF Unescapes
  <1> HIDE DEF l
  <1> DEFINE S == {i \in Nat : i <= l => at[3 * i].high = 16 /\ at[3 * i].dst = SubSeq(t, 1, i)}
  <1>6. 0 \in S
    <2>1. SubSeq(t, 1, 0) = <<>> BY SubSeqEmpty
    <2>2. at[3 * 0].high = 16 /\ at[3 * 0].dst = <<>> BY <1>5
    <2> QED BY <2>1, <2>2
  <1>7. ASSUME NEW i \in Nat, i \in S PROVE i + 1 \in S
    <2> SUFFICES ASSUME i + 1 <= l
                 PROVE  /\ at[3 * (i + 1)].high = 16
                        /\ at[3 * (i + 1)].dst = SubSeq(t, 1, i + 1)
      OBVIOUS
    <2> DEFINE m == 3 * i
               x == at[m]
               c == t[i + 1]
    <2>1. /\ i < l /\ i + 1 \in 1 .. l /\ m \in Nat /\ m \in 0 .. 3 * l
          /\ m < 3 * l /\ m + 1 < 3 * l /\ m + 2 < 3 * l
          /\ m + 1 \in Nat /\ m + 2 \in Nat /\ (m + 1) + 1 = m + 2 /\ (m + 2) + 1 = m + 3
          /\ 3 * (i + 1) = m + 3
          /\ 3 * (i + 1) - 2 = m + 1 /\ 3 * (i + 1) - 1 = m + 2
      BY <1>1
    <2>2. x.high = 16 /\ x.dst = SubSeq(t, 1, i) /\ x \in Unescaping /\ c \in Byte
      BY <1>1, <1>5, <1>7, <2>1
    <2>3. e[m + 1] = PERCENT /\ e[m + 2] = Digit(c \div 16) /\ e[m + 3] = Digit(c % 16)
      BY <1>2, <2>1 DEF Escapes
    <2>4. at[m + 1] = UnescapeByte(x, PERCENT) BY <1>5, <2>1, <2>3
    <2>5. at[m + 2] = UnescapeByte(at[m + 1], Digit(c \div 16)) BY <1>5, <2>1, <2>3
    <2>6. at[m + 3] = UnescapeByte(at[m + 2], Digit(c % 16)) BY <1>5, <2>1, <2>3
    <2>7. at[m + 3] = UnescapeByte(UnescapeByte(UnescapeByte(x, PERCENT), Digit(c \div 16)),
                                   Digit(c % 16))
      BY <2>4, <2>5, <2>6
    <2> HIDE DEF x, c, m
    <2>8. at[m + 3] = [high |-> 16, dst |-> Append(x.dst, c)] BY <2>2, <2>7, UnescapeEscape
    <2>9. SubSeq(t, 1, i + 1) = Append(x.dst, c) BY <2>1, <2>2, PrefixStep DEF c, l
    <2>10. at[m + 3].high = 16 /\ at[m + 3].dst = SubSeq(t, 1, i + 1) BY <2>8, <2>9
    <2>11. 3 * (i + 1) = m + 3 BY <2>1
    <2> QED BY <2>10, <2>11
  <1> HIDE DEF S
  <1>8. Nat \subseteq S BY <1>6, <1>7, SetInduction
  <1>9. at[3 * l].dst = SubSeq(t, 1, l)
    <2>1. l \in S BY <1>1, <1>8
    <2>2. l <= l BY <1>1
    <2> QED BY <2>1, <2>2 DEF S
  <1>10. SubSeq(t, 1, l) = t BY SubSeqFull DEF l
  <1>11. ngx_unescape_uri(e) = t BY <1>5, <1>9, <1>10
  <1> QED BY <1>3, <1>11 DEF e

(* A word is in lower case, so lowering a text hides none. *)
LEMMA EndsLower ==
    ASSUME tab \in Tables, NEW w \in NonEmpty, NEW t \in Seq(Byte), NEW i \in DOMAIN t,
           EndsAt(w, t, i)
    PROVE  EndsAt(w, ngx_strlow(t), i)
  <1> DEFINE n == Len(w)
             u == ngx_strlow(t)
  <1>1. /\ n \in Nat /\ DOMAIN w = 1 .. n /\ \A k \in 1 .. n : w[k] \in Alphabet
    BY LenProperties, ElementOfSeq DEF NonEmpty
  <1>2. Len(t) \in Nat /\ DOMAIN t = 1 .. Len(t) BY LenProperties
  <1>3. \A k \in DOMAIN t : u[k] = Lower(t[k]) BY DEF ngx_strlow
  <1>4. n <= i /\ \A k \in 1 .. n : w[k] = t[i - n + k] BY <1>1 DEF EndsAt
  <1> HIDE DEF n, u
  <1>5. ASSUME NEW k \in 1 .. n PROVE w[k] = u[i - n + k]
    <2>1. i - n + k \in DOMAIN t BY <1>1, <1>2, <1>4
    <2>2. w[k] \notin Capital BY <1>1, BytesFacts
    <2>3. Lower(w[k]) = w[k] BY <2>2 DEF Lower
    <2> QED BY <1>3, <1>4, <2>1, <2>3
  <1> QED BY <1>1, <1>4, <1>5 DEF EndsAt, n, u

(* A scan is to report something when a row or a rule is there. *)
LEMMA WantedHit ==
    ASSUME tab \in Tables, NEW f, NEW t \in Seq(Byte), NEW mask
    PROVE  Wanted(f, t, mask) # NoHit <=>
              \/ \E i \in DOMAIN t : RowsAt(f, t, mask, i) # {}
              \/ Complete(f, t, mask) # {}
  <1> DEFINE ends == {i \in DOMAIN t : RowsAt(f, t, mask, i) # {}}
             all == Complete(f, t, mask)
  <1>1. Wanted(f, t, mask) =
           IF ends # {} THEN tab.categories[Least(RowsAt(f, t, mask, Least(ends)))].cat
           ELSE IF all # {} THEN tab.rules[Least(all)].cat ELSE NoHit
    BY DEF Wanted, RowsAt, Complete
  <1>2. ends \subseteq Nat /\ \A i \in ends : RowsAt(f, t, mask, i) # {} BY LenProperties
  <1>3. ends # {} <=> \E i \in DOMAIN t : RowsAt(f, t, mask, i) # {} OBVIOUS
  <1>4. NoHit \notin Categories BY TablesAssumption
  <1>5. all \subseteq DOMAIN tab.rules BY DEF Complete
  <1>6. DOMAIN tab.rules \subseteq Nat /\ \A k \in DOMAIN tab.rules : tab.rules[k].cat \in Categories
    BY RuleFacts
  <1> HIDE DEF ends, all
  <1>7. CASE ends # {}
    <2> DEFINE R == RowsAt(f, t, mask, Least(ends))
    <2>1. Least(ends) \in ends BY <1>2, <1>7, LeastFacts
    <2>2. R # {} BY <1>2, <2>1
    <2>3. R \subseteq 1 .. NCATEGORIES /\ NCATEGORIES \in Nat BY CategoryFacts DEF RowsAt
    <2> HIDE DEF R
    <2>4. R \subseteq Nat BY <2>3
    <2>5. Least(R) \in R BY <2>2, <2>4, LeastFacts
    <2>6. tab.categories[Least(R)].cat \in Categories BY <2>3, <2>5, CategoryFacts
    <2>7. Wanted(f, t, mask) # NoHit BY <1>1, <1>4, <1>7, <2>6 DEF R
    <2> QED BY <1>3, <1>7, <2>7
  <1>8. CASE ends = {} /\ all # {}
    <2>1. Least(all) \in all BY <1>5, <1>6, <1>8, LeastFacts
    <2>2. tab.rules[Least(all)].cat \in Categories BY <1>5, <1>6, <2>1
    <2>3. Wanted(f, t, mask) # NoHit BY <1>1, <1>4, <1>8, <2>2
    <2> QED BY <1>8, <2>3 DEF all
  <1>9. CASE ends = {} /\ all = {} BY <1>1, <1>3, <1>9 DEF all
  <1> QED BY <1>7, <1>8, <1>9

(* A hit of the text is a hit of the text in lower case. *)
LEMMA WantedLower ==
    ASSUME tab \in Tables, NEW f, NEW t \in Seq(Byte), NEW mask, Wanted(f, t, mask) # NoHit
    PROVE  Wanted(f, ngx_strlow(t), mask) # NoHit
  <1> DEFINE u == ngx_strlow(t)
  <1>1. u \in Seq(Byte) /\ DOMAIN u = DOMAIN t BY LowerFacts DEF ngx_strlow
  <1>2. \A w \in NonEmpty : \A i \in DOMAIN t : EndsAt(w, t, i) => EndsAt(w, u, i)
    BY EndsLower
  <1> HIDE DEF u
  <1>3. ASSUME NEW i \in DOMAIN t, RowsAt(f, t, mask, i) # {} PROVE RowsAt(f, u, mask, i) # {}
    <2>1. PICK r \in 1 .. NCATEGORIES :
             /\ f \in tab.categories[r].bufs /\ tab.categories[r].cat \notin mask
             /\ \E j \in DOMAIN tab.categories[r].sigs : EndsAt(tab.categories[r].sigs[j], t, i)
      BY <1>3 DEF RowsAt
    <2>2. PICK j \in DOMAIN tab.categories[r].sigs : EndsAt(tab.categories[r].sigs[j], t, i)
      BY <2>1
    <2>3. tab.categories[r].sigs[j] \in NonEmpty
      <3> DEFINE sg == tab.categories[r].sigs
      <3>1. sg \in Seq(NonEmpty) BY CategoryFacts
      <3>2. j \in DOMAIN sg BY <2>2
      <3> HIDE DEF sg
      <3>3. sg[j] \in NonEmpty BY <3>1, <3>2, ElementOfSeq, LenProperties
      <3> QED BY <3>3 DEF sg
    <2>4. EndsAt(tab.categories[r].sigs[j], u, i) BY <1>2, <2>2, <2>3
    <2> QED BY <2>1, <2>4 DEF RowsAt
  <1>4. ASSUME NEW k \in Complete(f, t, mask) PROVE k \in Complete(f, u, mask)
    <2>1. /\ k \in DOMAIN tab.rules /\ f \in tab.rules[k].bufs /\ tab.rules[k].cat \notin mask
          /\ \A j \in DOMAIN tab.rules[k].terms : Occurs(tab.rules[k].terms[j], t)
      BY <1>4 DEF Complete
    <2>2. ASSUME NEW j \in DOMAIN tab.rules[k].terms PROVE Occurs(tab.rules[k].terms[j], u)
      <3> DEFINE tm == tab.rules[k].terms
      <3>1. tm \in Seq(NonEmpty) BY <2>1, RuleFacts
      <3>2. j \in DOMAIN tm BY <2>2
      <3>3. Occurs(tm[j], t) BY <2>1, <2>2
      <3> HIDE DEF tm
      <3>4. tm[j] \in NonEmpty BY <3>1, <3>2, ElementOfSeq, LenProperties
      <3>5. Occurs(tm[j], u) BY <1>1, <1>2, <3>3, <3>4 DEF Occurs
      <3> QED BY <3>5 DEF tm
    <2> QED BY <2>1, <2>2 DEF Complete
  <1>5. Wanted(f, u, mask) # NoHit
    <2>1. \/ \E i \in DOMAIN t : RowsAt(f, t, mask, i) # {}
          \/ Complete(f, t, mask) # {}
      BY WantedHit
    <2>2. \/ \E i \in DOMAIN u : RowsAt(f, u, mask, i) # {}
          \/ Complete(f, u, mask) # {}
      BY <1>1, <1>3, <1>4, <2>1
    <2> QED BY <1>1, <2>2, WantedHit
  <1> QED BY <1>5 DEF u

----------------------------------------------------------------------------
(* The forms of a text                                                     *)

(* t has no escape and no plus. *)
Plain(t) == \A i \in DOMAIN t : t[i] # PERCENT /\ t[i] # PLUS

(* A text without "+" has none to turn into a space. *)
LEMMA PlusPlain ==
    ASSUME NEW t \in Seq(Byte), \A i \in DOMAIN t : t[i] # PLUS
    PROVE  PlusToSpace(t) = t
  <1>1. t = [i \in DOMAIN t |-> t[i]] BY LenProperties
  <1>2. PlusToSpace(t) = [i \in DOMAIN t |-> t[i]] BY DEF PlusToSpace
  <1> QED BY <1>1, <1>2

(* The decoded form of a plain text, encoded or not, is the text in lower  *)
(* case;                                                                   *)
LEMMA DecodedPlain ==
    ASSUME NEW t \in Seq(Byte), Plain(t)
    PROVE  Decoded(t) = ngx_strlow(t) /\ Decoded(Encode(t)) = ngx_strlow(t)
  <1>1. /\ \A i \in DOMAIN t : t[i] # PERCENT
        /\ \A i \in DOMAIN t : t[i] # PLUS
    BY DEF Plain
  <1>2. ngx_unescape_uri(t) = t BY <1>1, UnescapePlain
  <1>3. ngx_unescape_uri(Encode(t)) = t BY UnescapeEncode
  <1>4. PlusToSpace(t) = t BY <1>1, PlusPlain
  <1> QED BY <1>2, <1>3, <1>4 DEF Decoded

(* Upper-casing a byte is undone by lower-casing it, and makes no "%" and  *)
(* no "+".                                                                 *)
LEMMA UpperFacts ==
    ASSUME NEW b \in Byte
    PROVE  /\ Upper(b) \in Byte /\ Lower(Upper(b)) = Lower(b)
           /\ Upper(b) = PERCENT => b = PERCENT
           /\ Upper(b) = PLUS => b = PLUS
  <1>1. CASE b \in 97 .. 122
    <2>1. Upper(b) = b - 32 BY <1>1 DEF Upper
    <2>2. /\ b - 32 \in Byte /\ b - 32 \in Capital /\ b \notin Capital /\ (b - 32) + 32 = b
          /\ b - 32 # PERCENT /\ b - 32 # PLUS
      BY <1>1 DEF Byte, Capital, PERCENT, PLUS
    <2> QED BY <2>1, <2>2 DEF Lower
  <1>2. CASE b \notin 97 .. 122
    <2>1. Upper(b) = b BY <1>2 DEF Upper
    <2> QED BY <2>1
  <1> QED BY <1>1, <1>2

(* Upper-casing a plain text is undone by lower-casing it. *)
LEMMA UpperText ==
    ASSUME NEW t \in Seq(Byte), Plain(t), NEW u, u = [i \in DOMAIN t |-> Upper(t[i])]
    PROVE  u \in Seq(Byte) /\ Plain(u) /\ ngx_strlow(u) = ngx_strlow(t)
  <1>1. DOMAIN t = 1 .. Len(t) /\ \A i \in DOMAIN t : t[i] \in Byte
    BY LenProperties, ElementOfSeq
  <1>2. DOMAIN u = DOMAIN t /\ \A i \in DOMAIN t : u[i] = Upper(t[i]) OBVIOUS
  <1>3. u = [i \in DOMAIN u |-> u[i]] OBVIOUS
  <1>4. \A i \in DOMAIN t : u[i] \in Byte BY <1>1, <1>2, UpperFacts
  <1>5. u \in Seq(Byte) BY <1>2, <1>3, <1>4, MapBytes
  <1>6. Plain(u) BY <1>1, <1>2, UpperFacts DEF Plain
  <1>7. \A i \in DOMAIN t : Lower(u[i]) = Lower(t[i]) BY <1>1, <1>2, UpperFacts
  <1>8. ngx_strlow(u) = ngx_strlow(t) BY <1>2, <1>7 DEF ngx_strlow
  <1> QED BY <1>5, <1>6, <1>8

(* "+" for every space is undone by decoding. *)
LEMMA PlusText ==
    ASSUME NEW t \in Seq(Byte), Plain(t),
           NEW u, u = [i \in DOMAIN t |-> IF t[i] = SPACE THEN PLUS ELSE t[i]]
    PROVE  u \in Seq(Byte) /\ Decoded(u) = ngx_strlow(t)
  <1>1. DOMAIN t = 1 .. Len(t) /\ \A i \in DOMAIN t : t[i] \in Byte
    BY LenProperties, ElementOfSeq
  <1>2. DOMAIN u = DOMAIN t /\ \A i \in DOMAIN t : u[i] = IF t[i] = SPACE THEN PLUS ELSE t[i]
    OBVIOUS
  <1>3. u = [i \in DOMAIN u |-> u[i]] OBVIOUS
  <1>4. PLUS \in Byte /\ PLUS # PERCENT BY DEF PLUS, PERCENT, Byte
  <1>5. \A i \in DOMAIN t : u[i] \in Byte BY <1>1, <1>2, <1>4
  <1>6. u \in Seq(Byte) BY <1>2, <1>3, <1>5, MapBytes
  <1>7. \A i \in DOMAIN u : u[i] # PERCENT BY <1>2, <1>4 DEF Plain
  <1>8. ngx_unescape_uri(u) = u BY <1>6, <1>7, UnescapePlain
  <1>9. \A i \in DOMAIN t : (IF u[i] = PLUS THEN SPACE ELSE u[i]) = t[i] BY <1>2 DEF Plain
  <1>10. t = [i \in DOMAIN t |-> t[i]] BY LenProperties
  <1>11. PlusToSpace(u) = [i \in DOMAIN u |-> IF u[i] = PLUS THEN SPACE ELSE u[i]]
    BY DEF PlusToSpace
  <1>12. PlusToSpace(u) = t BY <1>2, <1>9, <1>10, <1>11
  <1> QED BY <1>6, <1>8, <1>12 DEF Decoded

(* For any tables and mask, and any buffer without "%" and "+" in which    *)
(* the decoded automaton finds something: upper-casing it, writing its     *)
(* spaces as "+" and percent-encoding all of it leave a buffer in which    *)
(* scan_input finds something, too; and the decoded copy of no buffer      *)
(* outgrows it.                                                            *)
THEOREM EncodingIsSeenThrough == Spec => []EncodingHidesNothing
  <1>1. BuildInv /\ ScanInv => EncodingHidesNothing
    <2> DEFINE upper == [i \in DOMAIN text |-> Upper(text[i])]
               plus == [i \in DOMAIN text |-> IF text[i] = SPACE THEN PLUS ELSE text[i]]
               low == ngx_strlow(text)
    <2> SUFFICES ASSUME BuildInv, ScanInv, pc = "scanned"
                 PROVE  /\ Len(Decoded(text)) <= Len(text)
                        /\ /\ ToSet(text) \cap {PERCENT, PLUS} = {}
                           /\ ac_scan("decoded", text, skip) # NoHit
                           => \A t \in {upper, plus, Encode(text), Encode(upper)} :
                                 scan_input(t, skip) # NoHit
      BY DEF EncodingHidesNothing
    <2>1. tab \in Tables /\ text \in Texts(tab) /\ IsBuilt("decoded")
      BY DEF BuildInv, Control, AcInv, ScanInv
    <2>2. text \in Seq(Byte) BY <2>1, TextsAssumption
    <2>3. Len(Decoded(text)) <= Len(text) BY <2>2, DecodedFacts
    <2>4. SUFFICES ASSUME ToSet(text) \cap {PERCENT, PLUS} = {},
                          ac_scan("decoded", text, skip) # NoHit,
                          NEW t \in {upper, plus, Encode(text), Encode(upper)}
                   PROVE  scan_input(t, skip) # NoHit
      BY <2>3
    <2>5. Plain(text)
      <3>1. \A i \in DOMAIN text : text[i] \in ToSet(text) BY DEF ToSet
      <3> QED BY <2>4, <3>1 DEF Plain
    <2>6. /\ upper \in Seq(Byte) /\ Plain(upper) /\ ngx_strlow(upper) = low
      BY <2>2, <2>5, UpperText
    <2>7. /\ plus \in Seq(Byte) /\ Decoded(plus) = low BY <2>2, <2>5, PlusText
    <2> HIDE DEF upper, plus, low
    <2>8. t \in Seq(Byte) /\ Decoded(t) = low
      <3>1. CASE t = upper BY <2>6, <3>1, DecodedPlain
      <3>2. CASE t = plus BY <2>7, <3>2
      <3>3. CASE t = Encode(text) BY <2>2, <2>5, <3>3, DecodedPlain, UnescapeEncode DEF low
      <3>4. CASE t = Encode(upper) BY <2>6, <3>4, DecodedPlain, UnescapeEncode
      <3> QED BY <2>4, <3>1, <3>2, <3>3, <3>4
    <2>9. Wanted("decoded", text, skip) # NoHit BY <2>1, <2>2, <2>4, ScanFinds
    <2>10. Wanted("decoded", low, skip) # NoHit BY <2>1, <2>2, <2>9, WantedLower DEF low
    <2>11. scan_input(t, skip) = Expected(t, skip) BY <2>8, InputFinds
    <2>12. Expected(t, skip) # NoHit BY <2>8, <2>10 DEF Expected
    <2> QED BY <2>11, <2>12
  <1> QED BY <1>1, BuildIsSound, ScanInvHolds, PTL
=============================================================================
