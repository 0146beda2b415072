-------------------------- MODULE ShieldTextProofs --------------------------
(***************************************************************************)
(* Proofs about ShieldText, for texts of any length and alphabet, and any  *)
(* number of header lines and proxies.                                     *)
(***************************************************************************)
EXTENDS ShieldText, InductionLemmas

----------------------------------------------------------------------------
(* Where a walk stops                                                      *)

(* A walk down from n to a stops at the greatest position of P. *)
LEMMA LastStop ==
    ASSUME NEW P, NEW n \in Nat, NEW a \in 0 .. n
    PROVE  \E p \in a .. n : /\ p = a \/ p \in P
                             /\ \A q \in p + 1 .. n : q \notin P
<1> DEFINE S == {p \in a .. n : p = a \/ p \in P}
<1>1. S \subseteq 0 .. n /\ a \in S
  OBVIOUS
<1>2. PICK m \in S : \A k \in S : k <= m
  <2> HIDE DEF S
  <2> QED BY <1>1, GreatestNatural
<1>3. ASSUME NEW q \in m + 1 .. n, q \in P PROVE FALSE
  <2>1. q \in S /\ ~ (q <= m)
    BY <1>3
  <2> QED BY <1>2, <2>1
<1> QED BY <1>2, <1>3

(* A walk up from a to n stops before the least position of P. *)
LEMMA FirstStop ==
    ASSUME NEW P, NEW n \in Nat, NEW a \in 0 .. n
    PROVE  \E p \in a .. n : /\ p = n \/ p + 1 \in P
                             /\ \A q \in a + 1 .. p : q \notin P
<1> DEFINE S == {p \in a .. n : p = n \/ p + 1 \in P}
<1>1. S \subseteq Nat /\ n \in S
  OBVIOUS
<1>2. PICK m \in S : \A k \in S : m <= k
  <2> HIDE DEF S
  <2> QED BY <1>1, LeastNatural
<1>3. ASSUME NEW q \in a + 1 .. m, q \in P PROVE FALSE
  <2>1. q - 1 \in S /\ ~ (m <= q - 1)
    BY <1>3
  <2> QED BY <1>2, <2>1
<1> QED BY <1>2, <1>3

(* The sequence from p + 1 to q of s: its length and its elements. *)
LEMMA Slice ==
    ASSUME NEW V, NEW s \in Seq(V), NEW p \in 0 .. Len(s), NEW q \in p .. Len(s)
    PROVE  /\ SubSeq(s, p + 1, q) \in Seq(V)
           /\ Len(SubSeq(s, p + 1, q)) = q - p
           /\ DOMAIN SubSeq(s, p + 1, q) = 1 .. q - p
           /\ \A i \in 1 .. q - p : SubSeq(s, p + 1, q)[i] = s[p + i]
<1>1. Len(s) \in Nat /\ \A i \in p + 1 .. q : s[i] \in V
  BY LenProperties, ElementOfSeq
<1>2. p + 1 \in Int /\ q \in Int
  BY <1>1
<1> DEFINE t == SubSeq(s, p + 1, q)
<1>3. /\ t \in Seq(V) /\ Len(t) = IF p + 1 <= q THEN q - (p + 1) + 1 ELSE 0
      /\ \A i \in 1 .. q - (p + 1) + 1 : t[i] = s[(p + 1) + i - 1]
  BY <1>1, <1>2, SubSeqProperties
<1>4. Len(t) = q - p
  BY <1>1, <1>3
<1>5. DOMAIN t = 1 .. q - p
  BY <1>3, <1>4, LenProperties
<1> HIDE DEF t
<1>6. ASSUME NEW i \in 1 .. q - p PROVE t[i] = s[p + i]
  <2>1. i \in 1 .. q - (p + 1) + 1 /\ (p + 1) + i - 1 = p + i
    BY <1>1
  <2> QED BY <1>3, <2>1
<1> QED BY <1>3, <1>4, <1>5, <1>6 DEF t

----------------------------------------------------------------------------
(* The last token of a header line                                         *)

(* The last element of value begins behind s, its token behind l, and ends *)
(* with r.                                                                 *)
StartIs(value, s) == /\ s \in 0 .. Len(value)
                     /\ s = 0 \/ value[s] = ","
                     /\ \A q \in s + 1 .. Len(value) : value[q] # ","
LeftIs(value, s, l) == /\ l \in s .. Len(value)
                       /\ l = Len(value) \/ value[l + 1] \notin Blank
                       /\ \A q \in s + 1 .. l : value[q] \in Blank
RightIs(value, l, r) == /\ r \in l .. Len(value)
                        /\ r = l \/ value[r] \notin Blank
                        /\ \A q \in r + 1 .. Len(value) : value[q] \in Blank
Trims(value, s, l, r) == StartIs(value, s) /\ LeftIs(value, s, l) /\ RightIs(value, l, r)

LEMMA TokenIs ==
    ASSUME NEW V, NEW value \in Seq(V)
    PROVE  \E s, l, r : /\ Trims(value, s, l, r)
                        /\ xff_last_token(value) = SubSeq(value, l + 1, r)
<1> DEFINE n == Len(value)
           start == CHOOSE p \in 0 .. n : /\ p = 0 \/ value[p] = ","
                                          /\ \A q \in p + 1 .. n : value[q] # ","
           left == CHOOSE p \in start .. n : /\ p = n \/ value[p + 1] \notin Blank
                                             /\ \A q \in start + 1 .. p : value[q] \in Blank
           right == CHOOSE p \in left .. n : /\ p = left \/ value[p] \notin Blank
                                             /\ \A q \in p + 1 .. n : value[q] \in Blank
<1>0. xff_last_token(value) = SubSeq(value, left + 1, right)
  BY DEF xff_last_token
<1>1. n \in Nat
  BY LenProperties
<1> HIDE DEF n, left, right
<1>2. start \in 0 .. n /\ (start = 0 \/ value[start] = ",")
      /\ \A q \in start + 1 .. n : value[q] # ","
  <2> DEFINE P == {q \in 1 .. n : value[q] = ","}
  <2>1. 0 \in 0 .. n
    BY <1>1
  <2>2. PICK p \in 0 .. n : /\ p = 0 \/ p \in P
                            /\ \A q \in p + 1 .. n : q \notin P
    <3> HIDE DEF P, start
    <3> QED BY <1>1, <2>1, LastStop
  <2>3. \A q \in p + 1 .. n : q \in 1 .. n
    BY <1>1
  <2>4. /\ p = 0 \/ value[p] = ","
        /\ \A q \in p + 1 .. n : value[q] # ","
    BY <2>2, <2>3
  <2> QED BY <2>4
<1> HIDE DEF start
<1>s. start \in 0 .. n
  BY <1>2
<1>3. left \in start .. n /\ (left = n \/ value[left + 1] \notin Blank)
      /\ \A q \in start + 1 .. left : value[q] \in Blank
  <2> DEFINE P == {q \in 1 .. n : value[q] \notin Blank}
  <2>2. PICK p \in start .. n : /\ p = n \/ p + 1 \in P
                                /\ \A q \in start + 1 .. p : q \notin P
    <3> HIDE DEF P
    <3> QED BY <1>1, <1>2, FirstStop
  <2>3. \A q \in start + 1 .. p : q \in 1 .. n
    BY <1>1, <1>s
  <2>4. /\ p = n \/ value[p + 1] \notin Blank
        /\ \A q \in start + 1 .. p : value[q] \in Blank
    BY <2>2, <2>3
  <2> QED BY <2>4 DEF left
<1>4. right \in left .. n /\ (right = left \/ value[right] \notin Blank)
      /\ \A q \in right + 1 .. n : value[q] \in Blank
  <2> DEFINE P == {q \in 1 .. n : value[q] \notin Blank}
  <2>1. left \in 0 .. n
    <3>1. left \in start .. n
      BY <1>3
    <3> QED BY <1>1, <1>s, <3>1
  <2>2. PICK p \in left .. n : /\ p = left \/ p \in P
                               /\ \A q \in p + 1 .. n : q \notin P
    <3> HIDE DEF P
    <3> QED BY <1>1, <2>1, LastStop
  <2>3. \A q \in p + 1 .. n : q \in 1 .. n
    BY <1>1, <2>1
  <2>4. /\ p = left \/ value[p] \notin Blank
        /\ \A q \in p + 1 .. n : value[q] \in Blank
    BY <2>2, <2>3
  <2> QED BY <2>4 DEF right
<1>5. Trims(value, start, left, right)
  BY <1>2, <1>3, <1>4 DEF Trims, StartIs, LeftIs, RightIs, n
<1> QED BY <1>0, <1>5

(* The line ends with x, which is all of it or follows a comma. *)
EndsWith(value, x, n) ==
    /\ n = Len(value) /\ n \in Nat \ {0} /\ value[n] = x /\ x \notin Blank \cup {","}
    /\ n = 1 \/ (n >= 3 /\ value[n - 1] = " " /\ value[n - 2] = ",")

(* What a proxy noted at the end of a line is the token of that line. *)
LEMMA NotedToken ==
    ASSUME NEW V, NEW value \in Seq(V), NEW x, NEW n, EndsWith(value, x, n)
    PROVE  xff_last_token(value) = <<x>>
<1>1. PICK s, l, r : /\ Trims(value, s, l, r)
                     /\ xff_last_token(value) = SubSeq(value, l + 1, r)
  BY TokenIs
<1>a. n = Len(value) /\ n \in Nat \ {0}
  BY DEF EndsWith
<1>2. n = Len(value) /\ n \in Nat /\ n >= 1
  BY <1>a
<1>3. s \in 0 .. n /\ l \in s .. n /\ r \in l .. n
  BY <1>1, <1>2 DEF Trims, StartIs, LeftIs, RightIs
<1>4. s # n
  <2> SUFFICES ASSUME s = n PROVE FALSE
    OBVIOUS
  <2>1. s = 0 \/ value[s] = ","
    BY <1>1 DEF Trims, StartIs
  <2>2. value[n] = ","
    BY <1>a, <2>1
  <2> QED BY <2>2 DEF EndsWith
<1>5. l # n
  <2> SUFFICES ASSUME l = n PROVE FALSE
    OBVIOUS
  <2>1. n \in s + 1 .. l
    BY <1>2, <1>3, <1>4
  <2>2. value[n] \in Blank
    BY <1>1, <2>1 DEF Trims, LeftIs
  <2> QED BY <2>2 DEF EndsWith
<1>6. l = n - 1
  <2>1. CASE n = 1
    BY <1>3, <1>5, <2>1
  <2>2. CASE n # 1
    <3>0. n >= 3 /\ value[n - 1] = " " /\ value[n - 2] = ","
      BY <2>2 DEF EndsWith
    <3>1. s >= n - 2
      <4> SUFFICES ASSUME s < n - 2 PROVE FALSE
        BY <1>2, <1>3
      <4>1. n - 2 \in s + 1 .. n
        BY <1>2, <1>3
      <4>2. value[n - 2] # ","
        BY <1>1, <1>2, <4>1 DEF Trims, StartIs
      <4> QED BY <3>0, <4>2
    <3>2. l # n - 2
      <4> SUFFICES ASSUME l = n - 2 PROVE FALSE
        OBVIOUS
      <4>1. l + 1 = n - 1 /\ l # n
        BY <1>2
      <4>2. value[n - 1] \notin Blank
        BY <1>1, <1>2, <4>1 DEF Trims, LeftIs
      <4> QED BY <3>0, <4>2 DEF Blank
    <3> QED BY <1>2, <1>3, <1>5, <3>1, <3>2
  <2> QED BY <2>1, <2>2
<1>7. r = n
  <2> SUFFICES ASSUME r # n PROVE FALSE
    OBVIOUS
  <2>1. n \in r + 1 .. n
    BY <1>2, <1>3
  <2>2. value[n] \in Blank
    BY <1>1, <1>2, <2>1 DEF Trims, RightIs
  <2> QED BY <2>2 DEF EndsWith
<1>8. l \in 0 .. Len(value) /\ r \in l .. Len(value) /\ r - l = 1 /\ l + 1 = n /\ 1 \in 1 .. 1
  BY <1>2, <1>3, <1>6, <1>7
<1>9. /\ SubSeq(value, l + 1, r) \in Seq(V) /\ Len(SubSeq(value, l + 1, r)) = 1
      /\ SubSeq(value, l + 1, r)[1] = value[n]
  BY <1>8, Slice
<1>10. value[n] = x
  BY DEF EndsWith
<1> DEFINE t == SubSeq(value, l + 1, r)
<1> HIDE DEF t
<1>11. t = <<x>>
  <2>1. t \in Seq(V) /\ Len(t) = 1 /\ t[1] = x
    BY <1>9, <1>10 DEF t
  <2>2. DOMAIN t = 1 .. 1
    BY <2>1, LenProperties
  <2> QED BY <2>1, <2>2
<1> QED BY <1>1, <1>11 DEF t

----------------------------------------------------------------------------
(* The ban key                                                             *)

LEMMA PairIsSeq == ASSUME NEW V, NEW a \in V, NEW b \in V PROVE <<a, b>> \in Seq(V)
  OBVIOUS

(* What is put between two lines. *)
Separator == <<",", " ">>

(* Joining lines gives one line. *)
LEMMA JoinedType ==
    ASSUME NEW V, Separator \in Seq(V), NEW lines \in Seq(Seq(V))
    PROVE  Joined(lines) \in Seq(V)
<1> DEFINE n == Len(lines)
           W == Seq(V)
           Glue(v, i) == IF v = << >> THEN lines[i] ELSE v \o Separator \o lines[i]
           step == [i \in 1 .. n |-> [v \in W |-> Glue(v, i)]]
           e == << >>
           Rec(f) == f = [i \in 0 .. n |-> IF i = 0 THEN << >> ELSE Glue(f[i - 1], i)]
           g == CHOOSE f : Rec(f)
<1>1. n \in Nat /\ \A i \in 1 .. n : lines[i] \in W
  BY LenProperties, ElementOfSeq
<1>2. \A v \in W, i \in 1 .. n : Glue(v, i) \in W
  <2> SUFFICES ASSUME NEW v \in W, NEW i \in 1 .. n PROVE Glue(v, i) \in W
    OBVIOUS
  <2>1. lines[i] \in W /\ Separator \in W
    BY <1>1
  <2>2. v \o Separator \in W
    BY <2>1, ConcatProperties
  <2>3. (v \o Separator) \o lines[i] \in W
    BY <2>1, <2>2, ConcatProperties
  <2> QED BY <2>1, <2>3
<1>3. Joined(lines) = g[n]
  BY DEF Joined, Separator
<1>4. e \in W
  OBVIOUS
<1> HIDE DEF Glue, n, g
<1>5. step \in [1 .. n -> [W -> W]]
  BY <1>2
<1>6. \A i \in 1 .. n : \A v \in W : step[i][v] = Glue(v, i)
  OBVIOUS
<1> HIDE DEF W, step, e
<1>7. PICK f : Iterates(f, n, W, e, step)
  BY <1>1, <1>4, <1>5, Recursion
<1>8. f \in [0 .. n -> W] /\ f[0] = << >>
  BY <1>7 DEF Iterates, e
<1>9. ASSUME NEW i \in 1 .. n PROVE f[i] = Glue(f[i - 1], i)
  <2>1. i - 1 \in 0 .. n
    BY <1>1
  <2>2. f[i - 1] \in W
    BY <1>8, <2>1
  <2> QED BY <1>6, <1>7, <2>2 DEF Iterates
<1>10. Rec(f)
  <2>1. ASSUME NEW i \in 0 .. n PROVE f[i] = IF i = 0 THEN << >> ELSE Glue(f[i - 1], i)
    <3>1. CASE i = 0
      BY <1>8, <3>1
    <3>2. CASE i # 0
      <4>1. i \in 1 .. n
        BY <1>1, <3>2
      <4> QED BY <1>9, <3>2, <4>1
    <3> QED BY <3>1, <3>2
  <2> QED BY <1>8, <2>1
<1>11. Rec(g)
  BY <1>10 DEF g
<1>12. g[0] = << >> /\ \A i \in 1 .. n : g[i] = Glue(g[i - 1], i)
  <2>1. 0 \in 0 .. n /\ \A i \in 1 .. n : i \in 0 .. n /\ i # 0
    BY <1>1
  <2> QED BY <1>11, <2>1
<1> HIDE DEF Rec
<1> DEFINE S == {m \in Nat : m <= n => g[m] \in W}
<1>13. 0 \in S
  BY <1>4, <1>12 DEF e
<1>14. ASSUME NEW m \in Nat, m \in S PROVE m + 1 \in S
  <2> SUFFICES ASSUME m + 1 <= n PROVE g[m + 1] \in W
    OBVIOUS
  <2>1. m + 1 \in 1 .. n /\ (m + 1) - 1 = m /\ m <= n
    BY <1>1
  <2>2. g[m + 1] = Glue(g[m], m + 1)
    BY <1>12, <2>1
  <2> QED BY <1>2, <1>14, <2>1, <2>2
<1>15. n \in S
  <2> HIDE DEF S
  <2>1. Nat \subseteq S
    BY <1>13, <1>14, SetInduction
  <2> QED BY <1>1, <2>1
<1> QED BY <1>1, <1>3, <1>15 DEF W

LEMMA ThreeMore ==
    ASSUME NEW V, NEW J \in Seq(V), NEW a \in V, NEW b \in V, NEW x \in V,
           NEW n, n = Len(J) + 3
    PROVE  /\ J \o <<a, b, x>> \in Seq(V) /\ Len(J \o <<a, b, x>>) = n
           /\ (J \o <<a, b, x>>)[n - 2] = a /\ (J \o <<a, b, x>>)[n - 1] = b
           /\ (J \o <<a, b, x>>)[n] = x
           /\ n \in Nat \ {0} /\ n >= 3
<1> DEFINE t == <<a, b, x>>
<1>1. t \in Seq(V) /\ Len(t) = 3 /\ t[1] = a /\ t[2] = b /\ t[3] = x
  OBVIOUS
<1>2. Len(J) \in Nat
  BY LenProperties
<1> HIDE DEF t
<1>3. /\ J \o t \in Seq(V) /\ Len(J \o t) = Len(J) + Len(t)
      /\ \A i \in 1 .. Len(J) + Len(t) :
            (J \o t)[i] = IF i <= Len(J) THEN J[i] ELSE t[i - Len(J)]
  BY <1>1, ConcatProperties
<1>4. /\ n - 2 \in 1 .. Len(J) + Len(t) /\ (n - 2) - Len(J) = 1 /\ ~ (n - 2 <= Len(J))
      /\ n - 1 \in 1 .. Len(J) + Len(t) /\ (n - 1) - Len(J) = 2 /\ ~ (n - 1 <= Len(J))
      /\ n \in 1 .. Len(J) + Len(t) /\ n - Len(J) = 3 /\ ~ (n <= Len(J))
      /\ n = Len(J) + Len(t) /\ n \in Nat \ {0} /\ n >= 3
  BY <1>1, <1>2
<1>5. J \o t \in Seq(V) /\ Len(J \o t) = n
  BY <1>3, <1>4
<1>6. (J \o t)[n - 2] = a /\ (J \o t)[n - 1] = b /\ (J \o t)[n] = x
  BY <1>1, <1>3, <1>4
<1> QED BY <1>4, <1>5, <1>6 DEF t

LEMMA OneLexeme ==
    ASSUME NEW V, NEW x \in V
    PROVE  <<x>> \in Seq(V) /\ Len(<<x>>) = 1 /\ <<x>>[1] = x /\ 1 \in Nat \ {0}
  OBVIOUS

(* The ends of connections, and the lexemes of a line. *)
Ends == Addrs \cup {Local}

LEMMA EndsAreText ==
    /\ Ends \subseteq Text /\ "," \in Text /\ " " \in Text
    /\ \A x \in Ends : x \notin Blank \cup {","}
  BY TextAssumption, Zenon DEF Ends, Text, Addrs, Blank

(* Whichever way a proxy notes x, the last line is a line whose token is x. *)
LEMMA JoinedNote ==
    ASSUME NEW J \in Seq(Text), NEW x \in Ends
    PROVE  /\ J \o <<",", " ", x>> \in Seq(Text)
           /\ xff_last_token(J \o <<",", " ", x>>) = <<x>>
<1> DEFINE t == J \o <<",", " ", x>>
           n == Len(J) + 3
<1>1. "," \in Text /\ " " \in Text /\ x \in Text /\ x \notin Blank \cup {","}
  BY EndsAreText, Zenon
<1>2. /\ t \in Seq(Text) /\ Len(t) = n /\ t[n - 2] = "," /\ t[n - 1] = " " /\ t[n] = x
      /\ n \in Nat \ {0} /\ n >= 3
  <2> HIDE DEF n
  <2>1. n = Len(J) + 3
    BY DEF n
  <2>2. ASSUME NEW a \in Text, NEW b \in Text
        PROVE  /\ J \o <<a, b, x>> \in Seq(Text) /\ Len(J \o <<a, b, x>>) = n
               /\ (J \o <<a, b, x>>)[n - 2] = a /\ (J \o <<a, b, x>>)[n - 1] = b
               /\ (J \o <<a, b, x>>)[n] = x
               /\ n \in Nat \ {0} /\ n >= 3
    <3>1. x \in Text
      BY <1>1, Zenon
    <3> QED BY <2>1, <3>1, ThreeMore
  <2> QED BY <1>1, <2>2, Zenon
<1> HIDE DEF t, n
<1>3. EndsWith(t, x, n)
  BY <1>1, <1>2, Zenon DEF EndsWith
<1>4. xff_last_token(t) = <<x>>
  BY <1>2, <1>3, NotedToken, Zenon
<1> QED BY <1>2, <1>4, Zenon DEF t

LEMMA LoneNote ==
    ASSUME NEW x \in Ends
    PROVE  <<x>> \in Seq(Text) /\ xff_last_token(<<x>>) = <<x>>
<1>1. x \in Text /\ x \notin Blank \cup {","}
  BY EndsAreText, Zenon
<1>2. <<x>> \in Seq(Text) /\ Len(<<x>>) = 1 /\ <<x>>[1] = x /\ 1 \in Nat \ {0}
  BY <1>1, OneLexeme
<1>3. EndsWith(<<x>>, x, 1)
  BY <1>1, <1>2, Zenon DEF EndsWith
<1> QED BY <1>2, <1>3, NotedToken, Zenon

LEMMA SeparatorIsText == Separator \in Seq(Text)
  BY EndsAreText, PairIsSeq, Zenon DEF Separator

(* The last line of a relayed request ends with whom its peer had it from; *)
(* a request that no proxy relayed comes from no proxy.                    *)
KInv ==
    /\ uri \in Seq(PathBytes) /\ ct \in Seq(TypeWords)
    /\ xff \in Seq(Seq(Text)) /\ peer \in Ends
    /\ stage \in {"client", "sent", "keyed"}
    /\ stage = "client" => peer \notin Proxies
    /\ stage = "sent" => /\ xff # << >> /\ seen \in Ends
                         /\ xff_last_token(Last(xff)) = <<seen>>
    /\ KeyIsNearestPeer

LEMMA KInit == Init => KInv
<1> SUFFICES ASSUME Init PROVE KInv
  OBVIOUS
<1>1. /\ uri \in Seq(PathBytes) /\ ct \in Seq(TypeWords) /\ xff \in Seq(Seq(Text))
  BY EmptySeq DEF Init
<1>2. peer \in Ends /\ peer \notin Proxies
  BY TextAssumption, Zenon DEF Init, Ends, Addrs
<1> QED BY <1>1, <1>2, Zenon DEF Init, KInv, KeyIsNearestPeer

LEMMA KKey == ASSUME KInv, Key PROVE KeyIsNearestPeer'
<1> DEFINE token == xff_last_token(Last(xff))
<1>1. addr' = IF ban_key # "forwarded" \/ ~ peer_trusted(peer) \/ xff = << >>
                THEN sockaddr_bytes(peer)
              ELSE sockaddr_bytes(IF Parses(token) THEN token[1] ELSE peer)
  BY DEF Key, ban_addr
<1> HIDE DEF token
<1>2. /\ ban_key' = ban_key /\ peer' = peer /\ seen' = seen
      /\ stage = "client" \/ stage = "sent"
  BY Zenon DEF Key, KInv
<1>3. ASSUME NEW x PROVE sockaddr_bytes(x) = IF x \in Addrs THEN x ELSE None
  BY DEF sockaddr_bytes
<1>4. CASE ~ (ban_key = "forwarded" /\ peer \in Trusted)
  BY <1>1, <1>2, <1>3, <1>4, Zenon DEF peer_trusted, KeyIsNearestPeer
<1>5. CASE ban_key = "forwarded" /\ peer \in Trusted
  <2>1. xff # << >> /\ seen \in Ends /\ token = <<seen>>
    BY <1>2, <1>5, TextAssumption, Zenon DEF KInv, token
  <2>2. token[1] = seen /\ Len(token) = 1
    BY <2>1
  <2>3. Parses(token) <=> seen \in Addrs
    BY <2>2 DEF Parses
  <2>4. addr' = sockaddr_bytes(IF seen \in Addrs THEN seen ELSE peer)
    BY <1>1, <1>5, <2>1, <2>2, <2>3, Zenon DEF peer_trusted
  <2>5. CASE seen \in Addrs
    BY <1>2, <1>3, <1>5, <2>4, <2>5, Zenon DEF KeyIsNearestPeer
  <2>6. CASE seen \notin Addrs
    BY <1>2, <1>3, <1>5, <2>4, <2>6, Zenon DEF KeyIsNearestPeer
  <2> QED BY <2>5, <2>6
<1> QED BY <1>4, <1>5

LEMMA RelayedLines ==
    ASSUME KInv, NEW p \in Proxies, Relay(p)
    PROVE  /\ xff' \in Seq(Seq(Text)) /\ xff' # << >>
           /\ xff_last_token(Last(xff')) = <<peer>>
<1>1. peer \in Ends /\ xff \in Seq(Seq(Text))
  BY DEF KInv
<1>2. /\ <<peer>> \in Seq(Text) /\ xff_last_token(<<peer>>) = <<peer>>
  BY <1>1, LoneNote
<1>3. Joined(xff) \in Seq(Text)
  BY <1>1, SeparatorIsText, JoinedType
<1>4. ASSUME NEW v \in Seq(Text), xff_last_token(v) = <<peer>>, xff' = <<v>>
      PROVE  xff' \in Seq(Seq(Text)) /\ xff' # << >> /\ xff_last_token(Last(xff')) = <<peer>>
  <2>1. xff' \in Seq(Seq(Text)) /\ xff' # << >> /\ Last(xff') = v
    BY <1>4 DEF Last
  <2> QED BY <1>4, <2>1
<1>5. CASE xff' = Append(xff, <<peer>>)
  <2>1. xff' \in Seq(Seq(Text)) /\ xff' # << >> /\ Last(xff') = <<peer>>
    BY <1>1, <1>2, <1>5, AppendProperties, SMTT(20) DEF Last
  <2> QED BY <1>2, <2>1
<1>6. CASE xff' = <<<<peer>>>>
  BY <1>2, <1>4, <1>6
<1>7. CASE xff' = <<Joined(xff) \o <<",", " ", peer>>>>
  <2>1. /\ Joined(xff) \o <<",", " ", peer>> \in Seq(Text)
        /\ xff_last_token(Joined(xff) \o <<",", " ", peer>>) = <<peer>>
    BY <1>1, <1>3, JoinedNote, Zenon
  <2> QED BY <1>4, <1>7, <2>1, Zenon
<1> QED BY <1>5, <1>6, <1>7, Zenon DEF Relay

LEMMA WrittenLines == ASSUME KInv, Write PROVE xff' \in Seq(Seq(Text))
<1>1. xff \in Seq(Seq(Text))
  BY DEF KInv
<1>2. CASE xff' = Append(xff, << >>)
  <2>1. << >> \in Seq(Text)
    BY EmptySeq
  <2> QED BY <1>1, <1>2, <2>1, AppendProperties
<1>3. ASSUME xff # << >>, NEW x \in Text, xff' = [xff EXCEPT ![Len(xff)] = Append(@, x)]
      PROVE  xff' \in Seq(Seq(Text))
  <2>1. Len(xff) \in 1 .. Len(xff)
    BY <1>1, <1>3, EmptySeq
  <2>2. xff[Len(xff)] \in Seq(Text)
    BY <1>1, <2>1, ElementOfSeq
  <2>3. Append(xff[Len(xff)], x) \in Seq(Text)
    BY <2>2, AppendProperties
  <2>4. xff' = [xff EXCEPT ![Len(xff)] = Append(xff[Len(xff)], x)]
    BY <1>3
  <2> QED BY <1>1, <2>1, <2>3, <2>4, ExceptSeq
<1> QED BY <1>2, <1>3 DEF Write

LEMMA KNext == KInv /\ [Next]_vars => KInv'
<1> SUFFICES ASSUME KInv, [Next]_vars PROVE KInv'
  OBVIOUS
<1>1. CASE GrowUri
  <2>1. uri' \in Seq(PathBytes)
    BY <1>1, AppendProperties DEF GrowUri, KInv
  <2> QED BY <1>1, <2>1, Zenon DEF GrowUri, KInv, KeyIsNearestPeer
<1>2. CASE GrowType
  <2>1. ct' \in Seq(TypeWords)
    BY <1>2, AppendProperties DEF GrowType, KInv
  <2> QED BY <1>2, <2>1, Zenon DEF GrowType, KInv, KeyIsNearestPeer
<1>3. CASE Write
  BY <1>3, WrittenLines, Zenon DEF Write, KInv, KeyIsNearestPeer
<1>4. ASSUME NEW p \in Proxies, Relay(p) PROVE KInv'
  <2>1. /\ xff' \in Seq(Seq(Text)) /\ xff' # << >>
        /\ xff_last_token(Last(xff')) = <<peer>>
    BY <1>4, RelayedLines
  <2>2. /\ peer' = p /\ seen' = peer /\ stage' = "sent" /\ uri' = uri /\ ct' = ct
    BY <1>4 DEF Relay
  <2>3. p \in Ends
    BY Zenon DEF Ends, Addrs
  <2> QED BY <2>1, <2>2, <2>3, Zenon DEF KInv, KeyIsNearestPeer
<1>5. CASE Key
  BY <1>5, KKey, Zenon DEF Key, KInv
<1>6. CASE UNCHANGED vars
  BY <1>6, Zenon DEF vars, KInv, KeyIsNearestPeer
<1> QED BY <1>1, <1>2, <1>3, <1>4, <1>5, <1>6 DEF Next

LEMMA KAlways == Spec => []KInv
  BY KInit, KNext, PTL DEF Spec

(* The ban key is the peer, or whom a trusted peer accepted the request    *)
(* from: nothing that a client writes into X-Forwarded-For moves it, in    *)
(* however many lines, tokens and hops (ngx_http_shield_ban_addr).         *)
THEOREM NearestPeerKeyed == Spec => []KeyIsNearestPeer
<1>1. KInv => KeyIsNearestPeer
  BY DEF KInv
<1> QED BY <1>1, KAlways, PTL

----------------------------------------------------------------------------
(* The walk against the split                                              *)

LastOf(all) == all[CHOOSE c \in DOMAIN all : \A d \in DOMAIN all : d <= c]

(* The last element of the split is what follows the last comma. *)
LEMMA LastElement ==
    ASSUME NEW V, NEW value \in Seq(V), NEW s, StartIs(value, s)
    PROVE  LastOf(Elements(value)) = SubSeq(value, s + 1, Len(value))
<1> DEFINE n == Len(value)
           commas == {i \in DOMAIN value : value[i] = ","}
           cuts == {0, n + 1} \cup commas
           Behind(c) == CHOOSE d \in cuts : d > c /\ \A e \in cuts : e > c => d <= e
           all == [c \in cuts \ {n + 1} |-> SubSeq(value, c + 1, Behind(c) - 1)]
           D == cuts \ {n + 1}
<1>1. Elements(value) = all /\ DOMAIN all = D
  BY DEF Elements
<1>2. n \in Nat /\ DOMAIN value = 1 .. n /\ s \in 0 .. n
  BY LenProperties DEF StartIs
<1>3. (s = 0 \/ value[s] = ",") /\ \A q \in s + 1 .. n : value[q] # ","
  BY DEF StartIs
<1> HIDE DEF n
<1>4. commas \subseteq 1 .. n /\ \A c \in commas : c <= s
  <2>1. commas \subseteq 1 .. n
    BY <1>2
  <2>2. ASSUME NEW c \in commas, ~ (c <= s) PROVE FALSE
    <3>1. c \in 1 .. n
      BY <2>1
    <3>2. c \in s + 1 .. n
      <4> HIDE DEF commas
      <4> QED BY <1>2, <2>2, <3>1
    <3> QED BY <1>3, <3>2
  <2> QED BY <2>1, <2>2
<1>5. s = 0 \/ s \in commas
  <2> SUFFICES ASSUME s # 0 PROVE s \in commas
    OBVIOUS
  <2>1. s \in 1 .. n
    BY <1>2
  <2> QED BY <1>2, <1>3, <2>1
<1> HIDE DEF commas
<1>6. s \in D /\ D \subseteq 0 .. n /\ \A c \in D : c <= s
  BY <1>2, <1>4, <1>5
<1>7. Behind(s) = n + 1
  <2>1. /\ n + 1 \in cuts /\ n + 1 > s
        /\ \A e \in cuts : e > s => e = n + 1
    BY <1>2, <1>4
  <2> HIDE DEF cuts
  <2>2. \A d \in cuts : d > s /\ (\A e \in cuts : e > s => d <= e) => d = n + 1
    BY <2>1
  <2>3. \E d \in cuts : d > s /\ \A e \in cuts : e > s => d <= e
    <3>1. \A e \in cuts : e > s => n + 1 <= e
      BY <1>2, <2>1
    <3> QED BY <2>1, <3>1
  <2>4. Behind(s) \in cuts /\ Behind(s) > s /\ \A e \in cuts : e > s => Behind(s) <= e
    BY <2>3
  <2> QED BY <2>2, <2>4
<1>8. all[s] = SubSeq(value, s + 1, n)
  <2>1. all[s] = SubSeq(value, s + 1, Behind(s) - 1)
    BY <1>6
  <2>2. (n + 1) - 1 = n
    BY <1>2
  <2> HIDE DEF all, Behind
  <2> QED BY <1>7, <2>1, <2>2
<1> HIDE DEF all, D
<1>9. (CHOOSE c \in D : \A d \in D : d <= c) = s
  <2>1. \A c \in D : (\A d \in D : d <= c) => c = s
    BY <1>2, <1>6
  <2> QED BY <1>6, <2>1
<1> QED BY <1>1, <1>8, <1>9 DEF LastOf, n

(* What LastTokenExact says of one line. *)
TokenExact(value) ==
    LET last == LastOf(Elements(value))
        words == {i \in DOMAIN last : last[i] \notin Blank}
        token == xff_last_token(value)
    IN  IF words = {} THEN token = << >>
        ELSE \E i, j \in words : /\ \A k \in words : i <= k /\ k <= j
                                 /\ token = SubSeq(last, i, j)

LEMMA TokenIsExact == ASSUME NEW V, NEW value \in Seq(V) PROVE TokenExact(value)
<1>1. PICK s, l, r : /\ Trims(value, s, l, r)
                     /\ xff_last_token(value) = SubSeq(value, l + 1, r)
  BY TokenIs
<1> DEFINE n == Len(value)
           last == SubSeq(value, s + 1, n)
           words == {i \in DOMAIN last : last[i] \notin Blank}
<1>2. LastOf(Elements(value)) = last
  BY <1>1, LastElement DEF Trims
<1>3. n \in Nat /\ s \in 0 .. n /\ l \in s .. n /\ r \in l .. n
  BY <1>1, LenProperties DEF Trims, StartIs, LeftIs, RightIs
<1>4. /\ l = n \/ value[l + 1] \notin Blank
      /\ \A q \in s + 1 .. l : value[q] \in Blank
      /\ r = l \/ value[r] \notin Blank
      /\ \A q \in r + 1 .. n : value[q] \in Blank
  BY <1>1 DEF Trims, LeftIs, RightIs
<1>5. /\ last \in Seq(V) /\ Len(last) = n - s /\ DOMAIN last = 1 .. n - s
      /\ \A i \in 1 .. n - s : last[i] = value[s + i]
  <2>1. s \in 0 .. Len(value) /\ n \in s .. Len(value)
    BY <1>3
  <2> QED BY <2>1, Slice
<1> HIDE DEF last
<1>6. words = {i \in 1 .. n - s : value[s + i] \notin Blank}
  BY <1>5
<1> HIDE DEF n, words
<1>7. \A i \in words : i \in 1 .. n - s /\ l - s + 1 <= i /\ i <= r - s
  <2> SUFFICES ASSUME NEW i \in words
               PROVE  i \in 1 .. n - s /\ l - s + 1 <= i /\ i <= r - s
    OBVIOUS
  <2>1. i \in 1 .. n - s /\ value[s + i] \notin Blank
    BY <1>6
  <2>2. s + i \notin s + 1 .. l /\ s + i \notin r + 1 .. n
    BY <1>4, <2>1
  <2> QED BY <1>3, <2>1, <2>2
<1>8. CASE l = r
  <2>1. words = {}
    <3> SUFFICES ASSUME NEW i \in words PROVE FALSE
      OBVIOUS
    <3> QED BY <1>3, <1>7, <1>8
  <2>2. SubSeq(value, l + 1, r) = << >>
    BY <1>3, <1>8, SubSeqEmpty
  <2> QED BY <1>1, <1>2, <2>1, <2>2 DEF TokenExact, words
<1>9. CASE l # r
  <2> DEFINE i == l - s + 1
             j == r - s
  <2>1. /\ i \in 1 .. n - s /\ j \in 1 .. n - s /\ s + i = l + 1 /\ s + j = r
        /\ i <= j /\ l # n
    BY <1>3, <1>9
  <2>2. i \in words /\ j \in words
    BY <1>4, <1>6, <1>9, <2>1
  <2>3. \A k \in words : i <= k /\ k <= j
    BY <1>7
  <2>4. SubSeq(value, l + 1, r) = SubSeq(last, i, j)
    <3>1. /\ SubSeq(value, l + 1, r) \in Seq(V) /\ Len(SubSeq(value, l + 1, r)) = r - l
          /\ \A k \in 1 .. r - l : SubSeq(value, l + 1, r)[k] = value[l + k]
      <4>1. l \in 0 .. Len(value) /\ r \in l .. Len(value)
        BY <1>3 DEF n
      <4> QED BY <4>1, Slice
    <3>2. /\ SubSeq(last, i, j) \in Seq(V) /\ Len(SubSeq(last, i, j)) = r - l
          /\ \A k \in 1 .. r - l : SubSeq(last, i, j)[k] = last[(l - s) + k]
      <4>1. /\ l - s \in 0 .. Len(last) /\ j \in l - s .. Len(last)
            /\ j - (l - s) = r - l
        BY <1>3, <1>5
      <4> QED BY <1>5, <4>1, Slice, SMTT(20)
    <3>3. ASSUME NEW k \in 1 .. r - l PROVE last[(l - s) + k] = value[l + k]
      <4>1. (l - s) + k \in 1 .. n - s /\ s + ((l - s) + k) = l + k
        BY <1>3
      <4> QED BY <1>5, <4>1
    <3> HIDE DEF i, j
    <3> DEFINE t == SubSeq(value, l + 1, r)
               u == SubSeq(last, i, j)
    <3> HIDE DEF t, u
    <3>4. /\ t \in Seq(V) /\ u \in Seq(V) /\ Len(t) = Len(u)
          /\ \A k \in 1 .. Len(t) : t[k] = u[k]
      BY <3>1, <3>2, <3>3 DEF t, u
    <3>5. t = u
      BY <3>4, SeqEqual
    <3> QED BY <3>5 DEF t, u
  <2> HIDE DEF i, j
  <2> QED BY <1>1, <1>2, <2>2, <2>3, <2>4 DEF TokenExact, words
<1> QED BY <1>8, <1>9

(* The backwards walk over a header line finds what a split at the commas  *)
(* has in its last place, trimmed, whatever the lines hold                 *)
(* (ngx_http_shield_xff_last_token).                                       *)
THEOREM LastTokenFound == Spec => []LastTokenExact
<1>1. KInv => LastTokenExact
  <2> SUFFICES ASSUME KInv, NEW value \in ToSet(xff) PROVE TokenExact(value)
    BY DEF LastTokenExact, TokenExact, LastOf
  <2>1. xff \in Seq(Seq(Text)) /\ DOMAIN xff = 1 .. Len(xff)
    BY LenProperties DEF KInv
  <2>2. value \in Seq(Text)
    BY <2>1, ElementOfSeq DEF ToSet
  <2> QED BY <2>2, TokenIsExact
<1> QED BY <1>1, KAlways, PTL

----------------------------------------------------------------------------
(* Dotfiles                                                                *)

(* The segments that are no dotfiles are not empty and hold no slash. *)
Exempt == {<<".">>, <<".", ".">>, WELL_KNOWN}

LEMMA ExemptIs ==
    ASSUME NEW w \in Exempt
    PROVE  Len(w) \in Nat \ {0} /\ \A k \in 1 .. Len(w) : w[k] # "/"
<1>1. CASE w = <<".">>
  BY <1>1
<1>2. CASE w = <<".", ".">>
  BY <1>2
<1>3. CASE w = WELL_KNOWN
  <2>1. WELL_KNOWN \in Seq(PathBytes) /\ WELL_KNOWN # << >> /\ "/" \notin ToSet(WELL_KNOWN)
    BY ParseAssumption
  <2>2. Len(WELL_KNOWN) \in Nat \ {0} /\ DOMAIN WELL_KNOWN = 1 .. Len(WELL_KNOWN)
    BY <2>1, EmptySeq, LenProperties
  <2>3. \A k \in 1 .. Len(WELL_KNOWN) : WELL_KNOWN[k] # "/"
    BY <2>1, <2>2 DEF ToSet
  <2> QED BY <1>3, <2>2, <2>3
<1> QED BY <1>1, <1>2, <1>3 DEF Exempt

(* A segment at i ends before a slash or the end, and has none within. *)
LEMMA SegmentIs ==
    ASSUME NEW V, NEW u \in Seq(V), NEW i \in 1 .. Len(u), NEW w \in Exempt,
           IsSegment(u, i, w)
    PROVE  /\ i + Len(w) \in i + 1 .. Len(u) + 1
           /\ SubSeq(u, i, i + Len(w) - 1) = w
           /\ \A q \in i .. i + Len(w) - 1 : u[q] # "/"
           /\ i + Len(w) = Len(u) + 1 \/ u[i + Len(w)] = "/"
<1> DEFINE n == Len(u)
           L == Len(w)
<1>1. n \in Nat /\ L \in Nat \ {0} /\ \A k \in 1 .. L : w[k] # "/"
  BY LenProperties, ExemptIs
<1>2. /\ n - i + 1 >= L /\ SubSeq(u, i, i + L - 1) = w
      /\ n - i + 1 = L \/ u[i + L] = "/"
  BY DEF IsSegment
<1> HIDE DEF n, L
<1>i. i \in 1 .. n
  BY DEF n
<1>3. i + L \in i + 1 .. n + 1 /\ i + L - 1 \in i - 1 .. n /\ i - 1 \in 0 .. n
      /\ i + L - 1 - (i - 1) = L /\ (i - 1) + 1 = i
  BY <1>1, <1>2, <1>i
<1>4. \A k \in 1 .. L : w[k] = u[(i - 1) + k]
  <2>1. \A k \in 1 .. (i + L - 1) - (i - 1) :
           SubSeq(u, (i - 1) + 1, i + L - 1)[k] = u[(i - 1) + k]
    BY <1>3, Slice, SMTT(20) DEF n
  <2>2. SubSeq(u, (i - 1) + 1, i + L - 1) = w
    BY <1>2, <1>3
  <2>3. \A k \in 1 .. L : k \in 1 .. (i + L - 1) - (i - 1)
    BY <1>1, <1>i
  <2> QED BY <2>1, <2>2, <2>3
<1>5. ASSUME NEW q \in i .. i + L - 1 PROVE u[q] # "/"
  <2>1. q - (i - 1) \in 1 .. L /\ (i - 1) + (q - (i - 1)) = q
    BY <1>1, <1>i
  <2> QED BY <1>1, <1>4, <2>1
<1>6. n - i + 1 = L => i + L = n + 1
  BY <1>1, <1>i
<1> QED BY <1>2, <1>3, <1>5, <1>6 DEF n, L

(* A dotfile begins at j. *)
Dotfile(u, j) == u[j] = "." /\ \A w \in Exempt : ~ IsSegment(u, j, w)

(* What the loop reports from position i on. *)
Ahead(u, i, start) ==
    \E j \in i .. Len(u) : /\ IF j = i THEN start ELSE u[j - 1] = "/"
                           /\ Dotfile(u, j)

LEMMA AheadIsBoolean == \A u, i, start : Ahead(u, i, start) \in BOOLEAN
  BY DEF Ahead

(* One turn of the loop, f being the turns behind it. *)
Turn(u, f, i, start) ==
    IF i > Len(u) THEN FALSE
    ELSE IF u[i] = "/" THEN f[i + 1][TRUE]
    ELSE IF ~ start \/ u[i] # "." THEN f[i + 1][FALSE]
    ELSE IF IsSegment(u, i, <<".">>) \/ IsSegment(u, i, <<".", ".">>)
      THEN f[i + 1][FALSE]
    ELSE IF IsSegment(u, i, WELL_KNOWN) THEN f[i + Len(WELL_KNOWN)][FALSE]
    ELSE TRUE

(* A turn is right if what it goes on with is. *)
LEMMA TurnIs ==
    ASSUME NEW V, NEW u \in Seq(V), NEW f, NEW i \in 1 .. Len(u) + 1, NEW start \in BOOLEAN,
           \A k \in i + 1 .. Len(u) + 1 : \A b \in BOOLEAN : f[k][b] = Ahead(u, k, b)
    PROVE  Turn(u, f, i, start) = Ahead(u, i, start)
<1> DEFINE n == Len(u)
<1>1. n \in Nat
  BY LenProperties
<1>2. CASE i > n
  <2>1. i .. n = {}
    BY <1>1, <1>2
  <2> QED BY <1>2, <2>1 DEF Turn, Ahead
<1>3. CASE ~ (i > n)
  <2>i. i \in 1 .. n
    BY <1>1, <1>3
  <2>0. i + 1 \in i + 1 .. n + 1
    BY <1>1, <2>i
  <2>1. Ahead(u, i, start) <=> (start /\ Dotfile(u, i)) \/ Ahead(u, i + 1, u[i] = "/")
    <3>1. ASSUME NEW j \in i .. n PROVE j = i \/ (j \in i + 1 .. n /\ j # i)
      BY <1>1, <2>i
    <3>2. \A j \in i + 1 .. n : j \in i .. n /\ j # i
      BY <1>1, <2>i
    <3>3. i \in i .. n /\ (i + 1) - 1 = i
      BY <1>1, <2>i
    <3> QED BY <3>1, <3>2, <3>3 DEF Ahead
  <2>2. \A b \in BOOLEAN : f[i + 1][b] = Ahead(u, i + 1, b)
    BY <2>0
  <2>3. CASE u[i] = "/"
    <3>1. ~ Dotfile(u, i) /\ (u[i] = "/") = TRUE
      BY <2>3 DEF Dotfile
    <3>2. Ahead(u, i, start) = Ahead(u, i + 1, TRUE)
      <4>1. Ahead(u, i, start) <=> Ahead(u, i + 1, TRUE)
        BY <2>1, <3>1
      <4> QED BY <4>1 DEF Ahead
    <3>3. f[i + 1][TRUE] = Ahead(u, i + 1, TRUE)
      BY <2>2
    <3> QED BY <1>3, <2>3, <3>2, <3>3 DEF Turn
  <2>4. CASE u[i] # "/"
    <3>0. (u[i] = "/") = FALSE
      BY <2>4
    <3>1. Ahead(u, i, start) <=> (start /\ Dotfile(u, i)) \/ Ahead(u, i + 1, FALSE)
      BY <2>1, <3>0
    <3>2. f[i + 1][FALSE] = Ahead(u, i + 1, FALSE)
      BY <2>2
    <3>3. CASE ~ start \/ u[i] # "."
      <4>1. ~ (start /\ Dotfile(u, i))
        BY <3>3 DEF Dotfile
      <4>2. Ahead(u, i, start) = Ahead(u, i + 1, FALSE)
        <5>1. Ahead(u, i, start) <=> Ahead(u, i + 1, FALSE)
          BY <3>1, <4>1
        <5> QED BY <5>1 DEF Ahead
      <4> QED BY <1>3, <2>4, <3>2, <3>3, <4>2 DEF Turn
    <3>4. CASE start /\ u[i] = "."
      <4>1. CASE IsSegment(u, i, <<".">>) \/ IsSegment(u, i, <<".", ".">>)
        <5>1. ~ Dotfile(u, i)
          BY <4>1 DEF Dotfile, Exempt
        <5>2. Ahead(u, i, start) = Ahead(u, i + 1, FALSE)
          <6>1. Ahead(u, i, start) <=> Ahead(u, i + 1, FALSE)
            BY <3>1, <5>1
          <6> QED BY <6>1 DEF Ahead
        <5> QED BY <1>3, <2>4, <3>2, <3>4, <4>1, <5>2 DEF Turn
      <4>2. CASE /\ ~ (IsSegment(u, i, <<".">>) \/ IsSegment(u, i, <<".", ".">>))
                 /\ IsSegment(u, i, WELL_KNOWN)
        <5> DEFINE m == i + Len(WELL_KNOWN)
        <5>1. WELL_KNOWN \in Exempt
          BY DEF Exempt
        <5>2. ~ Dotfile(u, i)
          BY <4>2, <5>1 DEF Dotfile
        <5>3. m \in i + 1 .. n + 1 /\ \A q \in i .. m - 1 : u[q] # "/"
          BY <2>i, <4>2, <5>1, SegmentIs
        <5> HIDE DEF m
        <5>4. Ahead(u, i, start) = Ahead(u, m, FALSE)
          <6>1. ASSUME Ahead(u, i, start) PROVE Ahead(u, m, FALSE)
            <7>1. PICK j \in i .. n : /\ IF j = i THEN start ELSE u[j - 1] = "/"
                                      /\ Dotfile(u, j)
              BY <6>1 DEF Ahead
            <7>2. j # i /\ u[j - 1] = "/"
              BY <5>2, <7>1
            <7>3. j - 1 \notin i .. m - 1
              BY <5>3, <7>2
            <7>4. j \in m .. n /\ j # m
              BY <1>1, <2>i, <5>3, <7>2, <7>3
            <7> QED BY <7>1, <7>2, <7>4 DEF Ahead
          <6>2. ASSUME Ahead(u, m, FALSE) PROVE Ahead(u, i, start)
            <7>1. PICK j \in m .. n : /\ IF j = m THEN FALSE ELSE u[j - 1] = "/"
                                      /\ Dotfile(u, j)
              BY <6>2 DEF Ahead
            <7>2. j \in i .. n /\ j # i
              BY <1>1, <2>i, <5>3
            <7> QED BY <7>1, <7>2 DEF Ahead
          <6> QED BY <6>1, <6>2 DEF Ahead
        <5>5. f[m][FALSE] = Ahead(u, m, FALSE)
          BY <5>3
        <5> QED BY <1>3, <2>4, <3>4, <4>2, <5>4, <5>5 DEF Turn, m
      <4>3. CASE /\ ~ (IsSegment(u, i, <<".">>) \/ IsSegment(u, i, <<".", ".">>))
                 /\ ~ IsSegment(u, i, WELL_KNOWN)
        <5>1. Dotfile(u, i)
          BY <3>4, <4>3 DEF Dotfile, Exempt
        <5>2. Ahead(u, i, start) = TRUE
          BY <3>1, <3>4, <5>1, AheadIsBoolean
        <5> QED BY <1>3, <2>4, <3>4, <4>3, <5>2 DEF Turn
      <4> QED BY <4>1, <4>2, <4>3
    <3> QED BY <3>3, <3>4
  <2> QED BY <2>3, <2>4
<1> QED BY <1>2, <1>3

(* The loop reports a dotfile that begins the path or follows a slash. *)
LEMMA WalkFinds ==
    ASSUME NEW V, NEW u \in Seq(V)
    PROVE  check_dotfile(u) = Ahead(u, 1, TRUE)
<1> DEFINE n == Len(u)
           Rec(f) == f = [i \in 1 .. n + 1 |-> [start \in BOOLEAN |-> Turn(u, f, i, start)]]
           g == CHOOSE f : Rec(f)
           h == [i \in 1 .. n + 1 |-> [start \in BOOLEAN |-> Ahead(u, i, start)]]
<1>1. n \in Nat
  BY LenProperties
<1>2. check_dotfile(u) = g[1][TRUE]
  BY DEF check_dotfile, Turn
<1> HIDE DEF n, g
<1>3. ASSUME NEW f, NEW i \in 1 .. n + 1, NEW b \in BOOLEAN,
             \A k \in i + 1 .. n + 1 : \A c \in BOOLEAN : f[k][c] = Ahead(u, k, c)
      PROVE  Turn(u, f, i, b) = Ahead(u, i, b)
  BY <1>3, TurnIs DEF n
<1>4. Rec(h)
  <2>1. \A k \in 1 .. n + 1 : \A c \in BOOLEAN : h[k][c] = Ahead(u, k, c)
    OBVIOUS
  <2> HIDE DEF h
  <2>2. ASSUME NEW i \in 1 .. n + 1, NEW b \in BOOLEAN
        PROVE  Turn(u, h, i, b) = Ahead(u, i, b)
    <3>1. \A k \in i + 1 .. n + 1 : k \in 1 .. n + 1
      BY <1>1
    <3>2. \A k \in i + 1 .. n + 1 : \A c \in BOOLEAN : h[k][c] = Ahead(u, k, c)
      BY <2>1, <3>1
    <3> QED BY <1>3, <3>2
  <2> QED BY <2>2 DEF h
<1>5. Rec(g)
  BY <1>4 DEF g
<1>6. \A i \in 1 .. n + 1 : \A b \in BOOLEAN : g[i][b] = Turn(u, g, i, b)
  <2> DEFINE t == [i \in 1 .. n + 1 |-> [start \in BOOLEAN |-> Turn(u, g, i, start)]]
  <2>1. g = t
    BY <1>5
  <2>2. \A i \in 1 .. n + 1 : \A b \in BOOLEAN : t[i][b] = Turn(u, g, i, b)
    OBVIOUS
  <2> HIDE DEF t
  <2> QED BY <2>1, <2>2
<1> HIDE DEF Rec, h
<1> DEFINE Right(i) == \A b \in BOOLEAN : g[i][b] = Ahead(u, i, b)
           S == {k \in Nat : k <= n /\ ~ Right(n + 1 - k)}
<1>7. S = {}
  <2> SUFFICES ASSUME S # {} PROVE FALSE
    OBVIOUS
  <2>1. PICK m \in S : \A k \in S : m <= k
    <3>1. S \subseteq Nat
      OBVIOUS
    <3> HIDE DEF S
    <3> QED BY <3>1, LeastNatural
  <2> DEFINE i == n + 1 - m
  <2>2. m \in Nat /\ m <= n /\ ~ Right(i)
    OBVIOUS
  <2>3. i \in 1 .. n + 1
    BY <1>1, <2>2
  <2> HIDE DEF Right
  <2>4. ASSUME NEW k \in i + 1 .. n + 1 PROVE Right(k)
    <3> SUFFICES ASSUME ~ Right(k) PROVE FALSE
      OBVIOUS
    <3>1. n + 1 - k \in Nat /\ n + 1 - k <= n /\ n + 1 - (n + 1 - k) = k /\ ~ (m <= n + 1 - k)
      BY <1>1, <2>2, <2>3
    <3>2. n + 1 - k \in S
      BY <3>1
    <3> HIDE DEF S
    <3> QED BY <2>1, <3>1, <3>2
  <2> HIDE DEF i, S
  <2>5. Right(i)
    <3>1. \A k \in i + 1 .. n + 1 : \A c \in BOOLEAN : g[k][c] = Ahead(u, k, c)
      BY <2>4 DEF Right
    <3>2. \A b \in BOOLEAN : Turn(u, g, i, b) = Ahead(u, i, b)
      BY <1>3, <2>3, <3>1
    <3> QED BY <1>6, <2>3, <3>2 DEF Right
  <2> QED BY <2>2, <2>5
<1>8. Right(1)
  <2> HIDE DEF Right
  <2> SUFFICES ASSUME ~ Right(1) PROVE FALSE
    OBVIOUS
  <2>1. n \in Nat /\ n <= n /\ n + 1 - n = 1
    BY <1>1
  <2>2. n \in S
    BY <2>1
  <2> QED BY <1>7, <2>2
<1> QED BY <1>2, <1>8

(* The ends and the slashes of a path; a segment is between two in a row. *)
Cuts(u) == {0, Len(u) + 1} \cup {i \in DOMAIN u : u[i] = "/"}
Between(u, a, b) ==
    a \in Cuts(u) /\ b \in Cuts(u) /\ a < b /\ \A z \in Cuts(u) : z <= a \/ b <= z

LEMMA SegmentsAre ==
    ASSUME NEW u, NEW g
    PROVE  g \in Segments(u) <=> \E a, b : Between(u, a, b) /\ g = SubSeq(u, a + 1, b - 1)
<1> DEFINE Adjacent == {p \in Cuts(u) \X Cuts(u) : /\ p[1] < p[2]
                                                  /\ \A z \in Cuts(u) : z <= p[1] \/ p[2] <= z}
<1>1. Segments(u) = {SubSeq(u, p[1] + 1, p[2] - 1) : p \in Adjacent}
  BY DEF Segments, Cuts
<1>2. ASSUME g \in Segments(u)
      PROVE  \E a, b : Between(u, a, b) /\ g = SubSeq(u, a + 1, b - 1)
  <2>1. PICK p \in Adjacent : g = SubSeq(u, p[1] + 1, p[2] - 1)
    BY <1>1, <1>2
  <2>2. Between(u, p[1], p[2])
    BY <2>1 DEF Between
  <2> QED BY <2>1, <2>2
<1>3. ASSUME NEW a, NEW b, Between(u, a, b), g = SubSeq(u, a + 1, b - 1)
      PROVE  g \in Segments(u)
  <2>1. <<a, b>> \in Adjacent
    BY <1>3 DEF Between
  <2> HIDE DEF Adjacent
  <2>2. <<a, b>>[1] = a /\ <<a, b>>[2] = b
    OBVIOUS
  <2> QED BY <1>1, <1>3, <2>1, <2>2
<1> QED BY <1>2, <1>3

LEMMA CutsAre ==
    ASSUME NEW V, NEW u \in Seq(V)
    PROVE  /\ Len(u) \in Nat /\ Cuts(u) \subseteq 0 .. Len(u) + 1
           /\ 0 \in Cuts(u) /\ Len(u) + 1 \in Cuts(u)
           /\ \A i \in 1 .. Len(u) : i \in Cuts(u) <=> u[i] = "/"
<1>1. Len(u) \in Nat /\ DOMAIN u = 1 .. Len(u)
  BY LenProperties
<1>2. \A i \in 1 .. Len(u) : i # 0 /\ i # Len(u) + 1
  BY <1>1
<1> QED BY <1>1, <1>2 DEF Cuts

LEMMA DotfileSegment ==
    ASSUME NEW V, NEW u \in Seq(V), Ahead(u, 1, TRUE)
    PROVE  HasDotfile(u)
<1> DEFINE n == Len(u)
<1>1. PICK j \in 1 .. n : /\ IF j = 1 THEN TRUE ELSE u[j - 1] = "/"
                          /\ Dotfile(u, j)
  BY DEF Ahead
<1>2. /\ n \in Nat /\ Cuts(u) \subseteq 0 .. n + 1 /\ n + 1 \in Cuts(u) /\ 0 \in Cuts(u)
      /\ \A i \in 1 .. n : i \in Cuts(u) <=> u[i] = "/"
  BY CutsAre
<1> HIDE DEF n
<1>3. j - 1 \in Cuts(u)
  <2>1. CASE j = 1
    BY <1>2, <2>1
  <2>2. CASE j # 1
    <3>1. j - 1 \in 1 .. n
      BY <1>2, <2>2
    <3> QED BY <1>1, <1>2, <2>2, <3>1
  <2> QED BY <2>1, <2>2
<1> DEFINE S == {z \in Cuts(u) : j - 1 < z}
<1>4. PICK b \in S : \A z \in S : b <= z
  <2>1. S \subseteq Nat /\ n + 1 \in S
    BY <1>2
  <2> HIDE DEF S
  <2> QED BY <2>1, LeastNatural
<1>5. b \in Cuts(u) /\ b \in 0 .. n + 1 /\ j - 1 < b
  BY <1>2, <1>4
<1>6. Between(u, j - 1, b)
  <2>1. ASSUME NEW z \in Cuts(u), ~ (z <= j - 1) PROVE b <= z
    <3>1. z \in 0 .. n + 1
      BY <1>2
    <3>2. j - 1 < z
      BY <1>2, <2>1, <3>1
    <3> QED BY <1>4, <3>2
  <2> QED BY <1>3, <1>5, <2>1 DEF Between
<1>7. j < b
  <2>1. j \notin Cuts(u)
    BY <1>1, <1>2 DEF Dotfile
  <2>2. j # b
    BY <1>5, <2>1
  <2> QED BY <1>2, <1>5, <2>2
<1> DEFINE g == SubSeq(u, j, b - 1)
<1>8. g \in Segments(u)
  <2>1. (j - 1) + 1 = j
    BY <1>2
  <2>2. g = SubSeq(u, (j - 1) + 1, b - 1)
    BY <2>1
  <2> HIDE DEF g
  <2> QED BY <1>6, <2>2, SegmentsAre
<1>9. Len(g) = b - j /\ g[1] = u[j] /\ g # << >>
  <2>1. /\ j - 1 \in 0 .. n /\ b - 1 \in j - 1 .. n /\ (j - 1) + 1 = j
        /\ (b - 1) - (j - 1) = b - j /\ 1 \in 1 .. (b - 1) - (j - 1) /\ b - j # 0
    BY <1>2, <1>5, <1>7
  <2>2. /\ SubSeq(u, (j - 1) + 1, b - 1) \in Seq(V)
        /\ Len(SubSeq(u, (j - 1) + 1, b - 1)) = (b - 1) - (j - 1)
        /\ SubSeq(u, (j - 1) + 1, b - 1)[1] = u[(j - 1) + 1]
    BY <2>1, Slice DEF n
  <2>3. SubSeq(u, (j - 1) + 1, b - 1) = g
    BY <2>1
  <2> HIDE DEF g
  <2>4. Len(g) = b - j /\ g[1] = u[j]
    BY <2>1, <2>2, <2>3
  <2> QED BY <2>1, <2>4, EmptySeq
<1>10. IsSegment(u, j, g)
  <2>1. /\ n - j + 1 >= b - j /\ j + (b - j) - 1 = b - 1 /\ j + (b - j) = b
        /\ b = n + 1 => n - j + 1 = b - j
    BY <1>2, <1>5
  <2>2. SubSeq(u, j, j + Len(g) - 1) = g
    BY <1>9, <2>1
  <2>3. n - j + 1 = Len(g) \/ u[j + Len(g)] = "/"
    <3> SUFFICES ASSUME b # n + 1 PROVE u[b] = "/"
      BY <1>9, <2>1
    <3>1. b \in 1 .. n
      BY <1>2, <1>5
    <3> QED BY <1>2, <1>5, <3>1
  <2> HIDE DEF g
  <2> QED BY <1>9, <2>1, <2>2, <2>3 DEF IsSegment, n
<1> HIDE DEF g
<1>11. g \notin Exempt
  BY <1>1, <1>10 DEF Dotfile
<1>12. g[1] = "."
  BY <1>1, <1>9 DEF Dotfile
<1> QED BY <1>8, <1>9, <1>11, <1>12 DEF HasDotfile, Exempt

LEMMA SegmentDotfile ==
    ASSUME NEW V, NEW u \in Seq(V), HasDotfile(u)
    PROVE  Ahead(u, 1, TRUE)
<1> DEFINE n == Len(u)
<1>1. PICK g \in Segments(u) : g # << >> /\ g[1] = "." /\ g \notin Exempt
  BY DEF HasDotfile, Exempt
<1>2. PICK a, b : Between(u, a, b) /\ g = SubSeq(u, a + 1, b - 1)
  BY SegmentsAre
<1>3. /\ n \in Nat /\ Cuts(u) \subseteq 0 .. n + 1
      /\ \A i \in 1 .. n : i \in Cuts(u) <=> u[i] = "/"
      /\ n + 1 \in Cuts(u)
  BY CutsAre
<1> HIDE DEF n
<1>4. a \in 0 .. n + 1 /\ b \in 0 .. n + 1 /\ a < b /\ a \in Cuts(u) /\ b \in Cuts(u)
  BY <1>2, <1>3 DEF Between
<1>5. a + 1 <= b - 1
  <2> SUFFICES ASSUME b - 1 < a + 1 PROVE FALSE
    BY <1>4
  <2>1. a + 1 \in Int /\ b - 1 \in Int
    BY <1>4
  <2>2. g = << >>
    BY <1>2, <2>1, SubSeqEmpty
  <2> QED BY <1>1, <2>2
<1> DEFINE j == a + 1
<1>6. j \in 1 .. n /\ j - 1 = a /\ a \in 0 .. n /\ b - 1 \in a .. n /\ 1 \in 1 .. (b - 1) - a
  BY <1>3, <1>4, <1>5
<1>7. u[j] = "."
  <2>1. SubSeq(u, a + 1, b - 1)[1] = u[a + 1]
    BY <1>6, Slice DEF n
  <2> QED BY <1>1, <1>2, <2>1
<1>8. j = 1 \/ u[j - 1] = "/"
  <2> SUFFICES ASSUME j # 1 PROVE u[a] = "/"
    BY <1>6
  <2>1. a \in 1 .. n
    BY <1>6
  <2> QED BY <1>3, <1>4, <2>1
<1>9. ASSUME NEW w \in Exempt, IsSegment(u, j, w) PROVE FALSE
  <2> DEFINE e == j + Len(w)
  <2>0. Len(w) \in Nat
    BY ExemptIs
  <2>1. /\ e \in j + 1 .. n + 1 /\ SubSeq(u, j, e - 1) = w
        /\ \A q \in j .. e - 1 : u[q] # "/"
        /\ e = n + 1 \/ u[e] = "/"
    BY <1>6, <1>9, SegmentIs DEF n
  <2> HIDE DEF e, j
  <2>2. e \in Cuts(u)
    <3>1. CASE e = n + 1
      BY <1>3, <3>1
    <3>2. CASE e # n + 1
      <4>1. e \in 1 .. n
        BY <1>3, <1>6, <2>1, <3>2
      <4> QED BY <1>3, <2>1, <3>2, <4>1
    <3> QED BY <3>1, <3>2
  <2>3. b <= e
    <3>1. e <= a \/ b <= e
      BY <1>2, <2>2 DEF Between
    <3>2. ~ (e <= a)
      BY <1>4, <1>6, <2>1
    <3> QED BY <3>1, <3>2
  <2>4. ~ (b < e)
    <3> SUFFICES ASSUME b < e PROVE FALSE
      OBVIOUS
    <3>1. b \in j .. e - 1 /\ b \in 1 .. n
      BY <1>3, <1>4, <1>5, <1>6, <2>1
    <3> QED BY <1>3, <1>4, <2>1, <3>1
  <2>5. b = e
    BY <1>4, <2>1, <2>3, <2>4, <1>6
  <2>6. g = w
    BY <1>2, <2>1, <2>5 DEF j
  <2> QED BY <1>1, <2>6
<1>10. Dotfile(u, j)
  BY <1>7, <1>9 DEF Dotfile
<1> HIDE DEF j
<1> QED BY <1>6, <1>8, <1>10 DEF Ahead, n

(* The dotfile walk reports a path exactly when some segment of it starts  *)
(* with a dot and is not exempt, for paths of any length and any exempt    *)
(* segment (ngx_http_shield_check_dotfile).                                *)
THEOREM DotfilesFound == Spec => []DotfileExact
<1>1. KInv => DotfileExact
  <2> SUFFICES ASSUME KInv PROVE DotfileExact
    OBVIOUS
  <2>1. uri \in Seq(PathBytes)
    BY DEF KInv
  <2>2. check_dotfile(uri) = Ahead(uri, 1, TRUE)
    BY <2>1, WalkFinds
  <2>3. Ahead(uri, 1, TRUE) => HasDotfile(uri)
    BY <2>1, DotfileSegment
  <2>4. HasDotfile(uri) => Ahead(uri, 1, TRUE)
    BY <2>1, SegmentDotfile
  <2> QED BY <2>2, <2>3, <2>4 DEF DotfileExact
<1> QED BY <1>1, KAlways, PTL

----------------------------------------------------------------------------
(* Media types                                                             *)

LEMMA Prefix ==
    ASSUME NEW V, NEW s \in Seq(V), NEW q \in 0 .. Len(s)
    PROVE  /\ SubSeq(s, 1, q) \in Seq(V) /\ Len(SubSeq(s, 1, q)) = q
           /\ \A i \in 1 .. q : SubSeq(s, 1, q)[i] = s[i]
<1>1. Len(s) \in Nat
  BY LenProperties
<1>2. 0 \in 0 .. Len(s) /\ q \in 0 .. Len(s) /\ 0 + 1 = 1 /\ q - 0 = q
      /\ \A i \in 1 .. q : 0 + i = i
  BY <1>1
<1>3. /\ SubSeq(s, 0 + 1, q) \in Seq(V) /\ Len(SubSeq(s, 0 + 1, q)) = q - 0
      /\ \A i \in 1 .. q - 0 : SubSeq(s, 0 + 1, q)[i] = s[0 + i]
  BY <1>2, Slice
<1> QED BY <1>2, <1>3

(* The parameters of v begin behind e, and its type without blanks is k    *)
(* lexemes long.                                                           *)
ParametersAt(v, e) == /\ e \in 0 .. Len(v)
                      /\ e = Len(v) \/ v[e + 1] = ";"
                      /\ \A q \in 1 .. e : v[q] # ";"
TrimsTo(v, e, k) == /\ k \in 0 .. e
                    /\ k = 0 \/ v[k] \notin Blank
                    /\ \A q \in k + 1 .. e : v[q] \in Blank

LEMMA TrimsToOne ==
    ASSUME NEW v, NEW e \in Nat, NEW k, NEW l, TrimsTo(v, e, k), TrimsTo(v, e, l)
    PROVE  k = l
<1>1. k \in 0 .. e /\ l \in 0 .. e
  BY DEF TrimsTo
<1>2. ASSUME k < l PROVE FALSE
  <2>1. l \in k + 1 .. e /\ l # 0
    BY <1>1, <1>2
  <2> QED BY <2>1 DEF TrimsTo
<1>3. ASSUME l < k PROVE FALSE
  <2>1. k \in l + 1 .. e /\ k # 0
    BY <1>1, <1>3
  <2> QED BY <2>1 DEF TrimsTo
<1> QED BY <1>1, <1>2, <1>3

(* What precedes the parameters, without trailing blanks. *)
TypePart(v) == SubSeq(v, 1, TypeEnd(v))

(* TypeEnd trims what precedes the first semicolon. *)
LEMMA TypeEndIs ==
    ASSUME NEW V, NEW v \in Seq(V)
    PROVE  \E e : /\ ParametersAt(v, e) /\ TrimsTo(v, e, TypeEnd(v))
                  /\ TypePart(v) = SubSeq(v, 1, TypeEnd(v))
<1> DEFINE n == Len(v)
           semi == {i \in DOMAIN v : v[i] = ";"}
           e == IF semi = {} THEN n ELSE (CHOOSE i \in semi : \A j \in semi : i <= j) - 1
           K(k) == /\ k = 0 \/ v[k] \notin Blank
                   /\ \A j \in k + 1 .. e : v[j] \in Blank
<1>1. n \in Nat /\ DOMAIN v = 1 .. n
  BY LenProperties
<1>2. TypeEnd(v) = CHOOSE k \in 0 .. e : K(k)
  BY DEF TypeEnd
<1>4. ParametersAt(v, e)
  <2>1. CASE semi = {}
    <3>1. e = n
      BY <2>1
    <3> HIDE DEF e
    <3>2. e \in 0 .. n /\ \A q \in 1 .. e : q \in DOMAIN v
      BY <1>1, <3>1
    <3> QED BY <2>1, <3>1, <3>2 DEF ParametersAt
  <2>2. CASE semi # {}
    <3> DEFINE m == CHOOSE i \in semi : \A j \in semi : i <= j
    <3>1. semi \subseteq 1 .. n /\ semi \subseteq Nat
      <4>1. semi \subseteq 1 .. n
        BY <1>1, Zenon
      <4> HIDE DEF semi
      <4> QED BY <1>1, <4>1
    <3>2. m \in semi /\ \A j \in semi : m <= j
      <4> HIDE DEF semi
      <4>1. \E i \in semi : \A j \in semi : i <= j
        BY <2>2, <3>1, LeastNatural
      <4> QED BY <4>1
    <3>3. e = m - 1
      BY <2>2
    <3> HIDE DEF e, m
    <3>s. v[m] = ";"
      BY <3>2, Zenon
    <3>4. m \in 1 .. n
      BY <3>1, <3>2, Zenon
    <3>5. e \in 0 .. n /\ e + 1 = m
      BY <1>1, <3>3, <3>4
    <3>6. ASSUME NEW q \in 1 .. e, v[q] = ";" PROVE FALSE
      <4>1. q \in 1 .. n /\ ~ (m <= q)
        BY <1>1, <3>3, <3>4
      <4>2. q \in semi
        BY <1>1, <3>6, <4>1, Zenon
      <4> QED BY <3>2, <4>1, <4>2
    <3> QED BY <3>s, <3>5, <3>6, Zenon DEF ParametersAt, n
  <2> QED BY <2>1, <2>2
<1> HIDE DEF e
<1>5. e \in 0 .. n /\ e \in Nat
  <2>1. e \in 0 .. n
    BY <1>4, Zenon DEF ParametersAt
  <2> QED BY <1>1, <2>1
<1> DEFINE k == TypeEnd(v)
<1>6. TrimsTo(v, e, k)
  <2> DEFINE P == {q \in 1 .. e : v[q] \notin Blank}
  <2>1. 0 \in 0 .. e
    BY <1>5
  <2>2. PICK p \in 0 .. e : /\ p = 0 \/ p \in P
                            /\ \A q \in p + 1 .. e : q \notin P
    <3> HIDE DEF P
    <3> QED BY <1>5, <2>1, LastStop
  <2>3. \A q \in p + 1 .. e : q \in 1 .. e
    BY <1>5
  <2>4. K(p)
    BY <2>2, <2>3
  <2> HIDE DEF K
  <2>5. k \in 0 .. e /\ K(k)
    BY <1>2, <2>4
  <2> QED BY <2>5 DEF K, TrimsTo
<1> HIDE DEF k
<1> QED BY <1>4, <1>6 DEF k, TypePart

LEMMA SemicolonIsNoBlank == ";" \notin Blank
  BY Zenon DEF Blank

LEMMA ParametersAtOne ==
    ASSUME NEW V, NEW v \in Seq(V), NEW d, NEW e, ParametersAt(v, d), ParametersAt(v, e)
    PROVE  d = e
<1>1. d \in 0 .. Len(v) /\ e \in 0 .. Len(v)
  BY Zenon DEF ParametersAt
<1>2. Len(v) \in Nat
  BY LenProperties
<1>3. ASSUME NEW a \in 0 .. Len(v), NEW b \in 0 .. Len(v), a < b,
             ParametersAt(v, a), ParametersAt(v, b)
      PROVE  FALSE
  <2>1. a + 1 \in 1 .. b /\ a # Len(v)
    BY <1>2, <1>3
  <2> QED BY <1>3, <2>1, Zenon DEF ParametersAt
<1>4. ~ (d < e) /\ ~ (e < d)
  BY <1>1, <1>3, Zenon
<1> QED BY <1>1, <1>4

Stops(P, n, a) == \E p \in a .. n : /\ p = n \/ p + 1 \in P
                                    /\ \A q \in a + 1 .. p : q \notin P

LEMMA FirstStops ==
    ASSUME NEW P, NEW n \in Nat, NEW a \in 0 .. n
    PROVE  Stops(P, n, a)
BY FirstStop DEF Stops

LEMMA SkipBlankIs ==
    ASSUME NEW V, NEW v \in Seq(V), NEW i \in 1 .. Len(v) + 1, NEW k, k = SkipBlank(v, i)
    PROVE  /\ k \in i .. Len(v) + 1
           /\ k = Len(v) + 1 \/ v[k] \notin Blank
           /\ \A j \in i .. k - 1 : v[j] \in Blank
<1> DEFINE n == Len(v)
           P == {q \in 1 .. n : v[q] \notin Blank}
           K(x) == /\ x = n + 1 \/ v[x] \notin Blank
                   /\ \A j \in i .. x - 1 : v[j] \in Blank
<1>1. n \in Nat
  BY LenProperties
<1>2. k = CHOOSE x \in i .. n + 1 : K(x)
  BY DEF SkipBlank
<1> HIDE DEF n
<1>i. i \in 1 .. n + 1
  BY DEF n
<1>3. PICK a \in 0 .. n : a + 1 = i
  <2>1. i - 1 \in 0 .. n /\ (i - 1) + 1 = i
    BY <1>1, <1>i
  <2> QED BY <2>1
<1>4. PICK p \in a .. n : /\ p = n \/ p + 1 \in P
                          /\ \A q \in a + 1 .. p : q \notin P
  <2> HIDE DEF P, K
  <2>1. Stops(P, n, a)
    BY <1>1, FirstStops
  <2> QED BY <2>1, Zenon DEF Stops
<1>5. p + 1 \in i .. n + 1 /\ (p + 1) - 1 = p /\ (p = n => p + 1 = n + 1)
      /\ \A j \in i .. p : j \in 1 .. n /\ j \in a + 1 .. p
  BY <1>1, <1>3
<1>6. K(p + 1)
  BY <1>4, <1>5
<1> HIDE DEF K
<1>7. k \in i .. n + 1 /\ K(k)
  BY <1>2, <1>5, <1>6
<1> QED BY <1>7 DEF K, n

(* The type holds no semicolon and does not end with a blank. *)
Trimmed(type) ==
    /\ Len(type) \in Nat \ {0} /\ type[Len(type)] \notin Blank
    /\ \A q \in 1 .. Len(type) : type[q] # ";"

LEMMA TypeFound ==
    ASSUME NEW V, NEW v \in Seq(V), NEW type, Trimmed(type), content_type_is(v, type)
    PROVE  TypePart(v) = type
<1> DEFINE n == Len(v)
           L == Len(type)
           i == SkipBlank(v, L + 1)
<1>0. n \in Nat /\ L \in Nat \ {0}
  <2>1. L \in Nat \ {0}
    BY Zenon DEF Trimmed
  <2> QED BY <2>1, LenProperties
<1>1. StartsWith(v, type) /\ (i = n + 1 \/ v[i] = ";")
  BY Zenon DEF content_type_is
<1>2. n >= L /\ SubSeq(v, 1, L) = type
  BY <1>1, Zenon DEF StartsWith
<1>3. L \in 0 .. n /\ L + 1 \in 1 .. n + 1 /\ L \in 1 .. L
  BY <1>0, <1>2
<1>4. \A q \in 1 .. L : v[q] = type[q]
  <2>1. \A q \in 1 .. L : SubSeq(v, 1, L)[q] = v[q]
    BY <1>3, Prefix
  <2> QED BY <1>2, <2>1
<1>5. i \in L + 1 .. n + 1 /\ \A j \in L + 1 .. i - 1 : v[j] \in Blank
  BY <1>3, SkipBlankIs
<1> HIDE DEF n, L, i
<1>6. /\ i - 1 \in 0 .. n /\ (i - 1) + 1 = i /\ (i = n + 1 => i - 1 = n) /\ L \in 0 .. i - 1
      /\ \A q \in 1 .. i - 1 : q \in 1 .. L \/ q \in L + 1 .. i - 1
  BY <1>0, <1>3, <1>5
<1>7. ParametersAt(v, i - 1)
  <2>1. ASSUME NEW q \in 1 .. i - 1 PROVE v[q] # ";"
    <3>1. CASE q \in 1 .. L
      BY <1>4, <3>1, Zenon DEF Trimmed, L
    <3>2. CASE q \in L + 1 .. i - 1
      BY <1>5, <3>2, SemicolonIsNoBlank, Zenon
    <3> QED BY <1>6, <3>1, <3>2, Zenon
  <2> QED BY <1>1, <1>6, <2>1, Zenon DEF ParametersAt, n
<1>8. TrimsTo(v, i - 1, L)
  <2>1. v[L] \notin Blank
    BY <1>3, <1>4, Zenon DEF Trimmed, L
  <2> QED BY <1>5, <1>6, <2>1, Zenon DEF TrimsTo
<1>9. PICK e : /\ ParametersAt(v, e) /\ TrimsTo(v, e, TypeEnd(v))
               /\ TypePart(v) = SubSeq(v, 1, TypeEnd(v))
  BY TypeEndIs
<1>10. e = i - 1
  BY <1>7, <1>9, ParametersAtOne
<1>11. i - 1 \in Nat
  BY <1>0, <1>6
<1>12. TypeEnd(v) = L
  BY <1>8, <1>9, <1>10, <1>11, TrimsToOne
<1> QED BY <1>2, <1>9, <1>12

LEMMA FoundType ==
    ASSUME NEW V, NEW v \in Seq(V), NEW type, Trimmed(type), TypePart(v) = type
    PROVE  content_type_is(v, type)
<1> DEFINE n == Len(v)
           L == Len(type)
           k == TypeEnd(v)
           i == SkipBlank(v, L + 1)
<1>1. PICK e : /\ ParametersAt(v, e) /\ TrimsTo(v, e, k)
               /\ TypePart(v) = SubSeq(v, 1, k)
  BY TypeEndIs
<1>2. e \in 0 .. n /\ k \in 0 .. e
  BY <1>1, Zenon DEF ParametersAt, TrimsTo
<1>3. n \in Nat
  BY LenProperties
<1> HIDE DEF k
<1>4. k \in 0 .. n
  BY <1>2, <1>3
<1>5. Len(SubSeq(v, 1, k)) = k
  BY <1>4, Prefix
<1>6. k = L
  BY <1>1, <1>5
<1> HIDE DEF n, L, i
<1>7. StartsWith(v, type)
  <2>1. n >= L
    BY <1>3, <1>4, <1>6
  <2> QED BY <1>1, <1>6, <2>1, Zenon DEF StartsWith, n, L
<1>8. L + 1 \in 1 .. n + 1
  BY <1>3, <1>4, <1>6
<1>9. /\ i \in L + 1 .. n + 1
      /\ i = n + 1 \/ v[i] \notin Blank
      /\ \A j \in L + 1 .. i - 1 : v[j] \in Blank
  BY <1>8, SkipBlankIs DEF n, i
<1>10. \A q \in L + 1 .. e : v[q] \in Blank
  BY <1>1, <1>6, Zenon DEF TrimsTo
<1>11. ~ (i < e + 1)
  <2> SUFFICES ASSUME i < e + 1 PROVE FALSE
    OBVIOUS
  <2>1. i \in L + 1 .. e /\ i # n + 1
    BY <1>2, <1>3, <1>4, <1>6, <1>9
  <2> QED BY <1>9, <1>10, <2>1
<1>12. e = n \/ v[e + 1] = ";"
  BY <1>1, Zenon DEF ParametersAt, n
<1>13. ASSUME e + 1 < i PROVE FALSE
  <2>1. e + 1 \in L + 1 .. i - 1 /\ e # n
    BY <1>2, <1>3, <1>4, <1>6, <1>9, <1>13
  <2> QED BY <1>9, <1>12, <2>1, SemicolonIsNoBlank, Zenon
<1>14. i = e + 1 /\ (e = n => i = n + 1)
  BY <1>2, <1>3, <1>4, <1>6, <1>9, <1>11, <1>13
<1>15. i = n + 1 \/ v[i] = ";"
  BY <1>12, <1>14, Zenon
<1> QED BY <1>7, <1>15, Zenon DEF content_type_is, i, n, L

LEMMA ExactTypesTrimmed == \A type \in ExactTypes : Trimmed(type)
<1>1. ASSUME NEW a, NEW t, a # ";", t # ";", t \notin Blank PROVE Trimmed(<<a, t>>)
  <2>1. Len(<<a, t>>) = 2 /\ <<a, t>>[1] = a /\ <<a, t>>[2] = t /\ 2 \in Nat \ {0}
        /\ \A q \in 1 .. 2 : q = 1 \/ q = 2
    OBVIOUS
  <2> QED BY <1>1, <2>1, Zenon DEF Trimmed
<1>2. ASSUME NEW t, t # ";", t \notin Blank PROVE Trimmed(<<t>>)
  <2>1. Len(<<t>>) = 1 /\ <<t>>[1] = t /\ 1 \in Nat \ {0} /\ \A q \in 1 .. 1 : q = 1
    OBVIOUS
  <2> QED BY <1>2, <2>1, Zenon DEF Trimmed
<1> DEFINE Names == {"x-www-form-urlencoded", "json", "xml",
                     "graphql", "x-ndjson", "json-seq", "yaml", "x-yaml"}
<1>3. \A t \in Names : t # ";" /\ t \notin Blank
  BY Zenon DEF Blank
<1>4. "multipart/form-data" # ";" /\ "multipart/form-data" \notin Blank /\ "application/" # ";"
  BY Zenon DEF Blank
<1>5. ExactTypes = {<<"application/", t>> : t \in Names} \cup {<<"multipart/form-data">>}
  BY DEF ExactTypes
<1> HIDE DEF Names
<1> QED BY <1>1, <1>2, <1>3, <1>4, <1>5, Zenon

LEMMA OneOf ==
    ASSUME NEW V, NEW v \in Seq(V), NEW p \in 1 .. Len(v), NEW x
    PROVE  SubSeq(v, p, p) = <<x>> <=> v[p] = x
<1> DEFINE t == SubSeq(v, p, p)
<1>1. PICK a \in 0 .. Len(v) : a + 1 = p /\ p \in a .. Len(v) /\ p - a = 1 /\ 1 \in 1 .. p - a
  <2>1. p - 1 \in 0 .. Len(v) /\ (p - 1) + 1 = p /\ p \in p - 1 .. Len(v) /\ p - (p - 1) = 1
        /\ 1 \in 1 .. 1
    BY LenProperties
  <2> QED BY <2>1
<1>2. t \in Seq(V) /\ Len(t) = 1 /\ t[1] = v[p]
  BY <1>1, Slice
<1> HIDE DEF t
<1>3. DOMAIN t = 1 .. 1
  BY <1>2, LenProperties
<1>4. t = <<v[p]>>
  BY <1>2, <1>3
<1>5. <<v[p]>> = <<x>> <=> v[p] = x
  OBVIOUS
<1> QED BY <1>4, <1>5 DEF t

LEMMA BeginsWith ==
    ASSUME NEW V, NEW v \in Seq(V), NEW x
    PROVE  StartsWith(v, <<x>>) <=> Len(v) >= 1 /\ v[1] = x
<1>1. Len(v) \in Nat /\ Len(<<x>>) = 1
  BY LenProperties
<1>2. ASSUME Len(v) >= 1 PROVE SubSeq(v, 1, 1) = <<x>> <=> v[1] = x
  <2>1. 1 \in 1 .. Len(v)
    BY <1>1, <1>2
  <2> QED BY <2>1, OneOf
<1> QED BY <1>1, <1>2, Zenon DEF StartsWith

(* The suffix test is one of the last lexeme of the type. *)
LEMMA SuffixIs ==
    ASSUME NEW V, NEW v \in Seq(V), NEW x, x # "application/"
    PROVE  content_type_suffix(v, <<x>>) <=>
              /\ Len(TypePart(v)) >= 2 /\ TypePart(v)[1] = "application/"
              /\ Last(TypePart(v)) = x
<1> DEFINE k == TypeEnd(v)
           m == TypePart(v)
           n == Len(v)
<1>1. PICK e : /\ ParametersAt(v, e) /\ TrimsTo(v, e, k) /\ m = SubSeq(v, 1, k)
  BY TypeEndIs
<1>2. e \in 0 .. n /\ k \in 0 .. e
  BY <1>1, Zenon DEF ParametersAt, TrimsTo
<1>3. n \in Nat
  BY LenProperties
<1>x. Len(<<x>>) = 1
  OBVIOUS
<1>4. content_type_suffix(v, <<x>>) <=>
         /\ n >= 1 + 1 /\ StartsWith(v, <<"application/">>)
         /\ k >= 1 /\ SubSeq(v, k - 1 + 1, k) = <<x>>
  BY <1>x DEF content_type_suffix
<1> HIDE DEF k
<1>5. k \in 0 .. n /\ k - 1 + 1 = k /\ 1 + 1 = 2
  BY <1>2, <1>3
<1>6. Len(m) = k /\ \A q \in 1 .. k : m[q] = v[q]
  BY <1>1, <1>5, Prefix
<1>7. ASSUME k >= 1 PROVE (SubSeq(v, k, k) = <<x>> <=> v[k] = x) /\ m[1] = v[1] /\ Last(m) = v[k]
  <2>1. k \in 1 .. n /\ 1 \in 1 .. k /\ k \in 1 .. k
    BY <1>5, <1>7
  <2> QED BY <1>6, <2>1, OneOf DEF Last
<1>8. StartsWith(v, <<"application/">>) <=> n >= 1 /\ v[1] = "application/"
  BY BeginsWith, Zenon
<1>9. SubSeq(v, k - 1 + 1, k) = SubSeq(v, k, k)
  BY <1>5
<1> HIDE DEF m, n
<1>10. ASSUME content_type_suffix(v, <<x>>)
       PROVE  Len(m) >= 2 /\ m[1] = "application/" /\ Last(m) = x
  <2>1. k >= 1 /\ SubSeq(v, k, k) = <<x>> /\ v[1] = "application/"
    BY <1>4, <1>8, <1>9, <1>10, Zenon
  <2>2. v[k] = x /\ m[1] = v[1] /\ Last(m) = v[k]
    BY <1>7, <2>1, Zenon
  <2>3. k # 1
    BY <2>1, <2>2, Zenon
  <2>4. k >= 2
    BY <1>3, <1>5, <2>1, <2>3
  <2> QED BY <1>6, <2>1, <2>2, <2>4, Zenon
<1>11. ASSUME Len(m) >= 2, m[1] = "application/", Last(m) = x
       PROVE  content_type_suffix(v, <<x>>)
  <2>1. k >= 1 /\ n >= 1 + 1 /\ n >= 1
    <3>1. k >= 2
      BY <1>6, <1>11, Zenon
    <3> QED BY <1>3, <1>5, <3>1
  <2>2. v[1] = "application/" /\ SubSeq(v, k, k) = <<x>>
    BY <1>7, <1>11, <2>1, Zenon
  <2> QED BY <1>4, <1>8, <1>9, <2>1, <2>2, Zenon
<1> QED BY <1>10, <1>11, Zenon DEF m

LEMMA BeforeIs ==
    ASSUME NEW V, NEW v \in Seq(V), NEW S, NEW k, k = Before(v, S)
    PROVE  /\ k \in 0 .. Len(v)
           /\ k = Len(v) \/ v[k + 1] \in S
           /\ \A i \in 1 .. k : v[i] \notin S
<1> DEFINE n == Len(v)
           P == {q \in 1 .. n : v[q] \in S}
           K(x) == /\ x = n \/ v[x + 1] \in S
                   /\ \A i \in 1 .. x : v[i] \notin S
<1>1. n \in Nat
  BY LenProperties
<1>2. k = CHOOSE x \in 0 .. n : K(x)
  BY DEF Before
<1> HIDE DEF n
<1>3. 0 \in 0 .. n /\ 0 + 1 = 1
  BY <1>1
<1>4. PICK p \in 0 .. n : /\ p = n \/ p + 1 \in P
                          /\ \A q \in 1 .. p : q \notin P
  <2> HIDE DEF P
  <2>1. \E p \in 0 .. n : /\ p = n \/ p + 1 \in P
                          /\ \A q \in 0 + 1 .. p : q \notin P
    BY <1>1, <1>3, FirstStop
  <2> QED BY <1>3, <2>1
<1>5. \A i \in 1 .. p : i \in 1 .. n
  BY <1>1
<1>6. K(p)
  BY <1>4, <1>5
<1> HIDE DEF K
<1>7. k \in 0 .. n /\ K(k)
  BY <1>2, <1>4, <1>6
<1> QED BY <1>7 DEF K, n

IsWord(x) == x \notin Blank \cup {";"}

(* How v is cut: the token of t lexemes, then a blank or the end, what     *)
(* precedes the parameters up to e, and its last word at k.                *)
Cut(v, t, e, k) ==
    /\ Len(v) \in Nat /\ e \in 0 .. Len(v) /\ t \in 0 .. e /\ k \in t .. e
    /\ \A q \in 1 .. t : v[q] \notin Blank
    /\ t < e => v[t + 1] \in Blank
    /\ k = 0 \/ v[k] \notin Blank
    /\ \A q \in k + 1 .. e : v[q] \in Blank

LEMMA CutIs ==
    ASSUME NEW V, NEW v \in Seq(V)
    PROVE  Cut(v, Before(v, Blank \cup {";"}), Before(v, {";"}), TypeEnd(v))
<1> DEFINE n == Len(v)
           S == Blank \cup {";"}
           t == Before(v, S)
           e == Before(v, {";"})
           k == TypeEnd(v)
<1>1. n \in Nat
  BY LenProperties
<1>2. /\ t \in 0 .. n
      /\ t = n \/ v[t + 1] \in S
      /\ \A i \in 1 .. t : v[i] \notin S
  BY BeforeIs
<1>3. /\ e \in 0 .. n
      /\ e = n \/ v[e + 1] \in {";"}
      /\ \A i \in 1 .. e : v[i] \notin {";"}
  BY BeforeIs
<1>4. ParametersAt(v, e)
  BY <1>3 DEF ParametersAt
<1>5. PICK d : ParametersAt(v, d) /\ TrimsTo(v, d, k)
  BY TypeEndIs
<1>6. TrimsTo(v, e, k)
  <2> HIDE DEF e, k
  <2> QED BY <1>4, <1>5, ParametersAtOne
<1>7. \A i \in 1 .. t : v[i] \notin Blank /\ v[i] # ";"
  <2> HIDE DEF t
  <2> QED BY <1>2
<1>e. /\ e = n \/ ~ IsWord(v[e + 1])
      /\ \A i \in 1 .. e : v[i] # ";"
  <2> HIDE DEF e
  <2> QED BY <1>3 DEF IsWord
<1>t. /\ t = n \/ ~ IsWord(v[t + 1])
      /\ \A i \in 1 .. t : IsWord(v[i])
  <2> HIDE DEF t
  <2> QED BY <1>2 DEF IsWord
<1>r. t \in 0 .. n /\ e \in 0 .. n
  BY <1>2, <1>3, Zenon
<1>k. /\ k \in 0 .. e /\ (k = 0 \/ v[k] \notin Blank)
      /\ \A q \in k + 1 .. e : v[q] \in Blank
  BY <1>6, Zenon DEF TrimsTo
<1> HIDE DEF t, e, k, n, S
<1>8. ~ (e < t)
  <2> SUFFICES ASSUME e < t PROVE FALSE
    OBVIOUS
  <2>1. e + 1 \in 1 .. t /\ e # n
    BY <1>1, <1>r
  <2> QED BY <1>e, <1>t, <2>1, Zenon
<1>9. t \in 0 .. e
  BY <1>1, <1>r, <1>8
<1>10. t < e => v[t + 1] \in Blank
  <2> SUFFICES ASSUME t < e PROVE v[t + 1] \in Blank
    OBVIOUS
  <2>1. t + 1 \in 1 .. e /\ t # n
    BY <1>1, <1>r
  <2> QED BY <1>e, <1>t, <2>1, Zenon DEF IsWord
<1>12. ~ (k < t)
  <2> SUFFICES ASSUME k < t PROVE FALSE
    OBVIOUS
  <2>0. k \in 0 .. e
    BY <1>k, Zenon
  <2>1. t \in k + 1 .. e /\ t \in 1 .. t
    BY <1>1, <1>r, <1>9, <2>0
  <2> QED BY <1>7, <1>k, <2>1, Zenon
<1>13. k \in t .. e
  <2>0. k \in 0 .. e
    BY <1>k, Zenon
  <2> QED BY <1>1, <1>r, <1>9, <1>12, <2>0
<1>14. Cut(v, t, e, k)
  BY <1>1, <1>r, <1>7, <1>9, <1>10, <1>k, <1>13, Zenon DEF Cut, n
<1> QED BY <1>14, Zenon DEF t, e, k, S

(* A value is well-formed when its token is all that precedes the          *)
(* parameters; otherwise a blank stands inside of that.                    *)
LEMMA StrayIs ==
    ASSUME NEW V, NEW v \in Seq(V)
    PROVE  /\ Stray(v) = {} => MediaType(v) = TypePart(v)
           /\ Stray(v) # {} => \E q \in 1 .. Len(TypePart(v)) - 1 : TypePart(v)[q] \in Blank
<1> DEFINE n == Len(v)
           t == Before(v, Blank \cup {";"})
           e == Before(v, {";"})
           k == TypeEnd(v)
<1>1. Cut(v, t, e, k)
  BY CutIs
<1>2. /\ n \in Nat /\ e \in 0 .. n /\ t \in 0 .. e /\ k \in t .. e
      /\ t < e => v[t + 1] \in Blank
      /\ k = 0 \/ v[k] \notin Blank
      /\ \A q \in k + 1 .. e : v[q] \in Blank
  BY <1>1, Zenon DEF Cut, n
<1>3. MediaType(v) = SubSeq(v, 1, t) /\ TypePart(v) = SubSeq(v, 1, k)
  BY DEF MediaType, TypePart
<1>4. Stray(v) = {i \in Len(MediaType(v)) + 1 .. e : v[i] \notin Blank}
  BY DEF Stray
<1> HIDE DEF t, e, k, n
<1>5. t \in 0 .. n /\ k \in 0 .. n
  BY <1>2
<1>6. Len(MediaType(v)) = t
  BY <1>3, <1>5, Prefix DEF n
<1>7. Len(TypePart(v)) = k /\ \A q \in 1 .. k : TypePart(v)[q] = v[q]
  BY <1>3, <1>5, Prefix DEF n
<1>8. ASSUME Stray(v) = {} PROVE MediaType(v) = TypePart(v)
  <2>1. \A i \in t + 1 .. e : v[i] \in Blank
    BY <1>4, <1>6, <1>8, Zenon
  <2>2. k = t \/ k \in t + 1 .. e
    BY <1>2
  <2>3. k \in t + 1 .. e => k # 0
    BY <1>2
  <2>4. k = t
    BY <1>2, <2>1, <2>2, <2>3, Zenon
  <2> QED BY <1>3, <2>4
<1>9. ASSUME Stray(v) # {}
      PROVE  \E q \in 1 .. Len(TypePart(v)) - 1 : TypePart(v)[q] \in Blank
  <2>1. PICK i \in t + 1 .. e : v[i] \notin Blank
    BY <1>4, <1>6, <1>9, Zenon
  <2>2. i \notin k + 1 .. e
    BY <1>2, <2>1, Zenon
  <2>3. t < e /\ t + 1 \in 1 .. k /\ k # 0
    BY <1>2, <2>1, <2>2
  <2>4. v[t + 1] \in Blank /\ k # t + 1
    BY <1>2, <2>3, Zenon
  <2>5. t + 1 \in 1 .. k - 1
    BY <1>2, <2>3, <2>4
  <2> QED BY <1>7, <2>3, <2>4, <2>5
<1> QED BY <1>8, <1>9

(* The last word before the parameters. *)
LEMMA EndsTextualIs ==
    ASSUME NEW V, NEW v \in Seq(V)
    PROVE  EndsTextual(v) <=> TypePart(v) # << >> /\ Last(TypePart(v)) \in {"+json", "+xml"}
<1> DEFINE n == Len(v)
           t == Before(v, Blank \cup {";"})
           e == Before(v, {";"})
           k == TypeEnd(v)
           W == {"+json", "+xml"}
           m == TypePart(v)
<1>1. Cut(v, t, e, k)
  BY CutIs
<1>2. /\ n \in Nat /\ e \in 0 .. n /\ t \in 0 .. e /\ k \in t .. e
      /\ k = 0 \/ v[k] \notin Blank
      /\ \A q \in k + 1 .. e : v[q] \in Blank
  BY <1>1, Zenon DEF Cut, n
<1>3. m = SubSeq(v, 1, k)
  BY DEF TypePart
<1>4. EndsTextual(v) <=> \E i \in 1 .. e : v[i] \in W /\ \A j \in i + 1 .. e : v[j] \in Blank
  BY DEF EndsTextual
<1>5. \A w \in W : w \notin Blank
  BY Zenon DEF Blank
<1> HIDE DEF t, e, k, n, W, m
<1>6. k \in 0 .. n /\ k \in 0 .. e
  BY <1>2
<1>7. m \in Seq(V) /\ Len(m) = k /\ \A q \in 1 .. k : m[q] = v[q]
  BY <1>3, <1>6, Prefix DEF n
<1>8. m = << >> <=> k = 0
  BY <1>7, EmptySeq
<1>9. k # 0 => Last(m) = v[k]
  <2>1. k # 0 => k \in 1 .. k
    BY <1>6
  <2> QED BY <1>7, <2>1 DEF Last
<1>10. ASSUME EndsTextual(v) PROVE m # << >> /\ Last(m) \in W
  <2>1. PICK i \in 1 .. e : v[i] \in W /\ \A j \in i + 1 .. e : v[j] \in Blank
    BY <1>4, <1>10
  <2>2. i \notin k + 1 .. e
    BY <1>2, <1>5, <2>1, Zenon
  <2>3. i \in 1 .. k /\ k # 0
    BY <1>2, <2>1, <2>2
  <2>4. k \notin i + 1 .. e
    BY <1>2, <2>1, <2>3, Zenon
  <2>5. k = i
    BY <1>2, <2>3, <2>4
  <2> QED BY <1>8, <1>9, <2>1, <2>3, <2>5, Zenon
<1>11. ASSUME m # << >>, Last(m) \in W PROVE EndsTextual(v)
  <2>1. k # 0 /\ v[k] \in W
    BY <1>8, <1>9, <1>11, Zenon
  <2>2. k \in 1 .. e
    BY <1>2, <2>1
  <2> QED BY <1>2, <1>4, <2>1, <2>2, Zenon
<1> QED BY <1>10, <1>11, Zenon DEF m, W

LEMMA TypePartSeq ==
    ASSUME NEW V, NEW v \in Seq(V)
    PROVE  TypePart(v) \in Seq(V) /\ (TypePart(v) # << >> => v # << >>)
<1> DEFINE n == Len(v)
           k == TypeEnd(v)
<1>1. PICK e : ParametersAt(v, e) /\ TrimsTo(v, e, k)
  BY TypeEndIs
<1>2. e \in 0 .. n /\ k \in 0 .. e
  BY <1>1, Zenon DEF ParametersAt, TrimsTo
<1>3. n \in Nat
  BY LenProperties
<1> HIDE DEF k, n
<1>4. k \in 0 .. n /\ (k # 0 => n # 0)
  BY <1>2, <1>3
<1>5. SubSeq(v, 1, k) \in Seq(V) /\ Len(SubSeq(v, 1, k)) = k
  BY <1>4, Prefix DEF n
<1>6. (SubSeq(v, 1, k) = << >> <=> k = 0) /\ (v = << >> <=> n = 0)
  BY <1>5, EmptySeq DEF n
<1> QED BY <1>4, <1>5, <1>6, Zenon DEF TypePart, k

(* No exact type has a blank in it. *)
LEMMA ExactTypesAreTokens ==
    ASSUME NEW type \in ExactTypes, NEW q \in 1 .. Len(type) - 1
    PROVE  type[q] \notin Blank
<1> DEFINE Names == {"x-www-form-urlencoded", "json", "xml",
                     "graphql", "x-ndjson", "json-seq", "yaml", "x-yaml"}
<1>1. ExactTypes = {<<"application/", x>> : x \in Names} \cup {<<"multipart/form-data">>}
  BY DEF ExactTypes
<1> HIDE DEF Names
<1>2. "application/" \notin Blank
  BY Zenon DEF Blank
<1>3. ASSUME NEW x, type = <<"application/", x>> PROVE q = 1 /\ type[1] = "application/"
  BY <1>3
<1>4. ASSUME NEW x, type = <<x>> PROVE FALSE
  BY <1>4
<1> QED BY <1>1, <1>2, <1>3, <1>4, Zenon

(* The first lexeme of the whole value is that of the type part. *)
LEMMA FirstIs ==
    ASSUME NEW V, NEW v \in Seq(V), NEW x, IsWord(x)
    PROVE  (v # << >> /\ v[1] = x) <=> (TypePart(v) # << >> /\ TypePart(v)[1] = x)
<1> DEFINE n == Len(v)
           t == Before(v, Blank \cup {";"})
           e == Before(v, {";"})
           k == TypeEnd(v)
           m == TypePart(v)
<1>1. Cut(v, t, e, k)
  BY CutIs
<1>2. n \in Nat /\ e \in 0 .. n /\ t \in 0 .. e /\ k \in t .. e
  BY <1>1, Zenon DEF Cut, n
<1>3. m = SubSeq(v, 1, k)
  BY DEF TypePart
<1>4. t = n \/ ~ IsWord(v[t + 1])
  BY BeforeIs DEF IsWord
<1> HIDE DEF t, e, k, n, m
<1>5. k \in 0 .. n
  BY <1>2
<1>6. m \in Seq(V) /\ Len(m) = k /\ \A q \in 1 .. k : m[q] = v[q]
  BY <1>3, <1>5, Prefix DEF n
<1>7. (m = << >> <=> k = 0) /\ (v = << >> <=> n = 0)
  BY <1>6, EmptySeq DEF n
<1>8. ASSUME v # << >>, v[1] = x PROVE k # 0
  <2>1. n # 0
    BY <1>7, <1>8
  <2>2. IsWord(v[1])
    BY <1>8
  <2>3. t # 0
    <3> SUFFICES ASSUME t = 0 PROVE FALSE
      OBVIOUS
    <3>1. t + 1 = 1 /\ t # n
      BY <2>1
    <3> QED BY <1>4, <2>2, <3>1
  <2> QED BY <1>2, <2>3
<1>9. k # 0 => 1 \in 1 .. k /\ n # 0
  BY <1>2, <1>5
<1> QED BY <1>6, <1>7, <1>8, <1>9, Zenon DEF m

(* What the walks decide, in terms of the type part. *)
LEMMA ScannableIs ==
    ASSUME NEW V, NEW v \in Seq(V)
    PROVE  content_type_value_scannable(v) <=> IsTextual(TypePart(v))
<1> DEFINE m == TypePart(v)
           Application == Len(m) >= 2 /\ m[1] = "application/"
<1>2. (\E type \in ExactTypes : content_type_is(v, type)) <=> m \in ExactTypes
  <2>1. \A type \in ExactTypes : content_type_is(v, type) <=> m = type
    <3> SUFFICES ASSUME NEW type \in ExactTypes
                 PROVE  content_type_is(v, type) <=> m = type
      OBVIOUS
    <3>1. Trimmed(type)
      BY ExactTypesTrimmed, Zenon
    <3>2. content_type_is(v, type) => m = type
      BY <3>1, TypeFound
    <3>3. m = type => content_type_is(v, type)
      BY <3>1, FoundType
    <3> QED BY <3>2, <3>3
  <2> QED BY <2>1, Zenon
<1>3. StartsWith(v, <<"text/">>) <=> m # << >> /\ m[1] = "text/"
  <2>1. Len(v) >= 1 <=> v # << >>
    BY EmptySeq
  <2>2. StartsWith(v, <<"text/">>) <=> Len(v) >= 1 /\ v[1] = "text/"
    BY BeginsWith, Zenon
  <2>3. IsWord("text/")
    BY Zenon DEF Blank, IsWord
  <2>4. (v # << >> /\ v[1] = "text/") <=> (m # << >> /\ m[1] = "text/")
    BY <2>3, FirstIs
  <2> QED BY <2>1, <2>2, <2>4, Zenon
<1>4. "+json" # "application/" /\ "+xml" # "application/"
  BY Zenon
<1>5. \A x : x # "application/" => (content_type_suffix(v, <<x>>) <=> Application /\ Last(m) = x)
  BY SuffixIs, Zenon
<1>6. /\ content_type_suffix(v, <<"+json">>) <=> Application /\ Last(m) = "+json"
      /\ content_type_suffix(v, <<"+xml">>) <=> Application /\ Last(m) = "+xml"
  BY <1>4, <1>5, Zenon
<1>7. IsTextual(m) <=> \/ m \in ExactTypes
                       \/ m # << >> /\ m[1] = "text/"
                       \/ Application /\ Last(m) \in {"+json", "+xml"}
  BY Zenon DEF IsTextual
<1> HIDE DEF m, Application
<1>8. content_type_value_scannable(v) <=> IsTextual(m)
  BY <1>2, <1>3, <1>6, <1>7, Zenon DEF content_type_value_scannable
<1> QED BY <1>8 DEF m

(* For every Content-Type value: a well-formed one is scanned exactly when *)
(* its media type, the token RFC 9110 reads, is a textual one; a malformed *)
(* one exactly when it begins with text/, or with application/ and its     *)
(* junk ends in +json or +xml                                              *)
(* (ngx_http_shield_content_type_value_scannable).                         *)
THEOREM TextualScanned == Spec => []ScannableExact
<1>1. KInv => ScannableExact
  <2> SUFFICES ASSUME KInv PROVE ScannableExact
    OBVIOUS
  <2> DEFINE m == TypePart(ct)
  <2>1. ct \in Seq(TypeWords)
    BY Zenon DEF KInv
  <2>2. content_type_value_scannable(ct) <=> IsTextual(m)
    BY <2>1, ScannableIs
  <2>3. CASE Stray(ct) = {}
    <3>1. MediaType(ct) = m
      BY <2>1, <2>3, StrayIs
    <3> QED BY <2>2, <2>3, <3>1, Zenon DEF ScannableExact
  <2>4. CASE Stray(ct) # {}
    <3>1. PICK q \in 1 .. Len(m) - 1 : m[q] \in Blank
      BY <2>1, <2>4, StrayIs
    <3>2. m \notin ExactTypes
      BY <3>1, ExactTypesAreTokens
    <3>3. Len(m) \in Nat /\ (m = << >> <=> Len(m) = 0)
      <4>1. m \in Seq(TypeWords)
        BY <2>1, TypePartSeq
      <4> HIDE DEF m
      <4> QED BY <4>1, EmptySeq, LenProperties
    <3>4. Len(m) >= 2 /\ m # << >>
      <4> HIDE DEF m
      <4> QED BY <3>1, <3>3
    <3>5. ct # << >> /\ IsWord("text/") /\ IsWord("application/")
      <4>1. IsWord("text/") /\ IsWord("application/")
        BY Zenon DEF Blank, IsWord
      <4>2. m # << >> => ct # << >>
        BY <2>1, TypePartSeq
      <4> QED BY <3>4, <4>1, <4>2, Zenon
    <3>6. \A x : IsWord(x) => (ct[1] = x <=> m[1] = x)
      BY <2>1, <3>4, <3>5, FirstIs
    <3>7. EndsTextual(ct) <=> Last(m) \in {"+json", "+xml"}
      BY <2>1, <3>4, EndsTextualIs
    <3> HIDE DEF m
    <3>8. (ct[1] = "text/" <=> m[1] = "text/") /\ (ct[1] = "application/" <=> m[1] = "application/")
      BY <3>5, <3>6, Zenon
    <3>9. IsTextual(m) <=> m[1] = "text/" \/ (m[1] = "application/" /\ EndsTextual(ct))
      BY <3>2, <3>4, <3>7, Zenon DEF IsTextual
    <3> QED BY <2>2, <2>4, <3>8, <3>9, Zenon DEF ScannableExact
  <2> QED BY <2>3, <2>4
<1> QED BY <1>1, KAlways, PTL
=============================================================================
