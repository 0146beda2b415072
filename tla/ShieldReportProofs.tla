------------------------- MODULE ShieldReportProofs -------------------------
(***************************************************************************)
(* Proofs about what the module reports of itself: ShieldLog, for request  *)
(* lines of any shape and any number of records, seconds, failing writes   *)
(* and steps of the clock, and ShieldStatus, for any number of workers,       *)
(* nodes, entries and categories.                                          *)
(***************************************************************************)
EXTENDS ShieldLog, ShieldStatus, InductionLemmas

----------------------------------------------------------------------------
(* Alerts                                                                  *)

(* The clock's age of the last alert lags behind the real one by no more   *)
(* than the clock was set back; and a full disk was announced when it was  *)
(* met, so that however old it seems, the alert is at most that much older *)
(* than the gap.  Cutting the ages off keeps both.                         *)
AgesOK ==
    /\ error_age \in Int /\ full_age \in Int /\ since_alert \in Nat /\ back \in Nat
    /\ since_alert <= Never /\ back <= MaxBack
    /\ since_alert <= error_age + back
    /\ 0 <= full_age + back
    /\ since_alert <= ALERT_GAP + back + full_age

AInv == AgesOK /\ LossIsAnnounced

LEMMA AInit == LogInit => AInv
  BY LogAssumption DEF LogInit, AInv, AgesOK, LossIsAnnounced, Never, LongAgo

LEMMA AlertKeeps ==
    ASSUME AgesOK, Alert, back' = back, full_age' = full_age \/ full_age' = 0
    PROVE  AgesOK' /\ since_alert' <= ALERT_GAP + back
<1>1. ALERT_GAP \in Nat /\ MaxBack \in Nat
  BY LogAssumption
<1>2. CASE error_age > ALERT_GAP
  BY <1>1, <1>2 DEF Alert, AgesOK, Never
<1>3. CASE ~ (error_age > ALERT_GAP)
  BY <1>1, <1>3 DEF Alert, AgesOK, Never
<1> QED BY <1>2, <1>3

LEMMA ANext == AInv /\ [LogNext]_log_vars => AInv'
<1> SUFFICES ASSUME AInv, [LogNext]_log_vars PROVE AInv'
  OBVIOUS
<1>1. ALERT_GAP \in Nat /\ MaxBack \in Nat
  BY LogAssumption
<1>2. ASSUME UNCHANGED <<error_age, full_age, since_alert, back>>,
             fate' # "lost" \/ fate' = fate \/ full_age = 0
      PROVE  AInv'
  BY <1>1, <1>2 DEF AInv, AgesOK, LossIsAnnounced
<1>3. CASE write_log
  <2>1. back' = back
    BY <1>3 DEF write_log
  <2>2. CASE WriteFile
    <3>1. CASE Alert /\ (full_age' = full_age \/ full_age' = 0)
      BY <2>1, <3>1, AlertKeeps DEF AInv, LossIsAnnounced
    <3> QED BY <1>2, <2>1, <2>2, <3>1 DEF WriteFile, Shut, NoSpace, ages
  <2>3. ASSUME NEW rec, WriteSyslog(rec) PROVE AInv'
    BY <1>2, <2>1, <2>3 DEF WriteSyslog, ages
  <2>4. CASE fate' = "dropped" /\ UNCHANGED ages
    BY <1>2, <2>1, <2>4 DEF ages
  <2> QED BY <1>3, <2>2, <2>3, <2>4 DEF write_log
<1>4. CASE Tick
  BY <1>1, <1>4 DEF Tick, Older, AInv, AgesOK, LossIsAnnounced, AtMost, Never, LongAgo
<1>5. CASE SetBack
  BY <1>1, <1>5 DEF SetBack, AInv, AgesOK, LossIsAnnounced, Never
<1>6. CASE Outside
  BY <1>2, <1>6 DEF Outside, ages
<1>8. CASE SetForward
  <2>1. PICK n \in Nat : Older(n) /\ UNCHANGED <<since_alert, back, fate>>
    BY <1>1, <1>8 DEF SetForward, Never
  <2> QED BY <1>1, <2>1 DEF Older, AInv, AgesOK, LossIsAnnounced, AtMost, Never, LongAgo
<1>7. CASE UNCHANGED log_vars
  BY <1>2, <1>7 DEF log_vars
<1> QED BY <1>3, <1>4, <1>5, <1>6, <1>7, <1>8 DEF LogNext

LEMMA AAlways == LogSpec => []AInv
  BY AInit, ANext, PTL DEF LogSpec

(* A record is lost to a failed or held-back write only in the ALERT_GAP   *)
(* seconds behind an alert, or as much longer as the clock was set back:   *)
(* neither the rate limit nor the back-off of a full disk hides such a     *)
(* loss (ngx_http_shield_write_log, file sink).  Records that get no       *)
(* memory or do not reach the syslog server are not announced at all.      *)
THEOREM LossAnnounced == LogSpec => []LossIsAnnounced
<1>1. AInv => LossIsAnnounced
  BY DEF AInv
<1> QED BY <1>1, AAlways, PTL

----------------------------------------------------------------------------
(* The record                                                              *)

Piece == [width : LineWidths, n : Nat]

LEMMA RunsAre == \A runs \in Runs : runs \in Seq(Piece)
<1> SUFFICES ASSUME NEW m \in 0 .. MaxRuns, NEW runs \in [1 .. m -> [width : LineWidths, n : RunLengths]]
             PROVE  runs \in Seq(Piece)
  BY DEF Runs
<1>1. m \in Nat
  BY LogAssumption
<1>2. runs \in [1 .. m -> Piece]
  BY LogAssumption DEF Piece
<1> QED BY <1>1, <1>2

LEMMA PieceIs ==
    ASSUME NEW runs \in Seq(Piece)
    PROVE  /\ Len(runs) \in Nat
           /\ \A k \in 1 .. Len(runs) : runs[k].n \in Nat /\ runs[k].width \in LineWidths
<1>1. Len(runs) \in Nat /\ \A k \in 1 .. Len(runs) : runs[k] \in Piece
  BY LenProperties, ElementOfSeq
<1> QED BY <1>1 DEF Piece

(* The sums that BytesUpto defines. *)
LEMMA BytesSteps ==
    ASSUME NEW runs \in Seq(Piece)
    PROVE  /\ BytesUpto(runs)[0] = 0
           /\ \A k \in 1 .. Len(runs) : BytesUpto(runs)[k] = BytesUpto(runs)[k - 1] + runs[k].n
           /\ \A k \in 0 .. Len(runs) : BytesUpto(runs)[k] \in Nat
<1> DEFINE n == Len(runs)
           Rec(g) == g = [k \in 0 .. n |-> IF k = 0 THEN 0 ELSE g[k - 1] + runs[k].n]
           step == [k \in 1 .. n |-> [v \in Nat |-> v + runs[k].n]]
           b == BytesUpto(runs)
<1>1. n \in Nat /\ \A k \in 1 .. n : runs[k].n \in Nat
  BY PieceIs
<1>2. step \in [1 .. n -> [Nat -> Nat]]
  BY <1>1
<1>3. b = CHOOSE g : Rec(g)
  BY DEF BytesUpto
<1> HIDE DEF n
<1>4. \E f : Rec(f)
  <2>1. PICK f : Iterates(f, n, Nat, 0, step)
    <3> HIDE DEF step
    <3> QED BY <1>1, <1>2, Recursion
  <2>2. ASSUME NEW k \in 0 .. n PROVE f[k] = IF k = 0 THEN 0 ELSE f[k - 1] + runs[k].n
    <3>1. CASE k = 0
      BY <2>1, <3>1 DEF Iterates
    <3>2. CASE k # 0
      <4>1. k \in 1 .. n /\ k - 1 \in 0 .. n
        BY <1>1, <3>2
      <4>2. f[k - 1] \in Nat /\ f[k] = step[k][f[k - 1]]
        BY <2>1, <4>1 DEF Iterates
      <4> QED BY <3>2, <4>1, <4>2
    <3> QED BY <3>1, <3>2
  <2>3. Rec(f)
    BY <2>1, <2>2 DEF Iterates
  <2> QED BY <2>3
<1>5. Rec(b)
  <2> HIDE DEF Rec, b
  <2> QED BY <1>3, <1>4
<1> HIDE DEF b
<1>6. b[0] = 0 /\ \A k \in 1 .. n : b[k] = b[k - 1] + runs[k].n
  BY <1>1, <1>5
<1>7. \A k \in 0 .. n : b[k] \in Nat
  <2> DEFINE S == {m \in Nat : m <= n => b[m] \in Nat}
  <2>1. 0 \in S
    BY <1>6
  <2>2. ASSUME NEW m \in Nat, m \in S PROVE m + 1 \in S
    <3> SUFFICES ASSUME m + 1 <= n PROVE b[m + 1] \in Nat
      OBVIOUS
    <3>1. m + 1 \in 1 .. n /\ (m + 1) - 1 = m /\ b[m] \in Nat
      BY <1>1, <2>2
    <3> QED BY <1>1, <1>6, <3>1
  <2> HIDE DEF S
  <2>3. Nat \subseteq S
    BY <2>1, <2>2, SetInduction
  <2> QED BY <1>1, <2>3 DEF S
<1> QED BY <1>6, <1>7 DEF n, b

(* They grow. *)
LEMMA BytesGrow ==
    ASSUME NEW runs \in Seq(Piece), NEW k \in 0 .. Len(runs)
    PROVE  BytesUpto(runs)[k] <= Bytes(runs)
<1> DEFINE n == Len(runs)
           b == BytesUpto(runs)
           S == {m \in Nat : m + k <= n => b[k] <= b[m + k]}
<1>1. /\ n \in Nat /\ k \in 0 .. n
      /\ \A i \in 1 .. n : b[i] = b[i - 1] + runs[i].n /\ runs[i].n \in Nat
      /\ \A i \in 0 .. n : b[i] \in Nat
  BY PieceIs, BytesSteps
<1>2. b[n] = Bytes(runs)
  BY DEF Bytes
<1> HIDE DEF n, b
<1>3. 0 \in S
  BY <1>1
<1>4. ASSUME NEW m \in Nat, m \in S PROVE m + 1 \in S
  <2> SUFFICES ASSUME m + 1 + k <= n PROVE b[k] <= b[m + 1 + k]
    OBVIOUS
  <2>1. m + 1 + k \in 1 .. n /\ (m + 1 + k) - 1 = m + k /\ m + k \in 0 .. n /\ b[k] <= b[m + k]
    BY <1>1, <1>4
  <2>2. /\ b[m + 1 + k] = b[m + k] + runs[m + 1 + k].n /\ runs[m + 1 + k].n \in Nat
        /\ b[k] \in Nat /\ b[m + k] \in Nat
    BY <1>1, <2>1
  <2> QED BY <2>1, <2>2
<1> HIDE DEF S
<1>5. Nat \subseteq S
  BY <1>3, <1>4, SetInduction
<1>6. n - k \in Nat /\ (n - k) + k = n
  BY <1>1
<1>7. b[k] <= b[n]
  <2>1. n - k \in S
    BY <1>5, <1>6
  <2>2. (n - k) + k <= n => b[k] <= b[(n - k) + k]
    BY <2>1 DEF S
  <2>3. n <= n
    BY <1>1
  <2> QED BY <1>6, <2>2, <2>3
<1> QED BY <1>2, <1>7 DEF b

(* What is kept of the request line is its first LINE_MAX bytes. *)
LEMMA BoundedIs ==
    ASSUME NEW runs \in Seq(Piece)
    PROVE  /\ Bounded(runs) \in Seq(Piece) /\ Len(Bounded(runs)) = Len(runs)
           /\ Bytes(Bounded(runs)) = AtMost(Bytes(runs), LINE_MAX)
<1> DEFINE n == Len(runs)
           b == BytesUpto(runs)
           req == Bounded(runs)
           c == BytesUpto(req)
<1>1. /\ n \in Nat /\ LINE_MAX \in Nat
      /\ b[0] = 0 /\ \A k \in 1 .. n : b[k] = b[k - 1] + runs[k].n
      /\ \A k \in 0 .. n : b[k] \in Nat
      /\ \A k \in 1 .. n : runs[k].n \in Nat /\ runs[k] \in Piece
  BY PieceIs, BytesSteps, ElementOfSeq, LogAssumption
<1>2. req = [k \in 1 .. n |->
               [runs[k] EXCEPT !.n = AtMost(runs[k].n, LINE_MAX - AtMost(b[k - 1], LINE_MAX))]]
  BY DEF Bounded
<1> HIDE DEF n, b, req
<1>3. ASSUME NEW k \in 1 .. n
      PROVE  /\ req[k] \in Piece
             /\ req[k].n = AtMost(runs[k].n, LINE_MAX - AtMost(b[k - 1], LINE_MAX))
  <2> DEFINE m == AtMost(runs[k].n, LINE_MAX - AtMost(b[k - 1], LINE_MAX))
  <2>1. k - 1 \in 0 .. n
    BY <1>1
  <2>2. m \in Nat
    BY <1>1, <2>1 DEF AtMost
  <2>3. req[k] = [runs[k] EXCEPT !.n = m]
    BY <1>2
  <2> HIDE DEF m
  <2>4. req[k] \in Piece /\ req[k].n = m
    BY <1>1, <2>2, <2>3 DEF Piece
  <2> QED BY <2>4 DEF m
<1>4. req \in [1 .. n -> Piece]
  BY <1>2, <1>3
<1>5. req \in Seq(Piece)
  BY <1>1, <1>4
<1>6. Len(req) = n
  BY <1>1, <1>4, <1>5, LenIs
<1>7. c[0] = 0 /\ \A k \in 1 .. n : c[k] = c[k - 1] + req[k].n
  BY <1>5, <1>6, BytesSteps
<1>8. \A k \in 0 .. n : c[k] = AtMost(b[k], LINE_MAX)
  <2> DEFINE S == {m \in Nat : m <= n => c[m] = AtMost(b[m], LINE_MAX)}
  <2> HIDE DEF c
  <2>1. 0 \in S
    BY <1>1, <1>7 DEF AtMost
  <2>2. ASSUME NEW m \in Nat, m \in S PROVE m + 1 \in S
    <3> SUFFICES ASSUME m + 1 <= n PROVE c[m + 1] = AtMost(b[m + 1], LINE_MAX)
      OBVIOUS
    <3>1. m + 1 \in 1 .. n /\ (m + 1) - 1 = m /\ m \in 0 .. n /\ c[m] = AtMost(b[m], LINE_MAX)
      BY <1>1, <2>2
    <3>2. /\ c[m + 1] = c[m] + req[m + 1].n
          /\ req[m + 1].n = AtMost(runs[m + 1].n, LINE_MAX - AtMost(b[m], LINE_MAX))
          /\ b[m + 1] = b[m] + runs[m + 1].n
          /\ b[m] \in Nat /\ runs[m + 1].n \in Nat
      BY <1>1, <1>3, <1>7, <3>1
    <3> QED BY <1>1, <3>1, <3>2 DEF AtMost
  <2> HIDE DEF S
  <2>3. Nat \subseteq S
    BY <2>1, <2>2, SetInduction
  <2> QED BY <1>1, <2>3 DEF S
<1>9. Bytes(req) = AtMost(Bytes(runs), LINE_MAX)
  <2>1. n \in 0 .. n
    BY <1>1
  <2>2. Bytes(req) = c[n] /\ Bytes(runs) = b[n]
    BY <1>6 DEF Bytes, n, b
  <2> QED BY <1>8, <2>1, <2>2
<1> QED BY <1>5, <1>6, <1>9 DEF n, req

(* With room for six times a run, every byte of it is escaped. *)
LEMMA EscapeWhole ==
    ASSUME NEW p \in Int, NEW e \in Int, NEW w \in LineWidths, NEW d \in Nat, NEW last \in Int,
           last - 6 - p >= 6 * d - 3
    PROVE  Escape([p |-> p, escaped |-> e], [width |-> w, n |-> d], last)
             = [p |-> p + d * w, escaped |-> e + d]
<1> DEFINE room == last - 6 - p
           turns == IF room <= 0 THEN 0 ELSE AtMost(d, (room + w - 1) \div w)
<1>1. room \in Int /\ room >= 6 * d - 3
  OBVIOUS
<1>2. Escape([p |-> p, escaped |-> e], [width |-> w, n |-> d], last)
        = [p |-> p + turns * w, escaped |-> e + turns]
  BY DEF Escape
<1>3. turns = d
  <2> HIDE DEF room
  <2>1. CASE w = 1
    <3>1. (room + 1 - 1) \div 1 = room
      BY <1>1
    <3> QED BY <1>1, <2>1, <3>1 DEF AtMost
  <2>2. CASE w = 2
    <3>1. room > 0 => (room + 2 - 1) \div 2 >= d
      BY <1>1
    <3>2. (room + 2 - 1) \div 2 \in Int
      BY <1>1
    <3> QED BY <1>1, <2>2, <3>1, <3>2 DEF AtMost
  <2>3. CASE w = 6
    <3>1. room > 0 => (room + 6 - 1) \div 6 >= d
      BY <1>1
    <3>2. (room + 6 - 1) \div 6 \in Int
      BY <1>1
    <3> QED BY <1>1, <2>3, <3>1, <3>2 DEF AtMost
  <2> QED BY <2>1, <2>2, <2>3 DEF LineWidths
<1> HIDE DEF turns
<1> QED BY <1>2, <1>3

LEMMA Widen ==
    ASSUME NEW w \in LineWidths, NEW d \in Nat PROVE d * w \in Nat /\ d * w <= 6 * d
<1>1. CASE w = 1 BY <1>1
<1>2. CASE w = 2 BY <1>2
<1>3. CASE w = 6 BY <1>3
<1> QED BY <1>1, <1>2, <1>3 DEF LineWidths

(* The state of the loop. *)
Loop == [p : Int, escaped : Int]

LEMMA EscapeType ==
    ASSUME NEW s \in Loop, NEW r \in Piece, NEW last \in Int PROVE Escape(s, r, last) \in Loop
<1> DEFINE room == last - 6 - s.p
           turns == IF room <= 0 THEN 0 ELSE AtMost(r.n, (room + r.width - 1) \div r.width)
<1>1. room \in Int /\ r.n \in Nat /\ r.width \in LineWidths /\ s.p \in Int /\ s.escaped \in Int
  BY DEF Loop, Piece
<1>2. turns \in Int /\ turns * r.width \in Int
  <2> HIDE DEF room
  <2>1. CASE r.width = 1 BY <1>1, <2>1 DEF AtMost
  <2>2. CASE r.width = 2 BY <1>1, <2>2 DEF AtMost
  <2>3. CASE r.width = 6 BY <1>1, <2>3 DEF AtMost
  <2> QED BY <1>1, <2>1, <2>2, <2>3 DEF LineWidths
<1>3. Escape(s, r, last) = [p |-> s.p + turns * r.width, escaped |-> s.escaped + turns]
  BY DEF Escape
<1> HIDE DEF turns
<1> QED BY <1>1, <1>2, <1>3 DEF Loop

(* The states that Escaped defines. *)
LEMMA EscapedSteps ==
    ASSUME NEW req \in Seq(Piece), NEW last \in Int
    PROVE  /\ Escaped(req, last)[0] = [p |-> FIXED + VALUES, escaped |-> 0]
           /\ \A k \in 1 .. Len(req) :
                 Escaped(req, last)[k] = Escape(Escaped(req, last)[k - 1], req[k], last)
<1> DEFINE n == Len(req)
           e == Escaped(req, last)
           base == [p |-> FIXED + VALUES, escaped |-> 0]
           Rec(g) == g = [k \in 0 .. n |-> IF k = 0 THEN base ELSE Escape(g[k - 1], req[k], last)]
           step == [k \in 1 .. n |-> [v \in Loop |-> Escape(v, req[k], last)]]
<1>1. n \in Nat /\ \A k \in 1 .. n : req[k] \in Piece
  BY PieceIs, ElementOfSeq
<1>2. step \in [1 .. n -> [Loop -> Loop]]
  BY <1>1, EscapeType
<1>3. base \in Loop
  BY LogAssumption DEF Loop
<1>4. e = CHOOSE g : Rec(g)
  BY DEF Escaped
<1> HIDE DEF n, base
<1>5. \E f : Rec(f)
  <2>1. PICK f : Iterates(f, n, Loop, base, step)
    <3> HIDE DEF step
    <3> QED BY <1>1, <1>2, <1>3, Recursion
  <2>2. ASSUME NEW k \in 0 .. n
        PROVE  f[k] = IF k = 0 THEN base ELSE Escape(f[k - 1], req[k], last)
    <3>1. CASE k = 0
      BY <2>1, <3>1 DEF Iterates
    <3>2. CASE k # 0
      <4>1. k \in 1 .. n /\ k - 1 \in 0 .. n
        BY <1>1, <3>2
      <4>2. f[k - 1] \in Loop /\ f[k] = step[k][f[k - 1]]
        BY <2>1, <4>1 DEF Iterates
      <4> QED BY <3>2, <4>1, <4>2
    <3> QED BY <3>1, <3>2
  <2>3. Rec(f)
    BY <2>1, <2>2 DEF Iterates
  <2> QED BY <2>3
<1>6. Rec(e)
  <2> HIDE DEF Rec, e
  <2> QED BY <1>4, <1>5
<1> HIDE DEF e
<1>7. e[0] = base /\ \A k \in 1 .. n : e[k] = Escape(e[k - 1], req[k], last)
  <2>1. \A k \in 1 .. n : k \in 0 .. n /\ k # 0
    BY <1>1
  <2> QED BY <1>1, <1>6, <2>1
<1> QED BY <1>7 DEF n, e, base

LEMMA LineRoom ==
    ASSUME NEW f \in Nat, NEW v \in Nat, NEW s \in Nat, NEW all \in Nat, NEW before \in Nat,
           NEW behind \in Nat, NEW d \in Nat, NEW p \in Int, f + 3 <= s,
           behind = before + d, behind <= all, p <= f + v + 6 * before
    PROVE  (v + 6 * all + s) - 6 - p >= 6 * d - 3
  OBVIOUS

LEMMA Taken ==
    ASSUME NEW f \in Nat, NEW v \in Nat, NEW before \in Nat, NEW behind \in Nat, NEW d \in Nat,
           NEW p \in Int, NEW x \in Nat, behind = before + d, p <= f + v + 6 * before, x <= 6 * d
    PROVE  p + x \in Int /\ p + x <= f + v + 6 * behind
  OBVIOUS

(* The loop escapes every byte, and each takes at most six. *)
LEMMA EscapedIs ==
    ASSUME NEW req \in Seq(Piece)
    PROVE  LET end == Escaped(req, Cap(req))[Len(req)]
           IN  /\ end.escaped = Bytes(req) /\ end.p \in Int
               /\ end.p <= FIXED + VALUES + 6 * Bytes(req)
<1> DEFINE n == Len(req)
           b == BytesUpto(req)
           last == Cap(req)
           e == Escaped(req, last)
           Fine(k) == /\ e[k] = [p |-> e[k].p, escaped |-> b[k]] /\ e[k].p \in Int
                      /\ e[k].p <= FIXED + VALUES + 6 * b[k]
           S == {m \in Nat : m <= n => Fine(m)}
<1>1. /\ n \in Nat /\ b[0] = 0
      /\ \A k \in 1 .. n : b[k] = b[k - 1] + req[k].n
      /\ \A k \in 0 .. n : b[k] \in Nat /\ b[k] <= Bytes(req)
      /\ \A k \in 1 .. n : req[k] \in Piece
  BY PieceIs, BytesSteps, BytesGrow, ElementOfSeq
<1>2. FIXED \in Nat /\ VALUES \in Nat /\ SLACK \in Nat /\ FIXED + 3 <= SLACK
  BY LogAssumption, SizesAssumption
<1>3. Bytes(req) \in Nat /\ n \in 0 .. n /\ b[n] = Bytes(req)
  BY <1>1 DEF Bytes
<1>4. last \in Int /\ last = VALUES + 6 * Bytes(req) + SLACK
  BY <1>2, <1>3 DEF Cap
<1> HIDE DEF n, b, last
<1>5. /\ e[0] = [p |-> FIXED + VALUES, escaped |-> 0]
      /\ \A k \in 1 .. n : e[k] = Escape(e[k - 1], req[k], last)
  BY <1>4, EscapedSteps DEF n
<1> HIDE DEF e
<1>6. 0 \in S
  <2>1. e[0].p = FIXED + VALUES /\ FIXED + VALUES \in Int
        /\ FIXED + VALUES <= FIXED + VALUES + 6 * 0
    BY <1>2, <1>5
  <2>2. Fine(0)
    BY <1>1, <1>5, <2>1
  <2> HIDE DEF Fine
  <2> QED BY <2>2
<1>7. ASSUME NEW m \in Nat, m \in S PROVE m + 1 \in S
  <2> SUFFICES ASSUME m + 1 <= n PROVE Fine(m + 1)
    OBVIOUS
  <2> DEFINE k == m + 1
             p == e[m].p
             d == req[k].n
             w == req[k].width
  <2>1. k \in 1 .. n /\ k \in 0 .. n /\ k - 1 = m /\ m \in 0 .. n /\ Fine(m)
    BY <1>1, <1>7
  <2>2. /\ e[k] = Escape(e[m], req[k], last) /\ b[k] = b[m] + d
        /\ req[k] \in Piece /\ b[k] \in Nat /\ b[k] <= Bytes(req) /\ b[m] \in Nat
    BY <1>1, <1>5, <2>1
  <2>3. d \in Nat /\ w \in LineWidths /\ req[k] = [width |-> w, n |-> d]
    BY <2>2 DEF Piece
  <2>4. e[m] = [p |-> p, escaped |-> b[m]] /\ p \in Int /\ p <= FIXED + VALUES + 6 * b[m]
    BY <2>1
  <2> HIDE DEF k, p, d, w, Fine
  <2>5. last - 6 - p >= 6 * d - 3
    BY <1>2, <1>3, <1>4, <2>2, <2>3, <2>4, LineRoom
  <2>6. e[k] = [p |-> p + d * w, escaped |-> b[m] + d]
    <3>1. b[m] \in Int
      BY <2>2
    <3>2. Escape([p |-> p, escaped |-> b[m]], [width |-> w, n |-> d], last)
            = [p |-> p + d * w, escaped |-> b[m] + d]
      BY <1>4, <2>3, <2>4, <2>5, <3>1, EscapeWhole
    <3> QED BY <2>2, <2>3, <2>4, <3>2
  <2>7. d * w \in Nat /\ d * w <= 6 * d
    BY <2>3, Widen
  <2> DEFINE x == d * w
  <2> HIDE DEF x
  <2>8. e[k] = [p |-> p + x, escaped |-> b[m] + d] /\ x \in Nat /\ x <= 6 * d
    BY <2>6, <2>7 DEF x
  <2>9. e[k].p = p + x
    BY <2>8
  <2>10. p + x \in Int /\ p + x <= FIXED + VALUES + 6 * b[k] /\ b[k] = b[m] + d
    BY <1>2, <2>2, <2>3, <2>4, <2>8, Taken
  <2>11. Fine(k)
    BY <2>8, <2>9, <2>10 DEF Fine
  <2> QED BY <2>11 DEF k
<1> HIDE DEF S
<1>8. Nat \subseteq S
  BY <1>6, <1>7, SetInduction
<1>9. Fine(n)
  BY <1>1, <1>8 DEF S
<1>10. e[n].escaped = Bytes(req) /\ e[n].p \in Int /\ e[n].p <= FIXED + VALUES + 6 * Bytes(req)
  BY <1>3, <1>9
<1> QED BY <1>10 DEF e, n, last

(* Every record of every request line is whole. *)
LEMMA RecordsWhole ==
    ASSUME NEW rec \in Records
    PROVE  /\ rec.escaped = rec.wanted /\ rec.len + 1 <= rec.cap
           /\ rec.len <= FRAME - rec.header
<1>1. PICK runs \in Runs, header \in HEADERS : rec = Record(runs, header)
  BY DEF Records
<1> DEFINE req == Bounded(runs)
           end == Escaped(req, Cap(req))[Len(req)]
<1>2. runs \in Seq(Piece)
  BY RunsAre
<1>3. req \in Seq(Piece) /\ Bytes(req) = AtMost(Bytes(runs), LINE_MAX)
  BY <1>2, BoundedIs
<1>4. Bytes(runs) \in Nat
  <2>1. Len(runs) \in 0 .. Len(runs)
    BY <1>2, PieceIs
  <2> QED BY <1>2, <2>1, BytesSteps DEF Bytes
<1>5. rec = [wanted |-> AtMost(Bytes(runs), LINE_MAX), escaped |-> end.escaped,
             len |-> end.p + 2, cap |-> Cap(req), header |-> header]
  BY <1>1 DEF Record
<1> HIDE DEF req
<1>6. /\ end.escaped = Bytes(req) /\ end.p \in Int
      /\ end.p <= FIXED + VALUES + 6 * Bytes(req)
  BY <1>3, EscapedIs
<1> HIDE DEF end
<1>7. /\ LINE_MAX \in Nat /\ FIXED \in Nat /\ VALUES \in Nat /\ SLACK \in Nat /\ FRAME \in Nat
      /\ header \in Nat /\ FIXED + 3 <= SLACK
      /\ FIXED + VALUES + 6 * LINE_MAX + 2 + header <= FRAME
  BY LogAssumption, SizesAssumption
<1>8. Bytes(req) \in Nat /\ Bytes(req) <= LINE_MAX
  BY <1>3, <1>4, <1>7 DEF AtMost
<1>9. Cap(req) = VALUES + 6 * Bytes(req) + SLACK
  BY DEF Cap
<1>10. end.p + 2 + 1 <= Cap(req) /\ end.p + 2 <= FRAME - header
  BY <1>6, <1>7, <1>8, <1>9
<1> QED BY <1>3, <1>5, <1>6, <1>10

(* Every byte of the first LINE_MAX of any request line is in the record,  *)
(* escaped; the record fits the buffer that was sized for it, and a syslog *)
(* datagram, so that no hit is skipped (ngx_http_shield_write_log).        *)
THEOREM RecordWhole == LogSpec => []RecordIsWhole
<1>1. LogInit => RecordIsWhole
  BY DEF LogInit, RecordIsWhole
<1>2. RecordIsWhole /\ [LogNext]_log_vars => RecordIsWhole'
  <2> SUFFICES ASSUME RecordIsWhole, [LogNext]_log_vars PROVE RecordIsWhole'
    OBVIOUS
  <2>1. CASE write_log
    <3>1. ASSUME NEW rec \in Records, record' = rec, WriteFile \/ WriteSyslog(rec)
          PROVE  RecordIsWhole'
      <4>1. fate' # "skipped"
        BY <3>1, RecordsWhole DEF WriteFile, WriteSyslog, Fits
      <4> QED BY <3>1, <4>1, RecordsWhole DEF RecordIsWhole
    <3>2. CASE fate' = "dropped" /\ UNCHANGED record
      BY <3>2 DEF RecordIsWhole
    <3> QED BY <2>1, <3>1, <3>2 DEF write_log
  <2>2. CASE Tick \/ SetForward \/ SetBack \/ Outside \/ UNCHANGED log_vars
    BY <2>2 DEF Tick, SetForward, SetBack, Outside, log_vars, RecordIsWhole
  <2> QED BY <2>1, <2>2 DEF LogNext
<1> QED BY <1>1, <1>2, PTL DEF LogSpec

----------------------------------------------------------------------------
(* The sum of the counters                                                 *)

One(s) == CHOOSE x \in s : TRUE

(* f sums the counters h over each set of categories. *)
SumsUp(f, h) ==
    /\ f \in [SUBSET Categories -> Nat]
    /\ f[{}] = 0
    /\ \A s \in SUBSET Categories : s # {} => f[s] = h[One(s)] + f[s \ {One(s)}]
    /\ Total(h) = f[Categories]

LEMMA TotalIs ==
    ASSUME NEW h \in [Categories -> Nat] PROVE \E f : SumsUp(f, h)
<1> DEFINE C == Categories
           pick == [s \in SUBSET C |-> One(s)]
           step == [x \in C |-> [v \in Nat |-> h[x] + v]]
           Rec(g) == g = [s \in SUBSET C |-> IF s = {} THEN 0 ELSE h[One(s)] + g[s \ {One(s)}]]
           iter == CHOOSE g : Rec(g)
<1>1. DOMAIN h = C /\ IsFiniteSet(C)
  BY StatusAssumption
<1>2. Total(h) = iter[C]
  BY <1>1 DEF Total, FoldFunction, FoldFunctionOnSet, MapThenFoldSet, One
<1>3. \A s \in SUBSET C : s # {} => One(s) \in s /\ pick[s] = One(s)
  BY DEF One
<1>4. step \in [C -> [Nat -> Nat]]
  OBVIOUS
<1>5. PICK f : FoldsTo(f, C, Nat, 0, pick, step)
  <2>1. \A s \in SUBSET C : s # {} => pick[s] \in s
    BY <1>3
  <2> HIDE DEF pick, step, C
  <2> QED BY <1>1, <1>4, <2>1, SetRecursion
<1>6. /\ f \in [SUBSET C -> Nat] /\ f[{}] = 0
      /\ \A s \in SUBSET C : s # {} => f[s] = step[pick[s]][f[s \ {pick[s]}]]
  BY <1>5 DEF FoldsTo
<1>7. ASSUME NEW s \in SUBSET C, s # {} PROVE f[s] = h[One(s)] + f[s \ {One(s)}]
  <2>1. pick[s] = One(s) /\ One(s) \in C /\ s \ {One(s)} \in SUBSET C
    BY <1>3, <1>7
  <2>2. f[s \ {One(s)}] \in Nat
    BY <1>6, <2>1
  <2>3. f[s] = step[One(s)][f[s \ {One(s)}]]
    BY <1>6, <1>7, <2>1
  <2> QED BY <2>1, <2>2, <2>3
<1> HIDE DEF pick, step
<1>8. Rec(f)
  BY <1>6, <1>7
<1>9. Rec(iter)
  <2> HIDE DEF Rec
  <2> QED BY <1>8
<1> HIDE DEF iter
<1>10. iter = f
  <2> DEFINE N == {m \in Nat : \A s \in SUBSET C : Cardinality(s) = m => iter[s] = f[s]}
  <2>1. \A s \in SUBSET C : IsFiniteSet(s) /\ Cardinality(s) \in Nat
    BY <1>1, FS_Subset, FS_CardinalityType
  <2>2. 0 \in N
    <3>1. ASSUME NEW s \in SUBSET C, Cardinality(s) = 0 PROVE iter[s] = f[s]
      <4>1. s = {}
        BY <2>1, <3>1, FS_EmptySet
      <4> QED BY <1>6, <1>9, <4>1
    <3> QED BY <3>1
  <2>3. ASSUME NEW m \in Nat, m \in N PROVE m + 1 \in N
    <3>1. ASSUME NEW s \in SUBSET C, Cardinality(s) = m + 1 PROVE iter[s] = f[s]
      <4> DEFINE t == s \ {One(s)}
      <4>1. s # {}
        <5>1. Cardinality({}) = 0
          BY FS_EmptySet
        <5> QED BY <3>1, <5>1
      <4>2. t \in SUBSET C /\ One(s) \in s
        BY <1>3, <4>1
      <4>3. Cardinality(t) = m
        BY <2>1, <3>1, <4>2, FS_RemoveElement
      <4>4. iter[t] = f[t]
        BY <2>3, <4>2, <4>3
      <4>5. iter[s] = h[One(s)] + iter[t]
        BY <1>9, <4>1
      <4> QED BY <1>7, <4>1, <4>4, <4>5
    <3> QED BY <3>1
  <2> HIDE DEF N
  <2>4. Nat \subseteq N
    BY <2>2, <2>3, SetInduction
  <2>5. \A s \in SUBSET C : iter[s] = f[s]
    BY <2>1, <2>4 DEF N
  <2>6. iter = [s \in SUBSET C |-> iter[s]]
    BY <1>9
  <2> QED BY <1>6, <2>5, <2>6
<1>11. SumsUp(f, h)
  BY <1>2, <1>6, <1>7, <1>10 DEF SumsUp
<1> QED BY <1>11

LEMMA TotalType ==
    ASSUME NEW h \in [Categories -> Nat] PROVE Total(h) \in Nat
<1>1. PICK f : SumsUp(f, h)
  BY TotalIs
<1> QED BY <1>1 DEF SumsUp

(* A hit counts once. *)
LEMMA TotalBumps ==
    ASSUME NEW h \in [Categories -> Nat], NEW c \in Categories,
           NEW g \in [Categories -> Nat], g = [h EXCEPT ![c] = h[c] + 1]
    PROVE  Total(g) = Total(h) + 1
<1> DEFINE C == Categories
           Plus(s) == IF c \in s THEN 1 ELSE 0
<1>1. PICK e : SumsUp(e, h)
  BY TotalIs
<1>2. PICK f : SumsUp(f, g)
  BY TotalIs
<1> DEFINE N == {m \in Nat : \A s \in SUBSET C : Cardinality(s) = m => f[s] = e[s] + Plus(s)}
<1>3. \A s \in SUBSET C : IsFiniteSet(s) /\ Cardinality(s) \in Nat
  BY StatusAssumption, FS_Subset, FS_CardinalityType
<1>4. 0 \in N
  <2>1. ASSUME NEW s \in SUBSET C, Cardinality(s) = 0 PROVE f[s] = e[s] + Plus(s)
    <3>1. s = {}
      BY <1>3, <2>1, FS_EmptySet
    <3>2. f[{}] = 0 /\ e[{}] = 0
      BY <1>1, <1>2 DEF SumsUp
    <3> QED BY <3>1, <3>2
  <2> QED BY <2>1
<1>5. ASSUME NEW m \in Nat, m \in N PROVE m + 1 \in N
  <2>1. ASSUME NEW s \in SUBSET C, Cardinality(s) = m + 1 PROVE f[s] = e[s] + Plus(s)
    <3> DEFINE x == One(s)
               t == s \ {x}
    <3>1. s # {}
      <4>1. Cardinality({}) = 0
        BY FS_EmptySet
      <4> QED BY <2>1, <4>1
    <3>2. x \in s /\ t \in SUBSET C
      BY <3>1 DEF One
    <3>3. f[s] = g[x] + f[t] /\ e[s] = h[x] + e[t] /\ e[t] \in Nat
      BY <1>1, <1>2, <3>1, <3>2 DEF SumsUp
    <3> HIDE DEF x
    <3>4. Cardinality(t) = m
      BY <1>3, <2>1, <3>2, FS_RemoveElement
    <3>5. f[t] = e[t] + Plus(t)
      BY <1>5, <3>2, <3>4
    <3>6. h[x] \in Nat /\ x \in C
      BY <3>2
    <3>7. CASE x = c
      <4>1. g[x] = h[x] + 1 /\ Plus(t) = 0 /\ Plus(s) = 1
        BY <3>2, <3>6, <3>7
      <4> QED BY <3>3, <3>5, <3>6, <4>1
    <3>8. CASE x # c
      <4>1. g[x] = h[x] /\ Plus(t) = Plus(s)
        BY <3>2, <3>6, <3>8
      <4>2. Plus(s) \in Nat
        OBVIOUS
      <4> HIDE DEF Plus
      <4> QED BY <3>3, <3>5, <3>6, <4>1, <4>2
    <3> QED BY <3>7, <3>8
  <2> QED BY <2>1
<1> HIDE DEF N
<1>6. Nat \subseteq N
  BY <1>4, <1>5, SetInduction
<1>7. f[C] = e[C] + Plus(C)
  BY <1>3, <1>6 DEF N
<1> QED BY <1>1, <1>2, <1>7 DEF SumsUp

----------------------------------------------------------------------------
(* The walk over the ban list                                              *)

LEMMA WidthsAre ==
    ENTRY \in Nat /\ \A x \in Widths : x \in Int /\ x <= ENTRY - CLOSE /\ x <= ENTRY
  BY StatusAssumption DEF CLOSE

Left == [left : Int, listed : Int]

(* r[k] is the state of the walk behind k entries. *)
WalkOf(r, n, room, entries) ==
    /\ r[0] = [left |-> room, listed |-> 0]
    /\ \A k \in 1 .. n : r[k] = IF r[k - 1].left >= ENTRY
                                  THEN [left |-> r[k - 1].left - entries[k],
                                        listed |-> r[k - 1].listed + 1]
                                  ELSE r[k - 1]
    /\ \A k \in 0 .. n : r[k] \in Left
    /\ Walk(room, entries) = r[n]

LEMMA WalkIs ==
    ASSUME NEW n \in Nat, NEW entries \in [1 .. n -> Widths], NEW room \in Nat
    PROVE  \E r : WalkOf(r, n, room, entries)
<1> DEFINE base == [left |-> room, listed |-> 0]
           Take(v, k) == IF v.left >= ENTRY THEN [left |-> v.left - entries[k], listed |-> v.listed + 1]
                         ELSE v
           step == [k \in 1 .. n |-> [v \in Left |-> Take(v, k)]]
           Rec(g) == g = [k \in 0 .. n |->
                            IF k = 0 THEN base
                            ELSE IF g[k - 1].left >= ENTRY
                              THEN [left |-> g[k - 1].left - entries[k], listed |-> g[k - 1].listed + 1]
                              ELSE g[k - 1]]
           r == CHOOSE g : Rec(g)
<1>1. entries \in Seq(Widths) /\ Len(entries) = n
  <2>1. entries \in Seq(Widths)
    OBVIOUS
  <2> QED BY <2>1, LenIs
<1>2. Walk(room, entries) = r[n]
  BY <1>1 DEF Walk, Walked
<1>3. ASSUME NEW v \in Left, NEW k \in 1 .. n PROVE Take(v, k) \in Left
  <2>1. entries[k] \in Int /\ v.left \in Int /\ v.listed \in Int
    <3>1. entries[k] \in Widths
      OBVIOUS
    <3>2. v.left \in Int /\ v.listed \in Int
      BY DEF Left
    <3> QED BY <3>1, <3>2, WidthsAre
  <2> QED BY <2>1 DEF Left
<1>4. step \in [1 .. n -> [Left -> Left]]
  <2> HIDE DEF Take
  <2> QED BY <1>3
<1>5. base \in Left
  BY DEF Left
<1>6. \E f : Rec(f)
  <2>1. PICK f : Iterates(f, n, Left, base, step)
    <3> HIDE DEF step, base
    <3> QED BY <1>4, <1>5, Recursion
  <2> HIDE DEF base
  <2>2. ASSUME NEW k \in 0 .. n PROVE f[k] = IF k = 0 THEN base ELSE Take(f[k - 1], k)
    <3> HIDE DEF Take
    <3>1. CASE k = 0
      BY <2>1, <3>1 DEF Iterates
    <3>2. CASE k # 0
      <4>1. k \in 1 .. n /\ k - 1 \in 0 .. n
        BY <3>2
      <4>2. f[k - 1] \in Left /\ f[k] = step[k][f[k - 1]]
        BY <2>1, <4>1 DEF Iterates
      <4> QED BY <3>2, <4>1, <4>2
    <3> QED BY <3>1, <3>2
  <2>3. f = [k \in 0 .. n |-> f[k]]
    BY <2>1 DEF Iterates
  <2>4. Rec(f)
    BY <2>2, <2>3
  <2> QED BY <2>4
<1>7. Rec(r)
  <2> HIDE DEF Rec
  <2> QED BY <1>6
<1> HIDE DEF r
<1>8. r[0] = base /\ \A k \in 1 .. n : r[k] = Take(r[k - 1], k)
  <2>1. 0 \in 0 .. n /\ \A k \in 1 .. n : k \in 0 .. n /\ k # 0
    OBVIOUS
  <2>2. r[0] = base
    BY <1>7, <2>1
  <2>3. ASSUME NEW k \in 1 .. n PROVE r[k] = Take(r[k - 1], k)
    BY <1>7, <2>1
  <2> QED BY <2>2, <2>3
<1>9. \A k \in 0 .. n : r[k] \in Left
  <2> DEFINE N == {m \in Nat : m <= n => r[m] \in Left}
  <2> HIDE DEF base, Take
  <2>1. 0 \in N
    BY <1>5, <1>8
  <2>2. ASSUME NEW m \in Nat, m \in N PROVE m + 1 \in N
    <3> SUFFICES ASSUME m + 1 <= n PROVE r[m + 1] \in Left
      OBVIOUS
    <3>1. m + 1 \in 1 .. n /\ (m + 1) - 1 = m /\ r[m] \in Left
      BY <2>2
    <3>2. r[m + 1] = Take(r[m], m + 1)
      BY <1>8, <3>1
    <3>3. Take(r[m], m + 1) \in Left
      BY <1>3, <3>1
    <3> QED BY <3>2, <3>3
  <2> HIDE DEF N
  <2>3. Nat \subseteq N
    BY <2>1, <2>2, SetInduction
  <2> QED BY <2>3 DEF N
<1>10. WalkOf(r, n, room, entries)
  BY <1>2, <1>8, <1>9 DEF WalkOf
<1> QED BY <1>10

(* The closing brackets have room behind every walk. *)
LEMMA WalkCloses ==
    ASSUME NEW n \in Nat, NEW entries \in [1 .. n -> Widths], NEW room \in Nat, room >= CLOSE
    PROVE  Walk(room, entries).left >= CLOSE
<1>1. PICK r : WalkOf(r, n, room, entries)
  BY WalkIs
<1> DEFINE N == {m \in Nat : m <= n => r[m].left >= CLOSE}
<1>2. 0 \in N
  BY <1>1 DEF WalkOf
<1>3. ASSUME NEW m \in Nat, m \in N PROVE m + 1 \in N
  <2> SUFFICES ASSUME m + 1 <= n PROVE r[m + 1].left >= CLOSE
    OBVIOUS
  <2>1. m + 1 \in 1 .. n /\ (m + 1) - 1 = m /\ m \in 0 .. n /\ r[m].left >= CLOSE
    BY <1>3
  <2>2. /\ r[m + 1] = IF r[m].left >= ENTRY
                        THEN [left |-> r[m].left - entries[m + 1], listed |-> r[m].listed + 1]
                        ELSE r[m]
        /\ r[m] \in Left
    BY <1>1, <2>1 DEF WalkOf
  <2>3. r[m].left \in Int /\ ENTRY \in Nat /\ entries[m + 1] \in Int /\ entries[m + 1] <= ENTRY - CLOSE
    <3>1. entries[m + 1] \in Widths
      BY <2>1
    <3>2. r[m].left \in Int
      BY <2>2 DEF Left
    <3> QED BY <3>1, <3>2, WidthsAre
  <2>4. CASE r[m].left >= ENTRY
    <3>1. r[m + 1].left = r[m].left - entries[m + 1]
      BY <2>2, <2>4
    <3> QED BY <2>3, <2>4, <3>1 DEF CLOSE
  <2>5. CASE ~ (r[m].left >= ENTRY)
    BY <2>1, <2>2, <2>5
  <2> QED BY <2>4, <2>5
<1> HIDE DEF N
<1>4. n \in N
  BY <1>2, <1>3, SetInduction
<1> QED BY <1>1, <1>4 DEF N, WalkOf

LEMMA Product ==
    ASSUME NEW a \in Nat, NEW b \in Nat PROVE a * b \in Nat /\ (a + 1) * b = a * b + b
  OBVIOUS

(* A buffer sized for as many nodes as are banned holds every entry. *)
LEMMA WalkComplete ==
    ASSUME NEW n \in Nat, NEW entries \in [1 .. n -> Widths], NEW sized \in Nat, n <= sized
    PROVE  Walk(Room(sized), entries).listed = n
<1> DEFINE room == Room(sized)
           over(m) == (sized - m) * ENTRY
<1>1. ENTRY \in Nat /\ HEAD_ROOM \in Nat
  BY StatusAssumption
<1>2. room = HEAD_ROOM + sized * ENTRY /\ sized * ENTRY \in Nat /\ room \in Nat
  BY <1>1, Product DEF Room
<1> HIDE DEF room
<1>3. PICK r : WalkOf(r, n, room, entries)
  BY <1>2, WalkIs
<1> DEFINE N == {m \in Nat : m <= n => r[m].listed = m /\ r[m].left >= HEAD_ROOM + over(m)}
<1>4. 0 \in N
  <2>1. r[0].listed = 0 /\ r[0].left = room
    BY <1>3 DEF WalkOf
  <2>2. sized - 0 = sized
    OBVIOUS
  <2>3. over(0) = sized * ENTRY
    BY <2>2
  <2> HIDE DEF over
  <2> QED BY <1>1, <1>2, <2>1, <2>3
<1>5. ASSUME NEW m \in Nat, m \in N PROVE m + 1 \in N
  <2> SUFFICES ASSUME m + 1 <= n PROVE r[m + 1].listed = m + 1 /\ r[m + 1].left >= HEAD_ROOM + over(m + 1)
    OBVIOUS
  <2>1. /\ m + 1 \in 1 .. n /\ (m + 1) - 1 = m /\ m \in 0 .. n
        /\ r[m].listed = m /\ r[m].left >= HEAD_ROOM + over(m)
    BY <1>5
  <2>2. /\ r[m + 1] = IF r[m].left >= ENTRY
                        THEN [left |-> r[m].left - entries[m + 1], listed |-> r[m].listed + 1]
                        ELSE r[m]
        /\ r[m] \in Left
    BY <1>3, <2>1 DEF WalkOf
  <2>3. r[m].left \in Int /\ entries[m + 1] \in Int /\ entries[m + 1] <= ENTRY
    <3>1. entries[m + 1] \in Widths
      BY <2>1
    <3>2. r[m].left \in Int
      BY <2>2 DEF Left
    <3> QED BY <3>1, <3>2, WidthsAre
  <2>4. over(m) = over(m + 1) + ENTRY /\ over(m + 1) \in Nat
    <3> DEFINE a == sized - (m + 1)
    <3>1. a \in Nat /\ sized - m = a + 1
      OBVIOUS
    <3> HIDE DEF a
    <3>2. (a + 1) * ENTRY = a * ENTRY + ENTRY /\ a * ENTRY \in Nat
      BY <1>1, <3>1, Product
    <3> QED BY <3>1, <3>2 DEF a
  <2> HIDE DEF over
  <2>5. r[m].left >= ENTRY
    BY <1>1, <2>1, <2>3, <2>4
  <2>6. r[m + 1].left = r[m].left - entries[m + 1] /\ r[m + 1].listed = r[m].listed + 1
    BY <2>2, <2>5
  <2> QED BY <1>1, <2>1, <2>3, <2>4, <2>6
<1> HIDE DEF N
<1>6. n \in N
  BY <1>4, <1>5, SetInduction
<1>7. r[n].listed = n
  BY <1>6 DEF N
<1> QED BY <1>3, <1>7 DEF WalkOf, room

----------------------------------------------------------------------------
(* The inductive invariant                                                 *)

Segment == [nodes : Nat, banned : Nat, cat_hits : [Categories -> Nat], blocked : Nat, bans : Nat,
            fault_slab_nth : Nat \cup {DISARMED}, fault_slab_seen : Nat, allocs : Nat,
            injected : SUBSET Nat]

(* The armed counter counts what history counts, the fault has struck if   *)
(* its turn has come, and no more requests were blocked than hit.          *)
Fine(z) ==
    /\ z \in Segment
    /\ z.fault_slab_seen = z.allocs
    /\ z.injected = IF z.fault_slab_nth \in 1 .. z.allocs THEN {z.fault_slab_nth} ELSE {}
    /\ z.blocked <= Total(z.cat_hits)

SnapFine(p) ==
    /\ p.nodes \in Nat /\ p.blocked \in Nat /\ p.cat_hits \in [Categories -> Nat]
    /\ p.blocked <= Total(p.cat_hits)

DocFine ==
    /\ DocumentCloses /\ ListIsComplete /\ CountersAgree
    /\ doc.state = "probe" /\ doc.nth # DISARMED => doc.seen = doc.allocs

SInv ==
    /\ segs \in Seq(Segment) /\ Len(segs) >= 1
    /\ \A s \in DOMAIN segs : Fine(segs[s])
    /\ at \in [Workers -> 0 .. Len(segs)]
    /\ DOMAIN pc = Workers /\ DOMAIN snap = Workers
    /\ \A w \in Workers : pc[w] = "rendering" => at[w] # 0 /\ SnapFine(snap[w])
    /\ DocFine

LEMMA FreshFine == Fine(shctx_init)
<1> DEFINE h == [c \in Categories |-> 0]
<1>1. h \in [Categories -> Nat]
  OBVIOUS
<1>2. Total(h) \in Nat
  BY <1>1, TotalType
<1>3. shctx_init \in Segment
  BY <1>1 DEF shctx_init, Segment
<1>4. /\ shctx_init.fault_slab_seen = 0 /\ shctx_init.allocs = 0 /\ shctx_init.injected = {}
      /\ shctx_init.blocked = 0 /\ shctx_init.cat_hits = h
  BY DEF shctx_init
<1>5. 1 .. 0 = {}
  OBVIOUS
<1> HIDE DEF h
<1> QED BY <1>2, <1>3, <1>4, <1>5 DEF Fine

LEMMA NoDocFine == doc = NoDoc => DocFine
  BY DEF NoDoc, DocFine, DocumentCloses, ListIsComplete, CountersAgree, Rendered

LEMMA SInit == Init => SInv
<1> SUFFICES ASSUME Init PROVE SInv
  OBVIOUS
<1>1. shctx_init \in Segment /\ Fine(shctx_init)
  BY FreshFine DEF Fine
<1>2. segs \in Seq(Segment) /\ Len(segs) = 1 /\ DOMAIN segs = {1} /\ segs[1] = shctx_init
  BY <1>1 DEF Init
<1>3. DocFine
  BY NoDocFine DEF Init
<1> QED BY <1>1, <1>2, <1>3 DEF SInv, Init

(* The segment of a worker that has one. *)
LEMMA AtIs ==
    ASSUME SInv, NEW w \in Workers, at[w] # 0
    PROVE  /\ at[w] \in DOMAIN segs /\ at[w] \in 1 .. Len(segs) /\ Fine(sh(w)) /\ sh(w) \in Segment
<1>1. at[w] \in DOMAIN segs /\ at[w] \in 1 .. Len(segs)
  BY DEF SInv
<1> QED BY <1>1 DEF SInv, sh, Fine

(* Changing a segment under its lock. *)
LEMMA LockedKeeps ==
    ASSUME SInv, NEW w \in Workers, NEW z, Fine(z), Locked(w, z)
    PROVE  SInv'
<1>1. /\ segs' = [segs EXCEPT ![at[w]] = z] /\ doc' = NoDoc /\ UNCHANGED <<at, pc, snap>>
      /\ at[w] \in DOMAIN segs /\ z \in Segment
  BY AtIs DEF Locked, Fine
<1>2. segs' \in Seq(Segment) /\ Len(segs') = Len(segs) /\ DOMAIN segs' = DOMAIN segs
  BY <1>1 DEF SInv
<1>3. \A s \in DOMAIN segs : Fine(segs'[s])
  BY <1>1 DEF SInv
<1>4. DocFine'
  <2>1. doc' = NoDoc
    BY <1>1
  <2> QED BY <2>1 DEF NoDoc, DocFine, DocumentCloses, ListIsComplete, CountersAgree, Rendered
<1>6. \A x : SnapFine(x)' <=> SnapFine(x)
  BY DEF SnapFine
<1> QED BY <1>1, <1>2, <1>3, <1>4, <1>6 DEF SInv

(* Steps that render or render nothing, and change no segment. *)
LEMMA ReaderKeeps ==
    ASSUME SInv, UNCHANGED <<segs, at>>, DocFine', DOMAIN pc' = Workers, DOMAIN snap' = Workers,
           \A w \in Workers : pc'[w] = "rendering" => at[w] # 0 /\ SnapFine(snap'[w])
    PROVE  SInv'
  BY DEF SInv

----------------------------------------------------------------------------
(* The sections under the lock                                             *)

(* z counts no less than y. *)
Grows(z, y) ==
    /\ z.blocked >= y.blocked /\ z.bans >= y.bans
    /\ \A c \in Categories : z.cat_hits[c] >= y.cat_hits[c]

LEMMA Same ==
    ASSUME NEW y \in Segment, NEW z, z.blocked = y.blocked, z.bans = y.bans, z.cat_hits = y.cat_hits
    PROVE  Grows(z, y)
<1>1. y.blocked \in Nat /\ y.bans \in Nat /\ \A c \in Categories : y.cat_hits[c] \in Nat
  BY DEF Segment
<1> QED BY <1>1 DEF Grows

LEMMA slab_allocFine ==
    ASSUME NEW y, Fine(y) PROVE Fine(slab_alloc(y)) /\ Grows(slab_alloc(y), y)
<1> DEFINE seen == IF y.fault_slab_nth = DISARMED THEN y.fault_slab_seen ELSE y.fault_slab_seen + 1
           fails == y.fault_slab_nth # DISARMED /\ seen = y.fault_slab_nth
           inj == IF fails THEN y.injected \cup {Later(y)} ELSE y.injected
           nodes == IF fails \/ y.nodes = MaxNodes THEN y.nodes ELSE y.nodes + 1
           z == [y EXCEPT !.fault_slab_seen = seen, !.allocs = Later(y), !.injected = inj,
                          !.nodes = nodes]
<1>1. /\ y \in Segment /\ y.nodes \in Nat /\ y.fault_slab_seen = y.allocs /\ y.allocs \in Nat
      /\ y.fault_slab_nth \in Nat \cup {DISARMED} /\ y.injected \in SUBSET Nat
      /\ y.blocked <= Total(y.cat_hits)
      /\ y.injected = IF y.fault_slab_nth \in 1 .. y.allocs THEN {y.fault_slab_nth} ELSE {}
  BY DEF Fine, Segment
<1>2. slab_alloc(y) = z
  BY DEF slab_alloc
<1>3. seen = Later(y) /\ seen \in Nat /\ Later(y) \in Nat
  BY <1>1 DEF Later
<1>4. inj \in SUBSET Nat /\ nodes \in Nat
  BY <1>1, <1>3
<1>5. inj = IF y.fault_slab_nth \in 1 .. Later(y) THEN {y.fault_slab_nth} ELSE {}
  <2>0. DISARMED \notin Nat
    BY StatusAssumption
  <2>1. CASE y.fault_slab_nth = DISARMED
    <3>1. y.fault_slab_nth \notin 1 .. Later(y) /\ y.fault_slab_nth \notin 1 .. y.allocs
      BY <2>0, <2>1
    <3> QED BY <1>1, <2>1, <3>1
  <2>2. CASE y.fault_slab_nth # DISARMED /\ y.fault_slab_nth = y.allocs + 1
    <3>1. Later(y) = y.allocs + 1 /\ fails
      BY <1>1, <2>2 DEF Later
    <3>2. y.fault_slab_nth \in 1 .. Later(y) /\ y.fault_slab_nth \notin 1 .. y.allocs
      BY <1>1, <2>2, <3>1
    <3> QED BY <1>1, <2>2, <3>1, <3>2
  <2>3. CASE y.fault_slab_nth # DISARMED /\ y.fault_slab_nth # y.allocs + 1
    <3>1. Later(y) = y.allocs + 1 /\ ~ fails
      BY <1>1, <2>3 DEF Later
    <3>2. y.fault_slab_nth \in 1 .. Later(y) <=> y.fault_slab_nth \in 1 .. y.allocs
      BY <1>1, <2>3, <3>1
    <3> QED BY <1>1, <3>1, <3>2
  <2> QED BY <2>1, <2>2, <2>3
<1> HIDE DEF seen, inj, nodes
<1>6. /\ z \in Segment /\ z.fault_slab_seen = seen /\ z.allocs = Later(y) /\ z.injected = inj
      /\ z.fault_slab_nth = y.fault_slab_nth /\ z.blocked = y.blocked /\ z.bans = y.bans
      /\ z.cat_hits = y.cat_hits
  BY <1>1, <1>3, <1>4 DEF Segment
<1> HIDE DEF z
<1>7. Fine(z)
  BY <1>1, <1>3, <1>5, <1>6 DEF Fine
<1>8. Grows(z, y)
  BY <1>1, <1>6, Same
<1> QED BY <1>2, <1>7, <1>8

(* The other sections change fields of their own. *)
LEMMA BanFine ==
    ASSUME NEW y, Fine(y), NEW z \in Segment, z.bans \in Nat, z.bans >= y.bans,
           z.blocked = y.blocked, z.cat_hits = y.cat_hits,
           z.fault_slab_nth = y.fault_slab_nth, z.fault_slab_seen = y.fault_slab_seen,
           z.allocs = y.allocs, z.injected = y.injected
    PROVE  Fine(z) /\ Grows(z, y)
<1>1. y.blocked \in Nat /\ \A c \in Categories : y.cat_hits[c] \in Nat
  BY DEF Fine, Segment
<1> QED BY <1>1 DEF Fine, Grows

LEMMA count_hitFine ==
    ASSUME NEW y, Fine(y), NEW c \in Categories, NEW b \in 0 .. 1
    PROVE  LET z == [y EXCEPT !.cat_hits[c] = @ + 1, !.blocked = @ + b]
           IN  Fine(z) /\ Grows(z, y)
<1> DEFINE h == y.cat_hits
           g == [h EXCEPT ![c] = h[c] + 1]
           z == [y EXCEPT !.cat_hits = g, !.blocked = y.blocked + b]
<1>1. /\ y \in Segment /\ h \in [Categories -> Nat] /\ y.blocked \in Nat /\ y.bans \in Nat
      /\ y.blocked <= Total(h)
  BY DEF Fine, Segment
<1>2. [y EXCEPT !.cat_hits[c] = @ + 1, !.blocked = @ + b] = z
  BY <1>1 DEF Segment
<1> HIDE DEF h
<1>3. g \in [Categories -> Nat] /\ \A d \in Categories : g[d] >= h[d]
  BY <1>1
<1>4. Total(g) = Total(h) + 1 /\ Total(h) \in Nat
  BY <1>1, <1>3, TotalBumps, TotalType
<1> HIDE DEF g
<1>5. y.blocked + b \in Nat /\ y.blocked + b <= Total(g) /\ y.blocked + b >= y.blocked
      /\ y.bans >= y.bans
  BY <1>1, <1>4
<1>6. /\ z \in Segment /\ z.cat_hits = g /\ z.blocked = y.blocked + b /\ z.bans = y.bans
      /\ z.fault_slab_nth = y.fault_slab_nth /\ z.fault_slab_seen = y.fault_slab_seen
      /\ z.allocs = y.allocs /\ z.injected = y.injected
  BY <1>1, <1>3, <1>5 DEF Segment
<1> HIDE DEF z
<1>7. Fine(z)
  BY <1>5, <1>6 DEF Fine
<1>8. Grows(z, y)
  BY <1>3, <1>5, <1>6 DEF Grows, h
<1> QED BY <1>2, <1>7, <1>8

LEMMA fault_setFine ==
    ASSUME NEW y, Fine(y), NEW nth \in Arms \cup {DISARMED}
    PROVE  LET z == [y EXCEPT !.fault_slab_nth = nth, !.fault_slab_seen = 0, !.allocs = 0,
                              !.injected = {}]
           IN  Fine(z) /\ Grows(z, y)
<1> DEFINE z == [y EXCEPT !.fault_slab_nth = nth, !.fault_slab_seen = 0, !.allocs = 0,
                          !.injected = {}]
<1>1. y \in Segment /\ y.blocked <= Total(y.cat_hits) /\ nth \in Nat \cup {DISARMED}
  BY StatusAssumption DEF Fine
<1>2. /\ z \in Segment /\ z.fault_slab_seen = 0 /\ z.allocs = 0 /\ z.injected = {}
      /\ z.blocked = y.blocked /\ z.bans = y.bans /\ z.cat_hits = y.cat_hits
  BY <1>1 DEF Segment
<1> HIDE DEF z
<1>3. nth \notin 1 .. 0 /\ 1 .. 0 = {}
  OBVIOUS
<1>4. Fine(z)
  BY <1>1, <1>2, <1>3 DEF Fine
<1>5. Grows(z, y)
  BY <1>1, <1>2, Same
<1> QED BY <1>4, <1>5 DEF z

(* A step of a worker under its lock: the segment stays fine and grows. *)
Section(w) == \E z : Locked(w, z) /\ Fine(z) /\ Grows(z, sh(w))

LEMMA Sections ==
    ASSUME SInv, NEW w \in Workers, at[w] # 0,
           \/ Insert(w) \/ ArmBan(w) \/ EndBan(w) \/ Evict(w)
           \/ \E c \in Categories, blocked \in 0 .. 1 : count_hit(w, c, blocked)
           \/ \E nth \in Arms \cup {DISARMED} : fault_set(w, nth)
    PROVE  Section(w)
<1> DEFINE y == sh(w)
<1>1. y \in Segment /\ Fine(y) /\ y.nodes \in Nat /\ y.banned \in Nat /\ y.bans \in Nat
  BY AtIs DEF Segment
<1> HIDE DEF y
<1>2. CASE Insert(w)
  BY <1>1, <1>2, slab_allocFine DEF Insert, Section, y
<1>3. CASE ArmBan(w)
  <2> DEFINE n == y.banned + 1
             b == y.bans + 1
             z == [y EXCEPT !.banned = n, !.bans = b]
  <2>1. Locked(w, z)
    BY <1>3 DEF ArmBan, y
  <2>2. n \in Nat /\ b \in Nat /\ b >= y.bans
    BY <1>1
  <2> HIDE DEF n, b
  <2>3. z \in Segment
    BY <1>1, <2>2 DEF Segment
  <2>4. /\ z.bans = b /\ z.blocked = y.blocked /\ z.cat_hits = y.cat_hits
        /\ z.fault_slab_nth = y.fault_slab_nth /\ z.fault_slab_seen = y.fault_slab_seen
        /\ z.allocs = y.allocs /\ z.injected = y.injected
    BY <1>1 DEF Segment
  <2> HIDE DEF z
  <2> QED BY <1>1, <2>1, <2>2, <2>3, <2>4, BanFine DEF Section, y
<1>4. CASE EndBan(w)
  <2> DEFINE b == y.banned - 1
             z == [y EXCEPT !.banned = b]
  <2>1. Locked(w, z) /\ b \in Nat
    BY <1>1, <1>4 DEF EndBan, y
  <2> HIDE DEF b
  <2>2. /\ z \in Segment /\ z.bans \in Nat /\ z.bans >= y.bans
        /\ z.blocked = y.blocked /\ z.cat_hits = y.cat_hits
        /\ z.fault_slab_nth = y.fault_slab_nth /\ z.fault_slab_seen = y.fault_slab_seen
        /\ z.allocs = y.allocs /\ z.injected = y.injected
    BY <1>1, <2>1 DEF Segment
  <2> HIDE DEF z
  <2> QED BY <1>1, <2>1, <2>2, BanFine DEF Section, y
<1>5. CASE Evict(w)
  <2> DEFINE b == y.nodes - 1
             z == [y EXCEPT !.nodes = b]
  <2>1. Locked(w, z) /\ b \in Nat
    BY <1>1, <1>5 DEF Evict, y
  <2> HIDE DEF b
  <2>2. /\ z \in Segment /\ z.bans \in Nat /\ z.bans >= y.bans
        /\ z.blocked = y.blocked /\ z.cat_hits = y.cat_hits
        /\ z.fault_slab_nth = y.fault_slab_nth /\ z.fault_slab_seen = y.fault_slab_seen
        /\ z.allocs = y.allocs /\ z.injected = y.injected
    BY <1>1, <2>1 DEF Segment
  <2> HIDE DEF z
  <2> QED BY <1>1, <2>1, <2>2, BanFine DEF Section, y
<1>6. ASSUME NEW c \in Categories, NEW b \in 0 .. 1, count_hit(w, c, b) PROVE Section(w)
  BY <1>1, <1>6, count_hitFine DEF count_hit, Section, y
<1>7. ASSUME NEW nth \in Arms \cup {DISARMED}, fault_set(w, nth) PROVE Section(w)
  BY <1>1, <1>7, fault_setFine DEF fault_set, Section, y
<1> QED BY <1>2, <1>3, <1>4, <1>5, <1>6, <1>7

----------------------------------------------------------------------------
(* The steps                                                               *)

LEMMA init_zoneKeeps ==
    ASSUME SInv, NEW w \in Workers, NEW resized, init_zone(w, resized)
    PROVE  /\ SInv'
           /\ DOMAIN segs \subseteq DOMAIN segs' /\ \A s \in DOMAIN segs : segs'[s] = segs[s]
<1>1. /\ at[w] = 0 /\ at' = [at EXCEPT ![w] = Len(segs')] /\ doc' = NoDoc /\ UNCHANGED <<pc, snap>>
      /\ segs' = Append(segs, shctx_init) \/ segs' = segs
  BY DEF init_zone
<1>2. /\ shctx_init \in Segment /\ Fine(shctx_init) /\ segs \in Seq(Segment)
      /\ Len(segs) \in Nat /\ DOMAIN segs = 1 .. Len(segs)
  BY FreshFine DEF Fine, SInv
<1>3. /\ segs' \in Seq(Segment) /\ Len(segs') \in Nat /\ Len(segs') >= Len(segs)
      /\ DOMAIN segs' = 1 .. Len(segs')
      /\ \A s \in DOMAIN segs : segs'[s] = segs[s]
      /\ \A s \in DOMAIN segs' : s \in DOMAIN segs \/ segs'[s] = shctx_init
  <2>1. CASE segs' = Append(segs, shctx_init)
    BY <1>2, <2>1
  <2>2. CASE segs' = segs
    BY <1>2, <2>2
  <2> QED BY <1>1, <2>1, <2>2
<1>4. \A s \in DOMAIN segs' : Fine(segs'[s])
  BY <1>2, <1>3 DEF SInv
<1>5. at' \in [Workers -> 0 .. Len(segs')] /\ Len(segs') >= 1
  <2>1. at \in [Workers -> 0 .. Len(segs)] /\ Len(segs) >= 1
    BY DEF SInv
  <2>2. 0 .. Len(segs) \subseteq 0 .. Len(segs') /\ Len(segs') \in 0 .. Len(segs')
    BY <1>2, <1>3
  <2>3. Len(segs') >= 1
    BY <1>2, <1>3, <2>1
  <2> QED BY <1>1, <2>1, <2>2, <2>3
<1>6. ASSUME NEW v \in Workers, pc'[v] = "rendering" PROVE at'[v] # 0 /\ SnapFine(snap'[v])
  <2>1. at[v] # 0 /\ SnapFine(snap[v])
    BY <1>1, <1>6 DEF SInv
  <2> QED BY <1>1, <2>1 DEF SInv
<1>7. DocFine'
  <2>1. doc' = NoDoc
    BY <1>1
  <2> QED BY <2>1 DEF NoDoc, DocFine, DocumentCloses, ListIsComplete, CountersAgree, Rendered
<1>8. SInv'
  BY <1>1, <1>3, <1>4, <1>5, <1>6, <1>7 DEF SInv
<1>9. DOMAIN segs \subseteq DOMAIN segs'
  BY <1>2, <1>3
<1> QED BY <1>3, <1>8, <1>9

LEMMA FirstPassKeeps ==
    ASSUME SInv, NEW w \in Workers, FirstPass(w) PROVE SInv'
<1>1. UNCHANGED <<segs, at>> /\ at[w] # 0
  BY DEF FirstPass
<1>2. CASE doc' = [state |-> "error"] /\ UNCHANGED <<snap, pc>>
  <2>1. DocFine'
    BY <1>2 DEF DocFine, DocumentCloses, ListIsComplete, CountersAgree, Rendered
  <2> QED BY <1>1, <1>2, <2>1, ReaderKeeps DEF SInv
<1>3. CASE /\ snap' = [snap EXCEPT ![w] = [nodes |-> sh(w).nodes, blocked |-> sh(w).blocked,
                                           bans |-> sh(w).bans, cat_hits |-> sh(w).cat_hits]]
           /\ pc' = [pc EXCEPT ![w] = "rendering"] /\ doc' = NoDoc
  <2> DEFINE p == [nodes |-> sh(w).nodes, blocked |-> sh(w).blocked,
                   bans |-> sh(w).bans, cat_hits |-> sh(w).cat_hits]
  <2>1. DocFine'
    BY <1>3 DEF NoDoc, DocFine, DocumentCloses, ListIsComplete, CountersAgree, Rendered
  <2>2. Fine(sh(w)) /\ sh(w) \in Segment
    BY <1>1, AtIs
  <2>3. SnapFine(p)
    BY <2>2 DEF Fine, Segment, SnapFine
  <2> HIDE DEF p
  <2>4. snap' = [snap EXCEPT ![w] = p]
    BY <1>3 DEF p
  <2>5. \A v \in Workers : pc'[v] = "rendering" => at[v] # 0 /\ SnapFine(snap'[v])
    BY <1>1, <1>3, <2>3, <2>4 DEF SInv
  <2>6. DOMAIN pc' = Workers /\ DOMAIN snap' = Workers
    BY <1>3, <2>4 DEF SInv
  <2> QED BY <1>1, <2>1, <2>5, <2>6, ReaderKeeps
<1> QED BY <1>2, <1>3 DEF FirstPass

(* Pass two fills the buffer that pass one sized. *)
LEMMA SecondPassKeeps ==
    ASSUME SInv, NEW w \in Workers, SecondPass(w) PROVE SInv'
<1>1. /\ UNCHANGED <<segs, at>> /\ pc[w] = "rendering"
      /\ pc' = [pc EXCEPT ![w] = "serving"] /\ snap' = [snap EXCEPT ![w] = NoDoc]
  BY DEF SecondPass
<1>2. at[w] # 0 /\ SnapFine(snap[w])
  BY <1>1 DEF SInv
<1>3. sh(w).banned \in Nat
  BY <1>2, AtIs DEF Segment
<1> DEFINE n == sh(w).banned
           sized == snap[w].nodes
<1>4. PICK entries \in [1 .. n -> Widths] : doc' = Document(w, Walk(Room(sized), entries))
  BY DEF SecondPass
<1> DEFINE r == Walk(Room(sized), entries)
<1>5. sized \in Nat /\ snap[w].blocked <= Total(snap[w].cat_hits)
  BY <1>2 DEF SnapFine
<1>6. Room(sized) \in Nat /\ Room(sized) >= CLOSE
  <2>1. HEAD_ROOM \in Nat /\ ENTRY \in Nat /\ HEAD_ROOM >= CLOSE
    BY StatusAssumption
  <2>2. sized * ENTRY \in Nat
    BY <1>5, <2>1, Product
  <2> QED BY <2>1, <2>2 DEF Room, CLOSE
<1>7. doc' = [state |-> IF r.left >= CLOSE THEN "closed" ELSE "open",
              listed |-> r.listed, banned |-> n, sized |-> sized,
              blocked |-> snap[w].blocked, cat_hits |-> snap[w].cat_hits]
  BY <1>4 DEF Document
<1> HIDE DEF n, sized
<1>8. r.left >= CLOSE
  BY <1>3, <1>6, WalkCloses DEF n
<1>9. n <= sized => r.listed = n
  BY <1>3, <1>5, WalkComplete DEF n
<1> HIDE DEF r
<1>10. /\ doc'.state = "closed" /\ doc'.listed = r.listed /\ doc'.banned = n /\ doc'.sized = sized
       /\ doc'.blocked = snap[w].blocked /\ doc'.cat_hits = snap[w].cat_hits
  BY <1>7, <1>8
<1>11. n > sized \/ n <= sized
  BY <1>3, <1>5 DEF n
<1>12. DocFine'
  BY <1>5, <1>9, <1>10, <1>11 DEF DocFine, DocumentCloses, ListIsComplete, CountersAgree, Rendered
<1>13. \A v \in Workers : pc'[v] = "rendering" => at[v] # 0 /\ SnapFine(snap'[v])
  <2> SUFFICES ASSUME NEW v \in Workers, pc'[v] = "rendering" PROVE at[v] # 0 /\ SnapFine(snap'[v])
    OBVIOUS
  <2>1. v # w
    BY <1>1 DEF SInv
  <2> QED BY <1>1, <2>1 DEF SInv
<1>14. DOMAIN pc' = Workers /\ DOMAIN snap' = Workers
  BY <1>1 DEF SInv
<1> QED BY <1>1, <1>12, <1>13, <1>14, ReaderKeeps

LEMMA ProbeKeeps ==
    ASSUME SInv, NEW w \in Workers, Unavailable(w) \/ zone_render(w) PROVE SInv'
<1>1. UNCHANGED <<segs, at, pc, snap>>
  BY DEF Unavailable, zone_render
<1>2. CASE Unavailable(w)
  <2>1. doc' = [state |-> "unavailable"]
    BY <1>2 DEF Unavailable
  <2>2. DocFine'
    BY <2>1 DEF DocFine, DocumentCloses, ListIsComplete, CountersAgree, Rendered
  <2> QED BY <1>1, <2>2, ReaderKeeps DEF SInv
<1>3. CASE zone_render(w)
  <2> DEFINE z == IF at[w] = 0 THEN shctx_init ELSE sh(w)
  <2>1. Fine(z)
    BY FreshFine, AtIs
  <2>2. doc' = [state |-> "probe", nodes |-> z.nodes, banned |-> z.banned,
                nth |-> z.fault_slab_nth, seen |-> z.fault_slab_seen, allocs |-> z.allocs]
    BY <1>3 DEF zone_render
  <2> HIDE DEF z
  <2>3. doc'.state = "probe" /\ doc'.seen = doc'.allocs
    BY <2>1, <2>2 DEF Fine
  <2>4. DocFine'
    BY <2>3 DEF DocFine, DocumentCloses, ListIsComplete, CountersAgree, Rendered
  <2> QED BY <1>1, <2>4, ReaderKeeps DEF SInv
<1> QED BY <1>2, <1>3

(* What a step is. *)
LEMMA StepIs ==
    ASSUME SInv, [Next]_vars
    PROVE  \/ \E w \in Workers : \/ \E resized \in Resizes : init_zone(w, resized)
                                 \/ Section(w)
                                 \/ Unavailable(w) \/ FirstPass(w) \/ SecondPass(w) \/ zone_render(w)
           \/ UNCHANGED vars
<1>1. ASSUME NEW w \in Workers,
             \/ Insert(w) \/ ArmBan(w) \/ EndBan(w) \/ Evict(w)
             \/ \E c \in Categories, blocked \in 0 .. 1 : count_hit(w, c, blocked)
             \/ \E nth \in Arms \cup {DISARMED} : fault_set(w, nth)
      PROVE  Section(w)
  <2>1. at[w] # 0
    BY <1>1 DEF Insert, ArmBan, EndBan, Evict, count_hit, fault_set
  <2> QED BY <1>1, <2>1, Sections
<1>2. Readers \subseteq Workers
  BY StatusAssumption
<1> QED BY <1>1, <1>2 DEF Next

LEMMA SNext == SInv /\ [Next]_vars => SInv'
<1> SUFFICES ASSUME SInv, [Next]_vars PROVE SInv'
  OBVIOUS
<1>1. ASSUME NEW w \in Workers, Section(w) PROVE SInv'
  BY <1>1, LockedKeeps DEF Section
<1>2. CASE UNCHANGED vars
  <2>1. UNCHANGED <<segs, at, pc, snap, doc>>
    BY <1>2 DEF vars
  <2>2. DocFine'
    BY <2>1 DEF SInv, DocFine, DocumentCloses, ListIsComplete, CountersAgree, Rendered
  <2> QED BY <2>1, <2>2, ReaderKeeps DEF SInv
<1> QED BY <1>1, <1>2, StepIs, init_zoneKeeps, FirstPassKeeps, SecondPassKeeps, ProbeKeeps

LEMMA SAlways == Spec => []SInv
  BY SInit, SNext, PTL DEF Spec

----------------------------------------------------------------------------
(* The properties                                                          *)

(* The status document always has its closing brackets, however the zone   *)
(* grew between the two locks (ngx_http_shield_ban_status_handler).        *)
THEOREM DocumentClosed == Spec => []DocumentCloses
<1>1. SInv => DocumentCloses
  BY DEF SInv, DocFine
<1> QED BY <1>1, SAlways, PTL

(* Every banned address is listed, unless there are more of them at the    *)
(* second lock than there were nodes at the first.                         *)
THEOREM ListComplete == Spec => []ListIsComplete
<1>1. SInv => ListIsComplete
  BY DEF SInv, DocFine
<1> QED BY <1>1, SAlways, PTL

(* A document never shows more blocked requests than hits: its counters    *)
(* are of one moment.                                                      *)
THEOREM CountersOfOneMoment == Spec => []CountersAgree
<1>1. SInv => CountersAgree
  BY DEF SInv, DocFine
<1> QED BY <1>1, SAlways, PTL

(* An armed fault fails the nth allocation of the zone and no other        *)
(* (ngx_shield_probe_hooks.c).                                             *)
THEOREM NthFailsOnly == Spec => []NthFails
<1>1. SInv => NthFails
  BY DEF SInv, DocFine, Fine, NthFails
<1> QED BY <1>1, SAlways, PTL

(* No counter of a zone goes back, and a reload keeps them                 *)
(* (ngx_http_shield_ban_init_zone, ngx_http_shield_count_hit).             *)
THEOREM CountersOnlyGrow == Spec => CountersGrow
<1>1. SInv /\ [Next]_vars =>
        [\A s \in DOMAIN segs :
           /\ segs'[s].blocked >= segs[s].blocked /\ segs'[s].bans >= segs[s].bans
           /\ \A c \in Categories : segs'[s].cat_hits[c] >= segs[s].cat_hits[c]]_vars
  <2> SUFFICES ASSUME SInv, [Next]_vars PROVE \A s \in DOMAIN segs : Grows(segs'[s], segs[s])
    BY DEF Grows
  <2>1. \A s \in DOMAIN segs : segs[s] \in Segment
    BY DEF SInv, Fine
  <2>2. ASSUME \A s \in DOMAIN segs : segs'[s] = segs[s]
        PROVE  \A s \in DOMAIN segs : Grows(segs'[s], segs[s])
    BY <2>1, <2>2, Same
  <2>3. ASSUME NEW w \in Workers, Section(w) PROVE \A s \in DOMAIN segs : Grows(segs'[s], segs[s])
    <3>1. PICK z : Locked(w, z) /\ Fine(z) /\ Grows(z, sh(w))
      BY <2>3 DEF Section
    <3>2. segs' = [segs EXCEPT ![at[w]] = z] /\ at[w] \in DOMAIN segs
      BY <3>1, AtIs DEF Locked
    <3> SUFFICES ASSUME NEW s \in DOMAIN segs PROVE Grows(segs'[s], segs[s])
      OBVIOUS
    <3>3. CASE s = at[w]
      <4>1. segs'[s] = z /\ segs[s] = sh(w)
        BY <3>2, <3>3 DEF sh
      <4> QED BY <3>1, <4>1
    <3>4. CASE s # at[w]
      <4>1. segs'[s] = segs[s]
        BY <3>2, <3>4
      <4> QED BY <2>1, <4>1, Same
    <3> QED BY <3>3, <3>4
  <2>4. CASE segs' = segs
    BY <2>2, <2>4
  <2>5. ASSUME NEW w \in Workers, NEW resized, init_zone(w, resized)
        PROVE  \A s \in DOMAIN segs : Grows(segs'[s], segs[s])
    BY <2>2, <2>5, init_zoneKeeps
  <2>6. \A w : Unavailable(w) \/ FirstPass(w) \/ SecondPass(w) \/ zone_render(w) => segs' = segs
    BY DEF Unavailable, FirstPass, SecondPass, zone_render
  <2>7. UNCHANGED vars => segs' = segs
    BY DEF vars
  <2> QED BY <2>3, <2>4, <2>5, <2>6, <2>7, StepIs
<1> QED BY <1>1, SAlways, PTL DEF Spec, CountersGrow
=============================================================================
