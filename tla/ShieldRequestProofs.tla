------------------------ MODULE ShieldRequestProofs ------------------------
(***************************************************************************)
(* Proofs about ShieldRequest: the scans of a request find exactly its     *)
(* attacks, the inductive invariant of the handler with the safety         *)
(* properties that follow, and the refinement of ShieldPolicy.             *)
(***************************************************************************)
EXTENDS ShieldRequest, InductionLemmas, SequenceTheorems

----------------------------------------------------------------------------
(* The tables                                                              *)

(* Every AND-rule reports a category that has a table, and has two terms. *)
LEMMA RulesTyped ==
    /\ DOMAIN rules = 1 .. 6
    /\ \A i \in DOMAIN rules : /\ rules[i].cat \in TableCats
                               /\ DOMAIN rules[i].terms = 1 .. 2
<1>1. DOMAIN rules = 1 .. 6
  BY DEF rules
<1>2. {"exploit_path", "deserial", "ssrf_meta"} \subseteq TableCats
  BY DEF TableCats, categories, Row
<1>3. ASSUME NEW i \in 1 .. 6
      PROVE  /\ rules[i].cat \in {"exploit_path", "deserial", "ssrf_meta"}
             /\ DOMAIN rules[i].terms = 1 .. 2
  <2>1. CASE i = 1 BY <2>1 DEF rules
  <2>2. CASE i = 2 BY <2>2 DEF rules
  <2>3. CASE i = 3 BY <2>3 DEF rules
  <2>4. CASE i = 4
    <3>1. \E s, t : rules[4].terms = <<s, t>>
      BY DEF rules
    <3>2. rules[4].cat = "exploit_path"
      BY DEF rules
    <3> QED BY <2>4, <3>1, <3>2
  <2>5. CASE i = 5 BY <2>5 DEF rules
  <2>6. CASE i = 6 BY <2>6 DEF rules
  <2> QED BY <2>1, <2>2, <2>3, <2>4, <2>5, <2>6
<1> QED BY <1>1, <1>2, <1>3

LEMMA StructuralApart == Structural \cap TableCats = {}
  BY DEF Structural, TableCats, categories, Row

(* A mask holds the categories that stay silent in its position. *)
LEMMA Masks ==
    \A c : /\ c \in no_query_mask <=> Silent(c, "query")
           /\ c \in no_body_mask <=> Silent(c, "body")
  BY DEF no_query_mask, no_body_mask, Silent

LEMMA MasksTyped == no_query_mask \subseteq Cats /\ no_body_mask \subseteq Cats
  BY DEF no_query_mask, no_body_mask, Cats, TableCats

(* A scan reports what its buffer shows and its mask leaves. *)
LEMMA ScanShows ==
    ASSUME NEW tokens, NEW skip
    PROVE  scan_input(Buffer(tokens, skip)) = Shown(tokens) \ skip
<1>1. \A i \in DOMAIN rules : ToSet(rules[i].terms) \subseteq tokens
                                <=> \A n \in DOMAIN rules[i].terms : rules[i].terms[n] \in tokens
  BY DEF ToSet
<1>2. {k \in DOMAIN rules : ToSet(rules[k].terms) \subseteq tokens}
        = {k \in DOMAIN rules : \A n \in DOMAIN rules[k].terms : rules[k].terms[n] \in tokens}
  BY <1>1
<1> QED BY <1>2 DEF scan_input, Buffer, Shown

LEMMA ShownTyped ==
    ASSUME NEW tokens PROVE Shown(tokens) \subseteq TableCats
  BY RulesTyped DEF Shown

LEMMA ShownGrows ==
    ASSUME NEW S, NEW T, S \subseteq T PROVE Shown(S) \subseteq Shown(T)
  BY DEF Shown

LEMMA NothingShown == Shown({}) = {}
  BY RulesTyped DEF Shown

----------------------------------------------------------------------------
(* The scans before the body                                               *)

InTarget(q, c) ==
    \/ c \in Shown(q.path)
    \/ c \in Shown(q.path \cup q.query \cup q.across) /\ ~ Silent(c, "query")

InHeaders(q, c) ==
    \E i \in DOMAIN q.headers :
       /\ ~ q.headers[i].gone
       /\ c \in Shown(q.headers[i].has) /\ InHeader(c, q.headers[i].name)

Scan == [tokens : SUBSET Tokens, skip : SUBSET Cats]

(* Some scan of a sequence reports category c. *)
Reports(scans, c) == \E i \in DOMAIN scans : c \in scan_input(scans[i])

(* A sequence of scans ends with a hit exactly when one of them reports,   *)
(* and reports nothing that none of them does.                             *)
LEMMA FirstHitReports ==
    ASSUME NEW scans \in Seq(Scan)
    PROVE  /\ \A c \in FirstHit(scans) : Reports(scans, c)
           /\ FirstHit(scans) = {} => \A c : ~ Reports(scans, c)
<1> DEFINE hits == {i \in DOMAIN scans : scan_input(scans[i]) # {}}
<1>0. hits = {i \in DOMAIN scans : [j \in DOMAIN scans |-> scan_input(scans[j])][i] # {}}
  OBVIOUS
<1>1. hits \subseteq Nat
  BY LenProperties
<1>2. CASE hits = {}
  BY <1>0, <1>2 DEF FirstHit, Reports
<1>3. CASE hits # {}
  <2>1. PICK m \in hits : \A k \in hits : m <= k
    BY <1>1, <1>3, LeastNatural
  <2>2. Min(hits) \in hits
    BY <2>1 DEF Min
  <2>3. FirstHit(scans) = scan_input(scans[Min(hits)])
    BY <1>0, <1>3, <2>2 DEF FirstHit
  <2> QED BY <2>2, <2>3 DEF Reports
<1> QED BY <1>2, <1>3

LEMMA UriScansReport ==
    ASSUME NEW q \in Request, NEW skip \in SUBSET Cats
    PROVE  /\ UriScans(q, skip) \in Seq(Scan)
           /\ \A c : Reports(UriScans(q, skip), c) <=> c \notin skip /\ InTarget(q, c)
<1> DEFINE all == q.path \cup q.query \cup q.across
           one == Buffer(all, skip \cup no_query_mask)
           two == Buffer(q.path, skip \cup (Cats \ no_query_mask))
<1>1. q.path \subseteq Tokens /\ all \subseteq Tokens
  BY DEF Request
<1>2. one \in Scan /\ two \in Scan
  BY <1>1, MasksTyped DEF Scan, Buffer
<1>3. scan_input(one) = Shown(all) \ (skip \cup no_query_mask)
  BY ScanShows
<1>4. scan_input(two) = Shown(q.path) \ (skip \cup (Cats \ no_query_mask))
  BY ScanShows
<1>5. Shown(q.path) \subseteq Shown(all) /\ Shown(q.path) \subseteq Cats
  BY ShownGrows, ShownTyped DEF Cats
<1>6. \A c : c \in no_query_mask <=> Silent(c, "query")
  BY Masks
<1> HIDE DEF one, two
<1>7. CASE no_query_mask \subseteq skip
  <2>1. UriScans(q, skip) = <<one>>
    BY <1>7 DEF UriScans, one
  <2>2. \A c : Reports(UriScans(q, skip), c) <=> c \in scan_input(one)
    BY <2>1 DEF Reports
  <2> QED BY <2>1, <2>2, <1>2, <1>3, <1>5, <1>6, <1>7 DEF InTarget
<1>8. CASE ~ (no_query_mask \subseteq skip)
  <2>1. UriScans(q, skip) = <<one>> \o <<two>>
    BY <1>8 DEF UriScans, one, two
  <2>2. /\ UriScans(q, skip) \in Seq(Scan) /\ DOMAIN UriScans(q, skip) = 1 .. 2
        /\ UriScans(q, skip)[1] = one /\ UriScans(q, skip)[2] = two
    BY <2>1, <1>2
  <2>3. \A c : Reports(UriScans(q, skip), c) <=> c \in scan_input(one) \cup scan_input(two)
    BY <2>2 DEF Reports
  <2>4. \A c : c \in scan_input(one) \cup scan_input(two) <=> c \notin skip /\ InTarget(q, c)
    BY <1>3, <1>4, <1>5, <1>6 DEF InTarget
  <2> QED BY <2>2, <2>3, <2>4
<1> QED BY <1>7, <1>8

(* The mask of a header leaves the categories that are looked for in it. *)
LEMMA HeaderMask ==
    ASSUME NEW name \in STRING, NEW skip \in SUBSET Cats, NEW c \in TableCats
    PROVE  c \notin HeaderSkip(name, skip) <=> c \notin skip /\ InHeader(c, name)
<1>1. c \in Cats
  BY DEF Cats
<1> QED
  BY <1>1 DEF HeaderSkip, InHeader, FullTable, Everywhere, InContentType, InCookie,
              generic_allowed

LEMMA HeaderScansReport ==
    ASSUME NEW q \in Request, NEW skip \in SUBSET Cats
    PROVE  /\ HeaderScans(q, skip) \in Seq(Scan)
           /\ \A c : Reports(HeaderScans(q, skip), c) <=> c \notin skip /\ InHeaders(q, c)
<1>1. q.headers \in Seq(Header)
  BY DEF Request
<1>2. PICK n \in Nat : DOMAIN q.headers = 1 .. n
  BY <1>1, LenProperties
<1>3. ASSUME NEW i \in DOMAIN q.headers
      PROVE  /\ q.headers[i] \in Header
             /\ HeaderScans(q, skip)[i] \in Scan
             /\ \A c : c \in scan_input(HeaderScans(q, skip)[i])
                        <=> /\ ~ q.headers[i].gone /\ c \in Shown(q.headers[i].has)
                            /\ c \notin skip /\ InHeader(c, q.headers[i].name)
  <2> DEFINE h == q.headers[i]
  <2>1. h \in Header
    BY <1>1, <1>3, ElementOfSeq, LenProperties
  <2> HIDE DEF h
  <2>2. HeaderScans(q, skip)[i] = Buffer(Value(h), HeaderSkip(h.name, skip))
    BY DEF HeaderScans, h
  <2>3. Value(h) \subseteq Tokens /\ HeaderSkip(h.name, skip) \subseteq Cats
    BY <2>1 DEF Header, Value, HeaderSkip
  <2>4. HeaderScans(q, skip)[i] \in Scan
    BY <2>2, <2>3 DEF Scan, Buffer
  <2>5. scan_input(HeaderScans(q, skip)[i]) = Shown(Value(h)) \ HeaderSkip(h.name, skip)
    BY <2>2, ScanShows
  <2>6. Shown(Value(h)) = IF h.gone THEN {} ELSE Shown(h.has)
    BY NothingShown DEF Value
  <2>7. \A c \in Shown(h.has) : c \in TableCats
    BY ShownTyped
  <2>8. h.name \in STRING /\ h.gone \in BOOLEAN
    BY <2>1 DEF Header
  <2>9. \A c : c \in scan_input(HeaderScans(q, skip)[i])
               <=> ~ h.gone /\ c \in Shown(h.has) /\ c \notin skip /\ InHeader(c, h.name)
    BY <2>5, <2>6, <2>7, <2>8, HeaderMask
  <2> QED BY <2>1, <2>4, <2>9 DEF h
<1>4. DOMAIN HeaderScans(q, skip) = 1 .. n
  BY <1>2 DEF HeaderScans
<1>5. HeaderScans(q, skip) \in [1 .. n -> Scan]
  BY <1>2, <1>3, <1>4 DEF HeaderScans
<1>6. HeaderScans(q, skip) \in Seq(Scan)
  BY <1>5, SeqDef
<1>7. \A c : Reports(HeaderScans(q, skip), c) <=> c \notin skip /\ InHeaders(q, c)
  BY <1>2, <1>3, <1>4 DEF Reports, InHeaders
<1> QED BY <1>6, <1>7

(* The scans before the body report the target's and the headers' attacks. *)
LEMMA PrebodyReports ==
    ASSUME NEW q \in Request, NEW skip \in SUBSET Cats
    PROVE  LET found == FirstHit(PrebodyScans(q, skip))
           IN  /\ \A c \in found : c \in Cats /\ c \notin skip /\ (InTarget(q, c) \/ InHeaders(q, c))
               /\ found = {} => \A c : InTarget(q, c) \/ InHeaders(q, c) => c \in skip
<1> DEFINE u == UriScans(q, skip)
           h == HeaderScans(q, skip)
           scans == PrebodyScans(q, skip)
<1>1. u \in Seq(Scan) /\ h \in Seq(Scan)
  BY UriScansReport, HeaderScansReport
<1>2. scans = u \o h
  BY DEF PrebodyScans
<1>u. \A c : Reports(u, c) <=> c \notin skip /\ InTarget(q, c)
  BY UriScansReport
<1>h. \A c : Reports(h, c) <=> c \notin skip /\ InHeaders(q, c)
  BY HeaderScansReport
<1> HIDE DEF u, h, scans
<1>3. /\ scans \in Seq(Scan)
      /\ Len(scans) = Len(u) + Len(h)
      /\ \A i \in 1 .. Len(u) + Len(h) : scans[i] = IF i <= Len(u) THEN u[i] ELSE h[i - Len(u)]
  BY <1>1, <1>2, ConcatProperties
<1>4. /\ Len(u) \in Nat /\ DOMAIN u = 1 .. Len(u)
      /\ Len(h) \in Nat /\ DOMAIN h = 1 .. Len(h)
      /\ DOMAIN scans = 1 .. Len(u) + Len(h)
  BY <1>1, <1>3, LenProperties
<1>5. \A c : Reports(scans, c) <=> Reports(u, c) \/ Reports(h, c)
  <2>1. ASSUME NEW c, Reports(scans, c) PROVE Reports(u, c) \/ Reports(h, c)
    <3>1. PICK i \in 1 .. Len(u) + Len(h) : c \in scan_input(scans[i])
      BY <1>4, <2>1 DEF Reports
    <3>2. CASE i <= Len(u)
      <4>1. i \in 1 .. Len(u) /\ scans[i] = u[i]
        BY <1>3, <1>4, <3>2
      <4> QED BY <1>4, <3>1, <4>1 DEF Reports
    <3>3. CASE ~ (i <= Len(u))
      <4>1. i - Len(u) \in 1 .. Len(h) /\ scans[i] = h[i - Len(u)]
        BY <1>3, <1>4, <3>3
      <4> QED BY <1>4, <3>1, <4>1 DEF Reports
    <3> QED BY <3>2, <3>3
  <2>2. ASSUME NEW c, Reports(u, c) PROVE Reports(scans, c)
    <3>1. PICK i \in 1 .. Len(u) : c \in scan_input(u[i])
      BY <1>4, <2>2 DEF Reports
    <3>2. i \in 1 .. Len(u) + Len(h) /\ i <= Len(u)
      BY <1>4
    <3>3. scans[i] = u[i]
      BY <1>3, <3>2
    <3> QED BY <1>4, <3>1, <3>2, <3>3 DEF Reports
  <2>3. ASSUME NEW c, Reports(h, c) PROVE Reports(scans, c)
    <3>1. PICK i \in 1 .. Len(h) : c \in scan_input(h[i])
      BY <1>4, <2>3 DEF Reports
    <3> DEFINE k == i + Len(u)
    <3>2. k \in 1 .. Len(u) + Len(h) /\ ~ (k <= Len(u)) /\ k - Len(u) = i
      BY <1>4
    <3> HIDE DEF k
    <3>3. scans[k] = h[i]
      BY <1>3, <3>2
    <3> QED BY <1>4, <3>1, <3>2, <3>3 DEF Reports
  <2> QED BY <2>1, <2>2, <2>3
<1>6. /\ \A c \in FirstHit(scans) : Reports(scans, c)
      /\ FirstHit(scans) = {} => \A c : ~ Reports(scans, c)
  BY <1>3, FirstHitReports
<1>7. \A c : InTarget(q, c) \/ InHeaders(q, c) => c \in Cats
  BY ShownTyped DEF InTarget, InHeaders, Cats
<1> QED BY <1>5, <1>6, <1>7, <1>u, <1>h DEF scans

----------------------------------------------------------------------------
(* The structural checks                                                   *)

InShape(q, c) ==
    \/ c \in q.uri
    \/ c = "httpoxy" /\ \E i \in DOMAIN q.headers : q.headers[i].name = "Proxy"
    \/ c = "range_dos" /\ q.ranges > MAX_RANGES

(* The structural checks hit on what is wrong with the request's shape. *)
LEMMA StructuralReports ==
    ASSUME NEW q \in Request, NEW skip \in SUBSET Cats
    PROVE  LET hits == StructuralHits(q, skip)
               c == StructuralOrder[Min(hits)]
           IN  /\ hits # {} => c \in Cats /\ c \notin skip /\ InShape(q, c)
               /\ hits = {} => \A d : InShape(q, d) => d \in skip
<1> DEFINE hits == StructuralHits(q, skip)
<1>1. /\ DOMAIN StructuralOrder = 1 .. 4
      /\ StructuralOrder[1] = "httpoxy" /\ StructuralOrder[2] = "range_dos"
      /\ StructuralOrder[3] = "ctrl_char" /\ StructuralOrder[4] = "dotfile"
  BY DEF StructuralOrder
<1>2. \A i \in 1 .. 4 : i \in hits <=> StructuralOrder[i] \notin skip /\ InShape(q, StructuralOrder[i])
  <2> SUFFICES ASSUME NEW i \in 1 .. 4
               PROVE  i \in hits <=> StructuralOrder[i] \notin skip /\ InShape(q, StructuralOrder[i])
    OBVIOUS
  <2>0. q.uri \subseteq {"ctrl_char", "dotfile"}
    BY DEF Request
  <2> USE DEF StructuralHits, InShape, check_httpoxy, check_range, check_ctrl_char, check_dotfile
  <2>1. CASE i = 1 BY <1>1, <2>0, <2>1
  <2>2. CASE i = 2 BY <1>1, <2>0, <2>2
  <2>3. CASE i = 3 BY <1>1, <2>0, <2>3
  <2>4. CASE i = 4 BY <1>1, <2>0, <2>4
  <2> QED BY <2>1, <2>2, <2>3, <2>4
<1>3. hits \subseteq 1 .. 4
  BY <1>1 DEF StructuralHits
<1>4. \A i \in 1 .. 4 : StructuralOrder[i] \in Cats
  BY <1>1 DEF Cats, Structural
<1>5. \A d : InShape(q, d) => d \in {"httpoxy", "range_dos", "ctrl_char", "dotfile"}
  BY DEF InShape, Request
<1> HIDE DEF hits
<1>6. ASSUME hits = {} PROVE \A d : InShape(q, d) => d \in skip
  BY <1>1, <1>2, <1>5, <1>6
<1>7. ASSUME hits # {} PROVE Min(hits) \in hits
  <2>1. hits \subseteq Nat
    BY <1>3
  <2>2. PICK m \in hits : \A k \in hits : m <= k
    BY <1>7, <2>1, LeastNatural
  <2> QED BY <2>2 DEF Min
<1> QED BY <1>2, <1>3, <1>4, <1>6, <1>7 DEF hits

----------------------------------------------------------------------------
(* The body                                                                *)

Buf == [file : BOOLEAN, data : Seq(SUBSET Tokens)]

(* The blocks before buffer a + 1 are those before buffer a and its own. *)
LEMMA BeforeSteps ==
    ASSUME NEW body \in Seq(Buf)
    PROVE  /\ Before(body, 1) = 0
           /\ \A a \in 1 .. Len(body) :
                 /\ Before(body, a) \in Nat
                 /\ Before(body, a + 1) = Before(body, a) + Len(body[a].data)
<1> DEFINE n == Len(body)
           T(a) == UNION {{i} \X DOMAIN body[i].data : i \in 1 .. a - 1}
           S == {m \in Nat : m <= n => /\ IsFiniteSet(T(m + 1))
                                       /\ \A i \in 1 .. m : Before(body, i + 1) = Before(body, i) + Len(body[i].data)}
<1>1. n \in Nat /\ \A i \in 1 .. n : body[i] \in Buf
  BY LenProperties, ElementOfSeq
<1>2. \A i \in 1 .. n : /\ body[i].data \in Seq(SUBSET Tokens)
                        /\ Len(body[i].data) \in Nat
                        /\ DOMAIN body[i].data = 1 .. Len(body[i].data)
  BY <1>1, LenProperties DEF Buf
<1>3. \A a : Before(body, a) = Cardinality(T(a))
  BY DEF Before
<1>4. T(0 + 1) = {} /\ T(1) = {}
  OBVIOUS
<1> HIDE DEF n, T
<1>5. 0 \in S
  <2>1. IsFiniteSet({})
    BY FS_EmptySet
  <2>2. IsFiniteSet(T(0 + 1))
    BY <1>4, <2>1
  <2> QED BY <2>2
<1>6. ASSUME NEW m \in Nat, m \in S PROVE m + 1 \in S
  <2> SUFFICES ASSUME m + 1 <= n
               PROVE  /\ IsFiniteSet(T((m + 1) + 1))
                      /\ \A i \in 1 .. m + 1 : Before(body, i + 1) = Before(body, i) + Len(body[i].data)
    OBVIOUS
  <2> DEFINE k == m + 1
             D == {k} \X DOMAIN body[k].data
             L == Len(body[k].data)
  <2>1. k \in 1 .. n /\ m <= n
    BY <1>1
  <2>2. /\ IsFiniteSet(T(m + 1))
        /\ \A i \in 1 .. m : Before(body, i + 1) = Before(body, i) + Len(body[i].data)
    BY <1>6, <2>1
  <2>3. T(k + 1) = T(k) \cup D
    <3>1. 1 .. (k + 1) - 1 = (1 .. k - 1) \cup {k}
      BY <2>1
    <3> QED BY <3>1 DEF T
  <2>4. T(k) \cap D = {}
    <3>1. k \notin 1 .. k - 1
      BY <2>1
    <3> QED BY <3>1 DEF T
  <2>5. IsFiniteSet(D) /\ Cardinality(D) = L
    <3>1. L \in Nat /\ DOMAIN body[k].data = 1 .. L
      BY <1>2, <2>1
    <3> HIDE DEF L
    <3>2. IsFiniteSet(1 .. L) /\ Cardinality(1 .. L) = L
      <4>1. 1 \in Int /\ L \in Int /\ (1 > L => L = 0) /\ (~ (1 > L) => (L - 1) + 1 = L)
        BY <3>1
      <4> QED BY <4>1, FS_Interval
    <3>3. IsFiniteSet({k}) /\ Cardinality({k}) = 1
      BY FS_Singleton
    <3>4. IsFiniteSet({k} \X (1 .. L)) /\ Cardinality({k} \X (1 .. L)) = 1 * L
      <4> DEFINE A == {k}
                 B == 1 .. L
      <4> HIDE DEF A, B
      <4>1. IsFiniteSet(A \X B) /\ Cardinality(A \X B) = Cardinality(A) * Cardinality(B)
        BY <3>2, <3>3, FS_Product DEF A, B
      <4> QED BY <3>2, <3>3, <4>1 DEF A, B
    <3> QED BY <3>1, <3>4
  <2>6. L \in Nat
    BY <1>2, <2>1
  <2>7. IsFiniteSet(T(k)) /\ Cardinality(T(k)) \in Nat
    BY <2>2, FS_CardinalityType
  <2>8. /\ IsFiniteSet(T(k + 1))
        /\ Cardinality(T(k + 1)) = Cardinality(T(k)) + L
    <3> DEFINE A == T(k)
    <3> HIDE DEF A, D, L, k
    <3>1. /\ IsFiniteSet(A \cup D)
          /\ Cardinality(A \cup D) = Cardinality(A) + Cardinality(D) - Cardinality(A \cap D)
      BY <2>5, <2>7, FS_Union DEF A
    <3>2. Cardinality(A \cap D) = 0
      BY <2>4, FS_EmptySet DEF A
    <3>3. Cardinality(A) + Cardinality(D) - Cardinality(A \cap D) = Cardinality(A) + L
      BY <2>5, <2>6, <2>7, <3>2 DEF A
    <3> QED BY <2>3, <3>1, <3>3 DEF A
  <2>9. Before(body, k + 1) = Before(body, k) + L
    BY <1>3, <2>8
  <2>10. \A i \in 1 .. m + 1 : i \in 1 .. m \/ i = k
    OBVIOUS
  <2> QED BY <2>2, <2>8, <2>9, <2>10
<1>7. Nat \subseteq S
  <2> HIDE DEF S
  <2> QED BY <1>5, <1>6, SetInduction
<1>8. Before(body, 1) = 0
  BY <1>3, <1>4, FS_EmptySet
<1>9. \A a \in 1 .. n : Before(body, a) \in Nat
  <2> SUFFICES ASSUME NEW a \in 1 .. n PROVE Before(body, a) \in Nat
    OBVIOUS
  <2>1. a - 1 \in Nat /\ a - 1 <= n /\ (a - 1) + 1 = a
    BY <1>1
  <2>2. IsFiniteSet(T(a))
    <3>1. IsFiniteSet(T((a - 1) + 1))
      BY <1>7, <2>1
    <3> QED BY <2>1, <3>1
  <2> QED BY <1>3, <2>2, FS_CardinalityType
<1>10. \A i \in 1 .. n : Before(body, i + 1) = Before(body, i) + Len(body[i].data)
  <2>1. n \in S
    BY <1>1, <1>7
  <2> QED BY <1>1, <2>1
<1> QED BY <1>8, <1>9, <1>10 DEF n

(* The blocks of the first m buffers of a body lie in g, one after another. *)
Laid(body, m, g) ==
    /\ Len(g) = Before(body, m + 1)
    /\ \A i \in 1 .. m : \A j \in 1 .. Len(body[i].data) :
          /\ Before(body, i) + j \in 1 .. Len(g)
          /\ g[Before(body, i) + j] = body[i].data[j]
    /\ \A k \in 1 .. Len(g) :
          \E i \in 1 .. m : \E j \in 1 .. Len(body[i].data) : k = Before(body, i) + j

(* One buffer more. *)
LEMMA LaidStep ==
    ASSUME NEW body \in Seq(Buf), NEW m \in Nat, m + 1 <= Len(body),
           NEW g \in Seq(SUBSET Tokens), Laid(body, m, g)
    PROVE  Laid(body, m + 1, g \o body[m + 1].data)
<1> DEFINE a == m + 1
           d == body[a].data
           h == g \o d
<1>1. a \in 1 .. Len(body) /\ Len(body) \in Nat
  BY LenProperties
<1>2. d \in Seq(SUBSET Tokens)
  <2>1. body[a] \in Buf
    BY <1>1, ElementOfSeq
  <2> QED BY <2>1 DEF Buf
<1> HIDE DEF d, h
<1>3. Len(g) \in Nat /\ Len(d) \in Nat
  BY <1>2, LenProperties
<1>4. /\ h \in Seq(SUBSET Tokens)
      /\ Len(h) = Len(g) + Len(d)
      /\ \A i \in 1 .. Len(g) + Len(d) : h[i] = IF i <= Len(g) THEN g[i] ELSE d[i - Len(g)]
  BY <1>2, ConcatProperties DEF h
<1>5. Len(g) = Before(body, a) /\ Before(body, a + 1) = Before(body, a) + Len(d)
  BY <1>1, BeforeSteps DEF Laid, d
<1>6. ASSUME NEW i \in 1 .. a, NEW j \in 1 .. Len(body[i].data)
      PROVE  /\ Before(body, i) + j \in 1 .. Len(h)
             /\ h[Before(body, i) + j] = body[i].data[j]
  <2>1. CASE i = a
    <3>1. j \in 1 .. Len(d) /\ Before(body, i) + j = Len(g) + j
      BY <1>5, <1>6, <2>1 DEF d
    <3>2. /\ Len(g) + j \in 1 .. Len(g) + Len(d) /\ ~ (Len(g) + j <= Len(g))
          /\ (Len(g) + j) - Len(g) = j
      BY <1>3, <3>1
    <3>3. h[Len(g) + j] = d[j]
      BY <1>4, <3>2
    <3> QED BY <1>4, <2>1, <3>1, <3>2, <3>3 DEF d
  <2>2. CASE i # a
    <3>1. i \in 1 .. m
      BY <1>1, <2>2
    <3> DEFINE k == Before(body, i) + j
    <3>2. k \in 1 .. Len(g) /\ g[k] = body[i].data[j]
      BY <1>6, <3>1 DEF Laid
    <3> HIDE DEF k
    <3>3. k \in 1 .. Len(g) + Len(d) /\ k <= Len(g)
      BY <1>3, <3>2
    <3>4. h[k] = g[k]
      BY <1>4, <3>3
    <3> QED BY <1>4, <3>2, <3>3, <3>4 DEF k
  <2> QED BY <2>1, <2>2
<1>7. ASSUME NEW k \in 1 .. Len(h)
      PROVE  \E i \in 1 .. a : \E j \in 1 .. Len(body[i].data) : k = Before(body, i) + j
  <2>1. CASE k <= Len(g)
    <3>1. k \in 1 .. Len(g)
      BY <1>3, <1>4, <2>1
    <3>2. PICK i \in 1 .. m : \E j \in 1 .. Len(body[i].data) : k = Before(body, i) + j
      BY <3>1 DEF Laid
    <3>3. i \in 1 .. a
      BY <1>1
    <3> QED BY <3>2, <3>3
  <2>2. CASE ~ (k <= Len(g))
    <3> DEFINE j == k - Len(g)
    <3>1. j \in 1 .. Len(d) /\ k = Len(g) + j /\ a \in 1 .. a
      BY <1>1, <1>3, <1>4, <2>2
    <3> HIDE DEF j
    <3>2. j \in 1 .. Len(body[a].data) /\ k = Before(body, a) + j
      BY <1>5, <3>1 DEF d
    <3> HIDE DEF a
    <3> QED BY <3>1, <3>2
  <2> QED BY <2>1, <2>2
<1>8. Len(h) = Before(body, a + 1)
  BY <1>4, <1>5
<1>9. Laid(body, a, h)
  <2> HIDE DEF a
  <2> QED BY <1>6, <1>7, <1>8 DEF Laid
<1> QED BY <1>9 DEF h, d

(* Block j of buffer i is block Before(i) + j of the body. *)
LEMMA Positions ==
    ASSUME NEW body \in Seq(Buf)
    PROVE  Blocks(body) \in Seq(SUBSET Tokens) /\ Laid(body, Len(body), Blocks(body))
<1> DEFINE n == Len(body)
           V == SUBSET Tokens
           seqs == [i \in DOMAIN body |-> body[i].data]
<1>1. n \in Nat /\ DOMAIN body = 1 .. n /\ \A i \in 1 .. n : body[i] \in Buf
  BY LenProperties, ElementOfSeq
<1>2. seqs \in [1 .. n -> Seq(V)]
  BY <1>1 DEF Buf
<1>3. Blocks(body) = FlattenSeq(seqs)
  BY DEF Blocks
<1>4. \A i \in 1 .. n : seqs[i] = body[i].data
  BY <1>1
<1> HIDE DEF n, V, seqs
<1>5. seqs \in Seq(Seq(V)) /\ Len(seqs) = n
  <2>1. seqs \in Seq(Seq(V))
    BY <1>1, <1>2, SeqDef
  <2>2. DOMAIN seqs = 1 .. n
    BY <1>2
  <2> QED BY <1>1, <2>1, <2>2, LenIs
<1>6. PICK f \in [0 .. n -> Seq(V)] :
         /\ f[0] = <<>>
         /\ \A i \in 1 .. n : f[i] = f[i - 1] \o seqs[i]
         /\ FlattenSeq(seqs) = f[n]
  BY <1>5, FlattenSteps
<1> DEFINE S == {m \in Nat : m <= n => Laid(body, m, f[m])}
<1>7. 0 \in S
  <2>1. Before(body, 0 + 1) = 0
    BY BeforeSteps
  <2>2. Len(f[0]) = 0
    BY <1>6
  <2>3. Laid(body, 0, f[0])
    BY <2>1, <2>2 DEF Laid
  <2> QED BY <2>3
<1>8. ASSUME NEW m \in Nat, m \in S PROVE m + 1 \in S
  <2> SUFFICES ASSUME m + 1 <= n PROVE Laid(body, m + 1, f[m + 1])
    OBVIOUS
  <2>1. m + 1 \in 1 .. n /\ m \in 0 .. n /\ m <= n /\ (m + 1) - 1 = m
    BY <1>1
  <2>2. f[m + 1] = f[m] \o body[m + 1].data /\ f[m] \in Seq(V)
    BY <1>4, <1>6, <2>1
  <2>3. Laid(body, m, f[m])
    BY <1>8, <2>1
  <2>4. f[m] \in Seq(SUBSET Tokens) /\ m + 1 <= Len(body)
    BY <2>2 DEF V, n
  <2>5. Laid(body, m + 1, f[m] \o body[m + 1].data)
    BY <2>3, <2>4, LaidStep
  <2> QED BY <2>2, <2>5
<1>9. n \in S
  <2> HIDE DEF S
  <2>1. Nat \subseteq S
    BY <1>7, <1>8, SetInduction
  <2> QED BY <1>1, <2>1
<1>10. Laid(body, n, f[n]) /\ f[n] \in Seq(V)
  BY <1>1, <1>9
<1> QED BY <1>3, <1>6, <1>10 DEF n, V

(* The text that the body handler scans is the tokens of the first         *)
(* shield_max_body blocks, whether or not the length is announced.         *)
LEMMA CollectedTokens ==
    ASSUME NEW q \in Request, NEW max \in Nat,
           q.length > 0 => Len(Blocks(q.body)) <= q.length
    PROVE  LET blocks == IF q.body # <<>> /\ max > 0 THEN Collected(q, max) ELSE <<>>
           IN  /\ blocks \in Seq(SUBSET Tokens)
               /\ UNION ToSet(blocks) = BodyTokens(q.body, max)
<1> DEFINE body == q.body
           all == Blocks(body)
           n == IF Len(all) < max THEN Len(all) ELSE max
<1>1. body \in Seq(Buf) /\ q.length \in Nat
  BY DEF Request, Buf
<1>2. /\ all \in Seq(SUBSET Tokens) /\ Laid(body, Len(body), all)
      /\ Len(body) \in Nat /\ DOMAIN body = 1 .. Len(body)
      /\ Len(all) \in Nat /\ DOMAIN all = 1 .. Len(all)
  <2>1. all \in Seq(SUBSET Tokens) /\ Laid(body, Len(body), all)
    BY <1>1, Positions
  <2> QED BY <1>1, <2>1, LenProperties
<1>3. \A i \in 1 .. Len(body) : DOMAIN body[i].data = 1 .. Len(body[i].data)
  <2>1. \A i \in 1 .. Len(body) : body[i].data \in Seq(SUBSET Tokens)
    <3>1. \A i \in 1 .. Len(body) : body[i] \in Buf
      BY <1>1, ElementOfSeq
    <3> QED BY <3>1 DEF Buf
  <2> QED BY <2>1, LenProperties
<1>4. Collected(q, max) = SubSeq(all, 1, n)
  <2>1. (IF Len(all) < Limit(q, max) THEN Len(all) ELSE Limit(q, max)) = n
    BY <1>1, <1>2 DEF Limit
  <2> QED BY <2>1 DEF Collected
<1>5. n \in Nat /\ n <= Len(all) /\ \A k \in 1 .. Len(all) : k <= max <=> k <= n
  BY <1>2
<1>6. \A x : x \in BodyTokens(body, max) <=> \E k \in 1 .. n : x \in all[k]
  <2>1. ASSUME NEW x, x \in BodyTokens(body, max) PROVE \E k \in 1 .. n : x \in all[k]
    <3>1. PICK i \in DOMAIN body : x \in UNION {body[i].data[j] : j \in {k \in DOMAIN body[i].data :
                                                           Before(body, i) + k <= max}}
      BY <2>1 DEF BodyTokens
    <3>2. PICK j \in DOMAIN body[i].data : Before(body, i) + j <= max /\ x \in body[i].data[j]
      BY <3>1
    <3> DEFINE k == Before(body, i) + j
    <3>3. k \in 1 .. Len(all) /\ all[k] = body[i].data[j]
      BY <1>2, <1>3, <3>1, <3>2 DEF Laid
    <3>4. k <= max
      BY <3>2
    <3> HIDE DEF k
    <3>5. k \in 1 .. n
      BY <1>2, <1>5, <3>3, <3>4
    <3> QED BY <3>2, <3>3, <3>5
  <2>2. ASSUME NEW k \in 1 .. n, NEW x \in all[k] PROVE x \in BodyTokens(body, max)
    <3>1. k \in 1 .. Len(all) /\ k <= max
      BY <1>2, <1>5
    <3>0. PICK i \in 1 .. Len(body) : \E j \in 1 .. Len(body[i].data) : k = Before(body, i) + j
      BY <1>2, <3>1 DEF Laid
    <3>2. PICK j \in 1 .. Len(body[i].data) : k = Before(body, i) + j
      BY <3>0
    <3>3. x \in body[i].data[j]
      BY <1>2, <2>2, <3>2 DEF Laid
    <3>4. i \in DOMAIN body /\ j \in {b \in DOMAIN body[i].data : Before(body, i) + b <= max}
      BY <1>2, <1>3, <3>1, <3>2
    <3> QED BY <3>3, <3>4 DEF BodyTokens
  <2> QED BY <2>1, <2>2
<1> DEFINE blocks == IF q.body # <<>> /\ max > 0 THEN Collected(q, max) ELSE <<>>
<1> HIDE DEF n, all
<1>7. CASE q.body # <<>> /\ max > 0
  <2>1. blocks = SubSeq(all, 1, n)
    BY <1>4, <1>7
  <2>2. \A i \in 1 .. n : all[i] \in SUBSET Tokens
    BY <1>2, <1>5, ElementOfSeq
  <2>3. /\ blocks \in Seq(SUBSET Tokens)
        /\ Len(blocks) = IF 1 <= n THEN n - 1 + 1 ELSE 0
        /\ \A i \in 1 .. n - 1 + 1 : blocks[i] = all[1 + i - 1]
    BY <1>5, <2>1, <2>2, SubSeqProperties
  <2>4. DOMAIN blocks = 1 .. n /\ \A i \in 1 .. n : blocks[i] = all[i]
    <3>1. n - 1 + 1 = n /\ \A i \in 1 .. n : 1 + i - 1 = i
      BY <1>5
    <3>2. Len(blocks) = n
      BY <1>5, <2>3
    <3> QED BY <2>3, <3>1, <3>2, LenProperties
  <2>5. \A x : x \in UNION ToSet(blocks) <=> \E k \in 1 .. n : x \in all[k]
    BY <2>4 DEF ToSet
  <2>6. UNION ToSet(blocks) = BodyTokens(body, max)
    BY <1>6, <2>5
  <2> QED BY <2>3, <2>6
<1>8. CASE ~ (q.body # <<>> /\ max > 0)
  <2>1. blocks = <<>>
    BY <1>8
  <2>2. n = 0
    <3>1. CASE q.body = <<>>
      <4>1. Len(body) = 0
        BY <3>1
      <4>2. ASSUME Len(all) # 0 PROVE FALSE
        <5>1. 1 \in 1 .. Len(all)
          BY <1>2, <4>2
        <5>2. \E i \in 1 .. Len(body) : TRUE
          BY <1>2, <5>1 DEF Laid
        <5> QED BY <4>1, <5>2
      <4> QED BY <1>2, <4>2 DEF n
    <3>2. CASE ~ (max > 0)
      BY <1>2, <3>2 DEF n
    <3> QED BY <1>8, <3>1, <3>2
  <2>3. BodyTokens(body, max) = {}
    BY <1>6, <2>2
  <2>4. UNION ToSet(blocks) = {}
    BY <2>1 DEF ToSet
  <2> HIDE DEF blocks
  <2>5. blocks \in Seq(SUBSET Tokens)
    BY <2>1, EmptySeq
  <2>6. UNION ToSet(blocks) = BodyTokens(q.body, max)
    BY <2>3, <2>4
  <2> QED BY <2>5, <2>6 DEF blocks
<1> QED BY <1>7, <1>8

InBody(q, max, c) ==
    c \in Shown(BodyTokens(q.body, max)) /\ ~ Silent(c, "body")

(* The body scan reports what occurs in the body's text. *)
LEMMA BodyReports ==
    ASSUME NEW q \in Request, NEW max \in Nat, NEW skip \in SUBSET Cats,
           q.length > 0 => Len(Blocks(q.body)) <= q.length
    PROVE  LET blocks == IF q.body # <<>> /\ max > 0 THEN Collected(q, max) ELSE <<>>
               found == FirstHit(BodyScan(blocks, skip))
           IN  /\ \A c \in found : c \in Cats /\ c \notin skip /\ InBody(q, max, c)
               /\ found = {} => \A c : InBody(q, max, c) => c \in skip
<1> DEFINE blocks == IF q.body # <<>> /\ max > 0 THEN Collected(q, max) ELSE <<>>
           text == BodyTokens(q.body, max)
           one == Buffer(UNION ToSet(blocks), skip \cup no_body_mask)
           scans == BodyScan(blocks, skip)
<1>1. blocks \in Seq(SUBSET Tokens) /\ UNION ToSet(blocks) = text
  BY CollectedTokens
<1> HIDE DEF blocks, text
<1>2. text \subseteq Tokens
  <2>1. DOMAIN blocks = 1 .. Len(blocks) /\ \A i \in DOMAIN blocks : blocks[i] \subseteq Tokens
    BY <1>1, LenProperties, ElementOfSeq
  <2> QED BY <1>1, <2>1 DEF ToSet
<1>3. scan_input(one) = Shown(text) \ (skip \cup no_body_mask)
  BY <1>1, ScanShows
<1>4. one \in Scan
  BY <1>1, <1>2, MasksTyped DEF Scan, Buffer
<1> HIDE DEF one, scans
<1>5. \A c : c \in scan_input(one) <=> c \notin skip /\ InBody(q, max, c)
  BY <1>3, Masks DEF InBody, text
<1>6. CASE blocks = <<>>
  <2>1. scans = <<>>
    BY <1>6 DEF scans, BodyScan
  <2>2. FirstHit(scans) = {}
    BY <2>1 DEF FirstHit
  <2>3. text = {}
    BY <1>1, <1>6 DEF ToSet
  <2>4. \A c : ~ InBody(q, max, c)
    BY <2>3, NothingShown DEF InBody, text
  <2> QED BY <2>2, <2>4 DEF scans, blocks
<1>7. CASE blocks # <<>>
  <2>1. scans = <<one>>
    BY <1>7 DEF scans, BodyScan, one
  <2>2. scans \in Seq(Scan) /\ \A c : Reports(scans, c) <=> c \in scan_input(one)
    BY <2>1, <1>4 DEF Reports
  <2>3. /\ \A c \in FirstHit(scans) : Reports(scans, c)
        /\ FirstHit(scans) = {} => \A c : ~ Reports(scans, c)
    BY <2>2, FirstHitReports
  <2>4. \A c : InBody(q, max, c) => c \in Cats
    BY ShownTyped DEF InBody, Cats
  <2> QED BY <1>5, <2>2, <2>3, <2>4 DEF scans, blocks
<1> QED BY <1>6, <1>7

----------------------------------------------------------------------------
(* The scans find exactly the attacks                                      *)

(* An enabled category occurs before the body. *)
Prebody(q, skip) ==
    \E c : c \notin skip /\ (InShape(q, c) \/ InTarget(q, c) \/ InHeaders(q, c))

(* An enabled category occurs in the body, and the body is read. *)
Inbody(q, cf) ==
    cf.body /\ Textual(q) /\ \E c : c \notin cf.skip /\ InBody(q, cf.max_body, c)

LEMMA AttackIs ==
    ASSUME NEW q \in Request, NEW cf \in Location
    PROVE  Attack(q, cf) <=> Prebody(q, cf.skip) \/ Inbody(q, cf)
<1>1. cf.body \in BOOLEAN
  BY DEF Location
<1>2. \A c : c \in Occurring(q, cf) <=>
                 \/ InShape(q, c) \/ InTarget(q, c) \/ InHeaders(q, c)
                 \/ cf.body /\ Textual(q) /\ InBody(q, cf.max_body, c)
  BY DEF Occurring, InShape, InTarget, InHeaders, InBody, When
<1> QED BY <1>2 DEF Attack, Prebody, Inbody

(* The scannable bodies are the textual ones. *)
LEMMA ScannableIs == \A q : scannable_body(q) <=> Textual(q)
  BY DEF scannable_body, Textual

----------------------------------------------------------------------------
(* The inductive invariant                                                 *)

(* The scans before the body, and the scan of the body, find nothing. *)
NoneBefore(q, cf) ==
    /\ StructuralHits(q, cf.skip) = {}
    /\ FirstHit(PrebodyScans(q, cf.skip)) = {}
NoneIn(q, cf) ==
    LET wanted == q.body # <<>> /\ cf.max_body > 0
        blocks == IF wanted THEN Collected(q, cf.max_body) ELSE <<>>
    IN  FirstHit(BodyScan(blocks, cf.skip)) = {}

Acting == {"record", "count", "respond"}
Working == Acting \cup {"inspect", "reading", "body"}

(* Nothing has happened yet in a slot. *)
Empty(r) ==
    /\ hit[r] = "none" /\ ctx[r] = "none" /\ logged[r] = 0
    /\ redirects[r] = 0 /\ r \notin unscanned

(* A request and a location that nginx may bring together, and no more of  *)
(* a body than the request announces.                                      *)
Sound(q, cf) ==
    /\ q \in Request /\ cf \in Location
    /\ q.length > 0 => Len(Blocks(q.body)) <= q.length

(* How far the handler has got with a request, and what it knows by then. *)
Progress(r) ==
    /\ Sound(req[r], conf[r])
    /\ pc[r] \in Working \/ ctx[r] # "none" => req[r].main /\ conf[r].mode # "off"
    /\ hit[r] # "none" <=> pc[r] \in Acting
    /\ pc[r] \in Acting => Attack(req[r], conf[r]) /\ ctx[r] \in {"none", "declined"}
    /\ pc[r] \in {"record", "count"} => conf[r].zone
    /\ pc[r] = "inspect" => ctx[r] = "none"
    /\ pc[r] \in {"reading", "body"} => ctx[r] = "declined"
    /\ ctx[r] # "none" => /\ NoneBefore(req[r], conf[r])
                          /\ conf[r].body /\ Textual(req[r])
    /\ ctx[r] = "failed" => conf[r].mode = "block"
    /\ ctx[r] = "denied" => conf[r].mode = "block" /\ Attack(req[r], conf[r])

(* In block mode a request goes on only while nothing was found in it and  *)
(* no buffer of it was lost.                                               *)
Blocking(r) ==
    conf[r].mode = "block" =>
       /\ r \in unscanned => pc[r] = "failed" \/ (pc[r] = "handler" /\ ctx[r] = "failed")
       /\ pc[r] = "handler" /\ ctx[r] = "declined" => NoneIn(req[r], conf[r])
       /\ pc[r] \in {"content", "passed"} /\ req[r].main => ~ Attack(req[r], conf[r])

(* The pass under way has no record yet. *)
Unrecorded(r) == pc[r] \in Working \/ (pc[r] = "handler" /\ ctx[r] = "none")

Recording(r) ==
    /\ logged[r] <= 1 + redirects[r]
    /\ Unrecorded(r) => logged[r] <= redirects[r]

(* A hit denied earlier passes, and this one only if it has ended so. *)
Passes(r) ==
    \A n : <<r, n>> \in denials =>
       n \in Nat /\ n <= redirects[r] /\ (n = redirects[r] => pc[r] = "denied")

Slot(r) ==
    /\ Passes(r)
    /\ pc[r] = "idle" => Empty(r)
    /\ pc[r] # "idle" => Progress(r) /\ Blocking(r) /\ Recording(r)

RInv == TypeOK /\ (\A r \in Reqs : Slot(r)) /\ BlockedAddsUp

(* What holds in slot s is not disturbed when the slot is left alone. *)
Same(s) ==
    /\ req'[s] = req[s] /\ conf'[s] = conf[s] /\ pc'[s] = pc[s]
    /\ hit'[s] = hit[s] /\ ctx'[s] = ctx[s] /\ logged'[s] = logged[s]
    /\ redirects'[s] = redirects[s] /\ (s \in unscanned' <=> s \in unscanned)
    /\ \A n : <<s, n>> \in denials' <=> <<s, n>> \in denials

(* Pass n of request s is one of those that BlockedAddsUp counts; and the  *)
(* counted passes of s stay as they are.                                   *)
Counted(s, n) == <<s, n>> \in denials \/ (n = redirects[s] /\ Denying(s))
Steady(s) == \A n : Counted(s, n)' <=> Counted(s, n)

LEMMA SlotFrame ==
    ASSUME NEW s, Slot(s), Same(s)
    PROVE  Slot(s)' /\ Steady(s)
<1>1. Empty(s) => Empty(s)'
  BY DEF Same, Empty
<1>2. Progress(s) => Progress(s)'
  BY DEF Same, Progress
<1>3. Blocking(s) => Blocking(s)'
  BY DEF Same, Blocking
<1>4. Recording(s) => Recording(s)'
  BY DEF Same, Recording, Unrecorded
<1>5. pc'[s] = pc[s]
  BY DEF Same
<1>6. Denying(s)' <=> Denying(s)
  BY DEF Same, Denying
<1>7. Steady(s)
  BY <1>6 DEF Same, Steady, Counted
<1>8. Passes(s) => Passes(s)'
  BY DEF Same, Passes
<1> QED BY <1>1, <1>2, <1>3, <1>4, <1>5, <1>7, <1>8 DEF Slot

(* The counted passes are those of the requests. *)
LEMMA TallySteady ==
    ASSUME TypeOK, TypeOK', \A s \in Reqs : Steady(s)
    PROVE  DeniedPasses' = DeniedPasses
<1>1. ASSUME NEW x PROVE x \in DeniedPasses' <=> x \in DeniedPasses
  <2>1. x \in DeniedPasses <=> \E s \in Reqs : \E n : x = <<s, n>> /\ Counted(s, n)
    <3>1. x \in denials => \E s \in Reqs : \E n : x = <<s, n>> /\ <<s, n>> \in denials
      <4>1. denials \subseteq Reqs \X (0 .. MaxRedirects)
        BY DEF TypeOK
      <4> QED BY <4>1
    <3>2. x \in DeniedPasses <=>
             x \in denials \/ \E s \in Reqs : Denying(s) /\ x = <<s, redirects[s]>>
      BY DEF DeniedPasses
    <3> QED BY <3>1, <3>2 DEF Counted
  <2>2. x \in DeniedPasses' <=> \E s \in Reqs : \E n : x = <<s, n>> /\ Counted(s, n)'
    <3>1. x \in denials' => \E s \in Reqs : \E n : x = <<s, n>> /\ <<s, n>> \in denials'
      <4>1. denials' \subseteq Reqs \X (0 .. MaxRedirects)
        BY DEF TypeOK
      <4> QED BY <4>1
    <3>2. x \in DeniedPasses' <=>
             x \in denials' \/ \E s \in Reqs : Denying(s)' /\ x = <<s, redirects'[s]>>
      BY DEF DeniedPasses
    <3> QED BY <3>1, <3>2 DEF Counted
  <2> QED BY <2>1, <2>2 DEF Steady
<1> QED BY <1>1

(* A step of a pass that a hit neither is denying nor has denied. *)
LEMMA Uncounted ==
    ASSUME NEW r \in Reqs, Passes(r), pc[r] # "denied", ~ Denying(r), ~ Denying(r)',
           UNCHANGED <<denials, redirects>>
    PROVE  Passes(r)' /\ Steady(r)
<1>1. Passes(r)'
  BY DEF Passes
<1>2. Steady(r)
  BY DEF Steady, Counted
<1> QED BY <1>1, <1>2

(* A step of slot r that denies nothing keeps the invariant if the slot's  *)
(* own part of it survives.                                                *)
LEMMA SlotStep ==
    ASSUME RInv, NEW r \in Reqs, TypeOK', \A s \in Reqs \ {r} : Same(s),
           Slot(r)', Steady(r), blocked' = blocked
    PROVE  RInv'
<1>1. \A s \in Reqs : Slot(s)' /\ Steady(s)
  BY SlotFrame DEF RInv
<1>2. DeniedPasses' = DeniedPasses
  BY <1>1, TallySteady DEF RInv
<1>3. BlockedAddsUp'
  BY <1>2 DEF RInv, BlockedAddsUp
<1> QED BY <1>1, <1>3 DEF RInv

(* A request in hand, and its location. *)
LEMMA InHand ==
    ASSUME NEW r \in Reqs, Slot(r), pc[r] # "idle"
    PROVE  /\ req[r] \in Request /\ conf[r] \in Location
           /\ req[r].length > 0 => Len(Blocks(req[r].body)) <= req[r].length
  BY DEF Slot, Progress, Sound

(* A request in which no scan finds anything is no attack. *)
LEMMA NoneIsClean ==
    ASSUME NEW q \in Request, NEW cf \in Location,
           q.length > 0 => Len(Blocks(q.body)) <= q.length,
           NoneBefore(q, cf), cf.body /\ Textual(q) => NoneIn(q, cf)
    PROVE  ~ Attack(q, cf)
<1>1. cf.skip \in SUBSET Cats /\ cf.max_body \in Nat
  BY DEF Location
<1>2. ~ Prebody(q, cf.skip)
  BY <1>1, StructuralReports, PrebodyReports DEF NoneBefore, Prebody
<1>3. ~ Inbody(q, cf)
  <2>1. CASE cf.body /\ Textual(q)
    BY <1>1, <2>1, BodyReports DEF NoneIn, Inbody
  <2>2. CASE ~ (cf.body /\ Textual(q))
    BY <2>2 DEF Inbody
  <2> QED BY <2>1, <2>2
<1> QED BY <1>2, <1>3, AttackIs

(* A hit is a category, and the request an attack. *)
LEMMA HitIsAttack ==
    ASSUME NEW q \in Request, NEW cf \in Location,
           q.length > 0 => Len(Blocks(q.body)) <= q.length
    PROVE  LET hits == StructuralHits(q, cf.skip)
               blocks == IF q.body # <<>> /\ cf.max_body > 0
                           THEN Collected(q, cf.max_body) ELSE <<>>
           IN  /\ hits # {} => StructuralOrder[Min(hits)] \in Cats /\ Attack(q, cf)
               /\ \A c \in FirstHit(PrebodyScans(q, cf.skip)) : c \in Cats /\ Attack(q, cf)
               /\ \A c \in FirstHit(BodyScan(blocks, cf.skip)) :
                     c \in Cats /\ (cf.body /\ Textual(q) => Attack(q, cf))
<1> DEFINE hits == StructuralHits(q, cf.skip)
           blocks == IF q.body # <<>> /\ cf.max_body > 0 THEN Collected(q, cf.max_body) ELSE <<>>
<1>1. cf.skip \in SUBSET Cats /\ cf.max_body \in Nat
  BY DEF Location
<1>2. hits # {} => StructuralOrder[Min(hits)] \in Cats /\ Prebody(q, cf.skip)
  BY <1>1, StructuralReports DEF Prebody
<1>3. \A c \in FirstHit(PrebodyScans(q, cf.skip)) : c \in Cats /\ Prebody(q, cf.skip)
  BY <1>1, PrebodyReports DEF Prebody
<1>4. \A c \in FirstHit(BodyScan(blocks, cf.skip)) :
         c \in Cats /\ (cf.body /\ Textual(q) => Inbody(q, cf))
  <2>1. \A c \in FirstHit(BodyScan(blocks, cf.skip)) :
           c \in Cats /\ c \notin cf.skip /\ InBody(q, cf.max_body, c)
    BY <1>1, BodyReports
  <2> QED BY <2>1 DEF Inbody
<1> HIDE DEF hits, blocks
<1>5. Attack(q, cf) <=> Prebody(q, cf.skip) \/ Inbody(q, cf)
  BY AttackIs
<1>6. hits # {} => StructuralOrder[Min(hits)] \in Cats /\ Attack(q, cf)
  BY <1>2, <1>5
<1>7. \A c \in FirstHit(PrebodyScans(q, cf.skip)) : c \in Cats /\ Attack(q, cf)
  BY <1>3, <1>5
<1>8. \A c \in FirstHit(BodyScan(blocks, cf.skip)) :
         c \in Cats /\ (cf.body /\ Textual(q) => Attack(q, cf))
  BY <1>4, <1>5
<1> QED BY <1>6, <1>7, <1>8 DEF hits, blocks

LEMMA NoneIsNoCategory == "none" \notin Cats
  BY DEF Cats, TableCats, Structural, categories, Row

----------------------------------------------------------------------------
(* The invariant holds                                                     *)

LEMMA RInit == Init => RInv
<1> SUFFICES ASSUME Init PROVE RInv
  OBVIOUS
<1>1. TypeOK
  BY RequestAssumption DEF Init, TypeOK
<1>2. \A r \in Reqs : Slot(r)
  BY DEF Init, Slot, Empty, Passes
<1>3. BlockedAddsUp
  <2>1. DeniedPasses = {}
    BY DEF Init, DeniedPasses, Denying
  <2>2. Cardinality({}) = 0
    BY FS_EmptySet
  <2> QED BY <2>1, <2>2 DEF Init, BlockedAddsUp
<1> QED BY <1>1, <1>2, <1>3 DEF RInv

(* A step that moves slot r leaves the other slots alone. *)
LEMMA Alone ==
    ASSUME TypeOK, NEW r \in Reqs,
           \/ Arrive(r) \/ Work(r) \/ Redirect(r)
    PROVE  \A s \in Reqs \ {r} : Same(s)
<1> SUFFICES ASSUME NEW s \in Reqs \ {r} PROVE Same(s)
  OBVIOUS
<1> USE DEF TypeOK, Same, Goto, static, zone
<1>1. CASE Arrive(r) BY <1>1 DEF Arrive
<1>2. CASE Handler(r) BY <1>2 DEF Handler, Denied
<1>3. CASE Inspect(r)
  <2>1. CASE \E c : Hit(r, c)
    BY <1>3, <2>1 DEF Inspect, Hit
  <2>2. CASE Fail(r)
    BY <1>3, <2>2 DEF Inspect, Fail, Status
  <2>3. CASE Clean(r)
    BY <1>3, <2>3 DEF Inspect, Clean
  <2> QED BY <1>3, <2>1, <2>2, <2>3 DEF Inspect
<1>4. CASE ReadBody(r) BY <1>4 DEF ReadBody
<1>5. CASE BodyHandler(r)
  <2>1. CASE \E c : Hit(r, c)
    BY <1>5, <2>1 DEF BodyHandler, Hit
  <2>2. CASE Fail(r)
    BY <1>5, <2>2 DEF BodyHandler, Fail, Status
  <2>3. CASE Status(r, "declined") /\ UNCHANGED <<hit, unscanned, faults>>
    BY <1>5, <2>3 DEF BodyHandler, Status
  <2> QED BY <1>5, <2>1, <2>2, <2>3 DEF BodyHandler
<1>6. CASE Record(r) BY <1>6 DEF Record
<1>7. CASE Count(r) BY <1>7 DEF Count
<1>8. CASE Respond(r) BY <1>8 DEF Respond, Status, Denied
<1>9. CASE Serve(r) BY <1>9 DEF Serve
<1>10. CASE Redirect(r) BY <1>10 DEF Redirect
<1> QED BY <1>1, <1>2, <1>3, <1>4, <1>5, <1>6, <1>7, <1>8, <1>9, <1>10 DEF Work

LEMMA ArriveKeeps ==
    ASSUME RInv, NEW r \in Reqs, Arrive(r)
    PROVE  RInv'
<1>1. /\ req' = [req EXCEPT ![r] = sent[r].q] /\ conf' = [conf EXCEPT ![r] = sent[r].conf]
      /\ sent \in Traffic /\ r \in DOMAIN sent
  BY DEF RInv, TypeOK, Arrive
<1>2. sent[r] \in Arrivals
  BY <1>1 DEF Arrivals, Range
<1>3. sent[r].q # NoReq /\ Sound(sent[r].q, sent[r].conf)
  BY <1>2, RequestAssumption, LengthAssumption DEF Sound
<1>4. TypeOK'
  <2>1. sent[r].q \in Request /\ sent[r].conf \in Location
    BY <1>3 DEF Sound
  <2> QED BY <1>1, <1>3, <2>1 DEF RInv, TypeOK, Arrive, Goto, zone
<1>5. /\ req'[r] = sent[r].q /\ conf'[r] = sent[r].conf
      /\ pc[r] = "idle" /\ pc'[r] = "handler" /\ Empty(r)'
  BY <1>1 DEF RInv, TypeOK, Arrive, Goto, zone, Slot, Empty
<1>6. Sound(req'[r], conf'[r]) /\ ctx'[r] = "none"
  BY <1>3, <1>5 DEF Empty
<1>7. Passes(r)' /\ Steady(r)
  <2>1. ~ Denying(r) /\ ~ Denying(r)'
    BY <1>5, <1>6 DEF Denying
  <2> QED BY <1>5, <2>1, Uncounted DEF RInv, Slot, Arrive
<1>8. Slot(r)'
  BY <1>5, <1>6, <1>7 DEF Slot, Empty, Progress, Blocking, Recording, Unrecorded, Acting, Working
<1>9. blocked' = blocked
  BY DEF Arrive, zone
<1> QED BY <1>4, <1>7, <1>8, <1>9, Alone, SlotStep DEF RInv

LEMMA Statuses ==
    /\ Returned["declined"] = "content" /\ Returned["denied"] = "denied"
    /\ Returned["failed"] = "failed"
  BY DEF Returned

LEMMA HandlerKeeps ==
    ASSUME RInv, NEW r \in Reqs, Handler(r)
    PROVE  RInv'
<1>1. TypeOK /\ Slot(r) /\ pc[r] = "handler" /\ pc[r] # "idle"
  BY DEF RInv, Handler
<1>2. /\ req[r] \in Request /\ conf[r] \in Location
      /\ req[r].length > 0 => Len(Blocks(req[r].body)) <= req[r].length
  BY <1>1, InHand
<1>3. /\ pc' = [pc EXCEPT ![r] = pc'[r]]
      /\ UNCHANGED <<req, conf, redirects, lapses, hit, ctx, score, banned, blocked, cat_hits,
                     logged, unscanned, faults, sent>>
  BY <1>1 DEF Handler, Goto, static, zone, TypeOK
<1>4. \/ pc'[r] = "content" /\ (~ req[r].main \/ conf[r].mode = "off")
      \/ pc'[r] = Returned[ctx[r]] /\ ctx[r] # "none"
      \/ pc'[r] = "denied" /\ ctx[r] = "none"
      \/ pc'[r] = "inspect" /\ ctx[r] = "none" /\ req[r].main /\ conf[r].mode # "off"
  BY <1>1 DEF Handler, Goto, TypeOK
<1>5. \/ pc'[r] = "content" /\ (~ req[r].main \/ conf[r].mode = "off")
      \/ pc'[r] = "content" /\ ctx[r] = "declined"
      \/ pc'[r] = "denied" /\ ctx[r] \in {"none", "denied"}
      \/ pc'[r] = "failed" /\ ctx[r] = "failed"
      \/ pc'[r] = "inspect" /\ ctx[r] = "none" /\ req[r].main /\ conf[r].mode # "off"
  BY <1>1, <1>4, Statuses DEF TypeOK
<1>10. denials' = IF pc'[r] = "denied" /\ ctx[r] = "denied" /\ conf[r].zone
                    THEN denials \cup {<<r, redirects[r]>>} ELSE denials
  BY DEF Handler, Denied
<1>6. TypeOK'
  <2>1. denials' \subseteq Reqs \X (0 .. MaxRedirects)
    BY <1>1, <1>10 DEF TypeOK
  <2> QED BY <1>1, <1>3, <1>5, <2>1 DEF TypeOK, Ends
<1>7. conf[r].mode = "block" /\ ctx[r] = "declined" => ~ Attack(req[r], conf[r])
  BY <1>1, <1>2, NoneIsClean DEF Slot, Progress, Blocking
<1>8. Slot(r)'
  <2>1. Progress(r) /\ Blocking(r) /\ Recording(r) /\ ctx[r] \in {"none", "declined", "denied", "failed"}
    BY <1>1 DEF Slot, TypeOK
  <2>2. Progress(r)'
    BY <1>1, <1>3, <1>5, <2>1 DEF Progress, Acting, Working
  <2>3. Blocking(r)'
    BY <1>1, <1>3, <1>5, <1>7, <2>1 DEF Blocking, Progress
  <2>4. Recording(r)'
    BY <1>1, <1>3, <1>5, <2>1 DEF Recording, Unrecorded, Working, Acting
  <2>5. Passes(r)'
    <3>1. Passes(r) /\ redirects[r] \in Nat
      BY <1>1 DEF Slot, TypeOK
    <3> QED BY <1>1, <1>3, <1>10, <3>1 DEF Passes
  <2> QED BY <1>5, <2>2, <2>3, <2>4, <2>5 DEF Slot
<1>9. Steady(r)
  <2>1. ctx[r] = "denied" => conf[r].mode = "block" /\ req[r].main
    BY <1>1 DEF Slot, Progress
  <2>2. CASE ctx[r] = "denied"
    <3>1. pc'[r] = "denied"
      BY <1>5, <2>1, <2>2
    <3>2. (Denying(r) <=> conf[r].zone) /\ ~ Denying(r)'
      BY <1>1, <1>3, <2>1, <2>2, <3>1 DEF Denying
    <3> QED BY <1>3, <1>10, <2>2, <3>1, <3>2 DEF Steady, Counted
  <2>3. CASE ctx[r] # "denied"
    <3>1. ~ Denying(r) /\ ~ Denying(r)'
      BY <1>1, <1>3, <1>5, <2>3 DEF Denying
    <3> QED BY <1>3, <1>10, <2>3, <3>1 DEF Steady, Counted
  <2> QED BY <2>2, <2>3
<1> QED BY <1>1, <1>3, <1>6, <1>8, <1>9, Alone, SlotStep DEF Work

(* What a slot in hand knows, apart. *)
LEMMA Known ==
    ASSUME RInv, NEW r \in Reqs, pc[r] # "idle"
    PROVE  /\ TypeOK /\ Slot(r) /\ Progress(r) /\ Blocking(r) /\ Recording(r) /\ Passes(r)
           /\ ctx[r] \in {"none", "declined", "denied", "failed"}
           /\ conf[r] \in Location
           /\ logged[r] \in Nat /\ redirects[r] \in Nat
  BY InHand DEF RInv, Slot, TypeOK

(* A hit, before the body or in it. *)
LEMMA HitKeeps ==
    ASSUME RInv, NEW r \in Reqs, pc[r] \in {"inspect", "body"}, NEW c \in Cats,
           Attack(req[r], conf[r]), Hit(r, c), UNCHANGED <<static, zone, logged, denials>>,
           \A s \in Reqs \ {r} : Same(s)
    PROVE  RInv'
<1>1. /\ TypeOK /\ Progress(r) /\ Blocking(r) /\ Recording(r) /\ Passes(r) /\ conf[r].zone \in BOOLEAN
      /\ logged[r] \in Nat
  BY Known DEF Location
<1>2. /\ UNCHANGED <<sent, denials, req, conf, redirects, lapses, score, banned, blocked, cat_hits, logged,
                     ctx, unscanned, faults>>
      /\ hit' = [hit EXCEPT ![r] = c]
      /\ pc' = [pc EXCEPT ![r] = IF conf[r].zone THEN "record" ELSE "respond"]
  BY DEF Hit, Goto, static, zone
<1>3. /\ hit'[r] = c /\ c # "none"
      /\ \/ pc'[r] = "record" /\ conf[r].zone
         \/ pc'[r] = "respond" /\ ~ conf[r].zone
  BY <1>1, <1>2, NoneIsNoCategory DEF TypeOK
<1>4. TypeOK'
  BY <1>1, <1>2, <1>3 DEF TypeOK
<1>5. Progress(r)'
  BY <1>1, <1>2, <1>3 DEF Progress, Acting, Working
<1>6. Blocking(r)' /\ Recording(r)'
  BY <1>1, <1>2, <1>3 DEF Blocking, Recording, Unrecorded, Acting, Working
<1>8. Passes(r)' /\ Steady(r)
  <2>1. ~ Denying(r) /\ ~ Denying(r)'
    BY <1>2, <1>3 DEF Denying
  <2> QED BY <1>1, <1>2, <2>1, Uncounted
<1>7. Slot(r)'
  BY <1>3, <1>5, <1>6, <1>8 DEF Slot
<1> QED BY <1>2, <1>4, <1>7, <1>8, SlotStep

(* A status is returned, or left for the handler that is entered again. *)
LEMMA StatusIs ==
    ASSUME NEW r \in Reqs, TypeOK, NEW status \in {"declined", "denied", "failed"},
           Status(r, status)
    PROVE  /\ pc' = [pc EXCEPT ![r] = pc'[r]] /\ ctx' = [ctx EXCEPT ![r] = ctx'[r]]
           /\ \/ /\ ctx[r] = "none" /\ ctx'[r] = "none"
                 /\ \/ status = "declined" /\ pc'[r] = "content"
                    \/ status = "denied" /\ pc'[r] = "denied"
                    \/ status = "failed" /\ pc'[r] = "failed"
              \/ ctx[r] # "none" /\ pc'[r] = "handler" /\ ctx'[r] = status
<1>1. CASE ctx[r] = "none"
  <2>1. pc' = [pc EXCEPT ![r] = Returned[status]] /\ ctx' = ctx
    BY <1>1 DEF Status, Goto
  <2> QED BY <1>1, <2>1, Statuses DEF TypeOK
<1>2. CASE ctx[r] # "none"
  <2>1. pc' = [pc EXCEPT ![r] = "handler"] /\ ctx' = [ctx EXCEPT ![r] = status]
    BY <1>2 DEF Status, Goto
  <2> QED BY <1>2, <2>1 DEF TypeOK
<1> QED BY <1>1, <1>2

(* A buffer that could not be scanned. *)
LEMMA FailKeeps ==
    ASSUME RInv, NEW r \in Reqs, pc[r] \in {"inspect", "body"},
           Fail(r), UNCHANGED <<static, zone, logged, denials>>,
           \A s \in Reqs \ {r} : Same(s)
    PROVE  RInv'
<1>1. /\ TypeOK /\ Progress(r) /\ Blocking(r) /\ Recording(r) /\ Passes(r) /\ conf[r].mode # "off"
      /\ logged[r] \in Nat /\ redirects[r] \in Nat
  BY Known DEF Progress, Working
<1>2. /\ UNCHANGED <<sent, denials, req, conf, redirects, lapses, score, banned, blocked, cat_hits, logged, hit>>
      /\ faults < MaxFaults /\ faults' = faults + 1 /\ unscanned' = unscanned \cup {r}
      /\ Status(r, IF conf[r].mode = "block" THEN "failed" ELSE "declined")
  BY DEF Fail, MayFault, static, zone
<1>3. /\ pc' = [pc EXCEPT ![r] = pc'[r]] /\ ctx' = [ctx EXCEPT ![r] = ctx'[r]]
      /\ \/ conf[r].mode = "block" /\ ctx[r] = "none" /\ ctx'[r] = "none" /\ pc'[r] = "failed"
         \/ conf[r].mode = "block" /\ ctx[r] # "none" /\ ctx'[r] = "failed" /\ pc'[r] = "handler"
         \/ conf[r].mode # "block" /\ ctx[r] = "none" /\ ctx'[r] = "none" /\ pc'[r] = "content"
         \/ conf[r].mode # "block" /\ ctx[r] # "none" /\ ctx'[r] = "declined" /\ pc'[r] = "handler"
  <2>1. CASE conf[r].mode = "block"
    BY <1>1, <1>2, <2>1, StatusIs
  <2>2. CASE conf[r].mode # "block"
    BY <1>1, <1>2, <2>2, StatusIs
  <2> QED BY <2>1, <2>2
<1>4. TypeOK'
  BY <1>1, <1>2, <1>3, RequestAssumption DEF TypeOK, Ends
<1>5. Progress(r)'
  BY <1>1, <1>2, <1>3 DEF Progress, Acting, Working
<1>6. Blocking(r)'
  BY <1>1, <1>2, <1>3 DEF Blocking
<1>7. Recording(r)'
  BY <1>1, <1>2, <1>3 DEF Recording, Unrecorded, Acting, Working
<1>9. Passes(r)' /\ Steady(r)
  <2>1. ~ Denying(r) /\ ~ Denying(r)'
    BY <1>2, <1>3 DEF Denying
  <2> QED BY <1>1, <1>2, <2>1, Uncounted
<1>8. Slot(r)'
  BY <1>3, <1>5, <1>6, <1>7, <1>9 DEF Slot
<1> QED BY <1>2, <1>4, <1>8, <1>9, SlotStep

LEMMA InspectKeeps ==
    ASSUME RInv, NEW r \in Reqs, Inspect(r)
    PROVE  RInv'
<1> DEFINE skip == conf[r].skip
           structural == StructuralHits(req[r], skip)
           found == FirstHit(PrebodyScans(req[r], skip))
<1>1. pc[r] = "inspect" /\ UNCHANGED <<static, zone, logged, denials>>
  BY DEF Inspect
<1>2. /\ TypeOK /\ Slot(r) /\ Progress(r) /\ Blocking(r) /\ Recording(r) /\ Passes(r)
      /\ logged[r] \in Nat /\ redirects[r] \in Nat
  BY <1>1, Known
<1>3. /\ req[r] \in Request /\ conf[r] \in Location
      /\ req[r].length > 0 => Len(Blocks(req[r].body)) <= req[r].length
  BY <1>1, <1>2, InHand
<1>4. /\ structural # {} => StructuralOrder[Min(structural)] \in Cats /\ Attack(req[r], conf[r])
      /\ \A c \in found : c \in Cats /\ Attack(req[r], conf[r])
  BY <1>3, HitIsAttack
<1>5. \A s \in Reqs \ {r} : Same(s)
  BY <1>2, Alone DEF Work
<1>6. CASE structural # {}
  <2>1. Hit(r, StructuralOrder[Min(structural)])
    BY <1>6 DEF Inspect
  <2> HIDE DEF structural
  <2> QED BY <1>1, <1>4, <1>5, <1>6, <2>1, HitKeeps
<1>7. CASE structural = {}
  <2>1. \/ \E c \in found : Hit(r, c)
        \/ Fail(r)
        \/ found = {} /\ Clean(r)
    BY <1>7 DEF Inspect
  <2>2. NoneBefore(req[r], conf[r]) <=> found = {}
    BY <1>7 DEF NoneBefore
  <2> HIDE DEF found, structural
  <2>3. CASE \E c \in found : Hit(r, c)
    BY <1>1, <1>4, <1>5, <2>3, HitKeeps
  <2>4. CASE Fail(r)
    BY <1>1, <1>5, <2>4, FailKeeps
  <2>5. CASE found = {} /\ Clean(r)
    <3>1. NoneBefore(req[r], conf[r]) /\ (scannable_body(req[r]) <=> Textual(req[r]))
      BY <2>2, <2>5, ScannableIs
    <3>2. /\ UNCHANGED <<sent, denials, req, conf, redirects, lapses, score, banned, blocked, cat_hits, logged,
                         hit, unscanned>>
          /\ faults' \in {faults, faults + 1} /\ (faults' # faults => faults < MaxFaults)
      BY <1>1, <1>2, <2>5 DEF Clean, static, zone, MayFault, TypeOK
    <3>3. /\ pc' = [pc EXCEPT ![r] = pc'[r]] /\ ctx' = [ctx EXCEPT ![r] = ctx'[r]]
          /\ \/ /\ pc'[r] = "reading" /\ ctx'[r] = "declined"
                /\ conf[r].body /\ Textual(req[r])
             \/ pc'[r] = "failed" /\ ctx'[r] = "none"
             \/ /\ pc'[r] = "content" /\ ctx'[r] = "none"
                /\ ~ (conf[r].body /\ Textual(req[r]))
      BY <1>1, <1>2, <2>5, <3>1 DEF Clean, Goto, TypeOK, Progress
    <3>4. pc'[r] = "content" => ~ Attack(req[r], conf[r])
      BY <1>3, <3>1, <3>3, NoneIsClean
    <3>5. TypeOK'
      BY <1>1, <1>2, <3>2, <3>3, RequestAssumption DEF TypeOK, Ends
    <3>6. Progress(r)'
      BY <1>1, <1>2, <3>1, <3>2, <3>3 DEF Progress, Acting, Working
    <3>7. Blocking(r)'
      BY <1>1, <1>2, <3>2, <3>3, <3>4 DEF Blocking
    <3>8. Recording(r)'
      BY <1>1, <1>2, <3>2, <3>3 DEF Recording, Unrecorded, Acting, Working
    <3>10. Passes(r)' /\ Steady(r)
      <4>1. ~ Denying(r) /\ ~ Denying(r)'
        BY <1>1, <3>3 DEF Denying
      <4> QED BY <1>1, <1>2, <3>2, <4>1, Uncounted
    <3>9. Slot(r)'
      BY <3>3, <3>6, <3>7, <3>8, <3>10 DEF Slot
    <3> QED BY <1>5, <3>2, <3>5, <3>9, <3>10, SlotStep
  <2> QED BY <2>1, <2>3, <2>4, <2>5
<1> QED BY <1>6, <1>7

LEMMA ReadBodyKeeps ==
    ASSUME RInv, NEW r \in Reqs, ReadBody(r)
    PROVE  RInv'
<1>1. pc[r] = "reading"
  BY DEF ReadBody
<1>2. /\ TypeOK /\ Progress(r) /\ Blocking(r) /\ Recording(r) /\ Passes(r)
      /\ logged[r] \in Nat /\ redirects[r] \in Nat
  BY <1>1, Known
<1>3. /\ UNCHANGED <<sent, denials, req, conf, redirects, lapses, score, banned, blocked, cat_hits, logged,
                     hit, ctx, unscanned, faults>>
      /\ pc' = [pc EXCEPT ![r] = pc'[r]] /\ pc'[r] \in {"body", "aborted"}
  BY <1>2 DEF ReadBody, Goto, static, zone, TypeOK
<1>4. TypeOK'
  BY <1>1, <1>2, <1>3 DEF TypeOK, Ends
<1>5. Progress(r)'
  BY <1>1, <1>2, <1>3 DEF Progress, Acting, Working
<1>6. Blocking(r)' /\ Recording(r)'
  BY <1>1, <1>2, <1>3 DEF Blocking, Recording, Unrecorded, Acting, Working
<1>8. Passes(r)' /\ Steady(r)
  <2>1. ~ Denying(r) /\ ~ Denying(r)'
    BY <1>1, <1>3 DEF Denying
  <2> QED BY <1>1, <1>2, <1>3, <2>1, Uncounted
<1>7. Slot(r)' /\ Steady(r)
  BY <1>3, <1>5, <1>6, <1>8 DEF Slot
<1> QED BY <1>2, <1>3, <1>4, <1>7, Alone, SlotStep DEF Work

LEMMA BodyHandlerKeeps ==
    ASSUME RInv, NEW r \in Reqs, BodyHandler(r)
    PROVE  RInv'
<1> DEFINE max == conf[r].max_body
           wanted == req[r].body # <<>> /\ max > 0
           blocks == IF wanted THEN Collected(req[r], max) ELSE <<>>
           found == FirstHit(BodyScan(blocks, conf[r].skip))
<1>1. pc[r] = "body" /\ UNCHANGED <<static, zone, logged, denials>>
  BY DEF BodyHandler
<1>2. /\ TypeOK /\ Slot(r) /\ Progress(r) /\ Blocking(r) /\ Recording(r) /\ Passes(r)
      /\ logged[r] \in Nat /\ redirects[r] \in Nat
  BY <1>1, Known
<1>3. /\ req[r] \in Request /\ conf[r] \in Location
      /\ req[r].length > 0 => Len(Blocks(req[r].body)) <= req[r].length
  BY <1>1, <1>2, InHand
<1>4. ctx[r] = "declined" /\ conf[r].body /\ Textual(req[r])
  BY <1>1, <1>2 DEF Progress
<1>5. \A c \in found : c \in Cats /\ Attack(req[r], conf[r])
  BY <1>3, <1>4, HitIsAttack
<1>6. NoneIn(req[r], conf[r]) <=> found = {}
  BY DEF NoneIn
<1>7. \A s \in Reqs \ {r} : Same(s)
  BY <1>2, Alone DEF Work
<1>8. \/ Fail(r)
      \/ \E c \in found : Hit(r, c)
      \/ found = {} /\ Status(r, "declined") /\ UNCHANGED <<hit, unscanned, faults>>
  BY DEF BodyHandler
<1> HIDE DEF found
<1>9. CASE Fail(r)
  BY <1>1, <1>7, <1>9, FailKeeps
<1>10. CASE \E c \in found : Hit(r, c)
  BY <1>1, <1>5, <1>7, <1>10, HitKeeps
<1>11. CASE found = {} /\ Status(r, "declined") /\ UNCHANGED <<hit, unscanned, faults>>
  <2>1. /\ UNCHANGED <<sent, denials, req, conf, redirects, lapses, score, banned, blocked, cat_hits, logged,
                       hit, unscanned, faults>>
        /\ pc' = [pc EXCEPT ![r] = pc'[r]] /\ ctx' = [ctx EXCEPT ![r] = ctx'[r]]
        /\ pc'[r] = "handler" /\ ctx'[r] = "declined"
    BY <1>1, <1>2, <1>4, <1>11, StatusIs DEF static, zone
  <2>2. TypeOK'
    BY <1>1, <1>2, <2>1 DEF TypeOK
  <2>3. Progress(r)'
    BY <1>1, <1>2, <1>4, <2>1 DEF Progress, Acting, Working
  <2>4. Blocking(r)' /\ Recording(r)'
    BY <1>1, <1>2, <1>6, <1>11, <2>1 DEF Blocking, Recording, Unrecorded, Acting, Working
  <2>6. Passes(r)' /\ Steady(r)
    <3>1. ~ Denying(r) /\ ~ Denying(r)'
      BY <1>1, <2>1 DEF Denying
    <3> QED BY <1>1, <1>2, <2>1, <3>1, Uncounted
  <2>5. Slot(r)' /\ Steady(r)
    BY <2>1, <2>3, <2>4, <2>6 DEF Slot
  <2> QED BY <1>7, <2>1, <2>2, <2>5, SlotStep
<1> QED BY <1>8, <1>9, <1>10, <1>11

LEMMA RecordKeeps ==
    ASSUME RInv, NEW r \in Reqs, Record(r)
    PROVE  RInv'
<1>1. pc[r] = "record"
  BY DEF Record
<1>2. /\ TypeOK /\ Slot(r) /\ Progress(r) /\ Blocking(r) /\ Recording(r) /\ Passes(r)
      /\ logged[r] \in Nat /\ redirects[r] \in Nat
  BY <1>1, Known
<1>3. req[r].client \in Keys \cup {NoKey}
  BY <1>1, <1>2, InHand DEF Request
<1>4. /\ UNCHANGED <<sent, denials, req, conf, redirects, lapses, blocked, cat_hits, logged,
                     hit, ctx, unscanned, faults>>
      /\ pc' = [pc EXCEPT ![r] = "count"]
  BY DEF Record, Goto, static
<1>5. score' \in [Keys -> Nat] /\ banned' \subseteq Keys
  BY <1>2, <1>3 DEF Record, TypeOK
<1>6. TypeOK'
  BY <1>1, <1>2, <1>4, <1>5 DEF TypeOK
<1>7. pc'[r] = "count"
  BY <1>2, <1>4 DEF TypeOK
<1>8. Progress(r)'
  BY <1>1, <1>2, <1>4, <1>7 DEF Progress, Acting, Working
<1>9. Blocking(r)' /\ Recording(r)'
  BY <1>1, <1>2, <1>4, <1>7 DEF Blocking, Recording, Unrecorded, Acting, Working
<1>11. Passes(r)' /\ Steady(r)
  <2>1. ~ Denying(r) /\ ~ Denying(r)'
    BY <1>1, <1>7 DEF Denying
  <2> QED BY <1>1, <1>2, <1>4, <2>1, Uncounted
<1>10. Slot(r)' /\ Steady(r)
  BY <1>7, <1>8, <1>9, <1>11 DEF Slot
<1> QED BY <1>2, <1>4, <1>6, <1>10, Alone, SlotStep DEF Work

LEMMA CountKeeps ==
    ASSUME RInv, NEW r \in Reqs, Count(r)
    PROVE  RInv'
<1>1. pc[r] = "count"
  BY DEF Count
<1>2. /\ TypeOK /\ Slot(r) /\ Progress(r) /\ Blocking(r) /\ Recording(r) /\ Passes(r)
      /\ logged[r] \in Nat /\ redirects[r] \in Nat
  BY <1>1, Known
<1>3. hit[r] \in Cats /\ conf[r].zone
  BY <1>1, <1>2 DEF TypeOK, Progress, Acting
<1>4. /\ UNCHANGED <<sent, denials, req, conf, redirects, lapses, score, banned, logged,
                     hit, ctx, unscanned, faults>>
      /\ cat_hits' = [cat_hits EXCEPT ![hit[r]] = @ + 1]
      /\ blocked' = IF conf[r].mode = "block" THEN blocked + 1 ELSE blocked
      /\ pc' = [pc EXCEPT ![r] = "respond"]
  BY DEF Count, Goto, static
<1>5. pc'[r] = "respond"
  BY <1>2, <1>4 DEF TypeOK
<1>6. TypeOK'
  BY <1>1, <1>2, <1>3, <1>4 DEF TypeOK
<1>7. Progress(r)'
  BY <1>1, <1>2, <1>4, <1>5 DEF Progress, Acting, Working
<1>8. Blocking(r)' /\ Recording(r)'
  BY <1>1, <1>2, <1>4, <1>5 DEF Blocking, Recording, Unrecorded, Acting, Working
<1>9. Slot(r)'
  <2>1. Passes(r)'
    BY <1>1, <1>2, <1>4 DEF Passes
  <2> QED BY <1>5, <1>7, <1>8, <2>1 DEF Slot
<1>10. \A s \in Reqs \ {r} : Same(s)
  BY <1>2, Alone DEF Work
<1>13. ~ Denying(r) /\ (Denying(r)' <=> conf[r].mode = "block")
  BY <1>1, <1>3, <1>4, <1>5 DEF Denying
<1>11. CASE conf[r].mode # "block"
  <2>1. Steady(r) /\ blocked' = blocked
    BY <1>4, <1>11, <1>13 DEF Steady, Counted
  <2> QED BY <1>6, <1>9, <1>10, <2>1, SlotStep
<1>12. CASE conf[r].mode = "block"
  <2> DEFINE D == DeniedPasses
             x == <<r, redirects[r]>>
  <2>1. \A s \in Reqs \ {r} : Slot(s)' /\ Steady(s)
    BY <1>10, SlotFrame DEF RInv
  <2>2. x \notin D
    <3>1. x \notin denials
      BY <1>1, <1>2 DEF Passes
    <3>2. ASSUME NEW s \in Reqs, Denying(s), x = <<s, redirects[s]>> PROVE FALSE
      BY <1>13, <3>2
    <3> QED BY <3>1, <3>2 DEF DeniedPasses
  <2>3. \A s \in Reqs : Denying(s)' <=> (Denying(s) \/ s = r)
    <3>1. ASSUME NEW s \in Reqs \ {r} PROVE Denying(s)' <=> Denying(s)
      BY <1>10 DEF Same, Denying
    <3> QED BY <1>12, <1>13, <3>1
  <2>4. D' = D \cup {x}
    BY <1>4, <2>3 DEF DeniedPasses
  <2>5. IsFiniteSet(D)
    <3>1. IsFiniteSet(0 .. MaxRedirects)
      BY RequestAssumption, FS_Interval
    <3>2. IsFiniteSet(Reqs \X (0 .. MaxRedirects))
      BY <3>1, RequestAssumption, FS_Product
    <3>3. D \subseteq Reqs \X (0 .. MaxRedirects)
      BY <1>2 DEF TypeOK, DeniedPasses
    <3> QED BY <3>2, <3>3, FS_Subset
  <2>6. Cardinality(D \cup {x}) = Cardinality(D) + 1
    <3> HIDE DEF D, x
    <3> QED BY <2>2, <2>5, FS_AddElement
  <2>7. blocked = Cardinality(D)
    BY DEF RInv, BlockedAddsUp
  <2>8. BlockedAddsUp'
    BY <1>4, <1>12, <2>4, <2>6, <2>7 DEF BlockedAddsUp
  <2> QED BY <1>6, <1>9, <2>1, <2>8 DEF RInv
<1> QED BY <1>11, <1>12

LEMMA RespondKeeps ==
    ASSUME RInv, NEW r \in Reqs, Respond(r)
    PROVE  RInv'
<1>1. pc[r] = "respond"
  BY DEF Respond
<1>2. /\ TypeOK /\ Slot(r) /\ Progress(r) /\ Blocking(r) /\ Recording(r) /\ Passes(r)
      /\ logged[r] \in Nat /\ redirects[r] \in Nat
  BY <1>1, Known
<1>3. ctx[r] \in {"none", "declined"} /\ Attack(req[r], conf[r])
  BY <1>1, <1>2 DEF Progress, Acting
<1>4. /\ UNCHANGED <<sent, req, conf, redirects, lapses, score, banned, blocked, cat_hits, unscanned, faults>>
      /\ logged' = [logged EXCEPT ![r] = @ + 1] /\ hit' = [hit EXCEPT ![r] = "none"]
      /\ Status(r, IF conf[r].mode = "block" THEN "denied" ELSE "declined")
  BY DEF Respond, static, zone
<1>5. /\ pc' = [pc EXCEPT ![r] = pc'[r]] /\ ctx' = [ctx EXCEPT ![r] = ctx'[r]]
      /\ \/ conf[r].mode = "block" /\ ctx[r] = "none" /\ ctx'[r] = "none" /\ pc'[r] = "denied"
         \/ conf[r].mode = "block" /\ ctx[r] # "none" /\ ctx'[r] = "denied" /\ pc'[r] = "handler"
         \/ conf[r].mode # "block" /\ ctx[r] = "none" /\ ctx'[r] = "none" /\ pc'[r] = "content"
         \/ conf[r].mode # "block" /\ ctx[r] # "none" /\ ctx'[r] = "declined" /\ pc'[r] = "handler"
  <2>1. CASE conf[r].mode = "block"
    BY <1>2, <1>4, <2>1, StatusIs
  <2>2. CASE conf[r].mode # "block"
    BY <1>2, <1>4, <2>2, StatusIs
  <2> QED BY <2>1, <2>2
<1>6. logged'[r] = logged[r] + 1 /\ hit'[r] = "none" /\ logged[r] <= redirects[r]
  BY <1>1, <1>2, <1>4 DEF TypeOK, Recording, Unrecorded, Acting, Working
<1>12. denials' = IF pc'[r] = "denied" /\ conf[r].zone
                    THEN denials \cup {<<r, redirects[r]>>} ELSE denials
  BY DEF Respond, Denied
<1>7. TypeOK'
  <2>1. denials' \subseteq Reqs \X (0 .. MaxRedirects)
    BY <1>2, <1>12 DEF TypeOK
  <2> QED BY <1>1, <1>2, <1>4, <1>5, <2>1 DEF TypeOK, Ends
<1>8. Progress(r)'
  BY <1>1, <1>2, <1>3, <1>4, <1>5, <1>6 DEF Progress, Acting, Working
<1>9. Blocking(r)'
  BY <1>1, <1>2, <1>4, <1>5, <1>6 DEF Blocking
<1>10. Recording(r)'
  BY <1>1, <1>2, <1>4, <1>5, <1>6 DEF Recording, Unrecorded, Acting, Working
<1>13. Passes(r)'
  BY <1>1, <1>2, <1>4, <1>12 DEF Passes
<1>14. Steady(r)
  <2>1. Denying(r) <=> conf[r].zone /\ conf[r].mode = "block"
    BY <1>1 DEF Denying
  <2>2. CASE pc'[r] = "denied"
    <3>1. ~ Denying(r)' /\ conf[r].mode = "block"
      BY <1>5, <2>2 DEF Denying
    <3> QED BY <1>4, <1>12, <2>1, <2>2, <3>1 DEF Steady, Counted
  <2>3. CASE pc'[r] # "denied"
    <3>1. Denying(r)' <=> conf[r].zone /\ conf[r].mode = "block"
      BY <1>4, <1>5, <2>3 DEF Denying
    <3> QED BY <1>4, <1>12, <2>1, <2>3, <3>1 DEF Steady, Counted
  <2> QED BY <2>2, <2>3
<1>11. Slot(r)' /\ Steady(r)
  BY <1>5, <1>8, <1>9, <1>10, <1>13, <1>14 DEF Slot
<1> QED BY <1>2, <1>4, <1>7, <1>11, Alone, SlotStep DEF Work

LEMMA ServeKeeps ==
    ASSUME RInv, NEW r \in Reqs, Serve(r)
    PROVE  RInv'
<1>1. pc[r] = "content"
  BY DEF Serve
<1>2. TypeOK /\ Progress(r) /\ Blocking(r) /\ Recording(r) /\ Passes(r)
  BY <1>1, Known
<1>3. /\ UNCHANGED <<sent, denials, req, conf, redirects, lapses, score, banned, blocked, cat_hits, logged,
                     hit, ctx, unscanned, faults>>
      /\ pc' = [pc EXCEPT ![r] = "passed"] /\ pc'[r] = "passed"
  BY <1>2 DEF Serve, Goto, static, zone, TypeOK
<1>4. TypeOK'
  BY <1>1, <1>2, <1>3 DEF TypeOK, Ends
<1>5. Progress(r)'
  BY <1>1, <1>2, <1>3 DEF Progress, Acting, Working
<1>6. Blocking(r)' /\ Recording(r)'
  BY <1>1, <1>2, <1>3 DEF Blocking, Recording, Unrecorded, Acting, Working
<1>8. Passes(r)' /\ Steady(r)
  <2>1. ~ Denying(r) /\ ~ Denying(r)'
    BY <1>1, <1>3 DEF Denying
  <2> QED BY <1>1, <1>2, <1>3, <2>1, Uncounted
<1>7. Slot(r)' /\ Steady(r)
  BY <1>3, <1>5, <1>6, <1>8 DEF Slot
<1> QED BY <1>2, <1>3, <1>4, <1>7, Alone, SlotStep DEF Work

(* Where a redirect leads, the request keeps all but what its URI shows. *)
LEMMA Redirected ==
    ASSUME TypeOK, NEW r \in Reqs, Redirect(r), Sound(req[r], conf[r])
    PROVE  /\ Sound(req'[r], conf'[r])
           /\ req' = [req EXCEPT ![r] = req'[r]] /\ conf' = [conf EXCEPT ![r] = conf'[r]]
<1>1. CASE UNCHANGED <<req, conf>>
  BY <1>1 DEF TypeOK
<1>2. CASE \E p \in Pages : /\ req' = [req EXCEPT ![r].uri = p.uri]
                           /\ conf' = [conf EXCEPT ![r] = p.conf]
  <2>1. PICK p \in Pages : /\ req' = [req EXCEPT ![r].uri = p.uri]
                           /\ conf' = [conf EXCEPT ![r] = p.conf]
    BY <1>2
  <2>2. p.uri \in SUBSET {"ctrl_char", "dotfile"} /\ p.conf \in Location
    BY RequestAssumption
  <2>3. /\ req' = [req EXCEPT ![r] = req'[r]] /\ conf' = [conf EXCEPT ![r] = conf'[r]]
        /\ req'[r] = [req[r] EXCEPT !.uri = p.uri] /\ conf'[r] = p.conf
    BY <2>1 DEF TypeOK
  <2> DEFINE q == req[r]
             w == [q EXCEPT !.uri = p.uri]
  <2>4. q \in Request /\ (q.length > 0 => Len(Blocks(q.body)) <= q.length)
    BY DEF Sound
  <2> HIDE DEF q
  <2>5. w \in Request /\ w.length = q.length /\ w.body = q.body
    BY <2>2, <2>4 DEF Request
  <2>6. Sound(w, p.conf)
    BY <2>2, <2>4, <2>5 DEF Sound
  <2> QED BY <2>3, <2>6 DEF q
<1> QED BY <1>1, <1>2 DEF Redirect

LEMMA RedirectKeeps ==
    ASSUME RInv, NEW r \in Reqs, Redirect(r)
    PROVE  RInv'
<1>1. pc[r] \in {"content", "denied", "failed", "aborted"} /\ redirects[r] < MaxRedirects
  BY DEF Redirect
<1>2. /\ TypeOK /\ Progress(r) /\ Blocking(r) /\ Recording(r) /\ Passes(r)
      /\ logged[r] \in Nat /\ redirects[r] \in Nat
  BY <1>1, Known
<1>3. /\ UNCHANGED <<sent, lapses, score, banned, blocked, cat_hits, logged, hit, denials, faults>>
      /\ pc' = [pc EXCEPT ![r] = "handler"] /\ ctx' = [ctx EXCEPT ![r] = "none"]
      /\ redirects' = [redirects EXCEPT ![r] = @ + 1] /\ unscanned' = unscanned \ {r}
  BY DEF Redirect, Goto, zone
<1>4. /\ pc'[r] = "handler" /\ ctx'[r] = "none" /\ redirects'[r] = redirects[r] + 1
      /\ hit[r] = "none"
  BY <1>1, <1>2, <1>3 DEF TypeOK, Progress, Acting
<1>5. /\ Sound(req'[r], conf'[r])
      /\ req' = [req EXCEPT ![r] = req'[r]] /\ conf' = [conf EXCEPT ![r] = conf'[r]]
  BY <1>2, Redirected DEF Progress
<1>6. TypeOK'
  <2>1. req'[r] \in Request /\ conf'[r] \in Location /\ req'[r] # NoReq
    BY <1>5, RequestAssumption DEF Sound
  <2>2. /\ req' \in [Reqs -> Request \cup {NoReq}] /\ conf' \in [Reqs -> Location \cup {NoReq}]
    BY <1>2, <1>5, <2>1 DEF TypeOK
  <2>3. \A s \in Reqs : pc'[s] = "idle" <=> req'[s] = NoReq
    BY <1>2, <1>3, <1>4, <1>5, <2>1 DEF TypeOK
  <2>4. redirects' \in [Reqs -> 0 .. MaxRedirects]
    BY <1>1, <1>2, <1>3, RequestAssumption DEF TypeOK
  <2>5. /\ pc' \in [Reqs -> {"idle", "handler", "inspect", "record", "count",
                            "respond", "reading", "body", "content"} \cup Ends]
        /\ ctx' \in [Reqs -> {"none", "declined", "denied", "failed"}]
    BY <1>2, <1>3 DEF TypeOK
  <2> QED BY <1>2, <1>3, <2>2, <2>3, <2>4, <2>5 DEF TypeOK
<1>7. Progress(r)'
  BY <1>3, <1>4, <1>5 DEF Progress, Acting, Working
<1>8. Blocking(r)'
  BY <1>3, <1>4 DEF Blocking
<1>9. Recording(r)'
  BY <1>2, <1>3, <1>4 DEF Recording, Unrecorded, Acting, Working
<1>10. Passes(r)'
  BY <1>2, <1>3, <1>4 DEF Passes
<1>11. Steady(r)
  <2>1. ~ Denying(r) /\ ~ Denying(r)'
    BY <1>1, <1>4 DEF Denying
  <2> QED BY <1>3, <2>1 DEF Steady, Counted
<1>12. Slot(r)'
  BY <1>4, <1>7, <1>8, <1>9, <1>10 DEF Slot
<1> QED BY <1>2, <1>3, <1>6, <1>11, <1>12, Alone, SlotStep

(* A step that leaves the slots and the blocked counter alone. *)
LEMMA IdleKeeps ==
    ASSUME RInv, TypeOK',
           UNCHANGED <<req, conf, pc, hit, ctx, blocked, logged, unscanned, redirects,
                       denials>>
    PROVE  RInv'
<1>1. \A s \in Reqs : Same(s)
  BY DEF Same
<1>2. \A s \in Reqs : Slot(s)' /\ Steady(s)
  BY <1>1, SlotFrame DEF RInv
<1>3. DeniedPasses' = DeniedPasses
  BY <1>2, TallySteady DEF RInv
<1>4. BlockedAddsUp'
  BY <1>3 DEF RInv, BlockedAddsUp
<1> QED BY <1>2, <1>4 DEF RInv

LEMMA LapseKeeps ==
    ASSUME RInv, NEW c \in Keys, Lapse(c)
    PROVE  RInv'
<1>1. TypeOK'
  BY RequestAssumption DEF RInv, TypeOK, Lapse
<1> QED BY <1>1, IdleKeeps DEF Lapse

LEMMA RNext == RInv /\ [Next]_vars => RInv'
<1> SUFFICES ASSUME RInv, [Next]_vars PROVE RInv'
  OBVIOUS
<1>1. ASSUME NEW r \in Reqs, Arrive(r) \/ Work(r) \/ Redirect(r) PROVE RInv'
  BY <1>1, ArriveKeeps, HandlerKeeps, InspectKeeps, ReadBodyKeeps, BodyHandlerKeeps,
     RecordKeeps, CountKeeps, RespondKeeps, ServeKeeps, RedirectKeeps DEF Work
<1>2. ASSUME NEW c \in Keys, Lapse(c) PROVE RInv'
  BY <1>2, LapseKeeps
<1>3. CASE UNCHANGED vars
  <2>1. TypeOK'
    BY <1>3 DEF RInv, TypeOK, vars
  <2> QED BY <1>3, <2>1, IdleKeeps DEF vars
<1> QED BY <1>1, <1>2, <1>3 DEF Next, Done

LEMMA RAlways == Spec => []RInv
  BY RInit, RNext, PTL DEF Spec

(* The request handler's variables keep their types. *)
THEOREM RequestTypeCorrect == Spec => []TypeOK
<1>1. RInv => TypeOK
  BY DEF RInv
<1> QED BY <1>1, RAlways, PTL

(* "An unscanned buffer is not a clean one" (ngx_http_shield_fail): no     *)
(* location in block mode lets a request through of which it left a buffer *)
(* unscanned or which is an attack there, for any traffic, any internal    *)
(* redirects and any interleaving.                                         *)
THEOREM FailsClosed == Spec => []BlockFailsClosed
<1>1. RInv => BlockFailsClosed
  BY DEF RInv, Slot, Blocking, BlockFailsClosed
<1> QED BY <1>1, RAlways, PTL

(* The zone's blocked counter (ban_count) is the number of passes through  *)
(* the phases that a hit denied, whatever the workers do in between and    *)
(* wherever error_page sends a denied request: each pass once, and a       *)
(* request as often as it is denied.                                       *)
THEOREM BlockedCounts == Spec => []BlockedAddsUp
<1>1. RInv => BlockedAddsUp
  BY DEF RInv
<1> QED BY <1>1, RAlways, PTL

(* A request leaves at most one hit record for each time that nginx sends  *)
(* it through the phases (ngx_http_shield_handler, body_handler and act).  *)
THEOREM RecordedOnce == Spec => []OneRecordPerPass
<1>1. RInv => OneRecordPerPass
  <2> SUFFICES ASSUME RInv, NEW r \in Reqs PROVE logged[r] <= 1 + redirects[r]
    BY DEF OneRecordPerPass
  <2>1. CASE pc[r] = "idle"
    <3>1. logged[r] = 0 /\ redirects[r] = 0
      BY <2>1 DEF RInv, Slot, Empty
    <3> QED BY <3>1
  <2>2. CASE pc[r] # "idle"
    BY <2>2 DEF RInv, Slot, Recording
  <2> QED BY <2>1, <2>2
<1> QED BY <1>1, RAlways, PTL

----------------------------------------------------------------------------
(* The policy is implemented                                               *)

(* A step of a request in hand changes the policy's view of its slot only, *)
(* and that by what the phase engine does next.                            *)
LEMMA Viewed ==
    ASSUME TypeOK, NEW r \in Reqs, pc[r] # "idle", NEW l, l # "idle",
           pc' = [pc EXCEPT ![r] = l], UNCHANGED <<req, conf>>
    PROVE  /\ OpenView' = OpenView
           /\ OpenView[r] = [q |-> req[r], conf |-> conf[r]]
           /\ l = "passed" => StateView' = [StateView EXCEPT ![r] = "passed"]
           /\ l = "denied" => StateView' = [StateView EXCEPT ![r] = "denied"]
           /\ l \in {"failed", "aborted"} => StateView' = [StateView EXCEPT ![r] = "failed"]
           /\ l \notin Ends /\ pc[r] \notin Ends => StateView' = StateView
           /\ pc[r] \notin Ends => StateView[r] = "open"
<1>1. pc \in [Reqs -> {"idle", "handler", "inspect", "record", "count",
                       "respond", "reading", "body", "content"} \cup Ends]
  BY DEF TypeOK
<1>2. pc'[r] = l /\ \A s \in Reqs \ {r} : pc'[s] = pc[s]
  BY <1>1
<1>3. OpenView' = OpenView /\ OpenView[r] = [q |-> req[r], conf |-> conf[r]]
  BY <1>2 DEF OpenView
<1>4. l = "passed" => StateView' = [StateView EXCEPT ![r] = "passed"]
  BY <1>2 DEF StateView
<1>5. l = "denied" => StateView' = [StateView EXCEPT ![r] = "denied"]
  BY <1>2 DEF StateView
<1>6. l \in {"failed", "aborted"} => StateView' = [StateView EXCEPT ![r] = "failed"]
  BY <1>2 DEF StateView
<1>7. pc[r] \notin Ends => StateView[r] = "open"
  BY <1>1 DEF StateView, Ends
<1>8. l \notin Ends /\ pc[r] \notin Ends => StateView' = StateView
  BY <1>2 DEF StateView, Ends
<1> QED BY <1>3, <1>4, <1>5, <1>6, <1>7, <1>8

(* A step of a request that is not answered yet, as the policy sees it. *)
LEMMA PolicyStep ==
    ASSUME TypeOK, NEW r \in Reqs, pc[r] # "idle", pc[r] \notin Ends, pc'[r] # "idle",
           pc' = [pc EXCEPT ![r] = pc'[r]], UNCHANGED <<req, conf, banned>>,
           pc'[r] = "passed" => (req[r].main /\ conf[r].mode = "block" => ~ Attack(req[r], conf[r])),
           pc'[r] = "denied" =>
              /\ req[r].main
              /\ \/ conf[r].zone /\ req[r].client \in banned
                 \/ conf[r].mode = "block" /\ Attack(req[r], conf[r])
    PROVE  [Policy!Next]_(Policy!vars)
<1> DEFINE l == pc'[r]
<1> HIDE DEF l
<1>1. /\ OpenView' = OpenView
      /\ OpenView[r] = [q |-> req[r], conf |-> conf[r]]
      /\ l = "passed" => StateView' = [StateView EXCEPT ![r] = "passed"]
      /\ l = "denied" => StateView' = [StateView EXCEPT ![r] = "denied"]
      /\ l \in {"failed", "aborted"} => StateView' = [StateView EXCEPT ![r] = "failed"]
      /\ l \notin Ends => StateView' = StateView
      /\ StateView[r] = "open"
  BY Viewed DEF l
<1>2. OpenView[r].q = req[r] /\ OpenView[r].conf = conf[r]
  BY <1>1
<1>3. CASE l = "passed"
  <2>1. Policy!Pass(r)
    BY <1>1, <1>2, <1>3 DEF Policy!Pass, Policy!Close, l
  <2> QED BY <2>1 DEF Policy!Next
<1>4. CASE l = "denied"
  <2>1. Policy!Deny(r)
    BY <1>1, <1>2, <1>4 DEF Policy!Deny, Policy!Close, l
  <2> QED BY <2>1 DEF Policy!Next
<1>5. CASE l \in {"failed", "aborted"}
  <2>1. Policy!Fail(r)
    BY <1>1, <1>5 DEF Policy!Fail, Policy!Close
  <2> QED BY <2>1 DEF Policy!Next
<1>6. CASE l \notin Ends
  BY <1>1, <1>6 DEF Policy!vars
<1> QED BY <1>3, <1>4, <1>5, <1>6 DEF Ends

LEMMA ArriveOpens ==
    ASSUME RInv, RInv', NEW r \in Reqs, Arrive(r)
    PROVE  Policy!Open(r)
<1>1. pc[r] = "idle" /\ pc' = [pc EXCEPT ![r] = "handler"] /\ pc'[r] = "handler" /\ UNCHANGED banned
  BY DEF Arrive, Goto, zone, RInv, TypeOK
<1>2. [q |-> req'[r], conf |-> conf'[r]] \in Arrivals
  <2>1. sent[r] \in Arrivals
    BY DEF RInv, TypeOK, Arrive, Arrivals, Range
  <2>2. sent[r] = [q |-> sent[r].q, conf |-> sent[r].conf]
    BY <2>1, RequestAssumption
  <2>3. req'[r] = sent[r].q /\ conf'[r] = sent[r].conf
    BY DEF RInv, TypeOK, Arrive
  <2> QED BY <2>1, <2>2, <2>3
<1>3. \A s \in Reqs \ {r} : req'[s] = req[s] /\ conf'[s] = conf[s] /\ pc'[s] = pc[s]
  BY Alone DEF RInv, Same
<1>4. OpenView'[r] = [q |-> req'[r], conf |-> conf'[r]]
  BY <1>1 DEF OpenView
<1>5. OpenView' = [OpenView EXCEPT ![r] = OpenView'[r]]
  BY <1>1, <1>3, <1>4 DEF OpenView
<1>6. StateView[r] = "idle" /\ StateView' = [StateView EXCEPT ![r] = "open"]
  BY <1>1, <1>3 DEF StateView
<1> QED BY <1>1, <1>2, <1>4, <1>5, <1>6 DEF Policy!Open

LEMMA HandlerMaps ==
    ASSUME RInv, RInv', NEW r \in Reqs, Handler(r)
    PROVE  [Policy!Next]_(Policy!vars)
<1>1. TypeOK /\ Progress(r) /\ pc[r] = "handler" /\ ctx[r] \in {"none", "declined", "denied", "failed"}
  BY Known DEF Handler
<1>2. /\ pc' = [pc EXCEPT ![r] = pc'[r]] /\ UNCHANGED <<req, conf, banned>>
      /\ \/ pc'[r] = "content"
         \/ pc'[r] = Returned[ctx[r]] /\ ctx[r] # "none" /\ req[r].main
         \/ pc'[r] = "denied" /\ is_banned(r) /\ req[r].main
         \/ pc'[r] = "inspect"
  BY <1>1 DEF Handler, Goto, static, zone, TypeOK
<1>3. \/ pc'[r] \in {"content", "inspect", "failed"}
      \/ pc'[r] = "denied" /\ req[r].main /\ (is_banned(r) \/ ctx[r] = "denied")
  BY <1>1, <1>2, Statuses
<1>4. pc'[r] = "denied" => /\ req[r].main
                           /\ \/ conf[r].zone /\ req[r].client \in banned
                              \/ conf[r].mode = "block" /\ Attack(req[r], conf[r])
  BY <1>1, <1>3 DEF Progress, is_banned
<1> QED BY <1>1, <1>2, <1>3, <1>4, PolicyStep DEF Ends

(* No status of an inspection denies; only Respond does. *)
LEMMA InspectMaps ==
    ASSUME RInv, NEW r \in Reqs, Inspect(r) \/ BodyHandler(r)
    PROVE  [Policy!Next]_(Policy!vars)
<1>1. TypeOK /\ pc[r] \in {"inspect", "body"}
  BY DEF RInv, Inspect, BodyHandler
<1>2. UNCHANGED <<req, conf, banned>>
  BY DEF Inspect, BodyHandler, static, zone
<1>3. \/ \E c : Hit(r, c)
      \/ Fail(r)
      \/ Clean(r)
      \/ Status(r, "declined")
  BY DEF Inspect, BodyHandler
<1>4. /\ pc' = [pc EXCEPT ![r] = pc'[r]]
      /\ pc'[r] \in {"record", "respond", "content", "handler", "failed", "reading"}
  <2>1. CASE \E c : Hit(r, c)
    BY <1>1, <2>1 DEF Hit, Goto, TypeOK
  <2>2. CASE Clean(r)
    BY <1>1, <2>2 DEF Clean, Goto, TypeOK
  <2>3. CASE Status(r, "declined") \/ Status(r, "failed")
    BY <1>1, <2>3, StatusIs
  <2>4. Fail(r) => Status(r, "declined") \/ Status(r, "failed")
    BY DEF Fail
  <2> QED BY <1>3, <2>1, <2>2, <2>3, <2>4
<1> QED BY <1>1, <1>2, <1>4, PolicyStep DEF Ends

LEMMA RecordMaps ==
    ASSUME RInv, NEW r \in Reqs, Record(r)
    PROVE  [Policy!Next]_(Policy!vars)
<1>1. /\ TypeOK /\ Progress(r) /\ pc[r] = "record"
      /\ pc' = [pc EXCEPT ![r] = "count"] /\ UNCHANGED <<req, conf>>
  BY Known DEF Record, Goto, static
<1>2. /\ OpenView' = OpenView
      /\ OpenView[r] = [q |-> req[r], conf |-> conf[r]]
      /\ StateView' = StateView /\ StateView[r] = "open"
  <2> DEFINE l == "count"
  <2>1. l # "idle" /\ l \notin Ends /\ pc[r] # "idle" /\ pc[r] \notin Ends
    BY <1>1 DEF Ends
  <2>2. pc' = [pc EXCEPT ![r] = l]
    BY <1>1
  <2> HIDE DEF l
  <2> QED BY <1>1, <2>1, <2>2, Viewed
<1>3. CASE banned' = banned
  BY <1>2, <1>3 DEF Policy!vars
<1>4. CASE banned' = banned \cup {req[r].client}
  <2>1. /\ req[r].main /\ conf[r].zone /\ conf[r].mode # "off" /\ Attack(req[r], conf[r])
    BY <1>1 DEF Progress, Acting, Working
  <2>2. OpenView[r].q = req[r] /\ OpenView[r].conf = conf[r]
    BY <1>2
  <2>3. Policy!Ban(r)
    BY <1>2, <1>4, <2>1, <2>2 DEF Policy!Ban
  <2> QED BY <2>3 DEF Policy!Next
<1> QED BY <1>3, <1>4 DEF Record

LEMMA RespondMaps ==
    ASSUME RInv, NEW r \in Reqs, Respond(r)
    PROVE  [Policy!Next]_(Policy!vars)
<1>1. TypeOK /\ Progress(r) /\ pc[r] = "respond" /\ UNCHANGED <<req, conf, banned>>
  BY Known DEF Respond, static, zone
<1>2. req[r].main /\ Attack(req[r], conf[r])
  BY <1>1 DEF Progress, Acting, Working
<1>3. Status(r, IF conf[r].mode = "block" THEN "denied" ELSE "declined")
  BY DEF Respond
<1>4. /\ pc' = [pc EXCEPT ![r] = pc'[r]]
      /\ pc'[r] \in {"content", "handler", "denied"}
      /\ pc'[r] = "denied" => conf[r].mode = "block"
  <2>1. CASE conf[r].mode = "block"
    BY <1>1, <1>3, <2>1, StatusIs
  <2>2. CASE conf[r].mode # "block"
    BY <1>1, <1>3, <2>2, StatusIs
  <2> QED BY <2>1, <2>2
<1> QED BY <1>1, <1>2, <1>4, PolicyStep DEF Ends

LEMMA ServeMaps ==
    ASSUME RInv, NEW r \in Reqs, Serve(r)
    PROVE  [Policy!Next]_(Policy!vars)
<1>1. /\ TypeOK /\ Blocking(r) /\ pc[r] = "content" /\ UNCHANGED <<req, conf, banned>>
      /\ pc' = [pc EXCEPT ![r] = "passed"]
  BY Known DEF Serve, Goto, static, zone
<1>2. pc'[r] = "passed" /\ pc' = [pc EXCEPT ![r] = pc'[r]]
  BY <1>1 DEF TypeOK
<1>3. req[r].main /\ conf[r].mode = "block" => ~ Attack(req[r], conf[r])
  BY <1>1 DEF Blocking
<1> QED BY <1>1, <1>2, <1>3, PolicyStep DEF Ends

(* ReadBody and Count: the read ends the request, or nothing that the      *)
(* policy sees happens.                                                    *)
LEMMA OthersMap ==
    ASSUME RInv, NEW r \in Reqs, ReadBody(r) \/ Count(r)
    PROVE  [Policy!Next]_(Policy!vars)
<1>1. TypeOK /\ pc[r] \in {"reading", "count"}
  BY DEF RInv, ReadBody, Count
<1>2. /\ UNCHANGED <<req, conf, banned>> /\ pc' = [pc EXCEPT ![r] = pc'[r]]
      /\ pc'[r] \in {"body", "aborted", "respond"}
  BY <1>1 DEF ReadBody, Count, Goto, static, zone, TypeOK
<1> QED BY <1>1, <1>2, PolicyStep DEF Ends

(* A redirect submits the request to the policy of another location. *)
LEMMA RedirectMoves ==
    ASSUME RInv, NEW r \in Reqs, Redirect(r)
    PROVE  Policy!Move(r)
<1>1. /\ TypeOK /\ pc[r] \in {"content", "denied", "failed", "aborted"}
      /\ pc' = [pc EXCEPT ![r] = "handler"] /\ UNCHANGED banned
  BY DEF RInv, Redirect, Goto, zone
<1>2. pc'[r] = "handler" /\ \A s \in Reqs \ {r} : pc'[s] = pc[s]
  BY <1>1 DEF TypeOK
<1>3. StateView[r] \in {"open", "denied", "failed"}
  BY <1>1 DEF StateView
<1>4. StateView' = [StateView EXCEPT ![r] = "open"]
  BY <1>2 DEF StateView
<1>5. CASE UNCHANGED <<req, conf>>
  <2>1. OpenView' = OpenView
    BY <1>1, <1>2, <1>5 DEF OpenView
  <2> QED BY <1>1, <1>3, <1>4, <2>1 DEF Policy!Move
<1>6. ASSUME NEW p \in Pages, req' = [req EXCEPT ![r].uri = p.uri],
             conf' = [conf EXCEPT ![r] = p.conf]
      PROVE  Policy!Move(r)
  <2>1. /\ req'[r] = [req[r] EXCEPT !.uri = p.uri] /\ conf'[r] = p.conf
        /\ \A s \in Reqs \ {r} : req'[s] = req[s] /\ conf'[s] = conf[s]
    BY <1>1, <1>6 DEF TypeOK
  <2>2. OpenView[r] = [q |-> req[r], conf |-> conf[r]]
    BY <1>1 DEF OpenView
  <2>3. OpenView'[r] = [q |-> [req[r] EXCEPT !.uri = p.uri], conf |-> p.conf]
    BY <1>2, <2>1 DEF OpenView
  <2>4. \A s \in Reqs \ {r} : OpenView'[s] = OpenView[s]
    BY <1>2, <2>1 DEF OpenView
  <2>5. OpenView' = [OpenView EXCEPT ![r] = OpenView'[r]]
    BY <2>4 DEF OpenView
  <2>6. OpenView[r].q = req[r]
    BY <2>2
  <2>7. OpenView' = [OpenView EXCEPT ![r] =
                        [q |-> [OpenView[r].q EXCEPT !.uri = p.uri], conf |-> p.conf]]
    BY <2>3, <2>5, <2>6
  <2> QED BY <1>1, <1>3, <1>4, <2>7 DEF Policy!Move
<1> QED BY <1>5, <1>6 DEF Redirect

LEMMA LapseMaps ==
    ASSUME RInv, NEW c \in Keys, Lapse(c)
    PROVE  [Policy!Next]_(Policy!vars)
<1>1. UNCHANGED <<OpenView, StateView>>
  BY DEF Lapse, OpenView, StateView
<1>2. CASE c \in banned /\ banned' = banned \ {c}
  BY <1>1, <1>2 DEF Policy!Next, Policy!Lift
<1>3. CASE banned' = banned
  BY <1>1, <1>3 DEF Policy!vars
<1> QED BY <1>2, <1>3 DEF Lapse

LEMMA PolicyInit == Init => Policy!Init
  BY DEF Init, Policy!Init, OpenView, StateView

LEMMA PolicyNext == RInv /\ RInv' /\ [Next]_vars => [Policy!Next]_(Policy!vars)
<1> SUFFICES ASSUME RInv, RInv', [Next]_vars PROVE [Policy!Next]_(Policy!vars)
  OBVIOUS
<1>1. ASSUME NEW r \in Reqs, Arrive(r) PROVE [Policy!Next]_(Policy!vars)
  BY <1>1, ArriveOpens DEF Policy!Next
<1>5. ASSUME NEW r \in Reqs, Redirect(r) PROVE [Policy!Next]_(Policy!vars)
  BY <1>5, RedirectMoves DEF Policy!Next
<1>2. ASSUME NEW r \in Reqs, Work(r) PROVE [Policy!Next]_(Policy!vars)
  BY <1>2, HandlerMaps, InspectMaps, RecordMaps, RespondMaps, ServeMaps, OthersMap DEF Work
<1>3. ASSUME NEW c \in Keys, Lapse(c) PROVE [Policy!Next]_(Policy!vars)
  BY <1>3, LapseMaps
<1>4. CASE UNCHANGED vars
  BY <1>4 DEF vars, Policy!vars, OpenView, StateView
<1> QED BY <1>1, <1>2, <1>3, <1>4, <1>5 DEF Next, Done

(* The handler implements the policy, for any traffic: the order of the    *)
(* checks, the passes over the target, the masks, the suspended body read  *)
(* and the interleaving of requests let through, deny and ban only what    *)
(* ShieldPolicy allows (ngx_http_shield_handler and what it calls).        *)
THEOREM PolicyImplemented == Spec => ImplementsPolicy
<1>1. Spec => []RInv /\ Init /\ [][Next]_vars
  BY RAlways, PTL DEF Spec
<1>2. []RInv /\ [][Next]_vars => [][Policy!Next]_(Policy!vars)
  BY PolicyNext, PTL
<1>3. Spec => Policy!Init
  BY PolicyInit, PTL DEF Spec
<1> QED BY <1>1, <1>2, <1>3, PTL DEF ImplementsPolicy, Policy!Spec
=============================================================================
