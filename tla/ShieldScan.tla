----------------------------- MODULE ShieldScan -----------------------------
(***************************************************************************)
(* The signature scanner of ngx_http_shield_scan.c: the two automata that  *)
(* ngx_http_shield_init builds from the tables (a trie, then a breadth-    *)
(* first pass that resolves fail links and flattens them), and the scan of *)
(* a buffer in its two normalised forms.  One action inserts one word, one *)
(* dequeues one state; a scan is one action.                               *)
(*                                                                         *)
(* A byte is a number, a mask the set of its bits.  A byte that occurs in  *)
(* no word leads to the root from every state, so the goto table keeps     *)
(* only the bytes of the words.                                            *)
(***************************************************************************)
EXTENDS Naturals, FiniteSets, SequencesExt

CONSTANTS
    Tables,      \* signature tables: categories [cat, bufs, sigs] and
                 \* rules [cat, bufs, terms]
    Categories,  \* the values of the category enum
    Texts(_),    \* the buffers that are scanned with a table
    Skips(_),    \* and their skip masks
    BytesOf(_),  \* the bytes of a table's words, in order
    MAX_STATES, MAX_TERMS,
    NoHit

Byte == 0 .. 255
Capital == 65 .. 90
Flavours == {"decoded", "raw"}

ASSUME ScanAssumption == MAX_STATES \in Nat /\ MAX_TERMS \in Nat

(* A table's words have a byte at least, and none that ngx_strlow changes  *)
(* ("Store it LOWERCASE"); BytesOf names each of their bytes once.         *)
ASSUME BytesAssumption ==
    \A t \in Tables :
       /\ BytesOf(t) \in Seq(Byte \ Capital)
       /\ \A i, j \in DOMAIN BytesOf(t) : BytesOf(t)[i] = BytesOf(t)[j] => i = j

WordsOver(t) == Seq(ToSet(BytesOf(t))) \ {<<>>}

(* Every category has one row, and a rule has a term at least and reports  *)
(* the category of some row.                                               *)
ASSUME TablesAssumption ==
    /\ NoHit \notin Categories
    /\ \A t \in Tables :
          /\ t.categories \in Seq([cat : Categories, bufs : SUBSET Flavours,
                                   sigs : Seq(WordsOver(t))])
          /\ t.rules \in Seq([cat : Categories, bufs : SUBSET Flavours,
                              terms : Seq(WordsOver(t)) \ {<<>>}])
          /\ \A i, j \in DOMAIN t.categories :
                t.categories[i].cat = t.categories[j].cat => i = j
          /\ \A k \in DOMAIN t.rules : \E i \in DOMAIN t.categories :
                t.categories[i].cat = t.rules[k].cat

ASSUME TextsAssumption == \A t \in Tables : Texts(t) \subseteq Seq(Byte)

VARIABLES
    tab,    \* the compiled-in tables
    pc,     \* what init does next
    match,  \* the flavour that is being built
    ac,     \* ac[f]: the finished automaton of flavour f
    done,   \* how many words are in the trie
    trie,   \* next, out, rout and nstates of the build
    queue, head, fail,  \* scratch of the breadth-first pass
    text, skip, hit     \* the buffer scanned last, its mask, its hit

vars == <<tab, pc, match, ac, done, trie, queue, head, fail, text, skip, hit>>
build == <<match, done, trie, queue, head, fail>>
scan == <<text, skip, hit>>

----------------------------------------------------------------------------
(* The tables                                                              *)

NCATEGORIES == Len(tab.categories)

(* The words of one flavour in trie order: signatures, then rule terms. A  *)
(* term has an id of its own, whatever its string.                         *)
SigWords(f) ==
    FlattenSeq([i \in 1 .. NCATEGORIES |->
                  LET c == tab.categories[i]
                  IN  IF f \in c.bufs
                        THEN [j \in DOMAIN c.sigs |->
                                [w |-> c.sigs[j], out |-> {c.cat}, rout |-> {}]]
                        ELSE <<>>])
TermWords(f) ==
    FlattenSeq([i \in DOMAIN tab.rules |->
                  LET r == tab.rules[i]
                  IN  IF f \in r.bufs
                        THEN [j \in DOMAIN r.terms |->
                                [w |-> r.terms[j], out |-> {}, rout |-> {<<i, j>>}]]
                        ELSE <<>>])
Words(f) == SigWords(f) \o TermWords(f)

Bytes == BytesOf(tab)
Alphabet == ToSet(Bytes)

(* The first n numbers of a sequence, added up. *)
SumTo(seq, n) ==
    LET upto[i \in 0 .. Len(seq)] == IF i = 0 THEN 0 ELSE upto[i - 1] + seq[i]
    IN  upto[n]

Lengths(words) == [i \in DOMAIN words |-> Len(words[i].w)]

(* "one state per signature byte, plus the root" *)
Cap(f) == 1 + SumTo(Lengths(Words(f)), Len(Words(f)))

NTerms == SumTo([i \in DOMAIN tab.rules |-> Len(tab.rules[i].terms)], Len(tab.rules))

(* row[cat]: the table row that a hit of the category reports; the rows of *)
(* rules count in their own flavour.  NCATEGORIES + 1 where there is none. *)
Row(f, c) ==
    LET inFlavour(i) == \/ f \in tab.categories[i].bufs
                        \/ \E k \in DOMAIN tab.rules : f \in tab.rules[k].bufs
                                                       /\ tab.rules[k].cat = c
        rows == {i \in 1 .. NCATEGORIES : tab.categories[i].cat = c /\ inFlavour(i)}
    IN  IF rows = {} THEN NCATEGORIES + 1 ELSE CHOOSE i \in rows : TRUE

Need(f, i) == IF f \in tab.rules[i].bufs THEN {<<i, j>> : j \in DOMAIN tab.rules[i].terms}
              ELSE {}

----------------------------------------------------------------------------
(* ngx_http_shield_ac_build                                                *)

NoAc == [nstates |-> 0]
NoText == <<>>

Init ==
    /\ tab \in Tables
    /\ pc = "size" /\ match = "decoded"
    /\ ac = [f \in Flavours |-> NoAc]
    /\ done = 0 /\ queue = <<>> /\ head = 1 /\ fail = <<>>
    /\ trie = NoAc
    /\ text = NoText /\ skip = {} /\ hit = NoHit

Empty(cap) ==
    [next |-> [s \in 0 .. cap - 1 |-> [b \in Alphabet |-> 0]],
     out |-> [s \in 0 .. cap - 1 |-> {}], rout |-> [s \in 0 .. cap - 1 |-> {}],
     nstates |-> 1]

(* The limits are checked and the arrays allocated, or nginx refuses the   *)
(* configuration.                                                          *)
Size ==
    /\ pc = "size"
    /\ \/ /\ NTerms <= MAX_TERMS /\ Cap(match) <= MAX_STATES
          /\ pc' = "trie" /\ done' = 0
          /\ trie' = Empty(Cap(match))
          /\ fail' = [s \in 0 .. Cap(match) - 1 |-> 0]
       \/ /\ pc' = "refused"   \* a limit, or no memory
          /\ UNCHANGED <<done, trie, fail>>
    /\ queue' = <<>> /\ head' = 1
    /\ UNCHANGED <<tab, match, ac, scan>>

(* One byte of a word: [s, t] is the state reached and the trie. *)
Extend(at, b) ==
    LET t == at.t
    IN  IF t.next[at.s][b] # 0 THEN [at EXCEPT !.s = t.next[at.s][b]]
        ELSE [s |-> t.nstates,
              t |-> [t EXCEPT !.next[at.s][b] = t.nstates, !.nstates = @ + 1]]

(* A whole word, from the root. *)
Walk(t, w) ==
    LET at[k \in 0 .. Len(w)] == IF k = 0 THEN [s |-> 0, t |-> t]
                                 ELSE Extend(at[k - 1], w[k])
    IN  at[Len(w)]

Insert ==
    LET word == Words(match)[done + 1]
        end == Walk(trie, word.w)
    IN  /\ pc = "trie" /\ done < Len(Words(match))
        /\ trie' = [end.t EXCEPT !.out[end.s] = @ \cup word.out,
                                 !.rout[end.s] = @ \cup word.rout]
        /\ done' = done + 1
        /\ UNCHANGED <<tab, pc, match, ac, queue, head, fail, scan>>

(* The targets of the transitions of s, in the trie its children, as a set *)
(* and in the order of the bytes.                                          *)
Children(s) == {trie.next[s][b] : b \in Alphabet} \ {0}
InOrder(row) == FlattenSeq([i \in DOMAIN Bytes |->
                              IF row[Bytes[i]] = 0 THEN <<>> ELSE <<row[Bytes[i]]>>])

(* Absent children are queued too. *)
MutSeed ==
    /\ pc = "trie" /\ done = Len(Words(match))
    /\ queue' = [i \in DOMAIN Bytes |-> trie.next[0][Bytes[i]]]
    /\ pc' = "bfs"
    /\ UNCHANGED <<tab, match, ac, done, trie, head, fail, scan>>

(* The root's children start the queue. *)
Seed ==
    /\ pc = "trie" /\ done = Len(Words(match))
    /\ queue' = InOrder(trie.next[0])
    /\ pc' = "bfs"
    /\ UNCHANGED <<tab, match, ac, done, trie, head, fail, scan>>

(* A child's link leads to the child. *)
MutFailLinks(s) == [v \in Children(s) |-> v]

(* The fail links of the children of s: where the fail state of s goes on  *)
(* the same byte.                                                          *)
FailLinks(s) ==
    [v \in Children(s) |->
       trie.next[fail[s]][CHOOSE b \in Alphabet : trie.next[s][b] = v]]

(* Only a state without an output of its own takes that of its fail state. *)
MutUnited(out, link) ==
    [v \in DOMAIN out |-> IF v \in DOMAIN link /\ out[v] = {} THEN out[link[v]]
                          ELSE out[v]]

(* A child has the outputs that end at its fail state, too. *)
United(out, link) ==
    [v \in DOMAIN out |-> IF v \in DOMAIN link THEN out[v] \cup out[link[v]]
                          ELSE out[v]]

(* One state leaves the queue: its children get their links and outputs    *)
(* and are queued, and a missing transition becomes that of the fail       *)
(* state.  Neither the fail state nor what the links lead to is as deep as *)
(* the children, so that the order of the bytes only orders the queue.     *)
Dequeue ==
    LET s == queue[head]
        row == trie.next[s]
        link == FailLinks(s)
    IN  /\ pc = "bfs" /\ head <= Len(queue)
        /\ trie' = [trie EXCEPT !.next[s] = [b \in Alphabet |->
                                     IF row[b] = 0 THEN trie.next[fail[s]][b] ELSE row[b]],
                                !.out = United(@, link), !.rout = United(@, link)]
        /\ fail' = [v \in DOMAIN fail |-> IF v \in DOMAIN link THEN link[v] ELSE fail[v]]
        /\ queue' = queue \o InOrder(row)
        /\ head' = head + 1
        /\ UNCHANGED <<tab, pc, match, ac, done, scan>>

(* The decoded automaton is built again and again. *)
MutBuilt ==
    /\ pc = "bfs" /\ head > Len(queue)
    /\ ac' = [ac EXCEPT ![match] = trie]
    /\ pc' = IF match = "decoded" THEN "size" ELSE "ready"
    /\ UNCHANGED <<tab, scan, build>>

(* The scratch is freed; init goes on to the raw automaton, then is done. *)
Built ==
    /\ pc = "bfs" /\ head > Len(queue)
    /\ ac' = [ac EXCEPT ![match] = trie]
    /\ pc' = IF match = "decoded" THEN "size" ELSE "ready"
    /\ match' = "raw"
    /\ queue' = <<>> /\ head' = 1 /\ fail' = <<>> /\ trie' = NoAc
    /\ UNCHANGED <<tab, done, scan>>

----------------------------------------------------------------------------
(* Normalisation                                                           *)

PERCENT == 37
PLUS == 43
SPACE == 32

Lower(b) == IF b \in Capital THEN b + 32 ELSE b
ngx_strlow(t) == [i \in DOMAIN t |-> Lower(t[i])]

HexDigit(b) == CASE b \in 48 .. 57 -> b - 48
                 [] Lower(b) \in 97 .. 102 -> Lower(b) - 87
                 [] OTHER -> 16

(* ngx_unescape_uri (external): one pass; after "%", a byte that is no hex *)
(* digit is kept without the "%", and a bad second digit drops all three.  *)
(* high is 16 outside an escape, 17 after "%", then the first digit.       *)
UnescapeByte(at, b) ==
    CASE at.high = 16 /\ b = PERCENT -> [at EXCEPT !.high = 17]
      [] at.high = 16 /\ b # PERCENT -> [at EXCEPT !.dst = Append(@, b)]
      [] at.high = 17 /\ HexDigit(b) < 16 -> [at EXCEPT !.high = HexDigit(b)]
      [] at.high = 17 /\ HexDigit(b) = 16 -> [high |-> 16, dst |-> Append(at.dst, b)]
      [] at.high < 16 /\ HexDigit(b) < 16 ->
           [high |-> 16, dst |-> Append(at.dst, 16 * at.high + HexDigit(b))]
      [] OTHER -> [at EXCEPT !.high = 16]

ngx_unescape_uri(t) ==
    LET at[i \in 0 .. Len(t)] == IF i = 0 THEN [high |-> 16, dst |-> <<>>]
                                 ELSE UnescapeByte(at[i - 1], t[i])
    IN  at[Len(t)].dst

PlusToSpace(t) == [i \in DOMAIN t |-> IF t[i] = PLUS THEN SPACE ELSE t[i]]

MutDecoded(t) == PlusToSpace(ngx_unescape_uri(t))

Decoded(t) == ngx_strlow(PlusToSpace(ngx_unescape_uri(t)))

----------------------------------------------------------------------------
(* The scan                                                                *)

(* The state after each byte; one that is in no word leads to the root. *)
States(a, t) ==
    LET s[i \in 0 .. Len(t)] == IF i > 0 /\ t[i] \in DOMAIN a.next[0]
                                  THEN a.next[s[i - 1]][t[i]] ELSE 0
    IN  s

Live(f, s, mask) == ac[f].out[s] \ mask

(* The best of several categories is the one with the lowest table row. *)
Best(f, cats) == CHOOSE c \in cats : \A d \in cats : Row(f, c) <= Row(f, d)

Least(S) == CHOOSE i \in S : \A j \in S : i <= j

(* One pass: the first state that accepts a live category decides, and the *)
(* AND-rules are tried when none does.                                     *)
ac_scan(f, t, mask) ==
    LET s == States(ac[f], t)
        hits == {i \in DOMAIN t : Live(f, s[i], mask) # {}}
        seen == UNION {ac[f].rout[s[i]] : i \in DOMAIN t}
        complete == {i \in DOMAIN tab.rules :
                       /\ Need(f, i) # {} /\ Need(f, i) \subseteq seen
                       /\ tab.rules[i].cat \notin mask
                       /\ Row(f, tab.rules[i].cat) <= NCATEGORIES}
    IN  CASE hits # {} -> Best(f, Live(f, s[Least(hits)], mask))
          [] hits = {} /\ complete # {} -> tab.rules[Least(complete)].cat
          [] OTHER -> NoHit

scan_input(t, mask) ==
    LET raw == ac_scan("raw", ngx_strlow(t), mask)
    IN  IF raw # NoHit THEN raw ELSE ac_scan("decoded", Decoded(t), mask)

Scan ==
    /\ pc = "ready"
    /\ \E t \in Texts(tab), m \in Skips(tab) :
          text' = t /\ skip' = m /\ hit' = scan_input(t, m)
    /\ pc' = "scanned"
    /\ UNCHANGED <<tab, ac, build>>

(* The hit goes back to the caller. *)
Return ==
    /\ pc = "scanned" /\ pc' = "ready"
    /\ text' = NoText /\ skip' = {} /\ hit' = NoHit
    /\ UNCHANGED <<tab, ac, build>>

Refused == pc = "refused" /\ UNCHANGED vars

Build == Size \/ Insert \/ Seed \/ Dequeue \/ Built
Next == Build \/ Scan \/ Return \/ Refused

(* init runs in one process and waits for nothing. *)
Spec == Init /\ [][Next]_vars /\ WF_vars(Build)

----------------------------------------------------------------------------
(* Properties                                                              *)

(* No state index leaves next[], out[], rout[], fail[] and queue[], which  *)
(* hold Cap entries ("the BFS below never creates a state, so this is      *)
(* never exceeded"), and no state is queued twice.                         *)
InBounds ==
    pc \in {"trie", "bfs"} =>
       /\ trie.nstates <= Cap(match)
       /\ \A s \in DOMAIN trie.next : \A b \in Alphabet :
             trie.next[s][b] < trie.nstates
       /\ Len(queue) < Cap(match)
       /\ \A i, j \in DOMAIN queue : queue[i] = queue[j] => i = j

(* "fail(s) is already flattened into next[] by the time s is dequeued,    *)
(* because BFS visits s's parent before s".                                *)
FailIsFlat ==
    pc = "bfs" /\ head <= Len(queue) =>
       fail[queue[head]] \in {0} \cup ToSet(SubSeq(queue, 1, head - 1))

EndsAt(w, t, i) == Len(w) <= i /\ \A k \in DOMAIN w : w[k] = t[i - Len(w) + k]
Occurs(w, t) == \E i \in DOMAIN t : EndsAt(w, t, i)

(* What a scan of the normalised buffer t must report, found without an    *)
(* automaton: the signature that ends first, the lowest table row among    *)
(* those that end there, otherwise the first rule that is complete.        *)
Wanted(f, t, mask) ==
    LET rowsAt(i) == {r \in 1 .. NCATEGORIES :
                        /\ f \in tab.categories[r].bufs
                        /\ tab.categories[r].cat \notin mask
                        /\ \E j \in DOMAIN tab.categories[r].sigs :
                              EndsAt(tab.categories[r].sigs[j], t, i)}
        ends == {i \in DOMAIN t : rowsAt(i) # {}}
        complete == {k \in DOMAIN tab.rules :
                   /\ f \in tab.rules[k].bufs /\ tab.rules[k].cat \notin mask
                   /\ \A j \in DOMAIN tab.rules[k].terms : Occurs(tab.rules[k].terms[j], t)}
    IN  IF ends # {}
          THEN tab.categories[Least(rowsAt(Least(ends)))].cat
        ELSE IF complete # {}
          THEN tab.rules[Least(complete)].cat
        ELSE NoHit

(* The automata find exactly the signatures and rules that occur: no       *)
(* category is dropped where words overlap, share a state or are skipped,  *)
(* and the raw form is tried before the decoded one (scan_input).          *)
ScanIsExact ==
    pc = "scanned" =>
       hit = LET raw == Wanted("raw", ngx_strlow(text), skip)
             IN  IF raw # NoHit THEN raw ELSE Wanted("decoded", Decoded(text), skip)

Upper(b) == IF b \in 97 .. 122 THEN b - 32 ELSE b
Digit(n) == IF n < 10 THEN n + 48 ELSE n + 87
Encode(t) == FlattenSeq([i \in DOMAIN t |->
                           <<PERCENT, Digit(t[i] \div 16), Digit(t[i] % 16)>>])

(* Percent-encoding, case and "+" for a space hide nothing that the        *)
(* decoded automaton finds in a plain text, and the decoded copy never     *)
(* outgrows its buffer of len bytes (ngx_http_shield_scan_input).          *)
EncodingHidesNothing ==
    LET upper == [i \in DOMAIN text |-> Upper(text[i])]
        plus == [i \in DOMAIN text |-> IF text[i] = SPACE THEN PLUS ELSE text[i]]
    IN  pc = "scanned" =>
           /\ Len(Decoded(text)) <= Len(text)
           /\ /\ ToSet(text) \cap {PERCENT, PLUS} = {}
              /\ ac_scan("decoded", text, skip) # NoHit
              => \A t \in {upper, plus, Encode(text), Encode(upper)} :
                    scan_input(t, skip) # NoHit

(* init comes to an end: every state is dequeued once.                     *)
BuildEnds == <>(pc \in {"ready", "scanned", "refused"})
=============================================================================
