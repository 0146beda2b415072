--------------------------- MODULE ShieldRequest ---------------------------
(***************************************************************************)
(* The phase handler of ngx_http_shield_module.c: the ban check, the       *)
(* structural checks, the scans of the request target and of the headers,  *)
(* the body read that suspends the request and re-enters the handler, and  *)
(* the verdict.  Requests run in different workers, so they interleave     *)
(* between the locked calls; the ban list is seen through the answers that *)
(* is_banned and record give (ShieldBan has its inside) and a scan through *)
(* the categories that its buffer shows (ShieldScan has the automaton).    *)
(***************************************************************************)
EXTENDS ShieldAttack, SequencesExt

CONSTANTS
    Reqs,         \* request slots, each used once
    Traffic,      \* what the slots may be sent together: each a function
                  \* from slots to a request q and its location's conf
    Pages,        \* where internal redirects lead: what the new URI shows,
                  \* and its location's conf
    Keys,         \* ban keys of the clients
    NoKey,        \* ban key of a peer that has no address
    NoReq,        \* no request in the slot
    MaxFaults,    \* bound: allocations and file reads that fail
    MaxRedirects, \* bound: internal redirects of one request
    MaxLapses     \* bound: bans and counting windows that run out

Header == [name : STRING, has : SUBSET Tokens, gone : BOOLEAN, text : BOOLEAN]
Request ==
    [main : BOOLEAN, client : Keys \cup {NoKey}, path : SUBSET Tokens,
     query : SUBSET Tokens, across : SUBSET Tokens,
     uri : SUBSET {"ctrl_char", "dotfile"}, headers : Seq(Header), ranges : Nat,
     length : Nat, chunked : BOOLEAN,
     body : Seq([file : BOOLEAN, data : Seq(SUBSET Tokens)])]
Location ==
    [mode : {"off", "detect", "block"}, body : BOOLEAN, max_body : Nat,
     skip : SUBSET Cats, zone : BOOLEAN, count : Nat]

Arrivals == UNION {Range(t) : t \in Traffic}

(* The blocks of a body, in order. *)
Blocks(body) == FlattenSeq([i \in DOMAIN body |-> body[i].data])

ASSUME RequestAssumption ==
    /\ NoKey \notin Keys /\ MAX_RANGES \in Nat /\ MaxFaults \in Nat
    /\ MaxRedirects \in Nat /\ MaxLapses \in Nat
    /\ IsFiniteSet(Reqs) /\ NoReq \notin Request
    /\ \A t \in Traffic : DOMAIN t \subseteq Reqs
    /\ Arrivals \subseteq [q : Request, conf : Location]
    /\ Pages \subseteq [uri : SUBSET {"ctrl_char", "dotfile"}, conf : Location]

(* nginx reads no more of a body than its Content-Length says (external). *)
ASSUME LengthAssumption ==
    \A a \in Arrivals : a.q.length > 0 => Len(Blocks(a.q.body)) <= a.q.length

VARIABLES
    sent,      \* what clients send, a member of Traffic
    req,       \* req[r]: the request in slot r
    conf,      \* conf[r]: the configuration of its location
    pc,        \* pc[r]: what the worker that serves r does next
    hit,       \* hit[r]: the category of the hit in hand, or "none"
    ctx,       \* ctx[r]: the status in the module context, "none" without one
    score,     \* score[c]: hits of key c in its window
    banned,    \* keys under a ban
    blocked,   \* the zone's counter of denied requests
    cat_hits,  \* the zone's counters of hits by category
    logged,    \* logged[r]: hit records written for r
    unscanned, \* history: requests of which this pass left a buffer unscanned
    denials,   \* history: the passes <<r, redirects[r]>> that a hit denied
               \* in a location with a zone
    faults, redirects, lapses

vars == <<sent, req, conf, pc, hit, ctx, score, banned, blocked, cat_hits,
          logged, unscanned, denials, faults, redirects, lapses>>
zone == <<score, banned, blocked, cat_hits>>
static == <<sent, req, conf, redirects, lapses>>

Ends == {"passed", "denied", "failed", "aborted"}

TypeOK ==
    /\ sent \in Traffic
    /\ pc \in [Reqs -> {"idle", "handler", "inspect", "record", "count",
                        "respond", "reading", "body", "content"} \cup Ends]
    /\ req \in [Reqs -> Request \cup {NoReq}] /\ conf \in [Reqs -> Location \cup {NoReq}]
    /\ \A r \in Reqs : pc[r] = "idle" <=> req[r] = NoReq
    /\ hit \in [Reqs -> Cats \cup {"none"}]
    /\ ctx \in [Reqs -> {"none", "declined", "denied", "failed"}]
    /\ score \in [Keys -> Nat] /\ banned \subseteq Keys
    /\ blocked \in Nat /\ cat_hits \in [Cats -> Nat]
    /\ logged \in [Reqs -> Nat] /\ unscanned \subseteq Reqs
    /\ faults \in 0 .. MaxFaults /\ lapses \in 0 .. MaxLapses
    /\ redirects \in [Reqs -> 0 .. MaxRedirects]
    /\ denials \subseteq Reqs \X (0 .. MaxRedirects)

----------------------------------------------------------------------------
(* Structural checks, in the order of inspect_prebody.                     *)

check_httpoxy(q) == \E i \in DOMAIN q.headers : q.headers[i].name = "Proxy"

check_range(q) == q.ranges > MAX_RANGES

(* q.uri: which of the two shapes the decoded path has. *)
check_ctrl_char(q) == "ctrl_char" \in q.uri
check_dotfile(q) == "dotfile" \in q.uri

StructuralOrder == <<"httpoxy", "range_dos", "ctrl_char", "dotfile">>

(* The positions in that order of the checks that hit. *)
StructuralHits(q, skip) ==
    {i \in DOMAIN StructuralOrder :
       /\ StructuralOrder[i] \notin skip
       /\ CASE StructuralOrder[i] = "httpoxy" -> check_httpoxy(q)
            [] StructuralOrder[i] = "range_dos" -> check_range(q)
            [] StructuralOrder[i] = "ctrl_char" -> check_ctrl_char(q)
            [] OTHER -> check_dotfile(q)}

----------------------------------------------------------------------------
(* Scans: what is scanned, and the categories masked out of it.            *)

Buffer(tokens, skip) == [tokens |-> tokens, skip |-> skip]

UriScans(q, skip) ==
    <<Buffer(q.path \cup q.query \cup q.across, skip \cup no_query_mask)>>
      \o IF no_query_mask \subseteq skip THEN <<>>
         ELSE <<Buffer(q.path, skip \cup (Cats \ no_query_mask))>>

generic_allowed == {"template", "shellshock"}

HeaderSkip(name, skip) ==
    CASE name \in {"User-Agent", "Referer", "Destination", "X-Original-URL",
                   "X-Rewrite-URL"} -> skip
      [] name = "Content-Type" ->
           skip \cup (Cats \ (generic_allowed
                                \cup {"java_rce", "crlf", "nullbyte", "overlong"}))
      [] name = "Cookie" ->
           skip \cup (Cats \ (generic_allowed
                                \cup {"sqli", "xss", "cmdi", "lfi", "crlf", "nullbyte",
                                      "overlong", "php_rce", "java_rce", "java_eval",
                                      "nosql", "ssti"}))
      [] OTHER -> skip \cup (Cats \ generic_allowed)

(* A header that nginx has removed, or an empty one, shows nothing. *)
Value(h) == IF h.gone THEN {} ELSE h.has

(* Per-field policy for the first instance of a field only. *)
MutHeaderFirst(q, skip) ==
    [i \in DOMAIN q.headers |->
       Buffer(Value(q.headers[i]),
              HeaderSkip(IF \E j \in 1 .. i - 1 : q.headers[j].name = q.headers[i].name
                           THEN "" ELSE q.headers[i].name, skip))]

HeaderScans(q, skip) ==
    [i \in DOMAIN q.headers |->
       Buffer(Value(q.headers[i]), HeaderSkip(q.headers[i].name, skip))]

PrebodyScans(q, skip) == UriScans(q, skip) \o HeaderScans(q, skip)

----------------------------------------------------------------------------
(* The categories that one scan may report: a signature or an AND-rule     *)
(* whose category is not masked.  Which of them wins is ShieldScan's.      *)
scan_input(b) ==
    ((b.tokens \cap TableCats)
       \cup {rules[i].cat : i \in {k \in DOMAIN rules :
                                     ToSet(rules[k].terms) \subseteq b.tokens}}) \ b.skip

(* A sequence of scans ends at its first hit. *)
FirstHit(scans) ==
    LET found == [i \in DOMAIN scans |-> scan_input(scans[i])]
        hits == {i \in DOMAIN scans : found[i] # {}}
    IN  IF hits = {} THEN {} ELSE found[Min(hits)]

(* An allocation before some scan fails. *)
MayFault == faults < MaxFaults

----------------------------------------------------------------------------
(* The body.                                                               *)

scannable_body(q) ==
    /\ q.length > 0 \/ q.chunked
    /\ LET ct == {i \in DOMAIN q.headers : q.headers[i].name = "Content-Type"}
       IN  ct = {} \/ \E i \in ct : q.headers[i].text

Limit(q, max) == IF q.length > 0 /\ max > q.length THEN q.length ELSE max

(* The blocks that are copied out for the scan. *)
Collected(q, max) ==
    LET all == Blocks(q.body)
    IN  SubSeq(all, 1, IF Len(all) < Limit(q, max) THEN Len(all) ELSE Limit(q, max))

MutBodyUnmasked(blocks, skip) ==
    IF blocks = <<>> THEN <<>> ELSE <<Buffer(UNION ToSet(blocks), skip)>>

BodyScan(blocks, skip) ==
    IF blocks = <<>> THEN <<>>
    ELSE <<Buffer(UNION ToSet(blocks), skip \cup no_body_mask)>>

----------------------------------------------------------------------------
Init ==
    /\ sent \in Traffic
    /\ req = [r \in Reqs |-> NoReq] /\ conf = [r \in Reqs |-> NoReq]
    /\ pc = [r \in Reqs |-> "idle"]
    /\ hit = [r \in Reqs |-> "none"] /\ ctx = [r \in Reqs |-> "none"]
    /\ score = [c \in Keys |-> 0] /\ banned = {}
    /\ blocked = 0 /\ cat_hits = [c \in Cats |-> 0]
    /\ logged = [r \in Reqs |-> 0]
    /\ unscanned = {} /\ denials = {} /\ faults = 0 /\ lapses = 0
    /\ redirects = [r \in Reqs |-> 0]

Goto(r, l) == pc' = [pc EXCEPT ![r] = l]

(* A request reaches the phase (nginx; external). *)
Arrive(r) ==
    /\ pc[r] = "idle" /\ r \in DOMAIN sent
    /\ req' = [req EXCEPT ![r] = sent[r].q]
    /\ conf' = [conf EXCEPT ![r] = sent[r].conf]
    /\ Goto(r, "handler")
    /\ UNCHANGED <<sent, hit, ctx, zone, logged, unscanned, denials, faults,
                   redirects, lapses>>

is_banned(r) == conf[r].zone /\ req[r].client \in banned

(* This pass ends in a denial for a hit. *)
Denied(r) ==
    denials' = IF conf[r].zone THEN denials \cup {<<r, redirects[r]>>} ELSE denials

(* What the phase engine does with a status. *)
Returned == [declined |-> "content", denied |-> "denied", failed |-> "failed"]

(* Bans are checked on the way back from the body read as well. *)
MutHandlerNoCtx(r) ==
    /\ pc[r] = "handler"
    /\ Goto(r, IF ~ req[r].main \/ conf[r].mode = "off" THEN "content"
               ELSE IF is_banned(r) THEN "denied"
               ELSE IF ctx[r] # "none" THEN "content" ELSE "inspect")
    /\ UNCHANGED <<static, hit, ctx, zone, logged, unscanned, denials, faults>>

(* The re-entry is not told from the first. *)
MutHandlerForgets(r) ==
    /\ pc[r] = "handler"
    /\ Goto(r, IF ~ req[r].main \/ conf[r].mode = "off" THEN "content"
               ELSE IF is_banned(r) THEN "denied" ELSE "inspect")
    /\ UNCHANGED <<static, hit, ctx, zone, logged, unscanned, denials, faults>>

(* handler, up to the inspection; is_banned is its locked call. *)
Handler(r) ==
    /\ pc[r] = "handler"
    /\ Goto(r, IF ~ req[r].main \/ conf[r].mode = "off" THEN "content"
               ELSE IF ctx[r] # "none" THEN Returned[ctx[r]]
               ELSE IF is_banned(r) THEN "denied" ELSE "inspect")
    /\ IF pc'[r] = "denied" /\ ctx[r] = "denied" THEN Denied(r) ELSE UNCHANGED denials
    /\ UNCHANGED <<static, hit, ctx, zone, logged, unscanned, faults>>

Hit(r, c) ==
    /\ hit' = [hit EXCEPT ![r] = c]
    /\ Goto(r, IF conf[r].zone THEN "record" ELSE "respond")
    /\ UNCHANGED <<ctx, unscanned, faults>>

(* The status goes to the phase engine, or to the body handler's context,  *)
(* which the re-entered handler returns.                                   *)
Status(r, status) ==
    IF ctx[r] = "none" THEN Goto(r, Returned[status]) /\ UNCHANGED ctx
    ELSE Goto(r, "handler") /\ ctx' = [ctx EXCEPT ![r] = status]

(* The body handler stores NGX_ERROR as it is. *)
MutFailRaw(r) ==
    /\ MayFault
    /\ faults' = faults + 1 /\ unscanned' = unscanned \cup {r}
    /\ Goto(r, "handler") /\ ctx' = [ctx EXCEPT ![r] = "error"]
    /\ UNCHANGED hit

(* ngx_http_shield_fail *)
Fail(r) ==
    /\ MayFault
    /\ faults' = faults + 1 /\ unscanned' = unscanned \cup {r}
    /\ Status(r, IF conf[r].mode = "block" THEN "failed" ELSE "declined")
    /\ UNCHANGED hit

(* No hit before the body: read it, or decline. *)
Clean(r) ==
    /\ UNCHANGED <<hit, unscanned>>
    /\ IF conf[r].body /\ scannable_body(req[r])
         THEN \/ /\ ctx' = [ctx EXCEPT ![r] = "declined"]
                 /\ Goto(r, "reading") /\ UNCHANGED faults
              \/ /\ MayFault /\ faults' = faults + 1  \* no memory for the context
                 /\ Goto(r, "failed") /\ UNCHANGED ctx
         ELSE Goto(r, "content") /\ UNCHANGED <<ctx, faults>>

Inspect(r) ==
    LET skip == conf[r].skip
        structural == StructuralHits(req[r], skip)
        found == FirstHit(PrebodyScans(req[r], skip))
    IN  /\ pc[r] = "inspect"
        /\ IF structural # {} THEN Hit(r, StructuralOrder[Min(structural)])
           ELSE \/ \E c \in found : Hit(r, c)
                \/ Fail(r)
                \/ found = {} /\ Clean(r)
        /\ UNCHANGED <<static, zone, logged, denials>>

(* The body is complete, or reading it ends the request (too large, a      *)
(* timeout, a lost client): nginx; external.                               *)
ReadBody(r) ==
    /\ pc[r] = "reading"
    /\ Goto(r, "body") \/ Goto(r, "aborted")
    /\ UNCHANGED <<static, hit, ctx, zone, logged, unscanned, denials, faults>>

(* The phases are never resumed: the read starts again. *)
MutBodyRereads(r) ==
    /\ pc[r] = "body" /\ Goto(r, "reading")
    /\ UNCHANGED <<static, hit, ctx, zone, logged, unscanned, denials, faults>>

(* ngx_http_shield_body_handler *)
BodyHandler(r) ==
    LET max == conf[r].max_body
        wanted == req[r].body # <<>> /\ max > 0
        blocks == IF wanted THEN Collected(req[r], max) ELSE <<>>
        found == FirstHit(BodyScan(blocks, conf[r].skip))
    IN  /\ pc[r] = "body"
        /\ \/ /\ wanted /\ Fail(r)   \* the copy, the file or the scratch
           \/ \E c \in found : Hit(r, c)
           \/ /\ found = {} /\ Status(r, "declined")
              /\ UNCHANGED <<hit, unscanned, faults>>
        /\ UNCHANGED <<static, zone, logged, denials>>

----------------------------------------------------------------------------
(* ngx_http_shield_act: record, count, log and answer.                     *)

(* ban_record: a full zone drops the hit; at the threshold the ban is armed *)
(* and counting starts again.                                              *)
Record(r) ==
    LET c == req[r].client
        armed == score[c] + 1 >= conf[r].count
    IN  /\ pc[r] = "record"
        /\ \/ UNCHANGED <<score, banned>>
           \/ /\ c # NoKey
              /\ score' = [score EXCEPT ![c] = IF armed THEN 0 ELSE @ + 1]
              /\ banned' = IF armed THEN banned \cup {c} ELSE banned
        /\ Goto(r, "count")
        /\ UNCHANGED <<static, hit, ctx, blocked, cat_hits, logged, unscanned,
                       denials, faults>>

MutCountDetected(r) ==
    /\ pc[r] = "count"
    /\ cat_hits' = [cat_hits EXCEPT ![hit[r]] = @ + 1]
    /\ blocked' = blocked + 1
    /\ Goto(r, "respond")
    /\ UNCHANGED <<static, hit, ctx, score, banned, logged, unscanned, denials,
                   faults>>

(* ban_count *)
Count(r) ==
    /\ pc[r] = "count"
    /\ cat_hits' = [cat_hits EXCEPT ![hit[r]] = @ + 1]
    /\ blocked' = IF conf[r].mode = "block" THEN blocked + 1 ELSE blocked
    /\ Goto(r, "respond")
    /\ UNCHANGED <<static, hit, ctx, score, banned, logged, unscanned, denials,
                   faults>>

(* write_log and the verdict. *)
Respond(r) ==
    /\ pc[r] = "respond"
    /\ logged' = [logged EXCEPT ![r] = @ + 1]
    /\ hit' = [hit EXCEPT ![r] = "none"]
    /\ Status(r, IF conf[r].mode = "block" THEN "denied" ELSE "declined")
    /\ IF pc'[r] = "denied" THEN Denied(r) ELSE UNCHANGED denials
    /\ UNCHANGED <<static, zone, unscanned, faults>>

----------------------------------------------------------------------------
(* nginx around the module (external).                                     *)

(* The content handler answers. *)
Serve(r) ==
    /\ pc[r] = "content"
    /\ Goto(r, "passed")
    /\ UNCHANGED <<static, hit, ctx, zone, logged, unscanned, denials, faults>>

(* index, try_files or error_page (after a status of the module or a body *)
(* that nginx refuses too) sends the request through the phases again:     *)
(* nginx clears the module contexts, takes the new location's conf, and    *)
(* keeps unparsed_uri, the headers and what it has of the body.            *)
Redirect(r) ==
    /\ pc[r] \in {"content", "denied", "failed", "aborted"}
    /\ redirects[r] < MaxRedirects
    /\ redirects' = [redirects EXCEPT ![r] = @ + 1]
    /\ \/ UNCHANGED <<req, conf>>
       \/ \E p \in Pages : /\ req' = [req EXCEPT ![r].uri = p.uri]
                           /\ conf' = [conf EXCEPT ![r] = p.conf]
    /\ ctx' = [ctx EXCEPT ![r] = "none"]
    /\ unscanned' = unscanned \ {r}
    /\ Goto(r, "handler")
    /\ UNCHANGED <<sent, hit, zone, logged, denials, faults, lapses>>

(* A ban or a counting window runs out. *)
Lapse(c) ==
    /\ lapses < MaxLapses /\ lapses' = lapses + 1
    /\ \/ c \in banned /\ banned' = banned \ {c} /\ UNCHANGED score
       \/ score[c] > 0 /\ score' = [score EXCEPT ![c] = 0] /\ UNCHANGED banned
    /\ UNCHANGED <<sent, req, conf, pc, hit, ctx, blocked, cat_hits, logged,
                   unscanned, denials, faults, redirects>>

Work(r) == Handler(r) \/ Inspect(r) \/ ReadBody(r) \/ BodyHandler(r)
             \/ Record(r) \/ Count(r) \/ Respond(r) \/ Serve(r)

(* Every request that came is answered. *)
Done == (\A r \in Reqs : pc[r] \in Ends \cup {"idle"}) /\ UNCHANGED vars

Next ==
    \/ \E r \in Reqs : Arrive(r) \/ Work(r) \/ Redirect(r)
    \/ \E c \in Keys : Lapse(c)
    \/ Done

(* A worker never blocks in the module, and client_body_timeout ends a     *)
(* read that the client does not complete.                                 *)
Spec == Init /\ [][Next]_vars /\ \A r \in Reqs : WF_vars(Work(r))

----------------------------------------------------------------------------
(* Properties                                                              *)

(* The policy's view: a request in its location, and how far it has got. *)
OpenView == [r \in Reqs |-> IF pc[r] = "idle" THEN NoReq
                            ELSE [q |-> req[r], conf |-> conf[r]]]
StateView == [r \in Reqs |-> CASE pc[r] \in {"idle", "passed", "denied"} -> pc[r]
                               [] pc[r] \in {"failed", "aborted"} -> "failed"
                               [] OTHER -> "open"]

Policy == INSTANCE ShieldPolicy WITH
    NoArrival <- NoReq, open <- OpenView, state <- StateView

(* The order of the checks, the two passes over the target, the masks, the *)
(* suspended body read and the interleaving of requests implement the      *)
(* policy: what is allowed to pass, to be denied and to ban.               *)
ImplementsPolicy == Policy!Spec

(* "An unscanned buffer is not a clean one" (ngx_http_shield_fail): no     *)
(* location in block mode serves a request of which it left a buffer       *)
(* unscanned or in which one of its categories occurs as an attack, also   *)
(* not one that came to it by an internal redirect.                        *)
BlockFailsClosed ==
    \A r \in Reqs : /\ pc[r] \in {"content", "passed"}
                    /\ req[r].main /\ conf[r].mode = "block"
                    => r \notin unscanned /\ ~ Attack(req[r], conf[r])

(* A hit denies this pass, but the answer is still to be given, or the     *)
(* re-entered handler is to return what the body showed.                   *)
Denying(r) ==
    /\ pc[r] = "respond" \/ (pc[r] = "handler" /\ ctx[r] = "denied")
    /\ conf[r].zone /\ conf[r].mode = "block"

DeniedPasses == denials \cup {<<r, redirects[r]>> : r \in {s \in Reqs : Denying(s)}}

(* The blocked counter (ban_count) is the number of passes that a hit      *)
(* denied in a location with a zone, once each, whatever runs in between:  *)
(* neither a ban nor the re-entry after the body adds to it, and no        *)
(* denial is left out.  It is a number of passes, not of requests: where   *)
(* error_page sends a denied request to a location that inspects it, the   *)
(* same hit is recorded, counted and logged again.                         *)
BlockedAddsUp == blocked = Cardinality(DeniedPasses)

(* Every request that reaches the phase is answered: no path through the   *)
(* suspended body read and the re-entry leaves it hanging.                 *)
Answered == \A r \in Reqs : pc[r] = "handler" ~> pc[r] \in Ends

(* A hit is handled on its own merits ("this one is still handled on its   *)
(* own merits", ngx_http_shield_act): whatever other requests do to the    *)
(* ban list while a body is read and the handler is re-entered, a request  *)
(* with a hit ends denied in block mode and served in detect mode.  Only   *)
(* an internal redirect, which sends it to the handler again, may end a    *)
(* detected one otherwise: the ban that it armed itself is found then.     *)
HandledOnItsMerits ==
    \A r \in Reqs :
       /\ hit[r] # "none" /\ conf[r].mode = "block" ~> pc[r] = "denied"
       /\ hit[r] # "none" /\ conf[r].mode = "detect"
            ~> pc[r] = "passed" \/ (redirects[r] > 0 /\ pc[r] \in Ends)

(* A request is inspected once for each time nginx sends it through the    *)
(* phases: neither the re-entry after its body nor a hit in both parts     *)
(* leaves a second record or counts it twice.                              *)
OneRecordPerPass == \A r \in Reqs : logged[r] <= 1 + redirects[r]
=============================================================================
