---------------------------- MODULE ShieldAttack ----------------------------
(***************************************************************************)
(* Which requests are attacks: the occurrences of the enabled categories   *)
(* that have no benign reading where they occur, stated without scans,     *)
(* masks or an order of checks.                                            *)
(*                                                                         *)
(* A request is a record: whether it is a main request, the client's ban   *)
(* key, the sets of tokens in the path, in the query and across the "?",   *)
(* what the walks over the decoded path report, the headers in order, the  *)
(* number of ranges, and the body as a sequence of buffers of blocks.  A   *)
(* token is a category (one of its signatures occurs) or a term of an      *)
(* AND-rule.                                                               *)
(***************************************************************************)
EXTENDS ShieldTables

CONSTANT MAX_RANGES

(* A category, or a term of an AND-rule. *)
Tokens == TableCats \cup UNION {{rules[i].terms[n] : n \in DOMAIN rules[i].terms} :
                                 i \in DOMAIN rules}

(* The number of blocks in the buffers before buffer a of a body. *)
Before(body, a) ==
    Cardinality(UNION {{i} \X DOMAIN body[i].data : i \in 1 .. a - 1})

(* The tokens of the first max blocks of a body. *)
BodyTokens(body, max) ==
    UNION {UNION {body[i].data[j] : j \in {k \in DOMAIN body[i].data :
                                             Before(body, i) + k <= max}} :
             i \in DOMAIN body}

FullTable == {"User-Agent", "Referer", "Destination", "X-Original-URL",
              "X-Rewrite-URL"}
Everywhere == {"template", "shellshock"}
InContentType == {"java_rce", "crlf", "nullbyte", "overlong"}
InCookie == {"sqli", "xss", "cmdi", "lfi", "crlf", "nullbyte", "overlong",
             "php_rce", "java_rce", "java_eval", "nosql", "ssti"}

(* Category c is looked for in the value of a header of this name. *)
InHeader(c, name) ==
    \/ name \in FullTable
    \/ c \in Everywhere
    \/ name = "Content-Type" /\ c \in InContentType
    \/ name = "Cookie" /\ c \in InCookie

(* The categories that a set of tokens in one buffer shows. *)
Shown(tokens) ==
    (tokens \cap TableCats)
      \cup {rules[i].cat : i \in {k \in DOMAIN rules :
                                    \A n \in DOMAIN rules[k].terms :
                                       rules[k].terms[n] \in tokens}}

Silent(c, where) == \E i \in DOMAIN categories :
                       categories[i].cat = c /\ where \in categories[i].silent

(* The body is read and scanned at all: it is not empty, and no            *)
(* Content-Type is given or one of them is textual.                        *)
Textual(q) ==
    /\ q.length > 0 \/ q.chunked
    /\ LET ct == {i \in DOMAIN q.headers : q.headers[i].name = "Content-Type"}
       IN  ct = {} \/ \E i \in ct : q.headers[i].text

When(cond, S) == IF cond THEN S ELSE {}

(* The categories that occur in q where they mean an attack. *)
Occurring(q, cf) ==
    UNION {q.uri,
           When(\E i \in DOMAIN q.headers : q.headers[i].name = "Proxy", {"httpoxy"}),
           When(q.ranges > MAX_RANGES, {"range_dos"}),
           Shown(q.path),
           {c \in Shown(q.path \cup q.query \cup q.across) : ~ Silent(c, "query")},
           UNION {{c \in Shown(q.headers[i].has) : InHeader(c, q.headers[i].name)} :
                    i \in {j \in DOMAIN q.headers : ~ q.headers[j].gone}},
           When(cf.body /\ Textual(q),
                {c \in Shown(BodyTokens(q.body, cf.max_body)) : ~ Silent(c, "body")})}

Attack(q, cf) == Occurring(q, cf) \ cf.skip # {}
=============================================================================
