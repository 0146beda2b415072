--------------------------- MODULE MCShieldRequest ---------------------------
(* Instances of ShieldRequest for TLC. *)
EXTENDS ShieldRequest, TLC

CONSTANTS r1, r2

MCHeader(name, has, gone, text) ==
    [name |-> name, has |-> has, gone |-> gone, text |-> text]
Plain(name, has) == MCHeader(name, has, FALSE, FALSE)

MCRequest(client, path, query, across, headers, length, chunked, body) ==
    [main |-> TRUE, client |-> client, path |-> path, query |-> query,
     across |-> across, uri |-> {}, headers |-> headers, ranges |-> 0,
     length |-> length, chunked |-> chunked, body |-> body]

Quiet(client) == MCRequest(client, {}, {}, {}, <<>>, 0, FALSE, <<>>)

Conf(mode, body, max, skip, zn, count) ==
    [mode |-> mode, body |-> body, max_body |-> max, skip |-> skip,
     zone |-> zn, count |-> count]

(* Targets: categories that stay silent in a query, and an AND-rule whose  *)
(* terms lie on both sides of the "?".                                     *)
MCTargets ==
    {MCRequest("c1", p, q, a, h, 0, FALSE, <<>>) :
       p \in {{}, {"xss"}, {"sqli"}},
       q \in {{}, {"xss"}, {"remoting=true"}},
       a \in {{}, {"/cli?"}},
       h \in {<<>>, <<Plain("Proxy", {})>>, <<MCHeader("Referer", {"xss"}, TRUE, FALSE)>>}}

(* Headers: repeated fields, and fields with masks of their own. *)
MCNames == {"User-Agent", "Content-Type", "Cookie", "X-Api-Key"}
MCHeaders ==
    {MCRequest("c1", {}, {}, {},
             <<Plain(n[1], t[1]), Plain(n[2], t[2])>>, 0, FALSE, <<>>) :
       n \in MCNames \X MCNames,
       t \in {{}, {"template"}, {"webshell"}} \X {{}, {"java_rce"}, {"webshell"}}}

(* Bodies in memory and in files, around the limit, with and without a     *)
(* length, behind one or two Content-Type fields.                          *)
MCBlocks == {<<>>, <<{}>>, <<{"sqli"}>>, <<{}, {"sqli"}>>, <<{"xss"}>>,
             <<{"jdbc:h2:", "init="}>>, <<{"jdbc:h2:"}, {"init="}>>}
MCBuffers == {<<>>} \cup
    {<<[file |-> FALSE, data |-> d[1]], [file |-> TRUE, data |-> d[2]]>> :
       d \in MCBlocks \X {<<>>, <<{"sqli"}>>, <<{"init="}, {}>>}}
MCTypes == {<<>>, <<MCHeader("Content-Type", {}, FALSE, FALSE)>>,
            <<MCHeader("Content-Type", {}, FALSE, FALSE),
              MCHeader("Content-Type", {}, FALSE, TRUE)>>}
MCBodies ==
    {MCRequest("c1", {}, {}, {}, h, IF c THEN 0 ELSE Len(Blocks(b)), c, b) :
       h \in MCTypes, b \in MCBuffers, c \in BOOLEAN}

(* The walks over the decoded path, a Range header, a subrequest. *)
MCStructural ==
    {[[Quiet("c1") EXCEPT !.uri = u, !.ranges = n] EXCEPT !.main = m] :
       u \in SUBSET {"ctrl_char", "dotfile"},
       n \in {0, MAX_RANGES, MAX_RANGES + 1}, m \in BOOLEAN}

MCShapes == MCTargets \cup MCHeaders \cup MCBodies \cup MCStructural

MCConfs == {Conf("off", TRUE, 2, {}, FALSE, 1),
            Conf("detect", TRUE, 2, {}, FALSE, 1),
            Conf("block", TRUE, 3, {"sqli"}, FALSE, 1),
            Conf("block", TRUE, 2, {}, FALSE, 1),
            Conf("block", FALSE, 2, no_query_mask \cup {"dotfile"}, FALSE, 1)}

(* Locations with a ban zone.  In flight together: an attack in the target *)
(* or a quiet request, and an attack in the body, of the same client or of *)
(* another.                                                                *)
MCAttack(c) == [Quiet(c) EXCEPT !.path = {"sqli"}]
MCPost(c) == MCRequest(c, {}, {}, {}, <<>>, 1, FALSE,
                     <<[file |-> TRUE, data |-> <<{"sqli"}>>]>>)
MCZones == {Conf("detect", TRUE, 1, {}, TRUE, 1), Conf("block", TRUE, 1, {}, TRUE, 2)}
MCFirst == [q : {MCAttack("c1"), Quiet("c2")}, conf : MCZones]
MCSecond == [q : {MCPost("c1"), MCPost("c2")}, conf : MCZones]

(* Redirects: to an error page without the shield, and to one that         *)
(* inspects the request again.                                             *)
MCPages == {[uri |-> {}, conf |-> Conf("off", FALSE, 1, {}, FALSE, 1)],
            [uri |-> {"dotfile"}, conf |-> Conf("block", TRUE, 1, {"ctrl_char"}, TRUE, 2)]}

(* One request of any shape, one of a peer without an address, or two. *)
MCOne == {r1 :> a : a \in [q : MCShapes, conf : MCConfs]
                            \cup [q : {MCAttack("unix")}, conf : MCZones]}
MCTwo == {(r1 :> a) @@ (r2 :> b) : a \in MCFirst, b \in MCSecond}
MCTraffic == MCOne \cup MCTwo
=============================================================================
