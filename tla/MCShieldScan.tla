----------------------------- MODULE MCShieldScan -----------------------------
(* Instances of ShieldScan for TLC. *)
EXTENDS ShieldScan

Cat(c, bufs, sigs) == [cat |-> c, bufs |-> bufs, sigs |-> sigs]
Rule(c, bufs, terms) == [cat |-> c, bufs |-> bufs, terms |-> terms]
Both == {"decoded", "raw"}

(* Words over two letters that overlap, contain and repeat each other. *)
a == 97
b == 98
MCWords == {<<a>>, <<b>>, <<a, a>>, <<a, b>>, <<b, a>>, <<a, b, a>>, <<b, a, b>>,
            <<a, a, b>>}

(* Three categories and two rules: "x" is decoded only, and the raw rule   *)
(* reports it.                                                             *)
MCOverlaps ==
    {[categories |-> <<Cat("x", {"decoded"}, <<u>>), Cat("y", Both, <<v, w>>),
                       Cat("z", {"raw"}, <<<<b, b, b>>>>)>>,
      rules |-> <<Rule("x", {"raw"}, <<<<b, a>>, <<a, a>>>>),
                  Rule("z", {"decoded"}, <<<<b, b>>, u>>)>>] :
       u \in MCWords, v \in MCWords, w \in MCWords}

MCStrings(alphabet, n) == UNION {[1 .. k -> alphabet] : k \in 1 .. n}
MCLetters == MCStrings({a, b}, 4)

(* "../" in the decoded form, "%00" and "%2e%2e" in the raw one, and an    *)
(* AND-rule with a space in a term.                                        *)
MCTraversal ==
    {[categories |-> <<Cat("traversal", {"decoded"}, <<<<46, 46, 47>>>>),
                       Cat("overlong", {"raw"}, <<<<37, 48, 48>>>>),
                       Cat("double", {"raw"}, <<<<37, 50, 53, 50, 101>>>>)>>,
      rules |-> <<Rule("traversal", {"decoded"}, <<<<a, 32, b>>, <<47>>>>)>>]}

(* Pieces of a request line: dots and slashes plain and encoded in either  *)
(* case, "%25" for double encoding, "%00", "+", letters in either case,    *)
(* truncated and invalid escapes.                                          *)
MCPieces == {<<46>>, <<37, 50, 101>>, <<37, 50, 69>>, <<47>>, <<37, 50, 70>>,
             <<37, 50, 53>>, <<50, 101>>, <<37, 48, 48>>, <<43>>, <<65>>, <<a>>,
             <<66>>, <<37>>, <<37, 103>>, <<37, 50>>}
MCLines == {FlattenSeq(p) : p \in UNION {[1 .. k -> MCPieces] : k \in 1 .. 3}}
             \cup {<<65, 43, 66, 37>> \o p : p \in MCPieces}
             \cup {<<x, y, z>> \o p : x \in {a, 65}, y \in {32, 43}, z \in {b, 66},
                                       p \in MCPieces}

MCBytes(t) == IF t \in MCTraversal THEN <<32, 37, 46, 47, 48, 50, 53, 97, 98, 101>>
              ELSE <<a, b>>
MCCategories == {"x", "y", "z", "traversal", "overlong", "double"}
MCTables == MCOverlaps \cup MCTraversal
MCTexts(t) == IF t \in MCTraversal THEN MCLines ELSE MCLetters
MCSkips(t) == IF t \in MCTraversal THEN {{}, {"overlong"}}
              ELSE {{}, {"y"}, {"x", "y"}}
=============================================================================
