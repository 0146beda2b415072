---------------------------- MODULE MCShieldText ----------------------------
(* An instance of ShieldText for TLC. *)
EXTENDS ShieldText

CONSTANTS c1, c2, p1, p2

(* ".wk" for ".well-known": a "w" or "k" elsewhere is an ordinary byte. *)
MCPathBytes == {"/", ".", "w", "k"}
MCWellKnown == <<".", "w", "k">>
MCTypeWords == {"application/", "json", "+json", "+xml", "text/", ";", " ", "tab", "zip"}
MCClients == {c1, c2}
MCProxies == {p1, p2}
MCTrusted == {p1}
=============================================================================
