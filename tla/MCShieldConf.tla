---------------------------- MODULE MCShieldConf ----------------------------
(* An instance of ShieldConf for TLC. *)
EXTENDS ShieldConf

MCScalars == [mode |-> {"off", "block", "on"}, body |-> {FALSE}, max_body |-> {},
              status |-> {404, 500}]
MCSkipArgs == {{"xss"}, {"sqli", "dotfile"}, {"xss", "nonesuch"}}
=============================================================================
