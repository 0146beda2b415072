--------------------------- MODULE MCShieldStatus ---------------------------
(* An instance of ShieldStatus for TLC. *)
EXTENDS ShieldStatus
=============================================================================
