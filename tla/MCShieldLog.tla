----------------------------- MODULE MCShieldLog -----------------------------
(***************************************************************************)
(* An instance of ShieldLog for TLC: the sizes of the code, and a shorter  *)
(* alert gap.  The time has 25 characters, an IPv6 address 39, the longest *)
(* category 14 and the longest source 12; a syslog header has at most      *)
(* <191>, a 15-character time, a 255-character host and a 32-character tag *)
(* with their separators.                                                  *)
(***************************************************************************)
EXTENDS ShieldLog

MCValues == 25 + 39 + 14 + 12
MCHeaders == {0, 5 + 15 + 1 + 255 + 1 + 32 + 2}
=============================================================================
