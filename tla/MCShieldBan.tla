---------------------------- MODULE MCShieldBan ----------------------------
(* Instances of ShieldBan for TLC. *)
EXTENDS ShieldBan, TLC

MCPolicy(c, w, b) == [count |-> c, window |-> w, bantime |-> b]

(* Bans lapse inside the counting window. *)
MCShortBan == {MCPolicy(2, 3, 1)}
(* Locations, or the configurations before and after a reload; their       *)
(* bans run past what time_t can hold.                                     *)
MCReload == {MCPolicy(1, 1, 3), MCPolicy(1, 2, 2), MCPolicy(2, 2, 3)}
(* Every hit bans. *)
MCOneHit == {MCPolicy(1, 1, 1)}

MCSymmetry == Permutations(Addrs) \cup Permutations(Workers)
=============================================================================
