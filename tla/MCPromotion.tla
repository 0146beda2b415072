---------------------------- MODULE MCPromotion ----------------------------
(* Instances of Promotion for TLC. *)
EXTENDS Promotion, TLC

CONSTANTS r1, r2, c1, c2, p1, p2

(* Paths hold a complete rule with id "a" or "b", or a rule with no fixture. *)
MCRule(id) == [id |-> id, body |-> 1]
MCFixture(id) == [id |-> id, valid |-> TRUE, invalid |-> TRUE]
MCComplete(id) == [rule |-> MCRule(id), fixture |-> MCFixture(id)]
MCNoFixture == [rule |-> MCRule("b"), fixture |-> NoFile]

MCEntries == {MCComplete("a"), MCComplete("b"), MCNoFixture}

(* Two runs in two clones; c2 trusts both signers, c1 lacks its own key. *)
MCTwoClones == (r1 :> c1 @@ r2 :> c2)
MCKeyring == (c1 :> {c2} @@ c2 :> {c1, c2})

(* One clone with a trusted key, used by two runs. *)
MCOneClone == (r1 :> c1 @@ r2 :> c1)
MCOneKeyring == (c1 :> {c1})
=============================================================================
