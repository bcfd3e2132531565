---------------------------- MODULE MCConsensus ----------------------------
(* Three people and five labels: of the preset decks (mocks/config.ts) three *)
(* integers, the half that only the page reads as a number, and a card that  *)
(* nobody does.  The decks are in and out of order, and one has no number.   *)
EXTENDS Consensus

CONSTANTS u1, u2, u3

MCUsers == {u1, u2, u3}
MCLabels == {"0", "half", "1", "3", "?"}
MCWebNumber == [l \in MCLabels |->
  CASE l = "0" -> 0 [] l = "half" -> 1 [] l = "1" -> 2 [] l = "3" -> 6 [] OTHER -> Nil]
MCGoNumber == [MCWebNumber EXCEPT !["half"] = Nil]
MCDecks == {<<"0", "half", "1", "3", "?">>, <<"3", "?", "0">>, <<"?">>}

UserSymmetry == Permutations(MCUsers)
=============================================================================
