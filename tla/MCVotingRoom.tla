---------------------------- MODULE MCVotingRoom ----------------------------
(* A small room for TLC: three user ids, a numeric and a non-numeric label,  *)
(* an empty queue and one of two cards.                                      *)
EXTENDS VotingRoom, TLC

CONSTANTS u1, u2, u3, five, pass, c1, c2

MCUsers == {u1, u2, u3}
MCCardIds == {c1, c2}
MCValues == {five, pass}
MCNumericValues == {five}

Card(c) == [cardID |-> c, excluded |-> FALSE, estimated |-> Nil]
MCQueues == {<<>>, <<Card(c1), Card(c2)>>}

UserSymmetry == Permutations(MCUsers)
=============================================================================
