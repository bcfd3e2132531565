----------------------------- MODULE MCLiveRoom -----------------------------
(* Two connections and two user ids, so that a participant can come back on *)
(* a second connection before the first is cleaned up, or bring a second    *)
(* user into the room.                                                      *)
EXTENDS LiveRoom, TLC

CONSTANTS c1, c2, u1, u2

MCConns == {c1, c2}
MCUsers == {u1, u2}

\* Not for the liveness run.
LiveSymmetry == Permutations(MCConns) \cup Permutations(MCUsers)
=============================================================================
