---------------------------- MODULE MCRoomStore ----------------------------
(* Two rooms, two connections and one closer; the clock makes four ticks,   *)
(* enough for a room to empty, outlive its grace period and be swept.       *)
EXTENDS RoomStore, TLC

CONSTANTS r1, r2, g1, g2, closer

MCRooms == {r1, r2}
MCConns == {g1, g2}
MCClosers == {closer}

\* Not for the liveness run.
StoreSymmetry == Permutations(MCRooms) \cup Permutations(MCConns)
=============================================================================
