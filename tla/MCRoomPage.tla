----------------------------- MODULE MCRoomPage -----------------------------
(* Two closures, so that an old socket is still closing while its successor *)
(* opens, and two joins, so that a second one overtakes the first.          *)
EXTENDS RoomPage

CONSTANTS k1, k2, u1, u2

MCClients == {k1, k2}
MCUsers == {u1, u2}
=============================================================================
