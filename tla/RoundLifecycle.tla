--------------------------- MODULE RoundLifecycle ---------------------------
(***************************************************************************)
(* What a room promises the people in it: the phases a card's estimation   *)
(* goes through (models.RoomStatus), whose ballots are in, and whether the *)
(* ballots have been shown.  A closed room stays closed.  VotingRoom, the  *)
(* code's session, implements this.                                        *)
(***************************************************************************)
CONSTANT Users

VARIABLES phase, voted, shown

lifecycle == <<phase, voted, shown>>

InRound == phase \in {"voting", "revealed", "consensus"}

Init == phase = "waiting" /\ voted = {} /\ shown = FALSE

\* A round starts, afresh or again: no ballot, nothing shown.
Open ==
  /\ phase # "closed"
  /\ phase' = "voting"
  /\ voted' = {}
  /\ shown' = FALSE

\* A ballot comes in, early or late; it hides nothing.
Cast ==
  /\ InRound
  /\ \E u \in Users : voted' = voted \cup {u}
  /\ UNCHANGED <<phase, shown>>

Show ==
  /\ InRound
  /\ phase' = "revealed"
  /\ shown' = TRUE
  /\ UNCHANGED voted

Agree ==
  /\ InRound
  /\ phase' = "consensus"
  /\ UNCHANGED <<voted, shown>>

\* The room turns to another card, or back to waiting on this one.
Drop ==
  /\ phase # "closed"
  /\ phase' = "waiting"
  /\ voted' = {}
  /\ shown' = FALSE

Close ==
  /\ phase # "closed"
  /\ phase' = "closed"
  /\ voted' = {}
  /\ shown' = FALSE

Next == Open \/ Cast \/ Show \/ Agree \/ Drop \/ Close

Spec == Init /\ [][Next]_lifecycle
=============================================================================
