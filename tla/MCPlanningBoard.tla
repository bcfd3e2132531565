--------------------------- MODULE MCPlanningBoard ---------------------------
(* Two cards, of which either may be deferred, a facilitator who does not   *)
(* vote and two voters; a live room may jump to other states, among them    *)
(* one whose current card is deferred, which only the facilitator is sent,  *)
(* and one without cards.                                                  *)
EXTENDS PlanningBoard, TLC

CONSTANTS ana, bruno, carla

MCUsers == {ana, bruno, carla}

SomeCard(id, excluded) ==
  [id |-> id, text |-> "a", subtasks |-> <<>>, estimated |-> None, excluded |-> excluded]

WithSubtask(card) ==
  [card EXCEPT !.subtasks = [id \in SubtaskIds |-> [title |-> "a", done |-> FALSE]]]

MCDemoQueue == <<WithSubtask(SomeCard(1, FALSE)), SomeCard(2, FALSE)>>

MCNumberOf == "5" :> 5 @@ "8" :> 8

Room(status, idx, queue, votes) ==
  [isDemo |-> FALSE, status |-> status, queue |-> queue, idx |-> idx, votes |-> votes,
   people |-> [u \in MCUsers |-> "online"], revealed |-> None]

FirstDeferred == <<SomeCard(1, TRUE), SomeCard(2, FALSE)>>
Fives == [u \in Voters |-> [value |-> "5", revealed |-> TRUE]]

MCRoomStates ==
  {Room("voting", 1, MCDemoQueue, BlankBallots(Voters)),
   Room("waiting", 2, MCDemoQueue, BlankBallots({})),
   Room("revealed", 2, FirstDeferred, Fives),
   Room("revealed", 1, FirstDeferred, Fives),
   Room("revealed", 1, <<>>, Fives)}
=============================================================================
