-------------------------------- MODULE Topic --------------------------------
(***************************************************************************)
(* What the hub promises about broadcasts, without channels or goroutines: *)
(* one numbered log per room, of which every subscriber receives a         *)
(* contiguous piece, in order and without repetition, beginning wherever   *)
(* it came in.                                                             *)
(***************************************************************************)
EXTENDS Naturals

CONSTANT Subscribers

VARIABLES
  log,   \* how many messages were published
  last   \* the last message each subscriber received, 0 if none

topic == <<log, last>>

Init == log = 0 /\ last = [s \in Subscribers |-> 0]

Publish == log' = log + 1 /\ UNCHANGED last

Receive(s) ==
  \E n \in 1..log :
    /\ last[s] # 0 => n = last[s] + 1
    /\ last' = [last EXCEPT ![s] = n]
    /\ UNCHANGED log

Next == Publish \/ \E s \in Subscribers : Receive(s)

Spec == Init /\ [][Next]_topic
=============================================================================
