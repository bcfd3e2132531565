----------------------------- MODULE MCCardSetup -----------------------------
(* Two keys of one subdomain.  The first sees two boards, the other one of  *)
(* them; board 1 has more cards than a page.                                *)
EXTENDS CardSetup, TLC

CONSTANTS acme, key1, key2

A1 == <<acme, key1>>
A2 == <<acme, key2>>

MCBoardsOf == A1 :> <<1, 2>> @@ A2 :> <<2>>
MCStored == {<<[subdomain |-> acme, field |-> None, kind |-> "custom_field"], key1>>,
             <<[subdomain |-> acme, field |-> None, kind |-> "native_size"], None>>}

MCFieldsOf == A1 :> {"points"} @@ A2 :> {}

Card(id, board, column, words, tags) ==
  [id |-> id, board |-> board, column |-> column, words |-> words, tags |-> tags]

Second == Card(3, 2, "todo", {}, {})
MCCardsOf == A1 :> <<Card(1, 1, "todo", {"login"}, {}), Card(2, 1, "other", {}, {}), Second>>
          @@ A2 :> <<Second>>
=============================================================================
