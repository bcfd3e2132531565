----------------------------- MODULE Consensus -----------------------------
(***************************************************************************)
(* The consensus a reveal suggests, computed twice: by the server          *)
(* (services/consensus.go, CalculateConsensus) and again by the web page   *)
(* of every participant (web/src/utils/consensus.ts, suggestConsensus).    *)
(*                                                                         *)
(* A label's number is given in halves, for the deck's half; a result is   *)
(* in Scale-ths of that, a unit in which the averages and the medians of    *)
(* any votes are whole.  The code computes with floating point; on decks of *)
(* halves and integers every comparison it makes comes out the same, for    *)
(* two cards are equally far only from a number that floating point has,    *)
(* and no other average comes near it.                                     *)
(***************************************************************************)
EXTENDS Integers, FiniteSets, Lists

CONSTANTS
  Users,
  Labels,      \* values of votes and cards of decks
  GoNumber,    \* what strconv.ParseFloat makes of a label, Nil for an error
  WebNumber,   \* what parseCardValue makes of it
  Decks,
  Scale,       \* parts of a half
  Nil

ASSUME UsersAssumption == IsFiniteSet(Users)
ASSUME ScaleAssumption == /\ Scale \in Nat \ {0} /\ Scale % 2 = 0
                          /\ \A n \in 1..Cardinality(Users) : Scale % n = 0
ASSUME NilAssumption == Nil \notin Int /\ Nil \notin Labels
ASSUME NumbersAssumption ==
  /\ GoNumber \in [Labels -> Int \cup {Nil}]
  /\ WebNumber \in [Labels -> Int \cup {Nil}]
ASSUME DecksAssumption == Decks \subseteq Seq(Labels)

VARIABLES
  votes,      \* the label each user voted, Nil if none
  eligible,   \* participants who may vote
  deck,
  algorithm

vars == <<votes, eligible, deck, algorithm>>

Algorithms == {"average_nearest", "median_nearest", "manual"}

-----------------------------------------------------------------------------
(* Slips that the checks below must notice; nothing uses them. *)

Anyone == Users
Unsorted(s) == s
UpperMiddle(s) == Scale * s[Len(s) \div 2 + 1]
LastOnTie(best, diff) == best.card = Nil \/ diff <= best.diff
DistinctNumbers(S, number) == {SetToSeq({number[votes[u]] : u \in S})}

-----------------------------------------------------------------------------
(* The arithmetic that both sides do *)

Abs(n) == IF n < 0 THEN -n ELSE n

IsAscending(t) == \A i, j \in DOMAIN t : i < j => t[i] <= t[j]
Rearranged(s) == {[k \in DOMAIN s |-> s[p[k]]] : p \in Bijection(DOMAIN s, DOMAIN s)}
Ascending(s) == CHOOSE t \in Rearranged(s) : IsAscending(t)

Average(s) == (Scale \div Len(s)) * Total(s)

\* median, of sorted numbers.
Median(s) ==
  LET mid == Len(s) \div 2
  IN  IF Len(s) % 2 = 0 THEN (Scale \div 2) * (s[mid] + s[mid + 1])
                        ELSE Scale * s[mid + 1]

Closer(best, diff) == best.card = Nil \/ diff < best.diff

\* nearestDeckValue and nearestDeckCard: the first of the closest cards.
Nearest(target, number) ==
  LET Step(best, card) ==
        LET diff == Abs(target - Scale * number[card])
        IN  IF number[card] # Nil /\ Closer(best, diff)
            THEN [card |-> card, diff |-> diff]
            ELSE best
  IN  FoldLeft(Step, [card |-> Nil, diff |-> 0], deck).card

\* Whose votes count: of people who are in the room, may vote and voted a number.
Counted(people, number) == {u \in people : votes[u] # Nil /\ number[votes[u]] # Nil}

\* Their numbers, in each of the orders the votes can be ranged over.
Numbers(S, number) ==
  {[i \in DOMAIN order |-> number[votes[order[i]]]] : order \in SetToSeqs(S)}

Nothing == [average |-> Nil, median |-> Nil, card |-> Nil]

Suggest(numbers, number) ==
  LET s == Ascending(numbers)
      target == IF algorithm = "median_nearest" THEN Median(s) ELSE Average(s)
  IN  IF s = <<>>
      THEN Nothing
      ELSE [average |-> Average(s), median |-> Median(s), card |-> Nearest(target, number)]

\* CalculateConsensus: all the results it can have.
GoResults ==
  {IF algorithm = "manual" THEN Nothing ELSE Suggest(n, GoNumber) :
     n \in Numbers(Counted(eligible, GoNumber), GoNumber)}

\* suggestConsensus, for the participants whom VotingBoard finds eligible.
OnBoard == eligible
WebResults ==
  {Suggest(n, WebNumber) : n \in Numbers(Counted(OnBoard, WebNumber), WebNumber)}

-----------------------------------------------------------------------------
Init ==
  /\ votes = [u \in Users |-> Nil]
  /\ eligible \in SUBSET Users
  /\ deck \in Decks
  /\ algorithm \in Algorithms

\* VotingService.Vote.
Cast(u, label) ==
  /\ u \in eligible
  /\ votes' = [votes EXCEPT ![u] = label]
  /\ UNCHANGED <<eligible, deck, algorithm>>

\* RoomService.LeaveRoom; the vote stays in the round.
Depart(u) ==
  /\ u \in eligible
  /\ eligible' = eligible \ {u}
  /\ UNCHANGED <<votes, deck, algorithm>>

Next == \E u \in Users : Depart(u) \/ \E label \in Labels : Cast(u, label)

Spec == Init /\ [][Next]_vars

-----------------------------------------------------------------------------
(* Properties *)

\* The order in which Go ranges over the map of votes does not show: there is
\* one result.
OrderIrrelevant == Cardinality(GoResults) = 1

TheResult == CHOOSE r \in GoResults : TRUE
TheVotes == [u \in Counted(eligible, GoNumber) |-> Scale * GoNumber[votes[u]]]

\* The median is central, whatever the number of votes: either it is a vote with
\* fewer than half of them on each side, or it lies midway between two votes that
\* part the votes into halves.
MedianIsCentral ==
  LET m == TheResult.median
      below == {u \in DOMAIN TheVotes : TheVotes[u] < m}
      above == {u \in DOMAIN TheVotes : TheVotes[u] > m}
  IN  m # Nil =>
        \/ \E u \in DOMAIN TheVotes : /\ TheVotes[u] = m
                                      /\ 2 * Cardinality(below) < Cardinality(DOMAIN TheVotes)
                                      /\ 2 * Cardinality(above) < Cardinality(DOMAIN TheVotes)
        \/ /\ Cardinality(below) = Cardinality(above)
           /\ below \cup above = DOMAIN TheVotes
           /\ \E u \in below, v \in above :
                /\ m - TheVotes[u] = TheVotes[v] - m
                /\ \A w \in DOMAIN TheVotes : TheVotes[w] <= TheVotes[u] \/ TheVotes[w] >= TheVotes[v]

\* The suggested card is the first of the deck's numeric cards closest to the
\* average or the median, and there is one if the deck has a number at all.
SuggestionIsNearest ==
  LET target == IF algorithm = "median_nearest" THEN TheResult.median ELSE TheResult.average
      numeric == {i \in DOMAIN deck : GoNumber[deck[i]] # Nil}
      far(i) == Abs(target - Scale * GoNumber[deck[i]])
  IN  target # Nil /\ numeric # {} =>
        \E i \in numeric : /\ TheResult.card = deck[i]
                           /\ \A j \in numeric : far(i) <= far(j)
                           /\ \A j \in numeric : j < i => far(i) < far(j)

\* Raising a vote never lowers the suggestion.
NumberOf(label) == IF label = Nil THEN Nil ELSE GoNumber[label]
Raised(u) == NumberOf(votes[u]) # Nil /\ NumberOf(votes'[u]) # Nil
             /\ NumberOf(votes'[u]) >= NumberOf(votes[u])
SuggestionMonotone ==
  [][\A u \in eligible :
       /\ Raised(u)
       /\ \A v \in Users \ {u} : votes'[v] = votes[v]
       /\ UNCHANGED eligible
       /\ TheResult.card # Nil
       => NumberOf(TheResult'.card) >= NumberOf(TheResult.card)]_vars

\* ADR-008: "ConsensusPanel and Go service share the same calculation logic".
\* They do where the two sides read the labels in play alike and the algorithm
\* is not manual; otherwise they need not.
ReadAlike ==
  \A label \in ToSet(deck) \cup {votes[u] : u \in {v \in eligible : votes[v] # Nil}} :
    GoNumber[label] = WebNumber[label]
PageAgrees == algorithm # "manual" /\ ReadAlike => WebResults = GoResults
=============================================================================
