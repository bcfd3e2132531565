------------------------------- MODULE Lists -------------------------------
(***************************************************************************)
(* What the loops of the server and the array methods of the page do to a  *)
(* list: each builds another one, element by element and in order.         *)
(***************************************************************************)
EXTENDS SequencesExt

\* Those in S: filter, or a loop that appends what passes a test.
Select(list, S) ==
  FoldLeft(LAMBDA kept, x : IF x \in S THEN Append(kept, x) ELSE kept, <<>>, list)

\* Each once, where it is first: a loop that remembers what it has seen.
Distinct(list) ==
  FoldLeft(LAMBDA seen, x : IF x \in ToSet(seen) THEN seen ELSE Append(seen, x), <<>>, list)

\* One after the other: a loop within a loop.
Concatenated(lists) == FoldLeft(\o, <<>>, lists)

\* All of them added up.
Total(list) == FoldLeft(+, 0, list)
=============================================================================
