CONSTANTS
  u1 = u1
  u2 = u2
  u3 = u3
  Nil = Nil
  Scale = 6
  Users <- MCUsers
  Labels <- MCLabels
  GoNumber <- MCGoNumber
  WebNumber <- MCWebNumber
  Decks <- MCDecks

SPECIFICATION Spec
SYMMETRY UserSymmetry

INVARIANTS
  OrderIrrelevant
  MedianIsCentral
  SuggestionIsNearest
  PageAgrees

PROPERTIES
  SuggestionMonotone

\* Nobody is left to vote once all have gone.
CHECK_DEADLOCK FALSE
