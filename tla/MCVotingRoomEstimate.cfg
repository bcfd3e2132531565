CONSTANTS
  u1 = u1
  u2 = u2
  u3 = u3
  c1 = c1
  c2 = c2
  five = five
  pass = pass
  Nil = Nil
  Users <- MCUsers
  CardIds <- MCCardIds
  Values <- MCValues
  NumericValues <- MCNumericValues
  Queues <- MCQueues
  MaxParticipants = 3
  ConsensusAlgorithm = "average_nearest"
  MaxInFlight = 1

SPECIFICATION Spec
SYMMETRY UserSymmetry

PROPERTY EstimateOnVotedCard

CHECK_DEADLOCK FALSE
