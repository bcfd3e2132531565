CONSTANTS
  c1 = c1
  c2 = c2
  u1 = u1
  u2 = u2
  Nil = Nil
  Conns <- MCConns
  Users <- MCUsers
  RegisterCap = 1
  BroadcastCap = 2
  MaxCalls = 3

SPECIFICATION Spec
SYMMETRY LiveSymmetry

INVARIANTS
  TypeOK
  NobodyLingersOnline
  SoleConnectionIsOnline
  LiveClientsAreServed

PROPERTIES
  ImplementsTopic

\* Every connection may be gone in the end.
CHECK_DEADLOCK FALSE
