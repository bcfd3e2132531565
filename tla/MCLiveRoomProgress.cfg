CONSTANTS
  c1 = c1
  c2 = c2
  u1 = u1
  u2 = u2
  Nil = Nil
  Conns <- MCConns
  Users = {u1}
  RegisterCap = 1
  BroadcastCap = 1
  MaxCalls = 2

SPECIFICATION FairSpec

PROPERTIES
  HangupsAreCleaned
  KnownClientsHear

\* Every connection may be gone in the end.
CHECK_DEADLOCK FALSE
