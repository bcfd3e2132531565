CONSTANTS
  k1 = k1
  k2 = k2
  NoClient = NoClient
  Clients <- MCClients
  u1 = u1
  u2 = u2
  NoUser = NoUser
  Users <- MCUsers
  MaxReconnectAttempts = 2

SPECIFICATION FairSpec

INVARIANTS
  TypeOK
  OneSocket
  StatusHasGround
  PageShowsWhatIs
  MembersAccountedFor

PROPERTIES
  PageSettles
