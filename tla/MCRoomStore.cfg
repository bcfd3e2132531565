CONSTANTS
  r1 = r1
  r2 = r2
  g1 = g1
  g2 = g2
  closer = closer
  Cleaner = cleaner
  Nil = Nil
  Rooms <- MCRooms
  Conns <- MCConns
  Closers <- MCClosers
  Grace = 1
  MaxTime = 4

SPECIFICATION Spec
SYMMETRY StoreSymmetry

INVARIANTS
  TypeOK
  ExpiryIffEmptied
  CountIsConnections

PROPERTIES
  SweepSparesBusyRooms

\* A closer and the cleaner can end up waiting for each other; see EmptiedRoomsGo.
CHECK_DEADLOCK FALSE
