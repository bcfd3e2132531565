CONSTANTS
  r1 = r1
  r2 = r2
  g1 = g1
  g2 = g2
  closer = closer
  Cleaner = cleaner
  Nil = Nil
  Rooms = {r1}
  Conns = {g1}
  Closers <- MCClosers
  Grace = 1
  MaxTime = 3

SPECIFICATION FairSpec

PROPERTY EmptiedRoomsGo

CHECK_DEADLOCK FALSE
