CONSTANTS
  ana = ana
  bruno = bruno
  carla = carla
  Users <- MCUsers
  Leaders = {ana}
  Voters = {bruno, carla}
  DemoLeader = ana
  DemoVoter = bruno
  Values = {"5", "8"}
  Blank = Blank
  Texts = {"a", "b"}
  CardIds = {1, 2}
  SubtaskIds = {"st1"}
  None = None
  DemoQueue <- MCDemoQueue
  RoomStates <- MCRoomStates
  Target = "dropdown"
  Source = "nearest_card"
  NumberOf <- MCNumberOf
  Options = {"5"}
  MaxEdits = 2
  MaxMessages = 2
  MaxWrites = 2

SPECIFICATION Spec

INVARIANTS
  TypeOK
  LocalStateFollows
  ActiveRowIsCurrent

PROPERTIES
  LiveChangesComeFromServer
  ImplementsLifecycle

\* A board nobody clicks on any more may have used up its messages and edits.
CHECK_DEADLOCK FALSE
