CONSTANTS
  acme = acme
  key1 = key1
  key2 = key2
  Subdomains = {acme}
  ApiKeys = {key1, key2}
  None = None
  BoardsOf <- MCBoardsOf
  FieldsOf <- MCFieldsOf
  CardsOf <- MCCardsOf
  Columns = {"todo"}
  Words = {"login"}
  Tags = {}
  PerPage = 2
  Stored <- MCStored
  MaxLoads = 2
  MaxQueries = 2
  MaxChanges = 2
  MaxEdits = 2
  MaxAbandoned = 1

SPECIFICATION Spec

INVARIANTS
  TypeOK
  SetupShowsWhatIs

PROPERTIES
  RoomGetsTheSelection
