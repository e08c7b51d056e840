SPECIFICATION Spec
CONSTANTS
  Module = {"outline", "create", "load", "save"}
  LoadModule = "load"
  Rank <- MCRank
  MaxOpen = 3
  Name = {"rank"}
  NoName = ""
  MaxRequest = 3
  ModuleFor <- MCModuleFor
INVARIANTS TypeOK ConnectionsSound RowsAsAnswered
PROPERTIES QueueDrains
CHECK_DEADLOCK FALSE
