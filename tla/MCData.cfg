SPECIFICATION MCSpec
CONSTANTS
  d1 = d1
  d2 = d2
  LiveSlots = {1, 2}
  LiveTexts <- MCLiveTexts
  LiveData = {d1, d2}
  LiveSize <- MCLiveSize
  LiveRequests = 3
  Names <- MCNames
  Texts <- MCTexts
  Host = "little"
  Orders = {"little", "big"}
  CountSize = 3
  Buildable <- MCBuildable
  MaxOps = 3
INVARIANTS
  TypesOK
  LoadedExact
  ExportedExact
  CursorExact
PROPERTIES
  KeepsPromises
  EveryRequestEnds
