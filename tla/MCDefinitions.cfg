SPECIFICATION MCSpec
CONSTANTS
  WaNum = 4
  Capacity = 4
  Formulas <- MCFormulas
  Configs <- MCConfigs
  Modulus = 2
  MaxInits = 2
  MaxWrites = 1
  MaxOrder = 5
INVARIANTS
  SameVersionExact
  CommonFieldsArrive
  ReadingSound
  SortedRight
  FormulasRight
PROPERTY SortReturns
CHECK_DEADLOCK FALSE
