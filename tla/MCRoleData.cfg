SPECIFICATION MCSpec
CONSTANTS
  Attr <- MCAttr
  Number <- MCNumber
  ReadOnly = {"atk"}
  Computed <- MCComputed
  Reads <- MCReads
  Formula <- MCFormula
  m_run_sort <- MCrun_sort
  Column <- MCColumn
  MM_NODE_NUMBER = 2
  Val <- MCVal
  Rate = {1, 2}
  Calls <- MCCalls
  Loaded <- MCLoaded
  Name = {bag, task}
  DataNode = {n1, n2}
  Absent = Absent
  MaxLog = 4
INVARIANTS TypeOK AffairAtomic DerivedConsistent AffairTakenBack
PROPERTY PaidInFull
