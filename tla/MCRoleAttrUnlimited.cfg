SPECIFICATION Spec
CONSTANTS
  Attr <- MCAttr
  Number <- MCNumber
  ReadOnly = {"atk"}
  Computed <- MCComputed
  Reads <- MCReads
  Formula <- MCFormula
  m_run_sort <- MCrun_sort
  Column <- MCColumn
  MM_NODE_NUMBER = 2
  Val <- MCVal
  Rate = {1, 2}
  Calls <- MCCalls
  Loaded <- MCLoaded
INVARIANT UnlimitedIsInput
