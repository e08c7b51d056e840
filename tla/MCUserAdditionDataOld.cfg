SPECIFICATION Spec
CONSTANTS
  Name = {bag, task}
  DataNode = {n1, n2}
  Absent = Absent
  MaxLog = 4
INVARIANT RollbackRestores
