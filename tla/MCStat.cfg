SPECIFICATION MCSpec
CONSTANTS
  StatNum = 7
  ForbidNum = 3
  Field <- MCField
  BitField <- MCBitField
  FieldOf <- MCFieldOf
  DefaultStat <- MCDefaultStat
  ForbidList <- MCForbidList
  NeedCounter <- MCNeedCounter
  Operate <- MCOperate
  OperateCheck <- MCOperateCheck
  RefMod = 3
  Slots = 2
  o1 = o1
  o2 = o2
  o3 = o3
  Owner = {o1, o2, o3}
INVARIANTS TypeOK BlockedExact ReasonExact HeldExact
PROPERTY FalseMeansUnchanged
