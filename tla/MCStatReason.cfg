SPECIFICATION Spec
CONSTANTS
  StatNum = 7
  ForbidNum = 3
  Field <- MCField
  BitField <- MCBitField
  FieldOf <- MCFieldOf
  DefaultStat <- MCDefaultStat
  ForbidList <- MCForbidList
  NeedCounter <- MCNeedCounter
  Operate <- MCOperate
  OperateCheck <- MCOperateCheck
  RefMod = 3
  Slots = 8
INVARIANT ReasonNamesCulprit
