SPECIFICATION DataPathSpec
CONSTANTS
  Value = {v1, v2}
  GenMod = 3
  Torn = Torn
  NoRecord = NoRecord
  FifoValue = {v1, v2}
  FifoCap = 3
  CursorMod = 8
  Blank = Blank
  NoView = NoView
  RingCap = 3
  RingByte = {0, 1}
  Fallback = 3
  OverflowMax = 1
  ResumeEarly = FALSE
  Unit = {v1, v2}
  SlotCount = 3
  UnitCursorMod = 9
  Filling = Filling
  OutboxSlots = 3
  MessageId = {1, 2, 3, 4}
  GenerationMax = 6
  Additions <- MCAdditions
  Lines <- MCLines
  TextKeys <- MCTextKeys
INVARIANTS
  OwnershipExclusive
  FrameIsNext
  UnitsInOrder
  NewestOwed
  FairTurn
  EvolvedIsUnderstood
  DecodersAgree
  Utf8Exact
  HeaderExact
  FrameExact
  FramesAgree
PROPERTIES
  RegisterSpec
  QueueSpec
