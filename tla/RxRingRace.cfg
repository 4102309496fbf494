SPECIFICATION RingSpec
CONSTANTS
  RingCap = 3
  RingByte = {0, 1}
  Fallback = 3
  OverflowMax = 1
  ResumeEarly = TRUE
INVARIANTS WindowIsStream
