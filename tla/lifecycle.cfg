SPECIFICATION SFairSpec
CONSTANTS
  SizeMod = 65536
  SmallBase = 256
  SmallZoneSize = 64
  TinyBase = 320
  TinyZoneSize = 64
  TinyMax = 32
  SmallMax = 64
  LargeBases = {1024, 2048}
  Requests = {24, 80, 65535}
  WildPointers = {8, 272, 336, 352}
  CallPhases = {"loading", "running", "exited"}
  ExactFits = TRUE
  MaxMapping = 4096
  MunmapMayFail = TRUE
  ForeignReads = {"harmless", "fatal"}
INVARIANTS
  TypeOK
  LargeBlocksHeld
  NothingLeaks
  ReportIsExact
  DamageHangsReport
PROPERTY
  AnswersEveryCall
CHECK_DEADLOCK FALSE
