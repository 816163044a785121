SPECIFICATION ZFairSpec
CONSTANTS
  SizeMod = 65536
  SmallBase = 240
  SmallZoneSize = 80
  TinyBase = 320
  TinyZoneSize = 128
  TinyMax = 32
  SmallMax = 64
  LargeBases = {1024, 2048}
  Requests = {24, 40}
  WildPointers = {}
  CallPhases = {"running"}
  ExactFits = FALSE
  MaxMapping = 64
  MunmapMayFail = FALSE
  ForeignReads = {"harmless"}
  Freers = {f1, f2}
INVARIANTS
  BlocksSurvive
  FreesLand
  NothingForgotten
PROPERTIES
  DefragWritesNothing
  LedToChunks
  ThreadsReturn
CHECK_DEADLOCK FALSE
