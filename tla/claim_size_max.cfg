SPECIFICATION Spec
CONSTANTS
  SizeMod = 65536
  SmallBase = 256
  SmallZoneSize = 64
  TinyBase = 320
  TinyZoneSize = 96
  TinyMax = 32
  SmallMax = 64
  LargeBases = {1024}
  Requests = {24, 65535}
  WildPointers = {}
  CallPhases = {"running"}
  ExactFits = FALSE
  MaxMapping = 4096
  MunmapMayFail = FALSE
  ForeignReads = {"harmless"}
INVARIANT
  SizeMaxRefused
CHECK_DEADLOCK FALSE
