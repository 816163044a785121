SPECIFICATION Spec
CONSTANTS
  SizeMod = 65536
  SmallBase = 256
  SmallZoneSize = 64
  TinyBase = 320
  TinyZoneSize = 96
  TinyMax = 32
  SmallMax = 64
  LargeBases = {1024}
  Requests = {0, 24, 40, 80}
  WildPointers = {336, 352, 368}
  CallPhases = {"running"}
  ExactFits = TRUE
  MaxMapping = 4096
  MunmapMayFail = FALSE
  ForeignReads = {"harmless"}
INVARIANTS
  ChunksTileZones
  ZoneBlocksHeld
  BlocksDisjoint
  CopyFits
PROPERTY
  ImplementsAllocator
CHECK_DEADLOCK FALSE
