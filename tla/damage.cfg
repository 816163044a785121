SPECIFICATION Spec
CONSTANTS
  SizeMod = 65536
  SmallBase = 256
  SmallZoneSize = 64
  TinyBase = 320
  TinyZoneSize = 64
  TinyMax = 32
  SmallMax = 64
  LargeBases = {1024}
  Requests = {0, 24, 40, 80}
  WildPointers = {}
  CallPhases = {"running"}
  ExactFits = TRUE
  MaxMapping = 4096
  MunmapMayFail = FALSE
  ForeignReads = {"harmless", "fatal"}
INVARIANTS
  LoopsAgree
  WalksReadHeaders
  PlaceOnSoundHeap
PROPERTY
  DamageStays
CHECK_DEADLOCK FALSE
