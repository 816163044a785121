SPECIFICATION FairSpec
CONSTANTS
  Threads = {t1}
  Addresses = {c1, c2, c3, c4}
  NoChunk = NoChunk
INVARIANTS
  ListMatchesMappings
PROPERTIES
  ImplementsChunkList
  CallsReturn
