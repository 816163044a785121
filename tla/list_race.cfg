SPECIFICATION Spec
CONSTANTS
  Threads = {t1, t2}
  Addresses = {c1, c2, c3}
  NoChunk = NoChunk
INVARIANTS
  OwnedStayMapped
SYMMETRY Symmetry
CHECK_DEADLOCK FALSE
