SPECIFICATION Spec
CONSTANTS
  Nodes = {n1, n2, n3, n4, n5, n6}
  Contents = {c1, c2, c3}
  NULL = NULL
INVARIANTS ListsHold MapKeepsOrder
PROPERTIES RefusedNodesLoseOneContent
SYMMETRY Symmetry
