CONSTANTS
  Programs <- MCShared
  Damaged = {}
SPECIFICATION Spec
INVARIANT SemanticEquivalence
CHECK_DEADLOCK FALSE
