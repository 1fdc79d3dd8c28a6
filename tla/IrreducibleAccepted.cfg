CONSTANTS
  BlockCount = 4
  Graphs <- MCGraphs
SPECIFICATION Spec
INVARIANT AcceptsOnlyReducible
CHECK_DEADLOCK FALSE
