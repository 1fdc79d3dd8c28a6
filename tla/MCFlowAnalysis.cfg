CONSTANTS
  BlockCount = 4
  Graphs <- MCGraphs
SPECIFICATION Spec
INVARIANTS TypeOK ComponentsAreStrong RejectsOnlyIrreducible AcceptedCyclesHaveHeader
INVARIANTS NoDominatorLost ComputesDominators DominatorTree SingleEntry LoopIsCyclic
PROPERTY Terminates
CHECK_DEADLOCK FALSE
