CONSTANT Programs <- MCClosureGenerators
SPECIFICATION Spec
INVARIANT ExecutedHasDepth
CHECK_DEADLOCK FALSE
