CONSTANTS
  Programs <- MCPrograms
  Damaged <- MCDamaged
SPECIFICATION Spec
CHECK_DEADLOCK FALSE
INVARIANTS TypeOK DeferredMeaning SemanticEquivalence RefusesExactlyDamaged
