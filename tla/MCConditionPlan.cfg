SPECIFICATION Spec
CONSTANTS
  Plans <- MCPlans
  Outcomes = {"true", "false"}
INVARIANTS
  TypeOK
  MeansTheJumps
  RefusesExactlyCycles
