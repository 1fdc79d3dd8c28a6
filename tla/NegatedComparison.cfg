SPECIFICATION Spec
CONSTANTS
  Plans <- OrderedPlans
  Outcomes = {"true", "false", "unordered"}
INVARIANTS
  MeansTheJumps
