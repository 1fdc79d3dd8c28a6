SPECIFICATION MeaningSpec
CONSTANTS
  Programs <- MCPrograms
  Compiled <- Compile
INVARIANTS
  TypeOK
  KnowsOpenLoops
  MeansTheCode
  EveryStatementOnce
  AcceptsPlainTests
  WorkIsBounded
PROPERTY ParsingDescends
