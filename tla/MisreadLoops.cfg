SPECIFICATION MeaningSpec
CONSTANTS
  Programs <- Misread
  Compiled <- Compile
INVARIANTS
  MeansTheCode
