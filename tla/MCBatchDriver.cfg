CONSTANTS
  a = a
  b = b
  NoFile = NoFile
  Names = {a, b}
  Jobs <- MCJobs
SPECIFICATION Spec
INVARIANTS TypeOK CountsAddUp ExitTellsAll MarkersTellTheTruth NoPartialOutput EndsEarlyOnlyByOutput
CHECK_DEADLOCK FALSE
