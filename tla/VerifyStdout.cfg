CONSTANTS
  a = a
  b = b
  NoFile = NoFile
  Names = {a, b}
  Jobs <- MCStdoutJobs
SPECIFICATION Spec
INVARIANT BatchContinues
CHECK_DEADLOCK FALSE
