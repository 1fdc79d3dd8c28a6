SPECIFICATION Spec
CONSTANTS
  Programs <- MCPrograms
  MaxCode = 5
  Listing <- MCListing
CHECK_DEADLOCK FALSE
INVARIANTS
  TypeOK
  DepthsAreExact
  HandlersExist
  TableIsRead
  EdgesAreReal
  MarksExactlyReachable
  RunsOnlyMarked
  AnalysesAgree
PROPERTIES
  StepsAlongEdges
  Terminates
