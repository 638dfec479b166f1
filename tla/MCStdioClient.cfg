SPECIFICATION FairSpec
CONSTANTS
  Kinds = {"tool", "prompt"}
  Buffer = 1
  MaxPages = 2
  Helpers = TRUE
  Pipe = 1
  MaxExtra = 1
CHECK_DEADLOCK FALSE
INVARIANTS
  OwnAnswer
  NothingLeft
PROPERTIES
  ImplementsConnector
  SessionEnds
