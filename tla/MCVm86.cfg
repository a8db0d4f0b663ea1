SPECIFICATION FairSpec
CONSTANTS
  Client = {c1, c2, c3}
  Polling = {c2}
  Wanted = 2
  CommsSize = 2
  None = None
CONSTRAINT UpToOverlap
INVARIANTS
  TypeOK
  OneAtATime
  OwnAnswer
  OwnOutput
PROPERTIES
  RequestsEnd
CHECK_DEADLOCK FALSE
