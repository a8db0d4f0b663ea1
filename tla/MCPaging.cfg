SPECIFICATION FairSpec
CONSTANTS
  Process = {p1, p2}
  NumFrames = 2
  FirstPage = 1
  NumPages = 4
  PagesPerTable = 3
  NumSlots = 2
  Counts = {2, 3}
CONSTRAINT UpToCollision
VIEW UsedView
INVARIANTS
  TypeOK
  FramesHaveOneOwner
  SlotsApart
  OwnData
  OutOfMemoryIsTrue
  BreakIsBacked
PROPERTIES
  CallsEnd
CHECK_DEADLOCK FALSE
