SPECIFICATION FairSpec
CONSTANTS
  Thread = {t1, t2}
  idleThread = idle
  Null = Null
  maxCount = 1
PROPERTIES
  WaitersAreServed
