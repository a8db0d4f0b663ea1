SPECIFICATION Spec
CONSTANTS
  Thread = {t1, t2, t3}
  idleThread = idle
  Null = Null
  maxCount = 2
INVARIANTS
  TypeOK
  NoListPanic
  EachInOneChain
PROPERTIES
  CountsPermits
