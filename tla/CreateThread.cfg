SPECIFICATION CreateSpec
CONSTANTS
  Thread = {t1, t2, t3}
  newThread = t3
  idleThread = idle
  Null = Null
  maxCount = 1
INVARIANTS
  NoListPanic
