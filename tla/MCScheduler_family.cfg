SPECIFICATION Spec
CONSTANTS
  main = main
  idle = idle
  cleaner = cleaner
  sh1 = sh1
  sh2 = sh2
  ch = ch
  job = job
  K = K
  I = I
  Sh = Sh
  Ch = Ch
  Job = Job
  Null = Null
  AnyChild = AnyChild
  Unsupported = Unsupported
  SpecialPIDs = {AnyChild, Unsupported}
  Thread <- FamilyThreads
  Process <- AllProcesses
  processOf <- MCprocessOf
  parent <- MCparent
  mainThread = main
  idleThread = idle
  cleanerThread = cleaner
  SleepTimes = {1}
  Quantum = 1
  MaxSlice = 1
  PreemptionValues = {TRUE, FALSE}
INVARIANTS
  TypeOK
  LocksMatch
  ListInv
  RunningWhenOn
  CleanerKnows
  WaitReportsFinishedChild
