-------------------------- MODULE SchedulerWakeups --------------------------
(***************************************************************************)
(* The wake-ups that cross threads: of the cleaner by a thread that ends,  *)
(* and of a parent in waitpid by the cleaner.                              *)
(***************************************************************************)
EXTENDS SchedulerSafety

(* Where the cleaner is about to give up the processor nothing is left to   *)
(* clean, and with interrupts off nobody adds to the list before it does.   *)
KnowsInv ==
  /\ pc[cleanerThread] \in {"cleanerSchedule", "cleanerUnlockStuff"} =>
       currentTaskTCB = cleanerThread /\ terminatedTaskList = << >>
  /\ terminatedTaskList # << >> =>
       /\ cleanerThread = currentTaskTCB \/ cleanerThread \in Range(taskList)
       /\ pc[cleanerThread] \in {"cleanerEnable", "cleanerTest"} => weNeedTheCleanerToNotBlock

LEMMA CleanerFacts ==
  ASSUME TypeInv, ListInv
  PROVE  /\ cleanerThread \in Thread /\ cleanerThread \in threadUsage
         /\ cleanerThread # idleThread /\ cleanerThread \notin UserThread
         /\ currentTaskTCB \in Thread /\ currentTaskTCB \in threadUsage
         /\ pc[currentTaskTCB] \in CleanerPlace <=> currentTaskTCB = cleanerThread
         /\ pc \in [Thread -> Place] /\ state \in [Thread -> TaskState]
         /\ taskList \in Seq(Thread)
         /\ currentTaskTCB \notin Range(taskList)
BY ThreadsAssumption DEF TypeInv, TypeOK, ListInv, InUse, InOneList, BootThreads, UserThread

(* A step that switches to nobody and leaves the cleaner's list alone. *)
LEMMA KnowsStays ==
  ASSUME TypeInv, ListInv, KnowsInv,
         UNCHANGED <<currentTaskTCB, terminatedTaskList>>,
         Range(taskList) \subseteq Range(taskList'),
         weNeedTheCleanerToNotBlock => weNeedTheCleanerToNotBlock',
         pc'[cleanerThread] = pc[cleanerThread]
  PROVE  KnowsInv'
BY DEF KnowsInv

(* The steps of other threads. *)
LEMMA OtherPlace ==
  ASSUME TypeInv, ListInv, NEW from, NEW to, Goto(from, to)
  PROVE  /\ from \in CleanerPlace <=> currentTaskTCB = cleanerThread
         /\ pc[currentTaskTCB] = from
         /\ currentTaskTCB = cleanerThread => pc'[cleanerThread] = to
         /\ currentTaskTCB # cleanerThread => pc'[cleanerThread] = pc[cleanerThread]
BY CleanerFacts DEF Goto

(* schedule() switches, from wherever the cleaner is if it is the one that   *)
(* runs.                                                                    *)
LEMMA KnowsSwitch ==
  ASSUME TypeInv, ListInv, KnowsInv, SelectTask,
         UNCHANGED <<terminatedTaskList, weNeedTheCleanerToNotBlock>>,
         currentTaskTCB # cleanerThread => pc'[cleanerThread] = pc[cleanerThread],
         currentTaskTCB = cleanerThread =>
           /\ terminatedTaskList = << >> \/ state[cleanerThread] = "Running"
           /\ terminatedTaskList = << >> \/ pc'[cleanerThread] = pc[cleanerThread]
           /\ pc'[cleanerThread] \notin {"cleanerSchedule", "cleanerUnlockStuff"}
  PROVE  KnowsInv'
<1>1. pc'[cleanerThread] \notin {"cleanerSchedule", "cleanerUnlockStuff"}
  BY DEF KnowsInv
<1>2. ASSUME terminatedTaskList # << >>
      PROVE  cleanerThread = currentTaskTCB' \/ cleanerThread \in Range(taskList')
  BY <1>2, CleanerFacts, SelectFacts DEF KnowsInv
<1>3. terminatedTaskList # << >> => pc'[cleanerThread] = pc[cleanerThread]
  OBVIOUS
<1> QED BY <1>1, <1>2, <1>3 DEF KnowsInv

LEMMA KnowsSchedule ==
  ASSUME TypeInv, ListInv, KnowsInv, NEW from, NEW to, CallSchedule(from, to),
         from \in CleanerPlace => from = "cleanerSchedule" /\ to = "cleanerUnlock"
  PROVE  KnowsInv'
<1>1. Goto(from, to) /\ schedule /\ UNCHANGED <<terminatedTaskList, weNeedTheCleanerToNotBlock>>
  BY DEF CallSchedule, others
<1>2. CASE from \in CleanerPlace
  <2>1. /\ currentTaskTCB = cleanerThread /\ pc[cleanerThread] = "cleanerSchedule"
        /\ pc'[cleanerThread] = "cleanerUnlock"
    BY <1>1, <1>2, OtherPlace
  <2>2. terminatedTaskList = << >>
    BY <2>1 DEF KnowsInv
  <2> QED BY <1>1, <2>1, <2>2 DEF KnowsInv
<1>3. CASE from \notin CleanerPlace
  <2>1. currentTaskTCB # cleanerThread /\ pc'[cleanerThread] = pc[cleanerThread]
    BY <1>1, <1>3, OtherPlace
  <2>2. CASE SelectTask
    BY <1>1, <2>1, <2>2, KnowsSwitch
  <2>3. CASE UNCHANGED <<currentTaskTCB, taskList>>
    BY <1>1, <2>1, <2>3, KnowsStays
  <2> QED BY <1>1, <2>2, <2>3 DEF schedule
<1> QED BY <1>2, <1>3

LEMMA KnowsUnlockStuff ==
  ASSUME TypeInv, ListInv, KnowsInv, NEW from, NEW to, CallUnlockStuff(from, to),
         from \in CleanerPlace => from = "cleanerUnlockStuff" /\ to = "cleanerEnable"
  PROVE  KnowsInv'
<1>1. Goto(from, to) /\ unlockStuffBody
      /\ UNCHANGED <<terminatedTaskList, weNeedTheCleanerToNotBlock>>
  BY DEF CallUnlockStuff, others
<1>2. CASE from \in CleanerPlace
  <2>1. /\ currentTaskTCB = cleanerThread /\ pc[cleanerThread] = "cleanerUnlockStuff"
        /\ pc'[cleanerThread] = "cleanerEnable"
    BY <1>1, <1>2, OtherPlace
  <2>2. terminatedTaskList = << >>
    BY <2>1 DEF KnowsInv
  <2> QED BY <1>1, <2>1, <2>2 DEF KnowsInv
<1>3. CASE from \notin CleanerPlace
  <2>1. currentTaskTCB # cleanerThread /\ pc'[cleanerThread] = pc[cleanerThread]
    BY <1>1, <1>3, OtherPlace
  <2>2. CASE SelectTask
    BY <1>1, <2>1, <2>2, KnowsSwitch
  <2>3. CASE UNCHANGED <<currentTaskTCB, taskList>>
    BY <1>1, <2>1, <2>3, KnowsStays
  <2> QED BY <1>1, <2>2, <2>3 DEF unlockStuffBody
<1> QED BY <1>2, <1>3

(* What the thread that ends leaves behind. *)
LEMMA KnowsTerminate ==
  ASSUME TypeInv, ListInv, KnowsInv, Terminate
  PROVE  KnowsInv'
<1>1. /\ Goto("run", "exitUnlock") /\ currentTaskTCB' = currentTaskTCB
      /\ weNeedTheCleanerToNotBlock' = TRUE
      /\ taskList' = unblockTask(cleanerThread)
  BY DEF Terminate
<1>2. /\ currentTaskTCB # cleanerThread
      /\ pc'[cleanerThread] = pc[cleanerThread]
  BY <1>1, CleanerFacts, OtherPlace DEF Terminate
<1>3. /\ cleanerThread \notin Range(sleepingTaskList)
      /\ cleanerThread \notin Range(terminatedTaskList)
  BY CleanerFacts DEF ListInv, SleepersSleep, TerminatedStay
<1>4. cleanerThread \in Range(taskList')
  <2>1. CASE cleanerThread \in Range(taskList)
    BY <1>1, <1>3, <2>1, CleanerFacts, Queued
  <2>2. CASE cleanerThread \notin Range(taskList)
    <3>1. Awaits(cleanerThread)
      BY <1>2, <2>2, CleanerFacts DEF ListInv, NoThreadLost
    <3>2. CanUnblock(cleanerThread)
      BY <2>2, <3>1 DEF Awaits, CanUnblock
    <3> QED BY <1>1, <1>3, <3>2, CleanerFacts, Queued
  <2> QED BY <2>1, <2>2
<1> QED BY <1>1, <1>2, <1>4 DEF KnowsInv

LEMMA KnowsCreate ==
  ASSUME TypeInv, ListInv, KnowsInv, NEW t \in UserThread, CreateThread(t),
         UNCHANGED <<currentTaskTCB, terminatedTaskList, weNeedTheCleanerToNotBlock>>
  PROVE  KnowsInv'
<1>1. t \in Thread /\ t # cleanerThread
  BY CleanerFacts DEF UserThread
<1>2. Range(taskList') = Range(taskList) \cup {t}
  BY <1>1, CleanerFacts, AppendFacts DEF CreateThread
<1>3. pc'[cleanerThread] = pc[cleanerThread]
  BY <1>1, CleanerFacts DEF CreateThread
<1> QED BY <1>2, <1>3, KnowsStays

LEMMA KnowsCleaner == TypeInv /\ ListInv /\ KnowsInv /\ Cleaner => KnowsInv'
<1> SUFFICES ASSUME TypeInv, ListInv, KnowsInv, Cleaner PROVE KnowsInv'
  OBVIOUS
<1>1. CASE CleanerSchedule
  BY <1>1, KnowsSchedule DEF CleanerSchedule
<1>2. CASE CleanerUnlockStuff
  BY <1>2, KnowsUnlockStuff DEF CleanerUnlockStuff
<1>3. CASE CleanerBlock
  <2>1. /\ Goto("cleanerTest", "cleanerSchedule") /\ ~weNeedTheCleanerToNotBlock
        /\ UNCHANGED <<currentTaskTCB, terminatedTaskList>>
    BY <1>3 DEF CleanerBlock, others
  <2>2. pc[cleanerThread] = "cleanerTest" /\ currentTaskTCB = cleanerThread
    BY <2>1, OtherPlace DEF CleanerPlace
  <2> QED BY <2>1, <2>2 DEF KnowsInv
<1>4. CASE CleanDone
  <2>1. /\ Goto("clean", "cleanerUnlockStuff") /\ terminatedTaskList = << >>
        /\ UNCHANGED <<currentTaskTCB, terminatedTaskList>>
    BY <1>4 DEF CleanDone, CallUnlock, scheduled, others
  <2>2. currentTaskTCB = cleanerThread
    BY <2>1, OtherPlace DEF CleanerPlace, CleanPlace
  <2> QED BY <2>1, <2>2 DEF KnowsInv
<1>5. CASE \/ CleanerDoesNotBlock \/ CleanerUnlock \/ CleanerClear \/ CleanerLock
           \/ CleanTask \/ CleanWakeOne \/ CleanWakeDone \/ CleanNoTerminal \/ CleanTerminal
           \/ CleanPanic \/ KePanic
  <2>1. PICK from \in CleanerPlace, to \in CleanerPlace :
          /\ Goto(from, to) /\ currentTaskTCB' = currentTaskTCB
          /\ to \notin {"cleanerSchedule", "cleanerUnlockStuff", "cleanerEnable", "cleanerTest"}
    BY <1>5
    DEF CleanerDoesNotBlock, CleanerUnlock, CleanerClear, CleanerLock, CleanTask, CleanWakeOne,
        CleanWakeDone, CleanPanic, KePanic, CleanNoTerminal, CleanTerminal, CallUnlock,
        scheduled, CleanerPlace, CleanPlace
  <2>2. currentTaskTCB = cleanerThread /\ pc'[cleanerThread] = to
    BY <2>1, OtherPlace
  <2> QED BY <2>1, <2>2 DEF KnowsInv
<1>6. CASE CleanerEnable
  <2>1. /\ Goto("cleanerEnable", "cleanerTest")
        /\ UNCHANGED <<currentTaskTCB, terminatedTaskList, weNeedTheCleanerToNotBlock>>
    BY <1>6 DEF CleanerEnable, CallUnlock, scheduled, others
  <2>2. /\ pc[cleanerThread] = "cleanerEnable" /\ currentTaskTCB = cleanerThread
        /\ pc'[cleanerThread] = "cleanerTest"
    BY <2>1, OtherPlace DEF CleanerPlace
  <2> QED BY <2>1, <2>2 DEF KnowsInv
<1> QED BY <1>1, <1>2, <1>3, <1>4, <1>5, <1>6 DEF Cleaner

(* The one sleeper that the timer may wake. *)
LEMMA WokenFacts ==
  ASSUME TypeInv, ListInv, WakeOrRotate
  PROVE  \/ taskList' = taskList
         \/ \E t \in Thread : /\ state[t] = "Sleeping"
                               /\ Range(taskList') = Range(taskList) \cup {t}
<1> DEFINE curr == Head(sleepingTaskList)
<1>0. currentTaskTCB \in Thread /\ sleepingTaskList \in Seq(Thread)
  BY DEF TypeInv, TypeOK
<1>1. isr[currentTaskTCB] = "wake" /\ sleepingTaskList # << >>
  BY <1>0 DEF TypeInv, WakeInv, WakeOrRotate
<1>2. curr \in Thread /\ curr \in Range(sleepingTaskList)
  BY <1>0, <1>1, TailFacts
<1>3. PlaceDepth(pc[currentTaskTCB]) = 0
  BY <1>0, <1>1 DEF TypeInv, LocksMatch
<1>4. state[curr] = "Sleeping"
  BY <1>2, <1>3 DEF ListInv, SleepersSleep, PlaceDepth
<1>5. taskList' = taskList \/ taskList' = Append(taskList, curr)
  BY DEF WakeOrRotate, unblockTask
<1>6. taskList' = Append(taskList, curr) => Range(taskList') = Range(taskList) \cup {curr}
  BY <1>2, CleanerFacts, AppendFacts
<1> QED BY <1>2, <1>4, <1>5, <1>6

LEMMA KnowsTimer == TypeInv /\ ListInv /\ KnowsInv /\ (Tick \/ Interrupt) => KnowsInv'
<1> SUFFICES ASSUME TypeInv, ListInv, KnowsInv, Tick \/ Interrupt PROVE KnowsInv'
  OBVIOUS
<1>1. CASE Tick \/ Preempt \/ IsrUnlock
  <2>1. UNCHANGED <<currentTaskTCB, taskList, terminatedTaskList, pc, weNeedTheCleanerToNotBlock>>
    BY <1>1 DEF Tick, Preempt, IsrUnlock, scheduled, others
  <2> QED BY <2>1, KnowsStays
<1>2. CASE WakeOrRotate
  <2>1. WakeOrRotate /\ UNCHANGED <<currentTaskTCB, terminatedTaskList, pc, weNeedTheCleanerToNotBlock>>
    BY <1>2 DEF WakeOrRotate
  <2>2. Range(taskList) \subseteq Range(taskList')
    BY <1>2, WokenFacts
  <2> QED BY <2>1, <2>2, KnowsStays
<1>3. CASE IsrSchedule
  <2>1. /\ schedule /\ isr[currentTaskTCB] = "schedule"
        /\ UNCHANGED <<terminatedTaskList, weNeedTheCleanerToNotBlock, pc>>
    BY <1>3 DEF IsrSchedule, others
  <2>2. PlaceDepth(pc[currentTaskTCB]) = 0
    BY <2>1, CleanerFacts DEF TypeInv, LocksMatch
  <2>3. CASE SelectTask
    <3>1. ASSUME currentTaskTCB = cleanerThread
          PROVE  /\ state[cleanerThread] = "Running"
                 /\ pc[cleanerThread] \notin {"cleanerSchedule", "cleanerUnlockStuff"}
      <4>1. pc[cleanerThread] \in {"cleanerTest", "cleanerClear", "cleanerLock"}
        BY <2>2, <3>1, CleanerFacts DEF PlaceDepth, CleanerPlace, CleanPlace
      <4> QED BY <3>1, <4>1
              DEF ListInv, OnItsWay, SleepPlace, ExitPlace, CleanPlace
    <3> QED BY <2>1, <2>3, <3>1, KnowsSwitch
  <2>4. CASE UNCHANGED <<currentTaskTCB, taskList>>
    BY <2>1, <2>4, KnowsStays
  <2> QED BY <2>1, <2>3, <2>4 DEF schedule
<1> QED BY <1>1, <1>2, <1>3 DEF Interrupt

LEMMA KnowsNext == TypeInv /\ ListInv /\ KnowsInv /\ [Next]_vars => KnowsInv'
<1> SUFFICES ASSUME TypeInv, ListInv, KnowsInv, [Next]_vars PROVE KnowsInv'
  OBVIOUS
<1>1. CASE UNCHANGED vars
  BY <1>1 DEF vars, threadVars, listVars, KnowsInv
<1>2. CASE Request
  <2>1. CASE Yield \/ MainPause \/ SysPause \/ SleepCall \/ WaitTask
    <3>1. PICK from \in {"run"}, to \in {"schedule", "sleepCheck", "waitBlock"} : Goto(from, to)
      BY <2>1 DEF Yield, MainPause, SysPause, BlockTask, SleepCall, WaitTask
    <3>2. pc'[cleanerThread] = pc[cleanerThread]
      BY <3>1, OtherPlace DEF CleanerPlace, CleanPlace
    <3> QED BY <2>1, <3>2, KnowsStays
            DEF Yield, MainPause, SysPause, BlockTask, SleepCall, WaitTask, scheduled, others
  <2>2. CASE Terminate
    BY <2>2, KnowsTerminate
  <2>3. CASE PthreadCreate
    BY <2>3, KnowsCreate DEF PthreadCreate
  <2>4. CASE Spawn
    BY <2>4, KnowsCreate DEF Spawn
  <2> QED BY <1>2, <2>1, <2>2, <2>3, <2>4 DEF Request
<1>3. CASE Service
  <2>1. CASE Schedule \/ SleepSchedule \/ ExitSchedule
    BY <2>1, KnowsSchedule DEF Schedule, SleepSchedule, ExitSchedule, CleanerPlace, CleanPlace
  <2>2. CASE SleepUnlockStuff \/ ExitUnlockStuff
    BY <2>2, KnowsUnlockStuff DEF SleepUnlockStuff, ExitUnlockStuff, CleanerPlace, CleanPlace
  <2>3. CASE \/ Unlock \/ SleepUnlock \/ ExitUnlock \/ ExitEnable
             \/ SleepTooLate \/ SleepChecked \/ SleepEnqueue \/ SleepBlock \/ WaitBlock \/ ExitLoop
    <3>1. PICK from \in Place \ CleanerPlace, to \in Place : Goto(from, to)
      BY <2>3
      DEF Unlock, SleepUnlock, ExitUnlock, ExitEnable, CallUnlock, SleepTooLate, SleepChecked,
          SleepEnqueue, SleepBlock, WaitBlock, BlockTask, ExitLoop, Place, CleanerPlace, CleanPlace
    <3>2. pc'[cleanerThread] = pc[cleanerThread]
      BY <3>1, OtherPlace
    <3> QED BY <2>3, <3>2, KnowsStays
            DEF Unlock, SleepUnlock, ExitUnlock, ExitEnable, CallUnlock, SleepTooLate, SleepChecked,
                SleepEnqueue, SleepBlock, WaitBlock, BlockTask, ExitLoop, scheduled, others
  <2> QED BY <1>3, <2>1, <2>2, <2>3 DEF Service
<1>4. CASE Cleaner
  BY <1>4, KnowsCleaner
<1>5. CASE Tick \/ Interrupt
  BY <1>5, KnowsTimer
<1> QED BY <1>1, <1>2, <1>3, <1>4, <1>5 DEF Next

(* A terminated thread is never left alone: the cleaner is running or queued *)
(* and looks at terminatedTaskList before it blocks, whatever comes between *)
(* its test of the flag, its clearing of it and its call of schedule().     *)
THEOREM CleanerIsAwake == Spec => []CleanerKnows
<1>1. Init => KnowsInv
  BY ThreadsAssumption DEF Init, KnowsInv
<1>2. KnowsInv /\ ListInv => CleanerKnows
  BY DEF KnowsInv, CleanerKnows
<1> QED BY <1>1, <1>2, KnowsNext, Invariance, PTL DEF Spec

-----------------------------------------------------------------------------
(* What waitpid reports stays true while the report is on its way: no thread *)
(* is added to a process that has none, and the cleaner is at cleanWake only *)
(* for such a process.                                                      *)
ReportInv ==
  /\ WaitReportsFinishedChild
  /\ state[cleanerThread] # "WaitPID"
  /\ \A t \in threadUsage : processOf[t] \in processes
  /\ pc[cleanerThread] = "cleanWake" => cleaning \in Process /\ Finished(cleaning)

(* What a step has to leave as it is, and what it may report. *)
LEMMA ReportStays ==
  ASSUME TypeInv, ListInv, ReportInv,
         \A p \in Process : Finished(p) => Finished(p)',
         \A t \in Range(taskList') :
           state'[t] = "WaitPID" =>
             \/ t \in Range(taskList) /\ state[t] = "WaitPID" /\ waitingPID'[t] = waitingPID[t]
             \/ \E p \in Process :
                  waitingPID'[t] = p /\ parent[p] = processOf[t] /\ Finished(p),
         state'[cleanerThread] = "WaitPID" => state[cleanerThread] = "WaitPID",
         \A t \in threadUsage' : processOf[t] \in processes',
         pc'[cleanerThread] = "cleanWake" =>
           \/ pc[cleanerThread] = "cleanWake" /\ cleaning' = cleaning
           \/ \E p \in Process : cleaning' = p /\ Finished(p)'
  PROVE  ReportInv'
<1>0. \A p \in Process :
        Finished(p) \/ Finished(p)' => p \in processes' /\ \A u \in threadUsage' : processOf[u] # p
  BY DEF Finished
<1>1. WaitReportsFinishedChild'
  <2> SUFFICES ASSUME NEW t \in Range(taskList'), state'[t] = "WaitPID"
               PROVE  /\ waitingPID'[t] \in Process
                      /\ parent[waitingPID'[t]] = processOf[t]
                      /\ waitingPID'[t] \in processes'
                      /\ \A u \in threadUsage' : processOf[u] # waitingPID'[t]
    BY DEF WaitReportsFinishedChild, Finished, Range
  <2>1. PICK p \in Process : waitingPID'[t] = p /\ parent[p] = processOf[t] /\ Finished(p)
    BY DEF ReportInv, WaitReportsFinishedChild
  <2> QED BY <1>0, <2>1
<1>2. pc'[cleanerThread] = "cleanWake" =>
        /\ cleaning' \in Process /\ cleaning' \in processes'
        /\ \A u \in threadUsage' : processOf[u] # cleaning'
  BY <1>0 DEF ReportInv
<1> QED BY <1>1, <1>2 DEF ReportInv, Finished

(* A step that leaves the threads in use and the run queue, but for the      *)
(* current thread, which may become one that waits.                         *)
LEMMA ReportQuiet ==
  ASSUME TypeInv, ListInv, ReportInv,
         UNCHANGED <<threadUsage, processes, taskList, currentTaskTCB>>,
         \A t \in Thread \ {currentTaskTCB} : state'[t] = state[t] /\ waitingPID'[t] = waitingPID[t],
         currentTaskTCB = cleanerThread => state'[cleanerThread] # "WaitPID",
         pc'[cleanerThread] = "cleanWake" =>
           pc[cleanerThread] = "cleanWake" /\ cleaning' = cleaning
  PROVE  ReportInv'
<1>1. \A p \in Process : Finished(p) => Finished(p)'
  BY DEF Finished
<1>2. Range(taskList) \subseteq Thread \ {currentTaskTCB} /\ cleanerThread \in Thread
  BY CleanerFacts DEF ListInv, InUse, TypeInv, TypeOK
<1>3. \A t \in threadUsage' : processOf[t] \in processes'
  BY DEF ReportInv
<1> QED BY <1>1, <1>2, <1>3, ReportStays

LEMMA ReportSwitch ==
  ASSUME TypeInv, ListInv, ReportInv, SelectTask,
         UNCHANGED <<threadUsage, processes, waitingPID>>,
         pc'[cleanerThread] = "cleanWake" =>
           pc[cleanerThread] = "cleanWake" /\ cleaning' = cleaning
  PROVE  ReportInv'
<1>1. \A p \in Process : Finished(p) => Finished(p)'
  BY DEF Finished
<1>2. \A t \in threadUsage' : processOf[t] \in processes'
  BY DEF ReportInv
<1>3. CASE UNCHANGED <<currentTaskTCB, taskList, state>>
  BY <1>1, <1>2, <1>3, ReportStays
<1>4. CASE /\ currentTaskTCB' \in Range(taskList)
           /\ Range(taskList') = (Range(taskList) \ {currentTaskTCB'}) \cup {currentTaskTCB}
           /\ state' = [state EXCEPT ![currentTaskTCB] = "ReadyToRun", ![currentTaskTCB'] = "Running"]
  <2>1. \A t \in Thread : state'[t] = "WaitPID" => state[t] = "WaitPID" /\ t # currentTaskTCB
    BY <1>4, CleanerFacts
  <2>2. Range(taskList') \subseteq Thread
    BY <1>4, CleanerFacts DEF ListInv, InUse, TypeInv, TypeOK
  <2> QED BY <1>1, <1>2, <1>4, <2>1, <2>2, CleanerFacts, ReportStays
<1>5. CASE /\ currentTaskTCB' \in Range(taskList)
           /\ Range(taskList') = Range(taskList) \ {currentTaskTCB'}
           /\ state' = [state EXCEPT ![currentTaskTCB'] = "Running"]
  <2>1. \A t \in Thread : state'[t] = "WaitPID" => state[t] = "WaitPID"
    BY <1>5, CleanerFacts
  <2>2. Range(taskList') \subseteq Thread
    BY <1>5, CleanerFacts DEF ListInv, InUse, TypeInv, TypeOK
  <2> QED BY <1>1, <1>2, <1>5, <2>1, <2>2, CleanerFacts, ReportStays
<1> QED BY <1>3, <1>4, <1>5, SelectFacts

LEMMA ReportSchedule ==
  ASSUME TypeInv, ListInv, ReportInv, schedule \/ unlockStuffBody,
         UNCHANGED <<threadUsage, processes, waitingPID>>,
         pc'[cleanerThread] = "cleanWake" =>
           pc[cleanerThread] = "cleanWake" /\ cleaning' = cleaning
  PROVE  ReportInv'
<1>1. CASE SelectTask
  BY <1>1, ReportSwitch
<1>2. CASE UNCHANGED <<currentTaskTCB, taskList, state>>
  BY <1>2, ReportQuiet DEF ReportInv
<1> QED BY <1>1, <1>2 DEF schedule, unlockStuffBody

LEMMA ReportCreate ==
  ASSUME TypeInv, ListInv, ReportInv, NEW t \in UserThread, CreateThread(t),
         UNCHANGED <<currentTaskTCB, waitingPID, cleaning>>,
         \/ /\ processOf[t] = processOf[currentTaskTCB]
            /\ UNCHANGED processes
         \/ /\ processOf[t] \notin processes
            /\ processes' = processes \cup {processOf[t]}
  PROVE  ReportInv'
<1>1. t \in Thread /\ t # cleanerThread
  BY CleanerFacts DEF UserThread
<1>2. \A p \in Process : Finished(p) => p # processOf[t]
  BY CleanerFacts DEF Finished
<1>3. threadUsage' = threadUsage \cup {t} /\ processes \subseteq processes'
  BY DEF CreateThread
<1>4. \A p \in Process : Finished(p) => Finished(p)'
  BY <1>2, <1>3 DEF Finished
<1>5. \A u \in threadUsage' : processOf[u] \in processes'
  BY <1>3, CleanerFacts DEF ReportInv
<1>6. Range(taskList') = Range(taskList) \cup {t}
  BY <1>1, CleanerFacts, AppendFacts DEF CreateThread
<1>7. /\ state'[t] = "ReadyToRun" /\ \A u \in Thread \ {t} : state'[u] = state[u]
      /\ pc'[cleanerThread] = pc[cleanerThread]
  BY <1>1, CleanerFacts DEF CreateThread
<1>8. Range(taskList) \subseteq Thread /\ cleanerThread \in Thread
  BY CleanerFacts DEF ListInv, InUse, TypeInv, TypeOK
<1> QED BY <1>1, <1>4, <1>5, <1>6, <1>7, <1>8, ReportStays

LEMMA ReportCleaner == TypeInv /\ ListInv /\ ReportInv /\ Cleaner => ReportInv'
<1> SUFFICES ASSUME TypeInv, ListInv, ReportInv, Cleaner PROVE ReportInv'
  OBVIOUS
<1>1. CASE CleanerSchedule \/ CleanerUnlockStuff
  <2>1. PICK from \in CleanerPlace, to \in {"cleanerUnlock", "cleanerEnable"} : Goto(from, to)
    BY <1>1
    DEF CleanerSchedule, CallSchedule, CleanerUnlockStuff, CallUnlockStuff, CleanerPlace, CleanPlace
  <2>2. pc'[cleanerThread] # "cleanWake"
    BY <2>1, OtherPlace
  <2>3. UNCHANGED <<threadUsage, processes, waitingPID>> /\ (schedule \/ unlockStuffBody)
    BY <1>1
    DEF CleanerSchedule, CallSchedule, CleanerUnlockStuff, CallUnlockStuff, others, processVars
  <2> QED BY <2>2, <2>3, ReportSchedule
<1>2. CASE \/ CleanerBlock \/ CleanerDoesNotBlock \/ CleanerUnlock \/ CleanerClear \/ CleanerLock
           \/ CleanWakeDone \/ CleanPanic \/ KePanic
           \/ CleanNoTerminal \/ CleanTerminal \/ CleanDone \/ CleanerEnable
  <2>1. PICK from \in CleanerPlace, to \in CleanerPlace \ {"cleanWake"} :
          /\ Goto(from, to)
          /\ UNCHANGED <<threadUsage, processes, waitingPID, taskList, currentTaskTCB>>
          /\ state' = state \/ \E s \in {"Paused", "Terminated"} :
                                 state' = [state EXCEPT ![cleanerThread] = s]
    BY <1>2
    DEF CleanerBlock, CleanerDoesNotBlock, CleanerUnlock, CleanerClear, CleanerLock, CleanWakeDone,
        CleanPanic, KePanic, CleanNoTerminal, CleanTerminal, CleanDone, CleanerEnable, CallUnlock, scheduled, others,
        processVars, CleanerPlace, CleanPlace
  <2>2. currentTaskTCB = cleanerThread /\ pc'[cleanerThread] # "cleanWake"
    BY <2>1, OtherPlace
  <2>3. /\ \A t \in Thread \ {cleanerThread} : state'[t] = state[t]
        /\ state'[cleanerThread] # "WaitPID"
    BY <2>1, CleanerFacts DEF ReportInv
  <2> QED BY <2>1, <2>2, <2>3, ReportQuiet
<1>3. CASE CleanTask
  <2> DEFINE h == Head(terminatedTaskList)
             p == processOf[h]
             last == \A u \in threadUsage \ {h} : processOf[u] # p
  <2>1. /\ Goto("clean", IF last THEN "cleanWake" ELSE "clean")
        /\ terminatedTaskList # << >> /\ threadUsage' = threadUsage \ {h}
        /\ cleaning' = (IF last THEN p ELSE cleaning)
        /\ UNCHANGED <<processes, taskList, state, waitingPID>>
    BY <1>3 DEF CleanTask, scheduled
  <2>2. h \in threadUsage
    <3>1. terminatedTaskList \in Seq(Thread)
      BY DEF TypeInv, TypeOK
    <3>2. h \in Range(terminatedTaskList)
      BY <2>1, <3>1, TailFacts
    <3> QED BY <3>2 DEF ListInv, InUse
  <2>3. pc'[cleanerThread] = IF last THEN "cleanWake" ELSE "clean"
    BY <2>1, OtherPlace DEF CleanerPlace, CleanPlace
  <2>4. \A q \in Process : Finished(q) => Finished(q)'
    BY <2>1 DEF Finished
  <2>5. p \in processes /\ p \in Process
    BY <2>2 DEF ReportInv, TypeInv, TypeOK
  <2>6. ASSUME last, NEW q \in Process, q = p PROVE Finished(q)'
    BY <2>1, <2>5, <2>6 DEF Finished
  <2>7. \A u \in threadUsage' : processOf[u] \in processes'
    BY <2>1 DEF ReportInv
  <2> HIDE DEF last, p, h
  <2>8. pc'[cleanerThread] = "cleanWake" => \E q \in Process : cleaning' = q /\ Finished(q)'
    BY <2>1, <2>3, <2>5, <2>6
  <2> QED BY <2>1, <2>4, <2>7, <2>8, ReportStays
<1>4. CASE CleanWakeOne
  <2>1. PICK w \in WaitersFor(cleaning) :
          /\ waitingPID' = [waitingPID EXCEPT ![w] = cleaning]
          /\ taskList' = unblockTask(w)
    BY <1>4 DEF CleanWakeOne
  <2>2. /\ Goto("cleanWake", "cleanWake")
        /\ UNCHANGED <<state, threadUsage, processes, cleaning>>
    BY <1>4 DEF CleanWakeOne, processVars
  <2>3. pc[cleanerThread] = "cleanWake"
    BY <2>2, OtherPlace DEF CleanerPlace, CleanPlace
  <2>4. cleaning \in Process /\ Finished(cleaning)
    BY <2>3 DEF ReportInv
  <2>5. w \in Thread /\ processOf[w] = parent[cleaning]
    BY <2>1 DEF WaitersFor, TypeInv, TypeOK
  <2>6. /\ waitingPID'[w] = cleaning
        /\ \A t \in Thread \ {w} : waitingPID'[t] = waitingPID[t]
    BY <2>1, <2>5 DEF TypeInv, TypeOK
  <2>7. Range(taskList) \subseteq Thread /\ Range(taskList') \subseteq Range(taskList) \cup {w}
    BY <2>1, <2>5, CleanerFacts, AppendFacts DEF unblockTask, ListInv, InUse, TypeInv, TypeOK
  <2>8. /\ \A p \in Process : Finished(p) => Finished(p)'
        /\ \A t \in threadUsage' : processOf[t] \in processes'
    BY <2>2 DEF Finished, ReportInv
  <2> QED BY <2>2, <2>3, <2>4, <2>5, <2>6, <2>7, <2>8, ReportStays
<1> QED BY <1>1, <1>2, <1>3, <1>4 DEF Cleaner

LEMMA ReportTimer == TypeInv /\ ListInv /\ ReportInv /\ (Tick \/ Interrupt) => ReportInv'
<1> SUFFICES ASSUME TypeInv, ListInv, ReportInv, Tick \/ Interrupt PROVE ReportInv'
  OBVIOUS
<1>1. UNCHANGED <<threadUsage, processes, waitingPID, cleaning, pc>>
  BY DEF Tick, Interrupt, WakeOrRotate, Preempt, IsrSchedule, IsrUnlock, scheduled, others,
         processVars
<1>2. CASE Tick \/ Preempt \/ IsrUnlock
  <2>1. UNCHANGED <<taskList, currentTaskTCB, state>>
    BY <1>2 DEF Tick, Preempt, IsrUnlock, scheduled
  <2> QED BY <1>1, <2>1, ReportQuiet DEF ReportInv
<1>3. CASE WakeOrRotate
  <2>1. /\ \A p \in Process : Finished(p) => Finished(p)'
        /\ \A t \in threadUsage' : processOf[t] \in processes'
    BY <1>1 DEF Finished, ReportInv
  <2>2. UNCHANGED state
    BY <1>3 DEF WakeOrRotate
  <2> QED BY <1>1, <1>3, <2>1, <2>2, WokenFacts, ReportStays
<1>4. CASE IsrSchedule
  BY <1>1, <1>4, ReportSchedule DEF IsrSchedule
<1> QED BY <1>2, <1>3, <1>4 DEF Interrupt

LEMMA ReportNext == TypeInv /\ ListInv /\ ReportInv /\ [Next]_vars => ReportInv'
<1> SUFFICES ASSUME TypeInv, ListInv, ReportInv, [Next]_vars PROVE ReportInv'
  OBVIOUS
<1>1. CASE UNCHANGED vars
  BY <1>1, ReportQuiet DEF vars, threadVars, processVars, listVars, ReportInv
<1>2. CASE Request
  <2>1. CASE Yield \/ MainPause \/ SysPause \/ SleepCall \/ WaitTask
    <3>1. PICK to \in {"schedule", "sleepCheck", "waitBlock"} : Goto("run", to)
      BY <2>1 DEF Yield, MainPause, SysPause, BlockTask, SleepCall, WaitTask
    <3>2. /\ pc'[cleanerThread] = pc[cleanerThread]
          /\ currentTaskTCB # cleanerThread
      BY <3>1, OtherPlace DEF CleanerPlace, CleanPlace
    <3>3. /\ UNCHANGED <<threadUsage, processes, taskList, currentTaskTCB, cleaning>>
          /\ state' = state \/ \E s \in TaskState : state' = [state EXCEPT ![currentTaskTCB] = s]
          /\ \/ waitingPID' = waitingPID
             \/ \E w \in Process \cup {Null, AnyChild, Unsupported} :
                  waitingPID' = [waitingPID EXCEPT ![currentTaskTCB] = w]
      BY <2>1, ThreadsAssumption
      DEF Yield, MainPause, SysPause, BlockTask, SleepCall, WaitTask, scheduled, others, processVars,
          TaskState, TypeInv, TypeOK
    <3>4. \A t \in Thread \ {currentTaskTCB} :
            state'[t] = state[t] /\ waitingPID'[t] = waitingPID[t]
      BY <3>3 DEF TypeInv, TypeOK
    <3> QED BY <3>2, <3>3, <3>4, ReportQuiet
  <2>2. CASE Terminate
    <3>1. /\ Goto("run", "exitUnlock") /\ taskList' = unblockTask(cleanerThread)
          /\ state' = [state EXCEPT ![currentTaskTCB] = "Terminated"]
          /\ UNCHANGED <<threadUsage, processes, waitingPID, cleaning>>
      BY <2>2 DEF Terminate, processVars
    <3>2. pc'[cleanerThread] = pc[cleanerThread]
      BY <3>1, OtherPlace DEF CleanerPlace, CleanPlace
    <3>3. Range(taskList) \subseteq Thread /\ Range(taskList') \subseteq Range(taskList) \cup {cleanerThread}
      BY <3>1, CleanerFacts, AppendFacts DEF unblockTask, ListInv, InUse, TypeInv, TypeOK
    <3>4. \A t \in Thread : state'[t] = "WaitPID" => state[t] = "WaitPID"
      BY <3>1, CleanerFacts
    <3>5. /\ \A p \in Process : Finished(p) => Finished(p)'
          /\ \A t \in threadUsage' : processOf[t] \in processes'
      BY <3>1 DEF Finished, ReportInv
    <3> QED BY <3>1, <3>2, <3>3, <3>4, <3>5, CleanerFacts, ReportStays DEF ReportInv
  <2>3. CASE PthreadCreate
    BY <2>3, ReportCreate DEF PthreadCreate
  <2>4. CASE Spawn
    BY <2>4, ReportCreate DEF Spawn
  <2> QED BY <1>2, <2>1, <2>2, <2>3, <2>4 DEF Request
<1>3. CASE Service
  <2>0. PICK from \in Place \ CleanerPlace, to \in Place : Goto(from, to)
    BY <1>3
    DEF Service, Schedule, SleepSchedule, ExitSchedule, CallSchedule, SleepUnlockStuff,
        ExitUnlockStuff, CallUnlockStuff, Unlock, SleepUnlock, ExitUnlock, ExitEnable, CallUnlock,
        SleepTooLate, SleepChecked, SleepEnqueue, SleepBlock, WaitBlock, BlockTask, ExitLoop, Place,
        CleanerPlace, CleanPlace
  <2>1. pc'[cleanerThread] = pc[cleanerThread] /\ currentTaskTCB # cleanerThread
    BY <2>0, OtherPlace
  <2>2. CASE Schedule \/ SleepSchedule \/ ExitSchedule \/ SleepUnlockStuff \/ ExitUnlockStuff
    <3>1. /\ schedule \/ unlockStuffBody
          /\ UNCHANGED <<threadUsage, processes, waitingPID, cleaning>>
      BY <2>2
      DEF Schedule, SleepSchedule, ExitSchedule, CallSchedule, SleepUnlockStuff, ExitUnlockStuff,
          CallUnlockStuff, others, processVars
    <3> QED BY <2>1, <3>1, ReportSchedule
  <2>3. CASE \/ Unlock \/ SleepUnlock \/ ExitUnlock \/ ExitEnable
             \/ SleepTooLate \/ SleepChecked \/ SleepEnqueue \/ SleepBlock \/ WaitBlock \/ ExitLoop
    <3>1. /\ UNCHANGED <<threadUsage, processes, taskList, currentTaskTCB, waitingPID, cleaning>>
          /\ state' = state \/ \E s \in TaskState : state' = [state EXCEPT ![currentTaskTCB] = s]
      BY <2>3
      DEF Unlock, SleepUnlock, ExitUnlock, ExitEnable, CallUnlock, SleepTooLate, SleepChecked,
          SleepEnqueue, SleepBlock, WaitBlock, BlockTask, ExitLoop, scheduled, others, processVars,
          TaskState
    <3>2. \A t \in Thread \ {currentTaskTCB} : state'[t] = state[t]
      BY <3>1, CleanerFacts
    <3> QED BY <2>1, <3>1, <3>2, ReportQuiet
  <2> QED BY <1>3, <2>2, <2>3 DEF Service
<1>4. CASE Cleaner
  BY <1>4, ReportCleaner
<1>5. CASE Tick \/ Interrupt
  BY <1>5, ReportTimer
<1> QED BY <1>1, <1>2, <1>3, <1>4, <1>5 DEF Next

(* waitpid returns, and leaves in waitingPID, a child of the caller that has *)
(* no threads left and never gets any again, however long the caller has    *)
(* been in the run queue before it reads it.                                *)
THEOREM WaitpidIsRight == Spec => []WaitReportsFinishedChild
<1>1. Init => ReportInv
  <2> SUFFICES ASSUME Init PROVE ReportInv
    OBVIOUS
  <2>1. state[idleThread] = "ReadyToRun" /\ state[cleanerThread] = "Paused"
    BY ThreadsAssumption DEF Init
  <2>2. Range(taskList) = {idleThread}
    BY DEF Init, Range
  <2>3. pc[cleanerThread] = "cleanerUnlock"
    BY ThreadsAssumption DEF Init
  <2>4. \A t \in threadUsage : processOf[t] \in processes
    BY DEF Init
  <2> QED BY <2>1, <2>2, <2>3, <2>4 DEF ReportInv, WaitReportsFinishedChild
<1>2. ReportInv => WaitReportsFinishedChild
  BY DEF ReportInv
<1> QED BY <1>1, <1>2, ReportNext, Invariance, PTL DEF Spec

=============================================================================
