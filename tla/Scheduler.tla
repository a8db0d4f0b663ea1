------------------------------ MODULE Scheduler ------------------------------
(***************************************************************************)
(* The uniprocessor thread scheduler of the kernel:                        *)
(*   src/kernel/thr/prcssthr.cpp, prcssthr.hpp   the scheduler itself      *)
(*   src/kernel/hal/timer.cpp                    the timer interrupt       *)
(*   src/kernel/krnl/idle.cpp                    the idle thread           *)
(* with its callers: thread creation (SysSpawn, SysPthreadCreate), yield,  *)
(* sleep, waitpid, pause, exit and the cleaner thread.                     *)
(*                                                                         *)
(* There is one processor, so the only concurrency is the timer interrupt  *)
(* and the switches it and the threads make.  A step is a stretch of code  *)
(* that runs with interrupts off, cut wherever the depth of the interrupt  *)
(* lock changes around a call of schedule(), or a stretch that touches     *)
(* shared state once with interrupts on.  pc[t] is where thread t goes on  *)
(* when it is the current one, isr[t] where the timer interrupt that has   *)
(* interrupted t goes on.                                                  *)
(***************************************************************************)
EXTENDS Integers, Sequences, Functions

CONSTANTS
  Thread,        \* every ThreadControlBlock slot of every process
  Process,       \* every process
  processOf,     \* [Thread -> Process]: tcb->processRelatedTo
  parent,        \* [Process -> Process \cup {Null}]: Process::parent
  mainThread,    \* KeFirstTask, kernelProcess->threads[0]
  idleThread,    \* the one thread of "Idle Process", priority 255
  cleanerThread, \* the global cleanerThread
  Null,          \* nullptr, whatever it should point to
  AnyChild,      \* the argument -1 of waitpid
  Unsupported,   \* its arguments 0 and below -1
  SpecialPIDs,   \* which of the two are passed to it
  SleepTimes,    \* durations a thread sleeps, in timer ticks
  Quantum,       \* what switchToThread adds to a slice, in ticks
  MaxSlice,      \* the 1000 above which timerHandler mends a slice, in ticks
  PreemptionValues  \* what the timer may find keIsPreemptionOn to be

ASSUME ThreadsAssumption ==
  /\ processOf \in [Thread -> Process]
  /\ parent \in [Process -> Process \cup {Null}]
  /\ Null \notin Process \cup Thread
  /\ AnyChild \notin Process
  /\ Unsupported \notin Process \cup {Null, AnyChild}
  /\ SpecialPIDs \subseteq {AnyChild, Unsupported}
  /\ {mainThread, idleThread, cleanerThread} \subseteq Thread
  /\ mainThread # idleThread
  /\ mainThread # cleanerThread
  /\ idleThread # cleanerThread

ASSUME TimesAssumption ==
  /\ SleepTimes \subseteq Nat
  /\ MaxSlice \in Nat
  /\ Quantum \in 1 .. MaxSlice

ASSUME PreemptionAssumption == PreemptionValues \subseteq BOOLEAN

VARIABLES
  currentTaskTCB,               \* the running thread
  state,                        \* [Thread -> TaskState]: tcb->state
  threadUsage,                  \* the threads whose bit is set in their process
  processes,                    \* the processes created so far
  taskList,                     \* the run queue
  sleepingTaskList,
  terminatedTaskList,
  sleepLeft,                    \* tcb->sleepExpiry - milliTenthsSinceBoot, not below -1
  timeSliceRemaining,           \* [Thread -> ticks left]
  waitingPID,                   \* [Thread -> what waitpid asked for]
  terminal,                     \* [Process -> its VgaText, named by the process it was made for]
  liveTerminals,                \* the VgaTexts not deleted yet
  firstSleeper,                 \* where timerHandler's loop over sleepingTaskList ends
  cleaning,                     \* the process cleanupTerminatedTask is at
  weNeedTheCleanerToNotBlock,
  irqDisableCounter,
  postponeTaskSwitchesCounter,
  taskSwitchesPostponedFlag,
  interruptsOn,                 \* EFLAGS.IF
  pc,
  isr

threadVars == <<state, pc, isr, sleepLeft, timeSliceRemaining, waitingPID>>
processVars == <<threadUsage, processes, terminal, liveTerminals, cleaning>>
lockVars == <<irqDisableCounter, postponeTaskSwitchesCounter,
              taskSwitchesPostponedFlag, interruptsOn>>
listVars == <<taskList, sleepingTaskList, terminatedTaskList, firstSleeper>>
vars == <<currentTaskTCB, threadVars, processVars, lockVars, listVars,
          weNeedTheCleanerToNotBlock>>

(* What few steps change besides scheduling, locks and places. *)
others == <<sleepLeft, waitingPID, processVars, sleepingTaskList,
            terminatedTaskList, weNeedTheCleanerToNotBlock>>

TaskState == {"ReadyToRun", "Running", "Paused", "Sleeping", "Terminated",
              "WaitPID", "PausedForSignal"}

kernelProcess == processOf[mainThread]

-----------------------------------------------------------------------------
(***************************************************************************)
(* The interrupt lock and the postponing of switches (prcssthr.hpp).       *)
(* lockScheduler and disableIRQs are the same thing on one processor.      *)
(***************************************************************************)
disableIRQs ==
  /\ interruptsOn' = FALSE
  /\ irqDisableCounter' = irqDisableCounter + 1

(* Mutant: the lock does not nest. *)
enableIRQsAtOnce ==
  /\ irqDisableCounter' = irqDisableCounter - 1
  /\ interruptsOn' = TRUE

enableIRQs ==
  /\ irqDisableCounter' = irqDisableCounter - 1
  /\ interruptsOn' = (interruptsOn \/ irqDisableCounter = 1)

postponement == <<postponeTaskSwitchesCounter, taskSwitchesPostponedFlag>>

(* lockScheduler() and unlockScheduler(), where nothing is done in between. *)
lockScheduler == disableIRQs /\ UNCHANGED postponement
unlockScheduler == enableIRQs /\ UNCHANGED postponement

(* lockStuff(): interrupts off and switches postponed. *)
lockStuff ==
  /\ disableIRQs
  /\ postponeTaskSwitchesCounter' = postponeTaskSwitchesCounter + 1
  /\ UNCHANGED taskSwitchesPostponedFlag

(* lockStuff() with a lockScheduler() right after it. *)
lockStuffAndScheduler ==
  /\ interruptsOn' = FALSE
  /\ irqDisableCounter' = irqDisableCounter + 2
  /\ postponeTaskSwitchesCounter' = postponeTaskSwitchesCounter + 1
  /\ UNCHANGED taskSwitchesPostponedFlag

-----------------------------------------------------------------------------
(* Mutants: only sleepers, or only waiting threads, can be unblocked; a       *)
(* thread may be queued twice.                                              *)
CanUnblockSleeper(t) == state[t] = "Sleeping" /\ t \notin Range(taskList)
CanUnblockWaiter(t) == state[t] = "WaitPID" /\ t \notin Range(taskList)
unblockTaskBlindly(t) == Append(taskList, t)

(***************************************************************************)
(* unblockTask(t): the thread is put at the back of the run queue, unless  *)
(* it is there already or has never blocked.  Its state is not touched: it *)
(* stays what it waited for until schedule() picks the thread.             *)
(***************************************************************************)
CanUnblock(t) ==
  state[t] \notin {"ReadyToRun", "Running"} /\ t \notin Range(taskList)

unblockTask(t) == IF CanUnblock(t) THEN Append(taskList, t) ELSE taskList

(* Mutant: a thread starts with what was left of its slice. *)
SliceLeftOver(t) == timeSliceRemaining[t]

(***************************************************************************)
(* switchToThread(t) adds to the slice of the thread it starts; the idle   *)
(* thread (priority 255) always has an empty one.  Slices above MaxSlice   *)
(* are told apart nowhere, so they are kept at MaxSlice + 1.               *)
(***************************************************************************)
SliceOnSwitch(t) ==
  LET sum == timeSliceRemaining[t] + Quantum
  IN IF t = idleThread THEN 0
     ELSE IF sum > MaxSlice THEN MaxSlice + 1 ELSE sum

(* The switch itself: the first thread of the queue becomes the current one. *)
SwitchTo(queue, st) ==
  LET t == Head(queue) IN
  /\ currentTaskTCB' = t
  /\ taskList' = Tail(queue)
  /\ state' = [st EXCEPT ![t] = "Running"]
  /\ timeSliceRemaining' = [timeSliceRemaining EXCEPT ![t] = SliceOnSwitch(t)]

(* Mutant: the running thread is not put back. *)
SelectOther ==
  \/ /\ taskList = << >>
     /\ UNCHANGED <<currentTaskTCB, taskList, state, timeSliceRemaining>>
  \/ taskList # << >> /\ SwitchTo(taskList, state)

(* The body of schedule() when switches are not postponed. *)
SelectTask ==
  \/ /\ taskList = << >>
     /\ UNCHANGED <<currentTaskTCB, taskList, state, timeSliceRemaining>>
  \/ /\ taskList # << >>
     /\ state[currentTaskTCB] = "Running"
     /\ SwitchTo(Append(taskList, currentTaskTCB),
                 [state EXCEPT ![currentTaskTCB] = "ReadyToRun"])
  \/ /\ taskList # << >>
     /\ state[currentTaskTCB] # "Running"
     /\ SwitchTo(taskList, state)

(* schedule(); it touches the postponed flag and what SelectTask touches. *)
schedule ==
  \/ /\ postponeTaskSwitchesCounter # 0
     /\ taskSwitchesPostponedFlag' = TRUE
     /\ UNCHANGED <<currentTaskTCB, taskList, state, timeSliceRemaining>>
  \/ /\ postponeTaskSwitchesCounter = 0
     /\ SelectTask
     /\ UNCHANGED taskSwitchesPostponedFlag

(* Mutant: the postponed switch is forgotten. *)
unlockStuffWithoutSwitch ==
  /\ postponeTaskSwitchesCounter' = postponeTaskSwitchesCounter - 1
  /\ taskSwitchesPostponedFlag' = FALSE
  /\ UNCHANGED <<currentTaskTCB, taskList, state, timeSliceRemaining>>

(* unlockStuff() up to its enableIRQs(), which is a step of its own because *)
(* a switch may come before it.                                             *)
unlockStuffBody ==
  /\ postponeTaskSwitchesCounter' = postponeTaskSwitchesCounter - 1
  /\ \/ /\ postponeTaskSwitchesCounter = 1
        /\ taskSwitchesPostponedFlag
        /\ taskSwitchesPostponedFlag' = FALSE
        /\ SelectTask
     \/ /\ ~(postponeTaskSwitchesCounter = 1 /\ taskSwitchesPostponedFlag)
        /\ UNCHANGED <<taskSwitchesPostponedFlag, currentTaskTCB, taskList,
                       state, timeSliceRemaining>>

-----------------------------------------------------------------------------
(* The current thread goes from one place of its code to another. *)
Goto(from, to) ==
  /\ isr[currentTaskTCB] = "none"
  /\ pc[currentTaskTCB] = from
  /\ pc' = [pc EXCEPT ![currentTaskTCB] = to]
  /\ UNCHANGED <<isr, firstSleeper>>

scheduled == <<currentTaskTCB, taskList, state, timeSliceRemaining>>

(* A step of the current thread that calls schedule(). *)
CallSchedule(from, to) ==
  /\ Goto(from, to)
  /\ schedule
  /\ UNCHANGED <<irqDisableCounter, postponeTaskSwitchesCounter, interruptsOn,
                 others>>

(* A step of the current thread that only undoes one lock. *)
CallUnlock(from, to) ==
  /\ Goto(from, to)
  /\ unlockScheduler
  /\ UNCHANGED <<scheduled, others>>

(* A step of the current thread that runs unlockStuff() up to enableIRQs(). *)
CallUnlockStuff(from, to) ==
  /\ Goto(from, to)
  /\ unlockStuffBody
  /\ UNCHANGED <<irqDisableCounter, interruptsOn, others>>

-----------------------------------------------------------------------------
(***************************************************************************)
(* System calls and kernel services of the running thread.                 *)
(***************************************************************************)
UserThread == Thread \ {mainThread, idleThread, cleanerThread}

(* SysYield, the body of the idle loop, and every loop that polls with     *)
(* lockScheduler(); schedule(); unlockScheduler().                         *)
Yield ==
  /\ Goto("run", "schedule")
  /\ lockScheduler
  /\ UNCHANGED <<scheduled, others>>

(* blockTask(reason) up to its call of schedule(). *)
BlockTask(reason, from) ==
  /\ Goto(from, "schedule")
  /\ lockScheduler
  /\ state' = [state EXCEPT ![currentTaskTCB] = reason]
  /\ UNCHANGED <<currentTaskTCB, taskList, timeSliceRemaining, others>>

(* The last loop of KeFirstTask. *)
MainPause == currentTaskTCB = mainThread /\ BlockTask("Paused", "run")

(* SysPause. *)
SysPause == currentTaskTCB \in UserThread /\ BlockTask("PausedForSignal", "run")

Schedule == CallSchedule("schedule", "unlock")
Unlock == CallUnlock("unlock", "run")

(***************************************************************************)
(* milliTenthSleepUntil(milliTenthsSinceBoot + d).  The moment is computed *)
(* with interrupts on, so it may be past when the test reads the clock     *)
(* again, and when the thread is put to sleep.                             *)
(***************************************************************************)
SleepCall ==
  /\ currentTaskTCB \in UserThread \cup {mainThread}
  /\ Goto("run", "sleepCheck")
  /\ \E d \in SleepTimes : sleepLeft' = [sleepLeft EXCEPT ![currentTaskTCB] = d]
  /\ UNCHANGED <<scheduled, waitingPID, processVars, lockVars,
                 sleepingTaskList, terminatedTaskList,
                 weNeedTheCleanerToNotBlock>>

SleepTooLate ==
  /\ sleepLeft[currentTaskTCB] < 0
  /\ Goto("sleepCheck", "run")
  /\ UNCHANGED <<scheduled, lockVars, others>>

SleepChecked ==
  /\ sleepLeft[currentTaskTCB] >= 0
  /\ Goto("sleepCheck", "sleepLock")
  /\ UNCHANGED <<scheduled, lockVars, others>>

SleepEnqueue ==
  /\ Goto("sleepLock", "sleepBlock")
  /\ lockStuff
  /\ sleepingTaskList' = Append(sleepingTaskList, currentTaskTCB)
  /\ UNCHANGED <<scheduled, sleepLeft, waitingPID, processVars,
                 terminatedTaskList, weNeedTheCleanerToNotBlock>>

(* blockTask(Sleeping), whose schedule() only leaves a note. *)
SleepBlock ==
  /\ Goto("sleepBlock", "sleepSchedule")
  /\ lockScheduler
  /\ state' = [state EXCEPT ![currentTaskTCB] = "Sleeping"]
  /\ UNCHANGED <<currentTaskTCB, taskList, timeSliceRemaining, others>>

SleepSchedule == CallSchedule("sleepSchedule", "sleepUnlock")
SleepUnlock == CallUnlock("sleepUnlock", "sleepUnlockStuff")
SleepUnlockStuff == CallUnlockStuff("sleepUnlockStuff", "unlock")

(* waitTask(pid): what is waited for is stored before the lock is taken, and *)
(* looked at only when a child has ended.                                  *)
WaitTask ==
  /\ currentTaskTCB \in UserThread \cup {mainThread}
  /\ Goto("run", "waitBlock")
  /\ \E pid \in (processes \ {processOf[currentTaskTCB]}) \cup SpecialPIDs :
        waitingPID' = [waitingPID EXCEPT ![currentTaskTCB] = pid]
  /\ UNCHANGED <<scheduled, sleepLeft, processVars, lockVars,
                 sleepingTaskList, terminatedTaskList,
                 weNeedTheCleanerToNotBlock>>

WaitBlock == BlockTask("WaitPID", "waitBlock")

(***************************************************************************)
(* KeTerminateCurrentThread.  Nothing calls schedule() before its loop, so *)
(* the thread gets there with interrupts on, terminated but current.  The  *)
(* loop's schedule() does not come back: the place "dead" has no step.     *)
(***************************************************************************)
Terminate ==
  /\ currentTaskTCB \in UserThread
  /\ Goto("run", "exitUnlock")
  /\ lockStuffAndScheduler
  /\ terminatedTaskList' = Append(terminatedTaskList, currentTaskTCB)
  /\ state' = [state EXCEPT ![currentTaskTCB] = "Terminated"]
  /\ weNeedTheCleanerToNotBlock' = TRUE
  /\ taskList' = unblockTask(cleanerThread)
  /\ UNCHANGED <<currentTaskTCB, timeSliceRemaining, sleepLeft, waitingPID,
                 processVars, sleepingTaskList>>

ExitUnlock == CallUnlock("exitUnlock", "exitUnlockStuff")
ExitUnlockStuff == CallUnlockStuff("exitUnlockStuff", "exitEnable")
ExitEnable == CallUnlock("exitEnable", "exitLoop")

ExitLoop ==
  /\ Goto("exitLoop", "exitSchedule")
  /\ lockScheduler
  /\ UNCHANGED <<scheduled, others>>

ExitSchedule == CallSchedule("exitSchedule", "dead")

(***************************************************************************)
(* Process::createThread on a slot whose bit is clear; addElement is taken *)
(* as one step here.  The new thread starts inside unlockScheduler().      *)
(***************************************************************************)
CreateThread(t) ==
  /\ t \notin threadUsage
  /\ threadUsage' = threadUsage \cup {t}
  /\ state' = [state EXCEPT ![t] = "ReadyToRun"]
  /\ timeSliceRemaining' = [timeSliceRemaining EXCEPT ![t] = 0]
  /\ taskList' = Append(taskList, t)
  /\ pc' = [pc EXCEPT ![t] = "unlock"]
  /\ isr' = [isr EXCEPT ![t] = "none"]
  /\ UNCHANGED firstSleeper

(* SysPthreadCreate. *)
PthreadCreate ==
  /\ currentTaskTCB \in UserThread
  /\ pc[currentTaskTCB] = "run" /\ isr[currentTaskTCB] = "none"
  /\ \E t \in UserThread : /\ processOf[t] = processOf[currentTaskTCB]
                           /\ CreateThread(t)
  /\ UNCHANGED <<currentTaskTCB, sleepLeft, waitingPID, processes, terminal,
                 liveTerminals, cleaning, lockVars,
                 sleepingTaskList, terminatedTaskList,
                 weNeedTheCleanerToNotBlock>>

(* SysSpawn: a new process, with the caller as its parent or with none, and *)
(* a terminal of its own only if it has no parent; then its first thread.   *)
Spawn ==
  /\ currentTaskTCB \in UserThread \cup {mainThread}
  /\ pc[currentTaskTCB] = "run" /\ isr[currentTaskTCB] = "none"
  /\ \E t \in UserThread :
       LET p == processOf[t] IN
       /\ p \notin processes
       /\ parent[p] \in {processOf[currentTaskTCB], Null}
       /\ CreateThread(t)
       /\ processes' = processes \cup {p}
       /\ terminal' = [terminal EXCEPT ![p] =
                         IF parent[p] = Null THEN p ELSE terminal[parent[p]]]
       /\ liveTerminals' = IF parent[p] = Null THEN liveTerminals \cup {p}
                                                    ELSE liveTerminals
  /\ UNCHANGED <<currentTaskTCB, sleepLeft, waitingPID, cleaning,
                 lockVars, sleepingTaskList, terminatedTaskList,
                 weNeedTheCleanerToNotBlock>>

-----------------------------------------------------------------------------
(***************************************************************************)
(* cleanerTaskFunction.                                                    *)
(***************************************************************************)
(* Mutant: the cleaner blocks without a look at the flag. *)
CleanerJustBlocks ==
  /\ Goto("cleanerTest", "cleanerSchedule")
  /\ lockScheduler
  /\ state' = [state EXCEPT ![cleanerThread] = "Paused"]
  /\ UNCHANGED <<currentTaskTCB, taskList, timeSliceRemaining, others>>

CleanerBlock ==
  /\ ~weNeedTheCleanerToNotBlock
  /\ Goto("cleanerTest", "cleanerSchedule")
  /\ lockScheduler
  /\ state' = [state EXCEPT ![cleanerThread] = "Paused"]
  /\ UNCHANGED <<currentTaskTCB, taskList, timeSliceRemaining, others>>

CleanerDoesNotBlock ==
  /\ weNeedTheCleanerToNotBlock
  /\ Goto("cleanerTest", "cleanerUnlock")
  /\ lockScheduler
  /\ UNCHANGED <<scheduled, others>>

CleanerSchedule == CallSchedule("cleanerSchedule", "cleanerUnlock")
CleanerUnlock == CallUnlock("cleanerUnlock", "cleanerClear")

(* The flag is cleared with interrupts on. *)
CleanerClear ==
  /\ Goto("cleanerClear", "cleanerLock")
  /\ weNeedTheCleanerToNotBlock' = FALSE
  /\ UNCHANGED <<scheduled, sleepLeft, waitingPID, processVars, lockVars,
                 sleepingTaskList, terminatedTaskList>>

CleanerLock ==
  /\ Goto("cleanerLock", "clean")
  /\ lockStuffAndScheduler
  /\ UNCHANGED <<scheduled, others>>

(* cleanupTerminatedTask of the first terminated thread; there is more to  *)
(* do if it was the last one of its process.                               *)
CleanTask ==
  LET t == Head(terminatedTaskList)
      p == processOf[t]
      last == \A u \in threadUsage \ {t} : processOf[u] # p
  IN
  /\ terminatedTaskList # << >>
  /\ Goto("clean", IF last THEN "cleanWake" ELSE "clean")
  /\ terminatedTaskList' = Tail(terminatedTaskList)
  /\ threadUsage' = threadUsage \ {t}
  /\ cleaning' = IF last THEN p ELSE cleaning
  /\ UNCHANGED <<scheduled, sleepLeft, waitingPID, processes, terminal,
                 liveTerminals, lockVars, sleepingTaskList,
                 weNeedTheCleanerToNotBlock>>

(* Mutants: whoever waits is woken; waiting for one process is forgotten. *)
AllWaiters(p) ==
  {w \in threadUsage : /\ state[w] = "WaitPID"
                       /\ waitingPID[w] \in {AnyChild, p}
                       /\ w \notin Range(taskList)}
WaitersForAnyChild(p) ==
  {w \in threadUsage : /\ processOf[w] = parent[p]
                       /\ state[w] = "WaitPID"
                       /\ waitingPID[w] = AnyChild
                       /\ w \notin Range(taskList)}

(* The threads of the parent that wait for process p or for any child, and *)
(* that nothing has unblocked so far.                                      *)
WaitersFor(p) ==
  {w \in threadUsage : /\ processOf[w] = parent[p]
                       /\ state[w] = "WaitPID"
                       /\ waitingPID[w] \in {AnyChild, p}
                       /\ w \notin Range(taskList)}

(* One turn of the loop over the parent's threads; they may come in any    *)
(* order here, in the order of their slots in the code.                    *)
CleanWakeOne ==
  /\ Goto("cleanWake", "cleanWake")
  /\ \E w \in WaitersFor(cleaning) :
       /\ waitingPID' = [waitingPID EXCEPT ![w] = cleaning]
       /\ taskList' = unblockTask(w)
  /\ UNCHANGED <<currentTaskTCB, state, timeSliceRemaining, sleepLeft,
                 processVars, lockVars, sleepingTaskList, terminatedTaskList,
                 weNeedTheCleanerToNotBlock>>

(* The threads of the parent whose waitpid had an argument that is not     *)
(* supported.                                                              *)
RefusedWaiters(p) ==
  {w \in threadUsage : /\ processOf[w] = parent[p]
                       /\ state[w] = "WaitPID"
                       /\ waitingPID[w] = Unsupported}

(* The loop meets one of them and calls KePanic, which does not return. *)
CleanPanic ==
  /\ Goto("cleanWake", "panic")
  /\ RefusedWaiters(cleaning) # {}
  /\ UNCHANGED <<scheduled, lockVars, others>>

KePanic ==
  /\ Goto("panic", "panic")
  /\ UNCHANGED <<scheduled, lockVars, others>>

CleanWakeDone ==
  /\ Goto("cleanWake", "cleanTerminal")
  /\ WaitersFor(cleaning) \cup RefusedWaiters(cleaning) = {}
  /\ UNCHANGED <<scheduled, lockVars, others>>

(***************************************************************************)
(* The terminal goes with the process, unless the parent uses it too.  For *)
(* a process without a parent the code compares with what it finds at a    *)
(* null pointer; it is taken to be another terminal.  Each queued thread   *)
(* of a child on this terminal makes the loop call blockTask(Terminated),  *)
(* which marks the *cleaner*.  The loop leaves the queue in its order.     *)
(***************************************************************************)
OwnsTerminal(p) ==
  /\ terminal[p] # Null
  /\ ~(parent[p] # Null /\ terminal[parent[p]] = terminal[p])

ChildOnTerminal(p, t) ==
  parent[processOf[t]] = p /\ terminal[processOf[t]] = terminal[p]

CleanNoTerminal ==
  /\ Goto("cleanTerminal", "clean")
  /\ ~OwnsTerminal(cleaning)
  /\ cleaning' = Null
  /\ UNCHANGED <<scheduled, sleepLeft, waitingPID, threadUsage, processes,
                 terminal, liveTerminals, lockVars, sleepingTaskList,
                 terminatedTaskList, weNeedTheCleanerToNotBlock>>

CleanTerminal ==
  LET children == {t \in Range(taskList) : ChildOnTerminal(cleaning, t)} IN
  /\ Goto("cleanTerminal", "clean")
  /\ OwnsTerminal(cleaning)
  /\ \/ /\ children # {}
        /\ state' = [state EXCEPT ![cleanerThread] = "Terminated"]
        /\ taskSwitchesPostponedFlag' = TRUE
     \/ /\ children = {}
        /\ UNCHANGED <<state, taskSwitchesPostponedFlag>>
  /\ liveTerminals' = liveTerminals \ {terminal[cleaning]}
  /\ terminal' = [terminal EXCEPT ![cleaning] = Null]
  /\ cleaning' = Null
  /\ UNCHANGED <<currentTaskTCB, taskList, timeSliceRemaining, sleepLeft,
                 waitingPID, threadUsage, processes, irqDisableCounter,
                 postponeTaskSwitchesCounter, interruptsOn, sleepingTaskList,
                 terminatedTaskList, weNeedTheCleanerToNotBlock>>

CleanDone ==
  /\ terminatedTaskList = << >>
  /\ CallUnlock("clean", "cleanerUnlockStuff")

CleanerUnlockStuff == CallUnlockStuff("cleanerUnlockStuff", "cleanerEnable")
CleanerEnable == CallUnlock("cleanerEnable", "cleanerTest")

Cleaner ==
  \/ CleanerBlock \/ CleanerDoesNotBlock \/ CleanerSchedule \/ CleanerUnlock
  \/ CleanerClear \/ CleanerLock \/ CleanTask \/ CleanWakeOne \/ CleanWakeDone
  \/ CleanPanic \/ KePanic \/ CleanNoTerminal \/ CleanTerminal \/ CleanDone
  \/ CleanerUnlockStuff \/ CleanerEnable

-----------------------------------------------------------------------------
(***************************************************************************)
(* timerHandler.  Time passes and the handler starts on the sleepers.      *)
(***************************************************************************)
Tick ==
  /\ interruptsOn
  /\ isr[currentTaskTCB] = "none"
  /\ lockScheduler
  /\ sleepLeft' = [t \in Thread |-> IF sleepLeft[t] < 0 THEN -1 ELSE sleepLeft[t] - 1]
  /\ \/ /\ sleepingTaskList = << >>
        /\ isr' = [isr EXCEPT ![currentTaskTCB] = "slice"]
        /\ UNCHANGED firstSleeper
     \/ /\ sleepingTaskList # << >>
        /\ isr' = [isr EXCEPT ![currentTaskTCB] = "wake"]
        /\ firstSleeper' = Head(sleepingTaskList)
  /\ UNCHANGED <<scheduled, pc, waitingPID, processVars, sleepingTaskList,
                 terminatedTaskList, weNeedTheCleanerToNotBlock>>

(* One turn of the loop: the first sleeper is woken or goes to the back of *)
(* the list.  The loop ends when it is back at firstSleeper; that moves on *)
(* with the list, and so ends the loop at once, when it is the one woken.  *)
WakeOrRotate ==
  LET curr == Head(sleepingTaskList)
      rest == Tail(sleepingTaskList)
      wake == sleepLeft[curr] <= 0
      list == IF wake THEN rest ELSE Append(rest, curr)
      done == \/ list = << >>
              \/ wake /\ curr = firstSleeper
              \/ Head(list) = firstSleeper
  IN
  /\ isr[currentTaskTCB] = "wake"
  /\ taskList' = IF wake THEN unblockTask(curr) ELSE taskList
  /\ sleepingTaskList' = list
  /\ isr' = [isr EXCEPT ![currentTaskTCB] = IF done THEN "slice" ELSE "wake"]
  /\ firstSleeper' = IF done THEN Null ELSE firstSleeper
  /\ UNCHANGED <<currentTaskTCB, state, timeSliceRemaining, pc, sleepLeft,
                 waitingPID, processVars, lockVars, terminatedTaskList,
                 weNeedTheCleanerToNotBlock>>

(***************************************************************************)
(* The preemption part.  A thread with an empty slice is never preempted,  *)
(* and none is while keIsPreemptionOn is off: before sysinit turns it on,  *)
(* and where a disk driver or VCache has called KeDisablePreemption().     *)
(***************************************************************************)
Preempt ==
  LET cur == currentTaskTCB
      slice == IF timeSliceRemaining[cur] > MaxSlice THEN 1
                                                     ELSE timeSliceRemaining[cur]
  IN
  /\ isr[cur] = "slice"
  /\ \/ /\ slice = 0 \/ FALSE \in PreemptionValues
        /\ isr' = [isr EXCEPT ![cur] = "unlock"]
        /\ UNCHANGED timeSliceRemaining
     \/ /\ slice # 0 /\ TRUE \in PreemptionValues
        /\ isr' = [isr EXCEPT ![cur] = IF slice <= 1 THEN "schedule" ELSE "unlock"]
        /\ timeSliceRemaining' = [timeSliceRemaining EXCEPT ![cur] = slice - 1]
  /\ UNCHANGED <<currentTaskTCB, taskList, state, pc, lockVars, firstSleeper,
                 others>>

IsrSchedule ==
  /\ isr[currentTaskTCB] = "schedule"
  /\ isr' = [isr EXCEPT ![currentTaskTCB] = "unlock"]
  /\ schedule
  /\ UNCHANGED <<pc, irqDisableCounter, postponeTaskSwitchesCounter,
                 interruptsOn, firstSleeper, others>>

(* unlockScheduler() and the return from the interrupt. *)
IsrUnlock ==
  /\ isr[currentTaskTCB] = "unlock"
  /\ isr' = [isr EXCEPT ![currentTaskTCB] = "none"]
  /\ unlockScheduler
  /\ UNCHANGED <<scheduled, pc, firstSleeper, others>>

-----------------------------------------------------------------------------
(***************************************************************************)
(* The state KeFirstTask reaches once the idle thread and the cleaner have *)
(* run for the first time and it has been scheduled again.                 *)
(***************************************************************************)
BootThreads == {mainThread, idleThread, cleanerThread}

Init ==
  /\ currentTaskTCB = mainThread
  /\ threadUsage = BootThreads
  /\ processes = {processOf[t] : t \in BootThreads}
  /\ state = [t \in Thread |-> CASE t = mainThread -> "Running"
                                 [] t = idleThread -> "ReadyToRun"
                                 [] t = cleanerThread -> "Paused"
                                 [] OTHER -> "Terminated"]
  /\ pc = [t \in Thread |-> CASE t = mainThread -> "run"
                              [] t = idleThread -> "unlock"
                              [] t = cleanerThread -> "cleanerUnlock"
                              [] OTHER -> "dead"]
  /\ isr = [t \in Thread |-> "none"]
  /\ taskList = <<idleThread>>
  /\ sleepingTaskList = << >>
  /\ terminatedTaskList = << >>
  /\ firstSleeper = Null
  /\ sleepLeft = [t \in Thread |-> -1]
  /\ timeSliceRemaining = [t \in Thread |-> IF t = mainThread THEN Quantum ELSE 0]
  /\ waitingPID = [t \in Thread |-> Null]
  /\ terminal = [p \in Process |->
                   IF \E t \in BootThreads : processOf[t] = p
                     THEN kernelProcess ELSE Null]
  /\ liveTerminals = {kernelProcess}
  /\ cleaning = Null
  /\ weNeedTheCleanerToNotBlock = FALSE
  /\ irqDisableCounter = 0
  /\ postponeTaskSwitchesCounter = 0
  /\ taskSwitchesPostponedFlag = FALSE
  /\ interruptsOn = TRUE

(* What the running thread may ask for when it runs its own code. *)
Request ==
  \/ Yield \/ MainPause \/ SysPause \/ SleepCall \/ WaitTask
  \/ Terminate \/ PthreadCreate \/ Spawn

(* What it goes on with once it has asked. *)
Service ==
  \/ Schedule \/ Unlock
  \/ SleepTooLate \/ SleepChecked \/ SleepEnqueue \/ SleepBlock
  \/ SleepSchedule \/ SleepUnlock \/ SleepUnlockStuff
  \/ WaitBlock \/ ExitUnlock \/ ExitUnlockStuff
  \/ ExitEnable \/ ExitLoop \/ ExitSchedule

Interrupt == WakeOrRotate \/ Preempt \/ IsrSchedule \/ IsrUnlock

Next == Request \/ Service \/ Cleaner \/ Tick \/ Interrupt

(***************************************************************************)
(* The timer goes on ticking, and its interrupt stays pending while        *)
(* interrupts are off.  The handler takes less time than there is between  *)
(* two ticks, so a thread that is given the processor again and again also *)
(* executes its next step in the kernel.  The idle thread never stops      *)
(* yielding.  Nothing else is fair: a thread may compute for ever and ask  *)
(* for nothing.                                                            *)
(***************************************************************************)
IdleYield == currentTaskTCB = idleThread /\ Yield

KernelStep(t) == currentTaskTCB = t /\ (Service \/ Cleaner \/ IdleYield)

Fairness ==
  /\ SF_vars(Tick)
  /\ WF_vars(Interrupt)
  /\ \A t \in Thread : SF_vars(KernelStep(t))

Spec == Init /\ [][Next]_vars
FairSpec == Spec /\ Fairness

-----------------------------------------------------------------------------
(***************************************************************************)
(* Properties.                                                             *)
(***************************************************************************)

Place == {"run", "schedule", "unlock", "sleepCheck", "sleepLock",
          "sleepBlock", "sleepSchedule", "sleepUnlock", "sleepUnlockStuff",
          "waitBlock", "exitUnlock", "exitUnlockStuff", "exitEnable",
          "exitLoop", "exitSchedule", "dead", "cleanerTest",
          "cleanerSchedule", "cleanerUnlock", "cleanerClear", "cleanerLock",
          "clean", "cleanWake", "cleanTerminal", "cleanerUnlockStuff",
          "cleanerEnable", "panic"}

TypeOK ==
  /\ currentTaskTCB \in Thread
  /\ state \in [Thread -> TaskState]
  /\ pc \in [Thread -> Place]
  /\ isr \in [Thread -> {"none", "wake", "slice", "schedule", "unlock"}]
  /\ threadUsage \subseteq Thread
  /\ processes \subseteq Process
  /\ taskList \in Seq(Thread)
  /\ sleepingTaskList \in Seq(Thread)
  /\ terminatedTaskList \in Seq(Thread)
  /\ firstSleeper \in Thread \cup {Null}
  /\ sleepLeft \in [Thread -> Nat \cup {-1}]
  /\ timeSliceRemaining \in [Thread -> 0 .. MaxSlice + 1]
  /\ waitingPID \in [Thread -> Process \cup {Null, AnyChild, Unsupported}]
  /\ terminal \in [Process -> Process \cup {Null}]
  /\ liveTerminals \subseteq Process
  /\ cleaning \in Process \cup {Null}
  /\ weNeedTheCleanerToNotBlock \in BOOLEAN
  /\ irqDisableCounter \in Nat
  /\ postponeTaskSwitchesCounter \in Nat
  /\ taskSwitchesPostponedFlag \in BOOLEAN
  /\ interruptsOn \in BOOLEAN

(* How many locks are taken at a place of the code, and whether one of     *)
(* them postpones task switches.                                           *)
PlaceDepth(p) ==
  IF p \in {"run", "sleepCheck", "sleepLock", "waitBlock", "exitLoop",
            "cleanerTest", "cleanerClear", "cleanerLock"} THEN 0
  ELSE IF p \in {"sleepSchedule", "sleepUnlock", "exitUnlock", "clean",
                 "cleanWake", "cleanTerminal", "panic"} THEN 2
  ELSE 1

PlacePostpones(p) ==
  p \in {"sleepBlock", "sleepSchedule", "sleepUnlock", "sleepUnlockStuff",
         "exitUnlock", "exitUnlockStuff", "clean", "cleanWake",
         "cleanTerminal", "cleanerUnlockStuff", "panic"}

LockDepth(t) == PlaceDepth(pc[t]) + IF isr[t] = "none" THEN 0 ELSE 1

(* The lock counters are global, but each thread counts on them to be what *)
(* it left behind: they match the place of the running thread, and every   *)
(* other thread was switched away from with exactly one lock taken and no  *)
(* postponement.  Otherwise some thread would go on with interrupts off    *)
(* for ever, or on too early (prcssthr.hpp:159-213).                       *)
LocksMatch ==
  /\ irqDisableCounter = LockDepth(currentTaskTCB)
  /\ interruptsOn <=> irqDisableCounter = 0
  /\ postponeTaskSwitchesCounter = IF PlacePostpones(pc[currentTaskTCB]) THEN 1 ELSE 0
  /\ taskSwitchesPostponedFlag => postponeTaskSwitchesCounter = 1
  /\ \A t \in Thread : isr[t] # "none" => PlaceDepth(pc[t]) = 0
  /\ \A t \in Thread \ {currentTaskTCB} :
        LockDepth(t) = 1 /\ ~PlacePostpones(pc[t])

(* The lists are chained through the one next pointer of a thread, so "VERY *)
(* BAD STUFF HAPPENS" (linkedlist.hpp:38) when a thread is in two of them   *)
(* or twice in one.  The running thread is not in the run queue.            *)
InOneList ==
  /\ IsInjective(taskList)
  /\ IsInjective(sleepingTaskList)
  /\ IsInjective(terminatedTaskList)
  /\ Range(taskList) \cap Range(sleepingTaskList) = {}
  /\ Range(taskList) \cap Range(terminatedTaskList) = {}
  /\ Range(sleepingTaskList) \cap Range(terminatedTaskList) = {}
  /\ currentTaskTCB \notin Range(taskList)

(* No thread is lost: one that is not running is in the list that goes     *)
(* with its state, or waits for something only an event brings about.      *)
Awaits(t) ==
  \/ state[t] = "Sleeping" /\ t \in Range(sleepingTaskList)
  \/ state[t] = "Terminated" /\ t \in Range(terminatedTaskList)
  \/ state[t] \in {"WaitPID", "PausedForSignal"}
  \/ t = mainThread /\ state[t] = "Paused"
  \/ t = cleanerThread /\ state[t] \in {"Paused", "Terminated"}

NoThreadLost ==
  \A t \in threadUsage \ {currentTaskTCB} : t \in Range(taskList) \/ Awaits(t)

(* A thread executes with interrupts on only while it is Running; blocked  *)
(* threads do not go on.  The one exception is a thread on its way out of  *)
(* KeTerminateCurrentThread, before its last call of schedule().           *)
RunningWhenOn ==
  /\ currentTaskTCB \in threadUsage
  /\ interruptsOn => \/ state[currentTaskTCB] = "Running"
                     \/ pc[currentTaskTCB] = "exitLoop"

(* What keeps the three lists apart: which threads are in use, which are in *)
(* a list and at which places of the code, and that a thread that is no     *)
(* longer Running is on its way to a call of schedule() that will find a    *)
(* thread to switch to (prcssthr.cpp:264-292, 422-514).                     *)
SleepPlace == {"sleepBlock", "sleepSchedule", "sleepUnlock", "sleepUnlockStuff"}
ExitPlace == {"exitUnlock", "exitUnlockStuff", "exitEnable", "exitLoop",
              "exitSchedule", "dead"}
CleanPlace == {"clean", "cleanWake", "cleanTerminal", "cleanerUnlockStuff", "panic"}
CleanerPlace == CleanPlace \cup {"cleanerTest", "cleanerSchedule", "cleanerUnlock",
                                 "cleanerClear", "cleanerLock", "cleanerEnable"}

InUse ==
  /\ {currentTaskTCB} \cup BootThreads \subseteq threadUsage
  /\ Range(taskList) \subseteq threadUsage
  /\ Range(sleepingTaskList) \subseteq threadUsage
  /\ Range(terminatedTaskList) \subseteq threadUsage

SleepersSleep ==
  \A t \in Range(sleepingTaskList) :
    /\ t \notin {idleThread, cleanerThread}
    /\ state[t] = "Sleeping" \/ (t = currentTaskTCB /\ pc[t] = "sleepBlock")
    /\ t = currentTaskTCB => pc[t] \in SleepPlace

TerminatedStay ==
  \A t \in Range(terminatedTaskList) :
    t \in UserThread /\ state[t] = "Terminated" /\ pc[t] \in ExitPlace

IdleReady ==
  /\ pc[idleThread] \in {"run", "schedule", "unlock"}
  /\ \/ currentTaskTCB = idleThread /\ state[idleThread] = "Running"
     \/ currentTaskTCB # idleThread /\ idleThread \in Range(taskList)

OnItsWay ==
  /\ pc[currentTaskTCB] = "sleepBlock" => currentTaskTCB \in Range(sleepingTaskList)
  /\ pc[currentTaskTCB] \in {"sleepUnlock", "sleepUnlockStuff"} => taskSwitchesPostponedFlag
  /\ state[currentTaskTCB] = "Running" \/ Awaits(currentTaskTCB)
  /\ \/ state[currentTaskTCB] = "Running"
     \/ pc[currentTaskTCB] \in {"schedule", "cleanerSchedule"} \cup SleepPlace \cup ExitPlace
     \/ /\ pc[currentTaskTCB] \in CleanPlace /\ taskSwitchesPostponedFlag
        /\ state[currentTaskTCB] = "Terminated"

ListInv ==
  /\ InOneList
  /\ InUse
  /\ SleepersSleep
  /\ TerminatedStay
  /\ IdleReady
  /\ OnItsWay
  /\ NoThreadLost
  /\ \A t \in Thread : pc[t] \in CleanerPlace <=> t = cleanerThread

(* The wake-up of the cleaner is never lost (the "uglier race condition" of *)
(* prcssthr.cpp:397-400): while a terminated thread waits to be cleaned up, *)
(* the cleaner is runnable and will not block before it looks at the list.  *)
CleanerKnows ==
  terminatedTaskList # << >> =>
    /\ cleanerThread = currentTaskTCB \/ cleanerThread \in Range(taskList)
    /\ pc[cleanerThread] # "cleanerSchedule"
         \/ cleanerThread \in Range(taskList)
    /\ pc[cleanerThread] \in {"cleanerUnlockStuff", "cleanerEnable", "cleanerTest"}
         => weNeedTheCleanerToNotBlock

(* A running thread other than the idle one always has some of its slice   *)
(* left.  timerHandler preempts nobody with an empty slice (timer.cpp:98), *)
(* so a thread without one would keep the processor for ever.              *)
SliceLeft ==
  interruptsOn /\ currentTaskTCB # idleThread
    => timeSliceRemaining[currentTaskTCB] # 0

Finished(p) == p \in processes /\ \A t \in threadUsage : processOf[t] # p

(* What waitpid reports is a child of the caller that has really finished.  *)
WaitReportsFinishedChild ==
  \A t \in Range(taskList) :
    state[t] = "WaitPID" =>
      /\ waitingPID[t] \in Process
      /\ parent[waitingPID[t]] = processOf[t]
      /\ Finished(waitingPID[t])

(* A runnable thread gets the processor sooner or later. *)
NoStarvation ==
  \A t \in Thread : t \in Range(taskList) ~> currentTaskTCB = t

(* A thread that sleeps runs again. *)
SleepersWake ==
  \A t \in Thread : t \in Range(sleepingTaskList) ~> currentTaskTCB = t /\ state[t] = "Running"

(* A thread that terminates is cleaned up. *)
TerminatedAreCleaned ==
  \A t \in Thread : t \in Range(terminatedTaskList) ~> t \notin threadUsage

(* A thread blocked in waitpid for a child that is still there runs again  *)
(* unless the child lives for ever.                                        *)
WaitersWake ==
  \A t \in Thread : \A p \in Process :
    (/\ state[t] = "WaitPID" /\ waitingPID[t] = p
     /\ parent[p] = processOf[t] /\ p \in processes /\ ~Finished(p))
      ~> (currentTaskTCB = t \/ []~Finished(p))

=============================================================================
