--------------------------- MODULE SchedulerProofs ---------------------------
(***************************************************************************)
(* Proofs about Scheduler.                                                 *)
(***************************************************************************)
EXTENDS Scheduler, TLAPS

(* The timer's loop runs over a list that is not empty, for the thread     *)
(* that is the current one.                                                *)
WakeInv ==
  \A t \in Thread :
    isr[t] = "wake" => t = currentTaskTCB /\ sleepingTaskList # << >>

TypeInv == TypeOK /\ LocksMatch /\ WakeInv

(* What a step of the current thread finds when it begins. *)
LEMMA DepthFacts ==
  ASSUME TypeInv
  PROVE  /\ irqDisableCounter \in 0 .. 2
         /\ isr[currentTaskTCB] = "none" =>
              irqDisableCounter = PlaceDepth(pc[currentTaskTCB])
         /\ isr[currentTaskTCB] # "none" => irqDisableCounter = 1
         /\ postponeTaskSwitchesCounter \in 0 .. 1
BY DEF TypeInv, TypeOK, LocksMatch, LockDepth, PlaceDepth

LEMMA InitTypeInv == Init => TypeInv
<1> SUFFICES ASSUME Init PROVE TypeInv
  OBVIOUS
<1> USE ThreadsAssumption, TimesAssumption
<1>1. TypeOK
  <2>1. /\ state \in [Thread -> TaskState]
        /\ pc \in [Thread -> Place]
    BY DEF Init, TaskState, Place
  <2>2. /\ threadUsage \subseteq Thread
        /\ processes \subseteq Process
        /\ terminal \in [Process -> Process \cup {Null}]
        /\ liveTerminals \subseteq Process
    BY DEF Init, BootThreads, kernelProcess
  <2>3. timeSliceRemaining \in [Thread -> 0 .. MaxSlice + 1]
    BY DEF Init
  <2>4. /\ currentTaskTCB \in Thread
        /\ taskList \in Seq(Thread)
        /\ sleepingTaskList \in Seq(Thread)
        /\ terminatedTaskList \in Seq(Thread)
    BY DEF Init
  <2>5. /\ isr \in [Thread -> {"none", "wake", "slice", "schedule", "unlock"}]
        /\ sleepLeft \in [Thread -> Nat \cup {-1}]
        /\ waitingPID \in [Thread -> Process \cup {Null, AnyChild, Unsupported}]
    BY DEF Init
  <2>6. /\ firstSleeper \in Thread \cup {Null}
        /\ cleaning \in Process \cup {Null}
        /\ weNeedTheCleanerToNotBlock \in BOOLEAN
        /\ irqDisableCounter \in Nat
        /\ postponeTaskSwitchesCounter \in Nat
        /\ taskSwitchesPostponedFlag \in BOOLEAN
        /\ interruptsOn \in BOOLEAN
    BY DEF Init
  <2> QED BY <2>1, <2>2, <2>3, <2>4, <2>5, <2>6 DEF TypeOK
<1>2. LocksMatch
  BY DEF Init, LocksMatch, LockDepth, PlaceDepth, PlacePostpones
<1>3. WakeInv
  BY DEF Init, WakeInv
<1> QED BY <1>1, <1>2, <1>3 DEF TypeInv

LEMMA SelectTaskType ==
  ASSUME TypeOK, SelectTask
  PROVE  /\ currentTaskTCB' \in Thread
         /\ taskList' \in Seq(Thread)
         /\ state' \in [Thread -> TaskState]
         /\ timeSliceRemaining' \in [Thread -> 0 .. MaxSlice + 1]
<1> USE TimesAssumption DEF TypeOK
<1>1. CASE taskList = << >> /\ UNCHANGED <<currentTaskTCB, taskList, state, timeSliceRemaining>>
  BY <1>1
<1>2. ASSUME NEW q \in Seq(Thread), q # << >>,
             NEW st \in [Thread -> TaskState], SwitchTo(q, st)
      PROVE  /\ currentTaskTCB' \in Thread
             /\ taskList' \in Seq(Thread)
             /\ state' \in [Thread -> TaskState]
             /\ timeSliceRemaining' \in [Thread -> 0 .. MaxSlice + 1]
  <2>1. Head(q) \in Thread /\ Tail(q) \in Seq(Thread)
    BY <1>2
  <2>2. SliceOnSwitch(Head(q)) \in 0 .. MaxSlice + 1
    BY <2>1 DEF SliceOnSwitch
  <2>3. currentTaskTCB' \in Thread /\ taskList' \in Seq(Thread)
    BY <1>2, <2>1 DEF SwitchTo
  <2>4. state' \in [Thread -> TaskState]
    BY <1>2, <2>1 DEF SwitchTo, TaskState
  <2>5. timeSliceRemaining' \in [Thread -> 0 .. MaxSlice + 1]
    BY <1>2, <2>1, <2>2 DEF SwitchTo
  <2> QED BY <2>3, <2>4, <2>5
<1>3. CASE /\ taskList # << >>
           /\ state[currentTaskTCB] = "Running"
           /\ SwitchTo(Append(taskList, currentTaskTCB),
                       [state EXCEPT ![currentTaskTCB] = "ReadyToRun"])
  <2> DEFINE q == Append(taskList, currentTaskTCB)
             st == [state EXCEPT ![currentTaskTCB] = "ReadyToRun"]
  <2>1. q \in Seq(Thread) /\ q # << >>
    <3>1. q \in Seq(Thread) /\ Len(q) = Len(taskList) + 1
      OBVIOUS
    <3>2. Len(taskList) \in Nat
      OBVIOUS
    <3>3. Len(q) # 0
      BY <3>1, <3>2
    <3>4. ASSUME q = << >> PROVE Len(q) = 0
      <4> HIDE DEF q
      <4> QED BY <3>4
    <3> QED BY <3>1, <3>3, <3>4
  <2>2. st \in [Thread -> TaskState]
    BY DEF TaskState
  <2>3. SwitchTo(q, st)
    BY <1>3
  <2> QED BY <1>2, <2>1, <2>2, <2>3
<1>4. CASE /\ taskList # << >>
           /\ state[currentTaskTCB] # "Running"
           /\ SwitchTo(taskList, state)
  BY <1>2, <1>4
<1> QED BY <1>1, <1>3, <1>4 DEF SelectTask


LEMMA ScheduleType ==
  ASSUME TypeOK, schedule
  PROVE  /\ currentTaskTCB' \in Thread
         /\ taskList' \in Seq(Thread)
         /\ state' \in [Thread -> TaskState]
         /\ timeSliceRemaining' \in [Thread -> 0 .. MaxSlice + 1]
         /\ taskSwitchesPostponedFlag' \in BOOLEAN
BY SelectTaskType DEF schedule, TypeOK

LEMMA UnblockType ==
  ASSUME TypeOK, NEW t \in Thread
  PROVE  unblockTask(t) \in Seq(Thread)
BY DEF TypeOK, unblockTask

(* The current thread goes to a place without being switched away from. *)
LEMMA LocksStay ==
  ASSUME TypeInv, NEW to \in Place,
         currentTaskTCB' = currentTaskTCB,
         isr[currentTaskTCB] = "none", isr' = isr,
         pc' = [pc EXCEPT ![currentTaskTCB] = to],
         irqDisableCounter' = PlaceDepth(to),
         interruptsOn' <=> irqDisableCounter' = 0,
         postponeTaskSwitchesCounter' = IF PlacePostpones(to) THEN 1 ELSE 0,
         taskSwitchesPostponedFlag' => postponeTaskSwitchesCounter' = 1
  PROVE  LocksMatch'
<1> DEFINE cur == currentTaskTCB
<1>1. cur \in Thread /\ pc \in [Thread -> Place]
  BY DEF TypeInv, TypeOK
<1>2. pc'[cur] = to /\ \A t \in Thread \ {cur} : pc'[t] = pc[t]
  BY <1>1
<1>3. LockDepth(cur)' = irqDisableCounter'
  BY <1>1, <1>2 DEF LockDepth, PlaceDepth
<1>4. \A t \in Thread \ {cur} : LockDepth(t)' = 1 /\ ~PlacePostpones(pc'[t])
  BY <1>1, <1>2 DEF LockDepth, TypeInv, LocksMatch
<1>5. \A t \in Thread : isr'[t] # "none" => PlaceDepth(pc'[t]) = 0
  BY <1>2 DEF TypeInv, LocksMatch
<1> QED BY <1>1, <1>2, <1>3, <1>4, <1>5 DEF LocksMatch

(* It goes to a place where one lock is taken, and may be switched away from. *)
LEMMA LocksSwitch ==
  ASSUME TypeInv, NEW to \in Place,
         currentTaskTCB' \in Thread,
         isr[currentTaskTCB] = "none", isr' = isr,
         pc' = [pc EXCEPT ![currentTaskTCB] = to],
         PlaceDepth(to) = 1, ~PlacePostpones(to),
         irqDisableCounter = 1, UNCHANGED irqDisableCounter,
         UNCHANGED interruptsOn,
         postponeTaskSwitchesCounter' = 0,
         ~taskSwitchesPostponedFlag'
  PROVE  LocksMatch'
<1> DEFINE old == currentTaskTCB
           new == currentTaskTCB'
<1>1. old \in Thread /\ pc \in [Thread -> Place]
      /\ isr \in [Thread -> {"none", "wake", "slice", "schedule", "unlock"}]
  BY DEF TypeInv, TypeOK
<1>2. pc'[old] = to /\ \A t \in Thread \ {old} : pc'[t] = pc[t]
  BY <1>1
<1>3. \A t \in Thread : LockDepth(t)' = 1 /\ ~PlacePostpones(pc'[t])
  <2> TAKE t \in Thread
  <2>1. CASE t = old
    BY <1>1, <1>2, <2>1 DEF LockDepth
  <2>2. CASE t # old
    BY <1>2, <2>2 DEF LockDepth, TypeInv, LocksMatch
  <2> QED BY <2>1, <2>2
<1>4. \A t \in Thread : isr'[t] # "none" => PlaceDepth(pc'[t]) = 0
  BY <1>2 DEF TypeInv, LocksMatch
<1>5. irqDisableCounter' = 1 /\ ~interruptsOn'
  BY DEF TypeInv, LocksMatch
<1> QED BY <1>3, <1>4, <1>5 DEF LocksMatch

LEMMA CallScheduleInv ==
  ASSUME TypeInv, NEW from \in Place, NEW to \in Place,
         CallSchedule(from, to),
         PlaceDepth(to) = PlaceDepth(from),
         PlacePostpones(to) = PlacePostpones(from),
         PlacePostpones(from) \/ PlaceDepth(from) = 1
  PROVE  TypeInv'
<1>1. TypeOK'
  BY ScheduleType DEF TypeInv, TypeOK, CallSchedule, Goto, processVars, others
<1>2. LocksMatch'
  <2>1. CASE postponeTaskSwitchesCounter # 0
    BY <2>1, LocksStay, DepthFacts
    DEF TypeInv, TypeOK, LocksMatch, LockDepth, CallSchedule, Goto, schedule
  <2>2. CASE postponeTaskSwitchesCounter = 0
    <3>1. ~PlacePostpones(from) /\ ~taskSwitchesPostponedFlag
      BY <2>2 DEF TypeInv, LocksMatch, CallSchedule, Goto
    <3>2. irqDisableCounter = 1
      BY <3>1, DepthFacts DEF CallSchedule, Goto
    <3>3. ~taskSwitchesPostponedFlag'
      BY <2>2, <3>1 DEF CallSchedule, schedule
    <3>4. postponeTaskSwitchesCounter' = 0 /\ currentTaskTCB' \in Thread
      BY <1>1, <2>2 DEF CallSchedule, TypeOK
    <3> QED BY <3>1, <3>2, <3>3, <3>4, LocksSwitch DEF CallSchedule, Goto
  <2> QED BY <2>1, <2>2
<1>3. WakeInv'
  BY DEF TypeInv, TypeOK, WakeInv, CallSchedule, Goto
<1> QED BY <1>1, <1>2, <1>3 DEF TypeInv

LEMMA CallUnlockInv ==
  ASSUME TypeInv, NEW from \in Place, NEW to \in Place,
         CallUnlock(from, to),
         PlaceDepth(to) = PlaceDepth(from) - 1,
         PlacePostpones(to) = PlacePostpones(from)
  PROVE  TypeInv'
<1>1. TypeOK'
  BY DepthFacts
  DEF TypeInv, TypeOK, CallUnlock, Goto, processVars, others, scheduled,
      unlockScheduler, enableIRQs, postponement, PlaceDepth
<1>2. LocksMatch'
  <2>1. irqDisableCounter = PlaceDepth(from)
    BY DepthFacts DEF CallUnlock, Goto
  <2>2. irqDisableCounter' = PlaceDepth(to)
    BY <2>1 DEF CallUnlock, unlockScheduler, enableIRQs
  <2>3. interruptsOn' <=> irqDisableCounter' = 0
    <3>1. interruptsOn <=> irqDisableCounter = 0
      BY DEF TypeInv, LocksMatch
    <3>2. irqDisableCounter' = irqDisableCounter - 1 /\ irqDisableCounter \in Nat
      BY DEF TypeInv, TypeOK, CallUnlock, unlockScheduler, enableIRQs
    <3>3. irqDisableCounter # 0
      BY <2>1, <2>2, <3>2 DEF PlaceDepth
    <3>4. interruptsOn' = (interruptsOn \/ irqDisableCounter = 1)
      BY DEF CallUnlock, unlockScheduler, enableIRQs
    <3>5. CASE irqDisableCounter = 1
      <4>1. irqDisableCounter' = 0
        BY <3>2, <3>5
      <4> QED BY <3>4, <3>5, <4>1
    <3>6. CASE irqDisableCounter # 1
      <4>1. irqDisableCounter' # 0
        BY <3>2, <3>6
      <4> QED BY <3>1, <3>3, <3>4, <3>6, <4>1
    <3> QED BY <3>5, <3>6
  <2>4. /\ postponeTaskSwitchesCounter' = IF PlacePostpones(to) THEN 1 ELSE 0
        /\ taskSwitchesPostponedFlag' => postponeTaskSwitchesCounter' = 1
    BY DEF TypeInv, LocksMatch, CallUnlock, Goto, unlockScheduler, postponement
  <2> QED BY <2>2, <2>3, <2>4, LocksStay DEF CallUnlock, Goto, scheduled
<1>3. WakeInv'
  BY DEF TypeInv, TypeOK, WakeInv, CallUnlock, Goto, scheduled
<1> QED BY <1>1, <1>2, <1>3 DEF TypeInv

LEMMA CallUnlockStuffInv ==
  ASSUME TypeInv, NEW from \in Place, NEW to \in Place,
         CallUnlockStuff(from, to),
         PlaceDepth(from) = 1, PlaceDepth(to) = 1,
         PlacePostpones(from), ~PlacePostpones(to)
  PROVE  TypeInv'
<1>0. postponeTaskSwitchesCounter = 1 /\ irqDisableCounter = 1
  BY DepthFacts DEF TypeInv, LocksMatch, CallUnlockStuff, Goto
<1>1. TypeOK'
  <2>1. /\ currentTaskTCB' \in Thread
        /\ taskList' \in Seq(Thread)
        /\ state' \in [Thread -> TaskState]
        /\ timeSliceRemaining' \in [Thread -> 0 .. MaxSlice + 1]
        /\ taskSwitchesPostponedFlag' \in BOOLEAN
    BY SelectTaskType DEF CallUnlockStuff, unlockStuffBody, TypeInv, TypeOK
  <2>2. postponeTaskSwitchesCounter' \in Nat
    BY <1>0 DEF CallUnlockStuff, unlockStuffBody
  <2> QED BY <2>1, <2>2
          DEF TypeInv, TypeOK, CallUnlockStuff, Goto, processVars, others
<1>2. LocksMatch'
  <2>1. postponeTaskSwitchesCounter' = 0
    BY <1>0 DEF CallUnlockStuff, unlockStuffBody
  <2>2. ~taskSwitchesPostponedFlag'
    BY <1>0 DEF CallUnlockStuff, unlockStuffBody
  <2>3. currentTaskTCB' \in Thread
    BY <1>1 DEF TypeOK
  <2> QED BY <1>0, <2>1, <2>2, <2>3, LocksSwitch DEF CallUnlockStuff, Goto
<1>3. WakeInv'
  BY DEF TypeInv, TypeOK, WakeInv, CallUnlockStuff, Goto
<1> QED BY <1>1, <1>2, <1>3 DEF TypeInv


LEMMA LockSchedulerLocks ==
  ASSUME TypeInv, NEW from \in Place, NEW to \in Place,
         Goto(from, to), lockScheduler, currentTaskTCB' = currentTaskTCB,
         PlaceDepth(to) = PlaceDepth(from) + 1,
         PlacePostpones(to) = PlacePostpones(from)
  PROVE  LocksMatch'
<1>1. irqDisableCounter = PlaceDepth(from) /\ irqDisableCounter \in Nat
  BY DepthFacts DEF Goto
<1>2. irqDisableCounter' = PlaceDepth(to) /\ irqDisableCounter' # 0
  BY <1>1 DEF lockScheduler, disableIRQs
<1>3. ~interruptsOn'
  BY DEF lockScheduler, disableIRQs
<1>4. /\ postponeTaskSwitchesCounter' = IF PlacePostpones(to) THEN 1 ELSE 0
      /\ taskSwitchesPostponedFlag' => postponeTaskSwitchesCounter' = 1
  BY DEF TypeInv, LocksMatch, Goto, lockScheduler, postponement
<1> QED BY <1>2, <1>3, <1>4, LocksStay DEF Goto

LEMMA NoLockLocks ==
  ASSUME TypeInv, NEW from \in Place, NEW to \in Place,
         Goto(from, to), UNCHANGED <<lockVars, currentTaskTCB>>,
         PlaceDepth(to) = PlaceDepth(from),
         PlacePostpones(to) = PlacePostpones(from)
  PROVE  LocksMatch'
<1>1. irqDisableCounter' = PlaceDepth(to)
  BY DepthFacts DEF Goto, lockVars
<1>2. interruptsOn' <=> irqDisableCounter' = 0
  BY DEF TypeInv, LocksMatch, lockVars
<1>3. /\ postponeTaskSwitchesCounter' = IF PlacePostpones(to) THEN 1 ELSE 0
      /\ taskSwitchesPostponedFlag' => postponeTaskSwitchesCounter' = 1
  BY DEF TypeInv, LocksMatch, Goto, lockVars
<1> QED BY <1>1, <1>2, <1>3, LocksStay DEF Goto, lockVars

(* lockStuff() and lockScheduler() at once, from a place without locks. *)
LEMMA LockBothLocks ==
  ASSUME TypeInv, NEW from \in Place, NEW to \in Place,
         Goto(from, to), lockStuffAndScheduler,
         currentTaskTCB' = currentTaskTCB,
         PlaceDepth(from) = 0, PlaceDepth(to) = 2,
         ~PlacePostpones(from), PlacePostpones(to)
  PROVE  LocksMatch'
<1>1. irqDisableCounter = 0 /\ postponeTaskSwitchesCounter = 0
  BY DepthFacts DEF Goto, TypeInv, LocksMatch
<1>2. irqDisableCounter' = 2 /\ postponeTaskSwitchesCounter' = 1
  BY <1>1 DEF lockStuffAndScheduler
<1>3. ~interruptsOn'
  BY DEF lockStuffAndScheduler
<1>4. taskSwitchesPostponedFlag' => postponeTaskSwitchesCounter' = 1
  BY <1>2
<1>5. interruptsOn' <=> irqDisableCounter' = 0
  BY <1>2, <1>3
<1> QED BY <1>2, <1>4, <1>5, LocksStay DEF Goto

(* WakeInv holds after a step that is no step of the timer interrupt. *)
LEMMA WakeStays ==
  ASSUME TypeInv, isr' = isr, isr[currentTaskTCB] = "none"
  PROVE  WakeInv'
BY DEF TypeInv, TypeOK, WakeInv

LockType ==
  /\ irqDisableCounter \in Nat
  /\ postponeTaskSwitchesCounter \in Nat
  /\ taskSwitchesPostponedFlag \in BOOLEAN
  /\ interruptsOn \in BOOLEAN

LEMMA LockingType ==
  ASSUME TypeOK, \/ lockScheduler
                 \/ lockStuff
                 \/ lockStuffAndScheduler
                 \/ UNCHANGED lockVars
  PROVE  LockType'
<1>1. irqDisableCounter' \in Nat /\ postponeTaskSwitchesCounter' \in Nat
  <2>1. irqDisableCounter \in Nat /\ postponeTaskSwitchesCounter \in Nat
    BY DEF TypeOK
  <2> QED BY <2>1 DEF lockScheduler, lockStuff, lockStuffAndScheduler,
                      disableIRQs, postponement, lockVars
<1>2. taskSwitchesPostponedFlag' \in BOOLEAN
  BY DEF TypeOK, lockScheduler, lockStuff, lockStuffAndScheduler,
         postponement, lockVars
<1>3. interruptsOn' \in BOOLEAN
  BY DEF TypeOK, lockScheduler, lockStuff, lockStuffAndScheduler,
         disableIRQs, lockVars
<1> QED BY <1>1, <1>2, <1>3 DEF LockType

LEMMA GotoType ==
  ASSUME TypeOK, NEW from \in Place, NEW to \in Place, Goto(from, to)
  PROVE  /\ pc' \in [Thread -> Place]
         /\ isr' \in [Thread -> {"none", "wake", "slice", "schedule", "unlock"}]
         /\ firstSleeper' \in Thread \cup {Null}
BY DEF TypeOK, Goto

LEMMA CreateThreadType ==
  ASSUME TypeOK, NEW t \in Thread, CreateThread(t)
  PROVE  /\ threadUsage' \subseteq Thread
         /\ state' \in [Thread -> TaskState]
         /\ timeSliceRemaining' \in [Thread -> 0 .. MaxSlice + 1]
         /\ taskList' \in Seq(Thread)
         /\ pc' \in [Thread -> Place]
         /\ isr' \in [Thread -> {"none", "wake", "slice", "schedule", "unlock"}]
         /\ firstSleeper' \in Thread \cup {Null}
<1>1. "unlock" \in Place /\ "ReadyToRun" \in TaskState
  BY DEF Place, TaskState
<1>2. 0 \in 0 .. MaxSlice + 1
  BY TimesAssumption
<1> QED BY <1>1, <1>2 DEF TypeOK, CreateThread

LEMMA BlockTaskInv ==
  ASSUME TypeInv, NEW reason \in TaskState, NEW from \in {"run", "waitBlock"},
         BlockTask(reason, from)
  PROVE  TypeInv'
<1>1. TypeOK'
  <2>1. from \in Place /\ "schedule" \in Place
    BY DEF Place
  <2>2. TypeOK /\ LockType'
    BY LockingType DEF TypeInv, BlockTask
  <2>3. state' \in [Thread -> TaskState]
    BY <2>2 DEF TypeOK, BlockTask
  <2> QED BY <2>1, <2>2, <2>3, GotoType
          DEF TypeOK, LockType, BlockTask, processVars, others
<1>2. LocksMatch'
  BY LockSchedulerLocks DEF BlockTask, Goto, Place, PlaceDepth, PlacePostpones
<1>3. WakeInv'
  BY WakeStays DEF BlockTask, Goto
<1> QED BY <1>1, <1>2, <1>3 DEF TypeInv

LEMMA CreateThreadInv ==
  ASSUME TypeInv, NEW t \in Thread \ {currentTaskTCB}, CreateThread(t),
         UNCHANGED <<currentTaskTCB, lockVars, sleepingTaskList>>
  PROVE  LocksMatch' /\ WakeInv'
<1>1. /\ pc'[t] = "unlock" /\ isr'[t] = "none"
      /\ \A u \in Thread \ {t} : pc'[u] = pc[u] /\ isr'[u] = isr[u]
  BY DEF TypeInv, TypeOK, CreateThread
<1>2. LockDepth(t)' = 1 /\ ~PlacePostpones(pc'[t])
  BY <1>1 DEF LockDepth, PlaceDepth, PlacePostpones
<1>3. \A u \in Thread \ {t} : LockDepth(u)' = LockDepth(u)
  BY <1>1 DEF LockDepth
<1>4. currentTaskTCB \in Thread \ {t}
  BY DEF TypeInv, TypeOK
<1>5. LocksMatch'
  BY <1>1, <1>2, <1>3, <1>4 DEF TypeInv, LocksMatch, lockVars
<1>6. WakeInv'
  BY <1>1 DEF TypeInv, WakeInv
<1> QED BY <1>5, <1>6

LEMMA RequestInv == TypeInv /\ currentTaskTCB \in threadUsage /\ Request => TypeInv'
<1> SUFFICES ASSUME TypeInv, currentTaskTCB \in threadUsage, Request
             PROVE  TypeInv'
  OBVIOUS
<1>1. CASE Yield
  <2>1. TypeOK'
    <3>1. "run" \in Place /\ "schedule" \in Place
      BY DEF Place
    <3>2. TypeOK /\ LockType'
      BY <1>1, LockingType DEF TypeInv, Yield
    <3> QED BY <1>1, <3>1, <3>2, GotoType
            DEF TypeOK, LockType, Yield, scheduled, processVars, others
  <2>2. LocksMatch'
    BY <1>1, LockSchedulerLocks
    DEF Yield, Goto, scheduled, Place, PlaceDepth, PlacePostpones
  <2> QED BY <1>1, <2>1, <2>2, WakeStays DEF TypeInv, Yield, Goto
<1>2. CASE MainPause
  BY <1>2, BlockTaskInv DEF MainPause, TaskState
<1>3. CASE SysPause
  BY <1>3, BlockTaskInv DEF SysPause, TaskState
<1>4. CASE SleepCall
  <2>1. TypeOK'
    BY <1>4, TimesAssumption
    DEF TypeInv, TypeOK, SleepCall, Goto, scheduled, processVars, others, lockVars, Place
  <2>2. LocksMatch'
    BY <1>4, NoLockLocks
    DEF SleepCall, Goto, scheduled, Place, PlaceDepth, PlacePostpones
  <2> QED BY <1>4, <2>1, <2>2, WakeStays DEF TypeInv, SleepCall, Goto
<1>5. CASE WaitTask
  <2>1. TypeOK'
    BY <1>5, ThreadsAssumption
    DEF TypeInv, TypeOK, WaitTask, Goto, scheduled, processVars, others, lockVars, Place
  <2>2. LocksMatch'
    BY <1>5, NoLockLocks
    DEF WaitTask, Goto, scheduled, Place, PlaceDepth, PlacePostpones
  <2> QED BY <1>5, <2>1, <2>2, WakeStays DEF TypeInv, WaitTask, Goto
<1>6. CASE Terminate
  <2>1. cleanerThread \in Thread
    BY ThreadsAssumption
  <2>2. TypeOK'
    <3>1. "run" \in Place /\ "exitUnlock" \in Place /\ "Terminated" \in TaskState
      BY DEF Place, TaskState
    <3>2. TypeOK /\ LockType'
      BY <1>6, LockingType DEF TypeInv, Terminate
    <3>3. /\ state' \in [Thread -> TaskState]
          /\ taskList' \in Seq(Thread)
          /\ terminatedTaskList' \in Seq(Thread)
      BY <1>6, <2>1, <3>1, <3>2, UnblockType DEF TypeOK, Terminate
    <3> QED BY <1>6, <3>1, <3>2, <3>3, GotoType
            DEF TypeOK, LockType, Terminate, processVars, others
  <2>3. LocksMatch'
    BY <1>6, LockBothLocks
    DEF Terminate, Goto, Place, PlaceDepth, PlacePostpones
  <2> QED BY <1>6, <2>2, <2>3, WakeStays DEF TypeInv, Terminate, Goto
<1>7. CASE PthreadCreate
  <2>1. PICK t \in UserThread : CreateThread(t)
    BY <1>7 DEF PthreadCreate
  <2>2. t \in Thread \ {currentTaskTCB}
    BY <2>1 DEF CreateThread, UserThread
  <2>3. TypeOK'
    BY <1>7, <2>1, <2>2, CreateThreadType
    DEF TypeInv, TypeOK, PthreadCreate, lockVars
  <2>4. LocksMatch' /\ WakeInv'
    BY <1>7, <2>1, <2>2, CreateThreadInv DEF PthreadCreate
  <2> QED BY <2>3, <2>4 DEF TypeInv
<1>8. CASE Spawn
  <2>1. PICK t \in UserThread :
          /\ parent[processOf[t]] \in {processOf[currentTaskTCB], Null}
          /\ CreateThread(t)
          /\ processes' = processes \cup {processOf[t]}
          /\ terminal' = [terminal EXCEPT ![processOf[t]] =
               IF parent[processOf[t]] = Null THEN processOf[t]
                                              ELSE terminal[parent[processOf[t]]]]
          /\ liveTerminals' = IF parent[processOf[t]] = Null
                                THEN liveTerminals \cup {processOf[t]}
                                ELSE liveTerminals
    BY <1>8 DEF Spawn
  <2>2. t \in Thread \ {currentTaskTCB} /\ processOf[t] \in Process
    BY <2>1, ThreadsAssumption DEF CreateThread, UserThread
  <2>3. /\ terminal' \in [Process -> Process \cup {Null}]
        /\ liveTerminals' \subseteq Process
        /\ processes' \subseteq Process
    BY <2>1, <2>2, ThreadsAssumption DEF TypeInv, TypeOK
  <2>4. TypeOK'
    BY <1>8, <2>1, <2>2, <2>3, CreateThreadType
    DEF TypeInv, TypeOK, Spawn, lockVars
  <2>5. LocksMatch' /\ WakeInv'
    BY <1>8, <2>1, <2>2, CreateThreadInv DEF Spawn
  <2> QED BY <2>4, <2>5 DEF TypeInv
<1> QED BY <1>1, <1>2, <1>3, <1>4, <1>5, <1>6, <1>7, <1>8 DEF Request


(* The places the shared pieces of code go through. *)
LEMMA ServicePlaces ==
  /\ {"run", "schedule", "unlock", "sleepCheck", "sleepLock", "sleepBlock",
      "sleepSchedule", "sleepUnlock", "sleepUnlockStuff", "waitBlock",
      "exitUnlock", "exitUnlockStuff", "exitEnable", "exitLoop",
      "exitSchedule", "dead"} \subseteq Place
  /\ {"cleanerTest", "cleanerSchedule", "cleanerUnlock", "cleanerClear",
      "cleanerLock", "clean", "cleanWake", "cleanTerminal",
      "cleanerUnlockStuff", "cleanerEnable", "panic"} \subseteq Place
BY DEF Place

LEMMA ServiceInv == TypeInv /\ Service => TypeInv'
<1> SUFFICES ASSUME TypeInv, Service PROVE TypeInv'
  OBVIOUS
<1> USE ServicePlaces
<1>1. CASE Schedule \/ SleepSchedule \/ ExitSchedule
  BY <1>1, CallScheduleInv
  DEF Schedule, SleepSchedule, ExitSchedule, PlaceDepth, PlacePostpones
<1>2. CASE Unlock \/ SleepUnlock \/ ExitUnlock \/ ExitEnable
  BY <1>2, CallUnlockInv
  DEF Unlock, SleepUnlock, ExitUnlock, ExitEnable, PlaceDepth, PlacePostpones
<1>3. CASE SleepUnlockStuff \/ ExitUnlockStuff
  BY <1>3, CallUnlockStuffInv
  DEF SleepUnlockStuff, ExitUnlockStuff, PlaceDepth, PlacePostpones
<1>4. CASE SleepTooLate \/ SleepChecked
  <2>1. PICK to \in {"run", "sleepLock"} :
          /\ Goto("sleepCheck", to)
          /\ UNCHANGED <<scheduled, lockVars, others>>
    BY <1>4 DEF SleepTooLate, SleepChecked
  <2>2. TypeOK'
    BY <2>1, GotoType
    DEF TypeInv, TypeOK, scheduled, processVars, others, lockVars
  <2>3. LocksMatch'
    BY <2>1, NoLockLocks DEF scheduled, PlaceDepth, PlacePostpones
  <2> QED BY <2>1, <2>2, <2>3, WakeStays DEF TypeInv, Goto
<1>5. CASE SleepEnqueue
  <2>1. TypeOK /\ LockType'
    BY <1>5, LockingType DEF TypeInv, SleepEnqueue
  <2>2. sleepingTaskList' \in Seq(Thread)
    BY <1>5, <2>1 DEF TypeOK, SleepEnqueue
  <2>3. TypeOK'
    BY <1>5, <2>1, <2>2, GotoType
    DEF TypeOK, LockType, SleepEnqueue, scheduled, processVars, others
  <2>4. LocksMatch'
    <3>1. irqDisableCounter = 0 /\ postponeTaskSwitchesCounter = 0
      BY <1>5, DepthFacts
      DEF SleepEnqueue, Goto, TypeInv, LocksMatch, PlaceDepth, PlacePostpones
    <3>2. irqDisableCounter' = 1 /\ postponeTaskSwitchesCounter' = 1
      BY <1>5, <3>1 DEF SleepEnqueue, lockStuff, disableIRQs
    <3>3. interruptsOn' <=> irqDisableCounter' = 0
      BY <1>5, <3>2 DEF SleepEnqueue, lockStuff, disableIRQs
    <3>4. taskSwitchesPostponedFlag' => postponeTaskSwitchesCounter' = 1
      BY <3>2
    <3> QED BY <1>5, <3>2, <3>3, <3>4, LocksStay
            DEF SleepEnqueue, Goto, scheduled, PlaceDepth, PlacePostpones
  <2> QED BY <1>5, <2>3, <2>4, WakeStays DEF TypeInv, SleepEnqueue, Goto
<1>6. CASE SleepBlock
  <2>1. TypeOK /\ LockType'
    BY <1>6, LockingType DEF TypeInv, SleepBlock
  <2>2. state' \in [Thread -> TaskState]
    BY <1>6, <2>1 DEF TypeOK, SleepBlock, TaskState
  <2>3. TypeOK'
    BY <1>6, <2>1, <2>2, GotoType
    DEF TypeOK, LockType, SleepBlock, processVars, others
  <2>4. LocksMatch'
    BY <1>6, LockSchedulerLocks DEF SleepBlock, PlaceDepth, PlacePostpones
  <2> QED BY <1>6, <2>3, <2>4, WakeStays DEF TypeInv, SleepBlock, Goto
<1>7. CASE WaitBlock
  BY <1>7, BlockTaskInv DEF WaitBlock, TaskState
<1>8. CASE ExitLoop
  <2>1. TypeOK /\ LockType'
    BY <1>8, LockingType DEF TypeInv, ExitLoop
  <2>2. TypeOK'
    BY <1>8, <2>1, GotoType
    DEF TypeOK, LockType, ExitLoop, scheduled, processVars, others
  <2>3. LocksMatch'
    BY <1>8, LockSchedulerLocks
    DEF ExitLoop, scheduled, PlaceDepth, PlacePostpones
  <2> QED BY <1>8, <2>2, <2>3, WakeStays DEF TypeInv, ExitLoop, Goto
<1> QED BY <1>1, <1>2, <1>3, <1>4, <1>5, <1>6, <1>7, <1>8 DEF Service

LEMMA CleanerInv == TypeInv /\ Cleaner => TypeInv'
<1> SUFFICES ASSUME TypeInv, Cleaner PROVE TypeInv'
  OBVIOUS
<1> USE ServicePlaces
<1>0. cleanerThread \in Thread
  BY ThreadsAssumption
<1>1. CASE CleanerSchedule
  BY <1>1, CallScheduleInv DEF CleanerSchedule, PlaceDepth, PlacePostpones
<1>2. CASE CleanerUnlock \/ CleanDone \/ CleanerEnable
  BY <1>2, CallUnlockInv
  DEF CleanerUnlock, CleanDone, CleanerEnable, PlaceDepth, PlacePostpones
<1>3. CASE CleanerUnlockStuff
  BY <1>3, CallUnlockStuffInv DEF CleanerUnlockStuff, PlaceDepth, PlacePostpones
<1>4. CASE CleanerBlock
  <2>1. TypeOK /\ LockType'
    BY <1>4, LockingType DEF TypeInv, CleanerBlock
  <2>2. state' \in [Thread -> TaskState]
    BY <1>0, <1>4, <2>1 DEF TypeOK, CleanerBlock, TaskState
  <2>3. TypeOK'
    BY <1>4, <2>1, <2>2, GotoType
    DEF TypeOK, LockType, CleanerBlock, processVars, others
  <2>4. LocksMatch'
    BY <1>4, LockSchedulerLocks DEF CleanerBlock, PlaceDepth, PlacePostpones
  <2> QED BY <1>4, <2>3, <2>4, WakeStays DEF TypeInv, CleanerBlock, Goto
<1>5. CASE CleanerDoesNotBlock
  <2>1. TypeOK /\ LockType'
    BY <1>5, LockingType DEF TypeInv, CleanerDoesNotBlock
  <2>2. TypeOK'
    BY <1>5, <2>1, GotoType
    DEF TypeOK, LockType, CleanerDoesNotBlock, scheduled, processVars, others
  <2>3. LocksMatch'
    BY <1>5, LockSchedulerLocks
    DEF CleanerDoesNotBlock, scheduled, PlaceDepth, PlacePostpones
  <2> QED BY <1>5, <2>2, <2>3, WakeStays DEF TypeInv, CleanerDoesNotBlock, Goto
<1>6. CASE CleanerClear
  <2>1. TypeOK'
    BY <1>6, GotoType
    DEF TypeInv, TypeOK, CleanerClear, scheduled, processVars, others, lockVars
  <2>2. LocksMatch'
    BY <1>6, NoLockLocks
    DEF CleanerClear, scheduled, PlaceDepth, PlacePostpones
  <2> QED BY <1>6, <2>1, <2>2, WakeStays DEF TypeInv, CleanerClear, Goto
<1>7. CASE CleanerLock
  <2>1. TypeOK /\ LockType'
    BY <1>7, LockingType DEF TypeInv, CleanerLock
  <2>2. TypeOK'
    BY <1>7, <2>1, GotoType
    DEF TypeOK, LockType, CleanerLock, scheduled, processVars, others
  <2>3. LocksMatch'
    BY <1>7, LockBothLocks
    DEF CleanerLock, scheduled, PlaceDepth, PlacePostpones
  <2> QED BY <1>7, <2>2, <2>3, WakeStays DEF TypeInv, CleanerLock, Goto
<1>8. CASE CleanTask
  <2>1. PICK to \in {"cleanWake", "clean"} : Goto("clean", to)
    BY <1>8 DEF CleanTask
  <2>2. /\ terminatedTaskList' \in Seq(Thread)
        /\ threadUsage' \subseteq Thread
        /\ cleaning' \in Process \cup {Null}
    BY <1>8, ThreadsAssumption DEF CleanTask, TypeInv, TypeOK
  <2>3. TypeOK'
    BY <1>8, <2>1, <2>2, GotoType
    DEF TypeInv, TypeOK, CleanTask, scheduled, lockVars
  <2>4. LocksMatch'
    BY <1>8, <2>1, NoLockLocks
    DEF CleanTask, scheduled, PlaceDepth, PlacePostpones
  <2> QED BY <2>1, <2>3, <2>4, WakeStays DEF TypeInv, Goto
<1>9. CASE CleanWakeOne
  <2>1. waitingPID' \in [Thread -> Process \cup {Null, AnyChild, Unsupported}]
    BY <1>9 DEF CleanWakeOne, TypeInv, TypeOK
  <2>2. taskList' \in Seq(Thread)
    BY <1>9, UnblockType DEF CleanWakeOne, WaitersFor, TypeInv, TypeOK
  <2>3. TypeOK'
    BY <1>9, <2>1, <2>2, GotoType
    DEF TypeInv, TypeOK, CleanWakeOne, processVars, others, lockVars
  <2>4. LocksMatch'
    BY <1>9, NoLockLocks DEF CleanWakeOne, PlaceDepth, PlacePostpones
  <2> QED BY <1>9, <2>3, <2>4, WakeStays DEF TypeInv, CleanWakeOne, Goto
<1>10. CASE CleanWakeDone \/ CleanPanic \/ KePanic
  <2>1. TypeOK'
    BY <1>10, GotoType
    DEF TypeInv, TypeOK, CleanWakeDone, CleanPanic, KePanic, scheduled, processVars, others, lockVars
  <2>2. LocksMatch'
    BY <1>10, NoLockLocks
    DEF CleanWakeDone, CleanPanic, KePanic, scheduled, PlaceDepth, PlacePostpones
  <2> QED BY <1>10, <2>1, <2>2, WakeStays DEF TypeInv, CleanWakeDone, CleanPanic, KePanic, Goto
<1>11. CASE CleanNoTerminal
  <2>1. TypeOK'
    BY <1>11, GotoType
    DEF TypeInv, TypeOK, CleanNoTerminal, scheduled, lockVars
  <2>2. LocksMatch'
    BY <1>11, NoLockLocks
    DEF CleanNoTerminal, scheduled, PlaceDepth, PlacePostpones
  <2> QED BY <1>11, <2>1, <2>2, WakeStays DEF TypeInv, CleanNoTerminal, Goto
<1>12. CASE CleanTerminal
  <2>1. state' \in [Thread -> TaskState] /\ taskSwitchesPostponedFlag' \in BOOLEAN
    BY <1>0, <1>12 DEF CleanTerminal, TypeInv, TypeOK, TaskState
  <2>2. /\ terminal' \in [Process -> Process \cup {Null}]
        /\ liveTerminals' \subseteq Process
    BY <1>12 DEF CleanTerminal, TypeInv, TypeOK
  <2>3. TypeOK'
    BY <1>12, <2>1, <2>2, GotoType DEF TypeInv, TypeOK, CleanTerminal
  <2>4. irqDisableCounter' = 2 /\ postponeTaskSwitchesCounter' = 1
    BY <1>12, DepthFacts
    DEF CleanTerminal, Goto, TypeInv, LocksMatch, PlaceDepth, PlacePostpones
  <2>5. interruptsOn' <=> irqDisableCounter' = 0
    BY <1>12 DEF CleanTerminal, TypeInv, LocksMatch
  <2>6. taskSwitchesPostponedFlag' => postponeTaskSwitchesCounter' = 1
    BY <2>4
  <2>7. LocksMatch'
    BY <1>12, <2>4, <2>5, <2>6, LocksStay
    DEF CleanTerminal, Goto, PlaceDepth, PlacePostpones
  <2> QED BY <1>12, <2>3, <2>7, WakeStays DEF TypeInv, CleanTerminal, Goto
<1> QED BY <1>1, <1>2, <1>3, <1>4, <1>5, <1>6, <1>7, <1>8, <1>9, <1>10,
           <1>11, <1>12 DEF Cleaner

(* A step of the timer interrupt in the thread it has interrupted. *)
LEMMA IsrLocks ==
  ASSUME TypeInv, NEW s \in {"wake", "slice", "schedule", "unlock"},
         isr[currentTaskTCB] # "none", pc' = pc,
         isr' = [isr EXCEPT ![currentTaskTCB] = s],
         UNCHANGED <<currentTaskTCB, lockVars>>
  PROVE  LocksMatch'
<1>1. /\ isr'[currentTaskTCB] # "none"
      /\ \A t \in Thread : isr'[t] = "none" <=> isr[t] = "none"
  BY DEF TypeInv, TypeOK
<1>2. \A t \in Thread : LockDepth(t)' = LockDepth(t)
  BY <1>1 DEF LockDepth
<1> QED BY <1>1, <1>2 DEF TypeInv, TypeOK, LocksMatch, lockVars

LEMMA TickInv == TypeInv /\ Tick => TypeInv'
<1> SUFFICES ASSUME TypeInv, Tick PROVE TypeInv'
  OBVIOUS
<1> DEFINE cur == currentTaskTCB
<1>0. cur \in Thread /\ isr[cur] = "none" /\ irqDisableCounter = 0
  BY DEF TypeInv, TypeOK, LocksMatch, Tick
<1>1. PICK s \in {"wake", "slice"} :
        /\ isr' = [isr EXCEPT ![cur] = s]
        /\ s = "wake" => sleepingTaskList # << >>
  BY DEF Tick
<1>2. TypeOK'
  <2>1. TypeOK /\ LockType'
    BY LockingType DEF TypeInv, Tick
  <2>2. sleepLeft' \in [Thread -> Nat \cup {-1}]
    <3>1. ASSUME NEW t \in Thread
          PROVE  (IF sleepLeft[t] < 0 THEN -1 ELSE sleepLeft[t] - 1) \in Nat \cup {-1}
      <4>1. sleepLeft[t] \in Nat \cup {-1}
        BY <2>1 DEF TypeOK
      <4> QED BY <4>1
    <3> QED BY <3>1 DEF Tick
  <2>3. firstSleeper' \in Thread \cup {Null}
    BY <2>1 DEF TypeOK, Tick
  <2> QED BY <1>1, <2>1, <2>2, <2>3
          DEF TypeOK, LockType, Tick, scheduled, processVars
<1>3. LocksMatch'
  <2>1. isr'[cur] # "none" /\ \A t \in Thread \ {cur} : isr'[t] = isr[t]
    BY <1>0, <1>1 DEF TypeInv, TypeOK
  <2>2. PlaceDepth(pc[cur]) = 0
    BY <1>0, DepthFacts
  <2>3. irqDisableCounter' = 1 /\ ~interruptsOn' /\ pc' = pc /\ cur' = cur
    BY <1>0 DEF Tick, lockScheduler, disableIRQs, scheduled
  <2>4. LockDepth(cur)' = 1
    BY <2>1, <2>2, <2>3 DEF LockDepth
  <2>5. \A t \in Thread \ {cur} : LockDepth(t)' = LockDepth(t)
    BY <2>1, <2>3 DEF LockDepth
  <2>6. \A t \in Thread : isr'[t] # "none" => PlaceDepth(pc'[t]) = 0
    BY <2>1, <2>2, <2>3 DEF TypeInv, LocksMatch
  <2> QED BY <2>3, <2>4, <2>5, <2>6
          DEF TypeInv, LocksMatch, Tick, lockScheduler, postponement
<1>4. WakeInv'
  BY <1>0, <1>1 DEF TypeInv, TypeOK, WakeInv, Tick, scheduled
<1> QED BY <1>2, <1>3, <1>4 DEF TypeInv

LEMMA InterruptInv == TypeInv /\ Interrupt => TypeInv'
<1> SUFFICES ASSUME TypeInv, Interrupt PROVE TypeInv'
  OBVIOUS
<1> DEFINE cur == currentTaskTCB
<1>0. cur \in Thread /\ TypeOK
  BY DEF TypeInv, TypeOK
<1>1. CASE WakeOrRotate
  <2> DEFINE curr == Head(sleepingTaskList)
             rest == Tail(sleepingTaskList)
  <2>1. sleepingTaskList # << >> /\ isr[cur] = "wake"
    BY <1>0, <1>1 DEF TypeInv, WakeInv, WakeOrRotate
  <2>2. curr \in Thread /\ rest \in Seq(Thread)
    BY <1>0, <2>1 DEF TypeOK
  <2>3. sleepingTaskList' \in Seq(Thread)
    BY <1>1, <2>2 DEF WakeOrRotate
  <2>4. taskList' \in Seq(Thread)
    BY <1>0, <1>1, <2>2, UnblockType DEF TypeOK, WakeOrRotate
  <2>5. PICK s \in {"slice", "wake"} :
          /\ isr' = [isr EXCEPT ![cur] = s]
          /\ s = "wake" => sleepingTaskList' # << >>
    BY <1>1 DEF WakeOrRotate
  <2>6. firstSleeper' \in Thread \cup {Null}
    BY <1>0, <1>1 DEF TypeOK, WakeOrRotate
  <2>7. TypeOK'
    BY <1>0, <1>1, <2>3, <2>4, <2>5, <2>6
    DEF TypeOK, WakeOrRotate, processVars, lockVars
  <2>8. LocksMatch'
    BY <1>1, <2>1, <2>5, IsrLocks DEF WakeOrRotate
  <2>9. WakeInv'
    BY <1>0, <1>1, <2>5 DEF TypeInv, TypeOK, WakeInv, WakeOrRotate
  <2> QED BY <2>7, <2>8, <2>9 DEF TypeInv
<1>2. CASE Preempt
  <2> DEFINE slice == IF timeSliceRemaining[cur] > MaxSlice
                        THEN 1 ELSE timeSliceRemaining[cur]
  <2>1. slice \in 0 .. MaxSlice + 1
    BY <1>0, TimesAssumption DEF TypeOK
  <2>2. PICK s \in {"schedule", "unlock"} : isr' = [isr EXCEPT ![cur] = s]
    BY <1>2 DEF Preempt
  <2>3. timeSliceRemaining' \in [Thread -> 0 .. MaxSlice + 1]
    <3>1. slice # 0 => slice - 1 \in 0 .. MaxSlice + 1
      BY <2>1, TimesAssumption
    <3> QED BY <1>0, <1>2, <3>1 DEF TypeOK, Preempt
  <2>4. TypeOK'
    <3>1. isr' \in [Thread -> {"none", "wake", "slice", "schedule", "unlock"}]
      BY <1>0, <2>2 DEF TypeOK
    <3>2. UNCHANGED <<currentTaskTCB, taskList, state, pc, sleepLeft, waitingPID,
                      processVars, lockVars, sleepingTaskList, firstSleeper,
                      terminatedTaskList, weNeedTheCleanerToNotBlock>>
      BY <1>2 DEF Preempt, others
    <3> QED BY <1>0, <2>3, <3>1, <3>2 DEF TypeOK, processVars, lockVars
  <2>5. LocksMatch'
    BY <1>2, <2>2, IsrLocks DEF Preempt
  <2>6. WakeInv'
    BY <1>0, <1>2, <2>2 DEF TypeInv, TypeOK, WakeInv, Preempt
  <2> QED BY <2>4, <2>5, <2>6 DEF TypeInv
<1>3. CASE IsrSchedule
  <2>1. TypeOK'
    BY <1>0, <1>3, ScheduleType DEF TypeOK, IsrSchedule, processVars, others
  <2>2. LocksMatch'
    <3>1. postponeTaskSwitchesCounter = 0 /\ irqDisableCounter = 1
      <4>1. isr[cur] # "none" /\ PlaceDepth(pc[cur]) = 0
        BY <1>0, <1>3 DEF IsrSchedule, TypeInv, LocksMatch
      <4>2. ~PlacePostpones(pc[cur])
        BY <4>1 DEF PlaceDepth, PlacePostpones
      <4> QED BY <4>1, <4>2, DepthFacts DEF TypeInv, LocksMatch
    <3>2. /\ \A t \in Thread : isr'[t] # "none" <=> isr[t] # "none"
          /\ pc' = pc
      BY <1>0, <1>3 DEF IsrSchedule, TypeOK, others
    <3>3. \A t \in Thread : LockDepth(t) = 1 /\ ~PlacePostpones(pc[t])
      <4>1. LockDepth(cur) = 1 /\ ~PlacePostpones(pc[cur])
        BY <3>1 DEF TypeInv, LocksMatch
      <4> QED BY <4>1 DEF TypeInv, LocksMatch
    <3>4. \A t \in Thread : LockDepth(t)' = 1 /\ ~PlacePostpones(pc'[t])
      BY <3>2, <3>3 DEF LockDepth
    <3>5. cur' \in Thread
      BY <2>1 DEF TypeOK
    <3>6. \A t \in Thread : isr'[t] # "none" => PlaceDepth(pc'[t]) = 0
      BY <3>2 DEF TypeInv, LocksMatch
    <3>7. irqDisableCounter' = 1 /\ ~interruptsOn'
      BY <1>3, <3>1 DEF IsrSchedule, TypeInv, LocksMatch
    <3>8. postponeTaskSwitchesCounter' = 0 /\ ~taskSwitchesPostponedFlag'
      BY <1>3, <3>1 DEF IsrSchedule, schedule, TypeInv, LocksMatch
    <3> QED BY <3>4, <3>5, <3>6, <3>7, <3>8 DEF LocksMatch
  <2>3. WakeInv'
    BY <1>0, <1>3 DEF TypeInv, TypeOK, WakeInv, IsrSchedule, others
  <2> QED BY <2>1, <2>2, <2>3 DEF TypeInv
<1>4. CASE IsrUnlock
  <2>1. isr[cur] = "unlock" /\ PlaceDepth(pc[cur]) = 0 /\ irqDisableCounter = 1
    BY <1>0, <1>4, DepthFacts DEF IsrUnlock, TypeInv, LocksMatch
  <2>2. irqDisableCounter' = 0 /\ interruptsOn' /\ interruptsOn' \in BOOLEAN
    <3>1. irqDisableCounter' = 0
      BY <1>4, <2>1 DEF IsrUnlock, unlockScheduler, enableIRQs
    <3>2. interruptsOn'
      BY <1>4, <2>1 DEF IsrUnlock, unlockScheduler, enableIRQs
    <3>3. interruptsOn' \in BOOLEAN
      BY <1>4 DEF IsrUnlock, unlockScheduler, enableIRQs
    <3> QED BY <3>1, <3>2, <3>3
  <2>3. /\ pc' = pc /\ cur' = cur /\ isr'[cur] = "none"
        /\ \A t \in Thread \ {cur} : isr'[t] = isr[t]
    BY <1>0, <1>4 DEF IsrUnlock, scheduled, TypeOK
  <2>4. TypeOK'
    BY <1>0, <1>4, <2>2
    DEF TypeOK, IsrUnlock, scheduled, others, processVars, unlockScheduler,
        postponement
  <2>5. LocksMatch'
    <3>1. LockDepth(cur)' = 0
      BY <2>1, <2>3 DEF LockDepth
    <3>2. \A t \in Thread \ {cur} : LockDepth(t)' = LockDepth(t)
      BY <2>3 DEF LockDepth
    <3>3. \A t \in Thread : isr'[t] # "none" => PlaceDepth(pc'[t]) = 0
      BY <2>3 DEF TypeInv, LocksMatch
    <3>4. UNCHANGED postponement
      BY <1>4 DEF IsrUnlock, unlockScheduler
    <3> QED BY <2>2, <2>3, <3>1, <3>2, <3>3, <3>4
            DEF TypeInv, LocksMatch, postponement
  <2>6. WakeInv'
    BY <1>0, <1>4, <2>1, <2>3 DEF TypeInv, WakeInv, IsrUnlock, others
  <2> QED BY <2>4, <2>5, <2>6 DEF TypeInv
<1> QED BY <1>1, <1>2, <1>3, <1>4 DEF Interrupt

LEMMA NextTypeInv ==
  TypeInv /\ currentTaskTCB \in threadUsage /\ [Next]_vars => TypeInv'
<1> SUFFICES ASSUME TypeInv, currentTaskTCB \in threadUsage, [Next]_vars
             PROVE  TypeInv'
  OBVIOUS
<1>1. CASE UNCHANGED vars
  BY <1>1
  DEF vars, threadVars, processVars, lockVars, listVars, TypeInv, TypeOK,
      LocksMatch, LockDepth, WakeInv
<1> QED BY <1>1, RequestInv, ServiceInv, CleanerInv, TickInv, InterruptInv
        DEF Next

=============================================================================
