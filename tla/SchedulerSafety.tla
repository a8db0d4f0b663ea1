--------------------------- MODULE SchedulerSafety ---------------------------
(***************************************************************************)
(* The invariance of TypeInv and ListInv, and with it of the lock, list    *)
(* and running-thread invariants of Scheduler.                             *)
(***************************************************************************)
EXTENDS SchedulerProofs

(* What appending to a list and taking its head do. *)
LEMMA AppendFacts ==
  ASSUME NEW S, NEW s \in Seq(S), NEW x \in S
  PROVE  /\ Range(Append(s, x)) = Range(s) \cup {x}
         /\ IsInjective(s) /\ x \notin Range(s) => IsInjective(Append(s, x))
<1>1. /\ DOMAIN s = 1 .. Len(s) /\ Len(s) \in Nat
      /\ DOMAIN Append(s, x) = 1 .. Len(s) + 1
      /\ \A i \in 1 .. Len(s) : Append(s, x)[i] = s[i]
      /\ Append(s, x)[Len(s) + 1] = x
  OBVIOUS
<1>2. Range(Append(s, x)) = Range(s) \cup {x}
  BY <1>1 DEF Range
<1>3. ASSUME IsInjective(s), x \notin Range(s) PROVE IsInjective(Append(s, x))
  BY <1>1, <1>3 DEF IsInjective, Range
<1> QED BY <1>2, <1>3

LEMMA TailFacts ==
  ASSUME NEW S, NEW s \in Seq(S), s # << >>
  PROVE  /\ Head(s) \in S /\ Tail(s) \in Seq(S)
         /\ Range(s) = {Head(s)} \cup Range(Tail(s))
         /\ IsInjective(s) => IsInjective(Tail(s)) /\ Head(s) \notin Range(Tail(s))
<1>1. /\ DOMAIN s = 1 .. Len(s) /\ Len(s) \in Nat /\ Len(s) # 0
      /\ DOMAIN Tail(s) = 1 .. Len(s) - 1
      /\ \A i \in 1 .. Len(s) - 1 : Tail(s)[i] = s[i + 1]
      /\ Head(s) = s[1] /\ s[1] \in S /\ Tail(s) \in Seq(S)
  OBVIOUS
<1>2. \A i \in 1 .. Len(s) : i = 1 \/ (i - 1 \in 1 .. Len(s) - 1 /\ (i - 1) + 1 = i)
  BY <1>1
<1>3. Range(s) = {Head(s)} \cup Range(Tail(s))
  <2>1. ASSUME NEW i \in 1 .. Len(s) PROVE s[i] \in {s[1]} \cup Range(Tail(s))
    <3>1. CASE i = 1
      BY <3>1
    <3>2. CASE i - 1 \in 1 .. Len(s) - 1
      <4>1. Tail(s)[i - 1] = s[i]
        BY <1>1, <1>2, <3>2
      <4>2. i - 1 \in DOMAIN Tail(s)
        BY <1>1, <3>2
      <4> QED BY <4>1, <4>2 DEF Range
    <3> QED BY <1>2, <3>1, <3>2
  <2>2. ASSUME NEW i \in 1 .. Len(s) - 1 PROVE Tail(s)[i] \in Range(s)
    BY <1>1 DEF Range
  <2>3. s[1] \in Range(s)
    BY <1>1 DEF Range
  <2> QED BY <1>1, <2>1, <2>2, <2>3 DEF Range
<1>4. ASSUME IsInjective(s)
      PROVE  IsInjective(Tail(s)) /\ Head(s) \notin Range(Tail(s))
  BY <1>1, <1>4 DEF IsInjective, Range
<1> QED BY <1>1, <1>3, <1>4

LEMMA EmptyFacts == Range(<< >>) = {} /\ IsInjective(<< >>)
BY DEF Range, IsInjective

LEMMA InitListInv == Init => ListInv
<1> SUFFICES ASSUME Init PROVE ListInv
  OBVIOUS
<1> USE ThreadsAssumption
<1>1. /\ Range(taskList) = {idleThread} /\ IsInjective(taskList)
      /\ Range(sleepingTaskList) = {} /\ IsInjective(sleepingTaskList)
      /\ Range(terminatedTaskList) = {} /\ IsInjective(terminatedTaskList)
  BY EmptyFacts DEF Init, Range, IsInjective
<1>2. InOneList /\ InUse
  BY <1>1 DEF Init, InOneList, InUse, BootThreads
<1>3. SleepersSleep /\ TerminatedStay
  BY <1>1 DEF SleepersSleep, TerminatedStay
<1>4. IdleReady /\ OnItsWay
  BY <1>1 DEF Init, IdleReady, OnItsWay
<1>5. NoThreadLost
  BY <1>1 DEF Init, NoThreadLost, Awaits, BootThreads
<1>6. \A t \in Thread : pc[t] \in CleanerPlace <=> t = cleanerThread
  BY DEF Init, CleanerPlace, CleanPlace
<1> QED BY <1>2, <1>3, <1>4, <1>5, <1>6 DEF ListInv

threadLists == <<taskList, sleepingTaskList, terminatedTaskList, threadUsage>>

Blocking == {"schedule", "cleanerSchedule"} \cup SleepPlace \cup ExitPlace

(* The current thread goes on, and nothing else changes but locks. *)
LEMMA Moves ==
  ASSUME TypeInv, ListInv, NEW from \in Place, NEW to \in Place, Goto(from, to),
         UNCHANGED <<threadLists, state, currentTaskTCB>>,
         from \in CleanerPlace <=> to \in CleanerPlace,
         from \in ExitPlace => to \in ExitPlace,
         from \in SleepPlace => to \in SleepPlace /\ from # "sleepBlock",
         to # "sleepBlock",
         currentTaskTCB = idleThread => to \in {"run", "schedule", "unlock"},
         \/ state[currentTaskTCB] = "Running"
         \/ to \in Blocking
         \/ /\ to \in CleanPlace /\ taskSwitchesPostponedFlag'
            /\ state[currentTaskTCB] = "Terminated",
         to \in {"sleepUnlock", "sleepUnlockStuff"} => taskSwitchesPostponedFlag'
  PROVE  ListInv'
<1> DEFINE cur == currentTaskTCB
<1>1. /\ cur \in Thread /\ pc[cur] = from /\ pc'[cur] = to
      /\ \A t \in Thread \ {cur} : pc'[t] = pc[t]
  BY DEF TypeInv, TypeOK, Goto
<1>2. Range(sleepingTaskList) \subseteq Thread /\ Range(terminatedTaskList) \subseteq Thread
  BY DEF TypeInv, TypeOK, ListInv, InUse
<1>3. InOneList' /\ InUse' /\ NoThreadLost'
  BY DEF ListInv, InOneList, InUse, NoThreadLost, Awaits, threadLists
<1>4. SleepersSleep'
  BY <1>1, <1>2 DEF ListInv, SleepersSleep, threadLists
<1>5. TerminatedStay'
  BY <1>1, <1>2 DEF ListInv, TerminatedStay, threadLists
<1>6. IdleReady'
  BY <1>1, ThreadsAssumption DEF ListInv, IdleReady, threadLists
<1>7. OnItsWay'
  BY <1>1 DEF ListInv, OnItsWay, Awaits, threadLists, Blocking
<1>8. \A t \in Thread : pc'[t] \in CleanerPlace <=> t = cleanerThread
  BY <1>1 DEF ListInv
<1> QED BY <1>3, <1>4, <1>5, <1>6, <1>7, <1>8 DEF ListInv

(* The thread that schedule() picks and the queue it leaves. *)
LEMMA SelectFacts ==
  ASSUME TypeInv, ListInv, SelectTask
  PROVE  \/ /\ currentTaskTCB = idleThread
            /\ UNCHANGED <<currentTaskTCB, taskList, state>>
         \/ /\ currentTaskTCB' # currentTaskTCB
            /\ currentTaskTCB' \in Range(taskList)
            /\ IsInjective(taskList')
            /\ state[currentTaskTCB] = "Running" =>
                 /\ Range(taskList') = (Range(taskList) \ {currentTaskTCB'})
                                         \cup {currentTaskTCB}
                 /\ state' = [state EXCEPT ![currentTaskTCB] = "ReadyToRun",
                                           ![currentTaskTCB'] = "Running"]
            /\ state[currentTaskTCB] # "Running" =>
                 /\ Range(taskList') = Range(taskList) \ {currentTaskTCB'}
                 /\ state' = [state EXCEPT ![currentTaskTCB'] = "Running"]
<1> DEFINE cur == currentTaskTCB
<1>0. /\ cur \in Thread /\ taskList \in Seq(Thread)
      /\ IsInjective(taskList) /\ cur \notin Range(taskList)
      /\ state \in [Thread -> TaskState]
  BY DEF TypeInv, TypeOK, ListInv, InOneList
<1>1. CASE taskList = << >>
  <2>1. cur = idleThread
    BY <1>1, EmptyFacts DEF ListInv, IdleReady
  <2>2. UNCHANGED <<currentTaskTCB, taskList, state>>
    BY <1>1 DEF SelectTask
  <2> QED BY <2>1, <2>2
<1>2. CASE taskList # << >> /\ state[cur] = "Running"
  <2> DEFINE q == Append(taskList, cur)
  <2>1. SwitchTo(q, [state EXCEPT ![cur] = "ReadyToRun"])
    BY <1>2 DEF SelectTask
  <2>2. /\ q \in Seq(Thread) /\ Range(q) = Range(taskList) \cup {cur}
        /\ IsInjective(q)
    BY <1>0, AppendFacts
  <2>3. q # << >> /\ Head(q) = Head(taskList)
    BY <1>0, <1>2
  <2>4. Head(q) \in Range(taskList)
    BY <1>0, <1>2, <2>3, TailFacts
  <2>5. /\ Range(q) = {Head(q)} \cup Range(Tail(q))
        /\ IsInjective(Tail(q)) /\ Head(q) \notin Range(Tail(q))
    BY <2>2, <2>3, TailFacts
  <2>6. /\ cur' = Head(q) /\ taskList' = Tail(q)
        /\ state' = [[state EXCEPT ![cur] = "ReadyToRun"] EXCEPT ![Head(q)] = "Running"]
    BY <2>1 DEF SwitchTo
  <2>7. cur' # cur
    BY <1>0, <2>4, <2>6
  <2>8. Range(taskList') = (Range(taskList) \ {cur'}) \cup {cur}
    BY <2>2, <2>5, <2>6, <2>7
  <2> QED BY <1>2, <2>4, <2>5, <2>6, <2>7, <2>8
<1>3. CASE taskList # << >> /\ state[cur] # "Running"
  <2>1. SwitchTo(taskList, state)
    BY <1>3 DEF SelectTask
  <2>2. /\ Range(taskList) = {Head(taskList)} \cup Range(Tail(taskList))
        /\ IsInjective(Tail(taskList))
        /\ Head(taskList) \notin Range(Tail(taskList))
    BY <1>0, <1>3, TailFacts
  <2> QED BY <1>0, <1>3, <2>1, <2>2 DEF SwitchTo
<1> QED BY <1>1, <1>2, <1>3

(* schedule() picks a thread, in a step that moves the old one to a place. *)
LEMMA Switches ==
  ASSUME TypeInv, ListInv, SelectTask, NEW to \in Place,
         pc' = [pc EXCEPT ![currentTaskTCB] = to],
         UNCHANGED <<sleepingTaskList, terminatedTaskList, threadUsage>>,
         pc[currentTaskTCB] \in CleanerPlace <=> to \in CleanerPlace,
         pc[currentTaskTCB] \in ExitPlace => to \in ExitPlace,
         pc[currentTaskTCB] # "sleepBlock",
         currentTaskTCB = idleThread => to \in {"run", "schedule", "unlock"}
  PROVE  ListInv'
<1> DEFINE cur == currentTaskTCB
<1>1. /\ cur \in Thread /\ pc'[cur] = to
      /\ \A t \in Thread \ {cur} : pc'[t] = pc[t]
      /\ state \in [Thread -> TaskState]
      /\ Range(taskList) \subseteq Thread
      /\ Range(sleepingTaskList) \subseteq Thread
      /\ Range(terminatedTaskList) \subseteq Thread
  BY DEF TypeInv, TypeOK, ListInv, InUse
<1>2. \A t \in Thread : pc'[t] \in CleanerPlace <=> t = cleanerThread
  BY <1>1 DEF ListInv
<1>3. CASE cur = idleThread /\ UNCHANGED <<currentTaskTCB, taskList, state>>
  <2>1. InOneList' /\ InUse' /\ NoThreadLost'
    BY <1>3 DEF ListInv, InOneList, InUse, NoThreadLost, Awaits
  <2>2. idleThread \notin Range(sleepingTaskList)
    BY DEF ListInv, SleepersSleep
  <2>3. SleepersSleep'
    BY <1>1, <1>3, <2>2 DEF ListInv, SleepersSleep
  <2>4. TerminatedStay'
    BY <1>1, <1>3 DEF ListInv, TerminatedStay
  <2>5. IdleReady' /\ OnItsWay'
    BY <1>1, <1>3 DEF ListInv, IdleReady, OnItsWay
  <2> QED BY <1>2, <2>1, <2>3, <2>4, <2>5 DEF ListInv
<1>4. CASE ~(cur = idleThread /\ UNCHANGED <<currentTaskTCB, taskList, state>>)
  <2>1. /\ cur' # cur /\ cur' \in Range(taskList) /\ cur' \in Thread
        /\ IsInjective(taskList')
        /\ state'[cur'] = "Running"
        /\ \A t \in Thread \ {cur, cur'} :
             state'[t] = state[t] /\ (t \in Range(taskList') <=> t \in Range(taskList))
        /\ state[cur] = "Running" =>
             state'[cur] = "ReadyToRun" /\ cur \in Range(taskList')
        /\ state[cur] # "Running" =>
             state'[cur] = state[cur] /\ cur \notin Range(taskList')
        /\ cur' \notin Range(taskList')
        /\ Range(taskList') \subseteq Range(taskList) \cup {cur}
    BY <1>1, <1>4, SelectFacts DEF ListInv, InOneList
  <2>2. cur' \notin Range(sleepingTaskList) /\ cur' \notin Range(terminatedTaskList)
    BY <2>1 DEF ListInv, InOneList
  <2>3. /\ cur \in Range(sleepingTaskList) => state[cur] = "Sleeping"
        /\ cur \in Range(terminatedTaskList) => state[cur] = "Terminated"
    BY DEF ListInv, SleepersSleep, TerminatedStay
  <2>4. InOneList'
    BY <1>1, <2>1, <2>2, <2>3 DEF ListInv, InOneList
  <2>5. InUse'
    BY <2>1 DEF ListInv, InUse
  <2>6. SleepersSleep'
    BY <1>1, <2>1, <2>2, <2>3 DEF ListInv, SleepersSleep
  <2>7. TerminatedStay'
    BY <1>1, <2>1, <2>2, <2>3 DEF ListInv, TerminatedStay
  <2>8. IdleReady'
    <3>1. idleThread \in Thread /\ pc'[idleThread] \in {"run", "schedule", "unlock"}
      BY <1>1, ThreadsAssumption DEF ListInv, IdleReady
    <3> QED BY <1>1, <2>1, <3>1 DEF ListInv, IdleReady
  <2>9. OnItsWay'
    <3>1. ~PlacePostpones(pc'[cur'])
      BY <1>1, <2>1 DEF TypeInv, LocksMatch
    <3>2. pc'[cur'] \notin {"sleepBlock", "sleepUnlock", "sleepUnlockStuff"}
      BY <3>1 DEF PlacePostpones
    <3> QED BY <2>1, <3>2 DEF OnItsWay
  <2>10. NoThreadLost'
    <3> SUFFICES ASSUME NEW t \in threadUsage, t # cur'
                 PROVE  t \in Range(taskList') \/ Awaits(t)'
      BY DEF NoThreadLost
    <3>1. t \in Thread
      BY DEF TypeInv, TypeOK
    <3>2. CASE t = cur
      BY <2>1, <3>2 DEF ListInv, OnItsWay, Awaits
    <3>3. CASE t # cur
      BY <2>1, <3>1, <3>3 DEF ListInv, NoThreadLost, Awaits
    <3> QED BY <3>2, <3>3
  <2> QED BY <1>2, <2>4, <2>5, <2>6, <2>7, <2>8, <2>9, <2>10 DEF ListInv
<1> QED BY <1>3, <1>4

LEMMA CallScheduleList ==
  ASSUME TypeInv, ListInv, NEW from \in Place, NEW to \in Place,
         CallSchedule(from, to), from # "sleepBlock",
         PlacePostpones(from) => to \in Blocking /\ from \in SleepPlace,
         from \in CleanerPlace <=> to \in CleanerPlace,
         from \in ExitPlace => to \in ExitPlace,
         from \in SleepPlace => to \in SleepPlace,
         to # "sleepBlock",
         from \in {"run", "schedule", "unlock"} => to \in {"run", "schedule", "unlock"}
  PROVE  ListInv'
<1>0. /\ currentTaskTCB \in Thread /\ pc[currentTaskTCB] = from
      /\ pc' = [pc EXCEPT ![currentTaskTCB] = to]
      /\ Goto(from, to)
  BY DEF TypeInv, TypeOK, CallSchedule, Goto
<1>1. CASE PlacePostpones(from)
  <2>1. postponeTaskSwitchesCounter # 0
    BY <1>0, <1>1 DEF TypeInv, LocksMatch
  <2>2. taskSwitchesPostponedFlag' /\ UNCHANGED <<threadLists, state, currentTaskTCB>>
    BY <2>1 DEF CallSchedule, schedule, others, processVars, threadLists
  <2>3. currentTaskTCB # idleThread
    BY <1>0, <1>1, ThreadsAssumption DEF ListInv, IdleReady, PlacePostpones
  <2> QED BY <1>0, <1>1, <2>2, <2>3, Moves
<1>2. CASE ~PlacePostpones(from)
  <2>1. postponeTaskSwitchesCounter = 0
    BY <1>0, <1>2 DEF TypeInv, LocksMatch
  <2>2. SelectTask /\ UNCHANGED <<sleepingTaskList, terminatedTaskList, threadUsage>>
    BY <2>1 DEF CallSchedule, schedule, others, processVars
  <2>3. currentTaskTCB = idleThread => from \in {"run", "schedule", "unlock"}
    BY <1>0 DEF ListInv, IdleReady
  <2> QED BY <1>0, <2>2, <2>3, Switches
<1> QED BY <1>1, <1>2

(* unlockStuff() at the end of sleeping, exiting or cleaning up. *)
LEMMA CallUnlockStuffList ==
  ASSUME TypeInv, ListInv,
         NEW from \in {"sleepUnlockStuff", "exitUnlockStuff", "cleanerUnlockStuff"},
         NEW to \in {"unlock", "exitEnable", "cleanerEnable"},
         CallUnlockStuff(from, to),
         from = "sleepUnlockStuff" <=> to = "unlock",
         from = "exitUnlockStuff" <=> to = "exitEnable"
  PROVE  ListInv'
<1>0. /\ currentTaskTCB \in Thread /\ pc[currentTaskTCB] = from
      /\ pc' = [pc EXCEPT ![currentTaskTCB] = to]
      /\ Goto(from, to) /\ from \in Place /\ to \in Place
  BY DEF TypeInv, TypeOK, CallUnlockStuff, Goto, Place
<1>1. currentTaskTCB # idleThread
  BY <1>0, ThreadsAssumption DEF ListInv, IdleReady
<1>2. postponeTaskSwitchesCounter = 1
  BY <1>0 DEF TypeInv, LocksMatch, PlacePostpones
<1>3. /\ UNCHANGED <<sleepingTaskList, terminatedTaskList, threadUsage>>
      /\ from \in CleanerPlace <=> to \in CleanerPlace
      /\ from \in ExitPlace => to \in ExitPlace
  BY DEF CallUnlockStuff, others, processVars, CleanerPlace, CleanPlace, ExitPlace
<1>4. CASE taskSwitchesPostponedFlag
  <2>1. SelectTask
    BY <1>2, <1>4 DEF CallUnlockStuff, unlockStuffBody
  <2> QED BY <1>0, <1>1, <1>3, <2>1, Switches
<1>5. CASE ~taskSwitchesPostponedFlag
  <2>1. from # "sleepUnlockStuff"
    BY <1>0, <1>5 DEF ListInv, OnItsWay
  <2>2. UNCHANGED <<threadLists, state, currentTaskTCB>>
    BY <1>3, <1>5 DEF CallUnlockStuff, unlockStuffBody, threadLists
  <2>3. from \notin SleepPlace /\ to \notin {"sleepUnlock", "sleepUnlockStuff"}
    BY <2>1 DEF SleepPlace
  <2>4. state[currentTaskTCB] = "Running" \/ to \in Blocking
    BY <1>0, <1>5, <2>1
    DEF ListInv, OnItsWay, Blocking, ExitPlace, SleepPlace, CleanPlace
  <2> QED BY <1>0, <1>1, <1>3, <2>2, <2>3, <2>4, Moves
<1> QED BY <1>4, <1>5

(* The current thread marks itself as waiting for something. *)
LEMMA Blocks ==
  ASSUME TypeInv, ListInv, NEW from \in Place, NEW to \in Place, Goto(from, to),
         NEW reason \in TaskState \ {"Running", "ReadyToRun"},
         state' = [state EXCEPT ![currentTaskTCB] = reason],
         UNCHANGED <<threadLists, currentTaskTCB>>,
         from \in CleanerPlace <=> to \in CleanerPlace,
         from \notin ExitPlace, to \in {"schedule", "cleanerSchedule", "sleepSchedule"},
         from = "sleepBlock" <=> reason = "Sleeping",
         from = "sleepBlock" <=> to = "sleepSchedule",
         from \in SleepPlace => from = "sleepBlock",
         currentTaskTCB # idleThread,
         Awaits(currentTaskTCB)'
  PROVE  ListInv'
<1> DEFINE cur == currentTaskTCB
<1>1. /\ cur \in Thread /\ pc[cur] = from /\ pc'[cur] = to
      /\ \A t \in Thread \ {cur} : pc'[t] = pc[t] /\ state'[t] = state[t]
      /\ state'[cur] = reason
  BY DEF TypeInv, TypeOK, Goto
<1>2. /\ threadUsage \subseteq Thread
      /\ Range(sleepingTaskList) \subseteq Thread
      /\ Range(terminatedTaskList) \subseteq Thread
  BY DEF TypeInv, TypeOK, ListInv, InUse
<1>3. cur \notin Range(terminatedTaskList)
  BY <1>1 DEF ListInv, TerminatedStay
<1>4. cur \in Range(sleepingTaskList) => from = "sleepBlock"
  BY <1>1 DEF ListInv, SleepersSleep
<1>5. InOneList' /\ InUse'
  BY DEF ListInv, InOneList, InUse, threadLists
<1>6. SleepersSleep'
  BY <1>1, <1>2, <1>4 DEF ListInv, SleepersSleep, SleepPlace, threadLists
<1>7. TerminatedStay'
  BY <1>1, <1>2, <1>3 DEF ListInv, TerminatedStay, threadLists
<1>8. IdleReady'
  BY <1>1, ThreadsAssumption DEF ListInv, IdleReady, threadLists
<1>9. OnItsWay'
  BY <1>1 DEF OnItsWay, SleepPlace
<1>10. NoThreadLost'
  BY <1>1, <1>2 DEF ListInv, NoThreadLost, Awaits, threadLists
<1>11. \A t \in Thread : pc'[t] \in CleanerPlace <=> t = cleanerThread
  BY <1>1 DEF ListInv
<1> QED BY <1>5, <1>6, <1>7, <1>8, <1>9, <1>10, <1>11 DEF ListInv

(* A thread that is in no list and not in use, or wakes up, is queued. *)
LEMMA Queued ==
  ASSUME TypeInv, ListInv, NEW t \in Thread,
         t \notin Range(sleepingTaskList), t \notin Range(terminatedTaskList)
  PROVE  /\ Range(unblockTask(t)) \subseteq Range(taskList) \cup {t}
         /\ Range(taskList) \subseteq Range(unblockTask(t))
         /\ CanUnblock(t) => t \in Range(unblockTask(t))
         /\ IsInjective(unblockTask(t))
BY AppendFacts DEF TypeInv, TypeOK, ListInv, InOneList, unblockTask, CanUnblock

LEMMA ServiceList == TypeInv /\ ListInv /\ Service => ListInv'
<1> SUFFICES ASSUME TypeInv, ListInv, Service PROVE ListInv'
  OBVIOUS
<1> USE ServicePlaces
<1> DEFINE cur == currentTaskTCB
<1>1. CASE Schedule \/ SleepSchedule \/ ExitSchedule
  BY <1>1, CallScheduleList
  DEF Schedule, SleepSchedule, ExitSchedule, PlacePostpones, Blocking,
      SleepPlace, ExitPlace, CleanerPlace, CleanPlace
<1>2. CASE SleepUnlockStuff \/ ExitUnlockStuff
  BY <1>2, CallUnlockStuffList DEF SleepUnlockStuff, ExitUnlockStuff
<1>3. CASE Unlock \/ SleepUnlock \/ ExitUnlock \/ ExitEnable
  <2>1. PICK from \in {"unlock", "sleepUnlock", "exitUnlock", "exitEnable"},
             to \in {"run", "sleepUnlockStuff", "exitUnlockStuff", "exitLoop"} :
          /\ CallUnlock(from, to)
          /\ <<from, to>> \in {<<"unlock", "run">>, <<"sleepUnlock", "sleepUnlockStuff">>,
                               <<"exitUnlock", "exitUnlockStuff">>,
                               <<"exitEnable", "exitLoop">>}
    BY <1>3 DEF Unlock, SleepUnlock, ExitUnlock, ExitEnable
  <2>2. /\ UNCHANGED <<threadLists, state, currentTaskTCB>>
        /\ Goto(from, to) /\ pc[cur] = from
        /\ UNCHANGED taskSwitchesPostponedFlag
    BY <2>1
    DEF CallUnlock, scheduled, others, processVars, threadLists, Goto,
        unlockScheduler, postponement
  <2>3. cur = idleThread => from = "unlock"
    BY <2>2 DEF ListInv, IdleReady
  <2>4. state[cur] = "Running" \/ to \in Blocking
    BY <2>1, <2>2
    DEF ListInv, OnItsWay, Blocking, ExitPlace, SleepPlace, CleanPlace
  <2>5. to \in {"sleepUnlock", "sleepUnlockStuff"} => taskSwitchesPostponedFlag'
    BY <2>1, <2>2 DEF ListInv, OnItsWay
  <2> QED BY <2>1, <2>2, <2>3, <2>4, <2>5, Moves
          DEF CleanerPlace, CleanPlace, ExitPlace, SleepPlace
<1>4. CASE SleepTooLate \/ SleepChecked
  <2>1. PICK to \in {"run", "sleepLock"} :
          Goto("sleepCheck", to) /\ UNCHANGED <<scheduled, lockVars, others>>
    BY <1>4 DEF SleepTooLate, SleepChecked
  <2>2. UNCHANGED <<threadLists, state, currentTaskTCB>> /\ pc[cur] = "sleepCheck"
    BY <2>1 DEF scheduled, others, processVars, threadLists, Goto
  <2>3. cur # idleThread
    BY <2>2 DEF ListInv, IdleReady
  <2>4. state[cur] = "Running"
    BY <2>2 DEF ListInv, OnItsWay, ExitPlace, SleepPlace, CleanPlace
  <2> QED BY <2>1, <2>2, <2>3, <2>4, Moves
          DEF CleanerPlace, CleanPlace, ExitPlace, SleepPlace
<1>5. CASE ExitLoop
  <2>1. UNCHANGED <<threadLists, state, currentTaskTCB>> /\ pc[cur] = "exitLoop"
        /\ Goto("exitLoop", "exitSchedule")
    BY <1>5 DEF ExitLoop, scheduled, others, processVars, threadLists, Goto
  <2>2. cur # idleThread
    BY <2>1 DEF ListInv, IdleReady
  <2> QED BY <2>1, <2>2, Moves
          DEF CleanerPlace, CleanPlace, ExitPlace, SleepPlace, Blocking
<1>6. CASE WaitBlock
  <2>1. /\ Goto("waitBlock", "schedule") /\ pc[cur] = "waitBlock"
        /\ state' = [state EXCEPT ![cur] = "WaitPID"] /\ cur \in Thread
        /\ UNCHANGED <<threadLists, currentTaskTCB>>
    BY <1>6
    DEF WaitBlock, BlockTask, Goto, others, processVars, threadLists, TypeInv, TypeOK
  <2>2. cur # idleThread
    BY <2>1 DEF ListInv, IdleReady
  <2>3. Awaits(cur)'
    BY <2>1 DEF Awaits, TypeInv, TypeOK
  <2> QED BY <2>1, <2>2, <2>3, Blocks
          DEF CleanerPlace, CleanPlace, ExitPlace, SleepPlace, TaskState
<1>7. CASE SleepEnqueue
  <2>1. /\ Goto("sleepLock", "sleepBlock") /\ pc[cur] = "sleepLock" /\ cur \in Thread
        /\ pc'[cur] = "sleepBlock" /\ \A t \in Thread \ {cur} : pc'[t] = pc[t]
        /\ sleepingTaskList' = Append(sleepingTaskList, cur)
        /\ sleepingTaskList \in Seq(Thread)
        /\ UNCHANGED <<taskList, terminatedTaskList, threadUsage, state, currentTaskTCB>>
    BY <1>7
    DEF SleepEnqueue, Goto, scheduled, processVars, TypeInv, TypeOK
  <2>2. cur # idleThread
    BY <2>1 DEF ListInv, IdleReady
  <2>3. cur # cleanerThread
    BY <2>1 DEF ListInv, CleanerPlace, CleanPlace
  <2>4. state[cur] = "Running"
    BY <2>1 DEF ListInv, OnItsWay, ExitPlace, SleepPlace, CleanPlace
  <2>5. cur \notin Range(sleepingTaskList) /\ cur \notin Range(terminatedTaskList)
    BY <2>1
    DEF ListInv, SleepersSleep, TerminatedStay, SleepPlace, ExitPlace
  <2>6. /\ Range(sleepingTaskList') = Range(sleepingTaskList) \cup {cur}
        /\ IsInjective(sleepingTaskList')
    BY <2>1, <2>5, AppendFacts DEF ListInv, InOneList
  <2>7. /\ Range(sleepingTaskList) \subseteq Thread
        /\ Range(terminatedTaskList) \subseteq Thread
        /\ threadUsage \subseteq Thread
    BY DEF TypeInv, TypeOK, ListInv, InUse
  <2>8. InOneList' /\ InUse'
    BY <2>1, <2>5, <2>6 DEF ListInv, InOneList, InUse
  <2>9. SleepersSleep'
    BY <2>1, <2>2, <2>3, <2>5, <2>6, <2>7 DEF ListInv, SleepersSleep, SleepPlace
  <2>10. TerminatedStay'
    BY <2>1, <2>5, <2>7 DEF ListInv, TerminatedStay
  <2>11. IdleReady' /\ OnItsWay'
    BY <2>1, <2>2, <2>4, <2>6, ThreadsAssumption DEF ListInv, IdleReady, OnItsWay
  <2>12. NoThreadLost'
    BY <2>1, <2>6 DEF ListInv, NoThreadLost, Awaits
  <2>13. \A t \in Thread : pc'[t] \in CleanerPlace <=> t = cleanerThread
    BY <2>1, <2>3 DEF ListInv, CleanerPlace, CleanPlace
  <2> QED BY <2>8, <2>9, <2>10, <2>11, <2>12, <2>13 DEF ListInv
<1>8. CASE SleepBlock
  <2>1. /\ Goto("sleepBlock", "sleepSchedule") /\ pc[cur] = "sleepBlock"
        /\ state' = [state EXCEPT ![cur] = "Sleeping"] /\ cur \in Thread
        /\ UNCHANGED <<threadLists, currentTaskTCB>>
    BY <1>8
    DEF SleepBlock, Goto, others, processVars, threadLists, TypeInv, TypeOK
  <2>2. cur # idleThread
    BY <2>1 DEF ListInv, IdleReady
  <2>3. Awaits(cur)'
    BY <2>1 DEF Awaits, TypeInv, TypeOK, ListInv, OnItsWay, threadLists
  <2> QED BY <2>1, <2>2, <2>3, Blocks
          DEF CleanerPlace, CleanPlace, ExitPlace, SleepPlace, TaskState
<1> QED BY <1>1, <1>2, <1>3, <1>4, <1>5, <1>6, <1>7, <1>8 DEF Service

(* A new thread is queued. *)
LEMMA CreateThreadList ==
  ASSUME TypeInv, ListInv, NEW t \in UserThread, CreateThread(t),
         UNCHANGED <<currentTaskTCB, sleepingTaskList, terminatedTaskList,
                     taskSwitchesPostponedFlag>>
  PROVE  ListInv'
<1> DEFINE cur == currentTaskTCB
<1>1. /\ t \in Thread /\ t \notin threadUsage /\ t \notin BootThreads
      /\ threadUsage' = threadUsage \cup {t}
      /\ taskList' = Append(taskList, t) /\ taskList \in Seq(Thread)
      /\ state'[t] = "ReadyToRun" /\ pc'[t] = "unlock"
      /\ \A u \in Thread \ {t} : state'[u] = state[u] /\ pc'[u] = pc[u]
  BY DEF UserThread, BootThreads, CreateThread, TypeInv, TypeOK
<1>2. /\ t # cur /\ t \notin Range(taskList)
      /\ t \notin Range(sleepingTaskList) /\ t \notin Range(terminatedTaskList)
      /\ Range(sleepingTaskList) \subseteq Thread
      /\ Range(terminatedTaskList) \subseteq Thread
      /\ cur \in Thread /\ threadUsage \subseteq Thread
  BY <1>1 DEF ListInv, InUse, TypeInv, TypeOK
<1>3. Range(taskList') = Range(taskList) \cup {t} /\ IsInjective(taskList')
  BY <1>1, <1>2, AppendFacts DEF ListInv, InOneList
<1>4. InOneList' /\ InUse'
  BY <1>1, <1>2, <1>3 DEF ListInv, InOneList, InUse
<1>5. SleepersSleep'
  BY <1>1, <1>2 DEF ListInv, SleepersSleep
<1>6. TerminatedStay'
  BY <1>1, <1>2 DEF ListInv, TerminatedStay
<1>7. IdleReady'
  BY <1>1, <1>3, ThreadsAssumption DEF ListInv, IdleReady, BootThreads
<1>8. OnItsWay'
  BY <1>1, <1>2 DEF ListInv, OnItsWay, Awaits
<1>9. NoThreadLost'
  BY <1>1, <1>2, <1>3 DEF ListInv, NoThreadLost, Awaits
<1>10. \A u \in Thread : pc'[u] \in CleanerPlace <=> u = cleanerThread
  BY <1>1 DEF ListInv, CleanerPlace, CleanPlace, BootThreads
<1> QED BY <1>4, <1>5, <1>6, <1>7, <1>8, <1>9, <1>10 DEF ListInv

LEMMA RequestList == TypeInv /\ ListInv /\ Request => ListInv'
<1> SUFFICES ASSUME TypeInv, ListInv, Request PROVE ListInv'
  OBVIOUS
<1> USE ServicePlaces
<1> DEFINE cur == currentTaskTCB
<1>0. cur \in Thread /\ (pc[cur] = "run" => state[cur] = "Running")
  BY DEF TypeInv, TypeOK, ListInv, OnItsWay, ExitPlace, SleepPlace, CleanPlace
<1>1. CASE Yield
  <2>1. Goto("run", "schedule") /\ UNCHANGED <<threadLists, state, currentTaskTCB>>
    BY <1>1 DEF Yield, scheduled, others, processVars, threadLists
  <2> QED BY <2>1, Moves
          DEF CleanerPlace, CleanPlace, ExitPlace, SleepPlace, Blocking
<1>2. CASE MainPause \/ SysPause
  <2>1. PICK reason \in {"Paused", "PausedForSignal"} :
          /\ BlockTask(reason, "run")
          /\ reason = "Paused" => cur = mainThread
          /\ cur # idleThread
    BY <1>2, ThreadsAssumption DEF MainPause, SysPause, UserThread
  <2>2. /\ Goto("run", "schedule") /\ state' = [state EXCEPT ![cur] = reason]
        /\ UNCHANGED <<threadLists, currentTaskTCB>>
    BY <2>1 DEF BlockTask, others, processVars, threadLists
  <2>3. Awaits(cur)'
    BY <1>0, <2>1, <2>2 DEF Awaits, TypeInv, TypeOK
  <2>4. /\ reason \in TaskState \ {"Running", "ReadyToRun"} /\ reason # "Sleeping"
        /\ {"run", "schedule"} \cap (CleanerPlace \cup ExitPlace \cup SleepPlace) = {}
    BY DEF CleanerPlace, CleanPlace, ExitPlace, SleepPlace, TaskState
  <2> QED BY <2>1, <2>2, <2>3, <2>4, Blocks
<1>3. CASE SleepCall \/ WaitTask
  <2>1. PICK to \in {"sleepCheck", "waitBlock"} :
          Goto("run", to) /\ UNCHANGED <<threadLists, state, currentTaskTCB>>
    BY <1>3 DEF SleepCall, WaitTask, scheduled, processVars, threadLists
  <2>2. cur # idleThread /\ pc[cur] = "run"
    BY <1>3, ThreadsAssumption DEF SleepCall, WaitTask, UserThread, Goto
  <2> QED BY <1>0, <2>1, <2>2, Moves
          DEF CleanerPlace, CleanPlace, ExitPlace, SleepPlace, Blocking
<1>4. CASE PthreadCreate
  BY <1>4, CreateThreadList DEF PthreadCreate, lockVars
<1>5. CASE Spawn
  BY <1>5, CreateThreadList DEF Spawn, lockVars
<1>6. CASE Terminate
  <2>1. /\ cur \in UserThread /\ pc[cur] = "run" /\ pc'[cur] = "exitUnlock"
        /\ \A t \in Thread \ {cur} : pc'[t] = pc[t] /\ state'[t] = state[t]
        /\ state'[cur] = "Terminated"
        /\ terminatedTaskList' = Append(terminatedTaskList, cur)
        /\ terminatedTaskList \in Seq(Thread)
        /\ taskList' = unblockTask(cleanerThread)
        /\ UNCHANGED <<currentTaskTCB, sleepingTaskList, threadUsage>>
    BY <1>0, <1>6 DEF Terminate, Goto, processVars, TypeInv, TypeOK
  <2>2. /\ cleanerThread \in threadUsage /\ cleanerThread \in Thread
        /\ cur \notin BootThreads /\ idleThread \in Thread /\ cleanerThread # idleThread
        /\ cleanerThread # cur /\ mainThread # cleanerThread
    BY <2>1, ThreadsAssumption DEF ListInv, InUse, BootThreads, UserThread
  <2>3. /\ cleanerThread \notin Range(sleepingTaskList)
        /\ cleanerThread \notin Range(terminatedTaskList)
    BY DEF ListInv, SleepersSleep, TerminatedStay, UserThread
  <2>4. cur \notin Range(sleepingTaskList) /\ cur \notin Range(terminatedTaskList)
    BY <2>1
    DEF ListInv, SleepersSleep, TerminatedStay, SleepPlace, ExitPlace
  <2>5. /\ Range(terminatedTaskList') = Range(terminatedTaskList) \cup {cur}
        /\ IsInjective(terminatedTaskList')
    BY <1>0, <2>1, <2>4, AppendFacts DEF ListInv, InOneList
  <2>6. /\ Range(taskList') \subseteq Range(taskList) \cup {cleanerThread}
        /\ Range(taskList) \subseteq Range(taskList')
        /\ IsInjective(taskList')
    BY <2>1, <2>2, <2>3, Queued
  <2>7. /\ Range(sleepingTaskList) \subseteq Thread
        /\ Range(terminatedTaskList) \subseteq Thread
        /\ threadUsage \subseteq Thread
    BY DEF TypeInv, TypeOK, ListInv, InUse
  <2>8. InOneList'
    BY <2>1, <2>2, <2>3, <2>4, <2>5, <2>6 DEF ListInv, InOneList
  <2>9. InUse'
    BY <2>1, <2>2, <2>5, <2>6 DEF ListInv, InUse
  <2>10. SleepersSleep'
    BY <2>1, <2>4, <2>7 DEF ListInv, SleepersSleep
  <2>11. TerminatedStay'
    BY <2>1, <2>5, <2>7 DEF ListInv, TerminatedStay, ExitPlace
  <2>12. IdleReady'
    BY <2>1, <2>2, <2>6 DEF ListInv, IdleReady, BootThreads
  <2>13. OnItsWay'
    BY <2>1, <2>5 DEF OnItsWay, Awaits, ExitPlace
  <2>14. NoThreadLost'
    BY <2>1, <2>5, <2>6, <2>7 DEF ListInv, NoThreadLost, Awaits
  <2>15. \A t \in Thread : pc'[t] \in CleanerPlace <=> t = cleanerThread
    BY <2>1, <2>2 DEF ListInv, CleanerPlace, CleanPlace, BootThreads
  <2> QED BY <2>8, <2>9, <2>10, <2>11, <2>12, <2>13, <2>14, <2>15 DEF ListInv
<1> QED BY <1>1, <1>2, <1>3, <1>4, <1>5, <1>6 DEF Request

LEMMA CleanerList == TypeInv /\ ListInv /\ Cleaner => ListInv'
<1> SUFFICES ASSUME TypeInv, ListInv, Cleaner PROVE ListInv'
  OBVIOUS
<1> USE ServicePlaces
<1> DEFINE cur == currentTaskTCB
<1>0. /\ cur \in Thread /\ cleanerThread \in Thread /\ cleanerThread # idleThread
      /\ pc[cur] \in CleanerPlace => cur = cleanerThread
  BY ThreadsAssumption DEF TypeInv, TypeOK, ListInv
<1>1. CASE CleanerSchedule
  BY <1>1, CallScheduleList
  DEF CleanerSchedule, PlacePostpones, Blocking, SleepPlace, ExitPlace,
      CleanerPlace, CleanPlace
<1>2. CASE CleanerUnlockStuff
  BY <1>2, CallUnlockStuffList DEF CleanerUnlockStuff
<1>3. CASE \/ CleanerUnlock \/ CleanerEnable \/ CleanDone \/ CleanerDoesNotBlock
           \/ CleanerClear \/ CleanerLock \/ CleanWakeDone \/ CleanNoTerminal
           \/ CleanPanic \/ KePanic
  <2>1. PICK from \in CleanerPlace, to \in CleanerPlace :
          /\ Goto(from, to) /\ UNCHANGED <<threadLists, state, currentTaskTCB>>
          /\ UNCHANGED taskSwitchesPostponedFlag
          /\ from # "cleanerSchedule" /\ from # "cleanerUnlockStuff"
          /\ from \in CleanPlace => to \in CleanPlace
    BY <1>3
    DEF CleanerUnlock, CleanerEnable, CleanDone, CleanerDoesNotBlock, CleanerClear,
        CleanerLock, CleanWakeDone, CleanPanic, KePanic, CleanNoTerminal, CallUnlock,
        scheduled, others,
        processVars, lockVars, threadLists, unlockScheduler, enableIRQs, lockScheduler,
        disableIRQs, lockStuffAndScheduler, postponement, CleanerPlace, CleanPlace
  <2>2. /\ pc[cur] = from /\ from \in Place /\ to \in Place
        /\ from \notin ExitPlace /\ from \notin SleepPlace
        /\ to \notin ExitPlace /\ to \notin SleepPlace
    BY <2>1 DEF Goto, CleanerPlace, CleanPlace, ExitPlace, SleepPlace, Place
  <2>3. \/ state[cur] = "Running"
        \/ /\ to \in CleanPlace /\ taskSwitchesPostponedFlag'
           /\ state[cur] = "Terminated"
    BY <2>1, <2>2 DEF ListInv, OnItsWay, CleanerPlace, CleanPlace
  <2>4. to \notin {"sleepUnlock", "sleepUnlockStuff", "sleepBlock"}
    BY <2>2 DEF SleepPlace
  <2> QED BY <1>0, <2>1, <2>2, <2>3, <2>4, Moves
<1>4. CASE CleanerBlock
  <2>1. /\ Goto("cleanerTest", "cleanerSchedule") /\ pc[cur] = "cleanerTest"
        /\ state' = [state EXCEPT ![cleanerThread] = "Paused"]
        /\ UNCHANGED <<threadLists, currentTaskTCB>>
    BY <1>4 DEF CleanerBlock, Goto, others, processVars, threadLists
  <2>2. cur = cleanerThread
    BY <1>0, <2>1 DEF CleanerPlace
  <2>3. Awaits(cur)'
    BY <1>0, <2>1, <2>2 DEF Awaits, TypeInv, TypeOK
  <2> QED BY <1>0, <2>1, <2>2, <2>3, Blocks
          DEF CleanerPlace, CleanPlace, ExitPlace, SleepPlace, TaskState
<1>5. CASE CleanTask
  <2> DEFINE t == Head(terminatedTaskList)
  <2>1. /\ terminatedTaskList # << >> /\ terminatedTaskList \in Seq(Thread)
        /\ terminatedTaskList' = Tail(terminatedTaskList)
        /\ threadUsage' = threadUsage \ {t}
        /\ UNCHANGED <<currentTaskTCB, taskList, state, sleepingTaskList,
                       taskSwitchesPostponedFlag>>
        /\ pc[cur] = "clean"
    BY <1>5 DEF CleanTask, scheduled, lockVars, Goto, TypeInv, TypeOK
  <2>2. PICK to \in {"cleanWake", "clean"} : pc' = [pc EXCEPT ![cur] = to]
    BY <1>5 DEF CleanTask, Goto
  <2>3. cur = cleanerThread /\ pc'[cur] = to
        /\ \A u \in Thread \ {cur} : pc'[u] = pc[u]
    BY <1>0, <2>1, <2>2 DEF CleanerPlace, CleanPlace, TypeInv, TypeOK
  <2>4. /\ t \in Thread
        /\ Range(terminatedTaskList) = {t} \cup Range(terminatedTaskList')
        /\ IsInjective(terminatedTaskList') /\ t \notin Range(terminatedTaskList')
    BY <2>1, TailFacts DEF ListInv, InOneList
  <2>5. /\ t \in UserThread /\ t # cur
        /\ t \notin Range(taskList) /\ t \notin Range(sleepingTaskList)
        /\ t \notin BootThreads
    BY <2>3, <2>4 DEF ListInv, TerminatedStay, InOneList, UserThread, BootThreads
  <2>6. InOneList' /\ InUse'
    BY <2>1, <2>4, <2>5 DEF ListInv, InOneList, InUse
  <2>7. /\ Range(sleepingTaskList) \subseteq Thread
        /\ Range(terminatedTaskList) \subseteq Thread
        /\ threadUsage \subseteq Thread
    BY DEF TypeInv, TypeOK, ListInv, InUse
  <2>8. SleepersSleep'
    BY <1>0, <2>1, <2>3, <2>7 DEF ListInv, SleepersSleep
  <2>9. TerminatedStay'
    BY <2>1, <2>3, <2>4, <2>7 DEF ListInv, TerminatedStay, UserThread
  <2>10. IdleReady'
    BY <1>0, <2>1, <2>3, ThreadsAssumption DEF ListInv, IdleReady
  <2>11. OnItsWay'
    <3>1. \/ state[cur] = "Running"
          \/ state[cur] = "Terminated" /\ taskSwitchesPostponedFlag
      BY <2>1 DEF ListInv, OnItsWay, SleepPlace, ExitPlace
    <3>2. state[cur] = "Running" \/ Awaits(cur)'
      <4>1. state[cur] = "Running" \/ state[cur] \in {"WaitPID", "PausedForSignal"}
            \/ state[cur] \in {"Paused", "Terminated"}
            \/ (state[cur] = "Sleeping" /\ cur \in Range(sleepingTaskList))
        BY DEF ListInv, OnItsWay, Awaits
      <4> QED BY <2>1, <2>3, <4>1 DEF Awaits
    <3>3. to \in CleanPlace /\ to \notin {"sleepBlock", "sleepUnlock", "sleepUnlockStuff"}
      BY DEF CleanPlace
    <3> QED BY <2>1, <2>3, <3>1, <3>2, <3>3 DEF OnItsWay
  <2>12. NoThreadLost'
    BY <2>1, <2>4 DEF ListInv, NoThreadLost, Awaits
  <2>13. \A u \in Thread : pc'[u] \in CleanerPlace <=> u = cleanerThread
    BY <2>3 DEF ListInv, CleanerPlace, CleanPlace
  <2> QED BY <2>6, <2>8, <2>9, <2>10, <2>11, <2>12, <2>13 DEF ListInv
<1>6. CASE CleanWakeOne
  <2>1. PICK w \in WaitersFor(cleaning) : taskList' = unblockTask(w)
    BY <1>6 DEF CleanWakeOne
  <2>2. /\ UNCHANGED <<currentTaskTCB, state, sleepingTaskList, terminatedTaskList,
                       threadUsage, taskSwitchesPostponedFlag>>
        /\ pc' = [pc EXCEPT ![cur] = "cleanWake"] /\ pc[cur] = "cleanWake"
    BY <1>6 DEF CleanWakeOne, Goto, processVars, lockVars
  <2>3. pc' = pc
    BY <1>0, <2>2 DEF TypeInv, TypeOK
  <2>4. w \in threadUsage /\ w \in Thread /\ state[w] = "WaitPID" /\ w # cur
    <3>1. w \in threadUsage /\ state[w] = "WaitPID"
      BY <2>1 DEF WaitersFor
    <3>2. state[cur] # "WaitPID"
      BY <2>2 DEF ListInv, OnItsWay, SleepPlace, ExitPlace
    <3> QED BY <3>1, <3>2 DEF TypeInv, TypeOK
  <2>5. w \notin Range(sleepingTaskList) /\ w \notin Range(terminatedTaskList)
    BY <2>4 DEF ListInv, SleepersSleep, TerminatedStay
  <2>6. /\ Range(taskList') \subseteq Range(taskList) \cup {w}
        /\ Range(taskList) \subseteq Range(taskList')
        /\ IsInjective(taskList')
    BY <2>1, <2>4, <2>5, Queued
  <2>7. InOneList' /\ InUse'
    BY <2>2, <2>4, <2>5, <2>6 DEF ListInv, InOneList, InUse
  <2>8. SleepersSleep' /\ TerminatedStay'
    BY <2>2, <2>3 DEF ListInv, SleepersSleep, TerminatedStay
  <2>9. IdleReady'
    BY <2>2, <2>3, <2>6 DEF ListInv, IdleReady
  <2>10. OnItsWay'
    BY <2>2, <2>3 DEF ListInv, OnItsWay, Awaits
  <2>11. NoThreadLost'
    BY <2>2, <2>6 DEF ListInv, NoThreadLost, Awaits
  <2> QED BY <2>3, <2>7, <2>8, <2>9, <2>10, <2>11 DEF ListInv
<1>7. CASE CleanTerminal
  <2>1. /\ UNCHANGED <<threadLists, currentTaskTCB>>
        /\ \/ /\ state' = [state EXCEPT ![cleanerThread] = "Terminated"]
              /\ taskSwitchesPostponedFlag'
           \/ UNCHANGED <<state, taskSwitchesPostponedFlag>>
        /\ pc[cur] = "cleanTerminal" /\ pc' = [pc EXCEPT ![cur] = "clean"]
    BY <1>7 DEF CleanTerminal, Goto, threadLists
  <2>2. /\ cur = cleanerThread /\ pc'[cur] = "clean"
        /\ \A u \in Thread \ {cur} : pc'[u] = pc[u] /\ state'[u] = state[u]
        /\ \/ state'[cur] = state[cur] /\ UNCHANGED taskSwitchesPostponedFlag
           \/ state'[cur] = "Terminated" /\ taskSwitchesPostponedFlag'
    BY <1>0, <2>1 DEF CleanerPlace, CleanPlace, TypeInv, TypeOK
  <2>3. /\ cur \notin Range(sleepingTaskList) /\ cur \notin Range(terminatedTaskList)
        /\ Range(sleepingTaskList) \subseteq Thread
        /\ Range(terminatedTaskList) \subseteq Thread
        /\ threadUsage \subseteq Thread
    BY <2>2
    DEF ListInv, SleepersSleep, TerminatedStay, UserThread, InUse, TypeInv, TypeOK
  <2>4. InOneList' /\ InUse'
    BY <2>1 DEF ListInv, InOneList, InUse, threadLists
  <2>5. SleepersSleep' /\ TerminatedStay'
    BY <2>1, <2>2, <2>3 DEF ListInv, SleepersSleep, TerminatedStay, threadLists
  <2>6. IdleReady'
    BY <1>0, <2>1, <2>2, ThreadsAssumption DEF ListInv, IdleReady, threadLists
  <2>7. OnItsWay'
    <3>1. \/ state[cur] = "Running"
          \/ state[cur] = "Terminated" /\ taskSwitchesPostponedFlag
      BY <2>1 DEF ListInv, OnItsWay, SleepPlace, ExitPlace
    <3>2. state'[cur] = "Running" \/ Awaits(cur)'
      BY <2>1, <2>2 DEF ListInv, OnItsWay, Awaits, threadLists
    <3>3. \/ state'[cur] = "Running"
          \/ state'[cur] = "Terminated" /\ taskSwitchesPostponedFlag'
      BY <2>2, <3>1
    <3> QED BY <2>1, <2>2, <3>2, <3>3 DEF OnItsWay, CleanPlace
  <2>8. NoThreadLost'
    BY <2>1, <2>2, <2>3 DEF ListInv, NoThreadLost, Awaits, threadLists
  <2>9. \A u \in Thread : pc'[u] \in CleanerPlace <=> u = cleanerThread
    BY <2>2 DEF ListInv, CleanerPlace, CleanPlace
  <2> QED BY <2>4, <2>5, <2>6, <2>7, <2>8, <2>9 DEF ListInv
<1> QED BY <1>1, <1>2, <1>3, <1>4, <1>5, <1>6, <1>7 DEF Cleaner

LEMMA TimerList == TypeInv /\ ListInv /\ (Tick \/ Interrupt) => ListInv'
<1> SUFFICES ASSUME TypeInv, ListInv, Tick \/ Interrupt PROVE ListInv'
  OBVIOUS
<1> DEFINE cur == currentTaskTCB
<1>0. /\ cur \in Thread /\ threadUsage \subseteq Thread
      /\ sleepingTaskList \in Seq(Thread)
  BY DEF TypeInv, TypeOK
<1>1. CASE Tick \/ Preempt \/ IsrUnlock
  <2>1. UNCHANGED <<threadLists, state, currentTaskTCB, pc, taskSwitchesPostponedFlag>>
    BY <1>1
    DEF Tick, Preempt, IsrUnlock, scheduled, others, processVars, lockVars,
        threadLists, lockScheduler, unlockScheduler, postponement
  <2>2. InOneList' /\ InUse' /\ NoThreadLost' /\ SleepersSleep' /\ TerminatedStay'
    BY <2>1
    DEF ListInv, InOneList, InUse, NoThreadLost, SleepersSleep, TerminatedStay,
        Awaits, threadLists
  <2>3. IdleReady' /\ OnItsWay'
    BY <2>1 DEF ListInv, IdleReady, OnItsWay, Awaits, threadLists
  <2> QED BY <2>1, <2>2, <2>3 DEF ListInv
<1>2. CASE IsrSchedule
  <2>1. isr[cur] # "none" /\ PlaceDepth(pc[cur]) = 0
    BY <1>0, <1>2 DEF IsrSchedule, TypeInv, LocksMatch
  <2>2. postponeTaskSwitchesCounter = 0 /\ pc[cur] # "sleepBlock"
    BY <2>1 DEF TypeInv, LocksMatch, PlaceDepth, PlacePostpones
  <2>3. SelectTask /\ UNCHANGED <<sleepingTaskList, terminatedTaskList, threadUsage, pc>>
    BY <1>2, <2>2 DEF IsrSchedule, schedule, others, processVars
  <2>4. pc[cur] \in Place /\ pc' = [pc EXCEPT ![cur] = pc[cur]]
    BY <1>0, <2>3 DEF TypeInv, TypeOK
  <2>5. cur = idleThread => pc[cur] \in {"run", "schedule", "unlock"}
    BY DEF ListInv, IdleReady
  <2> QED BY <2>2, <2>3, <2>4, <2>5, Switches
<1>3. CASE WakeOrRotate
  <2> DEFINE curr == Head(sleepingTaskList)
             rest == Tail(sleepingTaskList)
  <2>1. isr[cur] = "wake" /\ sleepingTaskList # << >>
    BY <1>0, <1>3 DEF TypeInv, WakeInv, WakeOrRotate
  <2>2. /\ curr \in Thread /\ rest \in Seq(Thread)
        /\ Range(sleepingTaskList) = {curr} \cup Range(rest)
        /\ IsInjective(rest) /\ curr \notin Range(rest)
    BY <1>0, <2>1, TailFacts DEF ListInv, InOneList
  <2>3. /\ UNCHANGED <<currentTaskTCB, state, pc, terminatedTaskList, threadUsage,
                       taskSwitchesPostponedFlag>>
        /\ \/ sleepingTaskList' = rest /\ taskList' = unblockTask(curr)
           \/ sleepingTaskList' = Append(rest, curr) /\ taskList' = taskList
    BY <1>3 DEF WakeOrRotate, processVars, lockVars
  <2>4. PlaceDepth(pc[cur]) = 0 /\ cur \notin Range(sleepingTaskList)
    <3>1. PlaceDepth(pc[cur]) = 0
      BY <1>0, <2>1 DEF TypeInv, LocksMatch
    <3>2. pc[cur] \notin SleepPlace
      BY <3>1 DEF PlaceDepth, SleepPlace
    <3> QED BY <3>1, <3>2 DEF ListInv, SleepersSleep
  <2>5. state[curr] = "Sleeping" /\ curr # cur
    BY <2>2, <2>4 DEF ListInv, SleepersSleep
  <2>6. curr \notin Range(taskList) /\ curr \notin Range(terminatedTaskList)
        /\ curr \in threadUsage
    BY <2>2 DEF ListInv, InOneList, InUse
  <2>7. pc[cur] \notin {"sleepBlock"}
    BY <2>4 DEF PlaceDepth
  <2>8. CASE sleepingTaskList' = rest /\ taskList' = unblockTask(curr)
    <3>1. taskList' = Append(taskList, curr)
      BY <2>5, <2>6, <2>8 DEF unblockTask, CanUnblock
    <3>2. Range(taskList') = Range(taskList) \cup {curr} /\ IsInjective(taskList')
      BY <2>2, <2>6, <3>1, AppendFacts DEF ListInv, InOneList, TypeInv, TypeOK
    <3>3. InOneList' /\ InUse'
      BY <2>2, <2>3, <2>5, <2>6, <2>8, <3>2 DEF ListInv, InOneList, InUse
    <3>4. SleepersSleep' /\ TerminatedStay'
      BY <2>2, <2>3, <2>8 DEF ListInv, SleepersSleep, TerminatedStay
    <3>5. IdleReady'
      BY <2>3, <3>2 DEF ListInv, IdleReady
    <3>6. OnItsWay'
      BY <2>2, <2>3, <2>4, <2>7, <2>8 DEF ListInv, OnItsWay, Awaits
    <3>7. NoThreadLost'
      BY <2>2, <2>3, <2>8, <3>2 DEF ListInv, NoThreadLost, Awaits
    <3> QED BY <2>3, <3>3, <3>4, <3>5, <3>6, <3>7 DEF ListInv
  <2>9. CASE sleepingTaskList' = Append(rest, curr) /\ taskList' = taskList
    <3>1. /\ Range(sleepingTaskList') = Range(sleepingTaskList)
          /\ IsInjective(sleepingTaskList')
      <4>1. /\ Range(Append(rest, curr)) = Range(rest) \cup {curr}
            /\ IsInjective(Append(rest, curr))
        <5>1. curr \in Thread /\ rest \in Seq(Thread)
              /\ IsInjective(rest) /\ curr \notin Range(rest)
          BY <2>2
        <5> HIDE DEF curr, rest
        <5> QED BY <5>1, AppendFacts
      <4> QED BY <2>2, <2>9, <4>1
    <3>2. InOneList' /\ InUse'
      BY <2>3, <2>9, <3>1 DEF ListInv, InOneList, InUse
    <3>3. SleepersSleep' /\ TerminatedStay'
      BY <2>3, <3>1 DEF ListInv, SleepersSleep, TerminatedStay
    <3>4. IdleReady' /\ OnItsWay' /\ NoThreadLost'
      BY <2>3, <2>9, <3>1 DEF ListInv, IdleReady, OnItsWay, NoThreadLost, Awaits
    <3> QED BY <2>3, <3>2, <3>3, <3>4 DEF ListInv
  <2> QED BY <2>3, <2>8, <2>9
<1> QED BY <1>1, <1>2, <1>3 DEF Interrupt

LEMMA NextListInv == TypeInv /\ ListInv /\ [Next]_vars => ListInv'
<1> SUFFICES ASSUME TypeInv, ListInv, [Next]_vars PROVE ListInv'
  OBVIOUS
<1>1. CASE UNCHANGED vars
  <2>1. UNCHANGED <<threadLists, state, currentTaskTCB, pc, taskSwitchesPostponedFlag>>
    BY <1>1 DEF vars, threadVars, processVars, lockVars, listVars, threadLists
  <2> QED BY <2>1
          DEF ListInv, InOneList, InUse, NoThreadLost, SleepersSleep, IdleReady,
              TerminatedStay, OnItsWay, Awaits, threadLists
<1> QED BY <1>1, RequestList, ServiceList, CleanerList, TimerList DEF Next

(* Both invariants together are inductive: creating a thread keeps the     *)
(* locks right only because the running thread's slot is taken, and the    *)
(* lists stay apart only because schedule() is called with the locks that  *)
(* LocksMatch says.                                                        *)
THEOREM Invariance == Spec => [](TypeInv /\ ListInv)
<1>1. Init => TypeInv /\ ListInv
  BY InitTypeInv, InitListInv
<1>2. TypeInv /\ ListInv /\ [Next]_vars => (TypeInv /\ ListInv)'
  <2>1. ListInv => currentTaskTCB \in threadUsage
    BY DEF ListInv, InUse
  <2> QED BY <2>1, NextTypeInv, NextListInv
<1> QED BY <1>1, <1>2, PTL DEF Spec

(* Every variable of the scheduler keeps its type. *)
THEOREM TypeCorrect == Spec => []TypeOK
BY Invariance, PTL DEF TypeInv

(* The interrupt lock and the postponement counter are what the running    *)
(* thread and every thread switched away from count on (prcssthr.hpp:159-  *)
(* 213), for any number of threads, any quantum and any sleeping times.    *)
THEOREM LocksAlwaysMatch == Spec => []LocksMatch
BY Invariance, PTL DEF TypeInv

(* No thread is ever in two of the lists that share its next pointer, nor  *)
(* twice in one (linkedlist.hpp:37-39).                                    *)
THEOREM ListsStayApart == Spec => []InOneList
<1>1. ListInv => InOneList
  BY DEF ListInv
<1> QED BY <1>1, Invariance, PTL

(* No thread drops out of the scheduler: one that does not run is queued,  *)
(* asleep in the sleepers' list, or waits for something (prcssthr.cpp).    *)
THEOREM ThreadsAreNotLost == Spec => []NoThreadLost
<1>1. ListInv => NoThreadLost
  BY DEF ListInv
<1> QED BY <1>1, Invariance, PTL

(* A blocked thread does not go on executing: with interrupts on, the      *)
(* current thread is Running or on its way out.                            *)
THEOREM BlockedThreadsStop == Spec => []RunningWhenOn
<1>1. TypeInv /\ ListInv => RunningWhenOn
  <2> SUFFICES ASSUME TypeInv, ListInv PROVE RunningWhenOn
    OBVIOUS
  <2>1. currentTaskTCB \in threadUsage
    BY DEF ListInv, InUse
  <2>2. ASSUME interruptsOn, state[currentTaskTCB] # "Running"
        PROVE  pc[currentTaskTCB] = "exitLoop"
    <3>1. irqDisableCounter = 0
      BY <2>2 DEF TypeInv, LocksMatch
    <3>2. PlaceDepth(pc[currentTaskTCB]) = 0
      BY <3>1, DepthFacts
    <3> QED BY <2>2, <3>2
            DEF ListInv, OnItsWay, SleepPlace, ExitPlace, CleanPlace, PlaceDepth
  <2> QED BY <2>1, <2>2 DEF RunningWhenOn
<1> QED BY <1>1, Invariance, PTL

-----------------------------------------------------------------------------
(* The slice of the current thread is empty only between the tick that ends  *)
(* it and the call of schedule() in the same interrupt.                     *)
SliceInv ==
  currentTaskTCB # idleThread =>
    timeSliceRemaining[currentTaskTCB] # 0 \/ isr[currentTaskTCB] = "schedule"

(* A thread that a switch starts has a slice.  There is always a thread to  *)
(* switch to, so the current one does not go on with what is left of its    *)
(* own.                                                                     *)
LEMMA SelectGivesSlice ==
  ASSUME TypeInv, ListInv, SelectTask
  PROVE  currentTaskTCB' # idleThread => timeSliceRemaining'[currentTaskTCB'] # 0
<1>1. CASE taskList = << >> /\ UNCHANGED <<currentTaskTCB, taskList, state, timeSliceRemaining>>
  <2>1. Range(taskList) = {}
    BY <1>1 DEF Range
  <2> QED BY <1>1, <2>1 DEF ListInv, IdleReady
<1>2. ASSUME NEW queue \in Seq(Thread), NEW st, queue # << >>, SwitchTo(queue, st)
      PROVE  currentTaskTCB' # idleThread => timeSliceRemaining'[currentTaskTCB'] # 0
  <2> DEFINE t == Head(queue)
  <2>1. t \in Thread
    BY <1>2, TailFacts
  <2>2. /\ currentTaskTCB' = t
        /\ timeSliceRemaining' = [timeSliceRemaining EXCEPT ![t] = SliceOnSwitch(t)]
    BY <1>2 DEF SwitchTo
  <2>3. timeSliceRemaining \in [Thread -> 0 .. MaxSlice + 1]
    BY DEF TypeInv, TypeOK
  <2>4. timeSliceRemaining'[t] = SliceOnSwitch(t)
    BY <2>1, <2>2, <2>3
  <2>5. t # idleThread => SliceOnSwitch(t) # 0
    <3>1. timeSliceRemaining[t] \in Nat
      BY <2>1, <2>3, TimesAssumption
    <3> HIDE DEF t
    <3> QED BY <3>1, TimesAssumption DEF SliceOnSwitch
  <2> QED BY <2>2, <2>4, <2>5
<1>3. taskList \in Seq(Thread) /\ currentTaskTCB \in Thread
  BY DEF TypeInv, TypeOK
<1>4. /\ Append(taskList, currentTaskTCB) \in Seq(Thread)
      /\ Append(taskList, currentTaskTCB) # << >>
  <2> DEFINE q == Append(taskList, currentTaskTCB)
  <2>1. q \in Seq(Thread) /\ Len(q) = Len(taskList) + 1 /\ Len(taskList) \in Nat
    BY <1>3
  <2>2. Len(q) # 0
    <3> HIDE DEF q
    <3> QED BY <2>1
  <2> QED BY <2>1, <2>2
<1> QED BY <1>1, <1>2, <1>3, <1>4 DEF SelectTask

LEMMA SliceStays ==
  ASSUME SliceInv, UNCHANGED <<currentTaskTCB, timeSliceRemaining>>,
         isr' = isr \/ isr[currentTaskTCB] # "schedule"
  PROVE  SliceInv'
BY DEF SliceInv

LEMMA ScheduleSlice ==
  ASSUME TypeInv, ListInv, SliceInv, schedule,
         isr' = isr \/ postponeTaskSwitchesCounter = 0
  PROVE  SliceInv'
<1>1. CASE SelectTask
  BY <1>1, SelectGivesSlice DEF SliceInv
<1>2. CASE /\ postponeTaskSwitchesCounter # 0
           /\ UNCHANGED <<currentTaskTCB, taskList, state, timeSliceRemaining>>
  BY <1>2, SliceStays
<1> QED BY <1>1, <1>2 DEF schedule

LEMMA UnlockStuffSlice ==
  ASSUME TypeInv, ListInv, SliceInv, unlockStuffBody, isr' = isr
  PROVE  SliceInv'
<1>1. CASE SelectTask
  BY <1>1, SelectGivesSlice DEF SliceInv
<1>2. CASE UNCHANGED <<currentTaskTCB, timeSliceRemaining>>
  BY <1>2, SliceStays
<1> QED BY <1>1, <1>2 DEF unlockStuffBody

LEMMA InterruptSlice ==
  ASSUME TypeInv, ListInv, SliceInv, Tick \/ Interrupt
  PROVE  SliceInv'
<1> DEFINE cur == currentTaskTCB
<1>0. /\ cur \in Thread
      /\ timeSliceRemaining \in [Thread -> 0 .. MaxSlice + 1]
      /\ isr \in [Thread -> {"none", "wake", "slice", "schedule", "unlock"}]
  BY DEF TypeInv, TypeOK
<1>1. CASE Tick \/ WakeOrRotate \/ IsrUnlock
  <2>1. UNCHANGED <<currentTaskTCB, timeSliceRemaining>> /\ isr[cur] # "schedule"
    BY <1>1 DEF Tick, WakeOrRotate, IsrUnlock, scheduled
  <2> QED BY <2>1, SliceStays
<1>2. CASE Preempt
  <2> DEFINE left == timeSliceRemaining[cur]
             slice == IF left > MaxSlice THEN 1 ELSE left
  <2>1. isr[cur] = "slice" /\ currentTaskTCB' = cur
    BY <1>2 DEF Preempt
  <2>2. CASE UNCHANGED timeSliceRemaining
    BY <2>1, <2>2, SliceStays
  <2>3. CASE /\ isr' = [isr EXCEPT ![cur] = IF slice <= 1 THEN "schedule" ELSE "unlock"]
             /\ timeSliceRemaining' = [timeSliceRemaining EXCEPT ![cur] = slice - 1]
    <3>1. slice \in Nat
      BY <1>0, TimesAssumption
    <3>2. /\ isr'[cur] = IF slice <= 1 THEN "schedule" ELSE "unlock"
          /\ timeSliceRemaining'[cur] = slice - 1
      BY <1>0, <2>3
    <3>3. isr'[cur] = "schedule" \/ timeSliceRemaining'[cur] # 0
      <4> HIDE DEF slice
      <4> QED BY <3>1, <3>2
    <3> QED BY <2>1, <3>3 DEF SliceInv
  <2> QED BY <1>2, <2>2, <2>3 DEF Preempt
<1>3. CASE IsrSchedule
  <2>1. PlaceDepth(pc[cur]) = 0
    BY <1>0, <1>3 DEF IsrSchedule, TypeInv, LocksMatch
  <2>2. postponeTaskSwitchesCounter = 0
    BY <2>1 DEF TypeInv, LocksMatch, PlaceDepth, PlacePostpones
  <2> QED BY <1>3, <2>2, ScheduleSlice DEF IsrSchedule
<1> QED BY <1>1, <1>2, <1>3 DEF Interrupt

LEMMA CreateSlice ==
  ASSUME TypeInv, ListInv, SliceInv, NEW t \in UserThread, CreateThread(t),
         UNCHANGED currentTaskTCB
  PROVE  SliceInv'
<1>1. currentTaskTCB \in threadUsage /\ t \notin threadUsage
  BY DEF ListInv, InUse, CreateThread
<1>2. /\ timeSliceRemaining'[currentTaskTCB] = timeSliceRemaining[currentTaskTCB]
      /\ isr'[currentTaskTCB] = isr[currentTaskTCB]
  BY <1>1 DEF CreateThread, TypeInv, TypeOK
<1> QED BY <1>2 DEF SliceInv

LEMMA NextSliceInv == TypeInv /\ ListInv /\ SliceInv /\ [Next]_vars => SliceInv'
<1> SUFFICES ASSUME TypeInv, ListInv, SliceInv, [Next]_vars PROVE SliceInv'
  OBVIOUS
<1>1. CASE UNCHANGED vars
  BY <1>1, SliceStays DEF vars, threadVars
<1>2. CASE Request
  <2>1. CASE Yield \/ MainPause \/ SysPause \/ SleepCall \/ WaitTask \/ Terminate
    BY <2>1, SliceStays
    DEF Yield, MainPause, SysPause, SleepCall, WaitTask, Terminate, BlockTask, Goto, scheduled
  <2>2. CASE PthreadCreate
    BY <2>2, CreateSlice DEF PthreadCreate
  <2>3. CASE Spawn
    BY <2>3, CreateSlice DEF Spawn
  <2> QED BY <1>2, <2>1, <2>2, <2>3 DEF Request
<1>3. CASE Service
  <2>1. CASE Schedule \/ SleepSchedule \/ ExitSchedule
    BY <2>1, ScheduleSlice DEF Schedule, SleepSchedule, ExitSchedule, CallSchedule, Goto
  <2>2. CASE SleepUnlockStuff \/ ExitUnlockStuff
    BY <2>2, UnlockStuffSlice DEF SleepUnlockStuff, ExitUnlockStuff, CallUnlockStuff, Goto
  <2>3. CASE Unlock \/ SleepUnlock \/ ExitUnlock \/ ExitEnable
    BY <2>3, SliceStays
    DEF Unlock, SleepUnlock, ExitUnlock, ExitEnable, CallUnlock, Goto, scheduled
  <2>4. CASE SleepTooLate \/ SleepChecked \/ SleepEnqueue \/ SleepBlock \/ WaitBlock \/ ExitLoop
    BY <2>4, SliceStays
    DEF SleepTooLate, SleepChecked, SleepEnqueue, SleepBlock, WaitBlock, BlockTask, ExitLoop,
        Goto, scheduled
  <2> QED BY <1>3, <2>1, <2>2, <2>3, <2>4 DEF Service
<1>4. CASE Cleaner
  <2>1. CASE CleanerSchedule
    BY <2>1, ScheduleSlice DEF CleanerSchedule, CallSchedule, Goto
  <2>2. CASE CleanerUnlockStuff
    BY <2>2, UnlockStuffSlice DEF CleanerUnlockStuff, CallUnlockStuff, Goto
  <2>3. CASE CleanerUnlock \/ CleanDone \/ CleanerEnable
    BY <2>3, SliceStays DEF CleanerUnlock, CleanDone, CleanerEnable, CallUnlock, Goto, scheduled
  <2>4. CASE \/ CleanerBlock \/ CleanerDoesNotBlock \/ CleanerClear \/ CleanerLock
             \/ CleanTask \/ CleanWakeOne \/ CleanWakeDone \/ CleanNoTerminal \/ CleanTerminal
             \/ CleanPanic \/ KePanic
    BY <2>4, SliceStays
    DEF CleanerBlock, CleanerDoesNotBlock, CleanerClear, CleanerLock, CleanTask, CleanWakeOne,
        CleanWakeDone, CleanPanic, KePanic, CleanNoTerminal, CleanTerminal, Goto, scheduled
  <2> QED BY <1>4, <2>1, <2>2, <2>3, <2>4 DEF Cleaner
<1>5. CASE Tick \/ Interrupt
  BY <1>5, InterruptSlice
<1> QED BY <1>1, <1>2, <1>3, <1>4, <1>5 DEF Next

(* No thread but the idle one executes with an empty slice, with which the  *)
(* timer would never preempt it (timer.cpp:98), whatever the quantum and    *)
(* wherever slices are mended.                                              *)
THEOREM SlicesLast == Spec => []SliceLeft
<1>1. Init => SliceInv
  BY TimesAssumption, ThreadsAssumption DEF Init, SliceInv
<1>2. TypeInv /\ SliceInv => SliceLeft
  <2> SUFFICES ASSUME TypeInv, SliceInv, interruptsOn PROVE isr[currentTaskTCB] # "schedule"
    BY DEF SliceInv, SliceLeft
  <2> QED BY DepthFacts DEF TypeInv, LocksMatch
<1> QED BY <1>1, <1>2, NextSliceInv, Invariance, PTL DEF Spec

=============================================================================
