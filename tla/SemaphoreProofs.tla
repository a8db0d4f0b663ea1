---------------------------- MODULE SemaphoreProofs ----------------------------
(***************************************************************************)
(* The semaphore never breaks a list, and counts permits as module          *)
(* CountingSemaphore says, for any number of threads and permits.           *)
(***************************************************************************)
EXTENDS SemaphoreLists

(* The heap chains the threads of r, s and w, which have none in common: the *)
(* run queue, the sleepers, and those who wait from first on.                *)
Queues(h, first, r, s, w) ==
  /\ h \in Heap(ListName) /\ ~h.panic
  /\ IsList(h, "taskList", r)
  /\ IsList(h, "sleepingTaskList", s)
  /\ IsChain(h.next, first, w)
  /\ Range(r) \cap Range(s) = {} /\ Range(r) \cap Range(w) = {} /\ Range(s) \cap Range(w) = {}

Queued(r, s, w) == Range(r) \cup Range(s) \cup Range(w)

LEMMA QueueTypes ==
  ASSUME NEW h, NEW first, NEW r, NEW s, NEW w, Queues(h, first, r, s, w)
  PROVE  /\ r \in Seq(AllThreads) /\ IsInjective(r) /\ Range(r) \subseteq AllThreads
         /\ s \in Seq(AllThreads) /\ IsInjective(s) /\ Range(s) \subseteq AllThreads
         /\ w \in Seq(AllThreads) /\ IsInjective(w) /\ Range(w) \subseteq AllThreads
BY DEF Queues, IsList, IsChain, Range

(* addElement on the run queue disturbs no other queue. *)
LEMMA AddReady ==
  ASSUME NEW h, NEW first, NEW r, NEW s, NEW w, Queues(h, first, r, s, w),
         NEW t \in AllThreads \ Queued(r, s, w)
  PROVE  /\ Queues(addElement(h, "taskList", t), first, Append(r, t), s, w)
         /\ Range(Append(r, t)) = Range(r) \cup {t}
<1> DEFINE new == addElement(h, "taskList", t)
<1>1. t \in AllThreads \ Range(r) /\ t \notin Range(s) /\ t \notin Range(w)
  BY DEF Queued
<1>2. /\ new \in Heap(ListName) /\ ~new.panic /\ IsList(new, "taskList", Append(r, t))
      /\ new.lists["sleepingTaskList"] = h.lists["sleepingTaskList"]
      /\ \A u \in AllThreads \ (Range(r) \cup {t}) : new.next[u] = h.next[u]
  BY <1>1, AddToList DEF Queues, ListName
<1>3. Range(Append(r, t)) = Range(r) \cup {t}
  BY <1>1, QueueTypes, AppendFresh
<1> HIDE DEF new
<1>4. IsList(new, "sleepingTaskList", s)
  BY <1>1, <1>2, QueueTypes, ListStays DEF Queues
<1>5. IsChain(new.next, first, w)
  BY <1>1, <1>2, QueueTypes, ChainStays DEF Queues
<1> QED BY <1>1, <1>2, <1>3, <1>4, <1>5 DEF Queues, new

(* addElement on the sleepers disturbs no other queue. *)
LEMMA AddSleeper ==
  ASSUME NEW h, NEW first, NEW r, NEW s, NEW w, Queues(h, first, r, s, w),
         NEW t \in AllThreads \ Queued(r, s, w)
  PROVE  /\ Queues(addElement(h, "sleepingTaskList", t), first, r, Append(s, t), w)
         /\ Range(Append(s, t)) = Range(s) \cup {t}
<1> DEFINE new == addElement(h, "sleepingTaskList", t)
<1>1. t \in AllThreads \ Range(s) /\ t \notin Range(r) /\ t \notin Range(w)
  BY DEF Queued
<1>2. /\ new \in Heap(ListName) /\ ~new.panic /\ IsList(new, "sleepingTaskList", Append(s, t))
      /\ new.lists["taskList"] = h.lists["taskList"]
      /\ \A u \in AllThreads \ (Range(s) \cup {t}) : new.next[u] = h.next[u]
  BY <1>1, AddToList DEF Queues, ListName
<1>3. Range(Append(s, t)) = Range(s) \cup {t}
  BY <1>1, QueueTypes, AppendFresh
<1> HIDE DEF new
<1>4. IsList(new, "taskList", r)
  BY <1>1, <1>2, QueueTypes, ListStays DEF Queues
<1>5. IsChain(new.next, first, w)
  BY <1>1, <1>2, QueueTypes, ChainStays DEF Queues
<1> QED BY <1>1, <1>2, <1>3, <1>4, <1>5 DEF Queues, new

(* removeFirst on the run queue. *)
LEMMA RemoveReady ==
  ASSUME NEW h, NEW first, NEW r, NEW s, NEW w, Queues(h, first, r, s, w), r # << >>
  PROVE  /\ Queues(removeFirst(h, "taskList"), first, Tail(r), s, w)
         /\ Range(Tail(r)) = Range(r) \ {r[1]} /\ r[1] \in Range(r) /\ r[1] \in AllThreads
         /\ h.lists["taskList"].first = r[1] /\ ~isEmpty(h, "taskList")
<1> DEFINE new == removeFirst(h, "taskList")
<1>1. /\ new \in Heap(ListName) /\ ~new.panic /\ IsList(new, "taskList", Tail(r))
      /\ new.lists["sleepingTaskList"] = h.lists["sleepingTaskList"]
      /\ new.next = h.next
  BY RemoveFromList DEF Queues, ListName
<1>2. Range(Tail(r)) = Range(r) \ {r[1]} /\ r[1] \in Range(r)
  BY QueueTypes, TailOfChain
<1>3. h.lists["taskList"].first = r[1] /\ ~isEmpty(h, "taskList") /\ r[1] \in AllThreads
  BY EndsOfList DEF Queues, ListName
<1> HIDE DEF new
<1>4. IsList(new, "sleepingTaskList", s)
  BY <1>1, ListStays DEF Queues
<1> QED BY <1>1, <1>2, <1>3, <1>4 DEF Queues, new

(* removeFirst on the sleepers. *)
LEMMA RemoveSleeper ==
  ASSUME NEW h, NEW first, NEW r, NEW s, NEW w, Queues(h, first, r, s, w), s # << >>
  PROVE  /\ Queues(removeFirst(h, "sleepingTaskList"), first, r, Tail(s), w)
         /\ Range(Tail(s)) = Range(s) \ {s[1]} /\ s[1] \in Range(s) /\ s[1] \in AllThreads
         /\ h.lists["sleepingTaskList"].first = s[1]
<1> DEFINE new == removeFirst(h, "sleepingTaskList")
<1>1. /\ new \in Heap(ListName) /\ ~new.panic /\ IsList(new, "sleepingTaskList", Tail(s))
      /\ new.lists["taskList"] = h.lists["taskList"]
      /\ new.next = h.next
  BY RemoveFromList DEF Queues, ListName
<1>2. Range(Tail(s)) = Range(s) \ {s[1]} /\ s[1] \in Range(s)
  BY QueueTypes, TailOfChain
<1>3. h.lists["sleepingTaskList"].first = s[1] /\ s[1] \in AllThreads
  BY EndsOfList DEF Queues, ListName
<1> HIDE DEF new
<1>4. IsList(new, "taskList", r)
  BY <1>1, ListStays DEF Queues
<1> QED BY <1>1, <1>2, <1>3, <1>4 DEF Queues, new

(* release() moves firstWaitingTask on to the next one. *)
LEMMA RemoveWaiter ==
  ASSUME NEW h, NEW first, NEW r, NEW s, NEW w, Queues(h, first, r, s, w), w # << >>
  PROVE  /\ Queues(h, h.next[first], r, s, Tail(w))
         /\ Range(Tail(w)) = Range(w) \ {first} /\ first = w[1]
         /\ first \in Range(w) /\ first \in AllThreads /\ first # Null
<1>1. IsChain(h.next, h.next[first], Tail(w)) /\ first = w[1]
  BY ChainTail DEF Queues
<1>2. /\ Range(Tail(w)) = Range(w) \ {w[1]}
      /\ w[1] \in Range(w) /\ w[1] \in AllThreads
  BY QueueTypes, TailOfChain
<1> QED BY <1>1, <1>2, ThreadFacts DEF Queues

(* What acquire() does to the pointers puts a thread at the end of the waiting ones. *)
LEMMA AddWaiter ==
  ASSUME NEW h, NEW first, NEW r, NEW s, NEW w, Queues(h, first, r, s, w),
         NEW t \in AllThreads \ Queued(r, s, w),
         NEW new \in [AllThreads -> AllThreads \cup {Null}],
         new[t] = Null,
         \A u \in AllThreads \ {t} :
           new[u] = IF w # << >> /\ u = w[Len(w)] THEN t ELSE h.next[u]
  PROVE  /\ Queues([h EXCEPT !.next = new], IF first = Null THEN t ELSE first, r, s, Append(w, t))
         /\ Range(Append(w, t)) = Range(w) \cup {t}
<1>1. t \in AllThreads \ Range(w) /\ t \notin Range(r) /\ t \notin Range(s)
  BY DEF Queued
<1>2. /\ h.next \in [AllThreads -> AllThreads \cup {Null}] /\ Null \notin AllThreads
      /\ h = [next |-> h.next, lists |-> h.lists, panic |-> h.panic]
  BY ThreadFacts DEF Queues, Heap
<1>3. /\ w \in Seq(AllThreads)
      /\ first = Null <=> w = << >>
  <2>1. w \in Seq(AllThreads) /\ first = Nth(w, 1)
    BY DEF Queues, IsChain
  <2>2. w # << >> => 1 \in 1 .. Len(w) /\ w[1] \in AllThreads
    BY <2>1
  <2> QED BY <1>2, <2>1, <2>2 DEF Nth
<1>5. /\ IsChain(new, IF w = << >> THEN t ELSE first, Append(w, t))
      /\ \A u \in AllThreads \ (Range(w) \cup {t}) : new[u] = h.next[u]
  <2>1. IsChain(h.next, first, w)
    BY DEF Queues
  <2> QED BY <1>1, <1>2, <2>1, ChainAppend
<1> DEFINE heap1 == [h EXCEPT !.next = new]
<1>6. heap1.next = new /\ heap1.lists = h.lists /\ heap1.panic = h.panic
  BY <1>2
<1>7. heap1 \in Heap(ListName)
  BY DEF Queues, Heap
<1> HIDE DEF heap1
<1>8. IsList(heap1, "taskList", r) /\ IsList(heap1, "sleepingTaskList", s)
  <2>1. \A u \in Range(r) \cup Range(s) : heap1.next[u] = h.next[u]
    BY <1>1, <1>5, <1>6, QueueTypes DEF Queues
  <2>2. IsList(h, "taskList", r) /\ IsList(h, "sleepingTaskList", s)
    BY DEF Queues
  <2> QED BY <1>6, <2>1, <2>2, ListStays
<1>9. Range(Append(w, t)) = Range(w) \cup {t}
  BY <1>1, QueueTypes, AppendFresh
<1> QED BY <1>1, <1>3, <1>5, <1>6, <1>7, <1>8, <1>9 DEF Queues, heap1

-----------------------------------------------------------------------------
(* unblockTask puts a thread that is in no list into the run queue. *)
LEMMA Unblocks ==
  ASSUME NEW h, NEW first, NEW r, NEW s, NEW w, Queues(h, first, r, s, w),
         NEW t \in AllThreads \ Queued(r, s, w),
         NEW st, st[t] \notin {"ReadyToRun", "Running"}
  PROVE  unblockTask(h, st, t) = addElement(h, "taskList", t)
<1>1. OnList(h, "taskList") = Range(r)
  BY ChainIs DEF OnList, Queues, IsList
<1> QED BY <1>1 DEF unblockTask, Queued

TaskState == {"ReadyToRun", "Running", "Sleeping", "WaitingForLock"}

(* schedule() finds a thread to switch to, unless the current one may go on; *)
(* the other two queues stay as the step has left them.                      *)
LEMMA Schedules ==
  ASSUME NEW h, NEW st \in [AllThreads -> TaskState], NEW first, NEW r, NEW s, NEW w,
         Queues(h, first, r, s, w),
         currentTaskTCB \in AllThreads,
         \/ /\ st[currentTaskTCB] = "Running"
            /\ Queued(r, s, w) = AllThreads \ {currentTaskTCB}
         \/ /\ st[currentTaskTCB] # "Running"
            /\ Queued(r, s, w) = AllThreads
            /\ r # << >>,
         \A t \in Range(r) : st[t] # "Running",
         schedule(h, st)
  PROVE  \E ready :
           /\ Queues(heap', first, ready, s, w)
           /\ Queued(ready, s, w) = AllThreads \ {currentTaskTCB'}
           /\ currentTaskTCB' \in AllThreads
           /\ state' \in [AllThreads -> TaskState]
           /\ state'[currentTaskTCB'] = "Running"
           /\ \A t \in Range(ready) : state'[t] # "Running"
           /\ \A t \in Range(s) \cup Range(w) : state'[t] = st[t]
<1> DEFINE cur == currentTaskTCB
<1>0. r \in Seq(AllThreads)
  BY QueueTypes
<1>1. isEmpty(h, "taskList") <=> r = << >>
  BY EndsOfList DEF Queues, ListName
<1>2. CASE st[cur] = "Running" /\ r = << >>
  <2>1. heap' = h /\ state' = st /\ currentTaskTCB' = cur
    BY <1>1, <1>2 DEF schedule
  <2> QED BY <1>2, <2>1
<1>3. CASE st[cur] = "Running" /\ r # << >>
  <2> DEFINE queue == addElement(h, "taskList", cur)
             ready == Append(r, cur)
  <2>1. cur \in AllThreads \ Queued(r, s, w) /\ Queued(r, s, w) = AllThreads \ {cur}
    BY <1>3
  <2>2. Queues(queue, first, ready, s, w) /\ Range(ready) = Range(r) \cup {cur}
    BY <2>1, AddReady
  <2>3. ready # << >> /\ ready[1] = r[1] /\ r[1] \in Range(r)
    <3>1. r[1] \in Range(r) /\ Len(r) \in Nat \ {0}
      BY <1>3, QueueTypes, TailOfChain
    <3> QED BY <1>0, <3>1
  <2> HIDE DEF queue, ready
  <2>4. /\ Queues(removeFirst(queue, "taskList"), first, Tail(ready), s, w)
        /\ Range(Tail(ready)) = Range(ready) \ {ready[1]} /\ ready[1] \in AllThreads
        /\ queue.lists["taskList"].first = ready[1]
    BY <2>2, <2>3, RemoveReady
  <2>5. /\ heap' = removeFirst(queue, "taskList")
        /\ state' = [[st EXCEPT ![cur] = "ReadyToRun"] EXCEPT ![ready[1]] = "Running"]
        /\ currentTaskTCB' = ready[1]
    BY <1>1, <1>3, <2>4 DEF schedule, queue
  <2>6. ready[1] \notin Range(s) \cup Range(w) /\ cur \notin Range(s) \cup Range(w)
        /\ ready[1] \in Range(ready)
    BY <2>1, <2>2, <2>3 DEF Queues, Queued
  <2>7. /\ Queues(heap', first, Tail(ready), s, w)
        /\ Queued(Tail(ready), s, w) = AllThreads \ {currentTaskTCB'}
    BY <2>1, <2>2, <2>4, <2>5, <2>6 DEF Queued
  <2>8. \A t \in Range(Tail(ready)) : state'[t] # "Running"
    BY <2>2, <2>4, <2>5, QueueTypes DEF TaskState
  <2>9. /\ state' \in [AllThreads -> TaskState] /\ state'[currentTaskTCB'] = "Running"
        /\ \A t \in Range(s) \cup Range(w) : state'[t] = st[t]
    BY <2>4, <2>5, <2>6, QueueTypes DEF TaskState
  <2> QED BY <2>4, <2>5, <2>7, <2>8, <2>9
<1>4. CASE st[cur] # "Running"
  <2>1. r # << >> /\ Queued(r, s, w) = AllThreads
    BY <1>4
  <2>2. /\ Queues(removeFirst(h, "taskList"), first, Tail(r), s, w)
        /\ Range(Tail(r)) = Range(r) \ {r[1]} /\ r[1] \in AllThreads /\ r[1] \in Range(r)
        /\ h.lists["taskList"].first = r[1]
    BY <2>1, RemoveReady
  <2>3. /\ heap' = removeFirst(h, "taskList")
        /\ state' = [st EXCEPT ![r[1]] = "Running"]
        /\ currentTaskTCB' = r[1]
    BY <1>1, <1>4, <2>1, <2>2 DEF schedule
  <2>4. r[1] \notin Range(s) \cup Range(w)
    BY <2>2 DEF Queues
  <2>5. /\ Queues(heap', first, Tail(r), s, w)
        /\ Queued(Tail(r), s, w) = AllThreads \ {currentTaskTCB'}
    BY <2>1, <2>2, <2>3, <2>4 DEF Queued
  <2>6. /\ state' \in [AllThreads -> TaskState] /\ state'[currentTaskTCB'] = "Running"
        /\ \A t \in Range(s) \cup Range(w) : state'[t] = st[t]
        /\ \A t \in Range(Tail(r)) : state'[t] # "Running"
    BY <2>2, <2>3, <2>4, QueueTypes DEF TaskState
  <2> QED BY <2>2, <2>3, <2>5, <2>6
<1> QED BY <1>2, <1>3, <1>4

-----------------------------------------------------------------------------
(* Where the threads are: r in the run queue, s asleep, w waiting for a      *)
(* permit, and nobody waits while there is one.                             *)
Placed(r, s, w) ==
  /\ Queues(heap, firstWaitingTask, r, s, w)
  /\ Queued(r, s, w) = AllThreads \ {currentTaskTCB}
  /\ state[currentTaskTCB] = "Running"
  /\ \A t \in Range(r) : state[t] # "Running"
  /\ \A t \in Range(s) : state[t] = "Sleeping"
  /\ \A t \in Range(w) : state[t] = "WaitingForLock"
  /\ idleThread \notin Range(s) \cup Range(w)
  /\ w # << >> => lastWaitingTask = w[Len(w)] /\ currentCount = maxCount
  /\ isr = "wake" => s # << >>

(* What the semaphore counts is what the threads hold. *)
CountInv ==
  /\ IsFiniteSet(Counting!HeldPermits)
  /\ Counting!Held = currentCount

(* The inductive invariant. *)
SemaphoreInv ==
  /\ TypeOK
  /\ CountInv
  /\ \E r, s, w : Placed(r, s, w)

(* The chain from firstWaitingTask is the third of the sequences. *)
LEMMA PlacedWaiters ==
  ASSUME NEW r, NEW s, NEW w, Placed(r, s, w)
  PROVE  Waiters = w
BY ChainIs DEF Placed, Queues, Waiters

LEMMA PlacedWaitersNext ==
  ASSUME NEW r, NEW s, NEW w, Placed(r, s, w)'
  PROVE  Waiters' = w
BY ChainIs DEF Placed, Queues, Waiters

(* Steps that switch to nobody and leave the lists alone. *)
LEMMA PlacedStays ==
  ASSUME NEW r, NEW s, NEW w, Placed(r, s, w),
         UNCHANGED <<heap, firstWaitingTask, lastWaitingTask, currentTaskTCB, state>>,
         currentCount' = currentCount \/ w = << >>,
         isr' = "wake" => s # << >>
  PROVE  Placed(r, s, w)'
BY DEF Placed

(* A step that ends in schedule(). *)
LEMMA PlacedSchedule ==
  ASSUME TypeOK, NEW h, NEW st \in [AllThreads -> TaskState], NEW r, NEW s, NEW w,
         Queues(h, firstWaitingTask', r, s, w),
         \/ /\ st[currentTaskTCB] = "Running"
            /\ Queued(r, s, w) = AllThreads \ {currentTaskTCB}
         \/ /\ st[currentTaskTCB] # "Running"
            /\ Queued(r, s, w) = AllThreads,
         \A t \in Range(r) : st[t] # "Running",
         \A t \in Range(s) : st[t] = "Sleeping",
         \A t \in Range(w) : st[t] = "WaitingForLock",
         idleThread \notin Range(s) \cup Range(w),
         w # << >> => lastWaitingTask' = w[Len(w)] /\ currentCount' = maxCount,
         isr' # "wake",
         schedule(h, st)
  PROVE  /\ \E ready : Placed(ready, s, w)'
         /\ heap' \in Heap(ListName) /\ currentTaskTCB' \in AllThreads
         /\ state' \in [AllThreads -> TaskState]
<1>1. currentTaskTCB \in AllThreads
  BY DEF TypeOK
<1>2. \/ /\ st[currentTaskTCB] = "Running"
         /\ Queued(r, s, w) = AllThreads \ {currentTaskTCB}
      \/ /\ st[currentTaskTCB] # "Running"
         /\ Queued(r, s, w) = AllThreads
         /\ r # << >>
  <2>1. Queued(r, s, w) = AllThreads => r # << >>
    BY ThreadFacts DEF Queued, Range
  <2> QED BY <2>1
<1>3. PICK ready :
           /\ Queues(heap', firstWaitingTask', ready, s, w)
           /\ Queued(ready, s, w) = AllThreads \ {currentTaskTCB'}
           /\ currentTaskTCB' \in AllThreads
           /\ state' \in [AllThreads -> TaskState]
           /\ state'[currentTaskTCB'] = "Running"
           /\ \A t \in Range(ready) : state'[t] # "Running"
           /\ \A t \in Range(s) \cup Range(w) : state'[t] = st[t]
  BY <1>1, <1>2, Schedules
<1>4. Placed(ready, s, w)'
  BY <1>3 DEF Placed
<1>5. heap' \in Heap(ListName)
  BY <1>3 DEF Queues
<1> QED BY <1>3, <1>4, <1>5

LEMMA CurrentThread ==
  ASSUME TypeOK, NEW r, NEW s, NEW w, Placed(r, s, w)
  PROVE  /\ currentTaskTCB \in AllThreads /\ currentTaskTCB \notin Queued(r, s, w)
         /\ Queues(heap, firstWaitingTask, r, s, w)
         /\ state \in [AllThreads -> TaskState]
         /\ state[currentTaskTCB] = "Running"
         /\ w \in Seq(AllThreads)
         /\ w = << >> <=> firstWaitingTask = Null
<1>1. w \in Seq(AllThreads) /\ firstWaitingTask = Nth(w, 1)
  BY DEF Placed, Queues, IsChain
<1>2. w # << >> => 1 \in 1 .. Len(w) /\ w[1] \in AllThreads
  BY <1>1
<1> QED BY <1>1, <1>2, ThreadFacts DEF TypeOK, Placed, TaskState, Nth

(* milliTenthSleep by a thread other than the idle one. *)
LEMMA PlacedSleep ==
  ASSUME TypeOK, NEW r, NEW s, NEW w, Placed(r, s, w),
         currentTaskTCB # idleThread, isr' # "wake",
         UNCHANGED <<firstWaitingTask, lastWaitingTask, currentCount>>,
         Sleep
  PROVE  /\ \E ready, sleeping : Placed(ready, sleeping, w)'
         /\ heap' \in Heap(ListName) /\ currentTaskTCB' \in AllThreads
         /\ state' \in [AllThreads -> TaskState]
<1> DEFINE cur == currentTaskTCB
           h == addElement(heap, "sleepingTaskList", cur)
           st == [state EXCEPT ![cur] = "Sleeping"]
<1>0. PICK sleeping : sleeping = Append(s, cur)
  OBVIOUS
<1>1. /\ cur \in AllThreads \ Queued(r, s, w) /\ Queues(heap, firstWaitingTask, r, s, w)
      /\ state \in [AllThreads -> TaskState]
  BY CurrentThread
<1>2. Queues(h, firstWaitingTask', r, sleeping, w) /\ Range(sleeping) = Range(s) \cup {cur}
  BY <1>0, <1>1, AddSleeper
<1>3. st \in [AllThreads -> TaskState] /\ st[cur] = "Sleeping"
      /\ \A t \in AllThreads \ {cur} : st[t] = state[t]
  BY <1>1 DEF TaskState
<1>4. schedule(h, st)
  BY DEF Sleep
<1> HIDE DEF h, st
<1>5. Queued(r, sleeping, w) = AllThreads
  BY <1>1, <1>2 DEF Queued, Placed
<1>6. /\ \A t \in Range(r) : st[t] # "Running"
      /\ \A t \in Range(sleeping) : st[t] = "Sleeping"
      /\ \A t \in Range(w) : st[t] = "WaitingForLock"
  BY <1>1, <1>2, <1>3, QueueTypes DEF Placed, Queued
<1>7. idleThread \notin Range(sleeping) \cup Range(w)
  BY <1>2 DEF Placed
<1>8. w # << >> => lastWaitingTask' = w[Len(w)] /\ currentCount' = maxCount
  BY DEF Placed
<1>9. st[cur] # "Running"
  BY <1>3
<1> QED BY <1>2, <1>3, <1>4, <1>5, <1>6, <1>7, <1>8, <1>9, PlacedSchedule

-----------------------------------------------------------------------------
(* The permits as pairs of a thread and one of its permits. *)
Pairs(held) == UNION {{t} \X (1 .. held[t]) : t \in Thread}

(* What CountingSemaphore counts, before and after a step. *)
LEMMA HeldIsPairs ==
  /\ Counting!HeldPermits = Pairs(permits)
  /\ Counting!HeldPermits' = Pairs(permits')
  /\ Counting!Held = Cardinality(Pairs(permits))
  /\ Counting!Held' = Cardinality(Pairs(permits'))
<1>1. Counting!HeldPermits = Pairs(permits)
  BY DEF Counting!HeldPermits, Pairs
<1>2. Counting!HeldPermits' = Pairs(permits')
  BY DEF Counting!HeldPermits, Pairs
<1>3. Counting!Held = Cardinality(Pairs(permits))
  BY <1>1 DEF Counting!Held, Counting!Cardinality, Cardinality
<1>4. Counting!Held' = Cardinality(Pairs(permits'))
  BY <1>2 DEF Counting!Held, Counting!Cardinality, Cardinality
<1> QED BY <1>1, <1>2, <1>3, <1>4

(* A permit more. *)
LEMMA OneMore ==
  ASSUME NEW held \in [Thread -> Nat], NEW t \in Thread, IsFiniteSet(Pairs(held)),
         NEW more, more = [held EXCEPT ![t] = @ + 1]
  PROVE  /\ more \in [Thread -> Nat]
         /\ IsFiniteSet(Pairs(more))
         /\ Cardinality(Pairs(more)) = Cardinality(Pairs(held)) + 1
<1>1. Pairs(more) = Pairs(held) \cup {<<t, held[t] + 1>>}
  <2>1. \A u \in Thread, n \in Int :
          n \in 1 .. more[u] <=> n \in 1 .. held[u] \/ (u = t /\ n = held[t] + 1)
    OBVIOUS
  <2> QED BY <2>1 DEF Pairs
<1>2. <<t, held[t] + 1>> \notin Pairs(held)
  BY DEF Pairs
<1>3. more \in [Thread -> Nat]
  OBVIOUS
<1> DEFINE before == Pairs(held)
           pair == <<t, held[t] + 1>>
<1>4. IsFiniteSet(before) /\ pair \notin before
  BY <1>2
<1> HIDE DEF before, pair
<1>5. IsFiniteSet(before \cup {pair}) /\ Cardinality(before \cup {pair}) = Cardinality(before) + 1
  BY <1>4, FS_AddElement
<1> QED BY <1>1, <1>3, <1>5 DEF before, pair

(* A permit less. *)
LEMMA OneLess ==
  ASSUME NEW held \in [Thread -> Nat], NEW t \in Thread, IsFiniteSet(Pairs(held)),
         held[t] > 0,
         NEW less, less = [held EXCEPT ![t] = @ - 1]
  PROVE  /\ less \in [Thread -> Nat]
         /\ IsFiniteSet(Pairs(less))
         /\ Cardinality(Pairs(less)) = Cardinality(Pairs(held)) - 1
         /\ Cardinality(Pairs(less)) \in Nat
<1>1. Pairs(less) = Pairs(held) \ {<<t, held[t]>>}
  <2>1. \A u \in Thread, n \in Int : n \in 1 .. less[u] <=> n \in 1 .. held[u] /\ ~(u = t /\ n = held[t])
    OBVIOUS
  <2> QED BY <2>1 DEF Pairs
<1>2. <<t, held[t]>> \in Pairs(held)
  BY DEF Pairs
<1>3. IsFiniteSet(Pairs(less)) /\ Cardinality(Pairs(less)) = Cardinality(Pairs(held)) - 1
  BY <1>1, <1>2, FS_RemoveElement
<1> QED BY <1>3, FS_CardinalityType

-----------------------------------------------------------------------------
(* The invariant after a step that leaves w2 waiting. *)
Good(w) == TypeOK /\ CountInv /\ \E r, s : Placed(r, s, w)

(* While a permit is free nobody waits, so whoever takes it overtakes nobody. *)
LEMMA NobodyWaits ==
  ASSUME TypeOK, NEW r, NEW s, NEW w, Placed(r, s, w), Free
  PROVE  w = << >>
BY SemaphoreAssumption DEF TypeOK, Placed, Free

(* acquire() that need not wait. *)
LEMMA GrantGood ==
  ASSUME TypeOK, CountInv, NEW r, NEW s, NEW w, Placed(r, s, w), NEW t \in Thread, Grant(t),
         UNCHANGED <<heap, currentTaskTCB, state, isrVars>>, retrying' \subseteq Thread
  PROVE  Good(w)'
<1>1. Placed(r, s, w)'
  <2>1. isr' = "wake" => s # << >>
    BY DEF Placed, isrVars
  <2> QED BY <2>1, NobodyWaits, PlacedStays DEF Grant
<1>2. /\ permits' \in [Thread -> Nat]
      /\ IsFiniteSet(Pairs(permits')) /\ Cardinality(Pairs(permits')) = Cardinality(Pairs(permits)) + 1
  BY HeldIsPairs, OneMore DEF Grant, CountInv, TypeOK
<1>3. CountInv'
  BY <1>2, HeldIsPairs DEF CountInv, Grant
<1>4. currentCount' \in 0 .. maxCount
  BY SemaphoreAssumption DEF TypeOK, Grant, Free
<1>5. TypeOK'
  BY <1>2, <1>4 DEF TypeOK, Grant, isrVars
<1> QED BY <1>1, <1>3, <1>5 DEF Good

LEMMA CountStays ==
  ASSUME CountInv, UNCHANGED <<permits, currentCount>>
  PROVE  CountInv'
BY HeldIsPairs DEF CountInv

LEMMA RunsFacts ==
  ASSUME NEW t \in Thread, Runs(t)
  PROVE  currentTaskTCB = t /\ t # idleThread /\ isr = "none" /\ t \in AllThreads
BY SemaphoreAssumption, ThreadFacts DEF Runs

(* A thread that goes to sleep. *)
LEMMA SleepGood ==
  ASSUME TypeOK, CountInv, NEW r, NEW s, NEW w, Placed(r, s, w), NEW t \in Thread, Runs(t), Sleep,
         UNCHANGED <<semVars, isrVars>>, retrying' \subseteq Thread
  PROVE  Good(w)'
<1>1. /\ \E ready, sleeping : Placed(ready, sleeping, w)'
      /\ heap' \in Heap(ListName) /\ currentTaskTCB' \in AllThreads
      /\ state' \in [AllThreads -> TaskState]
  BY RunsFacts, PlacedSleep DEF semVars, isrVars
<1>2. CountInv'
  BY CountStays DEF semVars
<1>3. TypeOK'
  BY <1>1 DEF TypeOK, TaskState, semVars, isrVars
<1> QED BY <1>1, <1>2, <1>3 DEF Good

(* A call of schedule() by a thread that goes on. *)
LEMMA SwitchGood ==
  ASSUME TypeOK, CountInv, NEW r, NEW s, NEW w, Placed(r, s, w), schedule(heap, state),
         UNCHANGED <<semVars, retrying, firstSleeper>>, isr' = "none"
  PROVE  Good(w)'
<1>1. /\ \E ready : Placed(ready, s, w)'
      /\ heap' \in Heap(ListName) /\ currentTaskTCB' \in AllThreads
      /\ state' \in [AllThreads -> TaskState]
  <2>1. /\ state \in [AllThreads -> TaskState] /\ state[currentTaskTCB] = "Running"
        /\ Queues(heap, firstWaitingTask', r, s, w)
    BY CurrentThread DEF semVars
  <2>2. w # << >> => lastWaitingTask' = w[Len(w)] /\ currentCount' = maxCount
    BY DEF Placed, semVars
  <2>3. /\ Queued(r, s, w) = AllThreads \ {currentTaskTCB}
        /\ \A t \in Range(r) : state[t] # "Running"
        /\ \A t \in Range(s) : state[t] = "Sleeping"
        /\ \A t \in Range(w) : state[t] = "WaitingForLock"
        /\ idleThread \notin Range(s) \cup Range(w)
        /\ isr' # "wake"
    BY DEF Placed
  <2> QED BY <2>1, <2>2, <2>3, PlacedSchedule
<1>2. CountInv'
  BY CountStays DEF semVars
<1>3. TypeOK'
  BY <1>1 DEF TypeOK, TaskState, semVars
<1> QED BY <1>1, <1>2, <1>3 DEF Good

LEMMA LastIsOther ==
  ASSUME NEW r, NEW s, NEW w, w \in Seq(AllThreads), NEW t, t \notin Queued(r, s, w), w # << >>
  PROVE  w[Len(w)] # t
BY DEF Queued, Range

(* acquire() that has to: the last waiting thread gets its next pointer. *)
LEMMA AcquireWaitsGood ==
  ASSUME TypeOK, CountInv, NEW r, NEW s, NEW w, Placed(r, s, w), NEW t \in Thread, AcquireWaits(t)
  PROVE  Good(Append(w, t))'
<1> DEFINE new == IF firstWaitingTask = Null
                    THEN Ended(heap.next, t)
                    ELSE [Ended(heap.next, t) EXCEPT ![lastWaitingTask] = t]
           h == [heap EXCEPT !.next = new]
           st == [state EXCEPT ![t] = "WaitingForLock"]
           first == IF firstWaitingTask = Null THEN t ELSE firstWaitingTask
           waiting == Append(w, t)
<1>1. /\ currentTaskTCB = t /\ t # idleThread /\ isr = "none" /\ t \in AllThreads
      /\ t \notin Queued(r, s, w)
      /\ Queues(heap, firstWaitingTask, r, s, w)
      /\ state \in [AllThreads -> TaskState]
      /\ w \in Seq(AllThreads)
  BY CurrentThread, RunsFacts DEF AcquireWaits
<1>2. /\ firstWaitingTask' = first /\ lastWaitingTask' = t
      /\ schedule(h, st)
      /\ UNCHANGED <<currentCount, permits, retrying, firstSleeper, isr>>
  BY DEF AcquireWaits, isrVars
<1>3. currentCount' = maxCount
  BY <1>2, SemaphoreAssumption DEF AcquireWaits, TypeOK, Free
<1>4. Queues(h, first, r, s, waiting) /\ Range(waiting) = Range(w) \cup {t}
  <2>1. t \in AllThreads \ Queued(r, s, w)
    BY <1>1
  <2>2. heap.next \in [AllThreads -> AllThreads \cup {Null}]
    BY <1>1 DEF Queues, Heap
  <2>3. /\ w = << >> <=> firstWaitingTask = Null
        /\ w # << >> => lastWaitingTask = w[Len(w)] /\ lastWaitingTask \in AllThreads
    <3>1. w # << >> => w[Len(w)] \in AllThreads
      BY <1>1
    <3> QED BY <3>1, CurrentThread DEF Placed
  <2>4. /\ new \in [AllThreads -> AllThreads \cup {Null}]
        /\ new[t] = Null
        /\ \A u \in AllThreads \ {t} :
             new[u] = IF w # << >> /\ u = w[Len(w)] THEN t ELSE heap.next[u]
    BY <1>1, <2>2, <2>3, LastIsOther DEF Ended
  <2> HIDE DEF new
  <2> QED BY <1>1, <2>1, <2>4, AddWaiter
<1>5. /\ st \in [AllThreads -> TaskState] /\ st[t] = "WaitingForLock"
      /\ \A u \in AllThreads \ {t} : st[u] = state[u]
  BY <1>1 DEF TaskState
<1>6. waiting[Len(waiting)] = t
  BY <1>1
<1> HIDE DEF h, st, waiting, first
<1>7. Queued(r, s, waiting) = AllThreads
  BY <1>1, <1>4 DEF Queued, Placed
<1>8. /\ \A u \in Range(r) : st[u] # "Running"
      /\ \A u \in Range(s) : st[u] = "Sleeping"
      /\ \A u \in Range(waiting) : st[u] = "WaitingForLock"
  BY <1>1, <1>4, <1>5, QueueTypes DEF Placed, Queued
<1>9. idleThread \notin Range(s) \cup Range(waiting)
  BY <1>1, <1>4 DEF Placed
<1>10. st[currentTaskTCB] # "Running" /\ isr' # "wake"
  BY <1>1, <1>2, <1>5
<1>11. /\ \E ready : Placed(ready, s, waiting)'
       /\ heap' \in Heap(ListName) /\ currentTaskTCB' \in AllThreads
       /\ state' \in [AllThreads -> TaskState]
  BY <1>2, <1>3, <1>4, <1>5, <1>6, <1>7, <1>8, <1>9, <1>10, PlacedSchedule
<1>12. first \in AllThreads
  BY <1>1 DEF first, TypeOK
<1>13. TypeOK'
  BY <1>1, <1>2, <1>11, <1>12 DEF TypeOK, TaskState
<1>14. CountInv'
  BY <1>2, CountStays
<1> QED BY <1>11, <1>13, <1>14 DEF Good, waiting

(* release() with somebody waiting: the first one gets the permit. *)
LEMMA HandOverGood ==
  ASSUME TypeOK, CountInv, NEW r, NEW s, NEW w, Placed(r, s, w), NEW t \in Thread, Release(t),
         firstWaitingTask # Null
  PROVE  /\ Good(Tail(w))'
         /\ w # << >> /\ firstWaitingTask = w[1] /\ firstWaitingTask \in Thread
<1> DEFINE first == firstWaitingTask
           rest == Tail(w)
<1>0. PICK ready : ready = Append(r, first)
  OBVIOUS
<1>1. /\ Queues(heap, first, r, s, w) /\ w \in Seq(AllThreads) /\ w # << >>
      /\ state \in [AllThreads -> TaskState]
  BY CurrentThread
<1>2. /\ firstWaitingTask' = heap.next[first]
      /\ heap' = unblockTask(heap, state, first)
      /\ permits' = [permits EXCEPT ![t] = @ - 1, ![first] = @ + 1]
      /\ permits[t] > 0
      /\ UNCHANGED <<lastWaitingTask, currentCount, currentTaskTCB, state, retrying, firstSleeper, isr>>
  BY DEF Release, isrVars
<1>3. /\ Queues(heap, heap.next[first], r, s, rest)
      /\ Range(rest) = Range(w) \ {first} /\ first = w[1]
      /\ first \in Range(w) /\ first \in AllThreads
  BY <1>1, RemoveWaiter
<1>4. /\ Len(w) \in Nat \ {0} /\ Len(rest) = Len(w) - 1
      /\ \A i \in 1 .. Len(w) - 1 : rest[i] = w[i + 1]
      /\ rest \in Seq(AllThreads)
  BY <1>1, QueueTypes, TailOfChain
<1> HIDE DEF rest
<1>5. first \in Thread
  BY <1>3 DEF Placed, AllThreads
<1>6. first \in AllThreads \ Queued(r, s, rest)
  BY <1>1, <1>3 DEF Queued, Queues
<1>7. state[first] = "WaitingForLock"
  BY <1>3 DEF Placed
<1>8. heap' = addElement(heap, "taskList", first)
  BY <1>2, <1>3, <1>6, <1>7, Unblocks
<1>9. Queues(heap', firstWaitingTask', ready, s, rest) /\ Range(ready) = Range(r) \cup {first}
  BY <1>0, <1>2, <1>3, <1>6, <1>8, AddReady
<1>10. rest # << >> => lastWaitingTask' = rest[Len(rest)] /\ currentCount' = maxCount
  <2>1. rest # << >> => Len(rest) \in 1 .. Len(w) - 1
    BY <1>4, EmptyOrNot
  <2>2. rest # << >> => rest[Len(rest)] = w[Len(w)]
    BY <1>4, <2>1
  <2> QED BY <1>1, <1>2, <2>2 DEF Placed
<1>11. Queued(ready, s, rest) = AllThreads \ {currentTaskTCB'}
  BY <1>2, <1>3, <1>9 DEF Placed, Queued
<1>12. /\ \A u \in Range(ready) : state'[u] # "Running"
       /\ \A u \in Range(s) : state'[u] = "Sleeping"
       /\ \A u \in Range(rest) : state'[u] = "WaitingForLock"
       /\ idleThread \notin Range(s) \cup Range(rest)
       /\ state'[currentTaskTCB'] = "Running"
       /\ isr' = "wake" => s # << >>
  BY <1>2, <1>3, <1>7, <1>9 DEF Placed
<1>13. Placed(ready, s, rest)'
  BY <1>9, <1>10, <1>11, <1>12 DEF Placed
<1>14. /\ permits' \in [Thread -> Nat]
       /\ IsFiniteSet(Pairs(permits')) /\ Cardinality(Pairs(permits')) = Cardinality(Pairs(permits))
  <2> DEFINE less == [permits EXCEPT ![t] = @ - 1]
  <2>1. permits \in [Thread -> Nat] /\ IsFiniteSet(Pairs(permits))
    BY HeldIsPairs DEF TypeOK, CountInv
  <2>2. /\ less \in [Thread -> Nat] /\ IsFiniteSet(Pairs(less))
        /\ Cardinality(Pairs(less)) = Cardinality(Pairs(permits)) - 1
        /\ Cardinality(Pairs(less)) \in Nat
    BY <1>2, <2>1, OneLess
  <2>3. permits' = [less EXCEPT ![first] = @ + 1]
    <3>1. \A u \in Thread : permits'[u] = IF u = first THEN less[u] + 1 ELSE less[u]
      BY <1>2, <1>5, <2>1
    <3>2. DOMAIN permits' = Thread
      BY <1>2, <2>1
    <3>3. permits' = [u \in Thread |-> permits'[u]]
      BY <1>2, <2>1
    <3> HIDE DEF less
    <3>4. less = [u \in Thread |-> less[u]]
      BY <2>2
    <3> QED BY <1>5, <3>1, <3>3, <3>4
  <2> HIDE DEF less
  <2>4. /\ permits' \in [Thread -> Nat] /\ IsFiniteSet(Pairs(permits'))
        /\ Cardinality(Pairs(permits')) = Cardinality(Pairs(less)) + 1
    BY <1>5, <2>2, <2>3, OneMore
  <2>5. Cardinality(Pairs(permits)) \in Nat
    BY <2>1, FS_CardinalityType
  <2> QED BY <2>2, <2>4, <2>5
<1>15. CountInv'
  BY <1>2, <1>14, HeldIsPairs DEF CountInv
<1>16. TypeOK'
  <2>1. heap' \in Heap(ListName)
    BY <1>9 DEF Queues
  <2>2. firstWaitingTask' \in AllThreads \cup {Null}
    BY <1>1, <1>2, <1>3 DEF Queues, Heap
  <2> QED BY <1>2, <1>14, <2>1, <2>2 DEF TypeOK
<1> QED BY <1>1, <1>3, <1>5, <1>13, <1>15, <1>16 DEF Good, rest

(* release() while nobody waits. *)
LEMMA GiveBackGood ==
  ASSUME TypeOK, CountInv, NEW r, NEW s, NEW w, Placed(r, s, w), NEW t \in Thread, Release(t),
         firstWaitingTask = Null
  PROVE  Good(w)' /\ w = << >>
<1>1. w = << >>
  BY CurrentThread
<1>2. /\ currentCount' = currentCount - 1
      /\ permits' = [permits EXCEPT ![t] = @ - 1] /\ permits[t] > 0
      /\ UNCHANGED <<heap, firstWaitingTask, lastWaitingTask, currentTaskTCB, state, retrying,
                     firstSleeper, isr>>
  BY DEF Release, isrVars
<1>3. Placed(r, s, w)'
  <2>1. isr' = "wake" => s # << >>
    BY <1>2 DEF Placed
  <2> QED BY <1>1, <1>2, <2>1, PlacedStays
<1>4. /\ permits' \in [Thread -> Nat] /\ IsFiniteSet(Pairs(permits'))
      /\ Cardinality(Pairs(permits')) = Cardinality(Pairs(permits)) - 1
      /\ Cardinality(Pairs(permits')) \in Nat
  BY <1>2, HeldIsPairs, OneLess DEF TypeOK, CountInv
<1>5. CountInv'
  BY <1>2, <1>4, HeldIsPairs DEF CountInv
<1>6. currentCount' \in 0 .. maxCount
  BY <1>2, <1>4, HeldIsPairs, SemaphoreAssumption DEF TypeOK, CountInv
<1>7. TypeOK'
  BY <1>2, <1>4, <1>6 DEF TypeOK
<1> QED BY <1>1, <1>3, <1>5, <1>7 DEF Good

(* timerHandler begins its loop only if there are sleepers. *)
LEMMA TickGood ==
  ASSUME TypeOK, CountInv, NEW r, NEW s, NEW w, Placed(r, s, w), Tick
  PROVE  Good(w)'
<1>1. /\ isr' = IF isEmpty(heap, "sleepingTaskList") THEN "slice" ELSE "wake"
      /\ firstSleeper' = heap.lists["sleepingTaskList"].first
      /\ UNCHANGED <<heap, firstWaitingTask, lastWaitingTask, currentCount, permits,
                     currentTaskTCB, state, retrying>>
  BY DEF Tick, semVars
<1>2. Queues(heap, firstWaitingTask, r, s, w)
  BY DEF Placed
<1>3. isEmpty(heap, "sleepingTaskList") <=> s = << >>
  BY <1>2, EndsOfList DEF Queues, ListName
<1>4. isr' = "wake" => s # << >>
  BY <1>1, <1>3
<1>5. Placed(r, s, w)'
  BY <1>1, <1>4, PlacedStays
<1>6. CountInv'
  BY <1>1, CountStays
<1>7. firstSleeper' \in AllThreads \cup {Null}
  BY <1>1, <1>2 DEF Queues, Heap, ListName
<1>8. TypeOK'
  BY <1>1, <1>7 DEF TypeOK
<1> QED BY <1>5, <1>6, <1>8 DEF Good

LEMMA FirstOfList ==
  ASSUME NEW h \in Heap(ListName)
  PROVE  h.lists["sleepingTaskList"].first \in AllThreads \cup {Null}
BY DEF Heap, ListName

(* One turn of timerHandler's loop.  That the list of sleepers is not empty  *)
(* there is why removeFirst does not panic.                                 *)
LEMMA WakeOrRotateGood ==
  ASSUME TypeOK, CountInv, NEW r, NEW s, NEW w, Placed(r, s, w), NEW due \in BOOLEAN, WakeOrRotate(due)
  PROVE  Good(w)'
<1> DEFINE removed == removeFirst(heap, "sleepingTaskList")
           new == IF due THEN unblockTask(removed, state, heap.lists["sleepingTaskList"].first)
                  ELSE addElement(removed, "sleepingTaskList", heap.lists["sleepingTaskList"].first)
<1>1. /\ Queues(heap, firstWaitingTask, r, s, w) /\ isr = "wake" /\ s # << >>
      /\ heap' = new
      /\ UNCHANGED <<firstWaitingTask, lastWaitingTask, currentCount, permits, currentTaskTCB, state, retrying>>
      /\ isr' \in {"slice", "wake"}
      /\ isr' = "wake" => ~isEmpty(new, "sleepingTaskList")
  BY DEF WakeOrRotate, Placed, semVars
<1>2. PICK curr : curr = s[1]
  OBVIOUS
<1>3. /\ Queues(removed, firstWaitingTask, r, Tail(s), w)
      /\ Range(Tail(s)) = Range(s) \ {curr} /\ curr \in Range(s) /\ curr \in AllThreads
      /\ heap.lists["sleepingTaskList"].first = curr
  BY <1>1, <1>2, RemoveSleeper
<1>4. curr \in AllThreads \ Queued(r, Tail(s), w)
  BY <1>1, <1>3 DEF Queues, Queued
<1>5. state[curr] = "Sleeping"
  BY <1>3 DEF Placed
<1> HIDE DEF removed
<1>6. \E ready, sleeping :
        /\ Queues(new, firstWaitingTask, ready, sleeping, w)
        /\ Range(ready) \cup Range(sleeping) = Range(r) \cup Range(s)
        /\ \A t \in Range(ready) : state[t] # "Running"
        /\ Range(sleeping) \subseteq Range(s)
  <2>1. CASE due
    <3>1. new = addElement(removed, "taskList", curr)
      BY <1>3, <1>4, <1>5, <2>1, Unblocks
    <3>2. Queues(new, firstWaitingTask, Append(r, curr), Tail(s), w) /\ Range(Append(r, curr)) = Range(r) \cup {curr}
      BY <1>3, <1>4, <3>1, AddReady
    <3>3. \A t \in Range(Append(r, curr)) : state[t] # "Running"
      BY <1>5, <3>2 DEF Placed
    <3>4. /\ Range(Append(r, curr)) \cup Range(Tail(s)) = Range(r) \cup Range(s)
          /\ Range(Tail(s)) \subseteq Range(s)
      BY <1>3, <3>2
    <3> HIDE DEF new
    <3> QED BY <3>2, <3>3, <3>4
  <2>2. CASE ~due
    <3>1. new = addElement(removed, "sleepingTaskList", curr)
      BY <1>3, <2>2
    <3>2. /\ Queues(new, firstWaitingTask, r, Append(Tail(s), curr), w)
          /\ Range(Append(Tail(s), curr)) = Range(Tail(s)) \cup {curr}
      BY <1>3, <1>4, <3>1, AddSleeper
    <3>3. Range(Append(Tail(s), curr)) = Range(s)
      BY <1>3, <3>2
    <3>4. \A t \in Range(r) : state[t] # "Running"
      BY DEF Placed
    <3> HIDE DEF new
    <3> QED BY <3>2, <3>3, <3>4
  <2> QED BY <2>1, <2>2
<1> HIDE DEF new
<1>7. PICK ready, sleeping :
        /\ Queues(heap', firstWaitingTask', ready, sleeping, w)
        /\ Range(ready) \cup Range(sleeping) = Range(r) \cup Range(s)
        /\ \A t \in Range(ready) : state[t] # "Running"
        /\ Range(sleeping) \subseteq Range(s)
  BY <1>1, <1>6
<1>8. Queued(ready, sleeping, w) = AllThreads \ {currentTaskTCB'}
  BY <1>1, <1>7 DEF Queued, Placed
<1>9. isr' = "wake" => sleeping # << >>
  BY <1>1, <1>7, EndsOfList DEF Queues, ListName
<1>10. Placed(ready, sleeping, w)'
  BY <1>1, <1>7, <1>8, <1>9 DEF Placed
<1>11. CountInv'
  BY <1>1, CountStays
<1>12. heap' \in Heap(ListName)
  BY <1>7 DEF Queues
<1>13. firstSleeper' \in AllThreads \cup {Null}
  <2>1. heap'.lists["sleepingTaskList"].first \in AllThreads \cup {Null}
    BY <1>12, FirstOfList
  <2>2. firstSleeper' \in {Null, firstSleeper, heap'.lists["sleepingTaskList"].first}
    BY DEF WakeOrRotate
  <2> QED BY <2>1, <2>2 DEF TypeOK
<1>14. TypeOK'
  BY <1>1, <1>12, <1>13 DEF TypeOK
<1> QED BY <1>10, <1>11, <1>14 DEF Good

(* A switch, at a yield or at the end of a slice. *)
LEMMA YieldGood ==
  ASSUME TypeOK, CountInv, NEW r, NEW s, NEW w, Placed(r, s, w), Yield \/ Preempt
  PROVE  Good(w)'
<1>1. /\ schedule(heap, state) /\ isr' = "none"
      /\ UNCHANGED <<semVars, retrying, firstSleeper>>
  BY DEF Yield, Preempt, isrVars
<1> QED BY <1>1, SwitchGood

LEMMA IdleGood ==
  ASSUME TypeOK, CountInv, NEW r, NEW s, NEW w, Placed(r, s, w), NoPreempt \/ UNCHANGED vars
  PROVE  Good(w)'
<1>1. /\ UNCHANGED <<heap, semVars, currentTaskTCB, state, retrying, firstSleeper>>
      /\ isr' \in {"none", isr}
  BY DEF NoPreempt, vars, isrVars
<1>2. Placed(r, s, w)'
  <2>1. isr' = "wake" => s # << >>
    BY <1>1 DEF Placed
  <2> QED BY <1>1, <2>1, PlacedStays DEF semVars
<1>3. CountInv'
  BY <1>1, CountStays DEF semVars
<1>4. TypeOK'
  BY <1>1 DEF TypeOK, semVars
<1> QED BY <1>2, <1>3, <1>4 DEF Good

-----------------------------------------------------------------------------
(* What a step does to the queue of the semaphore and to the permits. *)
Promised(w, w2) ==
  \/ w2 = w /\ permits' = permits
  \/ \E t \in Thread :
       \/ /\ w = << >> /\ w2 = w /\ Counting!Held < maxCount
          /\ permits' = [permits EXCEPT ![t] = @ + 1]
       \/ /\ t \notin Range(w) /\ w2 = Append(w, t) /\ Counting!Held = maxCount
          /\ permits' = permits
       \/ /\ w = << >> /\ w2 = w /\ permits[t] > 0
          /\ permits' = [permits EXCEPT ![t] = @ - 1]
       \/ /\ w # << >> /\ w2 = Tail(w) /\ permits[t] > 0
          /\ permits' = [permits EXCEPT ![t] = @ - 1, ![Head(w)] = @ + 1]

(* Each operation keeps the invariant and makes the step that is promised. *)
LEMMA OperationPromised ==
  ASSUME TypeOK, CountInv, NEW r, NEW s, NEW w, Placed(r, s, w), NEW t \in Thread, Operation(t)
  PROVE  \E w2 : Good(w2)' /\ Promised(w, w2)
<1>0. Counting!Held = currentCount /\ w \in Seq(AllThreads)
  BY CurrentThread DEF CountInv
<1>1. CASE Acquire(t) \/ TimedSucceeds(t)
  <2>1. /\ Grant(t) /\ retrying' \subseteq Thread
        /\ UNCHANGED <<heap, currentTaskTCB, state, isrVars>>
    BY <1>1 DEF Acquire, TimedSucceeds, TypeOK
  <2>2. Good(w)' /\ w = << >>
    BY <2>1, GrantGood, NobodyWaits DEF Grant
  <2>3. Promised(w, w)
    BY <1>0, <2>1, <2>2 DEF Promised, Grant, Free
  <2> QED BY <2>2, <2>3
<1>2. CASE AcquireWaits(t)
  <2>1. Good(Append(w, t))'
    BY <1>2, AcquireWaitsGood
  <2>2. currentCount = maxCount /\ permits' = permits
    BY <1>2, SemaphoreAssumption DEF AcquireWaits, Free, TypeOK
  <2>3. t \notin Range(w)
    BY <1>2, RunsFacts, CurrentThread DEF AcquireWaits, Queued
  <2>4. Promised(w, Append(w, t))
    BY <1>0, <2>2, <2>3 DEF Promised
  <2> QED BY <2>1, <2>4
<1>3. CASE Release(t) /\ firstWaitingTask # Null
  <2>1. Good(Tail(w))' /\ w # << >> /\ firstWaitingTask = Head(w)
    BY <1>0, <1>3, HandOverGood
  <2>2. permits[t] > 0 /\ permits' = [permits EXCEPT ![t] = @ - 1, ![Head(w)] = @ + 1]
    BY <1>3, <2>1 DEF Release
  <2>3. Promised(w, Tail(w))
    BY <2>1, <2>2 DEF Promised
  <2> QED BY <2>1, <2>3
<1>4. CASE Release(t) /\ firstWaitingTask = Null
  <2>1. Good(w)' /\ w = << >>
    BY <1>4, GiveBackGood
  <2>2. permits[t] > 0 /\ permits' = [permits EXCEPT ![t] = @ - 1]
    BY <1>4 DEF Release
  <2>3. Promised(w, w)
    BY <2>1, <2>2 DEF Promised
  <2> QED BY <2>1, <2>3
<1>5. CASE TimedFails(t) \/ OtherSleep(t)
  <2>1. /\ Runs(t) /\ Sleep /\ retrying' \subseteq Thread
        /\ UNCHANGED <<semVars, isrVars>>
    BY <1>5 DEF TimedFails, OtherSleep, TypeOK
  <2>2. Good(w)'
    BY <2>1, SleepGood
  <2>3. Promised(w, w)
    BY <2>1 DEF Promised, semVars
  <2> QED BY <2>2, <2>3
<1> QED BY <1>1, <1>2, <1>3, <1>4, <1>5 DEF Operation

(* And so does each step; the timer and the scheduler make none. *)
LEMMA NextPromised ==
  ASSUME TypeOK, CountInv, NEW r, NEW s, NEW w, Placed(r, s, w), [Next]_vars
  PROVE  \E w2 : Good(w2)' /\ Promised(w, w2)
<1>1. CASE \E t \in Thread : Operation(t)
  BY <1>1, OperationPromised
<1>2. CASE Yield \/ Tick \/ Timer \/ UNCHANGED vars
  <2>1. Good(w)'
    BY <1>2, TickGood, WakeOrRotateGood, YieldGood, IdleGood DEF Timer
  <2>2. permits' = permits
    BY <1>2 DEF Yield, Tick, Timer, WakeOrRotate, Preempt, NoPreempt, vars, semVars
  <2> QED BY <2>1, <2>2 DEF Promised
<1> QED BY <1>1, <1>2 DEF Next

-----------------------------------------------------------------------------
(* The initial run queue. *)
LEMMA OrderOfThreads ==
  LET order == SetToSeq(Thread) IN
  /\ order \in Seq(AllThreads) /\ IsInjective(order) /\ Range(order) = Thread
  /\ Len(order) \in Nat
<1> DEFINE n == Cardinality(Thread)
<1>1. IsFiniteSet(Thread) /\ n \in Nat
  BY SemaphoreAssumption, FS_CardinalityType
<1>2. \E f \in [1 .. n -> Thread] : IsInjective(f)
  BY <1>1, FS_CardinalityType DEF ExistsBijection, Bijection, Injection
<1>3. PICK f : f = SetToSeq(Thread)
  OBVIOUS
<1>4. f \in [1 .. n -> Thread] /\ IsInjective(f)
  BY <1>2, <1>3 DEF SetToSeq
<1>5. f \in Injection(1 .. n, Thread)
  BY <1>4 DEF Injection
<1>6. Cardinality(1 .. n) = n
  BY <1>1, IntervalCardinality
<1>7. f \in Surjection(1 .. n, Thread)
  BY <1>1, <1>5, <1>6, FS_Injection
<1>8. Range(f) = Thread
  BY <1>4, <1>7 DEF Surjection, Range
<1>9. f \in Seq(AllThreads) /\ Len(f) \in Nat
  BY <1>1, <1>4, ThreadFacts
<1> QED BY <1>3, <1>4, <1>8, <1>9

(* In the initial heap the threads are in the run queue and nowhere else. *)
LEMMA HeapOfOrder ==
  ASSUME NEW order \in Seq(AllThreads), IsInjective(order)
  PROVE  Queues(HeapOf(order, "taskList", ListName), Null, order, << >>, << >>)
<1> DEFINE h == HeapOf(order, "taskList", ListName)
           n == Len(order)
           place(e) == CHOOSE i \in 1 .. n : order[i] = e
<1>1. n \in Nat /\ Null \notin AllThreads /\ \A i \in 1 .. n : order[i] \in AllThreads
  BY ThreadFacts
<1>2. /\ h.next = [e \in AllThreads |->
                     IF \E i \in 1 .. n - 1 : order[i] = e THEN order[place(e) + 1] ELSE Null]
      /\ h.lists = [k \in ListName |->
                      IF k = "taskList" /\ n > 0
                        THEN [first |-> order[1], last |-> order[n], debugLength |-> n]
                        ELSE EmptyList]
      /\ h.panic = FALSE
      /\ h = [next |-> h.next, lists |-> h.lists, panic |-> h.panic]
  BY DEF HeapOf
<1>3. \A i \in 1 .. n : place(order[i]) = i
  BY DEF IsInjective
<1> HIDE DEF place
<1>4. \A i \in 1 .. n : (\E j \in 1 .. n - 1 : order[j] = order[i]) <=> i # n
  BY <1>1 DEF IsInjective
<1>5. \A i \in 1 .. n : h.next[order[i]] = Nth(order, i + 1)
  BY <1>1, <1>2, <1>3, <1>4 DEF Nth
<1>6. h.next \in [AllThreads -> AllThreads \cup {Null}]
  <2>1. ASSUME NEW e \in AllThreads
        PROVE  h.next[e] \in AllThreads \cup {Null}
    <3>1. CASE \E i \in 1 .. n - 1 : order[i] = e
      <4>1. PICK i \in 1 .. n - 1 : order[i] = e
        BY <3>1
      <4>2. h.next[e] = Nth(order, i + 1)
        BY <1>1, <1>5, <4>1
      <4> QED BY <1>1, <4>2 DEF Nth
    <3>2. CASE ~ \E i \in 1 .. n - 1 : order[i] = e
      BY <1>2, <3>2
    <3> QED BY <3>1, <3>2
  <2> QED BY <1>2, <2>1
<1>7. h.lists \in [ListName -> [first : AllThreads \cup {Null}, last : AllThreads \cup {Null},
                               debugLength : Nat]]
  BY <1>1, <1>2 DEF EmptyList
<1>8. h \in Heap(ListName) /\ ~h.panic
  <2>1. h.panic \in BOOLEAN
    BY <1>2
  <2>2. ~h.panic
    BY <1>2
  <2> HIDE DEF h
  <2> QED BY <1>2, <1>6, <1>7, <2>1, <2>2 DEF Heap
<1>9. /\ h.lists["taskList"] = IF n > 0 THEN [first |-> order[1], last |-> order[n], debugLength |-> n]
                                        ELSE EmptyList
      /\ h.lists["sleepingTaskList"] = EmptyList
  BY <1>2 DEF ListName
<1> HIDE DEF h
<1>10. IsList(h, "taskList", order)
  BY <1>1, <1>5, <1>9 DEF IsList, IsChain, Nth, EmptyList
<1>11. /\ << >> \in Seq(AllThreads) /\ Len(<< >>) = 0 /\ IsInjective(<< >>) /\ Range(<< >>) = {}
  BY DEF IsInjective, Range
<1>12. IsList(h, "sleepingTaskList", << >>) /\ IsChain(h.next, Null, << >>)
  BY <1>9, <1>11 DEF IsList, IsChain, Nth, EmptyList
<1> QED BY <1>8, <1>10, <1>11, <1>12 DEF Queues, h

(* The invariant holds at the start, with nobody waiting. *)
LEMMA InitGood == Init => Good(<< >>)
<1> SUFFICES ASSUME Init PROVE Good(<< >>)
  OBVIOUS
<1>1. PICK order : order = SetToSeq(Thread)
  OBVIOUS
<1>2. order \in Seq(AllThreads) /\ IsInjective(order) /\ Range(order) = Thread
  BY <1>1, OrderOfThreads
<1>3. /\ Queues(heap, firstWaitingTask, order, << >>, << >>)
      /\ heap \in Heap(ListName)
  BY <1>1, <1>2, HeapOfOrder DEF Init, InitWith, Queues
<1>4. Range(<< >>) = {}
  BY DEF Range
<1>5. Placed(order, << >>, << >>)
  BY <1>2, <1>3, <1>4, SemaphoreAssumption DEF Placed, Queued, Init, InitWith, AllThreads
<1>6. TypeOK
  BY <1>3, SemaphoreAssumption DEF TypeOK, Init, InitWith, AllThreads
<1>7. CountInv
  <2>1. Pairs(permits) = {}
    BY DEF Init, InitWith, Pairs
  <2> QED BY <2>1, HeldIsPairs, FS_EmptySet DEF CountInv, Init, InitWith
<1> QED BY <1>5, <1>6, <1>7 DEF Good

(* The invariant is kept by every step. *)
LEMMA InvNext == SemaphoreInv /\ [Next]_vars => SemaphoreInv'
<1> SUFFICES ASSUME SemaphoreInv, [Next]_vars PROVE SemaphoreInv'
  OBVIOUS
<1>1. PICK r, s, w : Placed(r, s, w)
  BY DEF SemaphoreInv
<1>2. PICK w2 : Good(w2)'
  BY <1>1, NextPromised DEF SemaphoreInv
<1> QED BY <1>2 DEF Good, SemaphoreInv

(* Every reachable state satisfies the inductive invariant: the heap chains  *)
(* each thread but the current one into one place, where its state says, and *)
(* currentCount is what the threads hold.                                   *)
THEOREM SemaphoreInvariance == Spec => []SemaphoreInv
<1>1. Init => SemaphoreInv
  BY InitGood DEF Good, SemaphoreInv
<1> QED BY <1>1, InvNext, PTL DEF Spec

(* The type invariant: currentCount stays between none and all permits. *)
THEOREM TypeCorrect == Spec => []TypeOK
<1>1. SemaphoreInv => TypeOK
  BY DEF SemaphoreInv
<1> QED BY <1>1, SemaphoreInvariance, PTL

(* No test of addElement or removeFirst ever fails. *)
THEOREM ListsNeverPanic == Spec => []NoListPanic
<1>1. SemaphoreInv => NoListPanic
  BY DEF SemaphoreInv, Placed, Queues, NoListPanic
<1> QED BY <1>1, SemaphoreInvariance, PTL

(* Two queues without a thread in common, one after the other. *)
LEMMA ConcatApart ==
  ASSUME NEW a \in Seq(AllThreads), IsInjective(a), NEW b \in Seq(AllThreads), IsInjective(b),
         Range(a) \cap Range(b) = {}
  PROVE  /\ a \o b \in Seq(AllThreads) /\ IsInjective(a \o b)
         /\ Range(a \o b) = Range(a) \cup Range(b)
<1> DEFINE c == a \o b
<1>1. /\ c \in Seq(AllThreads) /\ Len(a) \in Nat /\ Len(b) \in Nat
      /\ DOMAIN a = 1 .. Len(a) /\ DOMAIN b = 1 .. Len(b) /\ DOMAIN c = 1 .. Len(a) + Len(b)
      /\ \A i \in 1 .. Len(a) : c[i] = a[i]
      /\ \A i \in 1 .. Len(b) : c[Len(a) + i] = b[i]
  OBVIOUS
<1> HIDE DEF c
<1>2. \A i \in DOMAIN c : i \in 1 .. Len(a) \/ (i - Len(a) \in 1 .. Len(b) /\ c[i] = b[i - Len(a)])
  <2>1. ASSUME NEW i \in DOMAIN c, i \notin 1 .. Len(a)
        PROVE  i - Len(a) \in 1 .. Len(b) /\ c[i] = b[i - Len(a)]
    <3>1. i - Len(a) \in 1 .. Len(b) /\ Len(a) + (i - Len(a)) = i
      BY <1>1, <2>1
    <3> QED BY <1>1, <3>1
  <2> QED BY <2>1
<1>3. Range(c) = Range(a) \cup Range(b)
  <2>1. Range(c) \subseteq Range(a) \cup Range(b)
    BY <1>1, <1>2 DEF Range
  <2>2. Range(a) \subseteq Range(c)
    BY <1>1 DEF Range
  <2>3. \A i \in 1 .. Len(b) : Len(a) + i \in DOMAIN c
    BY <1>1
  <2>4. Range(b) \subseteq Range(c)
    BY <1>1, <2>3 DEF Range
  <2> QED BY <2>1, <2>2, <2>4
<1>4. IsInjective(c)
  <2>1. SUFFICES ASSUME NEW i \in DOMAIN c, NEW j \in DOMAIN c, c[i] = c[j]
                 PROVE  i = j
    BY DEF IsInjective
  <2>2. \A k \in DOMAIN a, l \in DOMAIN b : a[k] # b[l]
    BY DEF Range
  <2>3. CASE i \in 1 .. Len(a) /\ j \in 1 .. Len(a)
    BY <1>1, <2>1, <2>3 DEF IsInjective
  <2>4. CASE i \notin 1 .. Len(a) /\ j \notin 1 .. Len(a)
    <3>1. i - Len(a) = j - Len(a)
      BY <1>1, <1>2, <2>1, <2>4 DEF IsInjective
    <3> QED BY <1>1, <3>1
  <2> QED BY <1>1, <1>2, <2>1, <2>2, <2>3, <2>4
<1> QED BY <1>1, <1>3, <1>4 DEF c

(* The three sequences are what Chain computes, so each thread is met once. *)
LEMMA OneChainEach == SemaphoreInv => EachInOneChain
<1> SUFFICES ASSUME SemaphoreInv PROVE EachInOneChain
  OBVIOUS
<1>1. PICK r, s, w : Placed(r, s, w)
  BY DEF SemaphoreInv
<1>2. Queues(heap, firstWaitingTask, r, s, w)
  BY <1>1 DEF Placed
<1>3. /\ Chain(heap.next, heap.lists["taskList"].first) = r
      /\ Chain(heap.next, heap.lists["sleepingTaskList"].first) = s
      /\ Waiters = w
  BY <1>1, <1>2, ChainIs, PlacedWaiters DEF Queues, IsList
<1> DEFINE all == r \o s \o w
<1>4. /\ r \in Seq(AllThreads) /\ IsInjective(r)
      /\ s \in Seq(AllThreads) /\ IsInjective(s)
      /\ w \in Seq(AllThreads) /\ IsInjective(w)
      /\ Range(r) \cap Range(s) = {} /\ Range(r) \cap Range(w) = {} /\ Range(s) \cap Range(w) = {}
  BY <1>2, QueueTypes DEF Queues
<1>5. IsInjective(all) /\ Range(all) = Queued(r, s, w)
  <2>1. IsInjective(r \o s) /\ Range(r \o s) = Range(r) \cup Range(s) /\ r \o s \in Seq(AllThreads)
    BY <1>4, ConcatApart
  <2>2. Range(r \o s) \cap Range(w) = {}
    BY <1>4, <2>1
  <2>3. IsInjective((r \o s) \o w) /\ Range((r \o s) \o w) = Range(r \o s) \cup Range(w)
    BY <1>4, <2>1, <2>2, ConcatApart
  <2> QED BY <2>1, <2>3 DEF Queued
<1>6. /\ Len(r) = heap.lists["taskList"].debugLength
      /\ Len(s) = heap.lists["sleepingTaskList"].debugLength
  BY <1>2 DEF Queues, IsList
<1> HIDE DEF all
<1> QED BY <1>1, <1>3, <1>5, <1>6 DEF EachInOneChain, Placed, all

(* Each thread but the current one is in one of the three chains, once. *)
THEOREM OneChainForEach == Spec => []EachInOneChain
BY OneChainEach, SemaphoreInvariance, PTL

-----------------------------------------------------------------------------
(* Every step is one of CountingSemaphore, or leaves what it sees. *)
LEMMA PromiseKept ==
  SemaphoreInv /\ [Next]_vars => [Counting!SemNext]_<<permits, Waiters>>
<1> SUFFICES ASSUME SemaphoreInv, [Next]_vars
             PROVE  [Counting!SemNext]_<<permits, Waiters>>
  OBVIOUS
<1>1. PICK r, s, w : Placed(r, s, w)
  BY DEF SemaphoreInv
<1>2. PICK w2 : Good(w2)' /\ Promised(w, w2)
  BY <1>1, NextPromised DEF SemaphoreInv
<1>3. Waiters = w /\ Waiters' = w2
  BY <1>1, <1>2, PlacedWaiters, PlacedWaitersNext DEF Good
<1>4. CASE w2 = w /\ permits' = permits
  BY <1>3, <1>4
<1>5. ASSUME NEW t \in Thread, w = << >>, w2 = w, Counting!Held < maxCount,
             permits' = [permits EXCEPT ![t] = @ + 1]
      PROVE  Counting!SemNext
  BY <1>3, <1>5 DEF Counting!SemNext, Counting!Take
<1>6. ASSUME NEW t \in Thread, t \notin Range(w), w2 = Append(w, t), Counting!Held = maxCount,
             permits' = permits
      PROVE  Counting!SemNext
  <2>1. Counting!Wait(t)
    BY <1>3, <1>6 DEF Counting!Wait, Counting!Range, Range
  <2> QED BY <2>1 DEF Counting!SemNext
<1>7. ASSUME NEW t \in Thread, w = << >>, w2 = w, permits[t] > 0,
             permits' = [permits EXCEPT ![t] = @ - 1]
      PROVE  Counting!SemNext
  BY <1>3, <1>7 DEF Counting!SemNext, Counting!GiveBack
<1>8. ASSUME NEW t \in Thread, w # << >>, w2 = Tail(w), permits[t] > 0,
             permits' = [permits EXCEPT ![t] = @ - 1, ![Head(w)] = @ + 1]
      PROVE  Counting!SemNext
  <2>1. Counting!HandOver(t)
    BY <1>3, <1>8 DEF Counting!HandOver
  <2> QED BY <2>1 DEF Counting!SemNext
<1> QED BY <1>2, <1>4, <1>5, <1>6, <1>7, <1>8 DEF Promised

(* The semaphore, down to its pointers, implements the counting semaphore:   *)
(* permits are never more than maxCount, go to those who wait in the order   *)
(* in which they came, and to nobody else while somebody waits.             *)
THEOREM SemaphoreCounts == Spec => CountsPermits
<1>1. Init => Counting!SemInit
  BY InitGood, PlacedWaiters DEF Good, Init, InitWith, Counting!SemInit
<1> QED BY <1>1, PromiseKept, SemaphoreInvariance, PTL DEF Spec, CountsPermits, Counting!SemSpec

(* A mutex is a semaphore of one permit (mutex.cpp:3): between acquire() and *)
(* release() a thread is alone, whatever lists it and the others go through. *)
THEOREM MutexExcludes ==
  ASSUME maxCount = 1
  PROVE  Spec => [](\A t, u \in Thread : permits[t] > 0 /\ permits[u] > 0 => t = u)
<1>1. ASSUME SemaphoreInv, NEW t \in Thread, NEW u \in Thread,
             permits[t] > 0, permits[u] > 0, t # u
      PROVE  FALSE
  <2> DEFINE held == Counting!HeldPermits
             a == <<t, 1>>
             b == <<u, 1>>
  <2>1. a \in held /\ b \in held
    BY <1>1 DEF SemaphoreInv, TypeOK, Counting!HeldPermits
  <2>2. IsFiniteSet(held) /\ Cardinality(held) = currentCount /\ currentCount \in 0 .. maxCount
    BY <1>1 DEF SemaphoreInv, TypeOK, CountInv, Counting!Held, Counting!Cardinality, Cardinality
  <2>3. a # b
    BY <1>1
  <2> HIDE DEF held, a, b
  <2>4. Cardinality({a} \cup {b}) = 2 /\ {a, b} = {a} \cup {b}
    <3>1. IsFiniteSet({a}) /\ Cardinality({a}) = 1
      BY FS_Singleton
    <3> QED BY <2>3, <3>1, FS_AddElement
  <2>5. Cardinality({a, b}) <= Cardinality(held)
    BY <2>1, <2>2, FS_Subset
  <2> QED BY <2>2, <2>4, <2>5
<1>2. SemaphoreInv => \A t, u \in Thread : permits[t] > 0 /\ permits[u] > 0 => t = u
  BY <1>1
<1> QED BY <1>2, SemaphoreInvariance, PTL
=============================================================================
