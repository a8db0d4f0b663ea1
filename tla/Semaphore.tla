------------------------------ MODULE Semaphore ------------------------------
(***************************************************************************)
(* A semaphore (src/kernel/krnl/semaphore.cpp) down to its pointers.  A     *)
(* thread has one next pointer.  It chains the thread to the run queue, to  *)
(* the sleeping list or to the threads that wait for a semaphore, so each   *)
(* of them relies on the others to have let go of the thread.               *)
(*                                                                         *)
(* Every operation runs with interrupts off up to the switch in its         *)
(* unlockStuff(), so a step is one call.  What the scheduler does is        *)
(* modelled as far as it moves threads between the lists; module Scheduler  *)
(* has the rest of it.                                                      *)
(***************************************************************************)
EXTENDS Integers, Sequences, FiniteSets, SequencesExt

CONSTANTS
  Thread,      \* the threads that use the semaphore
  idleThread,  \* and one that never blocks
  Null,        \* nullptr
  maxCount

ASSUME SemaphoreAssumption ==
  /\ IsFiniteSet(Thread)
  /\ idleThread \notin Thread
  /\ Null \notin Thread \cup {idleThread}
  /\ maxCount \in Nat \ {0}

AllThreads == Thread \cup {idleThread}
ListName == {"taskList", "sleepingTaskList"}

INSTANCE LinkedList WITH Element <- AllThreads

VARIABLES
  heap,              \* the lists of the scheduler and the next pointers
  firstWaitingTask, lastWaitingTask, currentCount,
  currentTaskTCB,
  state,             \* [AllThreads -> TaskState]: tcb->state
  retrying,          \* the threads inside acquire(milliseconds)
  firstSleeper,      \* where timerHandler's loop over the sleepers ends
  isr,               \* what the timer interrupt does next, or "none"
  permits            \* [Thread -> Nat]: what acquire() has granted so far

semVars == <<firstWaitingTask, lastWaitingTask, currentCount, permits>>
isrVars == <<firstSleeper, isr>>
vars == <<heap, semVars, currentTaskTCB, state, retrying, isrVars>>

Waiters == Chain(heap.next, firstWaitingTask)
OnList(h, l) == Range(Chain(h.next, h.lists[l].first))

-----------------------------------------------------------------------------
(***************************************************************************)
(* The scheduler (prcssthr.cpp).                                           *)
(***************************************************************************)

(* Mutant: only sleepers can be unblocked. *)
unblockSleeper(h, st, t) ==
  IF st[t] = "Sleeping" THEN addElement(h, "taskList", t) ELSE h

(* unblockTask(t). *)
unblockTask(h, st, t) ==
  IF st[t] \in {"ReadyToRun", "Running"} \/ t \in OnList(h, "taskList")
    THEN h ELSE addElement(h, "taskList", t)

(* schedule(), once the step has made the heap h and the states st. *)
schedule(h, st) ==
  LET running == st[currentTaskTCB] = "Running"
      queue == IF running THEN addElement(h, "taskList", currentTaskTCB) ELSE h
      left == IF running THEN [st EXCEPT ![currentTaskTCB] = "ReadyToRun"] ELSE st
      task == queue.lists["taskList"].first
  IN \/ /\ isEmpty(h, "taskList")
        /\ heap' = h
        /\ state' = st
        /\ UNCHANGED currentTaskTCB
     \/ /\ ~isEmpty(h, "taskList")
        /\ heap' = removeFirst(queue, "taskList")
        /\ state' = [left EXCEPT ![task] = "Running"]
        /\ currentTaskTCB' = task

(* milliTenthSleep. *)
Sleep ==
  schedule(addElement(heap, "sleepingTaskList", currentTaskTCB),
           [state EXCEPT ![currentTaskTCB] = "Sleeping"])

-----------------------------------------------------------------------------
(***************************************************************************)
(* The operations of the semaphore.                                        *)
(***************************************************************************)
(* Mutant: off by one. *)
FreeOrFull == currentCount <= maxCount

Free == currentCount < maxCount

(* A thread that uses the semaphore executes its own code. *)
Runs(t) == t \in Thread /\ currentTaskTCB = t /\ isr = "none"

Grant(t) ==
  /\ Free
  /\ currentCount' = currentCount + 1
  /\ permits' = [permits EXCEPT ![t] = @ + 1]
  /\ UNCHANGED <<firstWaitingTask, lastWaitingTask>>

(* tryAcquire(), or acquire() when it need not wait. *)
Acquire(t) ==
  /\ Runs(t) /\ t \notin retrying
  /\ Grant(t)
  /\ UNCHANGED <<heap, currentTaskTCB, state, retrying, isrVars>>

(* Mutant: the thread keeps the pointer some list has left in it. *)
Unended(next, t) == next

(* currentTaskTCB->next = nullptr. *)
Ended(next, t) == [next EXCEPT ![t] = Null]

(* acquire() when it has to. *)
AcquireWaits(t) ==
  LET next == IF firstWaitingTask = Null
                THEN Ended(heap.next, t)
                ELSE [Ended(heap.next, t) EXCEPT ![lastWaitingTask] = t]
  IN
  /\ Runs(t) /\ t \notin retrying
  /\ ~Free
  /\ firstWaitingTask' = IF firstWaitingTask = Null THEN t ELSE firstWaitingTask
  /\ lastWaitingTask' = t
  /\ schedule([heap EXCEPT !.next = next], [state EXCEPT ![t] = "WaitingForLock"])
  /\ UNCHANGED <<currentCount, permits, retrying, isrVars>>

(* acquire(milliseconds) with milliseconds # 0 tries and sleeps in turn; it *)
(* comes back only with a permit, however long that takes.                  *)
TimedFails(t) ==
  /\ Runs(t)
  /\ ~Free
  /\ retrying' = retrying \cup {t}
  /\ Sleep
  /\ UNCHANGED <<semVars, isrVars>>

TimedSucceeds(t) ==
  /\ Runs(t) /\ t \in retrying
  /\ Grant(t)
  /\ retrying' = retrying \ {t}
  /\ UNCHANGED <<heap, currentTaskTCB, state, isrVars>>

(* release() by a thread that has a permit.  The thread that is woken takes *)
(* the permit over, so the count stays.                                     *)
Release(t) ==
  /\ Runs(t) /\ t \notin retrying
  /\ permits[t] > 0
  /\ \/ /\ firstWaitingTask # Null
        /\ firstWaitingTask' = heap.next[firstWaitingTask]
        /\ heap' = unblockTask(heap, state, firstWaitingTask)
        /\ permits' = [permits EXCEPT ![t] = @ - 1, ![firstWaitingTask] = @ + 1]
        /\ UNCHANGED <<lastWaitingTask, currentCount>>
     \/ /\ firstWaitingTask = Null
        /\ currentCount' = currentCount - 1
        /\ permits' = [permits EXCEPT ![t] = @ - 1]
        /\ UNCHANGED <<heap, firstWaitingTask, lastWaitingTask>>
  /\ UNCHANGED <<currentTaskTCB, state, retrying, isrVars>>

(* Any other sleep of a thread, and what the idle thread always does. *)
OtherSleep(t) ==
  /\ Runs(t) /\ t \notin retrying
  /\ Sleep
  /\ UNCHANGED <<semVars, retrying, isrVars>>

Yield ==
  /\ isr = "none"
  /\ schedule(heap, state)
  /\ UNCHANGED <<semVars, retrying, isrVars>>

-----------------------------------------------------------------------------
(***************************************************************************)
(* timerHandler.  Which sleepers are due is left open.                     *)
(***************************************************************************)
Tick ==
  /\ isr = "none"
  /\ isr' = IF isEmpty(heap, "sleepingTaskList") THEN "slice" ELSE "wake"
  /\ firstSleeper' = heap.lists["sleepingTaskList"].first
  /\ UNCHANGED <<heap, semVars, currentTaskTCB, state, retrying>>

WakeOrRotate(due) ==
  LET curr == heap.lists["sleepingTaskList"].first
      removed == removeFirst(heap, "sleepingTaskList")
      new == IF due THEN unblockTask(removed, state, curr)
                    ELSE addElement(removed, "sleepingTaskList", curr)
      head == new.lists["sleepingTaskList"].first
      first == IF due /\ curr = firstSleeper THEN head ELSE firstSleeper
  IN
  /\ isr = "wake"
  /\ heap' = new
  /\ \/ /\ isEmpty(new, "sleepingTaskList") \/ head = first
        /\ isr' = "slice"
        /\ firstSleeper' = Null
     \/ /\ ~isEmpty(new, "sleepingTaskList") /\ head # first
        /\ firstSleeper' = first
        /\ UNCHANGED isr
  /\ UNCHANGED <<semVars, currentTaskTCB, state, retrying>>

Preempt ==
  /\ isr = "slice"
  /\ isr' = "none"
  /\ schedule(heap, state)
  /\ UNCHANGED <<semVars, retrying, firstSleeper>>

NoPreempt ==
  /\ isr = "slice"
  /\ isr' = "none"
  /\ UNCHANGED <<heap, semVars, currentTaskTCB, state, retrying, firstSleeper>>

-----------------------------------------------------------------------------
(* The idle thread runs and the others are in the run queue.  Nothing tells *)
(* them apart, so one order stands for all.                                 *)
InitWith(queued) ==
  /\ heap = HeapOf(SetToSeq(queued), "taskList", ListName)
  /\ state = [t \in AllThreads |-> IF t = idleThread THEN "Running" ELSE "ReadyToRun"]
  /\ currentTaskTCB = idleThread
  /\ firstWaitingTask = Null
  /\ lastWaitingTask = Null
  /\ currentCount = 0
  /\ permits = [t \in Thread |-> 0]
  /\ retrying = {}
  /\ firstSleeper = Null
  /\ isr = "none"

Init == InitWith(Thread)

Operation(t) ==
  \/ Acquire(t) \/ AcquireWaits(t) \/ Release(t)
  \/ TimedFails(t) \/ TimedSucceeds(t) \/ OtherSleep(t)

Timer == (\E due \in BOOLEAN : WakeOrRotate(due)) \/ Preempt \/ NoPreempt

Next == (\E t \in Thread : Operation(t)) \/ Yield \/ Tick \/ Timer

(***************************************************************************)
(* The timer ticks for ever, slices end and sleepers are due some time; a   *)
(* thread with a permit gives it back if it gets to run again and again.    *)
(***************************************************************************)
Woken(t) == heap.lists["sleepingTaskList"].first = t /\ WakeOrRotate(TRUE)

Fairness ==
  /\ SF_vars(Tick)
  /\ WF_vars(Timer)
  /\ SF_vars(Preempt)
  /\ \A t \in Thread : SF_vars(Woken(t)) /\ SF_vars(Release(t))

Spec == Init /\ [][Next]_vars
FairSpec == Spec /\ Fairness

-----------------------------------------------------------------------------
(* currentCount stays between none and all of the permits, and pointers     *)
(* point to threads.                                                        *)
TypeOK ==
  /\ heap \in Heap(ListName)
  /\ {firstWaitingTask, lastWaitingTask, firstSleeper} \subseteq AllThreads \cup {Null}
  /\ currentCount \in 0 .. maxCount
  /\ currentTaskTCB \in AllThreads
  /\ state \in [AllThreads -> {"ReadyToRun", "Running", "Sleeping", "WaitingForLock"}]
  /\ retrying \subseteq Thread
  /\ isr \in {"none", "wake", "slice"}
  /\ permits \in [Thread -> Nat]

(* The tests of linkedlist.hpp:42-83 never call KePanic. *)
NoListPanic == ~heap.panic

(* The one next pointer of a thread serves one chain at a time: each thread *)
(* that is not running is in just one of the run queue, the sleeping list   *)
(* and the queue of the semaphore, once, and each of the three ends where   *)
(* its last pointer says (linkedlist.hpp:37, semaphore.cpp:73-80).          *)
EachInOneChain ==
  LET ready == Chain(heap.next, heap.lists["taskList"].first)
      sleeping == Chain(heap.next, heap.lists["sleepingTaskList"].first)
      all == ready \o sleeping \o Waiters
  IN /\ IsInjective(all)
     /\ Range(all) = AllThreads \ {currentTaskTCB}
     /\ Len(ready) = heap.lists["taskList"].debugLength
     /\ Len(sleeping) = heap.lists["sleepingTaskList"].debugLength
     /\ Waiters # << >> => Waiters[Len(Waiters)] = lastWaitingTask

(* Down to its pointers the semaphore is one that counts permits and hands  *)
(* them over in the order in which the threads came: currentCount never     *)
(* differs from what is held, no wake-up is lost and no thread barges in.   *)
Counting == INSTANCE CountingSemaphore WITH waiters <- Waiters
CountsPermits == Counting!SemSpec

(* A thread that waits gets its permit and runs, unless all the permits are *)
(* held by threads that wait for one more.                                  *)
HoldersWait ==
  \A t \in Thread : permits[t] > 0 => t \in Range(Waiters) \cup retrying
WaitersAreServed ==
  \A t \in Thread : t \in Range(Waiters) ~> (currentTaskTCB = t \/ HoldersWait)

=============================================================================
