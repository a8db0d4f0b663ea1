----------------------------- MODULE CreateThread -----------------------------
(***************************************************************************)
(* Process::createThread puts a new thread into the run queue without       *)
(* taking the scheduler lock (src/kernel/thr/prcssthr.cpp:119), and         *)
(* SysSpawn and SysPthreadCreate call it with interrupts on.  Here its      *)
(* addElement is not one step: the timer may interrupt it anywhere.         *)
(***************************************************************************)
EXTENDS Semaphore

CONSTANT newThread   \* the thread that is created

VARIABLES
  creator,    \* the thread inside createThread, or Null
  created,    \* whether the new thread is complete
  place       \* where addElement is

createVars == <<creator, created, place>>

Unrelated == <<semVars, currentTaskTCB, state, retrying, isrVars>>

CreateInit ==
  /\ InitWith(Thread \ {newThread})
  /\ creator = Null
  /\ created = FALSE
  /\ place = "none"

Begin ==
  /\ creator = Null /\ ~created
  /\ isr = "none" /\ currentTaskTCB # idleThread
  /\ creator' = currentTaskTCB
  /\ place' = IF isEmpty(heap, "taskList") THEN "first" ELSE "link"
  /\ UNCHANGED <<heap, created, Unrelated>>

(* One statement of addElement. *)
Statement(from, to, newHeap) ==
  /\ creator = currentTaskTCB /\ isr = "none"
  /\ place = from
  /\ place' = to
  /\ heap' = newHeap
  /\ UNCHANGED <<creator, created, Unrelated>>

taskList == heap.lists["taskList"]

LinkLast == Statement("link", "last", [heap EXCEPT !.next[taskList.last] = newThread])
SetFirst == Statement("first", "last", [heap EXCEPT !.lists["taskList"].first = newThread])
SetLast == Statement("last", "end", [heap EXCEPT !.lists["taskList"].last = newThread])

(* last is read again, before an interrupt or after it. *)
EndChain ==
  \E e \in {newThread, taskList.last} :
    Statement("end", "count", [heap EXCEPT !.next[e] = Null])

CountElement ==
  /\ creator = currentTaskTCB /\ isr = "none"
  /\ place = "count"
  /\ heap' = [heap EXCEPT !.lists["taskList"].debugLength = @ + 1]
  /\ place' = "none"
  /\ creator' = Null
  /\ created' = TRUE
  /\ UNCHANGED Unrelated

CreateNext ==
  \/ Begin \/ LinkLast \/ SetFirst \/ SetLast \/ EndChain \/ CountElement
  \/ /\ Tick \/ Timer \/ (creator # currentTaskTCB /\ (Yield \/ \E t \in Thread : Operation(t)))
     /\ UNCHANGED createVars

CreateSpec == CreateInit /\ [][CreateNext]_<<vars, createVars>>

=============================================================================
