--------------------------- MODULE CountingSemaphore ---------------------------
(***************************************************************************)
(* What class Semaphore promises its callers: at most maxCount permits are  *)
(* held at a time, threads that block get theirs in the order in which they *)
(* came, and a permit that is given back goes to a waiting thread directly, *)
(* so that nobody comes in between.                                         *)
(***************************************************************************)
EXTENDS Integers, Sequences, FiniteSets, Functions

CONSTANTS Thread, maxCount

VARIABLES
  permits,   \* [Thread -> Nat]: the permits each thread holds
  waiters    \* the threads that are blocked, in the order in which they came

(* The permits that are held: the first, second ... of each thread. *)
HeldPermits == UNION {{t} \X (1 .. permits[t]) : t \in Thread}
Held == Cardinality(HeldPermits)

SemInit ==
  /\ permits = [t \in Thread |-> 0]
  /\ waiters = << >>

Take(t) ==
  /\ waiters = << >>
  /\ Held < maxCount
  /\ permits' = [permits EXCEPT ![t] = @ + 1]
  /\ UNCHANGED waiters

Wait(t) ==
  /\ Held = maxCount
  /\ t \notin Range(waiters)
  /\ waiters' = Append(waiters, t)
  /\ UNCHANGED permits

GiveBack(t) ==
  /\ permits[t] > 0
  /\ waiters = << >>
  /\ permits' = [permits EXCEPT ![t] = @ - 1]
  /\ UNCHANGED waiters

HandOver(t) ==
  /\ permits[t] > 0
  /\ waiters # << >>
  /\ waiters' = Tail(waiters)
  /\ permits' = [permits EXCEPT ![t] = @ - 1, ![Head(waiters)] = @ + 1]

SemNext == \E t \in Thread : Take(t) \/ Wait(t) \/ GiveBack(t) \/ HandOver(t)

SemSpec == SemInit /\ [][SemNext]_<<permits, waiters>>

=============================================================================
