-------------------------------- MODULE Signals --------------------------------
(***************************************************************************)
(* The signals of a process with one thread (src/kernel/krnl/signal.cpp,    *)
(* src/kernel/arch/i386/interrupt.s).  A signal is raised by a system call  *)
(* of the thread or when its alarm is due, and waits in a ring until an     *)
(* interrupt returns: the thread then goes on in the handler, and what it   *)
(* was doing is saved in the one area a thread has for this.                *)
(*                                                                         *)
(* The interrupts are those that return to user mode.  One that comes       *)
(* during a system call may deliver a signal there too, on a stack frame    *)
(* without a user stack pointer: that is not modelled, and a system call is *)
(* one step.                                                                *)
(***************************************************************************)
EXTENDS Integers, Sequences

CONSTANTS
  Signal,               \* signal numbers in use, not 0
  SIGALRM, SIGKILL,
  MAX_PENDING_SIGNALS,
  MaxDepth              \* bound on handlers within handlers: no more interrupts

VARIABLES
  shb,          \* the SigHandlerBlock of the process
  code,         \* the handlers that have begun and not ended, the one that runs last
  area,         \* signalStateHandler: the signal and the code that was interrupted
  alarm,        \* an alarm is set
  exited,
  panic

vars == <<shb, code, area, alarm, exited, panic>>

Ring == 0 .. MAX_PENDING_SIGNALS - 1
Slot(i) == i % MAX_PENDING_SIGNALS

Least(S) == CHOOSE i \in S : \A j \in S : i <= j

(* KeInitSignals clears everything but masks, which holds what malloc found *)
(* there.  pendingBase only ever counts; it is kept modulo the ring.        *)
Init ==
  /\ \E garbage \in {{}, Signal} :
       shb = [handler |-> [s \in Signal |-> "SIG_DFL"], masks |-> [s \in Signal |-> garbage],
              pending |-> [i \in Ring |-> 0], pendingBase |-> 0, current |-> {},
              checkSignals |-> FALSE]
  /\ code = << >>
  /\ area = [num |-> 0, code |-> << >>]
  /\ alarm = FALSE
  /\ exited = FALSE
  /\ panic = FALSE

(* KeRegisterSignalHandler, as SysRegisterSignal calls it. *)
Registered(b, sig, handler) ==
  [b EXCEPT !.handler[sig] = handler, !.masks[sig] = {sig}]

(* KeRaiseSignal: the first empty slot from the base on, if there is one.   *)
Raised(b, sig) ==
  LET empty == {i \in Ring : b.pending[Slot(b.pendingBase + i)] = 0}
  IN  [b EXCEPT !.checkSignals = TRUE,
                !.pending = IF empty = {} THEN @
                            ELSE [@ EXCEPT ![Slot(b.pendingBase + Least(empty))] = sig]]

(* SIGKILL has a handler of its own, whatever the process has registered. *)
HandlerFor(b, sig) == IF sig = SIGKILL THEN "KiSigKill" ELSE b.handler[sig]

(* KeCheckSignal moves the base on with each empty slot, beside i: it looks *)
(* at every other slot.                                                     *)
Found(b) == {i \in Ring : b.pending[Slot(b.pendingBase + 2 * i)] # 0}

Checked(b) ==
  LET i == Least(Found(b))
      slot == Slot(b.pendingBase + 2 * i)
      sig == b.pending[slot]
      blocked == \E s \in b.current : sig \in b.masks[s]
      left == [b.pending EXCEPT ![slot] = 0]
      taken == [b EXCEPT !.pending = left,
                         !.pendingBase = Slot(@ + i + 1),
                         !.checkSignals = \E j \in Ring : left[j] # 0]
      none == [num |-> 0, handler |-> "none"]
  IN  CASE ~b.checkSignals \/ Found(b) = {} -> [block |-> b, signal |-> none]
        [] b.checkSignals /\ Found(b) # {} /\ blocked ->
             [block |-> [b EXCEPT !.pendingBase = Slot(@ + i)], signal |-> none]
        [] OTHER ->
             IF HandlerFor(b, sig) = "SIG_IGN"
               THEN [block |-> taken, signal |-> none]
               ELSE [block |-> [taken EXCEPT !.current = @ \cup {sig}],
                     signal |-> [num |-> sig, handler |-> HandlerFor(b, sig)]]

(* The return of an interrupt to the program or a handler: KiCheckSignalZ   *)
(* and, if there is a signal for it, doSignals.  Nothing is looked for while *)
(* preemption is off, because another thread sleeps in the driver of a disk. *)
Return(b) ==
  LET c == Checked(b)
  IN  \/ shb' = b /\ UNCHANGED <<code, area>>
      \/ /\ shb' = c.block
         /\ IF c.signal.num = 0
              THEN UNCHANGED <<code, area>>
              ELSE /\ area' = [num |-> c.signal.num, code |-> code]
                   /\ code' = Append(code, c.signal)

(* The thread runs; its program, or a handler of its own, and not one of the *)
(* kernel's, which only ever end the thread.                                *)
InUserMode == ~exited /\ ~panic /\ Len(code) < MaxDepth
InHandler(handlers) == code # << >> /\ code[Len(code)].handler \in handlers
InProgram == InUserMode /\ (code = << >> \/ InHandler({"user"}))

Interrupt ==
  /\ InUserMode
  /\ Return(shb)
  /\ UNCHANGED <<alarm, exited, panic>>

RegisterSignal(sig, handler) ==
  /\ InProgram
  /\ Return(Registered(shb, sig, handler))
  /\ UNCHANGED <<alarm, exited, panic>>

(* SysKill raises the signal in its caller, if the process it is given has  *)
(* a thread that is ready or asleep.                                        *)
Kill(sig) ==
  /\ InProgram
  /\ Return(Raised(shb, sig))
  /\ UNCHANGED <<alarm, exited, panic>>

(* SysAlarm sets an alarm or clears it. *)
SetAlarm(set) ==
  /\ InProgram
  /\ alarm' = set
  /\ Return(shb)
  /\ UNCHANGED <<exited, panic>>

(* A timer interrupt that switched to another thread and back, with the     *)
(* alarm due by then: KeCheckAlarm at the end of switchToThread.            *)
AlarmDue ==
  /\ InUserMode
  /\ alarm
  /\ alarm' = FALSE
  /\ Return(Raised(shb, SIGALRM))
  /\ UNCHANGED <<exited, panic>>

(* The handler returns to finishSignal: KiFinishSignalZ, KeCompleteSignal   *)
(* for the signal in the area, and back to the code that is saved there.    *)
FinishSignal ==
  /\ ~exited /\ ~panic
  /\ InHandler({"user"})
  /\ panic' = (area.num \notin shb.current)
  /\ shb' = [shb EXCEPT !.current = @ \ {area.num}]
  /\ area' = [area EXCEPT !.num = 0]
  /\ code' = area.code
  /\ UNCHANGED <<alarm, exited>>

(* KiSigKill and the default handlers end the thread with SysExit. *)
DefaultHandler ==
  /\ ~exited /\ ~panic
  /\ InHandler({"SIG_DFL", "KiSigKill"})
  /\ exited' = TRUE
  /\ UNCHANGED <<shb, code, area, alarm, panic>>

Next ==
  \/ Interrupt \/ AlarmDue \/ FinishSignal \/ DefaultHandler
  \/ \E sig \in Signal :
       Kill(sig) \/ \E handler \in {"SIG_DFL", "SIG_IGN", "user"} : RegisterSignal(sig, handler)
  \/ \E set \in BOOLEAN : SetAlarm(set)

Spec == Init /\ [][Next]_vars

(* What the assertion at the head of KeCompleteSignal says: the signal whose *)
(* handler ends is one that is being handled.                               *)
NoCompletePanic == ~panic
=============================================================================
