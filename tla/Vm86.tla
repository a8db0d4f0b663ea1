--------------------------------- MODULE Vm86 ---------------------------------
(***************************************************************************)
(* The one virtual 8086 thread of the kernel and the drivers that have it   *)
(* run BIOS programs for them (src/kernel/vm86/vm8086.cpp).  A driver calls *)
(* start8086, perhaps polls getOutput8086 until it has so many bytes        *)
(* (src/drivers/VESA), and finish8086; it polls two flags, and the thread   *)
(* blocks itself.                                                          *)
(*                                                                         *)
(* What is between lockScheduler and unlockScheduler is one step, but for   *)
(* the file that start8086 reads there: an ATA driver sleeps while its disk *)
(* is busy (src/kernel/hw/diskphys/ata.cpp:35-50), and other threads run.   *)
(* A program is what it writes to port 0xFEFE and the eax it ends with.     *)
(***************************************************************************)
EXTENDS Integers

CONSTANTS
  Client,       \* threads that use the drivers
  Polling,      \* those whose driver waits for output (VESA; VGA does not)
  Wanted,       \* the bytes such a driver waits for: 12
  CommsSize,    \* bytes of vmToHostComms: 32
  None

ASSUME Vm86Assumption ==
  /\ Polling \subseteq Client
  /\ Wanted \in Nat \ {0}
  /\ CommsSize \in Nat \ {0}
  /\ None \notin Client

(* Programs are told apart by their client and, as a client starts one after *)
(* the other, by a number that alternates.  A program's arguments, image,   *)
(* output and return value stand for the program.                           *)
Program == Client \X {0, 1}
NoProgram == <<None, 0>>

VARIABLES
  vmReady, vmDone, vmRetV,
  vm86IP,               \* the arguments the thread starts a program with
  image,                \* the program in memory, where all are loaded
  vmToHostComms, vmToHostCommsPtr,
  place,                \* what the thread runs, or is blocked in
  paused,               \* it is blocked
  pc,                   \* [Client -> where it is]
  program,              \* [Client -> its program]
  got,                  \* [Client -> what it has been given by it]
  totalGot,             \* [Client -> bytes counted; Wanted + 1 stands for more]
  panic,
  overlapped,           \* history: two calls of start8086 read their files at once
  misread               \* history: clients whose file was not read as it is

vmVars == <<vmReady, vmDone, vmRetV, vm86IP, image>>
commsVars == <<vmToHostComms, vmToHostCommsPtr>>
threadVars == <<place, paused>>
clientVars == <<pc, program, got, totalGot>>
loadVars == <<panic, overlapped, misread>>
vars == <<vmVars, commsVars, threadVars, clientVars, loadVars>>

Init ==
  /\ vmReady = FALSE
  /\ vmDone = FALSE
  /\ vmRetV = NoProgram
  /\ vm86IP = NoProgram
  /\ image = NoProgram
  /\ vmToHostComms = [i \in 0 .. CommsSize - 1 |-> NoProgram]
  /\ vmToHostCommsPtr = 0
  /\ place = "mainloop2"
  /\ paused = FALSE
  /\ pc = [c \in Client |-> "idle"]
  /\ program = [c \in Client |-> <<c, 0>>]
  /\ got = [c \in Client |-> {}]
  /\ totalGot = [c \in Client |-> 0]
  /\ panic = FALSE
  /\ overlapped = FALSE
  /\ misread = {}

-----------------------------------------------------------------------------
(* The thread. *)

(* Mutant: ready before it has blocked, without the lock. *)
Mainloop2Unlocked ==
  /\ \/ place = "mainloop2" /\ vmReady' = TRUE /\ place' = "blocking" /\ UNCHANGED paused
     \/ place = "blocking" /\ paused' = TRUE /\ place' = "ready" /\ UNCHANGED vmReady
  /\ UNCHANGED <<vmDone, vmRetV, vm86IP, image, commsVars, clientVars, loadVars>>

Mainloop2 ==
  /\ place = "mainloop2"
  /\ vmReady' = TRUE
  /\ paused' = TRUE
  /\ place' = "ready"
  /\ UNCHANGED <<vmDone, vmRetV, vm86IP, image, commsVars, clientVars, loadVars>>

(* goToVM86, once start8086 has unblocked the thread. *)
GoToVM86 ==
  /\ place = "ready" /\ ~paused
  /\ place' = "program"
  /\ UNCHANGED <<vmVars, commsVars, paused, clientVars, loadVars>>

(* Mutant: the pointer leaves the buffer. *)
PtrBeyond(i) == i + 1
PtrAfter(i) == IF i + 1 = CommsSize THEN CommsSize - 1 ELSE i + 1

(* outbv, in the general protection fault of an OUT: the last byte of the   *)
(* buffer is written again and again.                                       *)
Outbv ==
  /\ place = "program"
  /\ vmToHostComms' = [vmToHostComms EXCEPT ![vmToHostCommsPtr] = image]
  /\ vmToHostCommsPtr' = PtrAfter(vmToHostCommsPtr)
  /\ UNCHANGED <<vmVars, threadVars, clientVars, loadVars>>

(* int 0xEE at the end of the program. *)
Mainloop3 ==
  /\ place = "program"
  /\ vmDone' = TRUE
  /\ vmRetV' = image
  /\ paused' = TRUE
  /\ place' = "done"
  /\ UNCHANGED <<vmReady, vm86IP, image, commsVars, clientVars, loadVars>>

(* mainloop3 goes on, once finish8086 has unblocked the thread. *)
Finished ==
  /\ place = "done" /\ ~paused
  /\ place' = "mainloop2"
  /\ UNCHANGED <<vmVars, commsVars, paused, clientVars, loadVars>>

-----------------------------------------------------------------------------
(* The drivers.  A poll that finds its flag false changes nothing. *)

(* Mutants: what start8086 does but for one statement. *)
StillReady == UNCHANGED vmReady
NotReady == vmReady' = FALSE
SameComms == UNCHANGED commsVars
ClearComms ==
  /\ vmToHostComms' = [i \in 0 .. CommsSize - 1 |-> NoProgram]
  /\ vmToHostCommsPtr' = 0

(* start8086 up to the file. *)
Start(c) ==
  /\ pc[c] = "idle"
  /\ vmReady
  /\ vm86IP' = program[c]
  /\ ClearComms
  /\ pc' = [pc EXCEPT ![c] = "loading"]
  /\ overlapped' = (overlapped \/ \E d \in Client : pc[d] = "loading")
  /\ UNCHANGED <<vmReady, vmDone, vmRetV, image, threadVars, program, got, totalGot, panic, misread>>

(* The file is in memory, and start8086 goes on up to unlockScheduler.  It   *)
(* ignores the result of reading the file: after a failure the old program  *)
(* is still there, or half of each.                                         *)
Load(c) ==
  /\ pc[c] = "loading"
  /\ \/ image' = program[c] /\ misread' = misread \ {c}
     \/ image' \in {image, NoProgram} /\ misread' = misread \cup {c}
  /\ NotReady
  /\ pc' = [pc EXCEPT ![c] = "started"]
  /\ UNCHANGED <<vmDone, vmRetV, vm86IP, commsVars, threadVars, program, got, totalGot,
                 panic, overlapped>>

(* The file is a directory or cannot be opened. *)
FilePanic(c) ==
  /\ pc[c] = "loading"
  /\ panic' = TRUE
  /\ UNCHANGED <<vmVars, commsVars, threadVars, clientVars, overlapped, misread>>

(* Its unblockTask; the driver goes on to wait for output or for the end.   *)
StartUnblock(c) ==
  /\ pc[c] = "started"
  /\ paused' = FALSE
  /\ pc' = [pc EXCEPT ![c] = IF c \in Polling THEN "polling" ELSE "finishing"]
  /\ UNCHANGED <<vmVars, commsVars, place, program, got, totalGot, loadVars>>

(* getOutput8086, with interrupts on: it copies the bytes, then reads how    *)
(* many there are once more, then empties the buffer.                       *)
GetOutput(c) ==
  /\ pc[c] = "polling"
  /\ pc' = [pc EXCEPT ![c] = "copied"]
  /\ got' = [got EXCEPT ![c] = @ \cup {vmToHostComms[i] : i \in 0 .. vmToHostCommsPtr - 1}]
  /\ UNCHANGED <<vmVars, commsVars, threadVars, program, totalGot, loadVars>>

CountOutput(c) ==
  /\ pc[c] = "copied"
  /\ pc' = [pc EXCEPT ![c] = "counted"]
  /\ totalGot' = [totalGot EXCEPT ![c] =
       IF @ + vmToHostCommsPtr <= Wanted THEN @ + vmToHostCommsPtr ELSE Wanted + 1]
  /\ UNCHANGED <<vmVars, commsVars, threadVars, program, got, loadVars>>

(* The driver polls again unless it has exactly as many as it wants. *)
EmptyComms(c) ==
  /\ pc[c] = "counted"
  /\ vmToHostCommsPtr' = 0
  /\ pc' = [pc EXCEPT ![c] = IF totalGot[c] = Wanted THEN "finishing" ELSE "polling"]
  /\ UNCHANGED <<vmVars, vmToHostComms, threadVars, program, got, totalGot, loadVars>>

(* Mutant: the flag stays. *)
StillDone == UNCHANGED vmDone
NotDone == vmDone' = FALSE

(* finish8086, and the driver has its answer. *)
Finish(c) ==
  /\ pc[c] = "finishing"
  /\ vmDone
  /\ got' = [got EXCEPT ![c] = {vmRetV}]
  /\ NotDone
  /\ paused' = FALSE
  /\ pc' = [pc EXCEPT ![c] = "answered"]
  /\ UNCHANGED <<vmReady, vmRetV, vm86IP, image, commsVars, place, program, totalGot, loadVars>>

(* The driver returns; next time it will be for another program. *)
Return(c) ==
  /\ pc[c] = "answered"
  /\ pc' = [pc EXCEPT ![c] = "idle"]
  /\ program' = [program EXCEPT ![c] = <<c, 1 - @[2]>>]
  /\ got' = [got EXCEPT ![c] = {}]
  /\ totalGot' = [totalGot EXCEPT ![c] = 0]
  /\ UNCHANGED <<vmVars, commsVars, threadVars, loadVars>>

-----------------------------------------------------------------------------
Thread == Mainloop2 \/ GoToVM86 \/ Outbv \/ Mainloop3 \/ Finished

Driver(c) ==
  \/ Start(c) \/ Load(c) \/ FilePanic(c) \/ StartUnblock(c)
  \/ GetOutput(c) \/ CountOutput(c) \/ EmptyComms(c)
  \/ Finish(c) \/ Return(c)

Next == ~panic /\ (Thread \/ \E c \in Client : Driver(c))

Spec == Init /\ [][Next]_vars

(* Threads that can run do, and a disk answers; a program that was read as   *)
(* it is ends.  Nothing makes a driver start a program, and nothing makes    *)
(* one that polls get the bytes it waits for.                               *)
FairSpec ==
  /\ Spec
  /\ WF_vars(~panic /\ (Mainloop2 \/ GoToVM86 \/ Finished))
  /\ WF_vars(~panic /\ image # NoProgram /\ Mainloop3)
  /\ \A c \in Client :
       WF_vars(~panic /\ (Load(c) \/ StartUnblock(c) \/ CountOutput(c) \/ EmptyComms(c)
                            \/ Finish(c) \/ Return(c)))

-----------------------------------------------------------------------------
Places == {"mainloop2", "ready", "program", "done"}
Running == {"started", "polling", "copied", "counted", "finishing"}
InCall == Running \cup {"loading"}

(* The types; vmToHostCommsPtr is always the index of a byte of the buffer,  *)
(* however much the program writes.                                         *)
TypeOK ==
  /\ vmReady \in BOOLEAN /\ vmDone \in BOOLEAN /\ paused \in BOOLEAN
  /\ vmRetV \in Program \cup {NoProgram} /\ vm86IP \in Program \cup {NoProgram}
  /\ image \in Program \cup {NoProgram}
  /\ vmToHostComms \in [0 .. CommsSize - 1 -> Program \cup {NoProgram}]
  /\ vmToHostCommsPtr \in 0 .. CommsSize - 1
  /\ place \in Places
  /\ pc \in [Client -> InCall \cup {"idle", "answered"}]
  /\ program \in [Client -> Program]
  /\ got \in [Client -> SUBSET (Program \cup {NoProgram})]
  /\ totalGot \in [Client -> 0 .. Wanted + 1]
  /\ panic \in BOOLEAN /\ overlapped \in BOOLEAN
  /\ misread \subseteq Client

(* As long as no two calls have read their files at once, the thread serves *)
(* one driver at a time, with that driver's arguments and, if its file was  *)
(* read, that driver's program in memory.                                   *)
OneAtATime ==
  ~overlapped =>
    \A c \in Client :
      /\ pc[c] \in InCall => vm86IP = program[c] /\ \A d \in Client : pc[d] \in InCall => c = d
      /\ pc[c] \in Running /\ c \notin misread => image = program[c]

(* As long as no two calls have read their files at once, finish8086 returns *)
(* what the caller's own program, the one just started, has ended with:     *)
(* nothing from another driver and nothing left over from an earlier one.   *)
OwnAnswer ==
  ~overlapped =>
    \A c \in Client \ misread : pc[c] = "answered" => got[c] = {program[c]}

(* Under the same condition what getOutput8086 has copied comes from the     *)
(* caller's own program.                                                    *)
OwnOutput ==
  ~overlapped =>
    \A c \in Client \ misread : pc[c] \in Running => got[c] \subseteq {program[c]}

(* A driver that does not wait for output gets its answer once its program   *)
(* has started, unless its file was misread, two calls have overlapped or   *)
(* the system has stopped.                                                  *)
RequestsEnd ==
  \A c \in Client \ Polling :
    pc[c] = "started" ~> pc[c] = "answered" \/ c \in misread \/ overlapped \/ panic
=============================================================================
