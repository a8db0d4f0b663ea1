----------------------------- MODULE MCScheduler -----------------------------
(***************************************************************************)
(* Instances of Scheduler for TLC.  K is the "System" process with the     *)
(* main thread and the cleaner, I the idle process; Sh is a process that   *)
(* was started without a parent, with up to two threads, Ch its child; Job *)
(* is a child of the kernel process.                                       *)
(***************************************************************************)
EXTENDS Scheduler

CONSTANTS main, idle, cleaner, sh1, sh2, ch, job, K, I, Sh, Ch, Job

FamilyThreads == {main, idle, cleaner, sh1, ch}
PthreadThreads == {main, idle, cleaner, sh1, sh2}
OneUserThread == {main, idle, cleaner, job}
AllProcesses == {K, I, Sh, Ch, Job}

Owner(t) == CASE t \in {main, cleaner} -> K
              [] t = idle -> I
              [] t \in {sh1, sh2} -> Sh
              [] t = ch -> Ch
              [] t = job -> Job

MCprocessOf == [t \in Thread |-> Owner(t)]

MCparent == [p \in Process |-> CASE p = K -> Null
                                 [] p = I -> K
                                 [] p = Sh -> Null
                                 [] p = Ch -> Sh
                                 [] p = Job -> K]
=============================================================================
