# Banana OS in TLA+

This directory specifies the kernel of Banana OS (`src/kernel/`), a 32-bit
preemptive kernel for one x86 processor, in TLA+. TLC checks the specifications
on small instances, and TLAPS proves the most important facts for every value of
the constants.

The kernel has a single processor, so it has one source of concurrency, the
interrupts. Everything else follows from it: code that runs with interrupts on
may be interrupted, and switched away from, between any two instructions; code
that runs with interrupts off is atomic up to the point where it calls the
scheduler itself.

## 1. Inventory

| part | state | operations | what it talks to | what is hard |
|---|---|---|---|---|
| **Scheduler** `thr/prcssthr.*`, `hal/timer.cpp`, `krnl/idle.cpp` | current thread, run queue, list of sleepers, list of terminated threads, per thread: state, slice, wake-up time, what it waits for; the depth of the interrupt lock, the postponing of switches | create, yield, sleep, `waitpid`, pause, exit, the cleaner thread, the timer interrupt | everything | switches that are postponed, wake-ups that come before the thread has blocked, one next pointer for all lists, a cleaner that must not miss its wake-up, slices that run out |
| **Linked lists** `krnl/linkedlist.hpp` | first, last, length, next pointer in the element | `addElement`, `removeFirst` | scheduler, timer | an element in two lists; an interrupt in the middle |
| **Semaphore, mutex** `krnl/semaphore.cpp`, `krnl/mutex.cpp` | count, first and last waiting thread | `tryAcquire`, `acquire`, `acquire(ms)`, `release` | scheduler; uses the threads' next pointer too | hand-over, lost wake-ups, stale pointers |
| **Sector cache** `hal/vcache.cpp` | a block kept for reading, a run of sectors waiting to be written | `read`, `write`, `writeWriteBuffer`, `invalidateReadBuffer` | disk drivers below, `hal/logidisk.cpp` above | stale blocks, reads that overtake writes, full buffers, drivers that sleep, failing disks |
| **Signals, alarms** `krnl/signal.cpp`, `thr/alarm.cpp`, `sys/kill.cpp` | handlers, a ring of 8 pending signals per process, a saved context per thread, and one pointer to the last one used | register, raise, check on return from an interrupt, complete | scheduler, keyboard, interrupts | raise interrupted by delivery, nested handlers, signals behind the base of the ring |
| **Pipes, mailboxes** `krnl/pipe.cpp`, `krnl/mailbox.cpp` | a buffer, its length | read, write; post, get | scheduler (they poll with `schedule()`), semaphores | length read, tested and updated without a lock |
| **Physical memory** `krnl/physmgr.cpp` | a bitmap of pages, a DMA area, free counts | allocate, free, contiguous, DMA | virtual memory (eviction when it is out of pages) | re-entrance through eviction, the last page |
| **Virtual memory, swap** `krnl/virtmgr.cpp` | page tables, swap bitmap, locks on pages, the clock hand of eviction | allocate, free, map, evict, load back, share | physical memory, page faults, disks | a page evicted while used, locked or shared; faults within faults |
| **Virtual 8086** `vm86/vm8086.cpp` | a shared request block, a thread that runs BIOS code | `start8086`, `finish8086`, the monitor | scheduler, faults | the hand-shake between requester and monitor |
| **File handles, VFS** `fs/vfs.cpp`, `krnl/unixfile.cpp` | tables of open files and of their owners | open, close, read, seek, duplicate | disks, pipes, terminals | handles used after close, two threads in one file |
| **Symbolic links** `fs/symlink.cpp` | the link table | add, resolve | VFS | cycles |
| **Logical disks** `hal/logidisk.cpp` | drive letters, partitions | mount, unmount, read, write | VFS, sector cache | limits of partitions |
| **Interrupt handlers** `arch/i386/intctrl.cpp` | four handlers per line | install, uninstall, convert to a static one | drivers | chains that change while they are walked |
| **Keyboard, terminal** `hal/keybrd.cpp`, `krnl/terminal.cpp` | key state, input buffer, screen | key event, read line | signals, scheduler | raising signals from an interrupt |
| **Power, exit routines, environment** `krnl/powctrl.cpp`, `krnl/atexit.cpp`, `krnl/env.cpp` | registries | register, run, set, get | all | what is still unwritten at shutdown |
| **System calls** `krnl/syscalls.cpp` | a table | dispatch | all | - |
| **Heap, registry, ELF loader, boot, drivers, applications** | - | - | - | vendored allocator, file formats, register-level I/O |

What makes each part correct, as far as it is stated here or planned:

* Scheduler: the lock counters always fit the code that runs; no thread is in
  two lists, or in none; no blocked thread goes on; every runnable thread, every
  sleeper, every thread in `waitpid` and every terminated thread is served.
* Lists: no interleaving makes the consistency tests of `linkedlist.hpp` panic.
* Semaphore: permits are never more than `maxCount`, go to the threads in order,
  and no wake-up is lost.
* Sector cache: invisible but for what the drive itself loses; a read returns what was written last; the buffers are
  not overrun.
* Signals: each raised signal is delivered once, a handler finishes before the
  next one needs the save area, a thread that pauses wakes up.
* Pipes: a byte is read once and in order; a full or empty pipe blocks.
* Physical memory: no page has two owners and none is lost; allocation fails only when nothing can be evicted.
* Virtual memory: what is read at an address is what was written there last,
  evicted or not; a locked page stays.
* Virtual 8086: one request at a time, and each request gets its own answer.
* VFS: a handle refers to one file from open to close.

`PROJECT.json` has the list of the hazards, each at its line, with the
properties that would catch it.

## 2. Plan

Order: what everything else depends on first.

1. **Scheduler** with `MCScheduler`; `SchedulerProofs` (locks and types) and
   `SchedulerSafety` (lists) and `SchedulerWakeups` (the cleaner and waitpid). *Done.*
2. **LinkedList**, **Semaphore** refining **CountingSemaphore**, with `SemaphoreLists` and
   `SemaphoreProofs`; **CreateThread**. *Done.*
3. **VCache** refining **Disk**, with `VCacheProofs`; **VCacheThreads**. *Done.*
4. **Paging**: frames, page tables, eviction and the swap file, preempted anywhere, with
   `MCPaging` and `PagingProofs`. *Done*; processes of several threads are left, and so are proofs of
   `FramesHaveOneOwner` and `OwnData`.
5. **Vm86**, the hand-shake of drivers and the virtual 8086 thread, with
   `MCVm86` and `Vm86Proofs`. *Done.*
6. **Signals** of a process with one thread. *Done*; system calls that are
   interrupted and processes with several threads are left.
7. Theorems: the invariants of the passing runs and each refinement. *Done* but for two invariants of
   `paging`; liveness stays with TLC (end of section 6).

## 3. Modules

| module | models | checked / proved in |
|---|---|---|
| `Scheduler` | scheduler, timer, cleaner | `MCScheduler`, `SchedulerProofs`, `SchedulerSafety`, `SchedulerWakeups` |
| `LinkedList` | `LinkedList<ThreadControlBlock>` as operators on a heap of next pointers | through `Semaphore`; `SemaphoreLists` |
| `CountingSemaphore` | what a semaphore promises | - |
| `Semaphore` | `class Semaphore` and its share of the scheduler | `MCSemaphore`, `SemaphoreProofs` |
| `CreateThread` | `Process::createThread` taken apart, on top of `Semaphore` | itself |
| `Disk` | what a cached disk promises | - |
| `VCache` | `class VCache` | `MCVCache`, `VCacheProofs` |
| `VCacheThreads` | overlapping calls of it, over a driver that sleeps | itself |
| `Paging` | `Phys::allocatePage`, `freePage`, `class VAS`'s user pages, the swap file | `MCPaging`, `PagingProofs` |
| `Vm86` | `start8086`, `getOutput8086`, `finish8086`, `mainloop2`, `mainloop3` and the drivers that call them | `MCVm86`, `Vm86Proofs` |
| `Signals` | `signal.cpp` and the return from interrupts | itself |

### Scheduler

*State.* The variables have the names of the source. `taskList`,
`sleepingTaskList` and `terminatedTaskList` are sequences of threads here (their
pointers are the business of `LinkedList` and `Semaphore`). `sleepLeft` is
`sleepExpiry - milliTenthsSinceBoot`, so that the clock itself is no state.
`pc[t]` is where thread `t` goes on, `isr[t]` where the timer interrupt that
interrupted it goes on: a switch inside the interrupt leaves the rest of the
handler on the stack of the thread it interrupted, and `isr` is per thread for
that reason.

*Steps.* A step is a stretch of code with interrupts off, cut around each call of
`schedule()` and at each change of the depth of the interrupt lock after one, or
one access to shared state with interrupts on. `milliTenthSleepUntil` is
`SleepCall`, `SleepTooLate`/`SleepChecked`, `SleepEnqueue`, `SleepBlock`,
`SleepSchedule`, `SleepUnlock`, `SleepUnlockStuff`, `Unlock`, and the clock may
tick between the first ones. A step names the place it leaves and the place it
goes to (`Goto`), and a thread that is switched back to goes on at its place.

*What is left out.* `KeDisablePreemption`'s counter: `PreemptionValues` says what
the timer may find: both values in `family`, on in the others. Slices above `MaxSlice` are
told apart nowhere in the code and are kept at `MaxSlice + 1`. `addElement` in
`createThread` is one step here (see `CreateThread` for what it is not). The
threads of a process come in any order in the cleaner's loop, in slot order in the
code. `KeProcessFromPID`, which rotates the run queue once
around with interrupts off, is no step. `vm86` tasks,
program loading and accounting (`timeKeeping`) are left out.

*Unsupported arguments.* `waitpid` passes what it is given on unchecked (`syscalls.cpp:439`), and the cleaner
calls `KePanic` when it meets a thread that waits for 0 or for less than -1 (`prcssthr.cpp:316-317, 324-325`). `Unsupported`
stands for both, `CleanPanic` is that call, and the system stops at `KePanic`. `SpecialPIDs` says which special
arguments threads pass: both in `family`, -1 alone in the other runs.

*Undefined behaviour.* For a process without a parent
`cleanupTerminatedTask` reads `parent->terminal` through a null pointer
(`prcssthr.cpp:337`). What is at that address is never a terminal the process
uses; the model takes it to differ.

### Semaphore, LinkedList, CreateThread

`LinkedList` has one function `next` for all threads, the first, last and length
of each list, and a flag that is raised where the code calls `KePanic`. `Semaphore`
runs the operations of `semaphore.cpp` on it, next to as much of the scheduler as
moves threads between the run queue, the list of sleepers and the queue of the
semaphore: all three use the same pointer. All the operations have interrupts off
until the switch at their end, so each is one step; the timer's loop over the
sleepers is one step a turn.

At the start the threads are in the run queue; `HeapOf` is the heap that adding them one
after the other with `addElement` leaves. `permits` is a history variable: what `acquire` has
granted to whom. `CountingSemaphore` is the abstract specification: the permits each thread
holds, of which there are `maxCount` in all (`Held`), and a FIFO of waiting threads. The mapping is `waiters <- Waiters`, the chain that starts at
`firstWaitingTask`. `acquire(ms)` never gives up in the code (`semaphore.cpp:46-63`
loops until it has the permit), so it takes a permit when it finds one
(`TimedSucceeds`) and maps to `Take`.

A semaphore whose holder is gone, or that is released by a thread that holds
nothing, is not modelled: `release` by a stranger makes `currentCount` negative in
the code and no caller does it.

`CreateThread` is `Semaphore` plus one thread that is inside
`Process::createThread`, whose `addElement` takes a step per statement. The last one,
`last->next = nullptr`, reads `last` again, and the interrupt may come between that read and the store (`EndChain`).

### VCache

A call of `read` or `write` is a step: both begin with `KeDisablePreemption()`, and
the SATA driver below polls with interrupts off. Locking the pages of the caller's
buffer (`canLockPages`, `lockPages`) is left out: the buffer is a value here.

*The drive may fail.* `writeWriteBuffer()` ignores the result of `disk->write`, and `SATA::write` those of its accesses,
of which there is one per sector (`sata.cpp:239-262`): each sector that is written may be lost, whatever is returned
(`missed`, `skipped`). A read may return an error. `read()` says that the block is valid before it asks for it
(`vcache.cpp:145-146`), so after an error the block is valid with any part of it new (`LoadBlock`), which
`loadFailed` records.

*Refinement.* What callers should see is the disk with the waiting sectors on it, `Flushed({})`. `Disk` has, beside the
contents, the sectors that still can be lost (`Waiting`) and those whose reads may return anything (`Unread`: the block
whose load has failed, until a write, a direct read or another block). A step may lose what
waits and what it writes, nothing else, and no read but one of an unread sector returns anything but the contents.
`lastCall` is the interface: the call, its data, its result and what was lost in it. `PartialCounts` are the lengths of
writes of which `Disk` promises the first sector only: `ReadsReturnLastWrite` has those that fit in
the buffer there, because `vcache.cpp:103` copies one sector; `WritesAreWhole` has none. `Purge` is what a change of medium
does (`satapi.cpp:255-258`).

`VCacheThreads` is for the ATA driver, which sleeps in `readyForCommand` while the disk
is busy: a thread that sleeps is switched away from whether preemption is on or not.
There a call is cut at each wait for the disk (`place`), with what it asked the disk
for (`access`) and its arguments (`call`). Between the end of a wait and the next one the
driver polls, so that stretch is one step.
In both modules block numbers are taken modulo the block size, as the mask in
`vcache.cpp` does for powers of two.

### Paging

Variables have the names of the source where it has one. `bitmap` is the set of
frames marked allocated, `entry` the page table entries of each process, with the
four bits that anything depends on, `tables` its page directory. `call[p]` holds the locals
of the thread that is in the kernel: `allocatePage` is called for a page, for a
page table or for a page to load (`goal`), and the caller goes on at its goal.

*Who runs when.* System calls run with interrupts on (`interrupt.s:259-263`), and `keIsPreemptionOn` is TRUE before the
first user process exists (`src/drivers/sysinit/sysinit/main.cpp:2059`, `2083`). A page fault starts with interrupts off, but
an ATA disk sleeps in `evict` and in `tryLoadBackOffDisk`. So a thread may be anywhere in its call while another one runs, and
every step makes at most one access to what processes share: the test of a frame (`Search`), the store of the bitmap's
byte (`setPageState`, in `Take`, `Free`, `Reclaim`), the read of `currentPagePointer` for the result (`Return`), the test and
the store of a swap slot (`FindSlot`, `MarkSlot`, `FreeSlot`), the write to the slot (`SwapOut`), the page table entry (`Unmap`),
the entry, the read and the slot of a page that comes back (`LoadEntry`, `LoadRead`, `FreeSlot`). `Scan` is the part of
`scanForEviction` up to a page that it evicts or up to its wrap: it looks at the caller's own pages, which no other
process touches. `Exit` is `~VAS`, which the cleaner runs under `lockScheduler` and without a disk.

*What goes wrong, and what does not.* `setPageState` and the swap bitmap write a whole byte or word back, so the bit of
another process may get lost; two processes may take the frame that both have found free; `allocatePage` returns where
`currentPagePointer` is by then, not the frame that it has marked. Each of these acts on something that has changed since it
was looked at, and sets the history variable `collided`. After that two processes may share a frame or a slot: the code has
these races, and no comment in it says otherwise. `FramesHaveOneOwner`, `SlotsApart` and `OwnData` say that nothing else
breaks: no other order of the steps above, with evictions, loads and exits in it. `TypeOK`,
`OutOfMemoryIsTrue` and `BreakIsBacked` hold with collisions as well. `missed` records that the disk has failed, whose
results `evict` and `tryLoadBackOffDisk` both ignore: `OwnData` holds until then.

An access may leave the accessed flag clear (`Access`): `scanForEviction` clears it
in the page table without flushing the processor's copy.

Left out: processes of several threads, `usedPages` (which loses counts in the same way, and which only the
display reads), `lockPage` and `unlockPage` (which take the swappable flag), copy-on-write and shared
pages, kernel pages, the pages of the program itself and of its directory, and the size of `swapfileBitmap`, of which
`setupPageSwapping` allocates as many bytes as it needs words (`virtmgr.cpp:237`).

### Vm86

Everything between `lockScheduler` and `unlockScheduler` is a step, with one exception: `start8086` reads its file there
(`vm8086.cpp:191-218`), between the test of `vmReady` and its reset. `lockScheduler` does not keep others away from the
processor when the driver of the disk sleeps, so `Start` and `Load` are two steps, and a second driver may start between them.
`overlapped` records that two calls have been there at once. From then on both drivers wait for one thread, with one buffer and
one image in memory, and nothing in the code promises them anything; `OneAtATime`, `OwnAnswer` and `OwnOutput` say that they are
served one after the other, each with its own answer, up to there. The file may not exist (`FilePanic`), and the result
of reading it is ignored: the old image stays, or half of each (`misread`).

Each of the three statements of `getOutput8086` that touch shared state is a step; it has no lock. A driver in `Polling`
is VESA's: it polls until it has counted exactly `Wanted` bytes (`src/drivers/VESA/VESA/main.cpp:71-79`; 12 there), and only
then calls `finish8086`. As bytes are dropped, or counted without being copied, between those statements it may poll for ever. A
program is identified by its driver and an alternating number; its arguments, its image, its output bytes and its return value
stand for it, so `OwnAnswer` and `OwnOutput` compare them with what the driver has started. Which port or
instruction the program uses otherwise is the emulator's business.

### Signals

`shb` is the `SigHandlerBlock`; `code` is the stack of handlers that have begun and not ended, and
`area` the one `signalStateHandler` of the thread: what it holds is where the thread goes on when a
handler ends, whichever one that is. `Found` steps through the ring by two because the loop
of `KeCheckSignal` moves its base and its index at the same time. `KiCheckSignalZ` looks for nothing while preemption is off
(`signal.cpp:163`), which a return from an interrupt may find in the middle of a disk transfer of another thread: `Return` has
that alternative. `masks` is not cleared by `KeInitSignals`
(`sizeof(obj)` is the size of the pointer), so it starts with anything.

## 4. Runs

| run | instance | shows |
|---|---|---|
| `family` | a process without a parent, its child, main, idle and cleaner; sleeps of one tick; preemption on or off; `waitpid` with any argument | `TypeOK`, `LocksMatch`, `ListInv`, `RunningWhenOn`, `CleanerKnows`, `WaitReportsFinishedChild` |
| `pthread` | two threads in one process; sleeps of no tick; preemption on | `InOneList`, `NoThreadLost`, `SliceLeft` |
| `live` | one user thread, preemption on | `NoStarvation`, `SleepersWake`, `TerminatedAreCleaned`, `WaitersWake` |
| `cache` | 4 sectors, blocks of 2, a write buffer of 3; writes of 1, 2 or 3 sectors, reads of 1 or 2; a drive that fails | `TypeOK`, `ReadCacheFresh`, `WriteCacheFits`, `ReadsReturnLastWrite` |
| `cache_blocks` | the same with writes of 1 or 2 sectors | `WritesAreWhole` is **violated** |
| `permits` | 3 threads, 2 permits | `TypeOK`, `NoListPanic`, `EachInOneChain`, `CountsPermits` |
| `permits_live` | 2 threads, 1 permit | `WaitersAreServed` |
| `cache_threads` | the cache of `cache` with a write buffer of 2, writes and reads of one sector; 2 threads | `NoOverrun` is **violated** |
| `create_thread` | 3 threads, one of them being created | `NoListPanic` is **violated** |
| `paging` | 2 processes, 2 frames, 3 pages each over 2 page tables, 2 slots; a disk that fails | `TypeOK`, `FramesHaveOneOwner`, `SlotsApart`, `OwnData`, `OutOfMemoryIsTrue`, `BreakIsBacked`, `CallsEnd` |
| `vm86` | 3 drivers, one of which polls for 2 bytes, a buffer of 2 bytes; files that are misread or missing | `TypeOK`, `OneAtATime`, `OwnAnswer`, `OwnOutput`, `RequestsEnd` |
| `signals` | 3 signals, `SIGALRM` and `SIGKILL` among them; two handlers deep | `NoCompletePanic` is **violated** |

*Bounds, and why they are enough.* The `family` instance has the smallest set of
processes in which a terminal has an owner and an heir, a parent waits for a child,
the cleaner and a sleeper race with an exit, and a process ends while its child goes
on. Slots are reused after the cleaner has freed them, which `pthread` does with the
process still alive. Processes are not reused: the code makes a new one for each
`spawn`. Sleeping for one tick lets the wake-up time pass in between the two
readings of the clock, and the list of sleepers gets long enough (two in `family`,
three threads can sleep) that the timer's loop rotates, wakes the one it started
from, and wakes one in the middle. `Quantum = 1 = MaxSlice` makes every slice end at
the first tick and exercises the mending of slices; `SliceLeft` is proved for slices of any length.
In the cache two blocks are enough for a hit, a miss and a replacement, and a buffer of
three for an empty, a part-filled and a full one, with runs that cross blocks. Three
threads with two permits give a semaphore with holders and two waiters at a time, and
leave one in `acquire(ms)` meanwhile.

Two frames make two processes compete, a process evict its own pages and then run out
of them, and a page table need an eviction while the frame of its page is already taken; loading a page
back while everything is full takes a second slot, and two slots are used up as well. The first page is in the page table that every
process has, the last one begins another, and the scanner starts anywhere in its round. `SysSbrk` is asked for two pages or three: one
call runs over the table's end and past the frames. `CONSTRAINT UpToCollision` makes TLC go on from a state only while it is
neither `collided` nor `missed`: the states behind the first such step are checked, what follows them is not. `FramesHaveOneOwner`,
`SlotsApart`, `OwnData` and `CallsEnd` say nothing of what follows; the other three are proved for it. `VIEW UsedView` leaves
out what free frames and unused slots hold, which nothing reads.

Three drivers leave two that poll for a flag at once, one of them a driver that waits for output. `CONSTRAINT UpToOverlap` ends the
search at the first overlap in the same way; `TypeOK` is proved beyond it. `cache` has `VIEW CacheView`, which leaves out the
record of the last call, read by the step that makes it only, and symmetry in the values of a sector.

No counter is unbounded: time is relative, slices and sleeps are capped by the
constants, permits by `maxCount`, and the depth of the lock by the code. The depth of
handlers within handlers is bounded by `MaxDepth`, where no more interrupts come. `paging`, `vm86` and `signals`
switch the deadlock check off: a panic, and an exit in `Signals`, stop the system.

*The four violations.* `cache_blocks`: `VCache::write` copies
`disk->sectorSize` bytes of a run of `count` sectors (`vcache.cpp:103`) but counts
`count` sectors, so that the others come from what the buffer held before.
`create_thread`: `Process::createThread` calls `taskList.addElement` with interrupts
on (`prcssthr.cpp:119`, reached from `syscalls.cpp:573` and `sys/pthread.cpp:28`); a
tick after `last->next = element` lets `schedule()` add the interrupted thread and overwrite that link, `addElement` goes on and makes the
new thread the last element, and a later `removeFirst` finds a first element without a next one in a list that counts three:
`KePanic("first->next == nullptr, but length = 1")` (`linkedlist.hpp:78-83`). `cache_threads`: the thread that fills
the write buffer sleeps in `disk->write`, the buffer is still valid, and a second
thread appends a sector past its end (`vcache.cpp:84`); after that the test for equality
with the limit is never true again. `signals`: a process
has handlers for two signals; the second one is delivered while the handler of the first runs (a mask holds
the handler's own signal only, `signal.cpp:125`), and takes the area over. When it ends
the area's signal becomes 0, and when the first one ends
`KeCompleteSignal(shb, 0)` panics (`signal.cpp:236-238`).

*Mutants.* Each property of a passing run has a variant of a definition, marked
`Mutant:` in the modules, that stands for a plausible slip (a lock that does
not nest, a postponed switch that is forgotten, a test of a flag left out, an element
that is not ended, an off-by-one), and that violates the property in that run.

## 5. Fairness

`Scheduler!Fairness`:

* `SF(Tick)`: the timer interrupts again and again. Strong, because interrupts go off
  and on; an interrupt that comes while they are off stays pending in the controller
  and is taken when they come on.
* `WF(Interrupt)`: an interrupt handler that has started goes on.
* `SF(KernelStep(t))`: a thread that gets the processor again and again executes the
  next step of the kernel code it is in. Strong, because preemption takes the processor
  away; the handler takes far less time than passes between two ticks. Only kernel code
  is fair: `Request`, what a thread asks for, is not, so a thread may compute for
  ever, never exit and never yield. The idle thread's loop is the exception, its whole
  code being `yield`.

`Paging!FairSpec`: `WF(Kernel(p))`, a thread in the kernel goes on: it is runnable, or sleeps in the driver of a disk that answers, and
`live` checks, for `Scheduler`, that such threads get the processor and wake up. Weak, because what such a thread may do next is never disabled by
another one. What processes do is not fair.

`Vm86!FairSpec`: weak fairness of the steps of the thread, of `Mainloop3` (a program that was read as it is ends) and of a driver
inside `start8086`, `getOutput8086` or `finish8086`, whose polls find a flag that stays set until they do. A poll of
`getOutput8086` that finds too few bytes is not fair, nor is one that finds `vmReady` false: another driver may win every time. So
`RequestsEnd` is about the drivers that do not wait for output (VGA's), and promises an end from the moment the program has started. One that
polls (VESA's) may keep the thread for ever, which leaves others unable to start.

`live` has preemption on: with `keIsPreemptionOn` off nothing prevents a thread that
computes for ever from starving the rest, which is what switching it off means.

`Semaphore!Fairness`: the timer ticks, its handler goes on, a slice ends some time
(`SF(Preempt)`), a sleeper is due some time (`SF(Woken(t))`, time passing being left
open there), and a holder that runs again and again gives back its permit
(`SF(Release(t))`: a duty of the callers, without which no semaphore serves anyone).
`WaitersAreServed` exempts the case where all the permits are in the hands of threads
that want another one.

## 6. Proofs

All theorems are checked by `tlapm` with no leaf left open.

**Scheduler** (`SchedulerProofs`, `SchedulerSafety`, `SchedulerWakeups`), from `ThreadsAssumption`,
`TimesAssumption` and `PreemptionAssumption`, that is for any threads, processes,
family tree, sleeping times and slices:

* `Invariance`: `Spec => [](TypeInv /\ ListInv)`; from it `TypeCorrect`, `LocksAlwaysMatch`,
  `ListsStayApart`, `ThreadsAreNotLost`, `BlockedThreadsStop`.
* The argument has two layers. `TypeInv` is `TypeOK` with `LocksMatch`: the locks by
  themselves are inductive, given that the current thread is in use, because the
  depth of the lock at every place of the code is a function of the place
  (`PlaceDepth`), and every switch happens at depth one without postponement.
  `InOneList` is not inductive: that a thread may be put into the run queue without being
  there already follows from its state, from its place and from the thread being in use.
  `ListInv` adds that: which threads are in use, that sleepers sleep
  and terminated threads stay out of everything, that the idle thread is always queued or
  running (so `schedule()` always finds someone to switch to when it must), and that a
  thread which is no longer `Running` is on its way to the call of `schedule()`
  that ends it (`OnItsWay`).
* One lemma per group of actions (`Request`, `Service`, `Cleaner`, `Tick`, `Interrupt`), with a
  step per action. What the helpers do (`schedule`, `SelectTask`, `unblockTask`, a switch) is
  stated in lemmas of its own.
* `SlicesLast` (`SliceLeft`): the slice of the current thread is empty only between the tick that
  uses it up and `schedule()` in the same interrupt (`SliceInv`). That `schedule()` does switch needs
  both layers: switches are not postponed where interrupts come in, and the idle thread
  is always there to switch to.
* `BlockedThreadsStop` (`RunningWhenOn`) needs both layers: with interrupts on the depth is 0, so
  the place is one where the thread has no business being blocked.
* `CleanerIsAwake` (`CleanerKnows`): where the cleaner is about to give up the processor its list is
  empty, and interrupts are off, so nobody adds to it before the switch; whoever adds later
  sets the flag and unblocks it. Between, where interrupts are on, the flag keeps what
  happened meanwhile (`KnowsInv`).
* `WaitpidIsRight` (`WaitReportsFinishedChild`): the cleaner gets to the place that wakes the parents
  only for a process of which no thread is left, and a finished process never gets a thread again, because
  only its own threads add one (`ReportInv`).

**Semaphore** (`SemaphoreLists`, `SemaphoreProofs`), from `SemaphoreAssumption`: any finite set of
threads, any number of permits, lists of any length.

* `SemaphoreLists` is about pointers alone. `IsChain(next, e, s)` says that the way from `e` along
  `next` meets the threads of the sequence `s` and ends; `ChainIs`, that `Chain` computes just that
  sequence; `AddToList` and `RemoveFromList`, that the two operations append to it and take its head
  without a panic and without changing a pointer of any other chain. Where one would use induction over the length of a
  chain, the proofs take the first place at which the claim fails (`LeastNumber`, from the well-foundedness of `<` on the
  naturals) and show that there is none.
* `SemaphoreInvariance`: the inductive invariant `SemaphoreInv` is `TypeOK`, `CountInv`, and three sequences
  that `Placed` describes: run queue, sleepers, waiting threads. They are chains of the one heap, without a thread in common,
  and hold every thread but the current one. Neither `NoListPanic` nor `EachInOneChain` is inductive: that
  a thread may be added to a list follows from its being in no other chain, which follows from where its state says
  it is; that `schedule()` finds somebody when the current thread blocks, from the idle thread being neither asleep nor
  waiting; that the timer's loop removes from a list that is not empty, from `isr = "wake"` only while there are
  sleepers. Threads wait only while all permits are taken, which makes the direct hand-over right.
* `TypeCorrect`, `ListsNeverPanic`, `OneChainForEach` (the invariants of `permits`).
* `SemaphoreCounts` (`CountsPermits`): each operation makes the step of `CountingSemaphore` that `Promised` names, or none;
  the steps of the scheduler and of the timer move no waiting thread. `CountInv` ties `currentCount` to what is held.
* `MutexExcludes`: with one permit (`mutex.cpp:3`) no two threads hold one.

**VCache** (`VCacheProofs`), from `CacheAssumption`: any size of disk, block and
buffer, any lengths of reads and writes, and a drive that may fail at every access.

* `CacheInvariance`: `CacheInv`, the types with `ReadCacheFresh` and `WriteCacheFits`; the three
  need each other, as a read block stays fresh only because a valid read cache
  means an empty write cache.
* `CacheIsInvisible`: the cache implements `Disk` (`ReadsReturnLastWrite`); initial states map to initial states, `Write` to
  `DiskWrite`, `Read` to `DiskRead`, `Purge` to `DiskPurge`. Nothing is assumed of lengths: the writes of which `Disk` promises
  one sector are those that the code copies one sector of, and `cache_blocks` shows that it keeps no more.
* `TypeCorrect`: `TypeOK` is inductive next to `CacheInv`; it rests on the disk having whole blocks
  (`BlockOnDisk`).

**Paging** (`PagingProofs`), from `PagingAssumption`: any number of processes, frames, pages, slots and entries of a page table, every
interleaving of the steps of section 3, with collisions and failures of the disk in it.

* `PagingInvariance`: `PagingInv`, which is `TypeOK`, `OutOfMemoryIsTrue` and, for each process, what it knows (`Known`): what the statement
  it is at counts on (`CallKnows`: the victim is present, the page to load is still in its slot), where its pages are
  (`PagesKnow`) and what a sweep has left (`ScanKnows`). All of it is about the process's own call, pages, break and scanner, which no
  other process changes: a step of one process keeps its own part (`Kept`, a lemma per action) and the others' because it does not touch them (`Others`).
* `OutOfMemoryOnlyThen` needs `ScanKnows`: the second and the third sweep begin at the first page, and after the second one no page that is present
  is accessed. Two rounds would not do (the mutant of that run).
* `BreaksAreBacked` (`BreakIsBacked`) follows from `PagesKnow`.
* `SlotsAreApart` (`SlotsApart`): `SlotInv` adds that the word a thread is about to write to `swapfileBitmap` was read without the slot's bit, and that a
  page is present while it is read. A slot that is marked was nobody's (`MarkSlotApart`): without a collision the word is the bitmap's still, so
  the slot is not marked, and every page in the swap file has a marked one. A slot that is given back was the page's that has been loaded
  (`FreeSlotApart`). The other steps move a page within its slot, or have to do with none.

**Vm86** (`Vm86Proofs`), from `Vm86Assumption`: any number of drivers, any size of the buffer.

* `Handshaking`: the inductive invariant. `OneAtATime` is not inductive alone: that no other driver can
  be started while one is served follows, until two calls overlap in `start8086`, from `vmReady` being set only where the thread has blocked
  and nobody is served (`Handshake`, `Served`), and that what a driver gets is its own from the buffer holding
  only what the current program has written (`CommsFresh`). Overlaps are not assumed away: the theorems hold of the whole specification, and state
  of the behaviours with one what their properties state.
* `TypeCorrect`, `OneDriver`, `AnswersAreOwn`, `OutputIsOwn` follow from it.

**Only model-checked.** Liveness (out of the prover's reach, as is `ENABLED`): `NoStarvation`,
`SleepersWake`, `TerminatedAreCleaned`, `WaitersWake`, `WaitersAreServed`, `CallsEnd`, `RequestsEnd`. `FramesHaveOneOwner` and `OwnData` are
checked on the instance of `paging` only. The four
violations are TLC's too: a counterexample needs no proof.

## 7. What is not modelled

What is left out of a modelled part is said with its module in section 3. Parts without a module:

* Pipes and mailboxes: `Pipe` polls its length without any lock, so that every property worth stating about two
  readers fails by construction, and no comment or test states one; mailboxes have no caller.
* File handles, the virtual file system, symbolic links, logical disks: tables of handles and strings over file
  systems whose bulk is vendored FAT code; what they do is decided by the data on the disk.
* Interrupt handlers, keyboard, power control, exit routines, environment, system call dispatch: small registries,
  filled once and walked in order.
* The heap (a vendored allocator), the registry, ELF loading and fonts (file formats: data rather than
  behaviour), the terminal's screen (output), boot code and drivers (register-level I/O, whose behaviour is that
  of the devices), the instruction emulator of the virtual 8086 monitor, and the
  applications, libraries and firmware outside `src/kernel/`.
