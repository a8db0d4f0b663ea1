-------------------------------- MODULE Paging --------------------------------
(***************************************************************************)
(* Physical pages, the page tables of processes and the swap file           *)
(* (src/kernel/krnl/physmgr.cpp, src/kernel/krnl/virtmgr.cpp).              *)
(*                                                                         *)
(* A process has one thread and asks for memory with SysSbrk; the pages of  *)
(* its program, its stack and its page directory are outside the model.    *)
(* allocatePage takes a free frame or evicts a page of the process that     *)
(* calls it.  System calls run with interrupts on and are preempted, and a  *)
(* page fault gives the processor away when the driver of the disk sleeps:  *)
(* another process gets in between any two of the steps below.  Each makes   *)
(* one access to what the processes share.                                  *)
(***************************************************************************)
EXTENDS Integers, FiniteSets

CONSTANTS
  Process,
  NumFrames,        \* physical pages that can be allocated
  FirstPage,        \* where the break of a process starts: its program ends before
  NumPages,         \* bound on the pages of a process
  PagesPerTable,    \* entries of a page table
  NumSlots,         \* pages of the swap file
  Counts            \* how many pages SysSbrk may be asked for

ASSUME PagingAssumption ==
  /\ NumFrames \in Nat \ {0}
  /\ FirstPage \in Nat \ {0}
  /\ NumPages \in Nat /\ FirstPage < NumPages
  /\ PagesPerTable \in Nat \ {0}
  /\ NumSlots \in Nat
  /\ Counts \subseteq Nat \ {0}

VARIABLES
  bitmap,               \* frames marked STATE_ALLOCATED
  currentPagePointer,   \* where allocatePage looks next
  contents,             \* [Frame -> the page whose data it holds]
  swapfileBitmap,       \* slots of the swap file in use
  swapfile,             \* [Slot -> the page whose data it holds]
  entry,                \* [Process -> [Page -> page table entry]]
  tables,               \* [Process -> [Table -> its frame, or 0]]
  sbrk,                 \* [Process -> number of its first page past the break]
  evictionScanner,      \* [Process -> page scanForEviction looks at next]
  call,                 \* [Process -> where its thread is in the kernel]
  panic,
  collided,             \* history: a test or a copy was out of date when it was used
  missed                \* history: the swap file's disk has failed

physVars == <<bitmap, currentPagePointer>>
swapVars == <<swapfileBitmap, swapfile, missed>>
vasVars == <<entry, tables, sbrk, evictionScanner>>
vars == <<physVars, contents, swapVars, vasVars, call, panic, collided>>

Frame == 1 .. NumFrames
Page == FirstPage .. NumPages - 1
Slot == 0 .. NumSlots - 1
TableOf(v) == v \div PagesPerTable

(* Table 0 is there from the start: it has the end of the program. *)
Table == 1 .. TableOf(NumPages - 1)

(* The frames in one byte of the bitmap, and the slots in one word of       *)
(* swapfileBitmap: the code changes a bit by writing all of them.           *)
Byte(f) == {g \in Frame : g \div 8 = f \div 8}
Word(id) == {s \in Slot : s \div 32 = id \div 32}

Nobody == <<>>

(* A page table entry holds the frame of a page that is present, and the    *)
(* swap slot of one that is not.  Pages of processes are all swappable; a   *)
(* page that was evicted loses that flag until it is back.                  *)
NoEntry == [allocated |-> FALSE, present |-> FALSE, accessed |-> FALSE, address |-> 0]
InFrame(f, accessed) ==
  [allocated |-> TRUE, present |-> TRUE, accessed |-> accessed, address |-> f]
InSlot(id) == [allocated |-> TRUE, present |-> FALSE, accessed |-> FALSE, address |-> id]

(* Locals of a thread in the kernel: the statement it is at, what the frame *)
(* it allocates is for and for which page, allocatePage's first, its copy   *)
(* of currentPagePointer (the frame evict frees, later), the byte or word   *)
(* it is about to write back, scanForEviction's runs, the swap slot, the    *)
(* frame it has got, and the one mapPage was given before it had to         *)
(* allocate a page table.                                                   *)
InUser == [pc |-> "user", goal |-> "none", page |-> FirstPage, first |-> 0, at |-> 0, copy |-> {},
           runs |-> 0, id |-> 0, frame |-> 0, given |-> 0]

Init ==
  /\ bitmap = {}
  /\ currentPagePointer = 1
  /\ contents = [f \in Frame |-> Nobody]
  /\ swapfileBitmap = {}
  /\ swapfile = [s \in Slot |-> Nobody]
  /\ entry = [p \in Process |-> [v \in Page |-> NoEntry]]
  /\ tables = [p \in Process |-> [t \in Table |-> 0]]
  /\ sbrk = [p \in Process |-> FirstPage]
  /\ evictionScanner = [p \in Process |-> FirstPage]
  /\ call = [p \in Process |-> InUser]
  /\ panic = "none"
  /\ collided = FALSE
  /\ missed = FALSE

At(p, pc) == panic = "none" /\ call[p].pc = pc

(* The call of allocatePage for a page, a page table or a page to load. *)
Allocating(goal, v, given) ==
  [InUser EXCEPT !.pc = "search", !.goal = goal, !.page = v, !.given = given,
                 !.first = currentPagePointer, !.at = currentPagePointer]

-----------------------------------------------------------------------------
(* What processes do. *)

(* A read or a write, which sets the accessed flag, unless the processor     *)
(* still has the entry from before scanForEviction cleared it: nothing      *)
(* flushes it then.  Data written is the page's own.                        *)
Access(p, v) ==
  /\ At(p, "user")
  /\ entry[p][v].present
  /\ \E a \in {entry[p][v].accessed, TRUE} : entry' = [entry EXCEPT ![p][v].accessed = a]
  /\ \/ contents' = [contents EXCEPT ![entry[p][v].address] = <<p, v>>]
     \/ UNCHANGED contents
  /\ UNCHANGED <<physVars, swapVars, tables, sbrk, evictionScanner, call, panic, collided>>

(* isr14 and tryLoadBackOffDisk up to its call of allocatePage. *)
Fault(p, v) ==
  /\ At(p, "user")
  /\ entry[p][v].allocated /\ ~entry[p][v].present
  /\ call' = [call EXCEPT ![p] = Allocating("load", v, 0)]
  /\ UNCHANGED <<physVars, contents, swapVars, vasVars, panic, collided>>

(* SysSbrk and allocatePages up to the first call of allocatePage. *)
Sbrk(p, count) ==
  /\ At(p, "user")
  /\ sbrk[p] + count <= NumPages
  /\ sbrk' = [sbrk EXCEPT ![p] = @ + count]
  /\ call' = [call EXCEPT ![p] = Allocating("page", sbrk[p], 0)]
  /\ UNCHANGED <<physVars, contents, swapVars, entry, tables, evictionScanner, panic, collided>>

(* ~VAS, run by the cleaner once the thread has ended, under lockScheduler   *)
(* and without a disk: it calls freePage for the pages that are present and *)
(* for the page tables, and leaves the slots of the others in use.  The     *)
(* next process starts from nothing.                                        *)
Exit(p) ==
  LET present == {v \in Page : entry[p][v].present}
      used == {t \in Table : tables[p][t] # 0}
      freed == {entry[p][v].address : v \in present} \cup {tables[p][t] : t \in used}
      eachOnce == Cardinality(freed) = Cardinality(present) + Cardinality(used)
  IN  /\ At(p, "user")
      /\ bitmap' = bitmap \ freed
      /\ panic' = IF freed \subseteq bitmap /\ eachOnce THEN panic ELSE "FREEING NOT ALLOCATED"
      /\ entry' = [entry EXCEPT ![p] = [v \in Page |-> NoEntry]]
      /\ tables' = [tables EXCEPT ![p] = [t \in Table |-> 0]]
      /\ sbrk' = [sbrk EXCEPT ![p] = FirstPage]
      /\ evictionScanner' = [evictionScanner EXCEPT ![p] = FirstPage]
      /\ UNCHANGED <<currentPagePointer, contents, swapVars, call, collided>>

-----------------------------------------------------------------------------
(* allocatePage *)

(* The test of the frame the loop is at. *)
Search(p) ==
  /\ At(p, "search")
  /\ LET f == call[p].at
     IN  call' = [call EXCEPT ![p] = IF f \in bitmap
           THEN [@ EXCEPT !.pc = "advance"]
           ELSE [@ EXCEPT !.pc = "take", !.first = 0, !.copy = bitmap \cap Byte(f)]]
  /\ UNCHANGED <<physVars, contents, swapVars, vasVars, panic, collided>>

(* Mutant: the pointer does not wrap. *)
NextFrameOnly(f) == f + 1
NextFrame(f) == IF f = NumFrames THEN 1 ELSE f + 1

(* It goes on, round the end; a full circle leads to scanForEviction. *)
Advance(p) ==
  LET next == NextFrame(call[p].at)
  IN  /\ At(p, "advance")
      /\ currentPagePointer' = next
      /\ call' = [call EXCEPT ![p] = IF next = @.first
                    THEN [@ EXCEPT !.pc = "scan", !.first = 0, !.at = 0]
                    ELSE [@ EXCEPT !.pc = "search", !.at = next]]
      /\ UNCHANGED <<bitmap, contents, swapVars, vasVars, panic, collided>>

(* setPageState writes a byte of the bitmap back with one bit changed, its   *)
(* two statements taken as one.  It has read the byte between the thread's  *)
(* last step, which left it in copy, and now.                               *)
setPageState(p, marked) ==
  LET f == call[p].at
      now == bitmap \cap Byte(f)
  IN  \E byte \in {call[p].copy, now} :
        /\ bitmap' = (bitmap \ Byte(f)) \cup (IF marked THEN byte \cup {f} ELSE byte \ {f})
        /\ collided' = (collided \/ byte # now \/ (marked /\ f \in bitmap))

Take(p) ==
  /\ At(p, "take")
  /\ setPageState(p, TRUE)
  /\ call' = [call EXCEPT ![p].pc = "return", ![p].copy = {}]
  /\ UNCHANGED <<currentPagePointer, contents, swapVars, vasVars, panic>>

(* The return statement reads currentPagePointer again. *)
Return(p) ==
  /\ At(p, "return")
  /\ call' = [call EXCEPT ![p].pc = call[p].goal, ![p].frame = currentPagePointer, ![p].at = 0]
  /\ collided' = (collided \/ currentPagePointer # call[p].at)
  /\ UNCHANGED <<physVars, contents, swapVars, vasVars, panic>>

(* Mutant: the frame of the evicted page is handed out but stays free. *)
ReclaimLeavesFree(p) ==
  /\ At(p, "reclaim")
  /\ call' = [call EXCEPT ![p].pc = call[p].goal, ![p].frame = call[p].at,
                          ![p].at = 0, ![p].copy = {}]
  /\ UNCHANGED <<physVars, contents, swapVars, vasVars, panic, collided>>

(* The frame of the page that was evicted is handed out. *)
Reclaim(p) ==
  /\ At(p, "reclaim")
  /\ setPageState(p, TRUE)
  /\ call' = [call EXCEPT ![p].pc = call[p].goal, ![p].frame = call[p].at,
                          ![p].at = 0, ![p].copy = {}]
  /\ UNCHANGED <<currentPagePointer, contents, swapVars, vasVars, panic>>

-----------------------------------------------------------------------------
(* scanForEviction and evict *)

(* Mutant: the scanner gives up a round early. *)
FewerRounds == 2
Rounds == 3

(* Mutant: rounds are not counted. *)
SameRuns(runs) == runs
NextRun(runs) == runs + 1

(* The loop up to the first page from the scanner on that is present and not *)
(* accessed, which is evicted, or else up to the end, where the scanner     *)
(* starts again.  The flags of the pages it goes over are cleared.          *)
Scan(p) ==
  LET ahead == {v \in Page : v >= evictionScanner[p] /\ entry[p][v].present}
      victims == {v \in ahead : ~entry[p][v].accessed}
      Cleared(passed) == [v \in Page |->
        IF v \in passed THEN [entry[p][v] EXCEPT !.accessed = FALSE] ELSE entry[p][v]]
  IN  /\ At(p, "scan")
      /\ \/ \E v \in victims :
              /\ \A w \in victims : v <= w
              /\ entry' = [entry EXCEPT ![p] = Cleared({w \in ahead : w < v})]
              /\ evictionScanner' = [evictionScanner EXCEPT ![p] = v]
              /\ call' = [call EXCEPT ![p].pc = "slot", ![p].runs = 0]
              /\ UNCHANGED panic
         \/ /\ victims = {}
            /\ entry' = [entry EXCEPT ![p] = Cleared(ahead)]
            /\ evictionScanner' = [evictionScanner EXCEPT ![p] = FirstPage]
            /\ IF NextRun(call[p].runs) = Rounds
               THEN panic' = "OUT OF MEMORY" /\ UNCHANGED call
               ELSE call' = [call EXCEPT ![p].runs = NextRun(@)] /\ UNCHANGED panic
      /\ UNCHANGED <<physVars, contents, swapVars, tables, sbrk, collided>>

(* allocateSwapfilePage tests one slot after the other ... *)
FindSlot(p) ==
  LET id == call[p].id
  IN  /\ At(p, "slot")
      /\ \/ /\ id \notin Slot
            /\ panic' = "NO SWAPFILE SPACE LEFT"
            /\ UNCHANGED call
         \/ /\ id \in swapfileBitmap
            /\ call' = [call EXCEPT ![p].id = id + 1]
            /\ UNCHANGED panic
         \/ /\ id \in Slot \ swapfileBitmap
            /\ call' = [call EXCEPT ![p].pc = "mark", ![p].copy = swapfileBitmap \cap Word(id)]
            /\ UNCHANGED panic
      /\ UNCHANGED <<physVars, contents, swapVars, vasVars, collided>>

(* The word of the slot, changed, is written back where it was read before. *)
StoreWord(p, word, changed) ==
  LET now == swapfileBitmap \cap Word(call[p].id)
  IN  /\ swapfileBitmap' = (swapfileBitmap \ now) \cup changed
      /\ collided' = (collided \/ word # now)

(* Mutant: the slot is not marked. *)
SlotIgnored(copy, id) == copy
WithSlot(copy, id) == copy \cup {id}

(* ... and marks the one it found. *)
MarkSlot(p) ==
  /\ At(p, "mark")
  /\ StoreWord(p, call[p].copy, WithSlot(call[p].copy, call[p].id))
  /\ call' = [call EXCEPT ![p].pc = "write", ![p].copy = {}]
  /\ UNCHANGED <<physVars, contents, swapfile, missed, vasVars, panic>>

(* evict writes the page to the slot, without a look at disk->write's result. *)
SwapOut(p) ==
  LET f == entry[p][evictionScanner[p]].address
  IN  /\ At(p, "write")
      /\ \/ /\ swapfile' = [swapfile EXCEPT ![call[p].id] = contents[f]]
            /\ UNCHANGED missed
         \/ /\ missed' = TRUE
            /\ UNCHANGED swapfile
      /\ call' = [call EXCEPT ![p].pc = "unmap"]
      /\ UNCHANGED <<physVars, contents, swapfileBitmap, vasVars, panic, collided>>

(* It puts the slot into the entry; freePage tests the frame ... *)
Unmap(p) ==
  LET v == evictionScanner[p]
      f == entry[p][v].address
  IN  /\ At(p, "unmap")
      /\ entry' = [entry EXCEPT ![p][v] = InSlot(call[p].id)]
      /\ panic' = IF f \in bitmap THEN panic ELSE "FREEING NOT ALLOCATED"
      /\ call' = [call EXCEPT ![p].pc = "free", ![p].id = 0, ![p].at = f,
                              ![p].copy = bitmap \cap Byte(f)]
      /\ UNCHANGED <<physVars, contents, swapVars, tables, sbrk, evictionScanner, collided>>

(* ... and marks it free: allocatePage is about to mark it again. *)
Free(p) ==
  /\ At(p, "free")
  /\ setPageState(p, FALSE)
  /\ evictionScanner' = [evictionScanner EXCEPT ![p] = @ + 1]
  /\ call' = [call EXCEPT ![p].pc = "reclaim",
                          ![p].copy = bitmap' \cap Byte(call[p].at)]
  /\ UNCHANGED <<currentPagePointer, contents, swapVars, entry, tables, sbrk, panic>>

-----------------------------------------------------------------------------
(* What the callers of allocatePage do with the frame. *)

(* Mutant: the slot is given back before its page has been read from it. *)
LoadFreesSlot(p) ==
  LET v == call[p].page
  IN  /\ At(p, "load")
      /\ entry' = [entry EXCEPT ![p][v] = InFrame(call[p].frame, TRUE)]
      /\ swapfileBitmap' = swapfileBitmap \ {entry[p][v].address}
      /\ call' = [call EXCEPT ![p].pc = "read", ![p].id = entry[p][v].address, ![p].frame = 0]
      /\ UNCHANGED <<physVars, contents, swapfile, missed, tables, sbrk, evictionScanner, panic,
                     collided>>

(* tryLoadBackOffDisk makes the page present; to read it in will access it ... *)
LoadEntry(p) ==
  LET v == call[p].page
  IN  /\ At(p, "load")
      /\ entry' = [entry EXCEPT ![p][v] = InFrame(call[p].frame, TRUE)]
      /\ call' = [call EXCEPT ![p].pc = "read", ![p].id = entry[p][v].address, ![p].frame = 0]
      /\ UNCHANGED <<physVars, contents, swapVars, tables, sbrk, evictionScanner, panic, collided>>

(* ... reads its data, without a look at disk->read's result ... *)
LoadRead(p) ==
  LET f == entry[p][call[p].page].address
  IN  /\ At(p, "read")
      /\ \/ /\ contents' = [contents EXCEPT ![f] = swapfile[call[p].id]]
            /\ UNCHANGED missed
         \/ /\ missed' = TRUE
            /\ UNCHANGED contents
      /\ call' = [call EXCEPT ![p].pc = "slotfree",
                              ![p].copy = swapfileBitmap \cap Word(call[p].id)]
      /\ UNCHANGED <<physVars, swapfileBitmap, swapfile, vasVars, panic, collided>>

(* ... and gives the slot back.  freeSwapfilePage has read its word between   *)
(* the end of the disk's read and now.                                      *)
FreeSlot(p) ==
  /\ At(p, "slotfree")
  /\ \E word \in {call[p].copy, swapfileBitmap \cap Word(call[p].id)} :
       StoreWord(p, word, word \ {call[p].id})
  /\ call' = [call EXCEPT ![p] = InUser]
  /\ UNCHANGED <<physVars, contents, swapfile, missed, vasVars, panic>>

(* Mutant: a last page that follows another one is forgotten. *)
MoreThanOne(p, v) == v + 2 < sbrk[p]
More(p, v) == v + 1 < sbrk[p]

(* mapPage puts the frame into the page table and allocatePages goes on     *)
(* with the next page, up to the break it has set.                          *)
Enter(p, f) ==
  LET v == call[p].page
  IN  /\ entry' = [entry EXCEPT ![p][v] = InFrame(f, FALSE)]
      /\ call' = [call EXCEPT ![p] = IF More(p, v) THEN Allocating("page", v + 1, 0) ELSE InUser]

(* Whatever the frame holds is now the page's. *)
MapPage(p, f, cleared) ==
  /\ Enter(p, f)
  /\ contents' = [g \in Frame |->
       IF g = f THEN <<p, call[p].page>> ELSE IF g \in cleared THEN Nobody ELSE contents[g]]

HasTable(p, v) == TableOf(v) # 0 => tables[p][TableOf(v)] # 0

Map(p) ==
  LET v == call[p].page
  IN  /\ At(p, "page")
      /\ \/ /\ HasTable(p, v)
            /\ MapPage(p, call[p].frame, {})
         \/ /\ ~HasTable(p, v)
            /\ call' = [call EXCEPT ![p] = Allocating("table", v, call[p].frame)]
            /\ UNCHANGED <<entry, contents>>
      /\ UNCHANGED <<physVars, swapVars, tables, sbrk, evictionScanner, panic, collided>>

(* A new page table is cleared first. *)
MapTable(p) ==
  /\ At(p, "table")
  /\ tables' = [tables EXCEPT ![p][TableOf(call[p].page)] = call[p].frame]
  /\ MapPage(p, call[p].given, {call[p].frame})
  /\ UNCHANGED <<physVars, swapVars, sbrk, evictionScanner, panic, collided>>

-----------------------------------------------------------------------------
Kernel(p) ==
  \/ Search(p) \/ Advance(p) \/ Take(p) \/ Return(p) \/ Reclaim(p)
  \/ Scan(p) \/ FindSlot(p) \/ MarkSlot(p) \/ SwapOut(p) \/ Unmap(p) \/ Free(p)
  \/ LoadEntry(p) \/ LoadRead(p) \/ FreeSlot(p)
  \/ Map(p) \/ MapTable(p)

User(p) ==
  \/ Exit(p)
  \/ \E count \in Counts : Sbrk(p, count)
  \/ \E v \in Page : Fault(p, v) \/ Access(p, v)

Next == \E p \in Process : User(p) \/ Kernel(p)

Spec == Init /\ [][Next]_vars

(* The timer gives every thread its slices, and drivers answer. *)
FairSpec == Spec /\ \A p \in Process : WF_vars(Kernel(p))

-----------------------------------------------------------------------------
Statement ==
  {"user", "search", "advance", "take", "return", "reclaim", "scan", "slot", "mark", "write",
   "unmap", "free", "load", "read", "slotfree", "page", "table"}

Panic == {"none", "FREEING NOT ALLOCATED", "OUT OF MEMORY", "NO SWAPFILE SPACE LEFT"}

Tag == {Nobody} \cup (Process \X Page)

(* The types; the frame that allocatePage looks at and the page that the     *)
(* scanner looks at stay in their ranges.                                   *)
TypeOK ==
  /\ bitmap \subseteq Frame
  /\ currentPagePointer \in Frame
  /\ contents \in [Frame -> Tag]
  /\ swapfileBitmap \subseteq Slot
  /\ swapfile \in [Slot -> Tag]
  /\ entry \in [Process -> [Page ->
       [allocated : BOOLEAN, present : BOOLEAN, accessed : BOOLEAN, address : Nat]]]
  /\ tables \in [Process -> [Table -> {0} \cup Frame]]
  /\ sbrk \in [Process -> FirstPage .. NumPages]
  /\ evictionScanner \in [Process -> FirstPage .. NumPages]
  /\ call \in [Process ->
       [pc : Statement, goal : {"none", "page", "table", "load"}, page : Page,
        first : {0} \cup Frame, at : {0} \cup Frame, copy : SUBSET (Frame \cup Slot),
        runs : 0 .. Rounds, id : Nat, frame : {0} \cup Frame, given : {0} \cup Frame]]
  /\ panic \in Panic
  /\ collided \in BOOLEAN
  /\ missed \in BOOLEAN

-----------------------------------------------------------------------------
(* Who has a frame: a page, a page table, or a thread in allocatePage, evict *)
(* or mapPage that has taken it and not put it anywhere yet.                *)
Owner ==
  ({"page"} \X Process \X Page) \cup ({"table"} \X Process \X Table)
    \cup ({"thread", "given"} \X Process \X {0})

(* The frame a thread has taken, 0 if none. *)
Taken(p) == IF call[p].pc \in {"return", "free"} THEN call[p].at ELSE call[p].frame

(* 0: none *)
FrameOf(o) ==
  CASE o[1] = "page" -> LET e == entry[o[2]][o[3]] IN IF e.present THEN e.address ELSE 0
    [] o[1] = "table" -> tables[o[2]][o[3]]
    [] o[1] = "thread" -> Taken(o[2])
    [] o[1] = "given" -> call[o[2]].given

(* No frame belongs to two of them, be they pages of different processes,    *)
(* and bitmap marks exactly those that belong to anyone, until a thread     *)
(* acts on a bit, a byte or a pointer that another one has changed since it *)
(* looked: no other order of steps of allocatePage, evict and ~VAS ends in  *)
(* a shared frame or in one that is lost.                                   *)
FramesHaveOneOwner ==
  ~collided =>
    LET owners == {o \in Owner : FrameOf(o) # 0}
    IN  /\ bitmap = {FrameOf(o) : o \in owners}
        /\ Cardinality(bitmap) = Cardinality(owners)

(* Where the page v of p is in the swap file: it was evicted, is about to    *)
(* be, or is being loaded.                                                  *)
InSwapfile(p, v, id) ==
  \/ entry[p][v].allocated /\ ~entry[p][v].present /\ entry[p][v].address = id
  \/ call[p].pc \in {"write", "unmap"} /\ evictionScanner[p] = v /\ call[p].id = id
  \/ call[p].pc \in {"read", "slotfree"} /\ call[p].page = v /\ call[p].id = id

(* A page that goes to the swap file, is there or comes back has a slot for  *)
(* itself, and it stays marked all that time, whoever evicts, loads and     *)
(* exits meanwhile and wherever the disk lets others in.                    *)
SlotsApart ==
  ~collided =>
    \A p, q \in Process, v, w \in Page, id \in 0 .. NumSlots :
      InSwapfile(p, v, id) =>
        /\ id \in swapfileBitmap
        /\ InSwapfile(q, w, id) => p = q /\ v = w

(* A page holds its own data whenever its process runs, and its slot holds   *)
(* them while it is not in memory, though it is present before it is read   *)
(* and still present while it is written.                                   *)
OwnData ==
  ~collided /\ ~missed =>
    \A p \in Process, v \in Page :
      LET e == entry[p][v]
          loading == call[p].pc = "read" /\ call[p].page = v
      IN  e.allocated =>
            IF loading THEN swapfile[call[p].id] = <<p, v>>
            ELSE IF e.present THEN contents[e.address] = <<p, v>>
            ELSE swapfile[e.address] = <<p, v>>

(* allocatePage says "OUT OF MEMORY" only when the process that calls it has *)
(* no page in memory that could be evicted, wherever its scanner was,       *)
(* whatever has been accessed and whatever other processes do.              *)
OutOfMemoryIsTrue ==
  panic = "OUT OF MEMORY" =>
    \E p \in Process : call[p].pc = "scan" /\ \A v \in Page : ~entry[p][v].present

(* The pages of p that SysSbrk has got so far. *)
Reached(p) == IF call[p].goal \in {"page", "table"} THEN call[p].page ELSE sbrk[p]

(* Every page below the break of a process is in a frame or in a slot and    *)
(* has a page table, and none is above, whichever of its pages had to be    *)
(* evicted to get the others.                                               *)
BreakIsBacked ==
  \A p \in Process, v \in Page :
    /\ entry[p][v].allocated <=> v < Reached(p)
    /\ entry[p][v].allocated => HasTable(p, v)

(* SysSbrk and page faults end, or the system stops with a panic: the search *)
(* for a frame, which others move on as well, and the scan for a page to    *)
(* evict are loops without a bound.                                         *)
CallsEnd ==
  \A p \in Process :
    call[p].pc # "user" ~> call[p].pc = "user" \/ panic # "none" \/ collided \/ missed
=============================================================================
