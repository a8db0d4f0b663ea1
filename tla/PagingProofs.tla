----------------------------- MODULE PagingProofs -----------------------------
(***************************************************************************)
(* What a process knows of its own pages holds whatever the others do, for  *)
(* every number of processes, frames, pages and slots, every interleaving,  *)
(* and a disk that may fail: nothing is assumed of collided and missed.     *)
(***************************************************************************)
EXTENDS Paging, TLAPS

EntryType == [allocated : BOOLEAN, present : BOOLEAN, accessed : BOOLEAN, address : Nat]
CallType ==
  [pc : Statement, goal : {"none", "page", "table", "load"}, page : Page,
   first : {0} \cup Frame, at : {0} \cup Frame, copy : SUBSET (Frame \cup Slot),
   runs : 0 .. Rounds, id : Nat, frame : {0} \cup Frame, given : {0} \cup Frame]

-----------------------------------------------------------------------------
(* The inductive invariant, of the call c of a process, its entries e, its   *)
(* break b, its scanner s and its page tables t.                            *)

(* What each statement may count on. *)
CallKnows(c, e, b, s) ==
  /\ c.pc = "user" <=> c.goal = "none"
  /\ c.pc \in {"page", "table", "load"} => c.goal = c.pc /\ c.frame \in Frame
  /\ c.pc \in {"read", "slotfree"} => c.goal = "load"
  /\ c.goal \in {"page", "table"} => c.page < b
  /\ c.goal = "table" => c.given \in Frame
  /\ c.goal = "load" /\ c.pc \notin {"read", "slotfree"} =>
       e[c.page].allocated /\ ~e[c.page].present
  /\ c.pc \in {"search", "advance", "take", "return", "free", "reclaim"} => c.at \in Frame
  /\ c.pc \in {"take", "free", "reclaim"} => c.copy \subseteq Frame
  /\ c.pc \in {"mark", "slotfree"} => c.copy \subseteq Slot
  /\ c.pc \in {"mark", "write", "unmap", "read", "slotfree"} => c.id \in Slot
  /\ c.pc \in {"slot", "mark", "write", "unmap"} => s \in Page /\ e[s].present
  /\ c.pc = "free" => s \in Page

(* A page is in a frame or in a slot if and only if it is below the break,   *)
(* or the part of it that SysSbrk has reached, and then it has a table.     *)
PagesKnow(c, e, b, t) ==
  \A v \in Page :
    /\ e[v].present => e[v].allocated /\ e[v].address \in Frame
    /\ e[v].allocated /\ ~e[v].present => e[v].address \in Slot
    /\ e[v].allocated <=> v < IF c.goal \in {"page", "table"} THEN c.page ELSE b
    /\ e[v].allocated /\ TableOf(v) # 0 => t[TableOf(v)] # 0

(* The first sweep may start anywhere, the others start at the first page;   *)
(* after the second one no page that is present is accessed.                *)
ScanKnows(c, e, s) ==
  /\ c.pc # "scan" => c.runs = 0
  /\ c.runs \in {0, 1, 2}
  /\ c.runs \in {1, 2} => s = FirstPage
  /\ c.runs = 2 => \A v \in Page : e[v].present => ~e[v].accessed

Known(c, e, b, s, t) == CallKnows(c, e, b, s) /\ PagesKnow(c, e, b, t) /\ ScanKnows(c, e, s)
Local(p) == Known(call[p], entry[p], sbrk[p], evictionScanner[p], tables[p])

PagingInv ==
  /\ TypeOK
  /\ \A p \in Process : Local(p)
  /\ OutOfMemoryIsTrue

-----------------------------------------------------------------------------
LEMMA TypeFacts ==
  TypeOK => /\ entry \in [Process -> [Page -> EntryType]]
            /\ call \in [Process -> CallType]
            /\ tables \in [Process -> [Table -> {0} \cup Frame]]
            /\ sbrk \in [Process -> FirstPage .. NumPages]
            /\ evictionScanner \in [Process -> FirstPage .. NumPages]
BY DEF TypeOK, EntryType, CallType

LEMMA RecordFacts ==
  /\ \A f \in Frame, a \in BOOLEAN :
       /\ InFrame(f, a) \in EntryType
       /\ InFrame(f, a).allocated /\ InFrame(f, a).present /\ InFrame(f, a).address = f
  /\ \A id \in Slot :
       /\ InSlot(id) \in EntryType
       /\ InSlot(id).allocated /\ ~InSlot(id).present /\ InSlot(id).address = id
  /\ NoEntry \in EntryType /\ ~NoEntry.allocated /\ ~NoEntry.present
BY DEF InFrame, InSlot, NoEntry, EntryType, Frame, Slot

LEMMA CallFacts ==
  /\ InUser \in CallType
  /\ InUser.pc = "user" /\ InUser.goal = "none" /\ InUser.runs = 0
  /\ \A g \in {"page", "table", "load"}, v \in Page, f \in {0} \cup Frame :
       currentPagePointer \in Frame =>
         LET c == Allocating(g, v, f)
         IN  /\ c \in CallType
             /\ c.pc = "search" /\ c.goal = g /\ c.page = v /\ c.given = f
             /\ c.at \in Frame /\ c.runs = 0
<1>1. FirstPage \in Page /\ 0 \in 0 .. Rounds
  BY PagingAssumption DEF Page, Rounds
<1>2. InUser \in CallType
  BY <1>1 DEF InUser, CallType, Statement
<1>3. InUser.pc = "user" /\ InUser.goal = "none" /\ InUser.runs = 0
  BY DEF InUser
<1>4. ASSUME NEW g \in {"page", "table", "load"}, NEW v \in Page, NEW f \in {0} \cup Frame,
             currentPagePointer \in Frame
      PROVE  LET c == Allocating(g, v, f)
             IN  /\ c \in CallType
                 /\ c.pc = "search" /\ c.goal = g /\ c.page = v /\ c.given = f
                 /\ c.at \in Frame /\ c.runs = 0
  BY <1>1, <1>4 DEF InUser, CallType, Allocating, Statement
<1> QED BY <1>2, <1>3, <1>4

LEMMA PageFacts ==
  /\ \A v \in Page : v \in Nat /\ FirstPage <= v /\ v < NumPages
  /\ FirstPage \in Page /\ FirstPage \in Nat \ {0} /\ NumPages \in Nat
  /\ \A f \in Frame : f \in Nat /\ f # 0
  /\ \A id \in Slot : id \in Nat
BY PagingAssumption DEF Page, Frame, Slot

(* Changing fields of a call. *)
LEMMA CallStep ==
  ASSUME TypeOK, NEW p \in Process, NEW c \in CallType, call' = [call EXCEPT ![p] = c]
  PROVE  /\ call' \in [Process -> CallType]
         /\ call'[p] = c
         /\ \A q \in Process \ {p} : call'[q] = call[q]
BY TypeFacts

(* A step of p does not touch what another process knows. *)
Others(p) ==
  \A q \in Process \ {p} :
    /\ call'[q] = call[q]
    /\ entry'[q] = entry[q]
    /\ sbrk'[q] = sbrk[q]
    /\ evictionScanner'[q] = evictionScanner[q]
    /\ tables'[q] = tables[q]

Kept(p) == TypeOK' /\ Local(p)' /\ Others(p)

-----------------------------------------------------------------------------
(* Statements that change only the call of p, the pointer and the bitmaps. *)

LEMMA CallOnly ==
  ASSUME TypeOK, NEW p \in Process, UNCHANGED vasVars,
         call' \in [Process -> CallType], \A q \in Process \ {p} : call'[q] = call[q],
         Known(call'[p], entry[p], sbrk[p], evictionScanner[p], tables[p]),
         bitmap' \subseteq Frame, currentPagePointer' \in Frame, contents' \in [Frame -> Tag],
         swapfileBitmap' \subseteq Slot, swapfile' \in [Slot -> Tag],
         panic' \in Panic, collided' \in BOOLEAN, missed' \in BOOLEAN
  PROVE  Kept(p)
<1>1. TypeOK'
  BY DEF TypeOK, vasVars, CallType
<1>2. Local(p)'
  BY DEF Local, vasVars
<1>3. Others(p)
  BY DEF Others, vasVars
<1> QED BY <1>1, <1>2, <1>3 DEF Kept

LEMMA SearchKeeps ==
  ASSUME TypeOK, NEW p \in Process, Local(p), Search(p)
  PROVE  Kept(p)
<1> DEFINE c == call[p]
           d == IF c.at \in bitmap THEN [c EXCEPT !.pc = "advance"]
                ELSE [c EXCEPT !.pc = "take", !.first = 0, !.copy = bitmap \cap Byte(c.at)]
<1>1. c \in CallType /\ c.pc = "search" /\ call' = [call EXCEPT ![p] = d]
  BY TypeFacts DEF Search, At
<1>2. d \in CallType
  BY <1>1 DEF CallType, Statement, TypeOK, Byte
<1>3. Known(d, entry[p], sbrk[p], evictionScanner[p], tables[p])
  <2>1. Known(c, entry[p], sbrk[p], evictionScanner[p], tables[p])
    BY DEF Local
  <2>2. d.copy \subseteq Frame \/ d.pc = "advance"
    BY <1>1 DEF CallType, Byte
  <2>3. CallKnows(d, entry[p], sbrk[p], evictionScanner[p])
    BY <1>1, <2>1, <2>2 DEF Known, CallKnows, CallType
  <2>4. PagesKnow(d, entry[p], sbrk[p], tables[p])
    BY <1>1, <2>1 DEF Known, PagesKnow, CallType
  <2>5. ScanKnows(d, entry[p], evictionScanner[p])
    BY <1>1, <2>1 DEF Known, ScanKnows, CallType
  <2> QED BY <2>3, <2>4, <2>5 DEF Known
<1> HIDE DEF d
<1>4. /\ call' \in [Process -> CallType] /\ call'[p] = d
      /\ \A q \in Process \ {p} : call'[q] = call[q]
  BY <1>1, <1>2, CallStep
<1> QED BY <1>3, <1>4, CallOnly DEF Search, TypeOK, physVars, swapVars

LEMMA FaultKeeps ==
  ASSUME TypeOK, NEW p \in Process, NEW v \in Page, Local(p), Fault(p, v)
  PROVE  Kept(p)
<1> DEFINE c == call[p]
           d == Allocating("load", v, 0)
<1>0. Known(c, entry[p], sbrk[p], evictionScanner[p], tables[p]) /\ c \in CallType
  BY TypeFacts DEF Local
<1>1. c.pc = "user" /\ entry[p][v].allocated /\ ~entry[p][v].present /\ call' = [call EXCEPT ![p] = d]
  BY <1>0 DEF Fault, At, CallType
<1>2. d \in CallType
  BY <1>0, <1>1, CallFacts DEF TypeOK
<1>3. CallKnows(d, entry[p], sbrk[p], evictionScanner[p])
  BY <1>0, <1>1, CallFacts, PageFacts DEF Known, CallKnows, TypeOK
<1>4. PagesKnow(d, entry[p], sbrk[p], tables[p])
  BY <1>0, <1>1, CallFacts, PageFacts DEF Known, PagesKnow, CallKnows, TypeOK
<1>5. ScanKnows(d, entry[p], evictionScanner[p])
  BY <1>0, <1>1, CallFacts, PageFacts DEF Known, ScanKnows, TypeOK
<1> HIDE DEF d
<1>6. /\ call' \in [Process -> CallType] /\ call'[p] = d
      /\ \A q \in Process \ {p} : call'[q] = call[q]
  BY <1>1, <1>2, CallStep
<1>7. Known(call'[p], entry[p], sbrk[p], evictionScanner[p], tables[p])
  BY <1>3, <1>4, <1>5, <1>6 DEF Known
<1> QED BY <1>6, <1>7, CallOnly DEF Fault, TypeOK, physVars, swapVars, Panic

LEMMA AdvanceKeeps ==
  ASSUME TypeOK, NEW p \in Process, Local(p), Advance(p)
  PROVE  Kept(p)
<1> DEFINE c == call[p]
           d == IF NextFrame(c.at) = c.first THEN [c EXCEPT !.pc = "scan", !.first = 0, !.at = 0]
                ELSE [c EXCEPT !.pc = "search", !.at = NextFrame(c.at)]
<1>0. Known(c, entry[p], sbrk[p], evictionScanner[p], tables[p]) /\ c \in CallType
  BY TypeFacts DEF Local
<1>1. /\ c.pc = "advance" /\ c.at \in Frame /\ NextFrame(c.at) \in Frame
      /\ call' = [call EXCEPT ![p] = d]
  <2>1. c.pc = "advance" /\ call' = [call EXCEPT ![p] = d]
    BY DEF Advance, At
  <2>2. c.at \in Frame
    BY <1>0, <2>1 DEF Known, CallKnows
  <2> QED BY <2>1, <2>2, PagingAssumption DEF NextFrame, Frame
<1>2. d \in CallType
  BY <1>0, <1>1 DEF CallType, Statement, TypeOK
<1>3. CallKnows(d, entry[p], sbrk[p], evictionScanner[p])
  BY <1>0, <1>1 DEF Known, CallKnows, CallType
<1>4. PagesKnow(d, entry[p], sbrk[p], tables[p])
  BY <1>0, <1>1 DEF Known, PagesKnow, CallKnows, CallType
<1>5. ScanKnows(d, entry[p], evictionScanner[p])
  BY <1>0, <1>1 DEF Known, ScanKnows, CallType
<1> HIDE DEF d
<1>6. /\ call' \in [Process -> CallType] /\ call'[p] = d
      /\ \A q \in Process \ {p} : call'[q] = call[q]
  BY <1>1, <1>2, CallStep
<1>7. Known(call'[p], entry[p], sbrk[p], evictionScanner[p], tables[p])
  BY <1>3, <1>4, <1>5, <1>6 DEF Known
<1> QED BY <1>1, <1>6, <1>7, CallOnly DEF Advance, TypeOK, physVars, swapVars

LEMMA TakeKeeps ==
  ASSUME TypeOK, NEW p \in Process, Local(p), Take(p)
  PROVE  Kept(p)
<1> DEFINE c == call[p]
           d == [c EXCEPT !.pc = "return", !.copy = {}]
<1>0. Known(c, entry[p], sbrk[p], evictionScanner[p], tables[p]) /\ c \in CallType
  BY TypeFacts DEF Local
<1>1. c.pc = "take" /\ call' = [call EXCEPT ![p] = d]
  BY <1>0 DEF Take, At, CallType
<1>2. d \in CallType
  BY <1>0, <1>1 DEF CallType, Statement, TypeOK
<1>3. CallKnows(d, entry[p], sbrk[p], evictionScanner[p])
  BY <1>0, <1>1 DEF Known, CallKnows, CallType
<1>4. PagesKnow(d, entry[p], sbrk[p], tables[p])
  BY <1>0, <1>1 DEF Known, PagesKnow, CallKnows, CallType
<1>5. ScanKnows(d, entry[p], evictionScanner[p])
  BY <1>0, <1>1 DEF Known, ScanKnows, CallType
<1> HIDE DEF d
<1>6. /\ call' \in [Process -> CallType] /\ call'[p] = d
      /\ \A q \in Process \ {p} : call'[q] = call[q]
  BY <1>1, <1>2, CallStep
<1>7. Known(call'[p], entry[p], sbrk[p], evictionScanner[p], tables[p])
  BY <1>3, <1>4, <1>5, <1>6 DEF Known
<1>8. bitmap' \subseteq Frame /\ collided' \in BOOLEAN
  BY <1>0, <1>1 DEF Take, setPageState, TypeOK, Known, CallKnows
<1> QED BY <1>6, <1>7, <1>8, CallOnly DEF Take, TypeOK, physVars, swapVars

LEMMA ReturnKeeps ==
  ASSUME TypeOK, NEW p \in Process, Local(p), Return(p)
  PROVE  Kept(p)
<1> DEFINE c == call[p]
           d == [c EXCEPT !.pc = c.goal, !.frame = currentPagePointer, !.at = 0]
<1>0. Known(c, entry[p], sbrk[p], evictionScanner[p], tables[p]) /\ c \in CallType
  BY TypeFacts DEF Local
<1>1. c.pc = "return" /\ call' = [call EXCEPT ![p] = d]
  BY <1>0 DEF Return, At, CallType
<1>2. d \in CallType
  BY <1>0, <1>1 DEF CallType, Statement, TypeOK, Known, CallKnows
<1>3. CallKnows(d, entry[p], sbrk[p], evictionScanner[p])
  BY <1>0, <1>1 DEF Known, CallKnows, CallType, TypeOK
<1>4. PagesKnow(d, entry[p], sbrk[p], tables[p])
  BY <1>0, <1>1 DEF Known, PagesKnow, CallKnows, CallType, TypeOK
<1>5. ScanKnows(d, entry[p], evictionScanner[p])
  BY <1>0, <1>1 DEF Known, ScanKnows, CallType, TypeOK
<1> HIDE DEF d
<1>6. /\ call' \in [Process -> CallType] /\ call'[p] = d
      /\ \A q \in Process \ {p} : call'[q] = call[q]
  BY <1>1, <1>2, CallStep
<1>7. Known(call'[p], entry[p], sbrk[p], evictionScanner[p], tables[p])
  BY <1>3, <1>4, <1>5, <1>6 DEF Known
<1> QED BY <1>6, <1>7, CallOnly DEF Return, TypeOK, physVars, swapVars

LEMMA ReclaimKeeps ==
  ASSUME TypeOK, NEW p \in Process, Local(p), Reclaim(p)
  PROVE  Kept(p)
<1> DEFINE c == call[p]
           d == [c EXCEPT !.pc = c.goal, !.frame = c.at, !.at = 0, !.copy = {}]
<1>0. Known(c, entry[p], sbrk[p], evictionScanner[p], tables[p]) /\ c \in CallType
  BY TypeFacts DEF Local
<1>1. c.pc = "reclaim" /\ call' = [call EXCEPT ![p] = d]
  BY <1>0 DEF Reclaim, At, CallType
<1>2. d \in CallType
  BY <1>0, <1>1 DEF CallType, Statement, TypeOK, Known, CallKnows
<1>3. CallKnows(d, entry[p], sbrk[p], evictionScanner[p])
  BY <1>0, <1>1 DEF Known, CallKnows, CallType, TypeOK
<1>4. PagesKnow(d, entry[p], sbrk[p], tables[p])
  BY <1>0, <1>1 DEF Known, PagesKnow, CallKnows, CallType, TypeOK
<1>5. ScanKnows(d, entry[p], evictionScanner[p])
  BY <1>0, <1>1 DEF Known, ScanKnows, CallType, TypeOK
<1> HIDE DEF d
<1>6. /\ call' \in [Process -> CallType] /\ call'[p] = d
      /\ \A q \in Process \ {p} : call'[q] = call[q]
  BY <1>1, <1>2, CallStep
<1>7. Known(call'[p], entry[p], sbrk[p], evictionScanner[p], tables[p])
  BY <1>3, <1>4, <1>5, <1>6 DEF Known
<1>8. bitmap' \subseteq Frame /\ collided' \in BOOLEAN
  BY <1>0, <1>1 DEF Reclaim, setPageState, TypeOK, Known, CallKnows
<1> QED BY <1>6, <1>7, <1>8, CallOnly DEF Reclaim, TypeOK, physVars, swapVars

LEMMA MarkSlotKeeps ==
  ASSUME TypeOK, NEW p \in Process, Local(p), MarkSlot(p)
  PROVE  Kept(p)
<1> DEFINE c == call[p]
           d == [c EXCEPT !.pc = "write", !.copy = {}]
<1>0. Known(c, entry[p], sbrk[p], evictionScanner[p], tables[p]) /\ c \in CallType
  BY TypeFacts DEF Local
<1>1. c.pc = "mark" /\ call' = [call EXCEPT ![p] = d]
  BY <1>0 DEF MarkSlot, At, CallType
<1>2. d \in CallType
  BY <1>0, <1>1 DEF CallType, Statement, TypeOK
<1>3. CallKnows(d, entry[p], sbrk[p], evictionScanner[p])
  BY <1>0, <1>1 DEF Known, CallKnows, CallType
<1>4. PagesKnow(d, entry[p], sbrk[p], tables[p])
  BY <1>0, <1>1 DEF Known, PagesKnow, CallKnows, CallType
<1>5. ScanKnows(d, entry[p], evictionScanner[p])
  BY <1>0, <1>1 DEF Known, ScanKnows, CallType
<1> HIDE DEF d
<1>6. /\ call' \in [Process -> CallType] /\ call'[p] = d
      /\ \A q \in Process \ {p} : call'[q] = call[q]
  BY <1>1, <1>2, CallStep
<1>7. Known(call'[p], entry[p], sbrk[p], evictionScanner[p], tables[p])
  BY <1>3, <1>4, <1>5, <1>6 DEF Known
<1>8. swapfileBitmap' \subseteq Slot /\ collided' \in BOOLEAN
  BY <1>0, <1>1 DEF MarkSlot, StoreWord, WithSlot, TypeOK, Known, CallKnows
<1> QED BY <1>6, <1>7, <1>8, CallOnly DEF MarkSlot, TypeOK, physVars

LEMMA SwapOutKeeps ==
  ASSUME TypeOK, NEW p \in Process, Local(p), SwapOut(p)
  PROVE  Kept(p)
<1> DEFINE c == call[p]
           d == [c EXCEPT !.pc = "unmap"]
<1>0. Known(c, entry[p], sbrk[p], evictionScanner[p], tables[p]) /\ c \in CallType
  BY TypeFacts DEF Local
<1>1. c.pc = "write" /\ call' = [call EXCEPT ![p] = d]
  BY <1>0 DEF SwapOut, At, CallType
<1>2. d \in CallType
  BY <1>0, <1>1 DEF CallType, Statement, TypeOK
<1>3. CallKnows(d, entry[p], sbrk[p], evictionScanner[p])
  BY <1>0, <1>1 DEF Known, CallKnows, CallType
<1>4. PagesKnow(d, entry[p], sbrk[p], tables[p])
  BY <1>0, <1>1 DEF Known, PagesKnow, CallKnows, CallType
<1>5. ScanKnows(d, entry[p], evictionScanner[p])
  BY <1>0, <1>1 DEF Known, ScanKnows, CallType
<1> HIDE DEF d
<1>6. /\ call' \in [Process -> CallType] /\ call'[p] = d
      /\ \A q \in Process \ {p} : call'[q] = call[q]
  BY <1>1, <1>2, CallStep
<1>7. Known(call'[p], entry[p], sbrk[p], evictionScanner[p], tables[p])
  BY <1>3, <1>4, <1>5, <1>6 DEF Known
<1>8. swapfile' \in [Slot -> Tag] /\ missed' \in BOOLEAN
  <2>1. entry[p][evictionScanner[p]].address \in Frame
    BY <1>0, <1>1 DEF Known, CallKnows, PagesKnow
  <2> QED BY <2>1 DEF SwapOut, TypeOK
<1> QED BY <1>6, <1>7, <1>8, CallOnly DEF SwapOut, TypeOK, physVars

LEMMA LoadReadKeeps ==
  ASSUME TypeOK, NEW p \in Process, Local(p), LoadRead(p)
  PROVE  Kept(p)
<1> DEFINE c == call[p]
           d == [c EXCEPT !.pc = "slotfree", !.copy = swapfileBitmap \cap Word(c.id)]
<1>0. Known(c, entry[p], sbrk[p], evictionScanner[p], tables[p]) /\ c \in CallType
  BY TypeFacts DEF Local
<1>1. c.pc = "read" /\ call' = [call EXCEPT ![p] = d]
  BY <1>0 DEF LoadRead, At, CallType
<1>2. d \in CallType
  BY <1>0, <1>1 DEF CallType, Statement, TypeOK, Word
<1>3. CallKnows(d, entry[p], sbrk[p], evictionScanner[p])
  BY <1>0, <1>1 DEF Known, CallKnows, CallType, Word
<1>4. PagesKnow(d, entry[p], sbrk[p], tables[p])
  BY <1>0, <1>1 DEF Known, PagesKnow, CallKnows, CallType, Word
<1>5. ScanKnows(d, entry[p], evictionScanner[p])
  BY <1>0, <1>1 DEF Known, ScanKnows, CallType, Word
<1> HIDE DEF d
<1>6. /\ call' \in [Process -> CallType] /\ call'[p] = d
      /\ \A q \in Process \ {p} : call'[q] = call[q]
  BY <1>1, <1>2, CallStep
<1>7. Known(call'[p], entry[p], sbrk[p], evictionScanner[p], tables[p])
  BY <1>3, <1>4, <1>5, <1>6 DEF Known
<1>8. contents' \in [Frame -> Tag] /\ missed' \in BOOLEAN
  <2>1. c.id \in Slot
    BY <1>0, <1>1 DEF Known, CallKnows
  <2>2. contents \in [Frame -> Tag] /\ swapfile[c.id] \in Tag /\ missed \in BOOLEAN
    BY <2>1 DEF TypeOK
  <2> QED BY <2>2 DEF LoadRead
<1> QED BY <1>6, <1>7, <1>8, CallOnly DEF LoadRead, TypeOK, physVars

LEMMA FreeSlotKeeps ==
  ASSUME TypeOK, NEW p \in Process, Local(p), FreeSlot(p)
  PROVE  Kept(p)
<1> DEFINE c == call[p]
           d == InUser
<1>0. Known(c, entry[p], sbrk[p], evictionScanner[p], tables[p]) /\ c \in CallType
  BY TypeFacts DEF Local
<1>1. c.pc = "slotfree" /\ call' = [call EXCEPT ![p] = d]
  BY <1>0 DEF FreeSlot, At, CallType
<1>2. d \in CallType
  BY <1>0, <1>1, CallFacts
<1>3. CallKnows(d, entry[p], sbrk[p], evictionScanner[p])
  BY <1>0, <1>1, CallFacts DEF Known, CallKnows
<1>4. PagesKnow(d, entry[p], sbrk[p], tables[p])
  BY <1>0, <1>1, CallFacts DEF Known, PagesKnow, CallKnows
<1>5. ScanKnows(d, entry[p], evictionScanner[p])
  BY <1>0, <1>1, CallFacts DEF Known, ScanKnows
<1> HIDE DEF d
<1>6. /\ call' \in [Process -> CallType] /\ call'[p] = d
      /\ \A q \in Process \ {p} : call'[q] = call[q]
  BY <1>1, <1>2, CallStep
<1>7. Known(call'[p], entry[p], sbrk[p], evictionScanner[p], tables[p])
  BY <1>3, <1>4, <1>5, <1>6 DEF Known
<1>8. swapfileBitmap' \subseteq Slot /\ collided' \in BOOLEAN
  BY <1>0, <1>1 DEF FreeSlot, StoreWord, TypeOK, Known, CallKnows
<1> QED BY <1>6, <1>7, <1>8, CallOnly DEF FreeSlot, TypeOK, physVars

LEMMA FindSlotKeeps ==
  ASSUME TypeOK, NEW p \in Process, Local(p), FindSlot(p)
  PROVE  Kept(p)
<1> DEFINE c == call[p]
<1>0. Known(c, entry[p], sbrk[p], evictionScanner[p], tables[p]) /\ c \in CallType /\ c.pc = "slot"
  BY TypeFacts DEF Local, FindSlot, At
<1>1. CASE c.id \notin Slot /\ UNCHANGED call
  <2>1. panic' \in Panic
    BY DEF FindSlot, TypeOK, Panic
  <2> QED BY <1>0, <1>1, <2>1, TypeFacts, CallOnly DEF FindSlot, TypeOK, physVars, swapVars
<1>2. ASSUME NEW d, d \in {[c EXCEPT !.id = c.id + 1],
                           [c EXCEPT !.pc = "mark", !.copy = swapfileBitmap \cap Word(c.id)]},
             d.pc = "mark" => c.id \in Slot, call' = [call EXCEPT ![p] = d], UNCHANGED panic
      PROVE  Kept(p)
  <2>1. d \in CallType
    <3>1. c.id + 1 \in Nat /\ swapfileBitmap \cap Word(c.id) \subseteq Frame \cup Slot
      BY <1>0 DEF CallType, Word
    <3>2. CASE d = [c EXCEPT !.id = c.id + 1]
      BY <1>0, <3>1, <3>2 DEF CallType
    <3>3. CASE d = [c EXCEPT !.pc = "mark", !.copy = swapfileBitmap \cap Word(c.id)]
      BY <1>0, <3>1, <3>3 DEF CallType, Statement
    <3> QED BY <1>2, <3>2, <3>3
  <2>2. Known(d, entry[p], sbrk[p], evictionScanner[p], tables[p])
    <3>1. CallKnows(d, entry[p], sbrk[p], evictionScanner[p])
      BY <1>0, <1>2 DEF Known, CallKnows, CallType, Word
    <3>2. PagesKnow(d, entry[p], sbrk[p], tables[p])
      BY <1>0, <1>2 DEF Known, PagesKnow, CallType
    <3>3. ScanKnows(d, entry[p], evictionScanner[p])
      BY <1>0, <1>2 DEF Known, ScanKnows, CallType
    <3> QED BY <3>1, <3>2, <3>3 DEF Known
  <2>3. /\ call' \in [Process -> CallType] /\ call'[p] = d
        /\ \A q \in Process \ {p} : call'[q] = call[q]
    BY <1>2, <2>1, CallStep
  <2> QED BY <1>2, <2>2, <2>3, CallOnly DEF FindSlot, TypeOK, physVars, swapVars
<1>3. CASE c.id \in swapfileBitmap /\ call' = [call EXCEPT ![p].id = c.id + 1] /\ UNCHANGED panic
  BY <1>0, <1>2, <1>3 DEF CallType
<1>4. CASE /\ c.id \in Slot \ swapfileBitmap /\ UNCHANGED panic
           /\ call' = [call EXCEPT ![p].pc = "mark", ![p].copy = swapfileBitmap \cap Word(c.id)]
  BY <1>2, <1>4
<1> QED BY <1>1, <1>3, <1>4 DEF FindSlot

-----------------------------------------------------------------------------
(* Statements that change the entries, the break, the scanner or the tables *)
(* of p.                                                                    *)

LEMMA VasStep ==
  ASSUME TypeOK, NEW p \in Process,
         NEW c \in CallType, call' = [call EXCEPT ![p] = c],
         NEW e \in [Page -> EntryType], entry' = [entry EXCEPT ![p] = e],
         NEW b \in FirstPage .. NumPages, sbrk' = [sbrk EXCEPT ![p] = b],
         NEW s \in FirstPage .. NumPages, evictionScanner' = [evictionScanner EXCEPT ![p] = s],
         NEW t \in [Table -> {0} \cup Frame], tables' = [tables EXCEPT ![p] = t],
         CallKnows(c, e, b, s), PagesKnow(c, e, b, t), ScanKnows(c, e, s),
         bitmap' \subseteq Frame, contents' \in [Frame -> Tag], panic' \in Panic,
         collided' \in BOOLEAN, UNCHANGED <<currentPagePointer, swapVars>>
  PROVE  Kept(p)
<1>1. /\ call' \in [Process -> CallType] /\ call'[p] = c
      /\ entry' \in [Process -> [Page -> EntryType]] /\ entry'[p] = e
      /\ sbrk' \in [Process -> FirstPage .. NumPages] /\ sbrk'[p] = b
      /\ evictionScanner' \in [Process -> FirstPage .. NumPages] /\ evictionScanner'[p] = s
      /\ tables' \in [Process -> [Table -> {0} \cup Frame]] /\ tables'[p] = t
  BY TypeFacts
<1>2. TypeOK'
  BY <1>1 DEF TypeOK, swapVars, CallType, EntryType
<1>3. Local(p)'
  BY <1>1 DEF Local, Known
<1>4. Others(p)
  BY TypeFacts DEF Others
<1> QED BY <1>2, <1>3, <1>4 DEF Kept

(* What does not change. *)
LEMMA SameVas ==
  ASSUME TypeOK, NEW p \in Process
  PROVE  /\ entry = [entry EXCEPT ![p] = entry[p]]
         /\ sbrk = [sbrk EXCEPT ![p] = sbrk[p]]
         /\ evictionScanner = [evictionScanner EXCEPT ![p] = evictionScanner[p]]
         /\ tables = [tables EXCEPT ![p] = tables[p]]
         /\ call = [call EXCEPT ![p] = call[p]]
         /\ entry[p] \in [Page -> EntryType]
         /\ sbrk[p] \in FirstPage .. NumPages
         /\ evictionScanner[p] \in FirstPage .. NumPages
         /\ tables[p] \in [Table -> {0} \cup Frame]
         /\ call[p] \in CallType
BY TypeFacts

LEMMA AccessKeeps ==
  ASSUME TypeOK, NEW p \in Process, NEW v \in Page, Local(p), Access(p, v)
  PROVE  Kept(p)
<1>1. PICK a \in {entry[p][v].accessed, TRUE} : entry' = [entry EXCEPT ![p][v].accessed = a]
  BY DEF Access
<1> DEFINE e == [entry[p] EXCEPT ![v].accessed = a]
<1>2. /\ Known(call[p], entry[p], sbrk[p], evictionScanner[p], tables[p])
      /\ call[p].pc = "user" /\ call[p] \in CallType
      /\ entry[p] \in [Page -> EntryType] /\ a \in BOOLEAN
  BY <1>1, TypeFacts DEF Local, Access, At, EntryType
<1>3. entry' = [entry EXCEPT ![p] = e]
  BY <1>1
<1>4. /\ e \in [Page -> EntryType]
      /\ \A w \in Page : /\ e[w].present = entry[p][w].present
                         /\ e[w].allocated = entry[p][w].allocated
                         /\ e[w].address = entry[p][w].address
  BY <1>2 DEF EntryType
<1>5. CallKnows(call[p], e, sbrk[p], evictionScanner[p])
  BY <1>2 DEF Known, CallKnows
<1> HIDE DEF e
<1>6. PagesKnow(call[p], e, sbrk[p], tables[p])
  BY <1>2, <1>4 DEF Known, PagesKnow
<1>7. ScanKnows(call[p], e, evictionScanner[p])
  BY <1>2 DEF Known, ScanKnows
<1>8. contents' \in [Frame -> Tag]
  <2>1. <<p, v>> \in Tag /\ contents \in [Frame -> Tag]
    BY DEF TypeOK, Tag
  <2> QED BY <2>1 DEF Access
<1>9. /\ bitmap' \subseteq Frame /\ panic' \in Panic /\ collided' \in BOOLEAN
      /\ UNCHANGED <<call, sbrk, evictionScanner, tables, currentPagePointer, swapVars>>
  BY DEF Access, TypeOK, physVars
<1> QED BY <1>2, <1>3, <1>4, <1>5, <1>6, <1>7, <1>8, <1>9, SameVas, VasStep

LEMMA SbrkKeeps ==
  ASSUME TypeOK, NEW p \in Process, NEW count \in Counts, Local(p), Sbrk(p, count)
  PROVE  Kept(p)
<1> DEFINE c == Allocating("page", sbrk[p], 0)
           b == sbrk[p] + count
<1>1. /\ Known(call[p], entry[p], sbrk[p], evictionScanner[p], tables[p])
      /\ call[p].pc = "user" /\ count \in Nat \ {0} /\ b <= NumPages
  BY PagingAssumption DEF Local, Sbrk, At
<1>2. sbrk[p] \in Page /\ b \in FirstPage .. NumPages
  BY <1>1, SameVas, PageFacts DEF Page
<1>3. c \in CallType /\ c.pc = "search" /\ c.goal = "page" /\ c.page = sbrk[p] /\ c.at \in Frame
      /\ c.runs = 0
  BY <1>2, CallFacts DEF TypeOK
<1> HIDE DEF c
<1>4. CallKnows(c, entry[p], b, evictionScanner[p])
  <2>1. sbrk[p] \in Nat /\ count \in Nat \ {0}
    BY <1>1, <1>2, PageFacts
  <2>2. sbrk[p] < b
    BY <2>1
  <2> QED BY <1>3, <2>2 DEF CallKnows
<1>5. PagesKnow(c, entry[p], b, tables[p])
  BY <1>1, <1>3 DEF Known, CallKnows, PagesKnow
<1>6. ScanKnows(c, entry[p], evictionScanner[p])
  BY <1>3 DEF ScanKnows
<1>7. call' = [call EXCEPT ![p] = c] /\ sbrk' = [sbrk EXCEPT ![p] = b]
  BY DEF Sbrk, c
<1>8. /\ bitmap' \subseteq Frame /\ contents' \in [Frame -> Tag] /\ panic' \in Panic
      /\ collided' \in BOOLEAN
      /\ UNCHANGED <<entry, evictionScanner, tables, currentPagePointer, swapVars>>
  BY DEF Sbrk, TypeOK, physVars
<1> HIDE DEF b
<1> QED BY <1>2, <1>3, <1>4, <1>5, <1>6, <1>7, <1>8, SameVas, VasStep

LEMMA ExitKeeps ==
  ASSUME TypeOK, NEW p \in Process, Local(p), Exit(p)
  PROVE  Kept(p)
<1> DEFINE e == [v \in Page |-> NoEntry]
           t == [i \in Table |-> 0]
<1>1. /\ Known(call[p], entry[p], sbrk[p], evictionScanner[p], tables[p])
      /\ call[p].pc = "user"
  BY DEF Local, Exit, At
<1>2. e \in [Page -> EntryType] /\ t \in [Table -> {0} \cup Frame]
  BY RecordFacts
<1>3. \A v \in Page : ~e[v].allocated /\ ~e[v].present
  BY RecordFacts
<1>4. CallKnows(call[p], e, FirstPage, FirstPage)
  BY <1>1 DEF Known, CallKnows
<1>5. PagesKnow(call[p], e, FirstPage, t)
  BY <1>1, <1>3, PageFacts DEF Known, CallKnows, PagesKnow
<1>6. ScanKnows(call[p], e, FirstPage)
  BY <1>1 DEF Known, ScanKnows
<1>7. bitmap' \subseteq Frame /\ panic' \in Panic
  BY DEF Exit, TypeOK, Panic
<1>8. FirstPage \in FirstPage .. NumPages
  BY PagingAssumption
<1> QED BY <1>2, <1>4, <1>5, <1>6, <1>7, <1>8, SameVas, VasStep DEF Exit, TypeOK

LEMMA FreeKeeps ==
  ASSUME TypeOK, NEW p \in Process, Local(p), Free(p)
  PROVE  Kept(p)
<1> DEFINE c == [call[p] EXCEPT !.pc = "reclaim", !.copy = bitmap' \cap Byte(call[p].at)]
           s == evictionScanner[p] + 1
<1>1. /\ Known(call[p], entry[p], sbrk[p], evictionScanner[p], tables[p])
      /\ call[p].pc = "free" /\ call[p] \in CallType
  BY TypeFacts DEF Local, Free, At
<1>2. s \in FirstPage .. NumPages
  BY <1>1, PageFacts DEF Known, CallKnows, Page
<1>3. bitmap' \subseteq Frame /\ collided' \in BOOLEAN
  BY <1>1 DEF Free, setPageState, TypeOK, Known, CallKnows
<1>4. c \in CallType
  BY <1>1, <1>3 DEF CallType, Statement
<1>5. CallKnows(c, entry[p], sbrk[p], s)
  BY <1>1, <1>3 DEF Known, CallKnows, CallType
<1>6. PagesKnow(c, entry[p], sbrk[p], tables[p])
  BY <1>1 DEF Known, PagesKnow, CallType
<1>7. ScanKnows(c, entry[p], s)
  BY <1>1 DEF Known, ScanKnows, CallType
<1>8. call' = [call EXCEPT ![p] = c] /\ evictionScanner' = [evictionScanner EXCEPT ![p] = s]
  BY DEF Free
<1>9. /\ contents' \in [Frame -> Tag] /\ panic' \in Panic
      /\ UNCHANGED <<entry, sbrk, tables, currentPagePointer, swapVars>>
  BY DEF Free, TypeOK
<1> HIDE DEF c, s
<1> QED BY <1>2, <1>3, <1>4, <1>5, <1>6, <1>7, <1>8, <1>9, SameVas, VasStep

LEMMA ScanKeeps ==
  ASSUME TypeOK, NEW p \in Process, Local(p), Scan(p)
  PROVE  /\ Kept(p)
         /\ panic' = "OUT OF MEMORY" =>
              call'[p].pc = "scan" /\ \A v \in Page : ~entry'[p][v].present
<1> DEFINE c == call[p]
           s == evictionScanner[p]
           ahead == {v \in Page : v >= s /\ entry[p][v].present}
           victims == {v \in ahead : ~entry[p][v].accessed}
           Cleared(passed) == [v \in Page |->
             IF v \in passed THEN [entry[p][v] EXCEPT !.accessed = FALSE] ELSE entry[p][v]]
<1>1. /\ Known(c, entry[p], sbrk[p], s, tables[p])
      /\ c \in CallType /\ c.pc = "scan" /\ panic = "none"
      /\ entry[p] \in [Page -> EntryType] /\ call \in [Process -> CallType]
  BY TypeFacts DEF Local, Scan, At
<1>2. c.runs \in {0, 1, 2}
  BY <1>1 DEF Known, ScanKnows
<1>3. \A v \in Page : v \in Nat /\ FirstPage <= v /\ v < NumPages
  BY PageFacts
<1>4. ASSUME NEW passed
      PROVE  /\ Cleared(passed) \in [Page -> EntryType]
             /\ \A v \in Page :
                  /\ Cleared(passed)[v].present = entry[p][v].present
                  /\ Cleared(passed)[v].allocated = entry[p][v].allocated
                  /\ Cleared(passed)[v].address = entry[p][v].address
                  /\ v \in passed => ~Cleared(passed)[v].accessed
  BY <1>1 DEF EntryType
<1>5. /\ bitmap' \subseteq Frame /\ contents' \in [Frame -> Tag] /\ panic' \in Panic
      /\ collided' \in BOOLEAN
      /\ UNCHANGED <<sbrk, tables, currentPagePointer, swapVars>>
  BY DEF Scan, TypeOK, physVars, Panic
(* The step, with what it makes of the call and of the scanner. *)
<1>6. ASSUME NEW d \in CallType, call' = [call EXCEPT ![p] = d],
             d.goal = c.goal, d.page = c.page, d.given = c.given, d.pc \in {"scan", "slot"},
             NEW passed, entry' = [entry EXCEPT ![p] = Cleared(passed)],
             NEW n \in FirstPage .. NumPages, evictionScanner' = [evictionScanner EXCEPT ![p] = n],
             d.pc = "slot" => n \in Page /\ entry[p][n].present,
             ScanKnows(d, Cleared(passed), n)
      PROVE  Kept(p)
  <2> DEFINE e == Cleared(passed)
  <2>1. /\ e \in [Page -> EntryType]
        /\ \A v \in Page : /\ e[v].present = entry[p][v].present
                           /\ e[v].allocated = entry[p][v].allocated
                           /\ e[v].address = entry[p][v].address
    BY <1>4
  <2>2. entry' = [entry EXCEPT ![p] = e] /\ ScanKnows(d, e, n)
    BY <1>6
  <2> HIDE DEF e
  <2>3. c.page \in Page
    BY <1>1 DEF CallType
  <2>4. CallKnows(d, e, sbrk[p], n)
    BY <1>1, <1>6, <2>1, <2>3 DEF Known, CallKnows
  <2>5. PagesKnow(d, e, sbrk[p], tables[p])
    BY <1>1, <1>6, <2>1 DEF Known, PagesKnow
  <2> QED BY <1>5, <1>6, <2>1, <2>2, <2>4, <2>5, SameVas, VasStep
<1>7. ASSUME NEW v \in victims, entry' = [entry EXCEPT ![p] = Cleared({w \in ahead : w < v})],
             evictionScanner' = [evictionScanner EXCEPT ![p] = v],
             call' = [call EXCEPT ![p].pc = "slot", ![p].runs = 0]
      PROVE  Kept(p)
  <2> DEFINE d == [c EXCEPT !.pc = "slot", !.runs = 0]
  <2>1. 0 \in 0 .. Rounds /\ "slot" \in Statement
    BY DEF Rounds, Statement
  <2>2. /\ d \in CallType /\ d.pc = "slot" /\ d.runs = 0 /\ d.goal = c.goal
        /\ d.page = c.page /\ d.given = c.given
    BY <1>1, <2>1 DEF CallType
  <2>3. call' = [call EXCEPT ![p] = d]
    BY <1>7
  <2>4. v \in Page /\ v \in FirstPage .. NumPages /\ entry[p][v].present
    BY <1>3, <1>7, PagingAssumption
  <2> HIDE DEF d, Cleared, victims
  <2>5. ScanKnows(d, Cleared({w \in ahead : w < v}), v)
    BY <2>2 DEF ScanKnows
  <2> QED BY <1>6, <1>7, <2>2, <2>3, <2>4, <2>5
<1>8. ASSUME victims = {}, entry' = [entry EXCEPT ![p] = Cleared(ahead)],
             evictionScanner' = [evictionScanner EXCEPT ![p] = FirstPage]
      PROVE  /\ call' = [call EXCEPT ![p].runs = NextRun(@)] /\ c.runs # 2 => Kept(p)
             /\ UNCHANGED call /\ c.runs = 2 =>
                  Kept(p) /\ \A v \in Page : ~entry'[p][v].present
  <2>1. FirstPage \in FirstPage .. NumPages
    BY PagingAssumption
  <2>2. ASSUME c.runs = 1, NEW v \in Page, Cleared(ahead)[v].present
        PROVE  ~Cleared(ahead)[v].accessed
    <3>1. s = FirstPage
      BY <1>1, <2>2 DEF Known, ScanKnows
    <3>2. v \in ahead
      BY <1>3, <1>4, <2>2, <3>1
    <3> QED BY <1>4, <3>2
  <2>3. ASSUME c.runs = 2, NEW v \in Page, entry[p][v].present
        PROVE  FALSE
    <3>1. s = FirstPage /\ ~entry[p][v].accessed
      BY <1>1, <2>3 DEF Known, ScanKnows
    <3>2. v \in victims
      BY <1>3, <2>3, <3>1
    <3> QED BY <1>8, <3>2
  <2>4. ASSUME call' = [call EXCEPT ![p].runs = NextRun(@)], c.runs # 2
        PROVE  Kept(p)
    <3> DEFINE d == [c EXCEPT !.runs = NextRun(c.runs)]
    <3>1. NextRun(c.runs) \in 0 .. Rounds /\ NextRun(c.runs) = c.runs + 1 /\ c.runs \in {0, 1}
      BY <1>2, <2>4 DEF NextRun, Rounds
    <3>2. /\ d \in CallType /\ d.pc = "scan" /\ d.runs = c.runs + 1 /\ d.goal = c.goal
          /\ d.page = c.page /\ d.given = c.given
      BY <1>1, <3>1 DEF CallType
    <3>3. call' = [call EXCEPT ![p] = d]
      BY <2>4
    <3> HIDE DEF d, Cleared, ahead
    <3>4. ScanKnows(d, Cleared(ahead), FirstPage)
      BY <2>2, <3>1, <3>2 DEF ScanKnows
    <3> QED BY <1>6, <1>8, <2>1, <3>2, <3>3, <3>4
  <2>5. ASSUME UNCHANGED call, c.runs = 2
        PROVE  Kept(p) /\ \A v \in Page : ~entry'[p][v].present
    <3>1. \A v \in Page : ~Cleared(ahead)[v].present
      BY <1>4, <2>3, <2>5
    <3>2. entry'[p] = Cleared(ahead)
      BY <1>8, TypeFacts
    <3>3. call' = [call EXCEPT ![p] = c]
      BY <1>1, <2>5
    <3> HIDE DEF Cleared, ahead
    <3>4. ScanKnows(c, Cleared(ahead), FirstPage)
      BY <1>1, <1>2, <3>1 DEF ScanKnows
    <3>5. Kept(p)
      BY <1>1, <1>6, <1>8, <2>1, <3>3, <3>4
    <3> QED BY <3>1, <3>2, <3>5
  <2> QED BY <2>4, <2>5
<1>9. \/ \E v \in victims :
           /\ entry' = [entry EXCEPT ![p] = Cleared({w \in ahead : w < v})]
           /\ evictionScanner' = [evictionScanner EXCEPT ![p] = v]
           /\ call' = [call EXCEPT ![p].pc = "slot", ![p].runs = 0]
           /\ UNCHANGED panic
      \/ /\ victims = {}
         /\ entry' = [entry EXCEPT ![p] = Cleared(ahead)]
         /\ evictionScanner' = [evictionScanner EXCEPT ![p] = FirstPage]
         /\ IF NextRun(c.runs) = Rounds
            THEN panic' = "OUT OF MEMORY" /\ UNCHANGED call
            ELSE call' = [call EXCEPT ![p].runs = NextRun(@)] /\ UNCHANGED panic
  BY DEF Scan
<1>10. NextRun(c.runs) = Rounds <=> c.runs = 2
  BY <1>2 DEF NextRun, Rounds
<1> HIDE DEF victims, ahead, Cleared
<1>11. CASE UNCHANGED panic
  BY <1>1, <1>7, <1>8, <1>9, <1>10, <1>11
<1>12. CASE panic' # panic
  BY <1>1, <1>8, <1>9, <1>10, <1>12
<1> QED BY <1>11, <1>12

LEMMA UnmapKeeps ==
  ASSUME TypeOK, NEW p \in Process, Local(p), Unmap(p)
  PROVE  Kept(p)
<1> DEFINE s == evictionScanner[p]
           f == entry[p][s].address
           c == [call[p] EXCEPT !.pc = "free", !.id = 0, !.at = f, !.copy = bitmap \cap Byte(f)]
           e == [entry[p] EXCEPT ![s] = InSlot(call[p].id)]
<1>1. /\ Known(call[p], entry[p], sbrk[p], s, tables[p])
      /\ call[p].pc = "unmap" /\ call[p] \in CallType /\ entry[p] \in [Page -> EntryType]
  BY TypeFacts DEF Local, Unmap, At
<1>2. /\ s \in Page /\ call[p].id \in Slot /\ f \in Frame
      /\ entry[p][s].present /\ entry[p][s].allocated
  BY <1>1 DEF Known, CallKnows, PagesKnow
<1>3. c \in CallType
  BY <1>1, <1>2 DEF CallType, Statement, Byte
<1>4. /\ e \in [Page -> EntryType] /\ e[s].allocated /\ ~e[s].present /\ e[s].address \in Slot
      /\ \A v \in Page \ {s} : e[v] = entry[p][v]
  BY <1>1, <1>2, RecordFacts
<1>5. call' = [call EXCEPT ![p] = c] /\ entry' = [entry EXCEPT ![p] = e]
  BY DEF Unmap
<1>6. c.copy \subseteq Frame
  BY <1>1 DEF CallType, Byte
<1>7. CallKnows(c, e, sbrk[p], s)
  BY <1>1, <1>2, <1>4, <1>6 DEF Known, CallKnows, CallType
<1>8. PagesKnow(c, e, sbrk[p], tables[p])
  BY <1>1, <1>2, <1>4 DEF Known, PagesKnow, CallType
<1>9. ScanKnows(c, e, s)
  BY <1>1 DEF Known, ScanKnows, CallType
<1>10. /\ bitmap' \subseteq Frame /\ contents' \in [Frame -> Tag] /\ panic' \in Panic
       /\ collided' \in BOOLEAN
       /\ UNCHANGED <<sbrk, tables, evictionScanner, currentPagePointer, swapVars>>
  BY DEF Unmap, TypeOK, physVars, Panic
<1> HIDE DEF c, e
<1> QED BY <1>3, <1>4, <1>5, <1>7, <1>8, <1>9, <1>10, SameVas, VasStep

LEMMA LoadEntryKeeps ==
  ASSUME TypeOK, NEW p \in Process, Local(p), LoadEntry(p)
  PROVE  Kept(p)
<1> DEFINE v == call[p].page
           c == [call[p] EXCEPT !.pc = "read", !.id = entry[p][v].address, !.frame = 0]
           e == [entry[p] EXCEPT ![v] = InFrame(call[p].frame, TRUE)]
<1>1. /\ Known(call[p], entry[p], sbrk[p], evictionScanner[p], tables[p])
      /\ call[p].pc = "load" /\ call[p] \in CallType /\ entry[p] \in [Page -> EntryType]
      /\ v \in Page
  BY TypeFacts DEF Local, LoadEntry, At, CallType
<1>2. /\ call[p].goal = "load" /\ call[p].frame \in Frame
      /\ entry[p][v].allocated /\ ~entry[p][v].present /\ entry[p][v].address \in Slot
  BY <1>1 DEF Known, CallKnows, PagesKnow
<1>3. c \in CallType
  BY <1>1, <1>2, PageFacts DEF CallType, Statement
<1>4. /\ e \in [Page -> EntryType] /\ e[v].allocated /\ e[v].present /\ e[v].address \in Frame
      /\ \A w \in Page \ {v} : e[w] = entry[p][w]
  BY <1>1, <1>2, RecordFacts
<1>5. call' = [call EXCEPT ![p] = c] /\ entry' = [entry EXCEPT ![p] = e]
  BY DEF LoadEntry
<1>6. CallKnows(c, e, sbrk[p], evictionScanner[p])
  BY <1>1, <1>2 DEF Known, CallKnows, CallType
<1>7. PagesKnow(c, e, sbrk[p], tables[p])
  BY <1>1, <1>2, <1>4 DEF Known, PagesKnow, CallType
<1>8. ScanKnows(c, e, evictionScanner[p])
  <2>1. c.pc = "read" /\ c.runs = call[p].runs
    BY <1>1 DEF CallType
  <2>2. call[p].runs = 0
    BY <1>1 DEF Known, ScanKnows
  <2> HIDE DEF c, e
  <2> QED BY <2>1, <2>2 DEF ScanKnows
<1>9. /\ bitmap' \subseteq Frame /\ contents' \in [Frame -> Tag] /\ panic' \in Panic
      /\ collided' \in BOOLEAN
      /\ UNCHANGED <<sbrk, tables, evictionScanner, currentPagePointer, swapVars>>
  BY DEF LoadEntry, TypeOK, physVars
<1> HIDE DEF c, e
<1> QED BY <1>3, <1>4, <1>5, <1>6, <1>7, <1>8, <1>9, SameVas, VasStep

LEMMA TableInRange ==
  ASSUME NEW v \in Page, TableOf(v) # 0
  PROVE  TableOf(v) \in Table
<1> DEFINE P == PagesPerTable
           last == NumPages - 1
           q == v \div P
           r == last \div P
<1>1. P \in Nat \ {0} /\ v \in Nat /\ last \in Nat /\ v <= last
  BY PagingAssumption, PageFacts
<1>2. q \in Int /\ v % P \in 0 .. P - 1 /\ v = P * q + (v % P)
  BY <1>1
<1>3. r \in Int /\ last % P \in 0 .. P - 1 /\ last = P * r + (last % P)
  <2> HIDE DEF last
  <2> QED BY <1>1
<1>4. q >= 0
  <2>1. SUFFICES ASSUME q <= -1 PROVE FALSE
    BY <1>2
  <2> DEFINE m == v % P
  <2>2. m \in 0 .. P - 1 /\ v = P * q + m
    BY <1>2
  <2> HIDE DEF P, q, m
  <2>3. P * q <= -P
    BY <1>1, <1>2, <2>1
  <2> QED BY <1>1, <1>2, <2>2, <2>3
<1>5. q <= r
  <2>1. SUFFICES ASSUME q >= r + 1 PROVE FALSE
    BY <1>2, <1>3
  <2> DEFINE m == v % P
             n == last % P
  <2>2. m \in 0 .. P - 1 /\ v = P * q + m /\ n \in 0 .. P - 1 /\ last = P * r + n
    BY <1>2, <1>3
  <2> HIDE DEF P, q, r, m, n, last
  <2>3. P * (q - r) >= P
    BY <1>1, <1>2, <1>3, <2>1
  <2>4. P * (q - r) = P * q - P * r
    BY <1>1, <1>2, <1>3
  <2>5. P * q \in Int /\ P * r \in Int
    BY <1>1, <1>2, <1>3
  <2> QED BY <1>1, <2>2, <2>3, <2>4, <2>5
<1>6. TableOf(v) = q /\ TableOf(NumPages - 1) = r
  BY DEF TableOf
<1> HIDE DEF q, r
<1> QED BY <1>2, <1>3, <1>4, <1>5, <1>6 DEF Table

(* A page that is entered into its page table, and what follows it. *)
LEMMA EnterKnows ==
  ASSUME TypeOK, NEW p \in Process, Local(p), call[p].pc \in {"page", "table"},
         NEW f \in Frame, NEW t, \A i \in Table : tables[p][i] # 0 => t[i] # 0,
         TableOf(call[p].page) # 0 => t[TableOf(call[p].page)] # 0,
         NEW e, e = [entry[p] EXCEPT ![call[p].page] = InFrame(f, FALSE)],
         NEW d, d = IF More(p, call[p].page) THEN Allocating("page", call[p].page + 1, 0)
                                             ELSE InUser
  PROVE  /\ d \in CallType /\ e \in [Page -> EntryType]
         /\ CallKnows(d, e, sbrk[p], evictionScanner[p])
         /\ PagesKnow(d, e, sbrk[p], t)
         /\ ScanKnows(d, e, evictionScanner[p])
<1> DEFINE v == call[p].page
           b == sbrk[p]
<1>1. /\ Known(call[p], entry[p], b, evictionScanner[p], tables[p])
      /\ call[p] \in CallType /\ entry[p] \in [Page -> EntryType] /\ v \in Page
      /\ b \in FirstPage .. NumPages
  BY TypeFacts DEF Local, CallType
<1>2. call[p].goal \in {"page", "table"} /\ v < b
  BY <1>1 DEF Known, CallKnows
<1>3. /\ e \in [Page -> EntryType] /\ e[v].allocated /\ e[v].present /\ e[v].address = f
      /\ \A w \in Page \ {v} : e[w] = entry[p][w]
  BY <1>1, RecordFacts
<1>4. /\ v \in Nat /\ b \in Nat /\ b <= NumPages /\ FirstPage <= v
      /\ More(p, v) <=> v + 1 < b
  <2>1. v \in Nat /\ FirstPage <= v /\ FirstPage \in Nat /\ NumPages \in Nat
    BY <1>1, PageFacts
  <2> QED BY <1>1, <2>1 DEF More
<1>5. \A w \in Page : w \in Nat
  BY PageFacts
<1>6. /\ d \in CallType
      /\ d.runs = 0
      /\ IF v + 1 < b THEN d.pc = "search" /\ d.goal = "page" /\ d.page = v + 1 /\ d.at \in Frame
                      ELSE d.pc = "user" /\ d.goal = "none"
  <2>1. CASE v + 1 < b
    <3>1. v + 1 \in Page /\ currentPagePointer \in Frame
      BY <1>4, <2>1, PagingAssumption DEF Page, TypeOK
    <3> QED BY <1>4, <2>1, <3>1, CallFacts
  <2>2. CASE ~(v + 1 < b)
    BY <1>4, <2>2, CallFacts
  <2> QED BY <2>1, <2>2
<1>7. CallKnows(d, e, b, evictionScanner[p])
  BY <1>4, <1>6 DEF CallKnows
<1>8. PagesKnow(d, e, b, t)
  <2>1. ASSUME NEW w \in Page, w # v
        PROVE  /\ e[w].present => e[w].allocated /\ e[w].address \in Frame
               /\ e[w].allocated /\ ~e[w].present => e[w].address \in Slot
               /\ e[w].allocated <=> w < v
               /\ e[w].allocated /\ TableOf(w) # 0 => t[TableOf(w)] # 0
    BY <1>1, <1>2, <1>3, <2>1, TableInRange DEF Known, PagesKnow
  <2>2. ASSUME NEW w \in Page PROVE e[w].allocated <=> w < v + 1
    <3>1. CASE w = v
      <4>1. \A n \in Nat : n < n + 1
        OBVIOUS
      <4>2. v < v + 1 /\ e[v].allocated
        BY <1>3, <1>4, <4>1
      <4> QED BY <3>1, <4>2
    <3>2. CASE w # v
      BY <1>4, <1>5, <2>1, <3>2
    <3> QED BY <3>1, <3>2
  <2>3. (IF d.goal \in {"page", "table"} THEN d.page ELSE b) = v + 1
    BY <1>2, <1>4, <1>6
  <2> QED BY <1>3, <2>1, <2>2, <2>3 DEF PagesKnow
<1>9. ScanKnows(d, e, evictionScanner[p])
  <2>1. d.runs = 0 /\ d.runs \notin {1, 2} /\ d.runs # 2
    BY <1>6
  <2> QED BY <2>1 DEF ScanKnows
<1> QED BY <1>3, <1>6, <1>7, <1>8, <1>9

LEMMA MapKeeps ==
  ASSUME TypeOK, NEW p \in Process, Local(p), Map(p)
  PROVE  Kept(p)
<1> DEFINE v == call[p].page
<1>1. /\ Known(call[p], entry[p], sbrk[p], evictionScanner[p], tables[p])
      /\ call[p].pc = "page" /\ call[p] \in CallType /\ v \in Page
  BY TypeFacts DEF Local, Map, At, CallType
<1>2. call[p].goal = "page" /\ call[p].frame \in Frame /\ v < sbrk[p]
  BY <1>1 DEF Known, CallKnows
<1>3. /\ bitmap' \subseteq Frame /\ panic' \in Panic /\ collided' \in BOOLEAN
      /\ contents \in [Frame -> Tag] /\ <<p, v>> \in Tag /\ Nobody \in Tag
      /\ UNCHANGED <<sbrk, tables, evictionScanner, currentPagePointer, swapVars>>
  BY <1>1 DEF Map, TypeOK, physVars, Tag
<1>4. CASE HasTable(p, v) /\ MapPage(p, call[p].frame, {})
  <2> DEFINE e == [entry[p] EXCEPT ![v] = InFrame(call[p].frame, FALSE)]
             d == IF More(p, v) THEN Allocating("page", v + 1, 0) ELSE InUser
  <2>1. /\ d \in CallType /\ e \in [Page -> EntryType]
        /\ CallKnows(d, e, sbrk[p], evictionScanner[p])
        /\ PagesKnow(d, e, sbrk[p], tables[p])
        /\ ScanKnows(d, e, evictionScanner[p])
    <3>1. TableOf(v) # 0 => tables[p][TableOf(v)] # 0
      BY <1>4 DEF HasTable
    <3> QED BY <1>1, <1>2, <3>1, EnterKnows
  <2>2. call' = [call EXCEPT ![p] = d] /\ entry' = [entry EXCEPT ![p] = e]
    BY <1>4 DEF MapPage, Enter
  <2>3. contents' \in [Frame -> Tag]
    BY <1>3, <1>4 DEF MapPage
  <2> HIDE DEF d, e
  <2> QED BY <1>3, <2>1, <2>2, <2>3, SameVas, VasStep
<1>5. CASE /\ call' = [call EXCEPT ![p] = Allocating("table", v, call[p].frame)]
           /\ UNCHANGED <<entry, contents>>
  <2> DEFINE d == Allocating("table", v, call[p].frame)
  <2>0. currentPagePointer \in Frame
    BY DEF TypeOK
  <2>1. /\ d \in CallType /\ d.pc = "search" /\ d.goal = "table" /\ d.page = v
        /\ d.given = call[p].frame /\ d.at \in Frame /\ d.runs = 0
    <3>1. ASSUME NEW w \in Page, NEW g \in Frame, w = v, g = call[p].frame
          PROVE  LET c == Allocating("table", w, g)
                 IN  /\ c \in CallType /\ c.pc = "search" /\ c.goal = "table" /\ c.page = w
                     /\ c.given = g /\ c.at \in Frame /\ c.runs = 0
      <4>1. "table" \in {"page", "table", "load"} /\ g \in {0} \cup Frame
        OBVIOUS
      <4> QED BY <2>0, <4>1, CallFacts
    <3> QED BY <1>1, <1>2, <3>1
  <2> HIDE DEF d
  <2>2. CallKnows(d, entry[p], sbrk[p], evictionScanner[p])
    BY <1>2, <2>1 DEF CallKnows
  <2>3. PagesKnow(d, entry[p], sbrk[p], tables[p])
    BY <1>1, <1>2, <2>1 DEF Known, PagesKnow
  <2>4. ScanKnows(d, entry[p], evictionScanner[p])
    BY <2>1 DEF ScanKnows
  <2>5. call' = [call EXCEPT ![p] = d] /\ entry' = entry /\ contents' \in [Frame -> Tag]
    BY <1>3, <1>5 DEF d
  <2> QED BY <1>3, <2>1, <2>2, <2>3, <2>4, <2>5, SameVas, VasStep
<1> QED BY <1>4, <1>5 DEF Map

LEMMA MapTableKeeps ==
  ASSUME TypeOK, NEW p \in Process, Local(p), MapTable(p)
  PROVE  Kept(p)
<1> DEFINE v == call[p].page
           f == call[p].given
           t == [tables[p] EXCEPT ![TableOf(v)] = call[p].frame]
           e == [entry[p] EXCEPT ![v] = InFrame(f, FALSE)]
           d == IF More(p, v) THEN Allocating("page", v + 1, 0) ELSE InUser
<1>1. /\ Known(call[p], entry[p], sbrk[p], evictionScanner[p], tables[p])
      /\ call[p].pc = "table" /\ call[p] \in CallType /\ v \in Page
      /\ tables[p] \in [Table -> {0} \cup Frame]
  BY TypeFacts DEF Local, MapTable, At, CallType
<1>2. f \in Frame /\ call[p].frame \in Frame /\ call[p].frame # 0
  BY <1>1, PageFacts DEF Known, CallKnows
<1>3. /\ t \in [Table -> {0} \cup Frame]
      /\ \A i \in Table : tables[p][i] # 0 => t[i] # 0
      /\ TableOf(v) # 0 => t[TableOf(v)] # 0
  BY <1>1, <1>2, TableInRange
<1>4. call' = [call EXCEPT ![p] = d] /\ entry' = [entry EXCEPT ![p] = e]
  BY DEF MapTable, MapPage, Enter
<1>5. tables' = [tables EXCEPT ![p] = t]
  BY DEF MapTable
<1>6. /\ d \in CallType /\ e \in [Page -> EntryType]
      /\ CallKnows(d, e, sbrk[p], evictionScanner[p])
      /\ PagesKnow(d, e, sbrk[p], t)
      /\ ScanKnows(d, e, evictionScanner[p])
  <2> HIDE DEF t
  <2> QED BY <1>1, <1>2, <1>3, EnterKnows
<1>7. /\ bitmap' \subseteq Frame /\ panic' \in Panic /\ collided' \in BOOLEAN
      /\ UNCHANGED <<sbrk, evictionScanner, currentPagePointer, swapVars>>
  BY DEF MapTable, TypeOK, physVars
<1>8. contents' \in [Frame -> Tag]
  <2>1. <<p, v>> \in Tag /\ Nobody \in Tag /\ contents \in [Frame -> Tag]
    BY <1>1 DEF Tag, TypeOK
  <2> QED BY <2>1 DEF MapTable, MapPage
<1> HIDE DEF d, e, t
<1> QED BY <1>3, <1>4, <1>5, <1>6, <1>7, <1>8, SameVas, VasStep

-----------------------------------------------------------------------------
(* What p does leaves what the other processes know. *)
LEMMA OthersLocal ==
  ASSUME NEW p \in Process, Others(p), \A q \in Process : Local(q), Local(p)'
  PROVE  \A q \in Process : Local(q)'
BY DEF Others, Local

LEMMA NextPagingInv == PagingInv /\ [Next]_vars => PagingInv'
<1> SUFFICES ASSUME PagingInv, [Next]_vars PROVE PagingInv'
  OBVIOUS
<1> USE DEF PagingInv
<1>1. CASE UNCHANGED vars
  <2> USE <1>1 DEF vars, physVars, swapVars, vasVars
  <2>1. TypeOK'
    BY DEF TypeOK
  <2>2. \A p \in Process : Local(p)'
    BY DEF Local
  <2>3. OutOfMemoryIsTrue'
    BY DEF OutOfMemoryIsTrue
  <2> QED BY <2>1, <2>2, <2>3
<1>2. ASSUME NEW p \in Process, Scan(p)
      PROVE  PagingInv'
  <2>1. /\ Kept(p)
        /\ panic' = "OUT OF MEMORY" =>
             call'[p].pc = "scan" /\ \A v \in Page : ~entry'[p][v].present
    BY <1>2, ScanKeeps
  <2>2. \A q \in Process : Local(q)'
    BY <2>1, OthersLocal DEF Kept
  <2> QED BY <2>1, <2>2 DEF Kept, OutOfMemoryIsTrue
<1>3. ASSUME NEW p \in Process, User(p) \/ Kernel(p), ~Scan(p)
      PROVE  PagingInv'
  <2>1. Kept(p)
    BY <1>3, AccessKeeps, FaultKeeps, SbrkKeeps, ExitKeeps, SearchKeeps, AdvanceKeeps, TakeKeeps,
       ReturnKeeps, ReclaimKeeps, FindSlotKeeps, MarkSlotKeeps, SwapOutKeeps, UnmapKeeps,
       FreeKeeps, LoadEntryKeeps, LoadReadKeeps, FreeSlotKeeps, MapKeeps, MapTableKeeps
       DEF User, Kernel
  <2>2. \A q \in Process : Local(q)'
    BY <2>1, OthersLocal DEF Kept
  <2>3. call[p].pc # "scan" /\ panic = "none" /\ panic' # "OUT OF MEMORY"
    <3>1. CASE User(p)
      BY <3>1 DEF User, Access, Fault, Sbrk, Exit, At
    <3>2. CASE Search(p) \/ Advance(p) \/ Take(p) \/ Return(p) \/ Reclaim(p) \/ Map(p)
               \/ MapTable(p) \/ FindSlot(p)
      BY <3>2 DEF Search, Advance, Take, Return, Reclaim, FindSlot, Map, MapTable, At
    <3>3. CASE MarkSlot(p) \/ SwapOut(p) \/ Unmap(p) \/ Free(p) \/ LoadEntry(p) \/ LoadRead(p)
               \/ FreeSlot(p)
      BY <3>3 DEF MarkSlot, SwapOut, Unmap, Free, LoadEntry, LoadRead, FreeSlot, At
    <3> QED BY <1>3, <3>1, <3>2, <3>3 DEF Kernel
  <2> QED BY <2>1, <2>2, <2>3 DEF Kept, OutOfMemoryIsTrue
<1> QED BY <1>1, <1>2, <1>3 DEF Next

LEMMA InitPagingInv == Init => PagingInv
<1> SUFFICES ASSUME Init PROVE PagingInv
  OBVIOUS
<1>1. \A p \in Process : call[p] = InUser
  BY DEF Init
<1>2. /\ entry \in [Process -> [Page -> EntryType]]
      /\ \A p \in Process, v \in Page : ~entry[p][v].present /\ ~entry[p][v].allocated
  BY RecordFacts DEF Init
<1>3. \A p \in Process : sbrk[p] = FirstPage /\ evictionScanner[p] = FirstPage
  BY DEF Init
<1>4. TypeOK
  <2>1. call \in [Process -> CallType]
    BY CallFacts DEF Init
  <2>2. contents \in [Frame -> Tag] /\ swapfile \in [Slot -> Tag]
    BY DEF Init, Tag
  <2>3. currentPagePointer \in Frame
    BY PagingAssumption DEF Init, Frame
  <2>4. tables \in [Process -> [Table -> {0} \cup Frame]]
    BY DEF Init
  <2>5. /\ sbrk \in [Process -> FirstPage .. NumPages]
        /\ evictionScanner \in [Process -> FirstPage .. NumPages]
    BY PagingAssumption DEF Init
  <2>6. /\ bitmap = {} /\ swapfileBitmap = {} /\ panic = "none"
        /\ collided = FALSE /\ missed = FALSE
    BY DEF Init
  <2> QED BY <1>2, <2>1, <2>2, <2>3, <2>4, <2>5, <2>6 DEF TypeOK, EntryType, CallType, Panic
<1>5. ASSUME NEW p \in Process PROVE Local(p)
  <2>1. CallKnows(call[p], entry[p], sbrk[p], evictionScanner[p])
    BY <1>1, CallFacts DEF CallKnows
  <2>2. PagesKnow(call[p], entry[p], sbrk[p], tables[p])
    BY <1>1, <1>2, <1>3, CallFacts, PageFacts DEF PagesKnow
  <2>3. ScanKnows(call[p], entry[p], evictionScanner[p])
    BY <1>1, CallFacts DEF ScanKnows
  <2> QED BY <2>1, <2>2, <2>3 DEF Local, Known
<1>6. OutOfMemoryIsTrue
  BY DEF Init, OutOfMemoryIsTrue
<1> QED BY <1>4, <1>5, <1>6 DEF PagingInv

-----------------------------------------------------------------------------
(* Every reachable state satisfies the inductive invariant.                 *)
THEOREM PagingInvariance == Spec => []PagingInv
BY InitPagingInv, NextPagingInv, PTL DEF Spec

(* The types of the page tables, the bitmaps and the calls, whatever two     *)
(* processes do to the bitmaps at once.                                     *)
THEOREM TypeCorrect == Spec => []TypeOK
<1>1. PagingInv => TypeOK
  BY DEF PagingInv
<1> QED BY <1>1, PagingInvariance, PTL

(* scanForEviction, which goes round at most three times, gives up only      *)
(* when its process has nothing to evict, and allocatePage panics only then. *)
THEOREM OutOfMemoryOnlyThen == Spec => []OutOfMemoryIsTrue
<1>1. PagingInv => OutOfMemoryIsTrue
  BY DEF PagingInv
<1> QED BY <1>1, PagingInvariance, PTL

(* SysSbrk, evict and tryLoadBackOffDisk keep every page below the break of  *)
(* a process in a frame or a slot and its page table in place, though each  *)
(* is cut by the steps of the others.                                       *)
THEOREM BreaksAreBacked == Spec => []BreakIsBacked
<1>1. ASSUME PagingInv, NEW p \in Process, NEW v \in Page
      PROVE  /\ entry[p][v].allocated <=> v < Reached(p)
             /\ entry[p][v].allocated => HasTable(p, v)
  BY <1>1 DEF PagingInv, Local, Known, PagesKnow, Reached, HasTable
<1>2. PagingInv => BreakIsBacked
  BY <1>1 DEF BreakIsBacked
<1> QED BY <1>2, PagingInvariance, PTL

-----------------------------------------------------------------------------
(* The slots, as long as no test or copy was out of date when it was used.  *)

(* What evict and tryLoadBackOffDisk count on beside: the copy of the word   *)
(* they are about to write does not have the slot, and a page is present    *)
(* before it is read.                                                       *)
SlotKnows(c, e) ==
  /\ c.pc = "mark" => c.id \notin c.copy
  /\ c.pc \in {"read", "slotfree"} => e[c.page].present

SlotInv ==
  /\ \A p \in Process : SlotKnows(call[p], entry[p])
  /\ SlotsApart

OtherSlots(p) ==
  \A q \in Process \ {p} :
    /\ SlotKnows(call[q], entry[q])'
    /\ \A v \in Page, id \in 0 .. NumSlots : InSwapfile(q, v, id)' <=> InSwapfile(q, v, id)

LEMMA OtherSlotsStay ==
  ASSUME SlotInv, NEW p \in Process, Others(p)
  PROVE  OtherSlots(p)
BY DEF SlotInv, SlotKnows, InSwapfile, Others, OtherSlots

(* A step that gives no page another slot and takes no mark away. *)
LEMMA SlotsStay ==
  ASSUME SlotInv, collided => collided', NEW p \in Process, OtherSlots(p),
         SlotKnows(call[p], entry[p])',
         \A v \in Page, id \in 0 .. NumSlots : InSwapfile(p, v, id)' => InSwapfile(p, v, id),
         swapfileBitmap' = swapfileBitmap
  PROVE  SlotInv'
<1>1. \A q \in Process : SlotKnows(call[q], entry[q])'
  BY DEF OtherSlots
<1>2. \A q \in Process, v \in Page, id \in 0 .. NumSlots :
        InSwapfile(q, v, id)' => InSwapfile(q, v, id)
  BY DEF OtherSlots
<1>3. SlotsApart'
  BY <1>2 DEF SlotInv, SlotsApart
<1> QED BY <1>1, <1>3 DEF SlotInv

(* A step that leaves the page tables alone, after which the thread neither  *)
(* evicts nor loads.                                                        *)
LEMMA SlotsElsewhere ==
  ASSUME SlotInv, collided => collided', NEW p \in Process, OtherSlots(p),
         SlotKnows(call[p], entry[p])', entry'[p] = entry[p],
         call'[p].pc \notin {"write", "unmap", "read", "slotfree"},
         swapfileBitmap' = swapfileBitmap
  PROVE  SlotInv'
<1>1. \A v \in Page, id \in 0 .. NumSlots : InSwapfile(p, v, id)' => InSwapfile(p, v, id)
  BY DEF InSwapfile
<1> QED BY <1>1, SlotsStay

(* Steps that leave every page that is not present as it is. *)
LEMMA SlotsOfAbsent ==
  ASSUME SlotInv, collided => collided', NEW p \in Process, OtherSlots(p),
         SlotKnows(call[p], entry[p])',
         call'[p].pc \notin {"write", "unmap", "read", "slotfree"},
         \A v \in Page : entry'[p][v].allocated /\ ~entry'[p][v].present =>
                           entry[p][v].allocated /\ ~entry[p][v].present
                             /\ entry'[p][v].address = entry[p][v].address,
         swapfileBitmap' = swapfileBitmap
  PROVE  SlotInv'
<1>1. \A v \in Page, id \in 0 .. NumSlots : InSwapfile(p, v, id)' => InSwapfile(p, v, id)
  BY DEF InSwapfile
<1> QED BY <1>1, SlotsStay

(* The slot that is marked was nobody's. *)
LEMMA MarkSlotApart ==
  ASSUME PagingInv, SlotInv, NEW p \in Process, OtherSlots(p), MarkSlot(p)
  PROVE  SlotInv'
<1> DEFINE c == call[p]
           id == c.id
           now == swapfileBitmap \cap Word(id)
<1>1. /\ c \in CallType /\ c.pc = "mark" /\ id \in Slot /\ id \in 0 .. NumSlots
      /\ c.copy \subseteq Slot /\ id \notin c.copy /\ swapfileBitmap \subseteq Slot
  <2>1. c \in CallType /\ c.pc = "mark" /\ Known(c, entry[p], sbrk[p], evictionScanner[p], tables[p])
    BY TypeFacts DEF PagingInv, Local, MarkSlot, At
  <2>2. id \in Slot /\ c.copy \subseteq Slot
    BY <2>1 DEF Known, CallKnows
  <2>3. id \notin c.copy
    BY <2>1 DEF SlotInv, SlotKnows
  <2> QED BY <2>1, <2>2, <2>3, PagingAssumption DEF PagingInv, TypeOK, Slot
<1>2. /\ call'[p].pc = "write" /\ call'[p].id = id
      /\ UNCHANGED <<entry, evictionScanner>>
      /\ swapfileBitmap' = (swapfileBitmap \ now) \cup c.copy \cup {id}
      /\ collided' = (collided \/ c.copy # now)
  BY <1>1, TypeFacts DEF MarkSlot, StoreWord, WithSlot, vasVars, PagingInv, CallType
<1>3. SlotKnows(call[p], entry[p])'
  BY <1>2 DEF SlotKnows
<1>4. ASSUME ~collided'
      PROVE  SlotsApart'
  <2>1. ~collided /\ c.copy = now /\ id \notin swapfileBitmap
        /\ swapfileBitmap' = swapfileBitmap \cup {id}
    <3>1. ~collided /\ c.copy = now
      BY <1>2, <1>4
    <3>2. id \in Word(id)
      BY <1>1 DEF Word
    <3> QED BY <1>1, <1>2, <3>1, <3>2
  <2>2. \A q \in Process, v \in Page, i \in 0 .. NumSlots :
          InSwapfile(q, v, i) => i # id
    BY <2>1 DEF SlotInv, SlotsApart
  <2>3. \A v \in Page, i \in 0 .. NumSlots :
          InSwapfile(p, v, i)' =>
            InSwapfile(p, v, i) \/ (i = id /\ v = evictionScanner[p])
    BY <1>2 DEF InSwapfile
  <2>4. \A q \in Process, v \in Page, i \in 0 .. NumSlots :
          InSwapfile(q, v, i)' =>
            InSwapfile(q, v, i) \/ (q = p /\ i = id /\ v = evictionScanner[p])
    BY <2>3 DEF OtherSlots
  <2>5. \A q, r \in Process, v, w \in Page, i \in 0 .. NumSlots :
          InSwapfile(q, v, i) =>
            i \in swapfileBitmap /\ (InSwapfile(r, w, i) => q = r /\ v = w)
    BY <2>1 DEF SlotInv, SlotsApart
  <2> QED BY <2>1, <2>2, <2>4, <2>5 DEF SlotsApart
<1>5. SlotsApart'
  BY <1>4 DEF SlotsApart
<1> QED BY <1>3, <1>5 DEF SlotInv, OtherSlots

(* The slot that is given back was the page's, and is nobody's now. *)
LEMMA FreeSlotApart ==
  ASSUME PagingInv, SlotInv, NEW p \in Process, OtherSlots(p), FreeSlot(p)
  PROVE  SlotInv'
<1> DEFINE c == call[p]
           id == c.id
           now == swapfileBitmap \cap Word(id)
<1>1. /\ c.pc = "slotfree" /\ id \in Slot /\ id \in 0 .. NumSlots /\ c.page \in Page
      /\ entry[p][c.page].present /\ swapfileBitmap \subseteq Slot
  <2>1. c \in CallType /\ c.pc = "slotfree" /\ Known(c, entry[p], sbrk[p], evictionScanner[p], tables[p])
    BY TypeFacts DEF PagingInv, Local, FreeSlot, At
  <2>2. id \in Slot /\ c.page \in Page
    BY <2>1 DEF Known, CallKnows, CallType
  <2>3. entry[p][c.page].present
    BY <2>1 DEF SlotInv, SlotKnows
  <2> QED BY <2>1, <2>2, <2>3, PagingAssumption DEF PagingInv, TypeOK, Slot
<1>2. call'[p].pc = "user" /\ UNCHANGED <<entry, evictionScanner>>
  BY CallFacts, TypeFacts DEF FreeSlot, vasVars, PagingInv
<1>3. PICK word \in SUBSET (c.copy \cup now) :
        /\ swapfileBitmap' = (swapfileBitmap \ now) \cup (word \ {id})
        /\ collided' = (collided \/ word # now)
  BY DEF FreeSlot, StoreWord
<1>4. SlotKnows(call[p], entry[p])'
  BY <1>2 DEF SlotKnows
<1>5. ASSUME ~collided'
      PROVE  SlotsApart'
  <2>1. ~collided /\ word = now /\ swapfileBitmap' = swapfileBitmap \ {id}
    <3>1. ~collided /\ word = now
      BY <1>3, <1>5
    <3>2. id \in Word(id)
      BY <1>1 DEF Word
    <3> QED BY <1>1, <1>3, <3>1, <3>2
  <2>2. InSwapfile(p, c.page, id)
    BY <1>1 DEF InSwapfile
  <2>3. \A v \in Page, i \in 0 .. NumSlots :
          InSwapfile(p, v, i)' => InSwapfile(p, v, i) /\ v # c.page
    BY <1>1, <1>2 DEF InSwapfile
  <2>4. \A q, r \in Process, v, w \in Page, i \in 0 .. NumSlots :
          InSwapfile(q, v, i) =>
            i \in swapfileBitmap /\ (InSwapfile(r, w, i) => q = r /\ v = w)
    BY <2>1 DEF SlotInv, SlotsApart
  <2>5. \A q \in Process, v \in Page, i \in 0 .. NumSlots :
          InSwapfile(q, v, i)' => InSwapfile(q, v, i) /\ (q = p => v # c.page)
    BY <2>3 DEF OtherSlots
  <2>6. \A q \in Process, v \in Page, i \in 0 .. NumSlots : InSwapfile(q, v, i)' => i # id
    BY <1>1, <2>2, <2>4, <2>5
  <2> QED BY <2>1, <2>4, <2>5, <2>6 DEF SlotsApart
<1>6. SlotsApart'
  BY <1>5 DEF SlotsApart
<1> QED BY <1>4, <1>6 DEF SlotInv, OtherSlots

LEMMA StepKeeps ==
  ASSUME PagingInv, NEW p \in Process, User(p) \/ Kernel(p)
  PROVE  Kept(p)
<1>1. TypeOK /\ Local(p)
  BY DEF PagingInv
<1>2. Scan(p) => Kept(p)
  BY <1>1, ScanKeeps
<1> QED
  BY <1>1, <1>2, AccessKeeps, FaultKeeps, SbrkKeeps, ExitKeeps, SearchKeeps, AdvanceKeeps,
     TakeKeeps, ReturnKeeps, ReclaimKeeps, FindSlotKeeps, MarkSlotKeeps, SwapOutKeeps, UnmapKeeps,
     FreeKeeps, LoadEntryKeeps, LoadReadKeeps, FreeSlotKeeps, MapKeeps, MapTableKeeps
     DEF User, Kernel

(* The steps of a process that are not about a slot. *)
LEMMA ElsewhereApart ==
  ASSUME PagingInv, SlotInv, NEW p \in Process, OtherSlots(p),
         \/ Search(p) \/ Advance(p) \/ Take(p) \/ Return(p) \/ Reclaim(p) \/ Free(p)
         \/ \E v \in Page : Fault(p, v)
         \/ \E count \in Counts : Sbrk(p, count)
  PROVE  SlotInv'
<1> DEFINE Out == {"write", "unmap", "read", "slotfree", "mark"}
<1>0. /\ call \in [Process -> CallType] /\ call[p] \in CallType
      /\ call[p].goal \in {"none", "page", "table", "load"}
  BY TypeFacts DEF PagingInv, CallType
<1>1. /\ call'[p].pc \notin Out /\ entry'[p] = entry[p] /\ (collided => collided')
      /\ swapfileBitmap' = swapfileBitmap
  <2>1. CASE Search(p)
    BY <1>0, <2>1 DEF Search, vasVars, swapVars
  <2>2. CASE Advance(p)
    BY <1>0, <2>2 DEF Advance, vasVars, swapVars
  <2>3. CASE Take(p)
    <3>1. call'[p].pc = "return"
      BY <1>0, <2>3 DEF Take, CallType
    <3> QED BY <2>3, <3>1 DEF Take, setPageState, vasVars, swapVars
  <2>4. CASE Return(p)
    <3>1. call'[p].pc = call[p].goal
      BY <1>0, <2>4 DEF Return, CallType
    <3> QED BY <1>0, <2>4, <3>1 DEF Return, vasVars, swapVars
  <2>5. CASE Reclaim(p)
    <3>1. call'[p].pc = call[p].goal
      BY <1>0, <2>5 DEF Reclaim, CallType
    <3> QED BY <1>0, <2>5, <3>1 DEF Reclaim, setPageState, vasVars, swapVars
  <2>6. CASE Free(p)
    <3>1. call'[p].pc = "reclaim"
      BY <1>0, <2>6 DEF Free, CallType
    <3> QED BY <2>6, <3>1 DEF Free, setPageState, swapVars
  <2>7. ASSUME NEW g, NEW w, NEW f
        PROVE  Allocating(g, w, f).pc = "search"
    BY DEF Allocating, InUser
  <2>8. CASE \E v \in Page : Fault(p, v)
    BY <1>0, <2>7, <2>8 DEF Fault, vasVars, swapVars
  <2>9. CASE \E count \in Counts : Sbrk(p, count)
    BY <1>0, <2>7, <2>9 DEF Sbrk, swapVars
  <2> QED BY <2>1, <2>2, <2>3, <2>4, <2>5, <2>6, <2>8, <2>9
<1>2. SlotKnows(call[p], entry[p])'
  BY <1>1 DEF SlotKnows
<1> QED BY <1>1, <1>2, SlotsElsewhere

(* The slot it found is not in the word it has read. *)
LEMMA FindSlotApart ==
  ASSUME PagingInv, SlotInv, NEW p \in Process, OtherSlots(p), FindSlot(p)
  PROVE  SlotInv'
<1>0. call \in [Process -> CallType] /\ call[p] \in CallType
  BY TypeFacts DEF PagingInv
<1>1. call[p].pc = "slot"
  BY DEF FindSlot, At
<1>2. /\ call'[p].pc \in {"slot", "mark"}
      /\ call'[p].pc = "mark" =>
           call'[p].id \notin swapfileBitmap /\ call'[p].copy \subseteq swapfileBitmap
  <2> DEFINE id == call[p].id
  <2>1. CASE call' = call
    BY <1>1, <2>1
  <2>2. CASE call' = [call EXCEPT ![p].id = id + 1]
    BY <1>0, <1>1, <2>2 DEF CallType
  <2>3. CASE /\ id \in Slot \ swapfileBitmap
             /\ call' = [call EXCEPT ![p].pc = "mark", ![p].copy = swapfileBitmap \cap Word(id)]
    <3>1. /\ call'[p].pc = "mark" /\ call'[p].id = id
          /\ call'[p].copy = swapfileBitmap \cap Word(id)
      BY <1>0, <2>3 DEF CallType
    <3> QED BY <2>3, <3>1
  <2> QED BY <2>1, <2>2, <2>3 DEF FindSlot
<1>3. entry' = entry /\ collided' = collided /\ swapfileBitmap' = swapfileBitmap
  BY DEF FindSlot, vasVars, swapVars
<1>4. SlotKnows(call[p], entry[p])'
  BY <1>2, <1>3 DEF SlotKnows
<1> QED BY <1>2, <1>3, <1>4, SlotsElsewhere

(* The steps that change a page, but none that is in the swap file. *)
LEMMA AbsentApart ==
  ASSUME PagingInv, SlotInv, NEW p \in Process, OtherSlots(p),
         \/ \E v \in Page : Access(p, v)
         \/ Exit(p) \/ Scan(p) \/ Map(p) \/ MapTable(p)
  PROVE  SlotInv'
<1> DEFINE Out == {"write", "unmap", "read", "slotfree", "mark"}
           Absent == \A v \in Page : entry'[p][v].allocated /\ ~entry'[p][v].present =>
                       entry[p][v].allocated /\ ~entry[p][v].present
                         /\ entry'[p][v].address = entry[p][v].address
<1>0. /\ call \in [Process -> CallType] /\ call[p] \in CallType
      /\ entry \in [Process -> [Page -> EntryType]] /\ entry[p] \in [Page -> EntryType]
  BY TypeFacts DEF PagingInv
<1>1. collided' = collided /\ swapfileBitmap' = swapfileBitmap
  BY DEF Access, Exit, Scan, Map, MapTable, swapVars
<1>2. ASSUME NEW f, Enter(p, f)
      PROVE  call'[p].pc \notin Out /\ Absent
  <2>1. call'[p].pc \notin Out
    BY <1>0, <1>2 DEF Enter, Allocating, InUser
  <2>2. InFrame(f, FALSE).present
    BY DEF InFrame
  <2>3. Absent
    BY <1>0, <1>2, <2>2 DEF Enter
  <2> QED BY <2>1, <2>3
<1>3. call'[p].pc \notin Out /\ Absent
  <2>1. ASSUME NEW v \in Page, Access(p, v)
        PROVE  call'[p].pc \notin Out /\ Absent
    BY <1>0, <2>1 DEF Access, At, EntryType
  <2>2. CASE Exit(p)
    BY <1>0, <2>2, RecordFacts DEF Exit, At
  <2>3. CASE Scan(p)
    <3>1. PICK passed \in SUBSET Page :
            entry' = [entry EXCEPT ![p] = [v \in Page |->
              IF v \in passed THEN [entry[p][v] EXCEPT !.accessed = FALSE] ELSE entry[p][v]]]
      BY <2>3 DEF Scan
    <3>2. Absent
      BY <1>0, <3>1 DEF EntryType
    <3>3. call[p].pc = "scan"
      BY <2>3 DEF Scan, At
    <3>4. call'[p].pc \in {"scan", "slot"}
      <4>1. \/ call' = [call EXCEPT ![p].pc = "slot", ![p].runs = 0]
            \/ call' = call
            \/ call' = [call EXCEPT ![p].runs = NextRun(@)]
        BY <2>3 DEF Scan
      <4> QED BY <1>0, <3>3, <4>1 DEF CallType
    <3> QED BY <3>2, <3>4
  <2>4. CASE Map(p)
    <3>1. CASE HasTable(p, call[p].page)
      BY <1>2, <2>4, <3>1 DEF Map, MapPage
    <3>2. CASE ~HasTable(p, call[p].page)
      BY <1>0, <2>4, <3>2 DEF Map, Allocating, InUser
    <3> QED BY <3>1, <3>2
  <2>5. CASE MapTable(p)
    BY <1>2, <2>5 DEF MapTable, MapPage
  <2> QED BY <2>1, <2>2, <2>3, <2>4, <2>5
<1>4. SlotKnows(call[p], entry[p])'
  BY <1>3 DEF SlotKnows
<1> QED BY <1>1, <1>3, <1>4, SlotsOfAbsent

(* A page keeps its slot from the end of its write on, and while it is read. *)
LEMMA MovesApart ==
  ASSUME PagingInv, SlotInv, NEW p \in Process, OtherSlots(p),
         SwapOut(p) \/ Unmap(p) \/ LoadEntry(p) \/ LoadRead(p)
  PROVE  SlotInv'
<1> DEFINE Stay == \A v \in Page, id \in 0 .. NumSlots :
                     InSwapfile(p, v, id)' => InSwapfile(p, v, id)
<1>0. /\ call \in [Process -> CallType] /\ call[p] \in CallType
      /\ entry \in [Process -> [Page -> EntryType]] /\ entry[p] \in [Page -> EntryType]
      /\ Known(call[p], entry[p], sbrk[p], evictionScanner[p], tables[p])
      /\ SlotKnows(call[p], entry[p])
  BY TypeFacts DEF PagingInv, Local, SlotInv
<1>1. collided' = collided /\ swapfileBitmap' = swapfileBitmap /\ evictionScanner' = evictionScanner
  BY DEF SwapOut, Unmap, LoadEntry, LoadRead, swapVars, vasVars
<1>2. SlotKnows(call[p], entry[p])' /\ Stay
  <2>1. CASE SwapOut(p)
    <3>1. /\ call[p].pc = "write" /\ call'[p] = [call[p] EXCEPT !.pc = "unmap"]
          /\ entry' = entry
      BY <1>0, <2>1 DEF SwapOut, At, vasVars
    <3> QED BY <1>0, <1>1, <3>1 DEF CallType, InSwapfile, SlotKnows
  <2>2. CASE Unmap(p)
    <3>1. /\ call[p].pc = "unmap" /\ call'[p].pc = "free"
          /\ call[p].id \in Slot /\ evictionScanner[p] \in Page
          /\ entry' = [entry EXCEPT ![p][evictionScanner[p]] = InSlot(call[p].id)]
      <4>1. call[p].pc = "unmap"
        BY <2>2 DEF Unmap, At
      <4>2. call[p].id \in Slot /\ evictionScanner[p] \in Page
        BY <1>0, <4>1 DEF Known, CallKnows
      <4>3. call'[p].pc = "free"
        BY <1>0, <2>2 DEF Unmap, CallType
      <4> QED BY <2>2, <4>1, <4>2, <4>3 DEF Unmap
    <3>2. \A v \in Page : entry'[p][v] =
            IF v = evictionScanner[p] THEN InSlot(call[p].id) ELSE entry[p][v]
      BY <1>0, <3>1
    <3> QED BY <1>1, <3>1, <3>2, RecordFacts DEF InSwapfile, SlotKnows
  <2>3. CASE LoadEntry(p)
    <3>1. /\ call[p].pc = "load" /\ call[p].page \in Page
          /\ entry[p][call[p].page].allocated /\ ~entry[p][call[p].page].present
          /\ call[p].frame \in Frame
      BY <1>0, <2>3 DEF LoadEntry, At, Known, CallKnows, CallType
    <3>2. /\ call'[p].pc = "read" /\ call'[p].page = call[p].page
          /\ call'[p].id = entry[p][call[p].page].address
      BY <1>0, <2>3 DEF LoadEntry, CallType
    <3>3. \A v \in Page : entry'[p][v] =
            IF v = call[p].page THEN InFrame(call[p].frame, TRUE) ELSE entry[p][v]
      BY <1>0, <2>3 DEF LoadEntry
    <3>4. InFrame(call[p].frame, TRUE).present
      BY DEF InFrame
    <3> QED BY <1>1, <3>1, <3>2, <3>3, <3>4 DEF InSwapfile, SlotKnows
  <2>4. CASE LoadRead(p)
    <3>1. /\ call[p].pc = "read" /\ call'[p].pc = "slotfree" /\ call'[p].page = call[p].page
          /\ call'[p].id = call[p].id /\ entry' = entry
      BY <1>0, <2>4 DEF LoadRead, At, vasVars, CallType
    <3> QED BY <1>0, <1>1, <3>1 DEF InSwapfile, SlotKnows
  <2> QED BY <2>1, <2>2, <2>3, <2>4
<1> QED BY <1>1, <1>2, SlotsStay

LEMMA NextSlotInv == PagingInv /\ SlotInv /\ [Next]_vars => SlotInv'
<1> SUFFICES ASSUME PagingInv, SlotInv, [Next]_vars PROVE SlotInv'
  OBVIOUS
<1>1. CASE UNCHANGED vars
  BY <1>1 DEF vars, physVars, swapVars, vasVars, SlotInv, SlotKnows, SlotsApart, InSwapfile
<1>2. ASSUME NEW p \in Process, User(p) \/ Kernel(p)
      PROVE  SlotInv'
  <2>1. OtherSlots(p)
    BY <1>2, StepKeeps, OtherSlotsStay DEF Kept
  <2> QED BY <1>2, <2>1, ElsewhereApart, FindSlotApart, AbsentApart, MovesApart, MarkSlotApart,
             FreeSlotApart DEF User, Kernel
<1> QED BY <1>1, <1>2 DEF Next

LEMMA InitSlotInv == Init => SlotInv
<1> SUFFICES ASSUME Init PROVE SlotInv
  OBVIOUS
<1>1. /\ \A p \in Process : call[p] = InUser
      /\ \A p \in Process, v \in Page : ~entry[p][v].allocated
  BY RecordFacts DEF Init
<1> QED BY <1>1, CallFacts DEF SlotInv, SlotKnows, SlotsApart, InSwapfile

(* No two pages share a slot of the swap file, and no slot is given out      *)
(* while a page is in it, being written to it or being read from it, until  *)
(* a word or a bit that has changed since it was read is written back.      *)
THEOREM SlotsAreApart == Spec => []SlotsApart
<1>1. SlotInv => SlotsApart
  BY DEF SlotInv
<1> QED BY <1>1, InitSlotInv, NextSlotInv, PagingInvariance, PTL DEF Spec
=============================================================================
