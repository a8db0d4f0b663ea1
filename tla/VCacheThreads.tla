----------------------------- MODULE VCacheThreads -----------------------------
(***************************************************************************)
(* The sector cache of an ATA disk.  Before it transfers, the driver waits   *)
(* for the disk to be ready, and sleeps if that takes long                  *)
(* (ATA::readyForCommand, src/kernel/hw/diskphys/ata.cpp:35-50); the         *)
(* transfer itself polls.  Preemption is off in read() and write(), but a    *)
(* thread that sleeps is switched away from all the same, and the mutex of   *)
(* the cache is commented out.  So a call is cut where it waits for the      *)
(* disk, and calls of several threads overlap there.  As in VCache the disk  *)
(* may fail.                                                                *)
(***************************************************************************)
EXTENDS VCache

CONSTANT Thread

VARIABLES
  place,    \* [Thread -> what the thread waits for the disk to do, or "idle"]:
            \*   "flush" the write buffer, write "through", "load" a block, read "direct"
  access,   \* [Thread -> the sectors the disk was asked for]
  call      \* [Thread -> the call the thread is in]

threadVars == <<place, access, call>>

ThreadsInit ==
  /\ Init
  /\ place = [t \in Thread |-> "idle"]
  /\ access = [t \in Thread |-> [lba |-> 0, count |-> 0]]
  /\ call = [t \in Thread |-> NoCall]

(* Thread t asks the disk for something and sleeps, or is through. *)
AskDisk(t, what, lba, count) ==
  /\ place' = [place EXCEPT ![t] = what]
  /\ access' = [access EXCEPT ![t] = [lba |-> lba, count |-> count]]

Return(t) == place' = [place EXCEPT ![t] = "idle"] /\ UNCHANGED access

-----------------------------------------------------------------------------
(* The part of write() after writeWriteBuffer(). *)
RestOfWrite(t, c) ==
  /\ \/ /\ FitsInCache(c.count)
        /\ writeCacheValid' = TRUE
        /\ writeCacheLBA' = c.lba
        /\ writeCacheSectors' = c.count
        /\ writeCacheBuffer' = [writeCacheBuffer EXCEPT ![0] = c.buffer[0]]
        /\ Return(t)
     \/ /\ ~FitsInCache(c.count)
        /\ EmptyWriteCache
        /\ UNCHANGED writeCacheBuffer
        /\ AskDisk(t, "through", c.lba, c.count)

(* The part of read() after writeWriteBuffer(): the block is said to be      *)
(* valid before the disk is asked for it.                                   *)
RestOfRead(t, c) ==
  /\ \/ /\ c.count = 1 /\ ~removable
        /\ readCacheValid /\ readCacheLBA = BlockOf(c.lba)
        /\ Return(t)
        /\ UNCHANGED readVars
     \/ /\ c.count = 1 /\ ~removable
        /\ ~(readCacheValid /\ readCacheLBA = BlockOf(c.lba))
        /\ readCacheValid' = TRUE
        /\ readCacheLBA' = BlockOf(c.lba)
        /\ AskDisk(t, "load", BlockOf(c.lba), READ_BUFFER_BLOCK_SIZE)
        /\ UNCHANGED <<readCacheBuffer, loadFailed>>
     \/ /\ c.count # 1 \/ removable
        /\ invalidateReadBuffer
        /\ AskDisk(t, "direct", c.lba, c.count)
  /\ EmptyWriteCache
  /\ UNCHANGED writeCacheBuffer

Rest(t, c) == IF c.op = "write" THEN RestOfWrite(t, c) /\ UNCHANGED readVars ELSE RestOfRead(t, c)

(* A sector is added to the cache; past its end it overwrites what is behind *)
(* the buffer.  The cache goes to the disk when it has just become full.     *)
AppendSector(t, c) ==
  /\ writeCacheBuffer' = IF writeCacheSectors < WRITE_BUFFER_MAX_SECTORS
                           THEN [writeCacheBuffer EXCEPT ![writeCacheSectors] = c.buffer[0]]
                           ELSE writeCacheBuffer
  /\ writeCacheSectors' = writeCacheSectors + 1
  /\ IF writeCacheSectors' = WRITE_BUFFER_MAX_SECTORS
       THEN AskDisk(t, "flush", writeCacheLBA, WRITE_BUFFER_MAX_SECTORS)
       ELSE Return(t)
  /\ UNCHANGED <<writeCacheValid, writeCacheLBA>>

(* write() up to its first wait.  A call that only appends has nothing left  *)
(* to do after the flush, which is noted as NoCall.                         *)
WriteCall(t) ==
  /\ place[t] = "idle"
  /\ \E lba \in Sector, count \in WriteCounts :
       /\ lba + count - 1 \in Sector
       /\ \E ptr \in [0 .. count - 1 -> Data] :
            LET c == Call("write", lba, count, ptr, FALSE, {}) IN
            \/ /\ Follows(lba, count)
               /\ AppendSector(t, c)
               /\ call' = [call EXCEPT ![t] = NoCall]
            \/ /\ ~Follows(lba, count) /\ writeCacheValid
               /\ AskDisk(t, "flush", writeCacheLBA, writeCacheSectors)
               /\ call' = [call EXCEPT ![t] = c]
               /\ UNCHANGED writeVars
            \/ /\ ~Follows(lba, count) /\ ~writeCacheValid
               /\ RestOfWrite(t, c)
               /\ call' = [call EXCEPT ![t] = c]
  /\ IF readCacheValid THEN invalidateReadBuffer ELSE UNCHANGED readVars
  /\ UNCHANGED disk

ReadCall(t) ==
  /\ place[t] = "idle"
  /\ \E lba \in Sector, count \in ReadCounts :
       LET c == Call("read", lba, count, << >>, FALSE, {}) IN
       /\ lba + count - 1 \in Sector
       /\ call' = [call EXCEPT ![t] = c]
       /\ \/ /\ writeCacheValid
             /\ AskDisk(t, "flush", writeCacheLBA, writeCacheSectors)
             /\ UNCHANGED <<readVars, writeVars>>
          \/ /\ ~writeCacheValid
             /\ RestOfRead(t, c)
  /\ UNCHANGED disk

(* The disk is ready: it gets what is in the buffer by now, as many sectors   *)
(* as were counted before the wait (what lies behind the buffer is not       *)
(* modelled), the cache is emptied and the call goes on.                    *)
BufferWritten(t) ==
  /\ place[t] = "flush"
  /\ access[t].count <= WRITE_BUFFER_MAX_SECTORS
  /\ \E missed \in SUBSET Extent(access[t].lba, access[t].count) :
       disk' = Written(disk, access[t].lba, access[t].count, writeCacheBuffer, missed)
  /\ \/ /\ call[t] = NoCall
        /\ EmptyWriteCache
        /\ Return(t)
        /\ UNCHANGED <<readVars, writeCacheBuffer>>
     \/ /\ call[t] # NoCall
        /\ Rest(t, call[t])
  /\ UNCHANGED call

WrittenThrough(t) ==
  /\ place[t] = "through"
  /\ \E missed \in SUBSET Extent(access[t].lba, access[t].count) :
       disk' = Written(disk, access[t].lba, access[t].count, call[t].buffer, missed)
  /\ Return(t)
  /\ UNCHANGED <<readVars, writeVars, call>>

Loaded(t) ==
  /\ place[t] = "load"
  /\ \E loaded \in 0 .. READ_BUFFER_BLOCK_SIZE :
       /\ readCacheBuffer' = [i \in 0 .. READ_BUFFER_BLOCK_SIZE - 1 |->
                                IF i < loaded THEN disk[access[t].lba + i] ELSE readCacheBuffer[i]]
       /\ \/ loaded = READ_BUFFER_BLOCK_SIZE /\ loadFailed' = FALSE
          \/ loadFailed' = TRUE
  /\ Return(t)
  /\ UNCHANGED <<disk, readCacheValid, readCacheLBA, writeVars, call>>

ReadDirectly(t) ==
  /\ place[t] = "direct"
  /\ Return(t)
  /\ UNCHANGED <<disk, readVars, writeVars, call>>

ThreadsNext ==
  \E t \in Thread :
    /\ \/ WriteCall(t) \/ ReadCall(t)
       \/ BufferWritten(t) \/ WrittenThrough(t)
       \/ Loaded(t) \/ ReadDirectly(t)
    /\ UNCHANGED lastCall

ThreadsSpec == ThreadsInit /\ [][ThreadsNext]_<<vars, threadVars>>

-----------------------------------------------------------------------------
(* "write if limit reached" (vcache.cpp:87): the write buffer goes to the    *)
(* disk before a sector too many is put into it.                            *)
NoOverrun == writeCacheSectors <= WRITE_BUFFER_MAX_SECTORS

=============================================================================
