-------------------------------- MODULE VCache --------------------------------
(***************************************************************************)
(* The sector cache of a physical disk (src/kernel/hal/vcache.cpp): one     *)
(* aligned block of sectors is kept for reading, and a run of adjacent      *)
(* single-sector writes is collected before it goes to the disk.            *)
(*                                                                         *)
(* read() and write() run with preemption off, and SATA::access            *)
(* (src/kernel/hw/diskphys/sata.cpp:74-192) polls with interrupts off; so a *)
(* call is one step.  Module VCacheThreads has the disks whose driver       *)
(* sleeps.  The disk may fail: any of the sectors it is given may be lost,  *)
(* whatever it answers, and a read may end with an error.                   *)
(***************************************************************************)
EXTENDS Integers

CONSTANTS
  LastSector,       \* the highest sector number
  Data,             \* what a sector may hold
  READ_BUFFER_BLOCK_SIZE,
  WRITE_BUFFER_MAX_SECTORS,
  removable,        \* disk->removable
  ReadCounts,       \* numbers of sectors callers read
  WriteCounts       \* numbers of sectors callers write

ASSUME CacheAssumption ==
  /\ LastSector \in Nat
  /\ READ_BUFFER_BLOCK_SIZE \in Nat \ {0}
  /\ (LastSector + 1) % READ_BUFFER_BLOCK_SIZE = 0
  /\ WRITE_BUFFER_MAX_SECTORS \in Nat \ {0, 1}
  /\ removable \in BOOLEAN
  /\ ReadCounts \subseteq Nat \ {0}
  /\ WriteCounts \subseteq Nat \ {0}

VARIABLES
  disk,             \* [Sector -> Data]: what is on the disk itself
  readCacheValid, readCacheLBA, readCacheBuffer,
  loadFailed,       \* history: the disk failed when it was last asked for a block
  writeCacheValid, writeCacheLBA, writeCacheSectors, writeCacheBuffer,
  lastCall          \* the last call, what it was given or returned, what it lost

readVars == <<readCacheValid, readCacheLBA, readCacheBuffer, loadFailed>>
writeVars == <<writeCacheValid, writeCacheLBA, writeCacheSectors, writeCacheBuffer>>
vars == <<disk, readVars, writeVars, lastCall>>

Sector == 0 .. LastSector
Extent(lba, count) == lba .. lba + count - 1

(* What is on the disk after a write; it ignores what becomes of each sector. *)
Written(sectors, lba, count, buffer, missed) ==
  [s \in Sector |-> IF s \in Extent(lba, count) \ missed THEN buffer[s - lba] ELSE sectors[s]]

(* A call, with the result it returned and the sectors whose latest contents *)
(* were lost in it.                                                         *)
Call(op, lba, count, buffer, err, lost) ==
  [op |-> op, lba |-> lba, count |-> count, buffer |-> buffer, err |-> err, lost |-> lost]
NoCall == Call("none", 0, 0, << >>, FALSE, {})

(* lba & ~(READ_BUFFER_BLOCK_SIZE - 1) and lba & (READ_BUFFER_BLOCK_SIZE - 1). *)
BlockOffset(lba) == lba % READ_BUFFER_BLOCK_SIZE
BlockOf(lba) == lba - BlockOffset(lba)
Block(lba) == Extent(BlockOf(lba), READ_BUFFER_BLOCK_SIZE)

Init ==
  /\ disk \in [Sector -> Data]
  /\ readCacheValid = FALSE
  /\ readCacheLBA = 0
  /\ \E d \in Data : readCacheBuffer = [i \in 0 .. READ_BUFFER_BLOCK_SIZE - 1 |-> d]
  /\ loadFailed = FALSE
  /\ writeCacheValid = FALSE
  /\ writeCacheLBA = 0
  /\ writeCacheSectors = 0
  /\ \E d \in Data : writeCacheBuffer = [i \in 0 .. WRITE_BUFFER_MAX_SECTORS - 1 |-> d]
  /\ lastCall = NoCall

(* The sectors whose latest contents are in the cache only. *)
Waiting == IF writeCacheValid THEN Extent(writeCacheLBA, writeCacheSectors) ELSE {}

(* What is on the disk after writeWriteBuffer(), which ignores the result of *)
(* disk->write, if it misses some of the sectors.                           *)
Flushed(missed) ==
  IF writeCacheValid
    THEN Written(disk, writeCacheLBA, writeCacheSectors, writeCacheBuffer, missed)
    ELSE disk

(* Mutant: the cache is emptied but stays valid. *)
EmptyButValid ==
  /\ writeCacheLBA' = 0
  /\ writeCacheSectors' = 0
  /\ UNCHANGED writeCacheValid

(* The write cache after writeWriteBuffer(). *)
EmptyWriteCache ==
  /\ writeCacheValid' = FALSE
  /\ writeCacheLBA' = 0
  /\ writeCacheSectors' = 0

(* Mutant: the read cache outlives a write. *)
keepReadBuffer == UNCHANGED readVars

invalidateReadBuffer ==
  readCacheValid' = FALSE /\ UNCHANGED <<readCacheLBA, readCacheBuffer, loadFailed>>

(***************************************************************************)
(* write(lba, count, ptr).                                                 *)
(***************************************************************************)
(* Mutant: a cache that holds nothing, at sector 0, is followed too. *)
FollowsRun(lba, count) == lba = writeCacheLBA + writeCacheSectors /\ count = 1

Follows(lba, count) ==
  writeCacheValid /\ lba = writeCacheLBA + writeCacheSectors /\ count = 1

(* Mutant: off by one. *)
FillsCache(count) == count <= WRITE_BUFFER_MAX_SECTORS

FitsInCache(count) == count < WRITE_BUFFER_MAX_SECTORS

(* The sector is added to the cache, which goes to the disk when it is full. *)
WriteAppend(lba, count, ptr) ==
  LET buffer == [writeCacheBuffer EXCEPT ![writeCacheSectors] = ptr[0]] IN
  /\ Follows(lba, count)
  /\ writeCacheBuffer' = buffer
  /\ \/ /\ writeCacheSectors + 1 = WRITE_BUFFER_MAX_SECTORS
        /\ \E missed \in SUBSET (Waiting \cup {lba}) :
             /\ disk' = Written(disk, writeCacheLBA, WRITE_BUFFER_MAX_SECTORS, buffer, missed)
             /\ lastCall' = Call("write", lba, count, ptr, FALSE, missed)
        /\ EmptyWriteCache
     \/ /\ writeCacheSectors + 1 # WRITE_BUFFER_MAX_SECTORS
        /\ writeCacheSectors' = writeCacheSectors + 1
        /\ lastCall' = Call("write", lba, count, ptr, FALSE, {})
        /\ UNCHANGED <<disk, writeCacheValid, writeCacheLBA>>

(* The old contents of the cache go to the disk and a new run begins; only  *)
(* the first of the sectors is copied.                                      *)
WriteStart(lba, count, ptr) ==
  /\ ~Follows(lba, count)
  /\ FitsInCache(count)
  /\ \E missed \in SUBSET Waiting :
       /\ disk' = Flushed(missed)
       /\ lastCall' = Call("write", lba, count, ptr, FALSE, missed \ Extent(lba, count))
  /\ writeCacheValid' = TRUE
  /\ writeCacheLBA' = lba
  /\ writeCacheSectors' = count
  /\ writeCacheBuffer' = [writeCacheBuffer EXCEPT ![0] = ptr[0]]

(* What does not fit in the cache goes past it, and the caller is told what  *)
(* the disk has answered.                                                   *)
WriteThrough(lba, count, ptr) ==
  /\ ~Follows(lba, count)
  /\ ~FitsInCache(count)
  /\ \E missed \in SUBSET Waiting, skipped \in SUBSET Extent(lba, count), err \in BOOLEAN :
       /\ disk' = Written(Flushed(missed), lba, count, ptr, skipped)
       /\ lastCall' = Call("write", lba, count, ptr, err,
                            (missed \ Extent(lba, count)) \cup skipped)
  /\ UNCHANGED writeCacheBuffer
  /\ IF writeCacheValid THEN EmptyWriteCache
                        ELSE UNCHANGED <<writeCacheValid, writeCacheLBA, writeCacheSectors>>

Write ==
  /\ \E lba \in Sector, count \in WriteCounts :
       /\ lba + count - 1 \in Sector
       /\ \E ptr \in [0 .. count - 1 -> Data] :
            \/ WriteAppend(lba, count, ptr)
            \/ WriteStart(lba, count, ptr)
            \/ WriteThrough(lba, count, ptr)
  /\ IF readCacheValid THEN invalidateReadBuffer ELSE UNCHANGED readVars

(***************************************************************************)
(* read(lba, count, ptr).                                                  *)
(***************************************************************************)
Flush(missed) ==
  /\ disk' = Flushed(missed)
  /\ UNCHANGED writeCacheBuffer
  /\ IF writeCacheValid THEN EmptyWriteCache
                        ELSE UNCHANGED <<writeCacheValid, writeCacheLBA, writeCacheSectors>>

Holds(lba) == readCacheValid /\ readCacheLBA = BlockOf(lba)

(* The block a sector is in is read into the buffer.  If that fails, part of *)
(* the buffer may be new; the block is valid all the same.                  *)
LoadBlock(lba, loaded) ==
  /\ readCacheValid' = TRUE
  /\ readCacheLBA' = BlockOf(lba)
  /\ readCacheBuffer' = [i \in 0 .. READ_BUFFER_BLOCK_SIZE - 1 |->
                           IF i < loaded THEN disk'[BlockOf(lba) + i] ELSE readCacheBuffer[i]]

(* A single sector of a fixed disk is read through the read cache. *)
ReadBuffered(lba, lost) ==
  /\ ~removable
  /\ \/ /\ \/ Holds(lba) /\ UNCHANGED readVars
           \/ ~Holds(lba) /\ LoadBlock(lba, READ_BUFFER_BLOCK_SIZE) /\ loadFailed' = FALSE
        /\ lastCall' = Call("read", lba, 1, [i \in {0} |-> readCacheBuffer'[BlockOffset(lba)]],
                            FALSE, lost)
     \/ /\ ~Holds(lba)
        /\ \E loaded \in 0 .. READ_BUFFER_BLOCK_SIZE : LoadBlock(lba, loaded)
        /\ loadFailed' = TRUE
        /\ lastCall' = Call("read", lba, 1, << >>, TRUE, lost)

ReadDirect(lba, count, lost) ==
  /\ count # 1 \/ removable
  /\ invalidateReadBuffer
  /\ \/ lastCall' = Call("read", lba, count, [i \in 0 .. count - 1 |-> disk'[lba + i]], FALSE, lost)
     \/ lastCall' = Call("read", lba, count, << >>, TRUE, lost)

Read ==
  \E lba \in Sector, count \in ReadCounts, missed \in SUBSET Waiting :
    /\ lba + count - 1 \in Sector
    /\ Flush(missed)
    /\ \/ count = 1 /\ ReadBuffered(lba, missed)
       \/ ReadDirect(lba, count, missed)

(* What SATAPI::detectMedia does with the cache. *)
Purge ==
  /\ \E missed \in SUBSET Waiting :
       /\ Flush(missed)
       /\ lastCall' = Call("purge", 0, 0, << >>, FALSE, missed)
  /\ invalidateReadBuffer

Next == Write \/ Read \/ Purge

Spec == Init /\ [][Next]_vars

-----------------------------------------------------------------------------
(* The caches never hold more than their buffers have room for. *)
TypeOK ==
  /\ disk \in [Sector -> Data]
  /\ readCacheValid \in BOOLEAN
  /\ readCacheLBA \in Sector
  /\ readCacheBuffer \in [0 .. READ_BUFFER_BLOCK_SIZE - 1 -> Data]
  /\ loadFailed \in BOOLEAN
  /\ writeCacheValid \in BOOLEAN
  /\ writeCacheLBA \in Sector
  /\ writeCacheSectors \in 0 .. WRITE_BUFFER_MAX_SECTORS - 1
  /\ writeCacheBuffer \in [0 .. WRITE_BUFFER_MAX_SECTORS - 1 -> Data]

(* The read cache is never stale: while it is valid, the write cache holds   *)
(* nothing newer and the block is the one on the disk (vcache.cpp:78, 138),  *)
(* unless it was never read because the disk failed (vcache.cpp:145-158).   *)
ReadCacheFresh ==
  readCacheValid =>
    /\ ~writeCacheValid
    /\ readCacheLBA = BlockOf(readCacheLBA)
    /\ ~loadFailed => \A i \in 0 .. READ_BUFFER_BLOCK_SIZE - 1 :
                        readCacheBuffer[i] = disk[readCacheLBA + i]

(* What is waiting to be written is a run of sectors that are on the disk   *)
(* and still leaves room for one more (vcache.cpp:88, 99).                  *)
WriteCacheFits ==
  writeCacheValid =>
    /\ writeCacheSectors \in 1 .. WRITE_BUFFER_MAX_SECTORS - 1
    /\ writeCacheLBA + writeCacheSectors - 1 \in Sector

(* Sectors whose block was not read because the disk failed. *)
Unread == IF readCacheValid /\ loadFailed THEN Block(readCacheLBA) ELSE {}

(* The cache is invisible but for what the disk fails to do: it implements a *)
(* disk whose reads return what was written last, the sectors that still     *)
(* wait included.  Of a write of several sectors that fits in the buffer     *)
(* only the first one is promised, as vcache.cpp:103 copies no more.         *)
Cached == INSTANCE Disk
  WITH contents <- Flushed({}), waiting <- Waiting, unread <- Unread,
       PartialCounts <- {count \in WriteCounts : count > 1 /\ FitsInCache(count)}
ReadsReturnLastWrite == Cached!DiskSpec

(* The same, and every write is whole, as the comment at vcache.cpp:98 has   *)
(* it: "if it will fit in the cache, start a new cache".                    *)
Whole == INSTANCE Disk
  WITH contents <- Flushed({}), waiting <- Waiting, unread <- Unread, PartialCounts <- {}
WritesAreWhole == Whole!DiskSpec

=============================================================================
