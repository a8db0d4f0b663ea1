----------------------------- MODULE VCacheProofs -----------------------------
(***************************************************************************)
(* The read cache is never stale, and the cache implements the disk of      *)
(* module Disk, whatever the drive below it fails to do.                    *)
(***************************************************************************)
EXTENDS VCache, TLAPS

Buffer(count) == [0 .. count - 1 -> Data]

CacheInv ==
  /\ disk \in [Sector -> Data]
  /\ readCacheValid \in BOOLEAN
  /\ writeCacheValid \in BOOLEAN
  /\ writeCacheLBA \in Sector
  /\ writeCacheSectors \in Nat
  /\ writeCacheBuffer \in Buffer(WRITE_BUFFER_MAX_SECTORS)
  /\ ReadCacheFresh
  /\ WriteCacheFits

LEMMA BlockFacts ==
  ASSUME NEW lba \in Nat
  PROVE  /\ BlockOffset(lba) \in 0 .. READ_BUFFER_BLOCK_SIZE - 1
         /\ BlockOf(lba) \in Nat /\ BlockOf(lba) <= lba
         /\ BlockOf(lba) + BlockOffset(lba) = lba
         /\ BlockOf(BlockOf(lba)) = BlockOf(lba)
<1> DEFINE B == READ_BUFFER_BLOCK_SIZE
<1>1. B \in Nat \ {0}
  BY CacheAssumption
<1>2. lba % B \in 0 .. B - 1 /\ lba % B <= lba
  BY <1>1
<1>3. (lba - (lba % B)) % B = 0
  <2> DEFINE q == lba \div B
             m == lba - (lba % B)
             k == m \div B
             r == m % B
  <2>1. q \in Int /\ m \in Nat /\ m = B * q
    BY <1>1, <1>2
  <2>2. k \in Int /\ r \in 0 .. B - 1 /\ m = B * k + r
    BY <1>1, <2>1
  <2>3. B * (q - k) = r
    <3> HIDE DEF q, m, k, r
    <3> QED BY <1>1, <2>1, <2>2
  <2>4. CASE q - k >= 1
    <3>1. B * (q - k) >= B
      <4> HIDE DEF q, m, k, r
      <4> QED BY <1>1, <2>1, <2>2, <2>4
    <3> QED BY <1>1, <2>2, <2>3, <3>1
  <2>5. CASE q - k <= -1
    <3>1. B * (q - k) <= -B
      <4> HIDE DEF q, m, k, r
      <4> QED BY <1>1, <2>1, <2>2, <2>5
    <3> QED BY <1>1, <2>2, <2>3, <3>1
  <2>6. CASE q - k = 0
    BY <1>1, <2>3, <2>6
  <2> QED BY <2>1, <2>2, <2>4, <2>5, <2>6
<1> QED BY <1>1, <1>2, <1>3 DEF BlockOffset, BlockOf

LEMMA WrittenType ==
  ASSUME NEW d \in [Sector -> Data], NEW lba \in Sector, NEW count \in Nat,
         NEW size \in Nat, count <= size, NEW buffer \in Buffer(size), NEW missed
  PROVE  Written(d, lba, count, buffer, missed) \in [Sector -> Data]
BY CacheAssumption DEF Written, Extent, Sector, Buffer

LEMMA FlushedType ==
  ASSUME CacheInv, NEW missed
  PROVE  Flushed(missed) \in [Sector -> Data]
<1>1. CASE writeCacheValid
  <2>1. /\ disk \in [Sector -> Data] /\ writeCacheLBA \in Sector
        /\ writeCacheSectors \in Nat
        /\ writeCacheSectors <= WRITE_BUFFER_MAX_SECTORS
        /\ WRITE_BUFFER_MAX_SECTORS \in Nat
        /\ writeCacheBuffer \in Buffer(WRITE_BUFFER_MAX_SECTORS)
    BY <1>1, CacheAssumption DEF CacheInv, WriteCacheFits
  <2> QED BY <1>1, <2>1, WrittenType DEF Flushed
<1>2. CASE ~writeCacheValid
  BY <1>2 DEF CacheInv, Flushed
<1> QED BY <1>1, <1>2

LEMMA InitCache == Init => CacheInv
<1> SUFFICES ASSUME Init PROVE CacheInv
  OBVIOUS
<1>1. readCacheValid = FALSE /\ writeCacheValid = FALSE /\ disk \in [Sector -> Data]
  BY DEF Init
<1>2. writeCacheLBA \in Sector /\ writeCacheSectors \in Nat
  BY CacheAssumption DEF Init, Sector
<1>3. writeCacheBuffer \in Buffer(WRITE_BUFFER_MAX_SECTORS)
  BY DEF Init, Buffer
<1>4. ReadCacheFresh /\ WriteCacheFits
  BY <1>1 DEF ReadCacheFresh, WriteCacheFits
<1> QED BY <1>1, <1>2, <1>3, <1>4 DEF CacheInv

(* An empty write cache is a write cache that fits. *)
LEMMA EmptyFits ==
  ASSUME EmptyWriteCache
  PROVE  /\ writeCacheValid' = FALSE
         /\ writeCacheLBA' \in Sector /\ writeCacheSectors' \in Nat
         /\ WriteCacheFits'
<1>1. writeCacheValid' = FALSE
  BY DEF EmptyWriteCache
<1>2. writeCacheLBA' = 0 /\ writeCacheSectors' = 0
  BY DEF EmptyWriteCache
<1>3. writeCacheLBA' \in Sector /\ writeCacheSectors' \in Nat
  BY <1>2, CacheAssumption DEF Sector
<1> QED BY <1>1, <1>3 DEF WriteCacheFits

(* A write cache that was empty and is left alone fits too. *)
LEMMA EmptyStays ==
  ASSUME CacheInv, ~writeCacheValid,
         UNCHANGED <<writeCacheValid, writeCacheLBA, writeCacheSectors>>
  PROVE  /\ writeCacheValid' = FALSE
         /\ writeCacheLBA' \in Sector /\ writeCacheSectors' \in Nat
         /\ WriteCacheFits'
<1>1. writeCacheValid' = FALSE
  OBVIOUS
<1>2. writeCacheLBA' \in Sector /\ writeCacheSectors' \in Nat
  BY DEF CacheInv
<1> QED BY <1>1, <1>2 DEF WriteCacheFits

LEMMA WriteCache == CacheInv /\ Write => CacheInv'
<1> SUFFICES ASSUME CacheInv, Write PROVE CacheInv'
  OBVIOUS
<1>1. PICK lba \in Sector, count \in WriteCounts :
        /\ lba + count - 1 \in Sector
        /\ \E ptr \in Buffer(count) :
             \/ WriteAppend(lba, count, ptr)
             \/ WriteStart(lba, count, ptr)
             \/ WriteThrough(lba, count, ptr)
  BY DEF Write, Buffer
<1>2. PICK ptr \in Buffer(count) :
             \/ WriteAppend(lba, count, ptr)
             \/ WriteStart(lba, count, ptr)
             \/ WriteThrough(lba, count, ptr)
  BY <1>1
<1>3. /\ count \in Nat \ {0} /\ ptr[0] \in Data
      /\ WRITE_BUFFER_MAX_SECTORS \in Nat \ {0, 1}
      /\ LastSector \in Nat
  BY CacheAssumption DEF Buffer
<1>4. ~readCacheValid' /\ readCacheValid' \in BOOLEAN
  BY DEF Write, invalidateReadBuffer, readVars, CacheInv
<1>5. ReadCacheFresh'
  BY <1>4 DEF ReadCacheFresh
<1>6. CASE WriteAppend(lba, count, ptr)
  <2> DEFINE buffer == [writeCacheBuffer EXCEPT ![writeCacheSectors] = ptr[0]]
  <2>1. /\ writeCacheValid /\ lba = writeCacheLBA + writeCacheSectors
        /\ writeCacheSectors \in 1 .. WRITE_BUFFER_MAX_SECTORS - 1
        /\ count = 1
    BY <1>6 DEF WriteAppend, Follows, CacheInv, WriteCacheFits
  <2>2. buffer \in Buffer(WRITE_BUFFER_MAX_SECTORS)
    BY <1>3 DEF CacheInv, Buffer
  <2>3. CASE writeCacheSectors + 1 = WRITE_BUFFER_MAX_SECTORS
    <3>1. PICK missed : disk' = Written(disk, writeCacheLBA, WRITE_BUFFER_MAX_SECTORS, buffer, missed)
      BY <1>6, <2>3 DEF WriteAppend
    <3>3. EmptyWriteCache /\ writeCacheBuffer' = buffer
      BY <1>6, <2>3 DEF WriteAppend
    <3>2. disk' \in [Sector -> Data]
      <4>1. disk \in [Sector -> Data] /\ writeCacheLBA \in Sector
        BY DEF CacheInv
      <4> HIDE DEF buffer
      <4>2. Written(disk, writeCacheLBA, WRITE_BUFFER_MAX_SECTORS, buffer, missed)
              \in [Sector -> Data]
        BY <1>3, <2>2, <4>1, WrittenType
      <4> QED BY <3>1, <4>2
    <3> QED BY <1>4, <1>5, <2>2, <3>2, <3>3, EmptyFits DEF CacheInv
  <2>4. CASE writeCacheSectors + 1 # WRITE_BUFFER_MAX_SECTORS
    <3>1. /\ writeCacheSectors' = writeCacheSectors + 1 /\ writeCacheBuffer' = buffer
          /\ UNCHANGED <<disk, writeCacheValid, writeCacheLBA>>
      BY <1>6, <2>4 DEF WriteAppend
    <3>2. WriteCacheFits' /\ writeCacheSectors' \in Nat
      BY <1>1, <1>3, <2>1, <2>4, <3>1 DEF WriteCacheFits, Sector, CacheInv
    <3> QED BY <1>4, <1>5, <2>2, <3>1, <3>2 DEF CacheInv
  <2> QED BY <2>3, <2>4
<1>7. CASE WriteStart(lba, count, ptr)
  <2>1. /\ disk' \in [Sector -> Data] /\ writeCacheValid'
        /\ writeCacheValid' \in BOOLEAN
    BY <1>7, FlushedType DEF WriteStart
  <2>2. writeCacheBuffer' \in Buffer(WRITE_BUFFER_MAX_SECTORS)
    BY <1>3, <1>7 DEF WriteStart, CacheInv, Buffer
  <2>3. /\ writeCacheSectors' = count /\ writeCacheLBA' = lba
        /\ count < WRITE_BUFFER_MAX_SECTORS
    BY <1>7 DEF WriteStart, FitsInCache
  <2>4. WriteCacheFits'
    BY <1>1, <1>3, <2>3 DEF WriteCacheFits
  <2> QED BY <1>3, <1>4, <1>5, <2>1, <2>2, <2>3, <2>4 DEF CacheInv
<1>8. CASE WriteThrough(lba, count, ptr)
  <2>1. disk' \in [Sector -> Data]
    <3>1. PICK missed, skipped : disk' = Written(Flushed(missed), lba, count, ptr, skipped)
      BY <1>8 DEF WriteThrough
    <3>2. Flushed(missed) \in [Sector -> Data]
      BY FlushedType
    <3> QED BY <1>3, <3>1, <3>2, WrittenType
  <2>2. writeCacheBuffer' = writeCacheBuffer
    BY <1>8 DEF WriteThrough
  <2>3. \/ EmptyWriteCache
        \/ ~writeCacheValid /\ UNCHANGED <<writeCacheValid, writeCacheLBA, writeCacheSectors>>
    BY <1>8 DEF WriteThrough
  <2>4. /\ writeCacheValid' \in BOOLEAN /\ WriteCacheFits'
        /\ writeCacheLBA' \in Sector /\ writeCacheSectors' \in Nat
    BY <2>3, EmptyFits, EmptyStays
  <2> QED BY <1>4, <1>5, <2>1, <2>2, <2>4 DEF CacheInv
<1> QED BY <1>2, <1>6, <1>7, <1>8

LEMMA FlushFacts ==
  ASSUME CacheInv, NEW missed, Flush(missed)
  PROVE  /\ disk' = Flushed(missed) /\ disk' \in [Sector -> Data]
         /\ ~writeCacheValid' /\ writeCacheValid' \in BOOLEAN
         /\ writeCacheLBA' \in Sector /\ writeCacheSectors' \in Nat
         /\ writeCacheBuffer' = writeCacheBuffer
         /\ WriteCacheFits'
<1>1. disk' = Flushed(missed) /\ writeCacheBuffer' = writeCacheBuffer
  BY DEF Flush
<1>2. \/ EmptyWriteCache
      \/ ~writeCacheValid /\ UNCHANGED <<writeCacheValid, writeCacheLBA, writeCacheSectors>>
  BY DEF Flush
<1>3. /\ ~writeCacheValid' /\ writeCacheValid' \in BOOLEAN /\ WriteCacheFits'
      /\ writeCacheLBA' \in Sector /\ writeCacheSectors' \in Nat
  BY <1>2, EmptyFits, EmptyStays
<1> QED BY <1>1, <1>3, FlushedType

LEMMA ReadCache == CacheInv /\ (Read \/ Purge) => CacheInv'
<1> SUFFICES ASSUME CacheInv, Read \/ Purge PROVE CacheInv'
  OBVIOUS
<1>1. PICK missed :
        Flush(missed) /\ (invalidateReadBuffer \/ \E lba \in Sector : ReadBuffered(lba, missed))
  BY DEF Read, Purge, ReadDirect
<1>2. CASE \E lba \in Sector : ReadBuffered(lba, missed)
  <2>1. PICK lba \in Sector : ReadBuffered(lba, missed)
    BY <1>2
  <2>2. CASE readCacheValid /\ UNCHANGED readVars
    <3>1. ~writeCacheValid
      BY <2>2 DEF CacheInv, ReadCacheFresh
    <3>2. disk' = disk
      BY <1>1, <3>1 DEF Flush, Flushed
    <3>3. ReadCacheFresh' /\ readCacheValid' \in BOOLEAN
      BY <1>1, <2>2, <3>2, FlushFacts DEF CacheInv, ReadCacheFresh, readVars
    <3> QED BY <1>1, <3>3, FlushFacts DEF CacheInv
  <2>3. CASE \/ LoadBlock(lba, READ_BUFFER_BLOCK_SIZE) /\ loadFailed' = FALSE
             \/ loadFailed' = TRUE /\ \E loaded : LoadBlock(lba, loaded)
    <3>1. BlockOf(BlockOf(lba)) = BlockOf(lba)
      BY BlockFacts, CacheAssumption DEF Sector
    <3>2. ~writeCacheValid'
      BY <1>1, FlushFacts
    <3>3. readCacheValid' = TRUE /\ readCacheLBA' = BlockOf(lba)
      BY <2>3 DEF LoadBlock
    <3>4. ASSUME ~loadFailed'
          PROVE  \A i \in 0 .. READ_BUFFER_BLOCK_SIZE - 1 :
                   readCacheBuffer'[i] = disk'[readCacheLBA' + i]
      <4>1. LoadBlock(lba, READ_BUFFER_BLOCK_SIZE)
        BY <2>3, <3>4
      <4> QED BY <4>1, CacheAssumption DEF LoadBlock
    <3>5. ReadCacheFresh'
      BY <3>1, <3>2, <3>3, <3>4 DEF ReadCacheFresh, BlockOf, BlockOffset
    <3> QED BY <1>1, <3>3, <3>5, FlushFacts DEF CacheInv
  <2> QED BY <2>1, <2>2, <2>3 DEF ReadBuffered, Holds
<1>3. CASE invalidateReadBuffer
  <2>1. ReadCacheFresh' /\ readCacheValid' \in BOOLEAN
    BY <1>3 DEF invalidateReadBuffer, ReadCacheFresh
  <2> QED BY <1>1, <2>1, FlushFacts DEF CacheInv
<1> QED BY <1>1, <1>2, <1>3

(* The read cache is always fresh and the write cache always fits, for any  *)
(* size of disk, block and write buffer and any lengths of reads and writes *)
(* (vcache.cpp:54-178).                                                     *)
THEOREM CacheInvariance == Spec => []CacheInv
<1>1. CacheInv /\ [Next]_vars => CacheInv'
  <2> SUFFICES ASSUME CacheInv, [Next]_vars PROVE CacheInv'
    OBVIOUS
  <2>1. CASE UNCHANGED vars
    BY <2>1 DEF vars, readVars, writeVars, CacheInv, ReadCacheFresh, WriteCacheFits
  <2> QED BY <2>1, WriteCache, ReadCache DEF Next
<1> QED BY <1>1, InitCache, PTL DEF Spec

(* The block that is kept for reading is never stale. *)
THEOREM ReadCacheNeverStale == Spec => []ReadCacheFresh
<1>1. CacheInv => ReadCacheFresh
  BY DEF CacheInv
<1> QED BY <1>1, CacheInvariance, PTL

(* The run that waits to be written always fits in the write buffer, with   *)
(* room for one more sector: write() empties a buffer that is full.         *)
THEOREM WriteCacheAlwaysFits == Spec => []WriteCacheFits
<1>1. CacheInv => WriteCacheFits
  BY DEF CacheInv
<1> QED BY <1>1, CacheInvariance, PTL

(* A block lies on the disk as a whole. *)
LEMMA BlockOnDisk ==
  ASSUME NEW lba \in Sector
  PROVE  /\ BlockOf(lba) \in Sector
         /\ \A i \in 0 .. READ_BUFFER_BLOCK_SIZE - 1 : BlockOf(lba) + i \in Sector
<1> DEFINE B == READ_BUFFER_BLOCK_SIZE
           k == lba \div B
           n == (LastSector + 1) \div B
<1>1. B \in Nat \ {0} /\ LastSector \in Nat /\ lba \in Nat /\ lba <= LastSector
  BY CacheAssumption DEF Sector
<1>2. k \in Int /\ n \in Int /\ BlockOf(lba) = B * k
  BY <1>1 DEF BlockOf, BlockOffset
<1>3. LastSector + 1 = B * n
  BY <1>1, CacheAssumption
<1>4. BlockOf(lba) \in Nat /\ BlockOf(lba) <= lba
  BY <1>1, BlockFacts
<1>5. k < n
  <2>1. CASE k >= n
    <3>1. B * k >= B * n
      <4> HIDE DEF k, n
      <4> QED BY <1>1, <1>2, <2>1
    <3> QED BY <1>1, <1>2, <1>3, <1>4, <3>1
  <2> QED BY <1>2, <2>1
<1>6. B * k + B <= B * n
  <2> HIDE DEF k, n
  <2> QED BY <1>1, <1>2, <1>5
<1>7. BlockOf(lba) + B <= LastSector + 1
  BY <1>2, <1>3, <1>6
<1> QED BY <1>1, <1>4, <1>7 DEF Sector

(* What TypeOK says beyond CacheInv. *)
CacheTypes ==
  /\ readCacheLBA \in Sector
  /\ readCacheBuffer \in Buffer(READ_BUFFER_BLOCK_SIZE)
  /\ loadFailed \in BOOLEAN
  /\ writeCacheSectors \in 0 .. WRITE_BUFFER_MAX_SECTORS - 1

LEMMA EmptySectors ==
  ASSUME CacheTypes,
         EmptyWriteCache \/ UNCHANGED <<writeCacheValid, writeCacheLBA, writeCacheSectors>>
  PROVE  writeCacheSectors' \in 0 .. WRITE_BUFFER_MAX_SECTORS - 1
BY CacheAssumption DEF CacheTypes, EmptyWriteCache

LEMMA NextTypes == CacheInv /\ CacheTypes /\ [Next]_vars => CacheTypes'
<1> SUFFICES ASSUME CacheInv, CacheTypes, [Next]_vars PROVE CacheTypes'
  OBVIOUS
<1>1. CASE UNCHANGED vars
  BY <1>1 DEF CacheTypes, vars, readVars, writeVars
<1>2. CASE Write
  <2>1. UNCHANGED <<readCacheLBA, readCacheBuffer, loadFailed>>
    BY <1>2 DEF Write, invalidateReadBuffer, readVars
  <2>2. PICK lba \in Sector, count \in WriteCounts :
          \E ptr \in Buffer(count) :
             \/ WriteAppend(lba, count, ptr)
             \/ WriteStart(lba, count, ptr)
             \/ WriteThrough(lba, count, ptr)
    BY <1>2 DEF Write, Buffer
  <2>3. PICK ptr \in Buffer(count) :
             \/ WriteAppend(lba, count, ptr)
             \/ WriteStart(lba, count, ptr)
             \/ WriteThrough(lba, count, ptr)
    BY <2>2
  <2>4. count \in Nat
    BY CacheAssumption
  <2>5. CASE WriteAppend(lba, count, ptr)
    <3>1. \/ EmptyWriteCache
          \/ /\ writeCacheSectors + 1 # WRITE_BUFFER_MAX_SECTORS
             /\ writeCacheSectors' = writeCacheSectors + 1
      BY <2>5 DEF WriteAppend
    <3> QED BY <2>1, <3>1, EmptySectors, CacheAssumption DEF CacheTypes
  <2>6. CASE WriteStart(lba, count, ptr)
    <3>1. writeCacheSectors' = count /\ count < WRITE_BUFFER_MAX_SECTORS
      BY <2>6 DEF WriteStart, FitsInCache
    <3> QED BY <2>1, <2>4, <3>1, CacheAssumption DEF CacheTypes
  <2>7. CASE WriteThrough(lba, count, ptr)
    <3>1. \/ EmptyWriteCache
          \/ UNCHANGED <<writeCacheValid, writeCacheLBA, writeCacheSectors>>
      BY <2>7 DEF WriteThrough
    <3> QED BY <2>1, <3>1, EmptySectors DEF CacheTypes
  <2> QED BY <2>3, <2>5, <2>6, <2>7
<1>3. CASE Read \/ Purge
  <2>1. PICK missed :
          Flush(missed) /\ (invalidateReadBuffer \/ \E lba \in Sector : ReadBuffered(lba, missed))
    BY <1>3 DEF Read, Purge, ReadDirect
  <2>2. \/ EmptyWriteCache
        \/ UNCHANGED <<writeCacheValid, writeCacheLBA, writeCacheSectors>>
    BY <2>1 DEF Flush
  <2>3. writeCacheSectors' \in 0 .. WRITE_BUFFER_MAX_SECTORS - 1
    BY <2>2, EmptySectors
  <2>4. CASE UNCHANGED <<readCacheLBA, readCacheBuffer, loadFailed>>
    BY <2>3, <2>4 DEF CacheTypes
  <2>5. CASE \E lba \in Sector : \E loaded :
               LoadBlock(lba, loaded) /\ loadFailed' \in BOOLEAN
    <3>1. PICK lba \in Sector : \E loaded :
               LoadBlock(lba, loaded) /\ loadFailed' \in BOOLEAN
      BY <2>5
    <3>5. PICK loaded : LoadBlock(lba, loaded) /\ loadFailed' \in BOOLEAN
      BY <3>1
    <3>2. disk' \in [Sector -> Data]
      BY <2>1, FlushFacts
    <3>3. \A i \in 0 .. READ_BUFFER_BLOCK_SIZE - 1 : disk'[BlockOf(lba) + i] \in Data
      BY <3>2, BlockOnDisk
    <3>4. readCacheBuffer' \in Buffer(READ_BUFFER_BLOCK_SIZE)
      BY <3>3, <3>5 DEF LoadBlock, CacheTypes, Buffer
    <3> QED BY <2>3, <3>4, <3>5, BlockOnDisk DEF CacheTypes, LoadBlock
  <2> QED BY <2>1, <2>4, <2>5
          DEF ReadBuffered, invalidateReadBuffer, readVars
<1> QED BY <1>1, <1>2, <1>3 DEF Next

(* The type invariant: no count and no block number leaves its range, for a *)
(* disk of whole blocks (vcache.cpp:54-178).                                *)
THEOREM TypeCorrect == Spec => []TypeOK
<1>1. Init => CacheTypes
  <2> SUFFICES ASSUME Init PROVE CacheTypes
    OBVIOUS
  <2>1. loadFailed \in BOOLEAN
    BY DEF Init
  <2>2. readCacheBuffer \in Buffer(READ_BUFFER_BLOCK_SIZE)
    BY DEF Init, Buffer
  <2>3. readCacheLBA = 0 /\ writeCacheSectors = 0
    BY DEF Init
  <2> QED BY <2>1, <2>2, <2>3, CacheAssumption DEF CacheTypes, Sector
<1>2. CacheInv /\ CacheTypes => TypeOK
  BY DEF CacheInv, CacheTypes, TypeOK, Buffer
<1> QED BY <1>1, <1>2, NextTypes, CacheInvariance, PTL DEF Spec

-----------------------------------------------------------------------------
(***************************************************************************)
(* The cache implements the disk of module Disk.                           *)
(***************************************************************************)
contents == Flushed({})
PartialCounts == {count \in WriteCounts : count > 1 /\ FitsInCache(count)}

LEMMA SameSector == Cached!Sector = Sector
BY DEF Cached!Sector, Sector

LEMMA SameExtent ==
  ASSUME NEW lba, NEW count
  PROVE  Cached!Extent(lba, count) = Extent(lba, count)
BY DEF Cached!Extent, Extent

LEMMA SameCall ==
  ASSUME NEW op, NEW lba, NEW count, NEW buffer, NEW err, NEW lost
  PROVE  Cached!Call(op, lba, count, buffer, err, lost) = Call(op, lba, count, buffer, err, lost)
BY DEF Cached!Call, Call

LEMMA SameBlock ==
  ASSUME NEW lba
  PROVE  Cached!Block(lba) = Block(lba)
BY DEF Cached!Block, Block, BlockOf, BlockOffset, Cached!Extent, Extent

(* What a flush does not miss, the caller sees as before. *)
LEMMA FlushKeeps ==
  ASSUME CacheInv, NEW missed, NEW s \in Sector \ missed
  PROVE  Flushed(missed)[s] = contents[s]
BY DEF contents, Flushed, Written

LEMMA ContentsType == CacheInv => contents \in [Sector -> Data]
BY FlushedType DEF contents

ContentsTyped == contents \in [Sector -> Data]

LEMMA ContentsTypeNext == CacheInv' => ContentsTyped'
<1>1. CacheInv => ContentsTyped
  BY ContentsType DEF ContentsTyped
<1> QED BY <1>1, PTL

LEMMA InitRefines == Init => Cached!DiskInit
<1> SUFFICES ASSUME Init PROVE Cached!DiskInit
  OBVIOUS
<1>1. Flushed({}) = disk /\ disk \in [Sector -> Data]
  BY DEF Init, Flushed
<1>2. Waiting = {} /\ Unread = {}
  BY DEF Init, Waiting, Unread
<1>3. lastCall = Cached!NoCall
  BY SameCall DEF Init, NoCall, Cached!NoCall
<1> QED BY <1>1, <1>2, <1>3, SameSector DEF Cached!DiskInit

(* A write, whichever way it goes through the cache. *)
LEMMA AppendRefines ==
  ASSUME CacheInv, CacheInv',
         NEW lba \in Sector, NEW count \in WriteCounts, NEW ptr \in Buffer(count),
         WriteAppend(lba, count, ptr)
  PROVE  \E lost :
           /\ lastCall' = Call("write", lba, count, ptr, FALSE, lost)
           /\ lost \subseteq Waiting \cup {lba}
           /\ Waiting' \subseteq Waiting \cup {lba}
           /\ count = 1
           /\ \A s \in Sector \ lost :
                contents'[s] = IF s = lba THEN ptr[0] ELSE contents[s]
<1> DEFINE n == writeCacheSectors
           buffer == [writeCacheBuffer EXCEPT ![n] = ptr[0]]
<1>1. /\ writeCacheValid /\ lba = writeCacheLBA + n
      /\ n \in 1 .. WRITE_BUFFER_MAX_SECTORS - 1
      /\ writeCacheLBA \in Nat /\ count = 1
      /\ writeCacheBuffer \in Buffer(WRITE_BUFFER_MAX_SECTORS)
      /\ WRITE_BUFFER_MAX_SECTORS \in Nat
  BY CacheAssumption DEF WriteAppend, Follows, CacheInv, WriteCacheFits, Sector
<1>2. Waiting = Extent(writeCacheLBA, n)
      /\ contents = Written(disk, writeCacheLBA, n, writeCacheBuffer, {})
  BY <1>1 DEF Waiting, contents, Flushed
<1>3. ASSUME NEW s \in Sector, NEW missed, s \notin missed
      PROVE  Written(disk, writeCacheLBA, n + 1, buffer, missed)[s]
               = IF s = lba THEN ptr[0] ELSE contents[s]
  <2>1. s \in Nat
    BY CacheAssumption DEF Sector
  <2>2. CASE s = lba
    <3>1. s \in Extent(writeCacheLBA, n + 1) /\ s - writeCacheLBA = n
      BY <1>1, <2>1, <2>2 DEF Extent
    <3>2. buffer[n] = ptr[0]
      BY <1>1 DEF Buffer
    <3> QED BY <1>3, <2>2, <3>1, <3>2 DEF Written
  <2>3. CASE s \in Extent(writeCacheLBA, n)
    <3>1. s \in Extent(writeCacheLBA, n + 1) /\ s # lba
          /\ s - writeCacheLBA \in 0 .. n - 1
      BY <1>1, <2>1, <2>3 DEF Extent
    <3>2. buffer[s - writeCacheLBA] = writeCacheBuffer[s - writeCacheLBA]
      BY <1>1, <3>1 DEF Buffer
    <3> QED BY <1>2, <1>3, <2>3, <3>1, <3>2 DEF Written
  <2>4. CASE s # lba /\ s \notin Extent(writeCacheLBA, n)
    <3>1. s \notin Extent(writeCacheLBA, n + 1)
      BY <1>1, <2>1, <2>4 DEF Extent
    <3> QED BY <1>2, <1>3, <2>4, <3>1 DEF Written
  <2> QED BY <2>2, <2>3, <2>4
<1>4. CASE n + 1 = WRITE_BUFFER_MAX_SECTORS
  <2>1. PICK missed \in SUBSET (Waiting \cup {lba}) :
          /\ disk' = Written(disk, writeCacheLBA, WRITE_BUFFER_MAX_SECTORS, buffer, missed)
          /\ lastCall' = Call("write", lba, count, ptr, FALSE, missed)
    BY <1>4 DEF WriteAppend
  <2>2. ~writeCacheValid'
    BY <1>4 DEF WriteAppend, EmptyWriteCache
  <2>3. contents' = disk' /\ Waiting' = {}
    BY <2>2 DEF contents, Flushed, Waiting
  <2>4. \A s \in Sector \ missed : contents'[s] = IF s = lba THEN ptr[0] ELSE contents[s]
    BY <1>3, <1>4, <2>1, <2>3
  <2> QED BY <1>1, <2>1, <2>3, <2>4
<1>5. CASE n + 1 # WRITE_BUFFER_MAX_SECTORS
  <2>1. /\ writeCacheSectors' = n + 1 /\ writeCacheBuffer' = buffer
        /\ disk' = disk /\ writeCacheLBA' = writeCacheLBA
        /\ writeCacheValid'
        /\ lastCall' = Call("write", lba, count, ptr, FALSE, {})
    BY <1>1, <1>5 DEF WriteAppend
  <2>2. contents' = Written(disk, writeCacheLBA, n + 1, buffer, {})
    BY <2>1 DEF contents, Flushed
  <2>3. Waiting' = Extent(writeCacheLBA, n + 1)
    BY <2>1 DEF Waiting
  <2>4. Extent(writeCacheLBA, n + 1) \subseteq Extent(writeCacheLBA, n) \cup {lba}
    BY <1>1 DEF Extent
  <2>5. \A s \in Sector : contents'[s] = IF s = lba THEN ptr[0] ELSE contents[s]
    BY <1>3, <2>2
  <2>6. PICK lost : lost = {}
    OBVIOUS
  <2>7. lost \subseteq Waiting \cup {lba} /\ Waiting' \subseteq Waiting \cup {lba}
    BY <1>2, <2>3, <2>4, <2>6
  <2>8. lastCall' = Call("write", lba, count, ptr, FALSE, lost)
    BY <2>1, <2>6
  <2> QED BY <1>1, <2>5, <2>7, <2>8
<1> QED BY <1>4, <1>5

LEMMA StartRefines ==
  ASSUME CacheInv, CacheInv',
         NEW lba \in Sector, NEW count \in WriteCounts, NEW ptr \in Buffer(count),
         WriteStart(lba, count, ptr)
  PROVE  \E lost :
           /\ lastCall' = Call("write", lba, count, ptr, FALSE, lost)
           /\ lost \subseteq Waiting
           /\ Waiting' = Extent(lba, count)
           /\ count = 1 \/ count \in PartialCounts
           /\ contents'[lba] = ptr[0]
           /\ \A s \in Sector \ (lost \cup Extent(lba, count)) : contents'[s] = contents[s]
<1>1. PICK missed \in SUBSET Waiting :
       /\ disk' = Flushed(missed)
       /\ lastCall' = Call("write", lba, count, ptr, FALSE, missed \ Extent(lba, count))
  BY DEF WriteStart
<1>2. /\ writeCacheValid' /\ writeCacheLBA' = lba /\ writeCacheSectors' = count
      /\ writeCacheBuffer' = [writeCacheBuffer EXCEPT ![0] = ptr[0]]
      /\ FitsInCache(count)
  BY DEF WriteStart
<1>3. count \in Nat \ {0} /\ lba \in Nat /\ lba \in Extent(lba, count)
  BY CacheAssumption DEF Sector, Extent
<1>4. count = 1 \/ count \in PartialCounts
  BY <1>2, <1>3 DEF PartialCounts
<1>5. contents' = Written(disk', lba, count, writeCacheBuffer', {}) /\ Waiting' = Extent(lba, count)
  BY <1>2 DEF contents, Flushed, Waiting
<1>6. contents'[lba] = ptr[0]
  <2>1. writeCacheBuffer'[0] = ptr[0]
    BY <1>2, CacheAssumption DEF CacheInv, Buffer
  <2> QED BY <1>3, <1>5, <2>1 DEF Written
<1>7. \A s \in Sector \ (missed \cup Extent(lba, count)) : contents'[s] = contents[s]
  <2> SUFFICES ASSUME NEW s \in Sector, s \notin missed, s \notin Extent(lba, count)
               PROVE  contents'[s] = contents[s]
    OBVIOUS
  <2>1. contents'[s] = disk'[s]
    BY <1>5 DEF Written
  <2>2. Flushed(missed)[s] = contents[s]
    BY FlushKeeps
  <2> QED BY <1>1, <2>1, <2>2
<1> WITNESS missed \ Extent(lba, count)
<1> QED BY <1>1, <1>4, <1>5, <1>6, <1>7

LEMMA ThroughRefines ==
  ASSUME CacheInv, CacheInv',
         NEW lba \in Sector, NEW count \in WriteCounts, NEW ptr \in Buffer(count),
         WriteThrough(lba, count, ptr)
  PROVE  \E lost, err :
           /\ lastCall' = Call("write", lba, count, ptr, err, lost)
           /\ lost \subseteq Waiting \cup Extent(lba, count)
           /\ Waiting' = {}
           /\ \A s \in Extent(lba, count) \ lost : s \in Sector => contents'[s] = ptr[s - lba]
           /\ \A s \in Sector \ (lost \cup Extent(lba, count)) : contents'[s] = contents[s]
<1>1. PICK missed \in SUBSET Waiting, skipped \in SUBSET Extent(lba, count), err \in BOOLEAN :
       /\ disk' = Written(Flushed(missed), lba, count, ptr, skipped)
       /\ lastCall' = Call("write", lba, count, ptr, err,
                            (missed \ Extent(lba, count)) \cup skipped)
  BY DEF WriteThrough
<1> DEFINE lost == (missed \ Extent(lba, count)) \cup skipped
<1>2. \/ EmptyWriteCache
      \/ ~writeCacheValid /\ UNCHANGED <<writeCacheValid, writeCacheLBA, writeCacheSectors>>
  BY DEF WriteThrough
<1>3. ~writeCacheValid'
  BY <1>2, EmptyFits, EmptyStays
<1>4. contents' = disk' /\ Waiting' = {}
  BY <1>3 DEF contents, Flushed, Waiting
<1>5. \A s \in Extent(lba, count) \ lost : s \in Sector => contents'[s] = ptr[s - lba]
  BY <1>1, <1>4 DEF Written
<1>6. \A s \in Sector \ (lost \cup Extent(lba, count)) : contents'[s] = contents[s]
  <2> SUFFICES ASSUME NEW s \in Sector, s \notin lost, s \notin Extent(lba, count)
               PROVE  contents'[s] = contents[s]
    OBVIOUS
  <2>1. s \notin missed /\ disk'[s] = Flushed(missed)[s]
    BY <1>1 DEF Written
  <2>2. Flushed(missed)[s] = contents[s]
    BY <2>1, FlushKeeps
  <2> QED BY <1>4, <2>1, <2>2
<1>7. lost \subseteq Waiting \cup Extent(lba, count)
  OBVIOUS
<1> QED BY <1>1, <1>4, <1>5, <1>6, <1>7

LEMMA WriteRefines == CacheInv /\ CacheInv' /\ Write => Cached!DiskNext
<1> SUFFICES ASSUME CacheInv, CacheInv', Write PROVE Cached!DiskNext
  OBVIOUS
<1>1. PICK lba \in Sector, count \in WriteCounts :
        /\ lba + count - 1 \in Sector
        /\ \E ptr \in Buffer(count) :
             \/ WriteAppend(lba, count, ptr)
             \/ WriteStart(lba, count, ptr)
             \/ WriteThrough(lba, count, ptr)
  BY DEF Write, Buffer
<1>2. PICK ptr \in Buffer(count) :
             \/ WriteAppend(lba, count, ptr)
             \/ WriteStart(lba, count, ptr)
             \/ WriteThrough(lba, count, ptr)
  BY <1>1
<1>3. Unread' = {}
  BY DEF Write, invalidateReadBuffer, readVars, Unread, CacheInv
<1>4. contents' \in [Sector -> Data]
  BY ContentsTypeNext DEF ContentsTyped
<1>5. count \in Nat \ {0} /\ lba \in Nat /\ Extent(lba, count) \subseteq Sector
      /\ lba \in Extent(lba, count)
  BY <1>1, CacheAssumption DEF Sector, Extent
<1>6. \E err, lost :
        /\ lastCall' = Call("write", lba, count, ptr, err, lost)
        /\ lost \subseteq Waiting \cup Extent(lba, count)
        /\ Waiting' \subseteq Waiting \cup Extent(lba, count)
        /\ \A s \in Sector \ (lost \cup Extent(lba, count)) : contents'[s] = contents[s]
        /\ \A s \in (IF count \in PartialCounts THEN {lba} ELSE Extent(lba, count)) \ lost :
             contents'[s] = ptr[s - lba]
  <2>1. CASE WriteAppend(lba, count, ptr)
    <3>1. PICK lost :
           /\ lastCall' = Call("write", lba, count, ptr, FALSE, lost)
           /\ lost \subseteq Waiting \cup {lba}
           /\ Waiting' \subseteq Waiting \cup {lba}
           /\ count = 1
           /\ \A s \in Sector \ lost :
                contents'[s] = IF s = lba THEN ptr[0] ELSE contents[s]
      BY <2>1, AppendRefines
    <3>2. Extent(lba, count) = {lba} /\ count \notin PartialCounts
      BY <1>5, <3>1 DEF Extent, PartialCounts
    <3>3. lba - lba = 0
      BY <1>5
    <3>4. \A s \in Sector \ (lost \cup Extent(lba, count)) : contents'[s] = contents[s]
      BY <3>1, <3>2
    <3>5. \A s \in (IF count \in PartialCounts THEN {lba} ELSE Extent(lba, count)) \ lost :
            contents'[s] = ptr[s - lba]
      BY <3>1, <3>2, <3>3
    <3>6. lost \subseteq Waiting \cup Extent(lba, count) /\ Waiting' \subseteq Waiting \cup Extent(lba, count)
      BY <3>1, <3>2
    <3> QED BY <3>1, <3>4, <3>5, <3>6
  <2>2. CASE WriteStart(lba, count, ptr)
    <3>1. PICK lost :
           /\ lastCall' = Call("write", lba, count, ptr, FALSE, lost)
           /\ lost \subseteq Waiting
           /\ Waiting' = Extent(lba, count)
           /\ count = 1 \/ count \in PartialCounts
           /\ contents'[lba] = ptr[0]
           /\ \A s \in Sector \ (lost \cup Extent(lba, count)) : contents'[s] = contents[s]
      BY <2>2, StartRefines
    <3>2. count = 1 => Extent(lba, count) = {lba}
      BY <1>5 DEF Extent
    <3>3. lba - lba = 0
      BY <1>5
    <3>4. (IF count \in PartialCounts THEN {lba} ELSE Extent(lba, count)) = {lba}
      BY <3>1, <3>2
    <3> QED BY <3>1, <3>3, <3>4
  <2>3. CASE WriteThrough(lba, count, ptr)
    <3>1. PICK lost, err :
           /\ lastCall' = Call("write", lba, count, ptr, err, lost)
           /\ lost \subseteq Waiting \cup Extent(lba, count)
           /\ Waiting' = {}
           /\ \A s \in Extent(lba, count) \ lost : s \in Sector => contents'[s] = ptr[s - lba]
           /\ \A s \in Sector \ (lost \cup Extent(lba, count)) : contents'[s] = contents[s]
      BY <2>3, ThroughRefines
    <3>2. (IF count \in PartialCounts THEN {lba} ELSE Extent(lba, count)) \subseteq Extent(lba, count)
      BY <1>5
    <3> QED BY <1>5, <3>1, <3>2
  <2> QED BY <1>2, <2>1, <2>2, <2>3
<1>7. PICK err, lost :
        /\ lastCall' = Call("write", lba, count, ptr, err, lost)
        /\ lost \subseteq Waiting \cup Extent(lba, count)
        /\ Waiting' \subseteq Waiting \cup Extent(lba, count)
        /\ \A s \in Sector \ (lost \cup Extent(lba, count)) : contents'[s] = contents[s]
        /\ \A s \in (IF count \in PartialCounts THEN {lba} ELSE Extent(lba, count)) \ lost :
             contents'[s] = ptr[s - lba]
  BY <1>6
<1>8. /\ lastCall'.lba = lba /\ lastCall'.count = count /\ lastCall'.buffer = ptr
      /\ lastCall'.err = err /\ lastCall'.lost = lost
  BY <1>7 DEF Call
<1>9. Cached!KeepAllBut(lost \cup Extent(lba, count))
  BY <1>4, <1>7, SameSector DEF Cached!KeepAllBut, contents
<1>10. Cached!DiskWrite(lba, count, ptr, err, lost)
  BY <1>3, <1>7, <1>9, SameExtent, SameCall DEF Cached!DiskWrite, contents, PartialCounts
<1> QED BY <1>5, <1>8, <1>10, SameSector, SameExtent DEF Cached!DiskNext

(* What a flush leaves behind. *)
LEMMA FlushRefines ==
  ASSUME CacheInv, NEW missed \in SUBSET Waiting, Flush(missed)
  PROVE  /\ Waiting' = {}
         /\ contents' = disk'
         /\ Cached!KeepAllBut(missed)
<1>1. ~writeCacheValid' /\ disk' = Flushed(missed) /\ disk' \in [Sector -> Data]
  BY FlushFacts
<1>2. Waiting' = {} /\ contents' = disk'
  BY <1>1 DEF Waiting, contents, Flushed
<1>3. \A s \in Sector \ missed : contents'[s] = contents[s]
  BY <1>1, <1>2, FlushKeeps
<1> QED BY <1>1, <1>2, <1>3, SameSector DEF Cached!KeepAllBut, contents

LEMMA ReadRefines == CacheInv /\ CacheInv' /\ Read => Cached!DiskNext
<1> SUFFICES ASSUME CacheInv, CacheInv', Read PROVE Cached!DiskNext
  OBVIOUS
<1>1. PICK lba \in Sector, count \in ReadCounts, missed \in SUBSET Waiting :
        /\ lba + count - 1 \in Sector
        /\ Flush(missed)
        /\ \/ count = 1 /\ ReadBuffered(lba, missed)
           \/ ReadDirect(lba, count, missed)
  BY DEF Read
<1>2. Waiting' = {} /\ contents' = disk' /\ Cached!KeepAllBut(missed)
  BY <1>1, FlushRefines
<1>3. count \in Nat \ {0} /\ lba \in Nat /\ Extent(lba, count) \subseteq Sector
  BY <1>1, CacheAssumption DEF Sector, Extent
<1>4. \E err, buffer :
        /\ lastCall' = Call("read", lba, count, buffer, err, missed)
        /\ Unread' \subseteq (IF err THEN Block(lba) ELSE Unread)
        /\ ~err => \A i \in 0 .. count - 1 : lba + i \notin Unread' => buffer[i] = disk'[lba + i]
  <2>1. CASE count = 1 /\ ReadBuffered(lba, missed)
    <3> DEFINE b == BlockOf(lba)
               o == BlockOffset(lba)
    <3>1. o \in 0 .. READ_BUFFER_BLOCK_SIZE - 1 /\ b + o = lba /\ BlockOf(b) = b /\ b \in Nat
      BY <1>3, BlockFacts
    <3>2. lba \in Block(lba)
      BY <1>3, <3>1, CacheAssumption DEF Block, Extent
    <3>3. CASE /\ \/ Holds(lba) /\ UNCHANGED readVars
                  \/ ~Holds(lba) /\ LoadBlock(lba, READ_BUFFER_BLOCK_SIZE) /\ loadFailed' = FALSE
               /\ lastCall' = Call("read", lba, 1, [i \in {0} |-> readCacheBuffer'[o]],
                                   FALSE, missed)
      <4>1. readCacheValid' /\ readCacheLBA' = b
        BY <3>3 DEF Holds, LoadBlock, readVars
      <4>2. Unread' \subseteq Unread
        BY <3>3 DEF Unread, readVars
      <4>3. ASSUME lba \notin Unread'
            PROVE  readCacheBuffer'[o] = disk'[lba]
        <5>1. Block(b) = Block(lba)
          BY <3>1 DEF Block
        <5>2. ~loadFailed'
          BY <3>2, <4>1, <4>3, <5>1 DEF Unread
        <5>3. readCacheBuffer'[o] = disk'[b + o]
          BY <3>1, <4>1, <5>2 DEF CacheInv, ReadCacheFresh
        <5> QED BY <3>1, <5>3
      <4>4. \A i \in 0 .. count - 1 : i = 0 /\ lba + i = lba
        BY <1>3, <2>1
      <4> DEFINE buffer == [i \in {0} |-> readCacheBuffer'[o]]
      <4>5. lastCall' = Call("read", lba, count, buffer, FALSE, missed)
        BY <2>1, <3>3
      <4>6. buffer[0] = readCacheBuffer'[o]
        OBVIOUS
      <4> HIDE DEF buffer, o
      <4>7. \A i \in 0 .. count - 1 : lba + i \notin Unread' => buffer[i] = disk'[lba + i]
        BY <4>3, <4>4, <4>6
      <4> QED BY <4>2, <4>5, <4>7
    <3>4. CASE /\ \E loaded : LoadBlock(lba, loaded)
               /\ lastCall' = Call("read", lba, 1, << >>, TRUE, missed)
      <4>1. readCacheLBA' = b
        BY <3>4 DEF LoadBlock
      <4>2. Unread' \subseteq Block(lba)
        BY <3>1, <4>1 DEF Unread, Block
      <4> QED BY <2>1, <3>4, <4>2
    <3> QED BY <2>1, <3>3, <3>4 DEF ReadBuffered
  <2>2. CASE ReadDirect(lba, count, missed)
    <3>1. Unread' = {}
      BY <2>2 DEF ReadDirect, invalidateReadBuffer, Unread
    <3>2. CASE lastCall' = Call("read", lba, count, [i \in 0 .. count - 1 |-> disk'[lba + i]],
                               FALSE, missed)
      <4> DEFINE buffer == [i \in 0 .. count - 1 |-> disk'[lba + i]]
      <4>1. \A i \in 0 .. count - 1 : buffer[i] = disk'[lba + i]
        OBVIOUS
      <4> HIDE DEF buffer
      <4> QED BY <3>1, <3>2, <4>1 DEF buffer
    <3>3. CASE lastCall' = Call("read", lba, count, << >>, TRUE, missed)
      BY <3>1, <3>3
    <3> QED BY <2>2, <3>2, <3>3 DEF ReadDirect
  <2> QED BY <1>1, <2>1, <2>2
<1>5. PICK err, buffer :
        /\ lastCall' = Call("read", lba, count, buffer, err, missed)
        /\ Unread' \subseteq (IF err THEN Block(lba) ELSE Unread)
        /\ ~err => \A i \in 0 .. count - 1 : lba + i \notin Unread' => buffer[i] = disk'[lba + i]
  BY <1>4
<1>6. /\ lastCall'.lba = lba /\ lastCall'.count = count /\ lastCall'.buffer = buffer
      /\ lastCall'.err = err /\ lastCall'.lost = missed
  BY <1>5 DEF Call
<1>7. Cached!DiskRead(lba, count, buffer, err, missed)
  BY <1>2, <1>5, SameCall, SameBlock DEF Cached!DiskRead, contents
<1> QED BY <1>3, <1>6, <1>7, SameSector, SameExtent DEF Cached!DiskNext

LEMMA PurgeRefines == CacheInv /\ Purge => Cached!DiskNext
<1> SUFFICES ASSUME CacheInv, Purge PROVE Cached!DiskNext
  OBVIOUS
<1>1. PICK missed \in SUBSET Waiting :
       /\ Flush(missed)
       /\ lastCall' = Call("purge", 0, 0, << >>, FALSE, missed)
  BY DEF Purge
<1>2. Waiting' = {} /\ Cached!KeepAllBut(missed)
  BY <1>1, FlushRefines
<1>3. Unread' = {}
  BY DEF Purge, invalidateReadBuffer, Unread
<1>4. lastCall'.lost = missed
  BY <1>1 DEF Call
<1>5. Cached!DiskPurge(missed)
  BY <1>1, <1>2, <1>3, SameCall DEF Cached!DiskPurge
<1> QED BY <1>4, <1>5 DEF Cached!DiskNext

(* Reads return what was written last, but for what the drive has lost, for  *)
(* writes and reads of any length (vcache.cpp:54-178).                      *)
THEOREM CacheIsInvisible == Spec => ReadsReturnLastWrite
<1>1. CacheInv /\ CacheInv' /\ [Next]_vars => [Cached!DiskNext]_<<Flushed({}), Waiting, Unread, lastCall>>
  <2>1. ASSUME UNCHANGED vars
        PROVE  UNCHANGED <<Flushed({}), Waiting, Unread, lastCall>>
    BY <2>1 DEF vars, readVars, writeVars, Flushed, Written, Waiting, Unread
  <2> QED BY <2>1, WriteRefines, ReadRefines, PurgeRefines DEF Next
<1> QED BY <1>1, InitRefines, CacheInvariance, PTL
        DEF Spec, ReadsReturnLastWrite, Cached!DiskSpec, Cached!diskVars

=============================================================================
