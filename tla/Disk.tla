--------------------------------- MODULE Disk ---------------------------------
(***************************************************************************)
(* What PhysicalDisk::cache promises to LogicalDisk (hal/logidisk.cpp): a   *)
(* disk whose every read returns what was last written to each sector, but  *)
(* for the sectors whose contents a call has lost because the drive failed. *)
(* A call may lose what it writes itself and what still waits to be written.*)
(***************************************************************************)
EXTENDS Integers

CONSTANTS
  LastSector,               \* the highest sector number
  Data,                     \* what a sector may hold
  READ_BUFFER_BLOCK_SIZE,   \* sectors that one failed read may concern
  PartialCounts             \* lengths of writes of which only the first sector is promised

VARIABLES
  contents,     \* [Sector -> Data]
  waiting,      \* sectors that can still be lost
  unread,       \* sectors whose reads may return anything: their last one failed
  lastCall      \* the last call, what it was given or returned, what it lost

diskVars == <<contents, waiting, unread, lastCall>>

Sector == 0 .. LastSector

Extent(lba, count) == lba .. lba + count - 1

Block(lba) == Extent(lba - (lba % READ_BUFFER_BLOCK_SIZE), READ_BUFFER_BLOCK_SIZE)

Call(op, lba, count, buffer, err, lost) ==
  [op |-> op, lba |-> lba, count |-> count, buffer |-> buffer, err |-> err, lost |-> lost]

NoCall == Call("none", 0, 0, << >>, FALSE, {})

DiskInit ==
  /\ contents \in [Sector -> Data]
  /\ waiting = {}
  /\ unread = {}
  /\ lastCall = NoCall

(* The sectors keep what they hold, but for those that are lost. *)
KeepAllBut(lost) ==
  /\ contents' \in [Sector -> Data]
  /\ \A s \in Sector \ lost : contents'[s] = contents[s]

DiskWrite(lba, count, buffer, err, lost) ==
  LET promised == IF count \in PartialCounts THEN {lba} ELSE Extent(lba, count)
  IN  /\ lastCall' = Call("write", lba, count, buffer, err, lost)
      /\ lost \subseteq waiting \cup Extent(lba, count)
      /\ KeepAllBut(lost \cup Extent(lba, count))
      /\ \A s \in promised \ lost : contents'[s] = buffer[s - lba]
      /\ waiting' \subseteq waiting \cup Extent(lba, count)
      /\ unread' = {}

(* What waited is written first.  Only a read that fails leaves sectors      *)
(* unread that were not.                                                    *)
DiskRead(lba, count, buffer, err, lost) ==
  /\ lastCall' = Call("read", lba, count, buffer, err, lost)
  /\ lost \subseteq waiting
  /\ KeepAllBut(lost)
  /\ waiting' = {}
  /\ unread' \subseteq IF err THEN Block(lba) ELSE unread
  /\ ~err => \A i \in 0 .. count - 1 : lba + i \notin unread' => buffer[i] = contents'[lba + i]

(* The medium was changed. *)
DiskPurge(lost) ==
  /\ lastCall' = Call("purge", 0, 0, << >>, FALSE, lost)
  /\ lost \subseteq waiting
  /\ KeepAllBut(lost)
  /\ waiting' = {}
  /\ unread' = {}

(* The call that a step makes is the one it records. *)
DiskNext ==
  LET c == lastCall' IN
  \/ /\ c.lba \in Sector /\ Extent(c.lba, c.count) \subseteq Sector
     /\ \/ DiskWrite(c.lba, c.count, c.buffer, c.err, c.lost)
        \/ DiskRead(c.lba, c.count, c.buffer, c.err, c.lost)
  \/ DiskPurge(c.lost)

DiskSpec == DiskInit /\ [][DiskNext]_diskVars

=============================================================================
