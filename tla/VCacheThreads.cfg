SPECIFICATION ThreadsSpec
CONSTANTS
  Thread = {t1, t2}
  LastSector = 3
  Data = {d1, d2}
  READ_BUFFER_BLOCK_SIZE = 2
  WRITE_BUFFER_MAX_SECTORS = 2
  removable = FALSE
  ReadCounts = {1}
  WriteCounts = {1}
INVARIANTS
  NoOverrun
