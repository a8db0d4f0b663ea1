SPECIFICATION Spec
CONSTANTS
  LastSector = 3
  Data = {d1, d2}
  READ_BUFFER_BLOCK_SIZE = 2
  WRITE_BUFFER_MAX_SECTORS = 3
  removable = FALSE
  ReadCounts = {1, 2}
  WriteCounts = {1, 2}
VIEW CacheView
PROPERTIES
  WritesAreWhole
