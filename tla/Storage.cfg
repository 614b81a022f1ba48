\* A torn write of the blob, a rest of an earlier run, and queries that the
\* buffer spills in the middle, in each generation.
SPECIFICATION StorageSpec
CONSTANTS
  a = a
  b = b
  c = c
  Ids <- MCIds
  Size <- MCSize
  Stale = Stale
  NoSlot = NoSlot
  MaxLen = 7
  Clear = Clear
  BUF_CAP = 2
  MaxGenerations = 1
  MaxPieces = 5
  PARTS = 2
INVARIANTS
  TypeOK
  RetrieveIsRight
  FileInOrder
PROPERTIES
  StoredStaysStored
  AllSavedInTheEnd
CHECK_DEADLOCK FALSE
