CONSTANTS
  i1 = i1
  i2 = i2
  f1 = f1
  f2 = f2
  Images = {i1, i2}
  Files = {f1, f2}
  Base = i1
  NoFile = NoFile
  Chunks = {0, 1}
  SectorsPerChunk = 1
  InFile <- MCInFile
  Stubs <- MCStubs
  Accessed <- MCAccessed
  LockedFiles = {}
  Companions <- MCCompanions
  Data = {One}
  Zero = Zero
  Torn = Torn
  Stub = Stub
  Clipped = Clipped
  NoData = NoData
  NumSlots = 2
  Hash <- MCHash
  MaxAttach = 2
  MaxFaults = 1

SPECIFICATION FairSpec
INVARIANT CacheIsSound
PROPERTY LossIsLatched SuccessMeansClean WriteBehind WorkGetsDone
