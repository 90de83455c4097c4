SPECIFICATION Spec
CONSTANTS
  CSize = 2
  NFats = 2
  NFatEnt = 12
  FatEntries = 6
  DirEntries = 3
  KernelSize = 5
  Versions <- MCVersions
  Cards <- MCCards
  ImageSectors <- MCImageSectors
  MaxBoots = 3
  MaxFaults = 0
  MaxCuts = 1
  MaxIo = 12
  MaxWrites = 1
CHECK_DEADLOCK FALSE
INVARIANT PlacedIsComplete
