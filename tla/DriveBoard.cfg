CONSTANTS
  Stride = 2
  SmallDisk = 5
  INVALID_BASELBA = INVALID_BASELBA
  Numbers = {n8, n9}
  Unsigned = Unsigned
  NotForced = NotForced
  ForcedDeviceIDs = {NotForced, n9}
  Sizes = {0, 4, 5, 7}
  Signable = {2, 4}
  Companions = {c1}
  CompanionSectors = {0, 8}
  HoldTimes = {1, 2}
  Pressable = {"WP"}
  MaxResets = 2
  MaxFaults = 1
  Addresses = {16640, 36608, 49408}
  Bytes <- MCBytes
  Second = 2
  Wrap = 121
  Dates <- MCDates
  Passes = {15, 105, 120}
  MaxAge = 255
  MaxPause = 15
  MaxModes = 1
  DEBOUNCE = 1
  REPEAT = 4
  ClockWrap = 10
  Polls = {1, 3}
  Hands <- MCHands
  MaxPress = 9
  Programs = {"scsi", "memory", "clock", "buttons"}
  DisksOf <- MCDisksOf

SPECIFICATION BoardSpec
INVARIANTS DisksAreFound PortsAreTrue ClockKeepsTime
PROPERTY FormatErasesOne
