CONSTANTS
  FLUSH_IDLE_LOOPS = 2
  FLUSH_MAX_LOOPS = 5
  ResetLoops = 1
  MaxFaults = 1
  Drives <- MCDrives
  Folders = {"images", "games"}
  Files = {"hd.images", "hx.images", "hd.games"}
  Up <- MCUp
  NameOf <- MCNameOf
  Rank <- MCRank
  ImageFolder <- MCImageFolder
  AutoImage <- MCAutoImage
  Rows <- MCRows
  LcdPaging = TRUE
  Letters = {"h"}
  Buttons = {"enter"}
  PrefixSize = 1
  MaxPulls = 1
  MaxProtected = 1

SPECIFICATION FairEmulatorSpec
INVARIANT FlushesAreEarned
PROPERTIES ResetIsMeant WritesGoOut ExitIsSeen ScreenIsTrue MountIsWhatWasChosen
