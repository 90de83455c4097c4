CONSTANTS
  Targets = {0}
  Luns = {0, 1}
  Size <- MCSize
  ShortCdb = 2
  LongCdb = 3
  CmdBufBytes = 4
  BufBytes = 3
  SenseBytes = 2
  DefaultSense = 1
  CapacityBytes = 2
  HeaderBytes = 1
  AllBlocks = 3
  Opcodes = {"TEST_UNIT_READY", "REQUEST_SENSE", "FORMAT_UNIT", "REASSIGN_BLOCKS",
    "READ_6", "WRITE_10", "VERIFY", "INQUIRY", "MODE_SENSE", "READ_CAPACITY", "REZERO_UNIT", "unknown"}
  Links = {TRUE, FALSE}
  Addresses = {1}
  Lengths = {0, 2}

SPECIFICATION FairSpec
INVARIANT InBounds
PROPERTY BlocksMove ErrorIsTold VerifyMeansOnCard CommandsEnd
