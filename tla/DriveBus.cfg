CONSTANTS
  Base = 4
  Width = 3
  ResetLoops = 1
  Programs = {"atn", "lines", "t1", "t2", "receive", "send"}

SPECIFICATION FairSpec
INVARIANTS SymbolsAreMeant FlagsAreTrue
PROPERTIES AtnIsServed TimersAreOnTime
CHECK_DEADLOCK FALSE
