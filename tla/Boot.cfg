SPECIFICATION BootSpec
CONSTANTS
  Rows = 4
  Lamps = {a, b}
  Width = 3
  Chunk = 2
  Shift = 1
  Decimal <- MCDecimal
  Lines <- MCLines
  Files <- MCFiles
  Cards <- MCCards
INVARIANTS OptionsAreRead PanelIsRight CoresTakeTurns
PROPERTY ScreenIsShared
CHECK_DEADLOCK FALSE
