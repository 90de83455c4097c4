SPECIFICATION Spec
CONSTANTS
  Starts <- MCStarts
  Filler <- MCFiller
  Acknowledge <- MCAcknowledge
INVARIANTS InterruptsAreClean InstructionsAreTrue
PROPERTY InterruptIsTaken
CHECK_DEADLOCK FALSE
