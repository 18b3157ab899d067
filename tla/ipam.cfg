SPECIFICATION FairSpec
CONSTANTS
  Width = 3
  Base = 2
  Blocks <- MCBlocks
INVARIANTS
  Scanned
  ReturnsLeastFree
  StaysInCidr
PROPERTIES
  ImplementsNumeric
  Terminates
CHECK_DEADLOCK FALSE
