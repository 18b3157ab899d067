SPECIFICATION Spec
CONSTANTS
  Base = 3
  Short = 2
  Long = 4
  V4Prefix <- MCV4Prefix
  HalfWord = 4
  Second = 2
  Services <- MCServices
  Targets <- MCTargets
  Scheds = {"rr", "wrr"}
  Weights = {1, 6}
  Timeouts = {"TCP", "UDP"}
  Durations = {0, 1, 7}
INVARIANTS
  TypeOK
PROPERTIES
  ImplementsTable
VIEW KernelView
