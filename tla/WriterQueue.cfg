SPECIFICATION Spec
CONSTANTS
  Names = {"persist", "arb", "scan"}
  Cap = 2
  MaxPuts = 7
  MaxRestarts = 2
  FileMax = 2
INVARIANTS
  
  
  DrainedAtExit
PROPERTIES
  StopEnds
  EntriesConsumed
CHECK_DEADLOCK FALSE
