SPECIFICATION Spec
CONSTANTS
  max_outbox = 2
  DelayMin = 1
  DelayMax = 3
  MaxEvents = 5
  MaxFaults = 4
INVARIANTS
  OneWrite
  LinkNeverStranded
  NewestKept
PROPERTIES
  ImplementsEventLink
  Reconnects
CHECK_DEADLOCK FALSE
