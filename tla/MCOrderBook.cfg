SPECIFICATION Spec
CONSTANTS
  Depth = 2
  Ticks = {1, 2, 3, 4}
  Lots = {0, 1, 2}
INVARIANTS
  TypeOK
  BookValidates
PROPERTY
  ImplementsTopN
