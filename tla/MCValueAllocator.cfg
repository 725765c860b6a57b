SPECIFICATION Spec
CONSTANTS
  Lowest = 1
  Highest = 8
INVARIANTS
  Separated
PROPERTIES
  ImplementsIdPool
