SPECIFICATION Spec
CONSTANTS
  Thread = {1, 2}
  MaxLoad = 2
  MaxProbe = 3
INVARIANTS NothingLeft NothingUsedFreed
PROPERTY UnloadEnds
