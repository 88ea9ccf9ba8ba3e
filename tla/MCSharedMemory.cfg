SPECIFICATION Spec
CONSTANTS
  Env = {e1, e2}
  Name = {x, y}
  Size = {1, 2}
  HeapSize = 3
  MAX_SHARES = 2
  Frames = 3
  NONE = none
SYMMETRY Symmetry
CHECK_DEADLOCK FALSE
INVARIANTS
  MappingsAgree
  
  BlocksDisjoint
