SPECIFICATION Spec
CONSTANTS
  Env = {e1, e2, e3}
  NULL = NULL
  Name = {n1}
  MAX_SEMAPHORES = 2
  MaxValue = 1
SYMMETRY EnvSymmetry
INVARIANTS
  TypeOK
  
  StatusTellsPlace
  ValueCountsWaiters
  PromptIsIdle
PROPERTIES
  ImplementsCountingSemaphore
