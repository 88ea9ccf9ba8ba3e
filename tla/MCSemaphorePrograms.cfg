SPECIFICATION ProgramSpec
CONSTANTS
  Env = {m, c1, c2, c3}
  NULL = NULL
  Name = {shop, depend}
  MAX_SEMAPHORES = 2
  MaxValue = 3
  master = m
  shopCapacity = 2
  shop = shop
  depend = depend
INVARIANTS
  CapacityRespected
  MasterWaitsForAll
PROPERTY EverybodyExits
