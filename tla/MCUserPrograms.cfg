SPECIFICATION UserSpec
CHECK_DEADLOCK FALSE
CONSTANTS
  k1 = k1
  k2 = k2
  u1 = u1
  u2 = u2
  u3 = u3
  Process = {m, k1, k2, u1, u2, u3}
  Permits = {0}
  Sem <- Semaphore
  airMaster = m
  offices <- Offices
  finishedNames <- FinishedNames
  midMaster = m
  processA = k1
  processB = k2
  semMaster = m
  Slaves = {u1, u2, u3}
  arrMaster = m
  slave_qs = u1
  slave_ms = u2
  slave_stats = u3
  sizes = {2, 3, 4, 5}
INVARIANTS
  
  EveryCallAnsweredOnce
  
PROPERTY SemaphoreProgramsEnd
