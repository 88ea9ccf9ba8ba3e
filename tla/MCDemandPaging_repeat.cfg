SPECIFICATION Spec
CONSTANTS
  Env = {e1}
  ProgramPages = {1}
  HeapPages = {2, 3}
  StackPages = {6}
  MaxPage = 7
  NPTENTRIES = 2
  page_WS_max_size = 3
  Frames = 6
  DiskFrames = 3
  Value = {zero, one}
  ZERO = zero
  NONE = none
  MaxRepeats = 4
CHECK_DEADLOCK FALSE
INVARIANT HandledFaultsDoNotKill
