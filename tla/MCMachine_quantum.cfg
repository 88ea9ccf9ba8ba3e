SPECIFICATION MachineSpec
CHECK_DEADLOCK FALSE
CONSTANTS
  CONSBUFSIZE = 3
  CRT_ROWS = 2
  CRT_COLS = 3
  BUFLEN = 4
  Keys = {"LSHIFT", "RCTL", "CAPS", "LALT", "DELETE", "A", "ENTER", "BACKSPACE"}
  SerialChars = {"b"}
  Outputs <- MCOutputs
  PortSize = 3
  MaxEvents = 4
  TIMER_FREQ = 1193182
  Quantums = {53}
  Remaining = {0, 5, 601, 9001}
  MaxTraps = 3
  PAGE_SIZE = 4
  NPT = 4
  NDIR = 34
  KERNEL_DIR = 20
  Memories = {240, 272, 300}
  Kernels = {29, 34, 40}
  PHYS_IO_MEM = 16
  PHYS_EXTENDED_MEM = 20
  KERNEL_STACK_SIZE = 8
  FRAME_INFO_SIZE = 1
  DISK_ARRAY_SIZE = 9
  ENVS_SIZE = 9
  FileEnvs = {1,2}
  LastFilePage = 2
  PAGES_PER_FILE = 4
  PAGES_PER_TABLE = 2
  FileValues = {"zero","x"}
  ZeroPage = "zero"
  KHeapPages = 4
  Names <- MCNames
  NUL = "NUL"
  Letters = {"r","n","all","?"}
  Lines <- MCLines
  Answers <- MCAnswers
  MAX_ARGUMENTS = 5
  PWS_MAX_SIZE = 4
  DEFAULT_PERCENT = 10
  UINT32 = 1000000
  MaxLoaded = 2
  MaxCommands = 3
  PageEnvs = {"e1"}
  KernelDir = "kernel"
  UserPageNos = {0,1,2,3}
  USER_TOP_PAGE = 3
  WINDOW = 8
  ENTRIES = 2
  PageFrames = 6
  MaxPageCalls = 5
  HEAP_PAGES = 131072
  PAGES_IN_TABLE = 1024
  NODES_IN_PAGE = 256
  INTS_IN_PAGE = 3
  SortSizes = {0,2,3,4,5}
  Scenario <- MCScenario
  EF_LEAKAGE = 8
  EF_NOLEAKAGE = 9
  MaxRounds = 5
INVARIANT QuantumAsAsked
