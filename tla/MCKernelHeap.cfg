SPECIFICATION Spec
CONSTANTS
  HeapPages = 5
  Frames = 4
  MAX_MEM_BLOCK_CNT = 5
  Sizes = {1, 2, 3}
INVARIANTS
  HeapIsTiled
  DescriptorsSuffice
  MappingMatchesLists
PROPERTY AllocationsStayPut
