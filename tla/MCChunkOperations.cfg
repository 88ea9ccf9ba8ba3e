SPECIFICATION Spec
CONSTANTS
  PAGE_SIZE = 2
  NPTENTRIES = 2
  MaxPage = 4
  Frames = 4
  Size = {3}
  Count = {1, 2}
  Perm <- SomePerms
INVARIANTS
  FramesAccounted
  CutMovesPages
  DestinationShowsSource
  CountsExact
