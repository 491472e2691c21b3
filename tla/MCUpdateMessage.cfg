SPECIFICATION Spec
CONSTANTS
  Width = 6
  Height = 8
  Grids <- TwoGrids
  NumThreads = 2
  MaxRectSize = 12
  MaxRectWidth = 4
  MinSplitSize = 8
  MinSolidSize = 6
  TileSize = 2
  Sought <- MCSought
  Copies <- MCCopies
  Messages <- MCMessages
INVARIANTS
  FitsBuffer
  SolidIsSolid
  CoveredOnce
  PictureIsUpdated
  AnnouncedIsSent
PROPERTY CopiesAtOnce
CHECK_DEADLOCK FALSE
