SPECIFICATION Spec
CONSTANTS
  Pixels <- Row3
  Values = {0, 1}
  Extents <- Span
  Screens <- Screens3
  Regions <- Ends3
  Requests <- Requests3
  CURegions <- Whole3
  Shifts <- Two
  Displacements <- Zero2
  Blocks <- Single
  Black = 0
  FirstContents = {0}
  Combines = {TRUE}
  AlwaysOn = FALSE
CONSTRAINT UntilExcused
INVARIANTS CopyOfRemote MirrorUnlessExcused
