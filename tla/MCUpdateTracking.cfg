SPECIFICATION FairSpec
CONSTANTS
  Pixels <- Row
  Values = {0, 1}
  Extents <- Span
  Clients = {c1}
  Screens <- WholeRow
  Regions <- Pieces
  Requests <- WholeOrPart
  Shifts <- Either
  Displacements <- Either0
  Holds = {"none", "congested"}
  DeferUpdates = TRUE
INVARIANTS MirrorUnlessMisled LeftoverOffsetIsPending
PROPERTY EventuallySynced
