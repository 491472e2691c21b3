SPECIFICATION Spec
CONSTANTS
  Pixels <- Row2
  Values = {v1, v2}
  Extents <- Span
  Screen <- Row2
  Regions <- Pieces2
  Requests <- WholeOrFirst2
  Shifts <- One
  Displacements <- UpTo1
  Policies = {FALSE, TRUE}
  Combines = {FALSE}
  Holds = {"none", "silent"}
SYMMETRY Permuted
CONSTRAINT UntilExcused
INVARIANTS MirrorUnlessExcused LossIsRemembered RefreshIsDue
