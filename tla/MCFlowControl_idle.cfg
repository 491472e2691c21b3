SPECIFICATION Spec
CONSTANTS
  Windows = {2, 3}
  InitialWindow = 2
  UpdateSizes = {3}
  DataSizes = {3}
  UserActions = {"input", "refresh", "reconfigure"}
  FenceSize = 1
  Word = 16
  MaxUnacked = 3
INVARIANT IdleLinkReopens
