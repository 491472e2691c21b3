SPECIFICATION FairSpec
CONSTANTS
  Windows = {1}
  InitialWindow = 1
  UpdateSizes = {1}
  DataSizes = {1}
  UserActions = {"refresh", "reconfigure"}
  FenceSize = 0
  Word = 3
  MaxUnacked = 1
PROPERTY UpdatesFlow
