SPECIFICATION InputSpec
CONSTANTS
  Viewers = {v1, v2, v3}
  Options <- FourServers
  MaxConnections = 2
  MaxFails = 2
  FailTimeout = 1
  Word = 8
  Passwords = {p1}
  NoPassword = none
  FilePassword = file
  WrongPassword = wrong
  MaxCounted = 5
  Buttons = {left}
  NoViewer = nobody
SYMMETRY SameViewers
INVARIANTS
  NeverSharedIsAlone
  PasswordAdmitsOnce
  BlockIsTimed
  IdleWhenAlone
  HolderIsConnected
  DragIsUninterrupted
PROPERTY NobodyIsDisplaced
CHECK_DEADLOCK FALSE
