SPECIFICATION ClipboardSpec
CONSTANTS
  Viewers = {v1}
  NoViewer = nobody
  Apps = {a1, a2}
  Texts = {t1, t2}
  NoText = notext
  Server = server
  CutBuffer = cutbuffer
  SyncCutBuffer = TRUE
  MaxRequests = 2
  MaxMessages = 1
SYMMETRY SameTextsAndApps
INVARIANT ViewersFollowSession
PROPERTY NoEcho
CHECK_DEADLOCK FALSE
