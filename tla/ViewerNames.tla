---------------------------- MODULE ViewerNames ----------------------------
(* The viewers, for the modules that model what they share.  A viewer that  *)
(* comes back after it has left is the same viewer.                         *)
CONSTANTS
  Viewers,  \* the viewers that may connect, each once at a time
  NoViewer

ASSUME NoViewerAssumption == NoViewer \notin Viewers
=============================================================================
