SPECIFICATION DesktopSpec
CONSTANTS
  Viewers = {v1}
  NoViewer = none
  MaxWidth = 2
  MaxOutputs = 2
  Widths = {1, 3}
  Requests <- TwoScreens
  RandomIDs <- OneRandomID
  Geometries <- Narrow
  Capabilities <- SomeExtension
INVARIANTS UpdatesFit LayoutKnown
PROPERTY ToldLayoutFits
