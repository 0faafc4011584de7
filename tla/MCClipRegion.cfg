SPECIFICATION FairClipSpec
CONSTANTS
  Shapes <- MCShapes
  MaxRects = 4
INVARIANTS
  ClipTypeOK
  NoOverlap
PROPERTIES
  SearchEnds
  ImplementsPixelRegion
