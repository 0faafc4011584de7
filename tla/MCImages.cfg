SPECIFICATION ImageSpec
CONSTANTS
  Colors <- MCColors
  Runs <- MCRuns
  Width = 16
  Height = 4
  Grid = 2
  MaxChunks = 4
INVARIANT
  FontShowsImage
PROPERTY
  ImplementsPixelStream
CHECK_DEADLOCK FALSE
