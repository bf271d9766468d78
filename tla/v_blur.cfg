SPECIFICATION RendersSpec
CONSTANTS
  Width = 4
  Tile = 3
  TileStep = 2
  MaxBoxes = 2
  MaxJobs = 1
INVARIANTS ConfidentAreHidden
CHECK_DEADLOCK FALSE
