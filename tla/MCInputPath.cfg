CONSTANTS
  Axes <- MCAxes
  Held <- MCHeld
  Toggles <- MCToggles
  Positions <- MCPositions
  Epsilon = 2
  Deadzone = 2
  Arms <- MCArms
  Room = 2
  MaxMoves = 3
SPECIFICATION FairSpec
INVARIANTS
  Rebuilt
  TogglesAreEdges
  LettingGoIsRest
PROPERTY RestingPosition
