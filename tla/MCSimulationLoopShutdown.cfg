CONSTANTS
  Vehicles <- MCVehicles
  Submissions <- MCSubmissions
  NextVehicle <- MCNextVehicle
  NextFlyByWire <- MCNextFlyByWire
  ControlEvery = 2
  MaxCatchUp = 1
  MaxPending = 1
SPECIFICATION Spec
CHECK_DEADLOCK FALSE
PROPERTY ShutdownOnlyAfterInit
