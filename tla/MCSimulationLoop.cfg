CONSTANTS
  Vehicles <- MCVehicles
  Submissions <- MCSubmissions
  NextVehicle <- MCNextVehicle
  NextFlyByWire <- MCNextFlyByWire
  ControlEvery = 3
  MaxCatchUp = 2
  MaxPending = 1
SPECIFICATION FairSpec
CHECK_DEADLOCK FALSE
INVARIANTS
  TypeOK
  AtMostOneLive
  HoldersReady
  HonestView
  HeldIsCurrent
  ModesAgree
PROPERTY StopIsJoined
