CONSTANTS
  ControlEvery = 2
  Holds <- MCHolds
  MaxCommands = 4
  MaxTicks = 7
  MaxThrusters = 1
  NameRoom = 1
  Directories <- MCDirectories
  Requests <- MCRequests
SPECIFICATION ProgSpec
CHECK_DEADLOCK FALSE
INVARIANTS
  EveryCommandCharged
  NeverSettlingPaysAll
  FleetIsSound
  AnswersTheRequest
PROPERTY HoldIsWhole
