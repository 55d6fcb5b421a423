CONSTANTS
  MinThrust = 2
  MaxThrust = 5
  IgnitionTicks = 3
  RampUp = 2
  RampDown = 1
  Threads = {"t1", "t2"}
  Jobs <- MCJobs
  Controllers = {"seek", "spinburn"}
  Layered = {"seek"}
  Asks = {0, 1, 4, 6}
  ControlEvery = 2
  MaxTicks = 8
  Bounds = 16
SPECIFICATION Spec
CHECK_DEADLOCK FALSE
INVARIANTS
  SameAsAlone
  RestsAsAsked
PROPERTY ActuatorLimits
