CONSTANTS
  Handlers = {h1, h2}
  Forms <- MCForms
  Radix = 10
  Limit = 10
  MaxIndex = 2
  MaxRestarts = 1
  MaxFaults = 0
SPECIFICATION Spec
CHECK_DEADLOCK FALSE
INVARIANT WorkerOutlivesSubmission
