CONSTANTS
  Handlers = {h1}
  Forms <- MCForms
  Radix = 2
  Limit = 4
  MaxIndex = 4
  MaxRestarts = 1
  MaxFaults = 0
SPECIFICATION Spec
CHECK_DEADLOCK FALSE
PROPERTY NeverReplaced
