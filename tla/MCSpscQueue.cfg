CONSTANTS
  Items = {a, b}
  Blank = Blank
  Capacity = 4
  MaxDropped = 2
SPECIFICATION Spec
INVARIANTS
  RaceFree
PROPERTY
  FifoSpec
