CONSTANTS
  Words <- MCWords
  MaxVersion = 4
  Cap = 2
  MaxLate = 2
  WindowAge = 2
  TickBits = 3
SPECIFICATION LoopSpec
INVARIANTS
  RaceFree
  NoTearing
  RateIsMeasured
PROPERTIES
  MailboxSpec
  ScreenKeepsUp
