SPECIFICATION TerminalSpec
CONSTANTS
  MaxLines = 2
  MaxBuffer = 1
  MaxPolls = 1
INVARIANTS
  OutputComplete
PROPERTIES
  StopKills
  LeashKills
  DeathIsReported
CHECK_DEADLOCK FALSE
