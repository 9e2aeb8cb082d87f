\* i2c of the bl602 board: it stops in its set-up.
CONSTANTS
  Code <- StuckCode
  Starts <- StuckStarts
  Sharing <- KnownSharing
  MaxResets = 1
SPECIFICATION Spec
PROPERTY BootEnds
CHECK_DEADLOCK FALSE
