\* mmcsd_spi of the stm32f1 board.
CONSTANTS
  Code <- FailedCode
  Starts <- FailedStarts
  Sharing <- KnownSharing
  MaxResets = 1
SPECIFICATION SafeSpec
INVARIANT AssertionsHold
