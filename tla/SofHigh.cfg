\* A bus of either speed: a frame that is lost makes a high-speed bus look like a
\* full-speed one.
CONSTANTS
  SofExpected = 16
  MwsPeriod = 4
  Wrap = 50
  Latency = 1
  MaxLost = 2
  MaxHalted = 1
SPECIFICATION Spec
INVARIANT HighSpeedTold
