\* The sizes of the lpc17xx board: the streams hold two requests.
CONSTANTS
  BufferCount = 5
  Depth = 2
SPECIFICATION SafeSpec
INVARIANT EnqueueAccepted
