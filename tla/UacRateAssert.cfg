\* Microphone and two rates, with the sizes of the stm32f4 board: the second set
\* of requests meets the first one.
CONSTANTS
  BufferCount = 5
  Depth = 5
  Devices <- AnyMicrophone
SPECIFICATION SafeSpec
INVARIANT RecordRequestAccepted
