\* A microphone with one rate and a speaker with two, under any timing, with the
\* sizes of the stm32f4 board.
CONSTANTS
  BufferCount = 5
  Depth = 5
  Devices <- SafeDevices
SPECIFICATION SafeSpec
INVARIANTS TypeOK MicOwnership RecorderFed SpkOwnership NoLostWakeup
