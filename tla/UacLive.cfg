\* A speaker with two rates under the timing of the bus.
CONSTANTS
  BufferCount = 3
  Depth = 3
  Devices <- TimedSpeaker
SPECIFICATION Spec
PROPERTIES HostNotBlocked LinkLedFollows RateFollowsHost
