\* Speaker: the main loop marks the playback as running after it has ended.
CONSTANTS
  BufferCount = 5
  Depth = 5
  Devices <- AnySpeaker
SPECIFICATION SafeSpec
INVARIANT DrainedMeansStopped
