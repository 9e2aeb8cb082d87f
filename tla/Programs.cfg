\* CAN: a free bus, and one that may stop taking messages.
CONSTANTS
  GroupSize = 3
  Timeout = 4
  Buffers = 2
\* Lengths 2 to 5 of a buffer of 6.
  CopyBuffer = 6
  CopyLevel = 2
\* Two streams, queues of two packets, reads of one.
  EchoStreams = 2
  EchoBuffers = 2
  EchoChunk = 1
\* Cards of two and three arenas, written and read.
  CardArena = 4
  CardSizes = {8, 12}
  CardWrites = TRUE
\* Two blocks of two sectors of one word of one bit.
  ChipBits = {0}
  ChipSize = 4
  ChipSector = 1
  ChipBlock = 2
  ChipMax = 3
\* Three blocks of one sector of two words of two bits.
  EmcBits = {0, 1}
  EmcSize = 6
  EmcSector = 2
  EmcBlock = 2
  EmcMax = 2
  EmcOffset = 2
  EmcLength = 2
  EmcPattern <- Halves
\* Both speeds of the bus, frames and samples in step; a handler may take half a
\* frame of high speed, and two edges in succession may be lost.
  SofExpected = 16
  MwsPeriod = 4
  SofWrap = 50
  SofLatency = 1
  SofMaxLost = 2
  SofMaxHalted = 1
\* An event less than two converters need.
  SctConfigs <- FourTimers
  SctEvents = {"EV0", "EV1", "EV2", "EV3", "EV4"}
\* Receive and transmit queues of the same length, as on the boards.
  SerialRxLength = 3
  SerialTxLength = 3
  SerialChunk = 3
\* A memory of two chunks; a run sends more than the buffers hold.
  EthChunks = 2
  EthRxBuffers = 2
  EthTxBuffers = 1
\* Two frames of high speed in a millisecond, a ratio every third one.
  FbSlots = 2
  FbInterval = 3
  FbWrap = 12
SPECIFICATION SpecAll
INVARIANTS
  AllTypes PeriodKept RoundPasses DarkMeansCopied EchoInOrder WakeupKept
  InsideCard OneTransfer PromiseKept GoodChipPasses
  FeedbackRight VerdictRight ReservedByOwners UnitAlive
PROPERTIES GroupsComplete NextRound Served CardsFollowed
