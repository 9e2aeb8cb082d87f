------------------------------ MODULE Programs ------------------------------
(* The programs of one loop and the drivers, side by side.  A behaviour is *)
(* one of the program which names; the others stay in an initial state of  *)
(* theirs.  The variables and constants of CanNode have their own names    *)
(* here, those of the other modules one that tells them apart.  Where a    *)
(* component has theorems, it is the module of its proofs that is          *)
(* instantiated, so that ProgramsProofs may cite them.                     *)
EXTENDS CanNode, Sequences

CONSTANTS
  CopyBuffer, CopyLevel,                               \* DmaMemCopy
  EchoStreams, EchoBuffers, EchoChunk,                 \* CdcComposite
  CardArena, CardSizes, CardWrites,                    \* CardTest
  ChipBits, ChipSize, ChipSector, ChipBlock, ChipMax,  \* FlashCfi
  EmcBits, EmcSize, EmcSector, EmcBlock, EmcMax,       \* EmcFlash
  EmcOffset, EmcLength, EmcPattern,
  SofExpected, MwsPeriod, SofWrap, SofLatency, SofMaxLost, SofMaxHalted,   \* SctSof
  SctConfigs, SctEvents,                               \* SctResources
  SerialRxLength, SerialTxLength, SerialChunk,         \* SerialEcho
  EthChunks, EthRxBuffers, EthTxBuffers,               \* EthRaw
  FbSlots, FbInterval, FbWrap                          \* UacFeedback

VARIABLES
  which,
  length, dst, size, copied, dmaEvent, timEvent, led, copyPc, faults,
  rx, tx, event, sent, got, echoPc, cur, hand,
  inserted, live, busy, result, timer, done, watched, mounted, capacity,
  position, cardPc, test, failed, cardFaults,
  mem, stage, offset, op, cycles, testPc, region, testLed,
  highSpeed, phase, counter, running, flags, capture, duration, previous,
  valid, evflag, irq, age, lost, sofPc, halted,
  sctStage, held, taken, routes,
  slot, unitLive, unitEvent, card, attached, unitFailed, unitBusy, cdLed, unitPc,
  serialRx, serialTx, serialEvent, serialSent, serialGot, serialPc,
  phy, ethRx, ethTx, ethEvent, heard, unheard, arena, ethPc, chunk,
  script, next, received, count, verdict, disturbed,
  bus, frame, startOfFrame, rateFeedback, updated, measured, since, last, fbPc

canVars == <<vars, busFree>>
copyVars == <<length, dst, size, copied, dmaEvent, timEvent, led, copyPc, faults>>
echoVars == <<rx, tx, event, sent, got, echoPc, cur, hand>>
cardVars == <<inserted, live, busy, result, timer, done, watched, mounted,
              capacity, position, cardPc, test, failed, cardFaults>>
chipVars == <<mem, stage, offset, op, cycles>>
testVars == <<testPc, region, testLed>>
sofVars == <<highSpeed, phase, counter, running, flags, capture, duration,
             previous, valid, evflag, irq, age, lost, sofPc, halted>>
sctVars == <<sctStage, held, taken, routes>>
readerVars == <<slot, unitLive, unitEvent, card, attached, unitFailed, unitBusy,
                cdLed, unitPc>>
serialVars == <<serialRx, serialTx, serialEvent, serialSent, serialGot, serialPc>>
ethVars == <<phy, ethRx, ethTx, ethEvent, heard, unheard, arena, ethPc, chunk,
             script, next, received, count, verdict, disturbed>>
fbVars == <<bus, frame, startOfFrame, rateFeedback, updated, measured, since, last, fbPc>>
allVars == <<which, canVars, copyVars, echoVars, cardVars, chipVars, testVars,
             sofVars, sctVars, readerVars, serialVars, ethVars, fbVars>>

Copy == INSTANCE DmaMemCopy WITH
  BufferLength <- CopyBuffer, BufferLevel <- CopyLevel, pc <- copyPc

Echo == INSTANCE CdcComposite WITH
  StreamCount <- EchoStreams, Buffers <- EchoBuffers, Chunk <- EchoChunk, pc <- echoPc

Card == INSTANCE CardTest WITH
  Arena <- CardArena, Cards <- CardSizes, WriteMode <- CardWrites, pc <- cardPc,
  faults <- cardFaults

(* A chip without the test: the names of the test have no part in it.      *)
Chip == INSTANCE FlashProofs WITH
  Bits <- ChipBits, Size <- ChipSize, Sector <- ChipSector, Block <- ChipBlock,
  MaxLength <- ChipMax, TestOffset <- EmcOffset, TestLength <- EmcLength,
  Pattern <- EmcPattern, pc <- testPc, led <- testLed

Emc == INSTANCE FlashProofs WITH
  Bits <- EmcBits, Size <- EmcSize, Sector <- EmcSector, Block <- EmcBlock,
  MaxLength <- EmcMax, TestOffset <- EmcOffset, TestLength <- EmcLength,
  Pattern <- EmcPattern, pc <- testPc, led <- testLed

Sof == INSTANCE SctSofProofs WITH
  Wrap <- SofWrap, Latency <- SofLatency, MaxLost <- SofMaxLost,
  MaxHalted <- SofMaxHalted, pc <- sofPc

Sct == INSTANCE SctResources WITH
  Configs <- SctConfigs, Events <- SctEvents, stage <- sctStage

Reader == INSTANCE CardReader WITH
  live <- unitLive, event <- unitEvent, failed <- unitFailed, busy <- unitBusy,
  pc <- unitPc

Serial == INSTANCE SerialEcho WITH
  RxLength <- SerialRxLength, TxLength <- SerialTxLength, Chunk <- SerialChunk,
  rx <- serialRx, tx <- serialTx, event <- serialEvent, sent <- serialSent,
  got <- serialGot, pc <- serialPc

Eth == INSTANCE EthRawProofs WITH
  ChunkCount <- EthChunks, RxBuffers <- EthRxBuffers, TxBuffers <- EthTxBuffers,
  rx <- ethRx, tx <- ethTx, event <- ethEvent, pc <- ethPc

Feedback == INSTANCE UacFeedback WITH
  Slots <- FbSlots, Interval <- FbInterval, Wrap <- FbWrap,
  highSpeed <- bus, pc <- fbPc

ASSUME ProgramAssumption ==
  /\ Copy!CopyAssumption /\ Echo!CompositeAssumption /\ Card!CardAssumption
  /\ Chip!FlashAssumption /\ Emc!FlashAssumption /\ Emc!EmcAssumption
  /\ Sof!SofAssumption /\ Sct!ResourcesAssumption
  /\ Serial!SerialAssumption /\ Eth!EthAssumption /\ Feedback!FeedbackAssumption

InitAll ==
  /\ Init /\ Copy!Init /\ Echo!Init /\ Card!Init
  /\ which \in {"can", "copy", "echo", "card", "chip", "emc", "sof", "sct", "reader",
               "serial", "eth", "feedback"}
  /\ which # "can" => ~busFree
  /\ which # "copy" => ~faults
  /\ Sof!Init /\ Sct!Init /\ Reader!Init /\ Serial!Init /\ Eth!Init
  /\ Feedback!Init
  /\ which # "sof" => ~highSpeed /\ phase["i2s"] = 1
  /\ which # "reader" => slot = "empty"
  /\ which # "eth" => phy = "down"
  /\ which # "feedback" => ~bus
  /\ which # "card" => ~cardFaults /\ inserted = 0
  /\ IF which = "chip" THEN Chip!Init ELSE Emc!Init
  /\ which \notin {"chip", "emc"} => \A a \in Emc!Addresses : mem[a] = {}
  /\ testPc = "erase" /\ region = "sector" /\ testLed = FALSE

(* Program p makes a step, and the variables of the others stay.           *)
Keep(p, programs, v) == IF p \in programs THEN TRUE ELSE UNCHANGED v
Runs(p) ==
  /\ which = p
  /\ Keep(p, {"can"}, canVars) /\ Keep(p, {"copy"}, copyVars)
  /\ Keep(p, {"echo"}, echoVars) /\ Keep(p, {"card"}, cardVars)
  /\ UNCHANGED <<which, busFree, faults, cardFaults, highSpeed>>
  /\ Keep(p, {"chip", "emc"}, chipVars) /\ Keep(p, {"emc"}, testVars)
  /\ Keep(p, {"sof"}, sofVars) /\ Keep(p, {"sct"}, sctVars)
  /\ Keep(p, {"reader"}, readerVars) /\ Keep(p, {"serial"}, serialVars)
  /\ Keep(p, {"eth"}, ethVars) /\ Keep(p, {"feedback"}, fbVars)

CanStep    == Runs("can") /\ Next
CopyStep   == Runs("copy") /\ Copy!Next
EchoStep   == Runs("echo") /\ Echo!Next
CardStep   == Runs("card") /\ Card!Next
ChipStep   == Runs("chip") /\ Chip!Next
EmcStep    == Runs("emc") /\ (Emc!Test \/ Emc!Driver)
SofStep    == Runs("sof") /\ Sof!Next
SctStep    == Runs("sct") /\ (Sct!Next \/ Sct!Stopped)
ReaderStep == Runs("reader") /\ Reader!Next
SerialStep == Runs("serial") /\ Serial!Next
EthStep    == Runs("eth") /\ Eth!Next
FeedbackStep == Runs("feedback") /\ Feedback!Next

(* The program of the Flash test comes to its end.                         *)
EmcStopped == which = "emc" /\ testPc = "stop" /\ UNCHANGED allVars

NextAll ==
  \/ CanStep \/ CopyStep \/ EchoStep \/ CardStep \/ ChipStep \/ EmcStep \/ EmcStopped
  \/ SofStep \/ SctStep \/ ReaderStep \/ SerialStep \/ EthStep \/ FeedbackStep

(* The fairness of each program, when it is the one that runs.             *)
AllFair ==
  /\ WF_Copy!vars(which = "copy" /\ Copy!Main)
  /\ WF_Copy!vars(which = "copy" /\ Copy!DmaCopy)
  /\ WF_Copy!vars(which = "copy" /\ Copy!DmaEnd)
  /\ WF_Copy!vars(which = "copy" /\ Copy!TimerOverflow)
  /\ WF_Echo!vars(which = "echo" /\ Echo!Main)
  /\ \A s \in Echo!Streams : WF_Echo!vars(which = "echo" /\ Echo!HostReceive(s))
  /\ WF_Card!vars(which = "card" /\ Card!Main)
  /\ WF_Card!vars(which = "card" /\ Card!TimerOverflow)
  /\ WF_Card!vars(which = "card" /\ Card!TransferEnds)
  /\ WF_Reader!vars(which = "reader" /\ Reader!Main)
  /\ WF_Reader!vars(which = "reader" /\ Reader!TimerOverflow)
  /\ WF_Reader!vars(which = "reader" /\ Reader!HostRequest)
  /\ WF_Reader!vars(which = "reader" /\ Reader!TransferEnds)
  /\ WF_Eth!vars(which = "eth" /\ Eth!Main)
  /\ WF_Eth!vars(which = "eth" /\ Eth!Transmitted)
  /\ WF_Eth!vars(which = "eth" /\ Eth!SendChunk)
  /\ WF_Eth!vars(which = "eth" /\ Eth!SendRequest)
  /\ WF_Eth!vars(which = "eth" /\ Eth!Compare)
  /\ WF_Feedback!vars(which = "feedback" /\ Feedback!Main)
  /\ WF_Feedback!vars(which = "feedback" /\ Feedback!Frame)

SpecAll == InitAll /\ [][NextAll]_allVars /\ AllFair

-----------------------------------------------------------------------------
(* The types of the programs with queues or data.                         *)
AllTypes ==
  /\ TypeOK /\ Copy!TypeOK /\ Echo!TypeOK /\ Card!TypeOK
  /\ IF which = "chip" THEN Chip!TypeOK ELSE Emc!TypeOK
  /\ Serial!TypeOK /\ Eth!TypeOK

(* DmaMemCopy: without faults every round passes its own check.            *)
RoundPasses == Copy!RoundPasses

(* DmaMemCopy: a dark LED is never a false verdict.                        *)
DarkMeansCopied == Copy!DarkMeansCopied

(* DmaMemCopy: no fault of the channel stops the program.                  *)
NextRound == which = "copy" => Copy!NextRound

(* CdcComposite and SerialEcho: each stream sends back all that it         *)
(* received, in order.                                                     *)
EchoInOrder == Echo!EchoInOrder /\ Serial!EchoInOrder

(* CdcComposite, SerialEcho and EthRaw: no packet, character or frame      *)
(* waits with the event that announced it cleared.                         *)
WakeupKept == Echo!NoLostWakeup /\ Serial!NoLostWakeup /\ Eth!NoLostWakeup

(* CdcComposite, EthRaw and UacFeedback: every packet, every run of the    *)
(* peer and every host that waits for a ratio is answered in the end.      *)
Served ==
  /\ which = "echo" => Echo!Served
  /\ which = "eth" => Eth!Answered
  /\ which = "feedback" => Feedback!FeedbackSent

(* EthRaw: the verdict of the peer is about what the board stores.         *)
VerdictRight == Eth!VerdictRight

(* CardTest: no transfer reaches past the end of the card it is made on.   *)
InsideCard == Card!InsideCard

(* CardTest: a transfer and its callback end before the function that      *)
(* waits for them.                                                         *)
OneTransfer == Card!OneTransfer

(* CardTest and CardReader: a card that stays is tested again and again    *)
(* everywhere, or served to the host, and none stays mounted or attached   *)
(* in an empty slot.                                                       *)
CardsFollowed ==
  /\ which = "card" => Card!CardFound /\ Card!SlotEmptied
  /\ which = "reader" => Reader!ReaderFollows

(* FlashCfi: every operation has its whole effect and no other, and leaves *)
(* the position inside the chip.                                           *)
PromiseKept == which = "chip" => Chip!PromiseKept

(* EmcFlash: a good chip passes both sequences whatever it held before.    *)
GoodChipPasses == Emc!GoodChipPasses

(* SctSof and UacFeedback: a duration is one period and one more for each  *)
(* edge lost, never a part of one or a time over which the timer was       *)
(* disabled, the ratio of them never divides by zero and is asked for at   *)
(* equal distances.                                                        *)
FeedbackRight ==
  Sof!DurationsWhole /\ Sof!RatioDefined /\ Feedback!FeedbackRegular

(* SctResources: what is reserved or routed has one owner.                 *)
ReservedByOwners == Sct!ReservedByOwners

(* CardReader: the driver never uses a card that was freed.                *)
UnitAlive == Reader!UnitAlive
=============================================================================
