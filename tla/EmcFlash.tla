------------------------------ MODULE EmcFlash ------------------------------
(***************************************************************************)
(* lpc43xx_default/emc_flash/main.c: a client of the Flash driver.  It     *)
(* erases a sector, writes a pattern, reads it back and compares; then it  *)
(* does the same with a block.  The LED is lit when a test has failed.     *)
(***************************************************************************)
EXTENDS FlashCfi

CONSTANTS
  TestOffset,    \* MEMORY_OFFSET
  TestLength,    \* words of the smaller of BUFFER_SIZE and the region
  Pattern        \* the words that are written

EmcAssumption ==
  /\ TestOffset \in Nat /\ TestOffset % Block = 0
  /\ TestLength \in 1..Sector /\ TestOffset + TestLength < Size
  /\ Pattern \in [1..TestLength -> Words]

VARIABLES
  pc,
  region,        \* which erase is tested: "sector", then "block"
  led

client == <<pc, region, led>>

Goto(step) == pc' = step /\ UNCHANGED <<region, led>>

TestErase ==
  /\ pc = "erase"
  /\ IF region = "sector" THEN SetSectorErase(TestOffset) ELSE SetBlockErase(TestOffset)
  /\ Goto("seek")

TestSeek ==
  /\ pc \in {"seek", "rewind"}
  /\ SetPosition(TestOffset)
  /\ Goto(IF pc = "seek" THEN "write" ELSE "read")

TestWrite ==
  /\ pc = "write"
  /\ Write(Pattern)
  /\ Goto("written")

TestRead ==
  /\ pc = "read"
  /\ Read(TestLength)
  /\ Goto("compare")

(* The end of memoryTestSequence(), which main() then calls for a block.   *)
TestEnds(ok) ==
  /\ led' = (led \/ ~ok)
  /\ IF region = "sector" THEN region' = "block" /\ pc' = "erase"
                          ELSE pc' = "stop" /\ UNCHANGED region
  /\ UNCHANGED vars

(* The position must have moved by the length of the request.              *)
TestWritten ==
  /\ pc = "written" /\ op = Idle
  /\ IF offset = TestOffset + TestLength
       THEN Goto("rewind") /\ UNCHANGED vars
       ELSE TestEnds(FALSE)

TestCompare ==
  /\ pc = "compare"
  /\ TestEnds(/\ offset = TestOffset + TestLength
              /\ \A k \in 1..TestLength : mem[TestOffset + k - 1] = Pattern[k])

Test == TestErase \/ TestSeek \/ TestWrite \/ TestRead \/ TestWritten \/ TestCompare
Driver == Busy /\ UNCHANGED client

TestInit == Init /\ pc = "erase" /\ region = "sector" /\ led = FALSE

TestSpec == TestInit /\ [][Test \/ Driver]_<<vars, client>>

-----------------------------------------------------------------------------
(* A good chip passes, whatever it held before: both regions are erased    *)
(* before they are programmed, and the commands do not disturb each other. *)
GoodChipPasses == ~led
=============================================================================
