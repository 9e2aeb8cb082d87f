------------------------------ MODULE FlashCfi ------------------------------
(***************************************************************************)
(* lpc43xx_default/shared/flash_cfi.c: the driver of a parallel NOR Flash. *)
(* Every operation is a series of bus cycles that the chip must decode; a  *)
(* word holds the set of bits that are programmed, {} when erased, and an  *)
(* address is that of a word.  Delays cover the time the chip is busy.     *)
(***************************************************************************)
EXTENDS Naturals, Sequences

CONSTANTS
  Bits,            \* bits of a word
  Size,            \* words of the chip, interface->size / 2
  Sector, Block,   \* SECTOR_SIZE and BLOCK_SIZE, in words
  MaxLength        \* bound on the words of one read or write request

FlashAssumption ==
  /\ {Size, Sector, Block, MaxLength} \subseteq Nat \ {0}
  /\ Block % Sector = 0 /\ Size % Block = 0

Addresses == 0 .. Size - 1
Words == SUBSET Bits

VARIABLES
  mem, stage,      \* the chip: its words and the cycles it has decoded
  offset,          \* interface->offset
  op,              \* the operation in progress, [kind |-> "none"] if there is none
  cycles           \* bus cycles the operation has not made yet

vars == <<mem, stage, offset, op, cycles>>

-----------------------------------------------------------------------------
(* The chip.  A cycle is an address and a value.  The addresses 5555 and   *)
(* 2AAA of the unlock cycles are outside the words of the model.           *)

Unlock == LET x5555 == Size  x2AAA == Size + 1 IN <<<<x5555, "AA">>, <<x2AAA, "55">>>>
Command(c) == Unlock \o <<<<Unlock[1][1], c>>>>

(* What the chip does at the cycle that completes a command.               *)
Erased(a, n) ==
  [b \in Addresses |-> IF b \div n = a \div n THEN {} ELSE mem[b]]

Decode(a, v) ==
  LET seen == Append(stage, <<a, v>>)
      prefix(s) == Len(seen) <= Len(s) /\ seen = SubSeq(s, 1, Len(seen))
      erase == Command("80") \o Unlock
  IN IF stage = Command("A0")
       THEN mem' = [mem EXCEPT ![a] = @ \cup v] /\ stage' = <<>>
     ELSE IF stage = erase /\ v = "30"
       THEN mem' = Erased(a, Sector) /\ stage' = <<>>
     ELSE IF stage = erase /\ v = "50"
       THEN mem' = Erased(a, Block) /\ stage' = <<>>
     ELSE /\ UNCHANGED mem
          /\ stage' = IF prefix(Command("A0")) \/ prefix(erase) THEN seen ELSE <<>>

-----------------------------------------------------------------------------
(* The command sequences                                                   *)

EraseBlock(a) == Command("80") \o Unlock \o <<<<a, "50">>>>

EraseSectorLocked(a) == Command("80") \o <<<<a, "30">>>>   \* mutation: not unlocked
EraseSector(a) == Command("80") \o Unlock \o <<<<a, "30">>>>

WriteWord(a, w) == Command("A0") \o <<<<a, w>>>>

-----------------------------------------------------------------------------
(* The interface                                                           *)

Idle == [kind |-> "none"]

Init ==
  /\ mem \in [Addresses -> Words] /\ stage = <<>>
  /\ offset = 0
  /\ op = Idle /\ cycles = <<>>

Start(kind, at, words, first) ==
  /\ op = Idle
  /\ op' = [kind |-> kind, at |-> at, words |-> words, next |-> 0, before |-> mem]
  /\ cycles' = first
  /\ UNCHANGED <<mem, stage, offset>>

(* IF_FLASH_ERASE_SECTOR and IF_FLASH_ERASE_BLOCK refuse a position that   *)
(* is outside the chip or not that of a region.                            *)
SetSectorErase(p) ==
  p < Size /\ p % Sector = 0 /\ Start("sector", p, <<>>, EraseSector(p))

SetBlockErase(p) ==
  p < Size /\ p % Block = 0 /\ Start("block", p, <<>>, EraseBlock(p))

(* IF_POSITION                                                             *)
SetPosition(p) ==
  /\ op = Idle
  /\ p < Size
  /\ offset' = p
  /\ UNCHANGED <<mem, stage, op, cycles>>

Clamped(n) == IF offset + n > Size THEN Size - offset ELSE n

Advanced(n) == IF offset + n = Size THEN 0 ELSE offset + n

(* interfaceRead(): the position moves, the chip is not commanded.         *)
Read(n) ==
  /\ op = Idle
  /\ offset' = Advanced(Clamped(n))
  /\ UNCHANGED <<mem, stage, op, cycles>>

(* interfaceWrite(): one command per word.                                 *)
Write(words) ==
  Start("write", offset, SubSeq(words, 1, Clamped(Len(words))), <<>>)

WriteNext ==
  /\ op.kind = "write" /\ cycles = <<>>
  /\ op.next < Len(op.words)
  /\ cycles' = WriteWord(offset + op.next, op.words[op.next + 1])
  /\ op' = [op EXCEPT !.next = @ + 1]
  /\ UNCHANGED <<mem, stage, offset>>

BusCycle ==
  /\ cycles # <<>>
  /\ Decode(Head(cycles)[1], Head(cycles)[2])
  /\ cycles' = Tail(cycles)
  /\ UNCHANGED <<offset, op>>

(* All commands of the operation are in the chip.                          *)
Made == op # Idle /\ cycles = <<>> /\ op.next = Len(op.words)

Finish ==
  /\ Made
  /\ offset' = IF op.kind = "write" THEN Advanced(Len(op.words)) ELSE offset
  /\ op' = Idle
  /\ UNCHANGED <<mem, stage, cycles>>

Busy == WriteNext \/ BusCycle \/ Finish

Next ==
  \/ Busy
  \/ \E p \in Addresses : SetPosition(p) \/ SetSectorErase(p) \/ SetBlockErase(p)
  \/ \E n \in 1..MaxLength : Read(n) \/ \E words \in [1..n -> Words] : Write(words)

Spec == Init /\ [][Next]_vars

-----------------------------------------------------------------------------
TypeOK ==
  /\ mem \in [Addresses -> Words]
  /\ offset \in Addresses
  /\ op = Idle \/ /\ op.at \in Addresses
                  /\ op.words \in Seq(Words) /\ op.at + Len(op.words) <= Size
                  /\ op.next \in 0 .. Len(op.words)

(* What the operation promises: the words of a write, clamped to the chip, *)
(* are programmed one after another from the position; an erase clears its *)
(* region.                                                                 *)
Promised(o) ==
  LET region(n) == o.at .. o.at + n - 1 IN
  [a \in Addresses |->
     CASE o.kind = "write" /\ a \in region(Len(o.words)) ->
            o.before[a] \cup o.words[a - o.at + 1]
       [] o.kind = "sector" /\ a \in region(Sector) -> {}
       [] o.kind = "block" /\ a \in region(Block) -> {}
       [] OTHER -> o.before[a]]

(* Every operation has its effect, its whole effect and no other, and the  *)
(* position stays inside the chip, so that the next request is not empty.  *)
PromiseKept == offset \in Addresses /\ (Made => mem = Promised(op))
=============================================================================
