------------------------------ MODULE EchoRing ------------------------------
(***************************************************************************)
(* What the I2S echo example promises, with no stream, no interrupt and no *)
(* main loop in sight: the captured blocks form one line, a block joins it *)
(* at the back when its capture ends and leaves it from the front when it  *)
(* has been played.  No buffer is in the line twice, no block is dropped   *)
(* or overtaken, and the line never stops moving.                          *)
(***************************************************************************)
EXTENDS Naturals, Sequences

CONSTANT Buffers   \* the buffers that circulate

VARIABLE line      \* captured blocks not yet played, the oldest first

InLine == {line[i] : i \in 1..Len(line)}

Init == line = <<>>

Capture(b) ==
  /\ b \notin InLine
  /\ line' = Append(line, b)

Play ==
  /\ line # <<>>
  /\ line' = Tail(line)

Next == Play \/ \E b \in Buffers : Capture(b)

SafeSpec == Init /\ [][Next]_line

Spec == SafeSpec /\ WF_line(Play)
=============================================================================
