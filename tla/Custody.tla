------------------------------ MODULE Custody -------------------------------
(***************************************************************************)
(* Who holds a stream request: the examples hand requests from one queue   *)
(* to another, and the queues are sequences here.                          *)
(***************************************************************************)
EXTENDS Naturals, Sequences

InSeq(s) == {s[i] : i \in 1..Len(s)}

NoRepeat(s) == \A i, j \in 1..Len(s) : s[i] = s[j] => i = j
=============================================================================
