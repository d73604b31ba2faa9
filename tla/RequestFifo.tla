---------------------------- MODULE RequestFifo ----------------------------
(***************************************************************************)
(* What a request predeploy promises (EIP-7002, EIP-7251): requests wait   *)
(* in the order in which they were made, and each block takes the oldest   *)
(* of them, at most MaxPerBlock.                                           *)
(***************************************************************************)
EXTENDS Naturals, Sequences

CONSTANTS Request, MaxPerBlock

VARIABLE waiting

Make(r) == waiting' = Append(waiting, r)

Take ==
  LET n == IF Len(waiting) < MaxPerBlock THEN Len(waiting) ELSE MaxPerBlock
  IN  waiting' = SubSeq(waiting, n + 1, Len(waiting))

Init == waiting = <<>>
Next == Take \/ \E r \in Request : Make(r)
Spec == Init /\ [][Next]_waiting
=============================================================================
