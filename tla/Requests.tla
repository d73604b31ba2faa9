------------------------------ MODULE Requests ------------------------------
(***************************************************************************)
(* The storage of a request predeploy (withdrawals of EIP-7002,            *)
(* consolidations of EIP-7251) and what process_request_queue of           *)
(* yevm-core/src/exe.rs does to it at the end of a block.                  *)
(*                                                                         *)
(* A transaction adds a request by calling the predeploy, whose bytecode   *)
(* comes from the chain: Add is external, after the EIP.                   *)
(***************************************************************************)
EXTENDS Naturals, Sequences

CONSTANTS
  Request,      \* the requests that may be made
  MaxPerBlock,  \* taken by a block (16 or 2)
  Target,       \* per block, beyond which the fee rises (2 or 1)
  Inhibitor,    \* the excess of a predeploy not yet activated (2^256 - 1)
  Slots         \* bound on the slots of the queue

ASSUME RequestsAssumption ==
  /\ MaxPerBlock \in Nat \ {0} /\ Target \in Nat /\ Slots \in Nat
  /\ Inhibitor \notin Nat /\ Request # {}

VARIABLES
  excess, inBlock, head, tail,  \* slots 0 to 3
  queue                         \* the slots of the queue itself

queueVars == <<excess, inBlock, head, tail, queue>>

\* u64::saturating_sub
Minus(a, b) == IF a < b THEN 0 ELSE a - b

Add(r) ==
  /\ excess # Inhibitor /\ tail < Slots
  /\ queue' = [queue EXCEPT ![tail] = r]
  /\ tail' = tail + 1 /\ inBlock' = inBlock + 1
  /\ UNCHANGED <<excess, head>>

\* Mutant: the slots are used again while the last request still waits.
DequeueResetsEarly ==
  LET n == Minus(tail, head) IN
  IF n <= MaxPerBlock + 1 THEN head' = 0 /\ tail' = 0
                          ELSE head' = head + MaxPerBlock /\ UNCHANGED tail

\* The oldest go; when none is left, the slots are used from the first again.
Dequeue ==
  LET n == Minus(tail, head)
      newHead == head + (IF n < MaxPerBlock THEN n ELSE MaxPerBlock)
  IN  IF newHead = tail THEN head' = 0 /\ tail' = 0
                        ELSE head' = newHead /\ UNCHANGED tail

\* Mutant: the excess only ever rises.
NewExcessNeverFalls ==
  (IF excess = Inhibitor THEN 0 ELSE excess) + Minus(inBlock, Target)

NewExcess == Minus((IF excess = Inhibitor THEN 0 ELSE excess) + inBlock, Target)

\* process_request_queue.  Every slot is fetched before the first is written.
EndBlock ==
  /\ Dequeue
  /\ excess' = NewExcess /\ inBlock' = 0
  /\ UNCHANGED queue

RequestsInit ==
  /\ excess \in {Inhibitor, 0} /\ inBlock = 0 /\ head = 0 /\ tail = 0
  /\ queue = [i \in 0 .. Slots - 1 |-> CHOOSE r \in Request : TRUE]

\* The requests that wait, oldest first.
Waiting == [i \in 1 .. tail - head |-> queue[head + i - 1]]

RequestsTypeOK ==
  /\ excess \in Nat \cup {Inhibitor} /\ inBlock \in Nat
  /\ head \in 0 .. tail /\ tail \in 0 .. Slots
  /\ queue \in [0 .. Slots - 1 -> Request]
=============================================================================
