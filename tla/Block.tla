------------------------------- MODULE Block -------------------------------
(***************************************************************************)
(* Blocks over one cache: pre_block, the transactions, post_block          *)
(* (yevm-core/src/exe.rs).  Replay and bench run one, and end at the first *)
(* error; detect (yevm-demo) runs one after another, goes on after an      *)
(* error, and purges the cache at the end of that block.  The transactions *)
(* are those of module Settle, and a request predeploy that they call is   *)
(* module Requests.                                                        *)
(***************************************************************************)
EXTENDS Settle, Requests

CONSTANTS
  Window,      \* blocks the history contract serves (8191)
  Credit,      \* the withdrawals that may come: account and amount
  Gap,         \* bound on the time between two blocks
  MaxBlocks    \* bound on the blocks

ASSUME BlockAssumption ==
  Window \in Nat \ {0} /\ Credit \subseteq Acc \X (0 .. W - 1) /\ MaxBlocks \in Nat
  /\ Gap \in Nat \ {0} /\ MapThenSumSet(LAMBDA a : Genesis.bal[a], Acc) < W

VARIABLES
  stage,      \* "pre"; "txs", or "bad" after an error; "stopped"
  number,     \* of the block in hand
  now,        \* its timestamp
  hashes,     \* ring of the history contract (EIP-2935)
  times,      \* ring of the beacon roots contract (EIP-4788): timestamps
  roots,      \* and the second half of that ring: roots
  stamps,     \* history: the timestamp of each block so far
  demand,     \* history: the requests of each block so far
  credited    \* history: all withdrawals

ringVars == <<hashes, times, roots>>
vars == <<settleVars, queueVars, stage, number, now, ringVars, stamps, demand, credited>>

\* Block 0 is the one the chain backend answers for; it stamped time 0.  Its
\* hash and its beacon root are its number, as for every other block.
Init ==
  /\ SettleInit /\ RequestsInit
  /\ stage = "pre" /\ number = 1 /\ now = 0
  /\ hashes = [i \in 0 .. Window - 1 |-> 0]
  /\ times = [i \in 0 .. Window - 1 |-> 0]
  /\ roots = [i \in 0 .. Window - 1 |-> 0]
  /\ stamps = <<>> /\ demand = <<>> /\ credited = 0

\* Mutant: the parent's hash is stored under the number of the block.
PutHashLate(n) == hashes' = [hashes EXCEPT ![n % Window] = n - 1]

\* The hash of the parent, under the number of the parent.
PutHash(n) == hashes' = [hashes EXCEPT ![(n - 1) % Window] = n - 1]

PutTime(t) == times' = [times EXCEPT ![t % Window] = t]
PutRoot(t) == roots' = [roots EXCEPT ![t % Window] = number]

\* pre_block: time passes, by slots that may have been missed.
PreBlock ==
  /\ stage = "pre" /\ number <= MaxBlocks
  /\ \E t \in now + 1 .. now + Gap :
       /\ now' = t /\ PutTime(t) /\ PutRoot(t)
       /\ stamps' = Append(stamps, t)
  /\ PutHash(number)
  /\ stage' = "txs"
  /\ UNCHANGED <<settleVars, queueVars, number, demand, credited>>

\* After an error a caller stops (Over), or goes on for this block.
Running == stage \in {"txs", "bad"}

\* One of its fetches fails, after none, one or both of the puts before it.
PreBlockFails ==
  /\ stage = "pre" /\ number <= MaxBlocks
  /\ \E t \in now + 1 .. now + Gap :
       \/ UNCHANGED ringVars
       \/ PutTime(t) /\ UNCHANGED <<roots, hashes>>
       \/ PutTime(t) /\ PutRoot(t) /\ UNCHANGED hashes
  /\ stage' = "bad"
  /\ UNCHANGED <<settleVars, queueVars, number, now, stamps, demand, credited>>

\* A step of a transaction that leaves the predeploy alone, and goes on.
TxStep ==
  /\ Running
  /\ \/ \E t \in Tx : Begin(t)
     \/ SkipTuple \/ ApplyTuple \/ Finalize
     \/ Charge /\ phase' = "exec"
     \/ \E s \in Spendings(tx) : Fail(s) \/ \E r \in Refunds : Succeed(s, r)
  /\ UNCHANGED <<queueVars, stage, number, now, ringVars, stamps, demand, credited>>

\* A transaction whose execution makes a request.
TxRequests ==
  /\ Running
  /\ \E s \in Spendings(tx), q \in Request : Succeed(s, 0) /\ Add(q)
  /\ UNCHANGED <<stage, number, now, ringVars, stamps, demand, credited>>

\* The steps run out: no error, so the next transaction comes.
TxStepLimit ==
  /\ Running /\ Stop
  /\ UNCHANGED <<queueVars, stage, number, now, ringVars, stamps, demand, credited>>

TxErrs ==
  /\ Running
  /\ \/ \E t \in Tx : Reject(t)
     \/ TupleFails \/ PriceRefused \/ Stop
     \/ Charge /\ phase' = "idle"
  /\ stage' = "bad"
  /\ UNCHANGED <<queueVars, number, now, ringVars, stamps, demand, credited>>

\* apply_withdrawals, of a list of one.
Withdraw(a, v) ==
  /\ bal' = [bal EXCEPT ![a] = (@ + v) % W]
  /\ credited' = (credited + v) % W
  /\ held' = held \cup {a}

beside == <<nonce, code, phase, tx, at, refund, price, spent, receipt, tried, ether,
            done, torn>>

\* post_block: withdrawals, then the queue.  After an error the cache is
\* purged, and what it held is gone: the run ends.
PostBlock ==
  /\ Running /\ phase = "idle"
  /\ \/ \E c \in Credit : Withdraw(c[1], c[2])
     \/ UNCHANGED <<bal, credited, held>>
  /\ EndBlock
  /\ demand' = Append(demand, inBlock)
  /\ stage' = (IF stage = "txs" THEN "pre" ELSE "stopped") /\ number' = number + 1
  /\ UNCHANGED <<beside, now, ringVars, stamps>>

\* One of its fetches fails: of the withdrawals, of this queue, or of the other
\* one, after this one is done.
PostBlockFails ==
  /\ Running /\ phase = "idle"
  /\ \/ \E c \in Credit : Withdraw(c[1], c[2])
     \/ UNCHANGED <<bal, credited, held>>
  /\ \/ EndBlock /\ demand' = Append(demand, inBlock)
     \/ UNCHANGED <<queueVars, demand>>
  /\ stage' = "stopped"
  /\ UNCHANGED <<beside, number, now, ringVars, stamps>>

Over ==
  /\ stage \in {"bad", "stopped"} \/ (stage = "pre" /\ number > MaxBlocks)
  /\ UNCHANGED vars

Next ==
  \/ PreBlock \/ PreBlockFails
  \/ TxStep \/ TxRequests \/ TxStepLimit \/ TxErrs
  \/ PostBlock \/ PostBlockFails
  \/ Over

Spec == Init /\ [][Next]_vars

----------------------------------------------------------------------------
(* Properties.                                                             *)

\* Types; the predeploy's slots, too.
TypeOK ==
  /\ SettleTypeOK /\ RequestsTypeOK
  /\ stage \in {"pre", "txs", "bad", "stopped"} /\ number \in 1 .. MaxBlocks + 1
  /\ (Running => number <= MaxBlocks)
  /\ now \in Nat /\ credited \in 0 .. W - 1
  /\ {hashes, times, roots} \subseteq [0 .. Window - 1 -> Nat]
  /\ stamps \in Seq(Nat) /\ demand \in Seq(Nat)

\* Ether is neither made nor lost, through refunds, tips to a coinbase that
\* is also the sender, self-transfers, blobs, withdrawals, errors and balances
\* that wrap, but for what a floor above the gas limit adds to the tip and the
\* burn, and what a run that is never settled keeps.
EtherAddsUp ==
  Ether = (MapThenSumSet(LAMBDA a : Genesis.bal[a], Acc) + credited) % W

\* In a block, the history contract serves the hashes of the last Window
\* blocks, and the beacon roots contract the root of each of them that is not
\* older than Window (EIP-2935, EIP-4788).
HistoryIsServed ==
  stage = "txs" =>
    /\ \A n \in 0 .. number - 1 : number - n <= Window => hashes[n % Window] = n
    /\ \A n \in 1 .. number :
         now - stamps[n] < Window =>
           times[stamps[n] % Window] = stamps[n] /\ roots[stamps[n] % Window] = n

\* The excess, from which the predeploy computes its fee, is the largest
\* backlog that any run of blocks up to now has left (EIP-7002): blocks below the target
\* pay it back, and never below zero.
ExcessIsBacklog ==
  excess # Inhibitor =>
    excess = Max({0} \cup
      {MapThenSumSet(LAMBDA i : demand[i], k .. Len(demand)) - Target * (Len(demand) - k + 1) :
         k \in DOMAIN demand})

\* The predeploy is a queue: blocks take the oldest requests, at most
\* MaxPerBlock, whatever slots are reused.
Fifo == INSTANCE RequestFifo WITH waiting <- Waiting
RequestsAreTakenInOrder == Fifo!Spec
=============================================================================
