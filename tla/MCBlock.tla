------------------------------ MODULE MCBlock ------------------------------
(***************************************************************************)
(* Block with a sender, a coinbase that sends transactions too, a          *)
(* contract, and an account that only a tuple names.                       *)
(***************************************************************************)
EXTENDS Block

CONSTANTS Sender, Miner, Called, Away, q1, q2

MCGenesis ==
  [bal   |-> [a \in Acc |-> IF a = Sender THEN 20 ELSE 0],
   nonce |-> [a \in Acc |-> IF a = Called THEN 1 ELSE 0],
   code  |-> [a \in Acc |-> IF a = Called THEN Deployed ELSE None]]

Plain ==
  [by |-> Sender, to |-> Called, eth |-> 1, gas |-> 5, legacy |-> FALSE,
   cap |-> 3, prio |-> 1, cost |-> 3, floor |-> 1, blob |-> 0, auths |-> <<>>]

MCCredit == {<<Called, 2>>}

Auth(a, n, t) == [by |-> a, chain |-> TRUE, nonce |-> n, to |-> t]

\* A plain call; one with blobs whose sender delegates and clears; one of the
\* coinbase to itself with a floor above its limit; ones refused early, and
\* late, after a tuple took effect.
MCTx ==
  {Plain,
   [Plain EXCEPT !.blob = 1, !.gas = 6,
                 !.auths = <<Auth(Sender, 1, Called), Auth(Miner, 0, Called),
                             Auth(Miner, 1, None)>>],
   [Plain EXCEPT !.by = Miner, !.to = Miner, !.legacy = TRUE, !.prio = 0,
                 !.gas = 3, !.floor = 4],
   [Plain EXCEPT !.prio = 4],
   [Plain EXCEPT !.legacy = TRUE, !.prio = 0, !.cap = 1,
                 !.auths = <<Auth(Miner, 0, Away), Auth(None, 0, Away)>>],
   [Plain EXCEPT !.gas = 1]}
=============================================================================
