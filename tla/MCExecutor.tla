----------------------------- MODULE MCExecutor -----------------------------
(***************************************************************************)
(* Executor on a contract with ether and a nonzero slot, an address to     *)
(* create at and a precompile.                                             *)
(***************************************************************************)
EXTENDS Executor

CONSTANTS c, n, p, s

MCGenesis ==
  [bal    |-> [a \in Account |-> IF a \in {c, s} THEN 1 ELSE 0],
   nonce  |-> [a \in Account |-> IF a = c THEN MaxNonce - 1 ELSE 0],
   code   |-> [a \in Account |-> a = c],
   slot   |-> [a \in Account |-> IF a = c THEN 1 ELSE 0],
   made   |-> {}, doomed |-> {}]
=============================================================================
