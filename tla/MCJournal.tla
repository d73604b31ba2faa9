----------------------------- MODULE MCJournal -----------------------------
(***************************************************************************)
(* Journal on two accounts: a deployed contract with a balance and a       *)
(* nonzero slot, and a fresh address at which CREATE may deploy.           *)
(***************************************************************************)
EXTENDS Journal

CONSTANTS Contract, Fresh

MCChain ==
  [l \in BackedLoc |-> CASE l = Field("value", Contract) -> 2
                         [] l.acc = Contract             -> 1
                         [] OTHER                        -> 0]

MCInput ==
  [value |-> {1}, code |-> {1}, store |-> {0}, temp |-> {1}]

MCTouched ==
  {Field("warmAcc", Fresh)} \cup {Cell("temp", Contract, k) : k \in Key}
=============================================================================
