-------------------------------- MODULE Gate --------------------------------
(***************************************************************************)
(* What the two halves of yevm-gate have in common: GateQueue, the queue   *)
(* of transactions, and GateAdmin, the sessions and the registry.          *)
(***************************************************************************)

CONSTANTS
  User,   \* who has a key
  Admin,  \* YEVM_ADMIN
  Chain,  \* the chains of requests and of the registry
  Req     \* requests that may be under way at once, of either half
=============================================================================
