------------------------------ MODULE MCTraces ------------------------------
(***************************************************************************)
(* Traces with a bot, a pool that may call back, a token, a wrapper of     *)
(* ether, an account without code and a precompile.                        *)
(***************************************************************************)
EXTENDS Traces

CONSTANTS s, b, p, t, w, e, x, n

C(by, to, mode, eth) == [by |-> by, to |-> to, mode |-> mode, eth |-> eth]

MCRoots == {[to |-> b, eth |-> 1], [to |-> e, eth |-> 1]}
MCCalls ==
  {C(b, p, "call", 1), C(p, b, "call", 0), C(p, t, "call", 0), C(p, w, "call", 1),
   C(b, t, "delegate", 0), C(p, x, "call", 1), C(b, n, "create", 1)}
MCTransfers == {[token |-> t, from |-> p, to |-> b, amount |-> 2]}
MCWraps     == {[token |-> w, who |-> p, amount |-> 1, topic |-> "Deposit"],
                [token |-> w, who |-> p, amount |-> 1, topic |-> "Withdrawal"]}
MCForgeries == {[by |-> t, from |-> p, to |-> b]}
=============================================================================
