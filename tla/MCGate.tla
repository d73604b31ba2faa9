------------------------------- MODULE MCGate -------------------------------
(***************************************************************************)
(* The two halves of yevm-gate side by side.  GateQueue with a sender of   *)
(* three transactions and a sender of one, and a transaction that is       *)
(* posted to two chains; GateAdmin with an administrator and another user, *)
(* two challenges, two chains, and a change of both at once beside a       *)
(* deletion.                                                               *)
(*                                                                         *)
(* The halves share no variable, so that neither half's properties see     *)
(* what the other does: one moves only while the other has not begun, and  *)
(* the states are the sum and not the product of theirs.                   *)
(***************************************************************************)
EXTENDS GateQueue, GateAdmin, TLC

CONSTANTS t1, t2, t3, t4, u, v, admin, main, side, n1, n2, u1, u2, k1, k2, r1, r2

MCFrom == [t \in Tx |-> IF t = t4 THEN v ELSE u]

MCOffers == {<<<<t1>>, main>>, <<<<t1>>, side>>, <<<<t2, t3>>, main>>,
             <<<<t3>>, main>>, <<<<t4, t2>>, main>>}

Signed(n, k, a, i, e) == [nonce |-> n, key |-> k, address |-> a, issued |-> i, expires |-> e]

MCMessage == {Signed(n1, admin, admin, 0, 2), Signed(n1, u, admin, 0, 2),
              Signed(n2, u, u, 1, 1)}

To(c, url) == [chain |-> c, url |-> url]
MCChange   == {<<To(main, NoUrl)>>, <<To(side, u2), To(main, u2)>>}
MCSeed     == [c \in Chain |-> IF c = main THEN u1 ELSE NoUrl]

Symmetry == Permutations({k1, k2}) \cup Permutations({r1, r2})

BothInit == Init /\ AdminInit

BothNext ==
  \/ AdminInit /\ Next /\ UNCHANGED adminVars
  \/ Init /\ AdminNext /\ UNCHANGED vars

BothSpec == BothInit /\ [][BothNext]_<<vars, adminVars>>
=============================================================================
