----------------------------- MODULE MCFollower -----------------------------
(***************************************************************************)
(* Follower on three branches: a1-a2-a3, a1-c2 and b1-b2.  A block has up  *)
(* to three transactions: a quote, the swap that reads it, and a request   *)
(* to a predeploy, whose queue the block may or may not empty.             *)
(***************************************************************************)
EXTENDS Follower

CONSTANTS a1, a2, a3, b1, b2, c2, g, k, m, even, odd, count, tail

MCParent == [x \in Blocks |-> CASE x \in {a1, b1} -> g [] x \in {a2, c2} -> a1
                                [] x = a3 -> a2 [] x = b2 -> b1]
MCNumber == [x \in Blocks \cup {g} |-> CASE x = g -> 0 [] x \in {a1, b1} -> 1
                                        [] x \in {a2, b2, c2} -> 2 [] x = a3 -> 3]
Quote(s) == [reads |-> {}, writes |-> {s}, swap |-> FALSE]
Takes(s) == [reads |-> {s}, writes |-> {m}, swap |-> TRUE]
Asks     == [reads |-> {count}, writes |-> {count, tail}, swap |-> FALSE]
Recalls  == [reads |-> {k, odd}, writes |-> {m}, swap |-> TRUE]

MCTxs == [x \in Blocks |-> CASE x = a1 -> <<Quote(k), Asks>> [] x = a2 -> <<Quote(k), Takes(k)>>
                             [] x = a3 -> <<Recalls>> [] x = b1 -> <<Takes(k)>>
                             [] x = b2 -> <<Takes(k), Quote(k), Asks>> [] x = c2 -> <<Takes(k)>>]

\* The ring has two slots.  The tail stays while the queue is not empty.
MCRing == [x \in Blocks |-> IF MCNumber[x] = 2 THEN {even} ELSE {odd}]
MCDequeued == [x \in Blocks |-> IF x \in {a1, b2} THEN {count} ELSE {count, tail}]
=============================================================================
