-------------------------------- MODULE Lens --------------------------------
(***************************************************************************)
(* yevm-lens/src/analyse.rs: what the lens concludes from the trace of one *)
(* transaction.  A feed is the sequence of the events that were streamed;  *)
(* an event has a kind k, a number seq and a flag reverted.  Addresses,    *)
(* topics and payloads are model values; which of the shapes a log has     *)
(* (Transfer, Deposit, Withdrawal, Swap) is its topic.                     *)
(*                                                                         *)
(* Left out: approvals, ERC-721, proxy upgrades, changes of balances and   *)
(* the name of the protocol, which the rest does not depend on.            *)
(***************************************************************************)
EXTENDS Integers, Sequences, FiniteSets, FiniteSetsExt

CONSTANTS Eth, Zero

LOCAL S == INSTANCE SequencesExt

\* Undo events carry the numbers [from, to) of the events they undo.
Undone(feed) ==
  {<<e.from, e.to>> : e \in {x \in S!ToSet(feed) : x.k = "Undo"}}

IsLive(e, undone) ==
  ~e.reverted /\ ~\E u \in undone : u[1] <= e.seq /\ e.seq < u[2]

\* Pass 1: which account a storage key is the balance of.
Preimages(feed, undone) ==
  {<<e.key, e.holder>> :
     e \in {x \in S!ToSet(feed) : x.k = "Hash" /\ IsLive(x, undone)}}

----------------------------------------------------------------------------
(* Pass 2.                                                                 *)

Nothing ==
  [stack |-> <<>>, flows |-> <<>>, writes |-> <<>>, transfers |-> <<>>,
   forged |-> <<>>, emitters |-> <<>>, swapLogs |-> <<>>, caller |-> Zero, sender |-> Zero,
   coinbase |-> Zero, entered |-> <<>>, ancestry |-> {}, active |-> {}]

Top(r) == IF r.stack = <<>> THEN Zero ELSE S!Last(r.stack).addr

Flow(from, to, token, amount) ==
  [from |-> from, to |-> to, token |-> token, amount |-> amount, dead |-> FALSE]

\* A frame that does something of its own is more than a recipient of ether.
Active(r, e, live) ==
  IF live /\ r.stack # <<>> /\ e.k \in {"Log", "Hash", "Call", "Store"}
  THEN [r EXCEPT !.active = @ \cup {Top(r)}] ELSE r

OnCall(r, e, live) ==
  LET exec  == IF e.mode # "delegate" THEN e.to
               ELSE IF r.stack = <<>> THEN e.by ELSE Top(r)
      pays  == live /\ e.mode \in {"call", "create"} /\ e.eth > 0 /\ e.by # exec
      frame == [addr |-> exec, flow |-> IF pays THEN Len(r.flows) + 1 ELSE 0]
      seen  == [r EXCEPT
                 !.entered = IF exec \in S!ToSet(@) THEN @ ELSE Append(@, exec),
                 !.ancestry = @ \cup {<<f.addr, exec>> : f \in {g \in S!ToSet(r.stack) : g.addr # exec}},
                 !.flows = IF pays THEN Append(@, Flow(e.by, exec, Eth, e.eth)) ELSE @]
  IN  [(IF live THEN seen ELSE r) EXCEPT
         !.caller = IF @ = Zero THEN e.by ELSE @,
         !.stack = Append(@, frame)]

OnReturn(r) == IF r.stack = <<>> THEN r ELSE [r EXCEPT !.stack = S!Front(@)]

\* Mutant: the value of a call stays when its frame reverts.
OnRevertKeeps(r) == OnReturn(r)

OnRevert(r) ==
  IF r.stack = <<>> \/ S!Last(r.stack).flow = 0 THEN OnReturn(r)
  ELSE [OnReturn(r) EXCEPT !.flows[S!Last(r.stack).flow].dead = TRUE]

\* A write of a balance: the direction, and whether a log has claimed it.
OnStore(r, e, preimages) ==
  LET holders == {p[2] : p \in {q \in preimages : q[1] = e.key}}
  IN  IF holders = {} \/ e.sign = "Equal" THEN r
      ELSE [r EXCEPT !.writes = Append(@, [holders |-> holders, contract |-> e.acc,
                                           sign |-> e.sign, matched |-> FALSE])]

\* The first write that bears a log out, if any.
Backing(ws, contract, who, sign) ==
  LET fits == {i \in DOMAIN ws : /\ ~ws[i].matched /\ ws[i].contract = contract
                                 /\ who \in ws[i].holders /\ ws[i].sign = sign}
  IN  IF fits = {} THEN {} ELSE {Min(fits)}

Claim(ws, is) == [i \in DOMAIN ws |-> IF i \in is THEN [ws[i] EXCEPT !.matched = TRUE] ELSE ws[i]]

\* Mutant: a Transfer is believed without a write of a balance.
OnTransferBelieves(r, e) ==
  [r EXCEPT !.transfers = Append(@, Flow(e.from, e.to, Top(r), e.amount))]

OnTransfer(r, e) ==
  LET token == Top(r)
      less  == Backing(r.writes, token, e.from, "Less")
      ws    == Claim(r.writes, less)
      more  == Backing(ws, token, e.to, "Greater")
  IN  IF less \cup more = {}
      THEN [r EXCEPT !.forged = Append(@, [token |-> token, from |-> e.from, to |-> e.to])]
      ELSE [r EXCEPT !.writes = Claim(ws, more),
                     !.transfers = Append(@, Flow(e.from, e.to, token, e.amount))]

\* Deposit mints and Withdrawal burns: the emitter is the other side.
OnWrap(r, e) ==
  LET token == Top(r)
      in    == e.topic = "Deposit"
      is    == Backing(r.writes, token, e.who, IF in THEN "Greater" ELSE "Less")
  IN  IF is = {} THEN r
      ELSE [r EXCEPT !.writes = Claim(@, is),
                     !.flows = Append(@, IF in THEN Flow(token, e.who, token, e.amount)
                                               ELSE Flow(e.who, token, token, e.amount))]

OnLog(r, e) ==
  LET told == [r EXCEPT !.emitters = Append(@, Top(r))]
  IN  CASE e.topic = "Swap" -> [told EXCEPT !.swapLogs = Append(@, Top(r))]
        [] e.topic \in {"Deposit", "Withdrawal"} -> OnWrap(told, e)
        [] e.topic = "Transfer" -> OnTransfer(told, e)

\* Pushes and pops are not filtered: the Call of a frame that reverts is
\* outside the range that its Revert is inside of.
OnEvent(r, e, undone, preimages) ==
  LET live == IsLive(e, undone)
      a    == Active(r, e, live)
  IN  CASE e.k = "Call" -> OnCall(a, e, live)
        [] e.k = "Return" -> OnReturn(a)
        [] e.k \in {"Revert", "Halt"} -> OnRevert(a)
        [] e.k = "Store" /\ live -> OnStore(a, e, preimages)
        [] e.k = "Log" /\ live -> OnLog(a, e)
        [] e.k = "Fee" /\ live -> [a EXCEPT !.sender = e.sender, !.coinbase = e.coinbase]
        [] OTHER -> a

Analysis(feed) ==
  LET undone    == Undone(feed)
      preimages == Preimages(feed, undone)
  IN  S!FoldLeft(LAMBDA r, e : OnEvent(r, e, undone, preimages), Nothing, feed)

----------------------------------------------------------------------------
(* Swaps, from the confirmed flows.                                        *)

LiveFlows(r) == r.transfers \o SelectSeq(r.flows, LAMBDA f : ~f.dead)

Holders(ms) ==
  LET add(hs, h) == IF h \in S!ToSet(hs) THEN hs ELSE Append(hs, h)
  IN  S!FoldLeft(LAMBDA hs, m : add(add(hs, m.from), m.to), <<>>, ms)

Tokens(ms) == {m.token : m \in S!ToSet(ms)}

Inflow(ms, a, t) ==
  MapThenSumSet(LAMBDA i : IF ms[i].to = a /\ ms[i].token = t THEN ms[i].amount ELSE 0, DOMAIN ms)
Outflow(ms, a, t) ==
  MapThenSumSet(LAMBDA i : IF ms[i].from = a /\ ms[i].token = t THEN ms[i].amount ELSE 0, DOMAIN ms)

\* Pairs of a token and its net amount.
Sold(ms, a)   == {<<t, Outflow(ms, a, t) - Inflow(ms, a, t)>> :
                    t \in {u \in Tokens(ms) : Outflow(ms, a, u) > Inflow(ms, a, u)}}
Bought(ms, a) == {<<t, Inflow(ms, a, t) - Outflow(ms, a, t)>> :
                    t \in {u \in Tokens(ms) : Inflow(ms, a, u) > Outflow(ms, a, u)}}

\* Mutant: an account that only received is taken for a party to a swap.
ConvertsOneSided(ms, a) == Bought(ms, a) # {}

Converts(ms, a) == Sold(ms, a) # {} /\ Bought(ms, a) # {}

Candidates(ms) == {a \in S!ToSet(Holders(ms)) \ {Zero} : Converts(ms, a)}

TxSender(r) == IF r.sender # Zero THEN r.sender ELSE r.caller

Entry(r, a) == IF a \in S!ToSet(r.entered)
               THEN CHOOSE i \in DOMAIN r.entered : r.entered[i] = a
               ELSE Len(r.entered) + 1

\* Of two accounts that called each other, the one entered first is above.
Dominates(r, x, y) ==
  <<x, y>> \in r.ancestry /\ (<<y, x>> \notin r.ancestry \/ Entry(r, x) < Entry(r, y))

IsPool(r, cs, c) ==
  LET peers == (cs \cap r.active) \ {c}
  IN  /\ c # TxSender(r) /\ c \in r.active
      /\ \/ c \in S!ToSet(r.swapLogs)
         \/ \E x \in peers : Dominates(r, x, c)
         \/ ~(\E x \in peers : Dominates(r, c, x)) /\ c \in S!ToSet(r.entered)

Pools(r, ms)    == {c \in Candidates(ms) : IsPool(r, Candidates(ms), c)}
Swappers(r, ms) == Candidates(ms) \ Pools(r, ms)

Unverified(r, ms) == S!ToSet(r.swapLogs) \ Pools(r, ms)

Swap(ms, payer, recipient, pools) ==
  [swapper |-> payer, recipient |-> recipient, sold |-> Sold(ms, payer),
   bought |-> Bought(ms, recipient), pools |-> pools]

PoolsOf(r, ms, sw) ==
  LET mine    == {p \in Pools(r, ms) : <<sw, p>> \in r.ancestry}
      touched == {p \in Pools(r, ms) :
                    \E m \in S!ToSet(ms) : {m.from, m.to} = {sw, p}}
  IN  IF mine # {} THEN mine ELSE IF sw = TxSender(r) THEN Pools(r, ms) ELSE touched

\* A token that the route takes in, or gives out.
RouteToken(r, ms, t, inbound) ==
  \E h \in Candidates(ms) :
    IF inbound THEN Inflow(ms, h, t) # 0 ELSE Outflow(ms, h, t) # 0

\* The account with the largest amount on one side only; the first if equal.
LargestOneSided(r, ms, sells, skip, strict) ==
  LET side(a)  == IF sells THEN Sold(ms, a) ELSE Bought(ms, a)
      other(a) == IF sells THEN Bought(ms, a) ELSE Sold(ms, a)
      fits     == {a \in S!ToSet(Holders(ms)) \ ({Zero} \cup Candidates(ms) \cup skip) :
                     other(a) = {} /\ (strict => a \notin {TxSender(r), r.coinbase})}
      amounts(a) == {x[2] : x \in {y \in side(a) : strict => RouteToken(r, ms, y[1], sells)}}
      pick(best, a) == IF a \notin fits \/ amounts(a) = {} THEN best
                       ELSE IF best[2] >= Max(amounts(a)) THEN best
                       ELSE <<{a}, Max(amounts(a))>>
  IN  S!FoldLeft(pick, <<{}, 0>>, Holders(ms))[1]

\* Payer and recipient may be two accounts, and the payer not the sender.
Relayed(r, ms) == TxSender(r) \notin Swappers(r, ms) /\ Sold(ms, TxSender(r)) = {} /\ Swappers(r, ms) # {}

Payer(r, ms) ==
  IF TxSender(r) \in Swappers(r, ms) THEN {}
  ELSE IF Sold(ms, TxSender(r)) # {} THEN {TxSender(r)}
  ELSE IF Relayed(r, ms) THEN LargestOneSided(r, ms, TRUE, {}, TRUE)
  ELSE IF LargestOneSided(r, ms, TRUE, {}, FALSE) # {} THEN LargestOneSided(r, ms, TRUE, {}, FALSE)
  ELSE {TxSender(r)}

Recipient(r, ms, payer) ==
  LET other == LargestOneSided(r, ms, FALSE, {payer}, Relayed(r, ms))
  IN  IF Bought(ms, payer) # {} \/ other = {} THEN {payer} ELSE other

Paired(r, ms) ==
  {s \in UNION {{Swap(ms, p, q, Pools(r, ms)) : q \in Recipient(r, ms, p)} : p \in Payer(r, ms)} :
     IF Relayed(r, ms) THEN s.sold # {} /\ s.bought # {} ELSE s.sold # {} \/ s.bought # {}}

Swaps(r) ==
  LET ms == LiveFlows(r)
  IN  IF Pools(r, ms) = {} THEN {}
      ELSE {Swap(ms, sw, sw, PoolsOf(r, ms, sw)) : sw \in Swappers(r, ms)} \cup Paired(r, ms)
=============================================================================
