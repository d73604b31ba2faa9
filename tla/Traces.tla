------------------------------- MODULE Traces -------------------------------
(***************************************************************************)
(* A transaction, the events it streams and what the lens makes of them.   *)
(* The executor (yevm-core/src/exe.rs) runs frames and emits; the journal  *)
(* (cache.rs) numbers the events and, when a frame is undone, sends an     *)
(* Undo with the range of the numbers taken back.  The listener sees       *)
(* events as they come, so those of a frame that will be undone too.       *)
(*                                                                         *)
(* Gas, memory and the values of slots are left out.  Contracts are given  *)
(* by what they may do; a token that writes a balance logs it.             *)
(***************************************************************************)
EXTENDS Lens, TLC

CONSTANTS
  Sender,     \* who signs the transaction
  Roots,      \* what it may call, with how much ether
  Calls,      \* the calls that code may make: by, to, mode, eth
  Transfers,  \* what tokens may do: token, from, to, amount
  Wraps,      \* mint and burn for ether: token, who, amount, topic
  Forgeries,  \* Transfer logs without a transfer: by, from, to
  Loggers,    \* who may emit a Swap log
  Codeless,   \* accounts without code
  Precompile, \* addresses of precompiles
  MaxEvents,  \* bound: a transaction does nothing new after so many events,
  MaxTail,    \* bound: nor, once a frame has ended unseen, after so many
  MaxLogs,    \* bound: nor after so many logs
  MaxDepth    \* bound on frames

ASSUME TracesAssumption ==
  /\ MaxEvents \in Nat /\ MaxTail \in Nat /\ MaxLogs \in Nat /\ MaxDepth \in Nat
  /\ \A c \in Calls : c.mode \in {"call", "delegate", "create"} /\ c.eth \in Nat
  /\ Codeless \cap Precompile = {} /\ Zero \notin {Sender}

VARIABLES
  stack,  \* the frames: the account, its code, checkpoint, and what was true at it
  seq,    \* the number of events emitted
  feed,   \* what was streamed
  truth,  \* what happened and has not been undone: moves of value, logs, forgeries
  plain   \* every frame so far that was announced was also seen to end

vars == <<stack, seq, feed, truth, plain>>

Nil == [moves |-> <<>>, emitters |-> <<>>, forged |-> <<>>]

Ev(k)     == [k |-> k, reverted |-> FALSE]
CallEv(c) == [by |-> c.by, to |-> c.to, mode |-> c.mode, eth |-> c.eth] @@ Ev("Call")

Numbered(es) == [i \in DOMAIN es |-> es[i] @@ [seq |-> seq + i - 1]]

\* emit, for several events
Emit(es) == seq' = seq + Len(es) /\ feed' = feed \o Numbered(es)

\* emit, then revert_to(cp).  The Undo is sent but is no event of its own.
EmitAndUndo(es, cp) ==
  /\ seq' = seq + Len(es)
  /\ feed' = feed \o Numbered(es) \o
       (IF cp >= seq + Len(es) THEN <<>>
        ELSE <<[k |-> "Undo", from |-> cp, to |-> seq + Len(es), seq |-> cp, reverted |-> TRUE]>>)

Moved(t, from, to, token, amount) ==
  IF amount = 0 \/ from = to THEN t
  ELSE [t EXCEPT !.moves = Append(@, Flow(from, to, token, amount))]

\* The ether of a call or of a creation; other calls move nothing.
Paid(t, c) == IF c.mode = "delegate" THEN t ELSE Moved(t, c.by, c.to, Eth, c.eth)

\* Mutant: an inner frame undoes the transaction.
FrameOfAll(c, cp) ==
  [this |-> IF c.mode = "delegate" THEN c.by ELSE c.to, code |-> c.to,
   create |-> c.mode = "create", cp |-> 0, saved |-> truth]

Frame(c, cp) ==
  [this |-> IF c.mode = "delegate" THEN c.by ELSE c.to, code |-> c.to,
   create |-> c.mode = "create", cp |-> cp, saved |-> truth]

\* The transaction's own call is inside the range of its frame, unlike others.
Init ==
  /\ \E c \in Roots :
       LET call == [by |-> Sender, to |-> c.to, mode |-> "call", eth |-> c.eth]
       IN  /\ truth = Paid(Nil, call)
           /\ stack = <<[this |-> c.to, code |-> c.to, create |-> FALSE, cp |-> 0, saved |-> Nil]>>
           /\ feed = <<CallEv(call) @@ [seq |-> 0]>>
  /\ seq = 1 /\ plain = TRUE

Last == stack[Len(stack)]
Rest == SubSeq(stack, 1, Len(stack) - 1)

Running == stack # <<>> /\ Last.code \notin Codeless
Busy    == Running /\ seq < (IF plain THEN MaxEvents ELSE MaxTail)
MaySay  == Busy /\ Len(truth.emitters) < MaxLogs

\* What the running code may call, as the account it runs for.  Bound: no call
\* is made twice.
MayCall ==
  {c \in {[d EXCEPT !.by = Last.this] : d \in {d \in Calls : d.by = Last.code}} :
     \A i \in DOMAIN feed : feed[i] # CallEv(c) @@ [seq |-> feed[i].seq]}

----------------------------------------------------------------------------
(* The executor.                                                           *)

EntersCall ==
  /\ Busy /\ Len(stack) < MaxDepth
  /\ \E c \in MayCall :
       /\ c.to \notin Precompile
       /\ Emit(<<CallEv(c)>>)
       /\ stack' = Append(stack, Frame(c, seq + 1))
       /\ truth' = Paid(truth, c)
  /\ UNCHANGED plain

\* Too deep, or too little ether, or a collision of addresses: the call was
\* announced, and nothing more is said of it.
CallIsRefused ==
  /\ Busy
  /\ \E c \in MayCall : c.to \notin Precompile /\ Emit(<<CallEv(c)>>)
  /\ plain' = FALSE
  /\ UNCHANGED <<stack, truth>>

CallsPrecompile ==
  /\ Busy
  /\ \E c \in MayCall, ok \in BOOLEAN :
       /\ c.to \in Precompile
       /\ Emit(<<CallEv(c), Ev(IF ok THEN "Return" ELSE "Revert")>>)
       /\ truth' = IF ok THEN Paid(truth, c) ELSE truth
  /\ UNCHANGED <<stack, plain>>

Returns ==
  /\ Running
  /\ Emit(<<Ev("Return")>>)
  /\ stack' = Rest
  /\ UNCHANGED <<truth, plain>>

\* Code too long, or too dear: creation returns, and is undone.
CreationFails ==
  /\ Running /\ Last.create
  /\ EmitAndUndo(<<Ev("Return")>>, Last.cp)
  /\ stack' = Rest
  /\ truth' = Last.saved
  /\ plain' = FALSE

\* Revert and Halt
Fails ==
  /\ Running
  /\ EmitAndUndo(<<Ev("Revert")>>, Last.cp)
  /\ stack' = Rest
  /\ truth' = Last.saved
  /\ UNCHANGED plain

\* No more code, as of an account that has none: "Do not emit synthetic STOP".
RunsOut ==
  /\ stack # <<>>
  /\ stack' = Rest
  /\ plain' = (plain /\ Len(stack) = 1)
  /\ UNCHANGED <<seq, feed, truth>>

----------------------------------------------------------------------------
(* What code does to its own storage, and says.                            *)

Hash(h) == [holder |-> h, key |-> h] @@ Ev("Hash")
Store(h, sign) == [acc |-> Last.this, key |-> h, sign |-> sign] @@ Ev("Store")
Says(topic) == [topic |-> topic] @@ Ev("Log")
Logged(t) == [t EXCEPT !.emitters = Append(@, Last.this)]

TransfersToken ==
  /\ MaySay
  /\ \E x \in {y \in Transfers : y.token = Last.code} :
       /\ Emit(<<Hash(x.from), Store(x.from, "Less"), Hash(x.to), Store(x.to, "Greater"),
                 [from |-> x.from, to |-> x.to, amount |-> x.amount] @@ Says("Transfer")>>)
       /\ truth' = Moved(Logged(truth), x.from, x.to, Last.this, x.amount)
  /\ UNCHANGED <<stack, plain>>

WrapsEther ==
  /\ MaySay
  /\ \E x \in {y \in Wraps : y.token = Last.code} :
       LET in == x.topic = "Deposit"
       IN  /\ Emit(<<Hash(x.who), Store(x.who, IF in THEN "Greater" ELSE "Less"),
                     [who |-> x.who, amount |-> x.amount] @@ Says(x.topic)>>)
           /\ truth' = IF in THEN Moved(Logged(truth), Last.this, x.who, Last.this, x.amount)
                       ELSE Moved(Logged(truth), x.who, Last.this, Last.this, x.amount)
  /\ UNCHANGED <<stack, plain>>

Forges ==
  /\ MaySay
  /\ \E x \in {y \in Forgeries : y.by = Last.code} :
       /\ Emit(<<[from |-> x.from, to |-> x.to, amount |-> 1] @@ Says("Transfer")>>)
       /\ truth' = [Logged(truth) EXCEPT
                      !.forged = Append(@, [token |-> Last.this, from |-> x.from, to |-> x.to])]
  /\ UNCHANGED <<stack, plain>>

SaysSwap ==
  /\ MaySay /\ Last.code \in Loggers
  /\ Emit(<<Says("Swap")>>)
  /\ truth' = Logged(truth)
  /\ UNCHANGED <<stack, plain>>

\* finalized: the fee is settled after the frames, undone or not.
Settles ==
  /\ stack = <<>> /\ feed[Len(feed)].k # "Fee"
  /\ Emit(<<[sender |-> Sender, coinbase |-> Zero] @@ Ev("Fee")>>)
  /\ UNCHANGED <<stack, truth, plain>>

Done == stack = <<>> /\ feed[Len(feed)].k = "Fee"
Stop == Done /\ UNCHANGED vars

Next ==
  \/ EntersCall \/ CallIsRefused \/ CallsPrecompile
  \/ Returns \/ CreationFails \/ Fails \/ RunsOut
  \/ TransfersToken \/ WrapsEther \/ Forges \/ SaysSwap
  \/ Settles \/ Stop

Spec == Init /\ [][Next]_vars

----------------------------------------------------------------------------
(* Properties.                                                             *)

\* Frames with checkpoints in order, events numbered as they were emitted.
TypeOK ==
  /\ Len(stack) <= MaxDepth /\ seq \in Nat /\ plain \in BOOLEAN
  /\ \A i \in DOMAIN stack : stack[i].cp <= seq /\ (i > 1 => stack[i - 1].cp < stack[i].cp)
  /\ LET own == SelectSeq(feed, LAMBDA e : e.k # "Undo")
     IN  Len(own) = seq /\ \A i \in DOMAIN own : own[i].seq = i - 1

Count(x, s) == Cardinality({i \in DOMAIN s : s[i] = x})
SameBag(s, t) ==
  Len(s) = Len(t) /\ \A i \in DOMAIN s : Count(s[i], s) = Count(s[i], t)

\* What the lens holds for confirmed is what happened and was not undone: no
\* transfer is missed, counted twice, believed though only logged, or kept
\* though its frame was reverted, whatever calls back into whom.
FlowsAreMoves ==
  Done /\ plain => SameBag(LiveFlows(Analysis(feed)), truth.moves)

\* A Transfer log that nothing bears out is flagged, and no other one.
ForgeriesAreFlagged ==
  Done /\ plain => Analysis(feed).forged = truth.forged

\* The swaps rest on trades: each pool, and a swapper that is its own
\* recipient, really gave one token and got another, no swapper is one of its
\* own pools, and a Swap log of an account that traded nothing is unverified.
SwapsAreTrades ==
  Done /\ plain =>
    LET r == Analysis(feed)
        Traded(a) == Sold(truth.moves, a) # {} /\ Bought(truth.moves, a) # {}
    IN  /\ \A s \in Swaps(r) : /\ \A p \in s.pools : Traded(p)
                               /\ s.swapper \notin s.pools /\ s.recipient \notin s.pools
                               /\ s.swapper = s.recipient /\ s.sold # {} /\ s.bought # {} => Traded(s.swapper)
        /\ \A a \in {truth.emitters[i] : i \in DOMAIN truth.emitters} :
             a \in {r.swapLogs[i] : i \in DOMAIN r.swapLogs} /\ ~Traded(a) => a \in Unverified(r, LiveFlows(r))

\* "One call-stack entry: the executing address" (analyse.rs:108): a log is put
\* down to the account that emitted it.
EmitterIsExecuting == Done => Analysis(feed).emitters = truth.emitters
=============================================================================
