------------------------------ MODULE Executor ------------------------------
(***************************************************************************)
(* One transaction in the executor, yevm-core/src/exe.rs, with the call    *)
(* and create instructions of yevm-core/src/ops/calls.rs and SSTORE of     *)
(* ops/store.rs: the stack of call frames, the gas and the refund that     *)
(* frames lend to and give back to each other, the ether they move, and    *)
(* the world a frame that fails gives back.                                *)
(*                                                                         *)
(* A program is any sequence of instructions: the frame on top of the      *)
(* stack may take any of the steps below.  Gas is counted in units small   *)
(* enough to check; every cost is a constant, and the assumptions keep     *)
(* what the arithmetic of the code relies on.  An account has one slot,    *)
(* and what holds something at the start has a nonce or code, as every     *)
(* account of the chain with storage does.                                 *)
(*                                                                         *)
(* The cache is what Journal shows it to be where the journal has no gap:  *)
(* a return to a checkpoint restores the world of the checkpoint.  The     *)
(* gaps are left to Journal: ether reaches a new address here only with    *)
(* its creation or after it.                                               *)
(***************************************************************************)
EXTENDS Integers, Sequences, FiniteSets, FiniteSetsExt

CONSTANTS
  Contract,    \* accounts with code at the start
  New,         \* addresses at which a create may deploy
  Pre,         \* precompiles
  Sender,      \* the account that sends the transaction
  W,           \* balances are 0..W-1 and wrap: 2^256 in the code
  MaxNonce,    \* nonces are 0..MaxNonce: 2^64 - 1
  Limit,       \* the gas of the transaction, its intrinsic cost paid
  Ratio,       \* a caller keeps one part in Ratio of its gas: 64
  CallCost, ValueCost, CreateCost, DepositCost, DestroyCost,
  WarmCost, SetCost, ResetCost,    \* of SSTORE: 100, 20000 and 2900
  Stipend,     \* given to a callee that is sent ether
  Clears, Unsets, Resets,  \* refunds: for a slot cleared, and for one restored
                           \* to a zero and to a nonzero original
  Ask,         \* the gas a call instruction may ask for
  Uses,        \* the gas a precompile may use
  Values,      \* the ether a call, create or transaction may send
  Word,        \* what a slot may hold
  MaxDepth, MaxSteps,
  Genesis      \* the world at the start

None == [ok |-> FALSE, left |-> 0, refund |-> 0, made |-> {}, code |-> TRUE]  \* no result

Account == Contract \cup New \cup Pre \cup {Sender}

World == [bal : [Account -> 0 .. W - 1], nonce : [Account -> 0 .. MaxNonce + 1],
          code : [Account -> BOOLEAN], slot : [Account -> Word],
          made : SUBSET Account, doomed : SUBSET Account]

ASSUME ExecutorAssumption ==
  /\ IsFiniteSet(Account)
  /\ W \in Nat \ {0} /\ MaxNonce \in Nat \ {0} /\ Limit \in Nat
  /\ Ratio \in Nat \ {0}
  /\ CallCost \in Nat /\ ValueCost \in Nat /\ CreateCost \in Nat
  /\ DepositCost \in Nat /\ DestroyCost \in Nat
  /\ WarmCost \in Nat /\ SetCost \in Nat /\ ResetCost \in Nat
  /\ Stipend \in Nat /\ Stipend <= ValueCost
  /\ Clears \in Nat /\ Unsets \in Nat /\ Resets \in Nat
  /\ Ask \subseteq Nat /\ Uses \subseteq Nat /\ Values \subseteq 0 .. W - 1
  /\ 0 \in Word
  /\ MaxDepth \in Nat /\ MaxSteps \in Nat
  /\ Genesis \in World /\ Genesis.made = {} /\ Genesis.doomed = {}
  /\ \A a \in Account : Genesis.nonce[a] <= MaxNonce
  /\ \A a \in Account : Genesis.slot[a] # 0 => Genesis.nonce[a] # 0 \/ Genesis.code[a]
  /\ Sender \notin New

VARIABLES
  frames,   \* the call stack
  result,   \* what a frame that ended leaves for its caller, or None
  world,    \* the accounts, as the cache shows them
  steps,    \* instructions run
  phase,    \* "idle", "run", and how the run ended: "done", "stopped", "error"
  start     \* history: the world at the checkpoint of the first frame

vars == <<frames, result, world, steps, phase, start>>

\* `next` is a history field: the nonce that follows that of the frame's last
\* create.  `runs` tells a frame with code to run from one without.
Frame == [this : Account, create : BOOLEAN, static : BOOLEAN, runs : BOOLEAN,
          limit : Nat, spent : Nat, refund : Int, cp : World, next : Nat]

\* Created results carry the address and whether the code is empty.
Result == [ok : BOOLEAN, left : Nat, refund : Int,
           made : SUBSET Account, code : BOOLEAN]

----------------------------------------------------------------------------
(* Helpers.                                                                *)

Top     == frames[Len(frames)]
Left(f) == f.limit - f.spent

Charge(f, gas)   == [f EXCEPT !.spent = @ + gas]
WithTop(f)       == [frames EXCEPT ![Len(frames)] = f]
Popped           == SubSeq(frames, 1, Len(frames) - 1)

\* sub_call_gas, EIP-150.
AllBut(gas)     == gas - gas \div Ratio
Smaller(x, y)   == IF x < y THEN x ELSE y

\* Mutant: both balances are read before either is written.
MoveReadsFirst(w, from, to, v) ==
  [w EXCEPT !.bal[from] = (w.bal[from] - v) % W, !.bal[to] = (w.bal[to] + v) % W]

\* Two balance writes; balances wrap.
Move(w, from, to, v) ==
  LET paid == [w EXCEPT !.bal[from] = (@ - v) % W]
  IN  [paid EXCEPT !.bal[to] = (@ + v) % W]

Bump(w, a) == [w EXCEPT !.nonce[a] = @ + 1]

\* State::create: nonce 1, no code, an empty slot, the balance kept.
Made(w, a) ==
  [w EXCEPT !.nonce[a] = 1, !.slot[a] = 0, !.made = @ \cup {a}]

Taken(w, a) == w.nonce[a] # 0 \/ w.code[a]

NewFrame(this, create, static, runs, gas, cp) ==
  [this |-> this, create |-> create, static |-> static, runs |-> runs,
   limit |-> gas, spent |-> 0, refund |-> 0, cp |-> cp, next |-> 0]

Success(left, refund)       == [ok |-> TRUE, left |-> left, refund |-> refund,
                                made |-> {}, code |-> FALSE]
Deployed(left, refund, a, code) == [ok |-> TRUE, left |-> left, refund |-> refund,
                                    made |-> {a}, code |-> code]
Failure(left)               == [ok |-> FALSE, left |-> left, refund |-> 0,
                                made |-> {}, code |-> FALSE]

\* Addresses a transaction or a call may name: a new address only once made.
Known(a) == a \in Contract \cup Pre \cup {Sender} \/ world.nonce[a] # 0

\* set_code of a deployed contract.
WithCode(w, r) == [w EXCEPT !.code = [a \in Account |-> IF a \in r.made THEN r.code ELSE @[a]]]

\* apply: the accounts doomed by SELFDESTRUCT become empty.
Applied(w) ==
  [w EXCEPT !.bal   = [a \in Account |-> IF a \in w.doomed THEN 0 ELSE @[a]],
            !.nonce = [a \in Account |-> IF a \in w.doomed THEN 0 ELSE @[a]],
            !.code  = [a \in Account |-> a \notin w.doomed /\ @[a]],
            !.slot  = [a \in Account |-> IF a \in w.doomed THEN 0 ELSE @[a]]]

----------------------------------------------------------------------------
(* The start of a transaction: the sender's nonce, then the checkpoint.    *)

Begin ==
  /\ phase = "idle"
  /\ start' = Bump(world, Sender)
  /\ UNCHANGED steps

\* The ether moves without a look at the sender's balance.
StartCall(to, v) ==
  /\ Begin /\ to \notin Pre /\ Known(to)
  /\ world' = Move(start', Sender, to, v)
  /\ frames' = <<NewFrame(to, FALSE, FALSE, world.code[to], Limit, start')>>
  /\ result' = None /\ phase' = "run"

\* A precompile runs inline.
StartPrecompile(to, v, ok) ==
  /\ Begin /\ to \in Pre
  /\ IF ok THEN /\ world' = Move(start', Sender, to, v)
                /\ \E used \in Uses \cap 0 .. Limit : result' = Success(Limit - used, 0)
           ELSE world' = start' /\ result' = Failure(0)
  /\ frames' = <<>> /\ phase' = "done"

StartCreate(a, v) ==
  /\ Begin
  /\ IF Taken(start', a)
     THEN /\ world' = start' /\ frames' = <<>>
          /\ result' = Failure(0) /\ phase' = "done"
     ELSE /\ world' = Move(Made(start', a), Sender, a, v)
          /\ frames' = <<NewFrame(a, TRUE, FALSE, TRUE, Limit, start')>>
          /\ result' = None /\ phase' = "run"

----------------------------------------------------------------------------
(* Instructions of the frame on top.                                       *)

Running == phase = "run" /\ frames # <<>> /\ steps < MaxSteps

\* The next instruction: the result of a call, if any, was taken before it.
Op ==
  /\ Running /\ result = None /\ Top.runs
  /\ steps' = steps + 1
  /\ UNCHANGED <<phase, start>>

\* Any instruction without effect on the accounts.
Compute ==
  /\ Op /\ Left(Top) >= 1
  /\ frames' = WithTop(Charge(Top, 1))
  /\ UNCHANGED <<result, world>>

\* sstore_gas; the original of a slot is its value at the start.
StoreGas(val, cur, org) ==
  CASE val = cur               -> WarmCost
    [] val # cur /\ cur # org  -> WarmCost
    [] val # cur /\ cur = org  -> IF org = 0 THEN SetCost ELSE ResetCost

\* Mutant: a slot cleared after another write earns nothing.
StoreRefundFirstOnly(val, cur, org) ==
  CASE val = cur              -> 0
    [] val # cur /\ cur = org -> IF org # 0 /\ val = 0 THEN Clears ELSE 0
    [] val # cur /\ cur # org ->
         (IF org # 0 /\ cur = 0 THEN -Clears ELSE 0)
         + (IF val # org THEN 0 ELSE IF org = 0 THEN Unsets ELSE Resets)

StoreRefund(val, cur, org) ==
  CASE val = cur              -> 0
    [] val # cur /\ cur = org -> IF org # 0 /\ val = 0 THEN Clears ELSE 0
    [] val # cur /\ cur # org ->
         (IF org = 0 THEN 0 ELSE IF cur = 0 THEN -Clears ELSE IF val = 0 THEN Clears ELSE 0)
         + (IF val # org THEN 0 ELSE IF org = 0 THEN Unsets ELSE Resets)

Store(val) ==
  LET a   == Top.this
      cur == world.slot[a]
      org == Genesis.slot[a]
  IN
  /\ Op /\ ~Top.static
  /\ Left(Top) > Stipend /\ Left(Top) >= StoreGas(val, cur, org)
  /\ world' = [world EXCEPT !.slot[a] = val]
  /\ frames' = WithTop([Charge(Top, StoreGas(val, cur, org)) EXCEPT
                          !.refund = @ + StoreRefund(val, cur, org)])
  /\ UNCHANGED result

\* The program needs an account or a slot the cache does not hold: chain::fetch
\* fills it, the instruction runs again.
Fetch == Op /\ UNCHANGED <<frames, result, world>>

\* The chain backend fails: run returns the error, the stack stays as it is.
FetchFails ==
  /\ Running /\ result = None
  /\ phase' = "error"
  /\ UNCHANGED <<frames, result, world, steps, start>>

\* call, callcode, delegatecall, staticcall: what they cost, the gas the callee
\* gets, and what the caller pays for it.
Kind == {"call", "callcode", "delegate", "static"}

CallFee(v) == CallCost + (IF v = 0 THEN 0 ELSE ValueCost)

\* Mutant: the callee gets what it asks for.
LentAsAsked(v, ask) == ask

Lent(v, ask) == Smaller(ask, AllBut(Left(Top) - CallFee(v)))

\* Mutant: a stipend for a call that sends nothing.
GivenAlways(v, ask) == Lent(v, ask) + Stipend

Given(v, ask) == Lent(v, ask) + (IF v = 0 THEN 0 ELSE Stipend)

\* Out of gas and ether out of a static frame are among the reasons of Halt.
CanCall(kind, to, v) ==
  /\ Op /\ Known(to)
  /\ kind \in {"delegate", "static"} => v = 0
  /\ kind = "call" /\ Top.static => v = 0
  /\ Left(Top) >= CallFee(v)

\* A precompile runs inline, with no look at depth or balance.
CallPrecompile(kind, to, v, ask, ok) ==
  /\ CanCall(kind, to, v) /\ to \in Pre
  /\ \E used \in IF ok THEN Uses \cap 0 .. Given(v, ask) ELSE {Given(v, ask)} :
       frames' = WithTop(Charge(Top, CallFee(v) + Lent(v, ask) - Given(v, ask) + used))
  /\ world' = IF ok /\ kind = "call" THEN Move(world, Top.this, to, v) ELSE world
  /\ UNCHANGED result

\* The depth, then the balance, which callcode needs but does not move.
Refused(kind, v) ==
  \/ Len(frames) > MaxDepth
  \/ kind \in {"call", "callcode"} /\ world.bal[Top.this] < v

CallRefused(kind, to, v, ask) ==
  /\ CanCall(kind, to, v) /\ to \notin Pre
  /\ Refused(kind, v)
  /\ frames' = WithTop(Charge(Top, CallFee(v) + Lent(v, ask) - Given(v, ask)))
  /\ UNCHANGED <<result, world>>

\* Mutant: only the callee of a staticcall is static, not what it calls.
CallNotInherited(kind, to, v, ask) ==
  /\ CanCall(kind, to, v) /\ to \notin Pre
  /\ ~Refused(kind, v)
  /\ world' = IF kind = "call" THEN Move(world, Top.this, to, v) ELSE world
  /\ frames' = Append(WithTop(Charge(Top, CallFee(v) + Lent(v, ask))),
                      NewFrame(IF kind \in {"call", "static"} THEN to ELSE Top.this,
                               FALSE, kind = "static", world.code[to],
                               Given(v, ask), world))
  /\ UNCHANGED result

Call(kind, to, v, ask) ==
  /\ CanCall(kind, to, v) /\ to \notin Pre
  /\ ~Refused(kind, v)
  /\ world' = IF kind = "call" THEN Move(world, Top.this, to, v) ELSE world
  /\ frames' = Append(WithTop(Charge(Top, CallFee(v) + Lent(v, ask))),
                      NewFrame(IF kind \in {"call", "static"} THEN to ELSE Top.this,
                               FALSE, Top.static \/ kind = "static", world.code[to],
                               Given(v, ask), world))
  /\ UNCHANGED result

\* create, create2: the checks, the creator's nonce, the checkpoint, the
\* collision check, the account and its ether, and the frame of the init code.
CanCreate == Op /\ ~Top.static /\ Left(Top) >= CreateCost

CreateRefused(v) ==
  /\ CanCreate
  /\ \/ Len(frames) > MaxDepth
     \/ world.bal[Top.this] < v
     \/ world.nonce[Top.this] >= MaxNonce
  /\ frames' = WithTop(Charge(Top, CreateCost))
  /\ UNCHANGED <<result, world>>

\* Mutant: the checkpoint is taken before the nonce is used.
CreateAfterCheckpoint(a, v) ==
  LET by    == Top.this
      lent  == AllBut(Left(Top) - CreateCost)
      cp    == Bump(world, by)
      payer == [Charge(Top, CreateCost + lent) EXCEPT !.next = cp.nonce[by]]
  IN
  /\ CanCreate
  /\ Len(frames) <= MaxDepth /\ world.bal[by] >= v /\ world.nonce[by] < MaxNonce
  /\ \/ /\ Taken(cp, a)      \* the gas lent is lost
        /\ world' = cp
        /\ frames' = WithTop(payer)
     \/ /\ ~Taken(cp, a)
        /\ world' = Move(Made(cp, a), by, a, v)
        /\ frames' = Append(WithTop(payer), NewFrame(a, TRUE, FALSE, TRUE, lent, world))
  /\ UNCHANGED result

Create(a, v) ==
  LET by    == Top.this
      lent  == AllBut(Left(Top) - CreateCost)
      cp    == Bump(world, by)
      payer == [Charge(Top, CreateCost + lent) EXCEPT !.next = cp.nonce[by]]
  IN
  /\ CanCreate
  /\ Len(frames) <= MaxDepth /\ world.bal[by] >= v /\ world.nonce[by] < MaxNonce
  /\ \/ /\ Taken(cp, a)      \* the gas lent is lost
        /\ world' = cp
        /\ frames' = WithTop(payer)
     \/ /\ ~Taken(cp, a)
        /\ world' = Move(Made(cp, a), by, a, v)
        /\ frames' = Append(WithTop(payer), NewFrame(a, TRUE, FALSE, TRUE, lent, cp))
  /\ UNCHANGED result

----------------------------------------------------------------------------
(* The ends of a frame.                                                    *)

End(r, w) ==
  /\ Running /\ result = None
  /\ steps' = steps + 1
  /\ frames' = Popped
  /\ result' = r /\ world' = w
  /\ UNCHANGED <<phase, start>>

\* Mutant: a create whose code is refused keeps what it did.
ReturnKeepsBad(code, bad) ==
  LET cost == IF code THEN DepositCost ELSE 0 IN
  /\ Running
  /\ code => Top.runs
  /\ bad => code /\ Top.create
  /\ IF ~Top.create THEN End(Success(Left(Top), Top.refund), world)
     ELSE IF bad \/ Left(Top) < cost THEN End(Failure(0), world)
     ELSE End(Deployed(Left(Top) - cost, Top.refund, Top.this, code), world)

\* RETURN, STOP or the end of the code.  A create pays for the code it returns;
\* code too large or with a reserved first byte (bad) fails.
Return(code, bad) ==
  LET cost == IF code THEN DepositCost ELSE 0 IN
  /\ Running
  /\ code => Top.runs
  /\ bad => code /\ Top.create
  /\ IF ~Top.create THEN End(Success(Left(Top), Top.refund), world)
     ELSE IF bad \/ Left(Top) < cost THEN End(Failure(0), Top.cp)
     ELSE End(Deployed(Left(Top) - cost, Top.refund, Top.this, code), world)

\* The balance goes to another account; one made in this transaction is doomed.
SelfDestruct(b) ==
  LET a    == Top.this
      left == Left(Top) - DestroyCost
      gone == IF a \in world.made THEN {a} ELSE {}
      w    == [Move(world, a, b, world.bal[a]) EXCEPT !.doomed = @ \cup gone]
  IN
  /\ Running /\ Top.runs /\ ~Top.static /\ Known(b) /\ left >= 0
  /\ IF Top.create THEN End(Deployed(left, Top.refund, a, FALSE), w)
                   ELSE End(Success(left, Top.refund), w)

Revert == Running /\ Top.runs /\ End(Failure(Left(Top)), Top.cp)

\* Any exceptional halt: out of gas, bad opcode, a write in a static frame.
Halt == Running /\ Top.runs /\ End(Failure(0), Top.cp)

\* The caller takes the result, before its next instruction.
Resume ==
  /\ Running /\ result # None
  /\ frames' = WithTop([Top EXCEPT !.spent = @ - result.left,
                                   !.refund = @ + (IF result.ok THEN result.refund ELSE 0)])
  /\ world' = WithCode(world, result)
  /\ result' = None
  /\ UNCHANGED <<steps, phase, start>>

----------------------------------------------------------------------------
(* The ends of the transaction.                                            *)

\* MAX_STEPS: the innermost frame is rolled back, and the run returns.
StepLimit ==
  /\ phase = "run" /\ frames # <<>> /\ steps = MaxSteps
  /\ world' = Top.cp
  /\ frames' = <<>> /\ result' = Failure(0)
  /\ phase' = "stopped"
  /\ UNCHANGED <<steps, start>>

Finish ==
  /\ phase = "run" /\ frames = <<>>
  /\ world' = Applied(WithCode(world, result))
  /\ phase' = "done"
  /\ UNCHANGED <<frames, result, steps, start>>

\* The executor is used once.
Ended == phase \in {"done", "stopped", "error"} /\ UNCHANGED vars

Init ==
  /\ frames = <<>> /\ result = None
  /\ world = Genesis /\ start = Genesis
  /\ steps = 0 /\ phase = "idle"

Next ==
  \/ \E v \in Values :
       \/ \E to \in Account : StartCall(to, v)
       \/ \E to \in Pre, ok \in BOOLEAN : StartPrecompile(to, v, ok)
       \/ \E a \in New \cup Contract : StartCreate(a, v) \/ Create(a, v)
       \/ CreateRefused(v)
       \/ \E kind \in Kind, to \in Account, ask \in Ask :
            \/ Call(kind, to, v, ask) \/ CallRefused(kind, to, v, ask)
            \/ \E ok \in BOOLEAN : CallPrecompile(kind, to, v, ask, ok)
  \/ Compute \/ Fetch \/ FetchFails
  \/ \E val \in Word : Store(val)
  \/ \E code, bad \in BOOLEAN : Return(code, bad)
  \/ \E b \in Account : SelfDestruct(b)
  \/ Revert \/ Halt \/ Resume
  \/ StepLimit \/ Finish \/ Ended

Spec == Init /\ [][Next]_vars

----------------------------------------------------------------------------
(* Properties.                                                             *)

Frames == DOMAIN frames
Pending == IF result = None THEN 0 ELSE result.left

TypeOK ==
  /\ frames \in Seq(Frame)
  /\ result \in Result \cup {None}
  /\ world \in World /\ start \in World
  /\ steps \in Nat /\ phase \in {"idle", "run", "done", "stopped", "error"}

\* No frame spends gas it does not have or ends up with more than it was given,
\* and the gas of a callee is gas its caller has paid for, so that what it
\* gives back never leaves the caller with less than nothing spent.
GasIsLent ==
  /\ \A i \in Frames : frames[i].spent \in 0 .. frames[i].limit
  /\ \A i \in Frames : i > 1 => frames[i].limit <= frames[i - 1].spent
  /\ frames # <<>> => frames[1].limit = Limit /\ Pending <= Top.spent
  /\ Pending <= Limit

FrameLeft == [i \in Frames |-> Left(frames[i])]

TotalLeft == MapThenSumSet(LAMBDA i : FrameLeft[i], Frames) + Pending

\* The gas left in the transaction, over all frames, never grows: not by a
\* stipend, a refused call, a precompile or a callee's unused gas.
GasNeverGrows == [][phase = "run" => TotalLeft' <= TotalLeft]_vars

\* Nothing a static frame calls, however deep, changes an account (EIP-214).
StaticIsFrozen ==
  \A i \in Frames : frames[i].static => world = frames[i].cp

Cleared == {a \in Account : Genesis.slot[a] # 0 /\ world.slot[a] = 0}

FrameRefund == [i \in Frames |-> frames[i].refund]

TotalRefund ==
  MapThenSumSet(LAMBDA i : FrameRefund[i], Frames)
    + (IF result.ok THEN result.refund ELSE 0)

\* The refund of a frame alone may be negative, when it undoes a clear of its
\* caller.  That of the transaction is what its cleared slots earn, and what
\* its restored slots earned, through every success and failure of a frame.
RefundIsEarned ==
  phase = "run" =>
    \E i, j \in 0 .. steps :
      TotalRefund = Clears * Cardinality(Cleared) + i * Unsets + j * Resets

\* Ether is moved, never made: also by a call to itself, by a create that is
\* given ether, a frame that fails and a self-destruct.
EtherIsMoved ==
  phase # "done" =>
    MapThenSumSet(LAMBDA a : world.bal[a], Account) % W
      = MapThenSumSet(LAMBDA a : Genesis.bal[a], Account) % W

\* The nonce of a create is used up even if the create fails, so no address is
\* tried twice by an account whose frame goes on (exe.rs: incremented before
\* the snapshot so it survives collision reverts).
NoncesAreUsedUp ==
  \A i \in Frames : frames[i].next <= world.nonce[frames[i].this]

\* A transaction that fails leaves nothing but the sender's nonce.
FailedTxLeavesNoTrace == phase = "done" /\ ~result.ok => world = start
=============================================================================
