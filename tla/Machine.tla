------------------------------ MODULE Machine ------------------------------
(***************************************************************************)
(* One frame of the interpreter, yevm-core/src/evm.rs: what it keeps, and  *)
(* what each step of an instruction (Opcodes) does to it.  What an         *)
(* instruction takes from the stack, pushes, pays, is refunded and warms   *)
(* is pending until `apply`, and forgotten by `reset`; it changes memory,  *)
(* pc, the order of the stack and the state at once.                       *)
(*                                                                         *)
(* The contents of memory and what the frame is given (call data, code,    *)
(* its block) are left out: an instruction that reads them pushes Given.   *)
(***************************************************************************)
EXTENDS Opcodes

CONSTANTS
  StackLimit,   \* 1024
  MemLimit,     \* 2^24
  Quad,         \* 512
  A,            \* an address is a word modulo A: 2^160
  This,         \* the account the frame runs as
  Blank,        \* accounts without nonce and code
  Auth,         \* the accounts that delegate, and to which
  Bal,          \* balances at the start
  Org,          \* the slots of This: their originals
  Given,        \* a word
  Height,       \* the number of the block the frame runs in
  Window        \* how far back BLOCKHASH reaches: 256

Fn == INSTANCE Functions

Acct   == 0 .. A - 1
Addr(x) == x % A

ASSUME MachineAssumption ==
  /\ StackLimit \in Nat /\ Quad \in Nat \ {0} /\ A \in Nat \ {0}
  /\ MemLimit \in Nat /\ MemLimit < U /\ MemLimit % Bytes = 0
  /\ This \in Acct /\ Pre \subseteq Acct /\ Blank \subseteq Acct
  /\ DOMAIN Auth \subseteq Acct \ Pre /\ \A a \in DOMAIN Auth : Auth[a] \in Acct
  /\ Bal \in [Acct -> Nat] /\ Org \in [Word -> Word] /\ Given \in Word
  /\ Height \in Nat /\ Window \in Nat

\* What may be missing from the cache.
Everything == ({"acc"} \X Acct) \cup ({"slot", "hash"} \X Word)

Start(limit, static, born) ==
  [pc |-> 0, limit |-> limit, spent |-> 0, refund |-> 0, stack |-> <<>>,
   mem |-> 0, ret |-> 0, static |-> static, born |-> born,
   pops |-> 0, push |-> <<>>, charge |-> 0, gain |-> 0, accs |-> <<>>, keys |-> {},
   out |-> "Ok", want |-> {}, lent |-> 0, target |-> <<0, 0>>,
   \* the state
   known |-> {<<"acc", This>>}, warm |-> Pre, warmKeys |-> {}, slot |-> Org,
   temp |-> [k \in Word |-> 0], bal |-> Bal, logs |-> 0, gone |-> FALSE,
   \* history: memory paid for, cold surcharges paid, and their pending parts
   paid |-> 0, owed |-> 0, colds |-> [a \in Acct |-> 0], cold |-> <<>>]

----------------------------------------------------------------------------
(* evm.rs                                                                  *)

Arg(f, i)    == f.stack[Len(f.stack) - i + 1]
Args(f)      == [i \in 1 .. f.pops |-> Arg(f, i)]
Remaining(f) == f.limit - f.spent - f.charge
Halt(f, why) == [f EXCEPT !.out = why]

Pay(f, g) ==
  IF g > Remaining(f)
  THEN [f EXCEPT !.charge = @ + (f.limit - f.spent), !.out = "OutOfGas"]
  ELSE [f EXCEPT !.charge = @ + g]

\* Mutant: the limit is checked without what is pending.
PushWordPast(f, v) ==
  IF Len(f.stack) - f.pops > StackLimit
  THEN Halt(f, "StackOverflow")
  ELSE [f EXCEPT !.push = Append(@, v)]

PushWord(f, v) ==
  IF Len(f.stack) - f.pops + Len(f.push) >= StackLimit
  THEN Halt(f, "StackOverflow")
  ELSE [f EXCEPT !.push = Append(@, v)]

Fetch(f, item) ==
  IF item \in f.known THEN f ELSE [f EXCEPT !.out = "Fetch", !.want = {item}]

Warm(f, a)  == [f EXCEPT !.accs = Append(@, a)]
Surcharge(f, a) == [f EXCEPT !.cold = Append(@, a)]
IsCold(f, a) == a \notin f.warm

\* mem_check_int: words, so the sum wraps; mem_check: usizes.
RangeFits(o, s)  == s <= MemLimit /\ (o + s) % W <= MemLimit
RegionFits(o, s) == s <= MemLimit /\ o <= MemLimit - s

RoundUp(n)  == ((n + Bytes - 1) \div Bytes) * Bytes
Cost(bytes) == LET w == bytes \div Bytes IN (w * w) \div Quad + 3 * w

\* mem_expand and mem_expand_max: a region of size 0 counts for nothing.
Grow(f, regions) ==
  LET real == {r \in regions : r[2] > 0}
      end  == Max({f.mem} \cup {RoundUp(r[1] + r[2]) : r \in real})
      g    == Pay(f, Cost(end) - Cost(f.mem))
  IN  IF \E r \in real : ~RegionFits(r[1], r[2]) THEN Halt(f, "OutOfMemory")
      ELSE IF end = f.mem \/ g.out # "Ok" THEN g
      ELSE [g EXCEPT !.mem = end, !.owed = @ + (Cost(end) - Cost(f.mem))]

\* Mutant: the colds of one instruction are not kept for the next.
ApplyNoWarm(f) ==
  [f EXCEPT !.stack = SubSeq(@, 1, Len(@) - f.pops) \o f.push,
            !.spent = @ + f.charge, !.refund = @ + f.gain,
            !.warmKeys = @ \cup f.keys,
            !.paid = @ + f.owed,
            !.colds = [a \in Acct |-> @[a] + Cardinality({i \in DOMAIN f.cold : f.cold[i] = a})],
            !.pops = 0, !.push = <<>>, !.charge = 0, !.gain = 0, !.accs = <<>>,
            !.keys = {}, !.owed = 0, !.cold = <<>>]

Apply(f) ==
  [f EXCEPT !.stack = SubSeq(@, 1, Len(@) - f.pops) \o f.push,
            !.spent = @ + f.charge, !.refund = @ + f.gain,
            !.warm = @ \cup Fn!Range(f.accs), !.warmKeys = @ \cup f.keys,
            !.paid = @ + f.owed,
            !.colds = [a \in Acct |-> @[a] + Cardinality({i \in DOMAIN f.cold : f.cold[i] = a})],
            !.pops = 0, !.push = <<>>, !.charge = 0, !.gain = 0, !.accs = <<>>,
            !.keys = {}, !.owed = 0, !.cold = <<>>]

\* Mutant: what a repeated instruction was charged is charged again.
ResetKeepsCharge(f) ==
  [f EXCEPT !.pops = 0, !.push = <<>>, !.spent = @ + f.charge, !.charge = 0, !.gain = 0,
            !.accs = <<>>, !.keys = {}, !.out = "Ok", !.want = {}, !.owed = 0, !.cold = <<>>]

Reset(f) ==
  [f EXCEPT !.pops = 0, !.push = <<>>, !.charge = 0, !.gain = 0, !.accs = <<>>,
            !.keys = {}, !.out = "Ok", !.want = {}, !.owed = 0, !.cold = <<>>]

----------------------------------------------------------------------------
(* The steps that take more than one of the above.                         *)

Delegate(f, a) ==
  IF a \in DOMAIN Auth /\ <<"acc", a>> \in f.known THEN {Auth[a]} ELSE {}

PayAccess(f, a) ==
  LET g == Pay(Warm(f, a), IF IsCold(f, a) THEN 2600 ELSE 100)
  IN  IF IsCold(f, a) THEN Surcharge(g, a) ELSE g

IsEmpty(f, a) == a \in Blank /\ f.bal[a] = 0

Price(f, v, to) ==
  IF v = 0 THEN f
  ELSE IF f.static THEN Halt(f, "NonStatic")
  ELSE LET g == Pay(f, 9000)
       IN  IF g.out = "Ok" /\ IsEmpty(f, to) THEN Pay(g, 25000) ELSE g

\* EIP-150: all but one part in 64; the stipend is not charged.
LendGas(f, ask, value) ==
  LET most == Remaining(f) - Remaining(f) \div 64
      gas  == IF ask < most THEN ask ELSE most
  IN  [Pay(f, gas) EXCEPT !.lent = gas + (IF value THEN 2300 ELSE 0)]

SstoreGas(val, cur, org) ==
  IF val # cur /\ cur = org THEN (IF org = 0 THEN 20000 ELSE 2900) ELSE 100

SstoreRefund(val, cur, org) ==
  IF val = cur THEN 0
  ELSE IF cur = org THEN (IF org # 0 /\ val = 0 THEN 4800 ELSE 0)
  ELSE (IF org = 0 THEN 0 ELSE IF cur = 0 THEN -4800 ELSE IF val = 0 THEN 4800 ELSE 0)
       + (IF val # org THEN 0 ELSE IF org = 0 THEN 19900 ELSE 2800)

Sstore(f, key, val) ==
  LET cur == f.slot[key]
      org == Org[key]
      new == key \notin f.warmKeys
      g   == Pay([f EXCEPT !.keys = IF new THEN {key} ELSE @],
                 SstoreGas(val, cur, org) + (IF new THEN 2100 ELSE 0))
  IN  IF g.out # "Ok" THEN g
      ELSE [g EXCEPT !.gain = @ + SstoreRefund(val, cur, org), !.slot[key] = val]

\* SELFDESTRUCT, after its beneficiary is known.
ColdHeir(f, a) ==
  LET g == IF IsCold(f, a) THEN Surcharge(Pay(f, 2600), a) ELSE f
  IN  IF g.out = "Ok" THEN Warm(g, a) ELSE g

Bequeath(f, heir) ==
  LET moves == f.bal[This] # 0 /\ heir # This
      g     == IF moves /\ IsEmpty(f, heir) THEN Pay(f, 25000) ELSE f
      h     == IF moves THEN [g EXCEPT !.bal[heir] = @ + g.bal[This], !.bal[This] = 0] ELSE g
  IN  IF g.out = "Ok" THEN [h EXCEPT !.gone = f.born] ELSE g

Target(f, code, i) ==
  LET d == AsUsize(Arg(f, i))
  IN  IF d < Len(code) /\ code[d + 1].op = "JUMPDEST"
      THEN [f EXCEPT !.pc = d] ELSE Halt(f, "BadJump")

\* PUSH reads its bytes from the code; those past its end are zero.
PushedData(f, code, n) ==
  LET at(i) == f.pc + 1 + i
      part  == [i \in 1 .. n |->
                  IF at(i) <= Len(code)
                  THEN (code[at(i)].n % Two[ByteBits]) * Two[ByteBits * (n - i)] ELSE 0]
  IN  MapThenSumSet(LAMBDA i : part[i], 1 .. n)

HashNumber(f) == AsUsize(Arg(f, 1))
InWindow(n)   == n < Height /\ Height - n <= Window

\* What an instruction pushes.
Pushed(f, code, op, what) ==
  CASE what = "alu" -> Compute(op, Args(f))
    [] what = "data" -> PushedData(f, code, code[f.pc + 1].n)
    [] what = "slot" -> f.slot[Arg(f, 1)]
    [] what = "temp" -> f.temp[Arg(f, 1)]
    [] what = "hash" -> IF InWindow(HashNumber(f)) THEN Given ELSE 0
    [] what = "pc" -> f.pc % W
    [] what = "msize" -> f.mem % W
    [] what = "gas" -> Remaining(f) % W
    [] what = "given" -> Given

\* A log of size bytes: no product of its size may pass the width of a word.
PayLog(f, base, size) ==
  IF Remaining(f) < base \/ size > (Remaining(f) - base) \div 8
  THEN [f EXCEPT !.charge = @ + Remaining(f), !.out = "OutOfGas"]
  ELSE Pay(f, base + 8 * size)

----------------------------------------------------------------------------
(* One step of an instruction.                                             *)

Do(f, code, op, s) ==
  CASE s.do = "charge" -> Pay(f, s.gas)
    [] s.do = "charge_exp" -> Pay(f, ExpCost(Arg(f, 2)))
    [] s.do = "peek" -> IF Len(f.stack) < s.n THEN Halt(f, "StackUnderflow")
                        ELSE [f EXCEPT !.pops = s.n]
    [] s.do = "operands" -> IF Len(f.stack) < s.n THEN Halt(f, "StackUnderflow") ELSE f
    [] s.do = "push" -> PushWord(f, Pushed(f, code, op, s.what))
    [] s.do = "static" -> IF f.static THEN Halt(f, "NonStatic") ELSE f
    [] s.do = "need_this" -> Fetch(f, <<"acc", This>>)
    [] s.do = "need" ->
         IF Addr(Arg(f, s.i)) \in s.but THEN f
         ELSE Fetch(f, <<"acc", Addr(Arg(f, s.i))>>)
    [] s.do = "need_delegate" ->
         LET d == Delegate(f, Addr(Arg(f, s.i)))
         IN  IF d = {} THEN f ELSE Fetch(f, <<"acc", Max(d)>>)
    [] s.do = "need_slot" -> Fetch(f, <<"slot", Arg(f, 1)>>)
    [] s.do = "need_hash" ->
         IF InWindow(HashNumber(f)) THEN Fetch(f, <<"hash", HashNumber(f)>>) ELSE f
    [] s.do = "range" ->
         IF RangeFits(Arg(f, s.o), Arg(f, s.s)) THEN f ELSE Halt(f, "OutOfMemory")
    [] s.do = "fixed" ->
         IF RangeFits(Arg(f, s.o), s.n) THEN f ELSE Halt(f, "OutOfMemory")
    [] s.do = "ret_range" ->
         IF AsUsize(Arg(f, s.o)) + AsUsize(Arg(f, s.s)) <= f.ret
            \/ (Arg(f, s.o) + Arg(f, s.s)) % W <= f.ret
         THEN f ELSE Halt(f, "BadCopyRange")
    [] s.do = "per_word" -> Pay(f, s.gas * (RoundUp(AsUsize(Arg(f, s.s))) \div Bytes))
    [] s.do = "expand" ->
         Grow(f, {<<AsUsize(Arg(f, r[1])), AsUsize(Arg(f, r[2]))>> : r \in Fn!Range(s.regions)})
    [] s.do = "expand_fixed" -> Grow(f, {<<AsUsize(Arg(f, s.o)), s.n>>})
    [] s.do = "cold" ->
         LET a == Addr(Arg(f, s.i))
         IN  IF IsCold(f, a) THEN Pay(Surcharge(Warm(f, a), a), 2500) ELSE f
    [] s.do = "access" -> PayAccess(f, Addr(Arg(f, s.i)))
    [] s.do = "access_delegate" ->
         LET d == Delegate(f, Addr(Arg(f, s.i)))
         IN  IF d = {} THEN f ELSE PayAccess(f, Max(d))
    [] s.do = "value_cost" -> Price(f, Arg(f, s.i), Addr(Arg(f, s.to)))
    [] s.do = "paid_value" -> IF Arg(f, s.i) = 0 THEN f ELSE Pay(f, 9000)
    [] s.do = "lend" ->
         LendGas(f, IF s.i = 0 THEN Remaining(f) ELSE AsUsize(Arg(f, s.i)),
                 s.v # 0 /\ Arg(f, s.v) # 0)
    [] s.do = "warm_slot" ->
         LET k == Arg(f, 1)
         IN  IF k \in f.warmKeys THEN f
             ELSE Pay([f EXCEPT !.warmKeys = @ \cup {k}], 2000)
    [] s.do = "sentinel" -> IF Remaining(f) <= 2300 THEN Halt(f, "GasBelowStipend") ELSE f
    [] s.do = "sstore" -> Sstore(f, Arg(f, 1), Arg(f, 2))
    [] s.do = "tstore" -> [f EXCEPT !.temp[Arg(f, 1)] = Arg(f, 2)]
    [] s.do = "log_cost" -> PayLog(f, 375 + 375 * s.n, AsUsize(Arg(f, 2)))
    [] s.do = "log" -> [f EXCEPT !.pops = s.n + 2, !.logs = @ + 1]
    [] s.do = "jump" -> Target(f, code, 1)
    [] s.do = "jumpi" ->
         IF Arg(f, 2) = 0 THEN [f EXCEPT !.pc = @ + 1] ELSE Target(f, code, 1)
    [] s.do = "skip" -> [f EXCEPT !.pc = @ + code[f.pc + 1].n]
    [] s.do = "dup" ->
         LET n == code[f.pc + 1].n
         IN  IF Len(f.stack) < n THEN Halt(f, "StackUnderflow") ELSE PushWord(f, Arg(f, n))
    [] s.do = "swap" ->
         LET n == code[f.pc + 1].n
             l == Len(f.stack)
         IN  IF l <= n THEN Halt(f, "StackUnderflow")
             ELSE [f EXCEPT !.stack = [@ EXCEPT ![l] = f.stack[l - n], ![l - n] = f.stack[l]]]
    [] s.do = "cold_heir" -> ColdHeir(f, Addr(Arg(f, 1)))
    [] s.do = "bequeath" -> Bequeath(f, Addr(Arg(f, 1)))
    [] s.do = "yield" -> [f EXCEPT !.out = s.how]
    [] s.do = "invalid" -> Halt(f, "BadOpcode")

\* A handler stops at the first step that does not go through.  (The set makes
\* TLC evaluate what the steps before have made of the frame once.)
Handle(f, code) ==
  LET b     == code[f.pc + 1]
      steps == Dispatch(b.op, b.n)
      after[k \in 0 .. Len(steps)] ==
        IF k = 0 THEN f
        ELSE CHOOSE r \in {IF h.out = "Ok" THEN Do(h, code, b.op, steps[k]) ELSE h :
                             h \in {after[k - 1]}} : TRUE
  IN  after[Len(steps)]

\* The region a call instruction names for what the callee returns.
ReturnRegion(f, code) ==
  LET op == code[f.pc + 1].op
      i  == CASE op \in {"CALL", "CALLCODE"} -> 6
              [] op \in {"DELEGATECALL", "STATICCALL"} -> 5
              [] OTHER -> 0
  IN  IF i = 0 THEN <<0, 0>> ELSE <<AsUsize(Arg(f, i)), AsUsize(Arg(f, i + 1))>>
=============================================================================
