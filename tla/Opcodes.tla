------------------------------ MODULE Opcodes ------------------------------
(***************************************************************************)
(* The instructions, yevm-core/src/ops/*.rs: what each handler does, as    *)
(* the sequence of its calls into evm.rs and into the state, in the order  *)
(* of the code.  Interpreter gives the steps their meaning.  A number that *)
(* names an operand counts from the top of the stack.                      *)
(***************************************************************************)
EXTENDS Words

CONSTANT Pre   \* the addresses of precompiles

Charge(g)      == [do |-> "charge", gas |-> g]
ChargeExp      == [do |-> "charge_exp"]
Peek(n)        == [do |-> "peek", n |-> n]
Push(what)     == [do |-> "push", what |-> what]
Static         == [do |-> "static"]               \* halts in a static frame
NeedThis       == [do |-> "need_this"]            \* or yields a fetch
Need(i)        == [do |-> "need", i |-> i, but |-> {}]
NeedCode(i)    == [do |-> "need", i |-> i, but |-> Pre]    \* not of precompiles
NeedContract(i) == [do |-> "need", i |-> i, but |-> Pre \cup {0}]
NeedDelegate(i) == [do |-> "need_delegate", i |-> i]
NeedSlot       == [do |-> "need_slot"]
NeedHash       == [do |-> "need_hash"]
InRange(o, s)  == [do |-> "range", o |-> o, s |-> s]   \* mem_check_int
Fixed(o, n)    == [do |-> "fixed", o |-> o, n |-> n]   \* the same, of n bytes
RetRange(o, s) == [do |-> "ret_range", o |-> o, s |-> s]
PerWord(g, s)  == [do |-> "per_word", gas |-> g, s |-> s]
Expand(rs)     == [do |-> "expand", regions |-> rs]    \* mem_expand_max
ExpandFixed(o, n) == [do |-> "expand_fixed", o |-> o, n |-> n]
Cold(i)        == [do |-> "cold", i |-> i]             \* 2500 if cold
Access(i)      == [do |-> "access", i |-> i]           \* 2600 or 100
AccessDelegate(i) == [do |-> "access_delegate", i |-> i]
ValueCost(i, to) == [do |-> "value_cost", i |-> i, to |-> to]
Lend(i, v)     == [do |-> "lend", i |-> i, v |-> v]
Act(what)      == [do |-> what]
Yield(how)     == [do |-> "yield", how |-> how]

----------------------------------------------------------------------------
(* ops/basic.rs and ops/stack.rs                                           *)

Arith(g, n) == <<Charge(g), Peek(n), Push("alu")>>

\* EXP knows its price only after it has read the exponent.
Exp == <<Peek(2), ChargeExp, Push("alu")>>

Keccak == <<Charge(30), Peek(2), InRange(1, 2), PerWord(6, 2), Expand(<<<<1, 2>>>>),
            Push("given")>>

PushData(n) == <<Charge(IF n = 0 THEN 2 ELSE 3), Push("data"), Act("skip")>>
Dup         == <<Charge(3), Act("dup")>>
Swap        == <<Charge(3), Act("swap")>>

----------------------------------------------------------------------------
(* ops/chain.rs                                                            *)

\* Everything that pushes what the frame knows: ADDRESS, ORIGIN, CALLER, ...
Env(g) == <<Charge(g), Push("given")>>

CallDataLoad == <<Charge(3), Peek(1), Push("given")>>
BlobHash     == <<Charge(3), Peek(1), Push("given")>>

Balance     == <<Charge(100), Peek(1), Need(1), Cold(1), Push("given")>>
ExtCodeSize == Balance
ExtCodeHash == Balance

SelfBalance == <<Charge(5), NeedThis, Push("given")>>
BlockHash   == <<Charge(20), Peek(1), NeedHash, Push("hash")>>

CallDataCopy == <<Charge(3), Peek(3), InRange(1, 3), Expand(<<<<1, 3>>>>), PerWord(3, 3)>>
CodeCopy     == CallDataCopy

\* Mutant: the memory grows before the code is asked for.
ExtCodeCopyEarly ==
  <<Charge(100), Peek(4), InRange(2, 4), Expand(<<<<2, 4>>>>), Need(1), Cold(1),
    PerWord(3, 4)>>

ExtCodeCopy ==
  <<Charge(100), Peek(4), InRange(2, 4), Need(1), Cold(1), Expand(<<<<2, 4>>>>),
    PerWord(3, 4)>>

ReturnDataCopy ==
  <<Charge(3), Peek(3), InRange(2, 3), InRange(1, 3), RetRange(2, 3), PerWord(3, 3),
    Expand(<<<<1, 3>>>>)>>

----------------------------------------------------------------------------
(* ops/store.rs and ops/logs.rs                                            *)

Pop      == <<Charge(2), Peek(1)>>
MLoad    == <<Charge(3), Peek(1), Fixed(1, Bytes), ExpandFixed(1, Bytes), Push("given")>>
MStore   == <<Charge(3), Peek(2), Fixed(1, Bytes), ExpandFixed(1, Bytes)>>
MStore8  == <<Charge(3), Peek(2), Fixed(1, 1), ExpandFixed(1, 1)>>
MCopy    == <<Charge(3), Peek(3), InRange(1, 3), InRange(2, 3), PerWord(3, 3),
              Expand(<<<<2, 3>>>>), Expand(<<<<1, 3>>>>)>>
SLoad    == <<Charge(100), Peek(1), NeedSlot, Act("warm_slot"), Push("slot")>>
SStore   == <<Static, Act("sentinel"), Peek(2), NeedSlot, Act("sstore")>>
TLoad    == <<Charge(100), Peek(1), Push("temp")>>
TStore   == <<Static, Charge(100), Peek(2), Act("tstore")>>
Jump     == <<Charge(8), Peek(1), Act("jump")>>
JumpI    == <<Charge(10), Peek(2), Act("jumpi")>>
JumpDest == <<Charge(1)>>
Counter  == <<Charge(2), Push("pc")>>
MSize    == <<Charge(2), Push("msize")>>
GasLeft  == <<Charge(2), Push("gas")>>

\* The operands are checked before they are read, the topics with them.
Log(n) == <<Static, [do |-> "operands", n |-> n + 2], Peek(2), InRange(1, 2),
            [do |-> "log_cost", n |-> n], Expand(<<<<1, 2>>>>),
            [do |-> "log", n |-> n]>>

----------------------------------------------------------------------------
(* ops/calls.rs                                                            *)

Call == <<Peek(7), InRange(4, 5), InRange(6, 7), NeedThis, Need(2), NeedDelegate(2),
          Access(2), AccessDelegate(2), ValueCost(3, 2),
          Expand(<<<<4, 5>>, <<6, 7>>>>), Lend(1, 3), Yield("Call")>>

\* The transfer is to the frame itself: no account can be new.
CallCode == <<Peek(7), InRange(4, 5), InRange(6, 7), NeedContract(2), NeedDelegate(2),
              Access(2), AccessDelegate(2), Expand(<<<<4, 5>>, <<6, 7>>>>),
              [do |-> "paid_value", i |-> 3], Lend(1, 3), Yield("Call")>>

DelegateCall == <<Peek(6), InRange(3, 4), InRange(5, 6), NeedContract(2), NeedDelegate(2),
                  Access(2), AccessDelegate(2), Expand(<<<<3, 4>>, <<5, 6>>>>),
                  Lend(1, 0), Yield("Call")>>

\* The address zero is asked for late: what was charged before is reset.
StaticCall == <<Peek(6), InRange(3, 4), InRange(5, 6), NeedContract(2), NeedDelegate(2),
                Access(2), AccessDelegate(2), NeedCode(2), Expand(<<<<3, 4>>, <<5, 6>>>>),
                Lend(1, 0), Yield("Call")>>

Create  == <<Static, Charge(32000), Peek(3), InRange(2, 3), PerWord(2, 3), NeedThis,
             Expand(<<<<2, 3>>>>), Lend(0, 0), Yield("Call")>>
Create2 == <<Static, Charge(32000), Peek(4), InRange(2, 3), PerWord(8, 3),
             Expand(<<<<2, 3>>>>), Lend(0, 0), Yield("Call")>>

Return  == <<Peek(2), InRange(1, 2), Expand(<<<<1, 2>>>>), Yield("Return")>>
Revert  == <<Peek(2), InRange(1, 2), Expand(<<<<1, 2>>>>), Yield("Revert")>>

SelfDestruct == <<Static, Peek(1), Need(1), Charge(5000), Act("cold_heir"),
                  Act("bequeath"), Yield("Return")>>

----------------------------------------------------------------------------
(* ops/mod.rs: dispatch                                                    *)

Unary   == {"ISZERO", "NOT", "CLZ"}
Binary3 == {"ADD", "SUB", "LT", "GT", "SLT", "SGT", "EQ", "AND", "OR", "XOR",
            "BYTE", "SHL", "SHR", "SAR"}
Binary5 == {"MUL", "DIV", "SDIV", "MOD", "SMOD", "SIGNEXTEND"}
Ternary == {"ADDMOD", "MULMOD"}
ArithOps == Unary \cup Binary3 \cup Binary5 \cup Ternary \cup {"EXP"}

\* CALLVALUE stands for the instructions that push what the frame or its block
\* knows and read no operand.
Dispatch(op, n) ==
  CASE op = "STOP" -> <<Yield("Return")>>
    [] op \in Unary -> Arith(IF op = "CLZ" THEN 5 ELSE 3, 1)
    [] op \in Binary3 -> Arith(3, 2)
    [] op \in Binary5 -> Arith(5, 2)
    [] op \in Ternary -> Arith(8, 3)
    [] op = "EXP" -> Exp
    [] op = "KECCAK256" -> Keccak
    [] op = "CALLVALUE" -> Env(2)
    [] op = "CALLDATALOAD" -> CallDataLoad
    [] op = "BLOBHASH" -> BlobHash
    [] op = "BALANCE" -> Balance
    [] op = "EXTCODESIZE" -> ExtCodeSize
    [] op = "EXTCODEHASH" -> ExtCodeHash
    [] op = "SELFBALANCE" -> SelfBalance
    [] op = "BLOCKHASH" -> BlockHash
    [] op = "CALLDATACOPY" -> CallDataCopy
    [] op = "CODECOPY" -> CodeCopy
    [] op = "EXTCODECOPY" -> ExtCodeCopy
    [] op = "RETURNDATACOPY" -> ReturnDataCopy
    [] op = "POP" -> Pop
    [] op = "MLOAD" -> MLoad
    [] op = "MSTORE" -> MStore
    [] op = "MSTORE8" -> MStore8
    [] op = "MCOPY" -> MCopy
    [] op = "SLOAD" -> SLoad
    [] op = "SSTORE" -> SStore
    [] op = "TLOAD" -> TLoad
    [] op = "TSTORE" -> TStore
    [] op = "JUMP" -> Jump
    [] op = "JUMPI" -> JumpI
    [] op = "JUMPDEST" -> JumpDest
    [] op = "PC" -> Counter
    [] op = "MSIZE" -> MSize
    [] op = "GAS" -> GasLeft
    [] op = "PUSH" -> PushData(n)
    [] op = "DUP" -> Dup
    [] op = "SWAP" -> Swap
    [] op = "LOG" -> Log(n)
    [] op = "CALL" -> Call
    [] op = "CALLCODE" -> CallCode
    [] op = "DELEGATECALL" -> DelegateCall
    [] op = "STATICCALL" -> StaticCall
    [] op = "CREATE" -> Create
    [] op = "CREATE2" -> Create2
    [] op = "RETURN" -> Return
    [] op = "REVERT" -> Revert
    [] op = "SELFDESTRUCT" -> SelfDestruct
    [] OTHER -> <<[do |-> "invalid"]>>
=============================================================================
