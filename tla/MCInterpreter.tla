--------------------------- MODULE MCInterpreter ---------------------------
(***************************************************************************)
(* Interpreter on words of two bytes of two bits: every arithmetic         *)
(* instruction on every pair of words, and every other instruction on      *)
(* operands and gas limits around its boundaries.  Account 1 runs, 6 is a  *)
(* precompile, 2 delegates to 3, 4 to 6, 7 to itself, 0 and 5 are blank.   *)
(***************************************************************************)
EXTENDS FrameRefinement, TLC

S == INSTANCE SequencesExt

MCAuth == (2 :> 3) @@ (4 :> 6) @@ (7 :> 7)
MCBal  == [a \in Acct |-> IF a = This THEN 2 ELSE 0]
MCOrg  == [k \in Word |-> k % 2]

I(op, n) == <<[op |-> op, n |-> n]>>
Op1(op)  == I(op, 0)
Imm(v)   == I("PUSH", 2) \o I("STOP", v \div 4) \o I("STOP", v % 4)
Imms(xs) == S!FoldLeft(LAMBDA c, v : Imm(v) \o c, <<>>, xs)

Job(c, limit, static) == [code |-> c, limit |-> limit, static |-> static, born |-> limit % 2 = 0]

\* Operands x, top first, and what may follow.
Runs(op, n, xss, limits, statics) ==
  {Job(Imms(xs) \o I(op, n) \o Op1("GAS") \o Op1("MSIZE"), l, b) :
     xs \in xss, l \in limits, b \in statics}

Pairs   == {<<a, b>> : a \in Word, b \in Word}
Few     == {0, 1, 7, 8, 15}
Regions == {<<0, 0>>, <<1, 2>>, <<5, 2>>, <<4, 2>>, <<15, 2>>, <<9, 1>>, <<14, 0>>}

Arithmetic ==
     UNION {Runs(op, 0, Pairs, {100}, {FALSE}) : op \in Referenced \ {"CLZ"}}
  \cup Runs("CLZ", 0, {<<a>> : a \in Word}, {100}, {FALSE})
  \cup UNION {Runs(op, 0, Few \X Few, {100}, {FALSE}) : op \in Binary3 \cup Binary5 \cup {"EXP"}}
  \cup UNION {Runs(op, 0, Few \X Few \X {0, 5}, {100}, {FALSE}) : op \in Ternary}
  \cup UNION {Runs(op, 0, {<<a>> : a \in Few}, {4, 100}, {FALSE}) : op \in {"ISZERO", "NOT"}}
  \cup Runs("EXP", 0, {<<3, 15>>}, {10, 70, 200}, {FALSE})

MemoryJobs ==
     UNION {Runs(op, 0, {<<r[1], r[2]>> : r \in Regions}, {6, 20, 60}, {FALSE}) :
              op \in {"KECCAK256", "RETURN", "REVERT"}}
  \cup UNION {Runs(op, 0, {<<a, 1>> : a \in Word}, {10, 14, 60}, {FALSE}) :
              op \in {"MSTORE", "MSTORE8"}}
  \cup Runs("MLOAD", 0, {<<a>> : a \in Word}, {10, 60}, {FALSE})
  \cup UNION {Runs(op, 0, {<<r[1], q, r[2]>> : r \in Regions, q \in {0, 3}}, {20, 80}, {FALSE}) :
              op \in {"CALLDATACOPY", "MCOPY", "RETURNDATACOPY"}}
  \cup Runs("CODECOPY", 0, {<<4, 3, 2>>}, {20, 80}, {FALSE})
  \cup Runs("EXTCODECOPY", 0, {<<a, r[1], 0, r[2]>> : a \in {1, 5}, r \in Regions},
            {20, 130, 3000}, {FALSE})
  \cup UNION {Runs("LOG", n, {<<r[1], r[2], 1, 2>> : r \in Regions}, {20, 400, 1200}, {TRUE, FALSE}) :
              n \in {0, 2, 3}}

StateJobs ==
     UNION {Runs(op, 0, {<<a>> : a \in {0, 1, 5}}, {4, 2000, 3000}, {FALSE}) :
              op \in {"BALANCE", "BLOCKHASH", "SLOAD", "TLOAD", "CALLDATALOAD", "BLOBHASH"}}
  \cup UNION {Runs(op, 0, {<<5>>}, {2600}, {FALSE}) : op \in {"EXTCODESIZE", "EXTCODEHASH"}}
  \cup {Job(Imm(1) \o Imm(a) \o Op1(o1) \o Imm(a) \o Op1(o2), 6000, FALSE) :
          a \in {1, 5}, o1 \in {"SSTORE", "SLOAD", "BALANCE"}, o2 \in {"SLOAD", "BALANCE", "POP"}}
  \cup {Job(Imms(<<k, a, k, b>>) \o Op1("SSTORE") \o Op1("SSTORE") \o Op1("GAS"), l, s) :
          k \in {0, 1}, a \in 0 .. 2, b \in 0 .. 2, l \in {2306, 2400, 5000, 30000}, s \in {TRUE, FALSE}}
  \cup Runs("TSTORE", 0, {<<1, 2>>}, {6, 200}, {TRUE, FALSE})
  \cup Runs("SELFDESTRUCT", 0, {<<a>> : a \in {0, 1, 3, 5}}, {4, 5010, 9001, 50000}, {TRUE, FALSE})
  \cup UNION {Runs(op, 0, {<<>>}, {1, 10}, {FALSE}) :
              op \in {"SELFBALANCE", "CALLVALUE", "PC", "GAS", "POP", "STOP", "INVALID"}}

CallLimits == {15, 150, 2720, 2700, 11700, 36800, 60000}

\* After a call the same account is asked for again.
Again(a) == Op1("POP") \o Imm(a) \o Op1("BALANCE")

CallJobs ==
     {Job(Imms(<<g, a, v, r[1], r[2], q[1], q[2]>>) \o Op1(op) \o Again(a), l, s) :
        op \in {"CALL", "CALLCODE"}, g \in {7}, a \in {0, 2, 4, 6, 7}, v \in {0, 1},
        r \in {<<0, 0>>, <<3, 2>>}, q \in {<<2, 4>>, <<15, 2>>}, l \in CallLimits, s \in {TRUE, FALSE}}
  \cup {Job(Imms(<<0, a, r[1], r[2], q[1], q[2]>>) \o Op1(op) \o Again(a), l, FALSE) :
        op \in {"DELEGATECALL", "STATICCALL"}, a \in {0, 2, 4, 5, 6, 7}, r \in {<<0, 0>>, <<3, 2>>}, q \in {<<2, 4>>, <<15, 2>>}, l \in CallLimits}
  \cup {Job(Imms(<<0, r[1], r[2], 1>>) \o Op1(op) \o Op1("GAS"), l, s) :
        op \in {"CREATE", "CREATE2"}, r \in Regions, l \in {20, 32014, 32040, 40000}, s \in {TRUE, FALSE}}

\* Loops that only gas ends, a jump into the data of a PUSH, stacks that fill.
ControlJobs ==
     {Job(Op1("JUMPDEST") \o Imms(<<d, c>>) \o Op1("JUMPI") \o I("PUSH", 1) \o I("JUMPDEST", 1), l, FALSE) :
        d \in {0, 1, 15, 8}, c \in {0, 1}, l \in {40, 200}}
  \cup {Job(I("PUSH", 1) \o I("STOP", d) \o Op1("JUMP") \o I("PUSH", 1) \o I("JUMPDEST", 1), l, FALSE) :
        d \in 0 .. 3, l \in {2, 20, 100}}
  \cup {Job(Op1("JUMPDEST") \o Op1("CALLVALUE") \o I("PUSH", 0) \o Op1("JUMP"), l, FALSE) :
        l \in {100, 200, 400}}
  \cup {Job(Imm(1) \o Imm(2) \o I(op, n) \o I(op, n), 40, FALSE) : op \in {"DUP", "SWAP"}, n \in 1 .. 3}

MCJobs == Arithmetic \cup MemoryJobs \cup StateJobs \cup CallJobs \cup ControlJobs
=============================================================================
