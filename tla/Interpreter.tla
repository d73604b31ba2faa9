---------------------------- MODULE Interpreter ----------------------------
(***************************************************************************)
(* A frame as the executor runs it: Evm::step of yevm-core/src/evm.rs,     *)
(* called in a loop by exe.rs.  An instruction that needs what the cache   *)
(* does not hold yields a fetch; the executor asks the chain, resets what  *)
(* is pending, and the instruction runs again from its start.              *)
(*                                                                         *)
(* A call instruction suspends the frame.  Its callee is left to Executor: *)
(* it returns part of the gas lent to it, some data and a status.          *)
(***************************************************************************)
EXTENDS Machine

CONSTANTS
  Jobs,      \* what a frame may be started with: code, limit, static, born
  RetSizes   \* the sizes of what a callee may return

ASSUME InterpreterAssumption ==
  /\ RetSizes \subseteq Nat
  /\ \A j \in Jobs :
       /\ j.code \in Seq([op : STRING, n : Nat]) /\ j.limit \in Nat
       /\ j.static \in BOOLEAN /\ j.born \in BOOLEAN
       /\ \A i \in DOMAIN j.code :
            /\ j.code[i].op = "PUSH" => j.code[i].n <= Bytes
            /\ j.code[i].op \in {"DUP", "SWAP"} => j.code[i].n >= 1

VARIABLES
  code,     \* the bytes: each is an opcode and a number
  frame,    \* the frame
  status,   \* "running", "fetching", "Call", or how the frame ended
  last      \* history: the arithmetic instruction just done, with its operands

vars == <<code, frame, status, last>>

None == [op |-> "none", x |-> <<>>]

Init ==
  \E j \in Jobs :
    /\ code = j.code
    /\ frame = Start(j.limit, j.static, j.born)
    /\ status = "running"
    /\ last = None

----------------------------------------------------------------------------
(* The arms of Evm::step.                                                  *)

Op       == code[frame.pc + 1].op
Stepped  == Handle(frame, code)
Running  == status = "running" /\ frame.pc < Len(code)
IsJump   == Op \in {"JUMP", "JUMPI"}

\* No more code: the frame succeeds, and emits nothing.
End ==
  /\ status = "running" /\ frame.pc >= Len(code)
  /\ status' = "End"
  /\ last' = None
  /\ UNCHANGED <<code, frame>>

\* What the handler made of the frame, f, decides.
Done(f) ==
  /\ f.out = "Ok"
  /\ frame' = [Apply(f) EXCEPT !.pc = IF IsJump THEN @ ELSE @ + 1]
  /\ last' = IF Op \in ArithOps THEN [op |-> Op, x |-> Args(f)] ELSE None
  /\ UNCHANGED status

\* Evm::step resets, and the executor resets again once it has the answer.
AsksForData(f) ==
  /\ f.out = "Fetch"
  /\ frame' = [Reset(f) EXCEPT !.want = f.want]
  /\ status' = "fetching"
  /\ last' = None

\* Return, Revert and every way to halt.
Leaves(f) ==
  /\ f.out \notin {"Ok", "Fetch", "Call"}
  /\ frame' = Apply(f)
  /\ status' = f.out
  /\ last' = None

Calls(f) ==
  /\ f.out = "Call"
  /\ frame' = [Apply(f) EXCEPT !.target = ReturnRegion(frame, code)]
  /\ status' = "Call"
  /\ last' = None

Instruction ==
  /\ Running
  /\ \E f \in {Stepped} : Done(f) \/ AsksForData(f) \/ Leaves(f) \/ Calls(f)
  /\ UNCHANGED code

Step == End \/ Instruction

----------------------------------------------------------------------------
(* The executor and the chain.                                             *)

\* Mutant: the answer is lost.
AnswerLost ==
  /\ status = "fetching"
  /\ frame' = Reset(frame)
  /\ status' = "running"
  /\ UNCHANGED <<code, last>>

Answer ==
  /\ status = "fetching"
  /\ frame' = [Reset(frame) EXCEPT !.known = @ \cup frame.want]
  /\ status' = "running"
  /\ UNCHANGED <<code, last>>

\* The error leaves the executor by `?`.
FetchFails ==
  /\ status = "fetching"
  /\ frame' = Reset(frame)
  /\ status' = "failed"
  /\ UNCHANGED <<code, last>>

\* Mutant: a callee that fails is given back more than it left.
CallEndsRich ==
  /\ status = "Call"
  /\ \E ok \in {0, 1}, left \in {0, frame.lent}, size \in RetSizes :
       LET g == Grow(PushWord([frame EXCEPT !.out = "Ok"], ok), {frame.target})
       IN  frame' = [Apply([g EXCEPT !.ret = size, !.spent = @ - left - 2300]) EXCEPT
                       !.pc = @ + 1, !.out = "Ok", !.target = <<0, 0>>, !.lent = 0]
  /\ status' = "running"
  /\ UNCHANGED <<code, last>>

\* What the callee left is given back; what it returns is copied into the
\* region the instruction named and already paid for.
CallEnds ==
  /\ status = "Call"
  /\ \E ok \in {0, 1}, left \in {0, frame.lent}, size \in RetSizes :
       LET g == Grow(PushWord([frame EXCEPT !.out = "Ok"], ok), {frame.target})
       IN  frame' = [Apply([g EXCEPT !.ret = size, !.spent = @ - left]) EXCEPT
                       !.pc = @ + 1, !.out = "Ok", !.target = <<0, 0>>, !.lent = 0]
  /\ status' = "running"
  /\ UNCHANGED <<code, last>>

Ended == status \notin {"running", "fetching", "Call"}

Stop == Ended /\ UNCHANGED vars

Next == Step \/ Answer \/ FetchFails \/ CallEnds \/ Stop

\* The executor's loop goes on, a fetch is answered or fails, a callee ends.
Fairness == WF_vars(Step) /\ WF_vars(Answer) /\ WF_vars(CallEnds)

Spec == Init /\ [][Next]_vars /\ Fairness

----------------------------------------------------------------------------
(* Properties.                                                             *)

\* At most 1024 words on the stack, memory in whole words within its limit, at
\* most two accounts to be warmed (the array that holds them has two places),
\* nothing pending between instructions.
TypeOK ==
  /\ frame.stack \in Seq(Word) /\ Len(frame.stack) <= StackLimit
  /\ frame.mem \in 0 .. MemLimit /\ frame.mem % Bytes = 0
  /\ frame.spent \in Int /\ frame.refund \in Int
  /\ frame.pops = 0 /\ frame.push = <<>> /\ frame.charge = 0 /\ frame.gain = 0
  /\ Running => Len(Stepped.accs) <= 2 /\ Cardinality(Stepped.keys) <= 1
  /\ frame.known \subseteq Everything /\ frame.want \subseteq Everything

\* A frame has paid for exactly the memory it has, whatever was fetched in the
\* middle of the instructions that made it grow, and in whatever pieces.
MemoryIsPaid == frame.paid = Cost(frame.mem)

\* The gas of a frame and what it has lent never grow together, though the
\* stipend is lent for nothing (calls.rs:133), and are never overdrawn but by the
\* step that runs out of gas.
Gas == frame.limit - frame.spent + frame.lent
GasIsNotMade == [][Gas' <= Gas /\ (status' # "OutOfGas" => Gas' >= 0)]_vars

\* "EIP-2929: warm/cold address access (use pending warm to survive
\* Fetch+reset)" (calls.rs:78): an account is cold once.
ColdIsPaidOnce == \A a \in Acct : frame.colds[a] <= 1

\* What the code keeps of it: no account is paid for as cold more often than one
\* instruction reaches it, however often a frame asks for it afterwards, by
\* whatever instruction, and whatever yields and is repeated.  That is once but
\* for the account that delegates to itself, which eip7702.rs allows: a call of
\* it reaches it as the account and as the delegate, and is_cold_acc asks the
\* state, not what is pending.
OwnDelegate(a) == a \in DOMAIN Auth /\ Auth[a] = a
Reached(a) == IF OwnDelegate(a) THEN 2 ELSE 1
ColdIsPaidAsReached == \A a \in Acct : frame.colds[a] <= Reached(a)

\* The signed instructions, computed with masks, flipped bits and absolute
\* values, are arithmetic on signed numbers.
ArithmeticIsExact ==
  last.op \in Referenced =>
    frame.stack[Len(frame.stack)] = Reference(last.op, last.x)

\* A frame comes to its end: no loop is free, and no instruction is repeated
\* for ever for want of data.
Ends == <>Ended
=============================================================================
