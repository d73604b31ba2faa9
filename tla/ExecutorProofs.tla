--------------------------- MODULE ExecutorProofs ---------------------------
(***************************************************************************)
(* Executor: types, and the gas that frames lend each other.  The two are  *)
(* one invariant: a callee's gas is a natural number because its caller    *)
(* had that much left, and the caller gets back no more than it paid,      *)
(* because no frame spends more than it was given.  Then what a failure    *)
(* gives back, the ether, the gas of all frames, and the refund.           *)
(***************************************************************************)
EXTENDS Executor, Sums, SequenceTheorems, TLAPS

\* A stack of frames in which every frame but the first is paid by the one below.
Stack(fs) ==
  /\ fs \in Seq(Frame)
  /\ \A i \in 1 .. Len(fs) : fs[i].spent \in 0 .. fs[i].limit /\ fs[i].limit <= Limit
  /\ \A i \in 1 .. Len(fs) : i > 1 => fs[i].limit <= fs[i - 1].spent
  /\ fs # <<>> => fs[1].limit = Limit

ResultOf(r, fs) ==
  /\ r \in Result
  /\ r.left <= Limit
  /\ fs # <<>> => r.left <= fs[Len(fs)].spent

\* The inductive invariant.
ExecInv ==
  /\ Stack(frames)
  /\ result # None => ResultOf(result, frames)
  /\ world \in World /\ start \in World
  /\ steps \in Nat /\ phase \in {"idle", "run", "done", "stopped", "error"}
  /\ phase = "idle" => world = Genesis

----------------------------------------------------------------------------
(* Stacks.                                                                 *)

\* Popping the top leaves a stack that paid for it.
LEMMA PopStack ==
  ASSUME NEW fs, Stack(fs), fs # <<>>
  PROVE  /\ fs[Len(fs)] \in Frame
         /\ Stack(SubSeq(fs, 1, Len(fs) - 1))
         /\ SubSeq(fs, 1, Len(fs) - 1) # <<>> =>
              LET gs == SubSeq(fs, 1, Len(fs) - 1) IN
              fs[Len(fs)].limit <= gs[Len(gs)].spent
<1> DEFINE gs == SubSeq(fs, 1, Len(fs) - 1)
<1>1. fs \in Seq(Frame) /\ Len(fs) \in Nat /\ Len(fs) >= 1
  BY EmptySeq DEF Stack
<1>2. fs[Len(fs)] \in Frame
  BY <1>1
<1>3. gs \in Seq(Frame) /\ Len(gs) = Len(fs) - 1
  BY <1>1
<1>4. \A i \in 1 .. Len(gs) : gs[i] = fs[i] /\ i \in 1 .. Len(fs)
  BY <1>1, <1>3
<1>5. Stack(gs)
  <2>1. \A i \in 1 .. Len(gs) : gs[i].spent \in 0 .. gs[i].limit /\ gs[i].limit <= Limit
    <3>1. \A i \in 1 .. Len(fs) : fs[i].spent \in 0 .. fs[i].limit /\ fs[i].limit <= Limit
      BY DEF Stack
    <3> HIDE DEF gs
    <3> QED BY <1>4, <3>1, Zenon
  <2>2. \A i \in 1 .. Len(gs) : i > 1 => gs[i].limit <= gs[i - 1].spent
    <3> SUFFICES ASSUME NEW i \in 1 .. Len(gs), i > 1 PROVE gs[i].limit <= gs[i - 1].spent
      OBVIOUS
    <3>1. i - 1 \in 1 .. Len(gs)
      BY <1>1, <1>3
    <3> QED BY <1>4, <3>1 DEF Stack
  <2>3. gs # <<>> => gs[1].limit = Limit
    <3> SUFFICES ASSUME gs # <<>> PROVE gs[1].limit = Limit
      OBVIOUS
    <3>1. 1 \in 1 .. Len(gs)
      BY <1>3, EmptySeq
    <3> QED BY <1>4, <3>1 DEF Stack
  <2> QED BY <1>3, <2>1, <2>2, <2>3 DEF Stack
<1>6. gs # <<>> => fs[Len(fs)].limit <= gs[Len(gs)].spent
  <2> SUFFICES ASSUME gs # <<>> PROVE fs[Len(fs)].limit <= gs[Len(gs)].spent
    OBVIOUS
  <2>1. Len(gs) \in 1 .. Len(gs) /\ Len(fs) \in 1 .. Len(fs) /\ Len(fs) > 1
    BY <1>1, <1>3, EmptySeq
  <2>2. fs[Len(fs)].limit <= fs[Len(fs) - 1].spent
    BY <2>1 DEF Stack
  <2>3. gs[Len(gs)] = fs[Len(fs) - 1]
    BY <1>3, <1>4, <2>1
  <2> QED BY <2>2, <2>3
<1> QED BY <1>2, <1>5, <1>6

\* The top may spend, or get back, what stays within its limit.
LEMMA TopStack ==
  ASSUME NEW fs, Stack(fs), fs # <<>>,
         NEW g \in Frame, g.limit = fs[Len(fs)].limit, g.spent \in 0 .. g.limit
  PROVE  LET gs == [fs EXCEPT ![Len(fs)] = g] IN
         Stack(gs) /\ gs # <<>> /\ gs[Len(gs)] = g
<1> DEFINE n  == Len(fs)
           gs == [fs EXCEPT ![n] = g]
<1>1. fs \in Seq(Frame) /\ n \in Nat /\ n >= 1 /\ n = Len(fs) /\ n \in 1 .. n
  BY EmptySeq DEF Stack
<1> HIDE DEF n
<1>2. gs \in Seq(Frame) /\ Len(gs) = n
  BY <1>1
<1>3. gs[n] = g /\ \A i \in 1 .. n : i # n => gs[i] = fs[i]
  BY <1>1
<1> HIDE DEF gs
<1>4. gs # <<>>
  BY <1>1, <1>2, EmptySeq
<1>5. /\ \A i \in 1 .. n : fs[i].spent \in 0 .. fs[i].limit /\ fs[i].limit <= Limit
      /\ \A i \in 1 .. n : i > 1 => fs[i].limit <= fs[i - 1].spent
      /\ fs[1].limit = Limit
  BY <1>1, EmptySeq DEF Stack
<1>6. \A i \in 1 .. n : gs[i].limit = fs[i].limit
  BY <1>1, <1>3, Zenon
<1>7. \A i \in 1 .. n : gs[i].spent \in 0 .. gs[i].limit /\ gs[i].limit <= Limit
  BY <1>1, <1>3, <1>5, Zenon
<1>8. \A i \in 1 .. n : i > 1 => gs[i].limit <= gs[i - 1].spent
  <2> SUFFICES ASSUME NEW i \in 1 .. n, i > 1 PROVE gs[i].limit <= gs[i - 1].spent
    OBVIOUS
  <2>1. i - 1 \in 1 .. n /\ i - 1 # n
    BY <1>1
  <2>2. gs[i - 1] = fs[i - 1]
    BY <1>3, <2>1
  <2> QED BY <1>5, <1>6, <2>2
<1>9. gs[1].limit = Limit
  <2>1. 1 \in 1 .. n
    BY <1>1
  <2> QED BY <1>5, <1>6, <2>1
<1>10. Stack(gs)
  BY <1>2, <1>4, <1>7, <1>8, <1>9 DEF Stack
<1>11. gs = [fs EXCEPT ![Len(fs)] = g]
  BY <1>1 DEF gs
<1> QED BY <1>1, <1>2, <1>3, <1>4, <1>10, <1>11

\* A frame may be pushed that the top has paid for.
LEMMA PushStack ==
  ASSUME NEW fs, Stack(fs), fs # <<>>,
         NEW f \in Frame, f.spent = 0, f.limit <= fs[Len(fs)].spent
  PROVE  Stack(Append(fs, f)) /\ Append(fs, f) # <<>>
<1> DEFINE gs == Append(fs, f)
<1>1. fs \in Seq(Frame) /\ Len(fs) \in Nat /\ Len(fs) >= 1
  BY EmptySeq DEF Stack
<1>2. gs \in Seq(Frame) /\ Len(gs) = Len(fs) + 1
  BY <1>1
<1>3. gs[Len(gs)] = f /\ \A i \in 1 .. Len(fs) : gs[i] = fs[i]
  BY <1>1
<1>4. f.limit \in Nat /\ f.limit <= Limit
  <2>1. fs[Len(fs)].spent \in 0 .. fs[Len(fs)].limit /\ fs[Len(fs)].limit <= Limit
    BY <1>1 DEF Stack
  <2>2. fs[Len(fs)] \in Frame
    BY <1>1
  <2>3. fs[Len(fs)].limit \in Nat /\ fs[Len(fs)].spent \in Nat /\ f.limit \in Nat
    BY <2>2 DEF Frame
  <2> QED BY <2>1, <2>3, ExecutorAssumption DEF ExecutorAssumption
<1>5. \A i \in 1 .. Len(gs) : gs[i].spent \in 0 .. gs[i].limit /\ gs[i].limit <= Limit
  <2> SUFFICES ASSUME NEW i \in 1 .. Len(gs)
               PROVE  gs[i].spent \in 0 .. gs[i].limit /\ gs[i].limit <= Limit
    OBVIOUS
  <2>1. i \in 1 .. Len(fs) \/ i = Len(gs)
    BY <1>1, <1>2
  <2>2. CASE i = Len(gs)
    BY <1>3, <1>4, <2>2
  <2>3. CASE i \in 1 .. Len(fs)
    BY <1>3, <2>3 DEF Stack
  <2> QED BY <2>1, <2>2, <2>3
<1>6. \A i \in 1 .. Len(gs) : i > 1 => gs[i].limit <= gs[i - 1].spent
  <2> SUFFICES ASSUME NEW i \in 1 .. Len(gs), i > 1 PROVE gs[i].limit <= gs[i - 1].spent
    OBVIOUS
  <2>1. i - 1 \in 1 .. Len(fs) /\ (i \in 1 .. Len(fs) \/ i = Len(gs))
    BY <1>1, <1>2
  <2>2. CASE i = Len(gs)
    BY <1>1, <1>2, <1>3, <2>1, <2>2
  <2>3. CASE i \in 1 .. Len(fs)
    BY <1>3, <2>1, <2>3 DEF Stack
  <2> QED BY <2>1, <2>2, <2>3
<1>7. gs[1].limit = Limit /\ gs # <<>>
  BY <1>1, <1>2, <1>3, EmptySeq DEF Stack
<1> QED BY <1>2, <1>5, <1>6, <1>7 DEF Stack

----------------------------------------------------------------------------
(* The world stays a world.                                                *)

LEMMA MoveType ==
  ASSUME NEW w \in World, NEW from \in Account, NEW to \in Account, NEW v \in Int
  PROVE  Move(w, from, to, v) \in World
<1>1. W \in Nat \ {0}
  BY ExecutorAssumption DEF ExecutorAssumption
<1>2. \A i \in Int : i % W \in 0 .. W - 1
  BY <1>1
<1>3. w.bal \in [Account -> 0 .. W - 1] /\ 0 .. W - 1 \subseteq Int
  BY DEF World
<1> DEFINE b == [w.bal EXCEPT ![from] = (@ - v) % W]
           c == [b EXCEPT ![to] = (@ + v) % W]
<1>4. b \in [Account -> 0 .. W - 1]
  BY <1>2, <1>3
<1>5. c \in [Account -> 0 .. W - 1]
  BY <1>2, <1>3, <1>4
<1>6. Move(w, from, to, v) = [w EXCEPT !.bal = c]
  <2> DEFINE u == [w EXCEPT !.bal[from] = (@ - v) % W]
  <2>1. u = [w EXCEPT !.bal = b] /\ u.bal = b
    BY DEF World
  <2>2. [u EXCEPT !.bal[to] = (@ + v) % W] = [u EXCEPT !.bal = c]
    BY <2>1 DEF World
  <2>3. Move(w, from, to, v) = [u EXCEPT !.bal[to] = (@ + v) % W]
    BY DEF Move
  <2> QED BY <2>1, <2>2, <2>3 DEF World
<1> HIDE DEF c
<1> QED BY <1>5, <1>6 DEF World

LEMMA BumpType ==
  ASSUME NEW w \in World, NEW a \in Account, w.nonce[a] <= MaxNonce
  PROVE  /\ Bump(w, a) \in World
         /\ Bump(w, a).nonce[a] \in Nat
<1>1. MaxNonce \in Nat
  BY ExecutorAssumption DEF ExecutorAssumption
<1>2. w.nonce \in [Account -> 0 .. MaxNonce + 1]
  BY DEF World
<1> DEFINE n == [w.nonce EXCEPT ![a] = @ + 1]
<1>3. n \in [Account -> 0 .. MaxNonce + 1] /\ n[a] \in Nat
  BY <1>1, <1>2
<1>4. Bump(w, a) = [w EXCEPT !.nonce = n]
  BY DEF Bump, World
<1> HIDE DEF n
<1> QED BY <1>3, <1>4 DEF World

LEMMA MadeType ==
  ASSUME NEW w \in World, NEW a \in Account
  PROVE  Made(w, a) \in World
<1>1. 1 \in 0 .. MaxNonce + 1 /\ 0 \in Word
  BY ExecutorAssumption DEF ExecutorAssumption
<1> DEFINE n == [w.nonce EXCEPT ![a] = 1]
           s == [w.slot EXCEPT ![a] = 0]
           m == w.made \cup {a}
<1>2. n \in [Account -> 0 .. MaxNonce + 1] /\ s \in [Account -> Word] /\ m \in SUBSET Account
  BY <1>1 DEF World
<1>3. Made(w, a) = [w EXCEPT !.nonce = n, !.slot = s, !.made = m]
  BY DEF Made, World
<1> HIDE DEF n, s, m
<1> QED BY <1>2, <1>3 DEF World

LEMMA WithCodeType ==
  ASSUME NEW w \in World, NEW r \in Result
  PROVE  WithCode(w, r) \in World
<1> DEFINE c == [a \in Account |-> IF a \in r.made THEN r.code ELSE w.code[a]]
<1>1. c \in [Account -> BOOLEAN]
  BY DEF World, Result
<1>2. WithCode(w, r) = [w EXCEPT !.code = c]
  BY DEF WithCode, World
<1> HIDE DEF c
<1> QED BY <1>1, <1>2 DEF World

LEMMA AppliedType ==
  ASSUME NEW w \in World
  PROVE  Applied(w) \in World
<1>1. 0 \in 0 .. W - 1 /\ 0 \in 0 .. MaxNonce + 1 /\ 0 \in Word
  BY ExecutorAssumption DEF ExecutorAssumption
<1> DEFINE b == [a \in Account |-> IF a \in w.doomed THEN 0 ELSE w.bal[a]]
           n == [a \in Account |-> IF a \in w.doomed THEN 0 ELSE w.nonce[a]]
           c == [a \in Account |-> a \notin w.doomed /\ w.code[a]]
           s == [a \in Account |-> IF a \in w.doomed THEN 0 ELSE w.slot[a]]
<1>2. b \in [Account -> 0 .. W - 1] /\ n \in [Account -> 0 .. MaxNonce + 1]
  BY <1>1 DEF World
<1>3. s \in [Account -> Word]
  BY <1>1 DEF World
<1>4. c \in [Account -> BOOLEAN]
  BY DEF World
<1>5. Applied(w) = [w EXCEPT !.bal = b, !.nonce = n, !.code = c, !.slot = s]
  BY DEF Applied, World
<1> HIDE DEF b, n, c, s
<1> QED BY <1>2, <1>3, <1>4, <1>5 DEF World

----------------------------------------------------------------------------
(* Frames and results.                                                     *)

LEMMA NewFrameType ==
  ASSUME NEW this \in Account, NEW create \in BOOLEAN, NEW static \in BOOLEAN,
         NEW runs \in BOOLEAN, NEW gas \in Nat, NEW cp \in World
  PROVE  /\ NewFrame(this, create, static, runs, gas, cp) \in Frame
         /\ NewFrame(this, create, static, runs, gas, cp).limit = gas
         /\ NewFrame(this, create, static, runs, gas, cp).spent = 0
BY DEF NewFrame, Frame

LEMMA ChargeType ==
  ASSUME NEW f \in Frame, NEW gas \in Nat
  PROVE  /\ Charge(f, gas) \in Frame
         /\ Charge(f, gas).limit = f.limit
         /\ Charge(f, gas).spent = f.spent + gas
BY DEF Charge, Frame

LEMMA ResultTypes ==
  ASSUME NEW left \in Nat, NEW refund \in Int, NEW a \in Account, NEW code \in BOOLEAN
  PROVE  /\ Success(left, refund) \in Result /\ Success(left, refund).left = left
         /\ Deployed(left, refund, a, code) \in Result
         /\ Deployed(left, refund, a, code).left = left
         /\ Failure(left) \in Result /\ Failure(left).left = left
BY DEF Success, Deployed, Failure, Result

----------------------------------------------------------------------------
(* What a call costs its caller.                                           *)

LEMMA AllButFacts ==
  ASSUME NEW gas \in Nat
  PROVE  AllBut(gas) \in 0 .. gas
<1>1. Ratio \in Nat \ {0}
  BY ExecutorAssumption DEF ExecutorAssumption
<1> DEFINE q == gas \div Ratio
<1>2. q \in Int /\ Ratio * q <= gas /\ gas < Ratio * q + Ratio
  BY <1>1
<1>3. q >= 0
  BY <1>1
<1>4. q <= gas
  BY <1>1, <1>2, <1>3
<1> QED BY <1>2, <1>3, <1>4 DEF AllBut

LEMMA TopFacts ==
  ASSUME ExecInv, frames # <<>>
  PROVE  /\ Top \in Frame
         /\ Top.this \in Account /\ Top.cp \in World /\ Top.refund \in Int
         /\ Top.create \in BOOLEAN /\ Top.static \in BOOLEAN /\ Top.runs \in BOOLEAN
         /\ Top.limit \in Nat /\ Top.spent \in 0 .. Top.limit
         /\ Left(Top) \in 0 .. Top.limit /\ Top.limit <= Limit
<1>1. frames \in Seq(Frame) /\ Len(frames) \in 1 .. Len(frames)
  BY EmptySeq DEF ExecInv, Stack
<1>2. Top \in Frame
  BY <1>1 DEF Top
<1>3. Top.spent \in 0 .. Top.limit /\ Top.limit <= Limit
  BY <1>1 DEF ExecInv, Stack, Top
<1>4. Top.limit \in Nat
  BY <1>2 DEF Frame
<1> QED BY <1>2, <1>3, <1>4 DEF Frame, Left

\* A call is paid in full by the caller, stipend included.
LEMMA LentFacts ==
  ASSUME ExecInv, frames # <<>>, NEW v \in Values, NEW ask \in Ask,
         Left(Top) >= CallFee(v)
  PROVE  /\ CallFee(v) \in Nat /\ Lent(v, ask) \in Nat /\ Given(v, ask) \in Nat
         /\ CallFee(v) + Lent(v, ask) <= Left(Top)
         /\ Given(v, ask) <= CallFee(v) + Lent(v, ask)
<1>1. /\ ask \in Nat /\ CallCost \in Nat /\ ValueCost \in Nat
      /\ Stipend \in Nat /\ Stipend <= ValueCost
  BY ExecutorAssumption DEF ExecutorAssumption
<1>2. Left(Top) \in Nat
  BY TopFacts
<1>3. CallFee(v) \in Nat /\ (v # 0 => Stipend <= CallFee(v))
  BY <1>1 DEF CallFee
<1>4. AllBut(Left(Top) - CallFee(v)) \in 0 .. Left(Top) - CallFee(v)
  BY <1>2, <1>3, AllButFacts
<1>5. Lent(v, ask) \in 0 .. Left(Top) - CallFee(v)
  BY <1>1, <1>2, <1>3, <1>4 DEF Lent, Smaller
<1> QED BY <1>1, <1>2, <1>3, <1>5 DEF Given

----------------------------------------------------------------------------
(* The three ways a step changes the stack.                                *)

\* The top spends, or gets back, gas.
LEMMA SpendInv ==
  ASSUME ExecInv, phase = "run", frames # <<>>,
         NEW g \in Frame, g.limit = Top.limit, g.spent \in 0 .. g.limit,
         frames' = WithTop(g), result' = None, world' \in World,
         steps' \in Nat, phase' = phase, start' = start
  PROVE  ExecInv'
<1>1. Stack(frames)
  BY DEF ExecInv
<1>2. Stack(WithTop(g))
  BY <1>1, TopStack DEF WithTop, Top
<1> QED BY <1>2 DEF ExecInv, Stack

\* The top pays for a callee.
LEMMA PushInv ==
  ASSUME ExecInv, phase = "run", frames # <<>>,
         NEW g \in Frame, g.limit = Top.limit, g.spent \in 0 .. g.limit,
         NEW f \in Frame, f.spent = 0, f.limit <= g.spent,
         frames' = Append(WithTop(g), f), result' = None, world' \in World,
         steps' \in Nat, phase' = phase, start' = start
  PROVE  ExecInv'
<1>1. Stack(frames)
  BY DEF ExecInv
<1>2. Stack(WithTop(g)) /\ WithTop(g) # <<>> /\ WithTop(g)[Len(WithTop(g))] = g
  BY <1>1, TopStack DEF WithTop, Top
<1>3. Stack(Append(WithTop(g), f))
  BY <1>2, PushStack
<1> QED BY <1>3 DEF ExecInv, Stack

\* The top ends, and gives back no more than it was given.
LEMMA EndInv ==
  ASSUME ExecInv, NEW r \in Result, r.left <= Left(Top), NEW w \in World, End(r, w)
  PROVE  ExecInv'
<1>1. Stack(frames) /\ frames # <<>> /\ phase = "run"
  BY DEF ExecInv, End, Running
<1>2. Stack(Popped)
  BY <1>1, PopStack DEF Popped
<1>3. Popped # <<>> => Top.limit <= Popped[Len(Popped)].spent
  BY <1>1, PopStack DEF Popped, Top
<1>4. r.left \in Nat /\ r.left <= Top.limit /\ Top.limit \in Nat /\ Top.limit <= Limit
  BY <1>1, TopFacts DEF Result
<1>5. Limit \in Nat
  BY ExecutorAssumption DEF ExecutorAssumption
<1>6. Popped # <<>> => r.left <= Popped[Len(Popped)].spent
  <2> SUFFICES ASSUME Popped # <<>> PROVE r.left <= Popped[Len(Popped)].spent
    OBVIOUS
  <2>1. Popped \in Seq(Frame) /\ Len(Popped) \in 1 .. Len(Popped)
    BY <1>2, EmptySeq DEF Stack
  <2>2. Popped[Len(Popped)] \in Frame
    BY <2>1
  <2>3. Popped[Len(Popped)].spent \in Nat
    BY <2>2 DEF Frame
  <2> QED BY <1>3, <1>4, <2>3
<1>7. ResultOf(r, Popped)
  BY <1>4, <1>5, <1>6 DEF ResultOf
<1>8. steps' \in Nat /\ frames' = Popped /\ result' = r /\ world' = w
      /\ phase' = phase /\ start' = start
  BY DEF End, ExecInv
<1> QED BY <1>1, <1>2, <1>7, <1>8 DEF ExecInv, Stack, ResultOf

----------------------------------------------------------------------------
(* The start of the transaction.                                           *)

\* A frame to start from, and a result without one.
LEMMA FirstFrame ==
  ASSUME NEW f \in Frame, f.limit = Limit, f.spent = 0
  PROVE  Stack(<<f>>)
<1>1. Limit \in Nat
  BY ExecutorAssumption DEF ExecutorAssumption
<1>2. <<f>> \in Seq(Frame) /\ Len(<<f>>) = 1 /\ <<f>>[1] = f
  OBVIOUS
<1> QED BY <1>1, <1>2 DEF Stack

LEMMA NoFrames == Stack(<<>>)
BY DEF Stack

LEMMA BeginFacts ==
  ASSUME ExecInv, Begin
  PROVE  start' \in World /\ world = Genesis /\ steps' \in Nat
<1>1. world = Genesis /\ world \in World /\ steps' \in Nat /\ start' = Bump(world, Sender)
  BY DEF ExecInv, Begin
<1>2. Sender \in Account /\ Genesis.nonce[Sender] <= MaxNonce
  BY ExecutorAssumption DEF ExecutorAssumption, Account
<1> QED BY <1>1, <1>2, BumpType

LEMMA StartInv ==
  ASSUME ExecInv, NEW v \in Values, NEW to \in Account, NEW ok \in BOOLEAN,
         \/ StartCall(to, v)
         \/ StartPrecompile(to, v, ok)
         \/ StartCreate(to, v)
  PROVE  ExecInv'
<1>1. Begin
  BY DEF StartCall, StartPrecompile, StartCreate
<1>2. start' \in World /\ world \in World /\ steps' \in Nat
  BY <1>1, BeginFacts DEF ExecInv
<1>3. Sender \in Account /\ v \in Int /\ Limit \in Nat /\ W \in Nat
  BY ExecutorAssumption DEF ExecutorAssumption, Account
<1>4. Move(start', Sender, to, v) \in World
  BY <1>2, <1>3, MoveType
<1>5. CASE StartCall(to, v)
  <2> DEFINE f == NewFrame(to, FALSE, FALSE, world.code[to], Limit, start')
  <2>1. world.code[to] \in BOOLEAN
    BY <1>2 DEF World
  <2>2. PICK g : g = f
    OBVIOUS
  <2>3. g \in Frame /\ g.limit = Limit /\ g.spent = 0
    BY <1>2, <1>3, <2>1, <2>2 DEF NewFrame, Frame
  <2>4. Stack(<<g>>)
    BY <2>3, FirstFrame
  <2>5. frames' = <<g>> /\ result' = None /\ world' \in World /\ phase' = "run"
    BY <1>4, <1>5, <2>2 DEF StartCall
  <2> QED BY <1>2, <2>4, <2>5 DEF ExecInv, Stack
<1>6. CASE StartPrecompile(to, v, ok)
  <2>1. PICK r : r = result'
    OBVIOUS
  <2>2. r \in Result /\ r.left <= Limit
    <3>1. CASE ok
      <4>1. PICK used \in Uses \cap 0 .. Limit : result' = Success(Limit - used, 0)
        BY <1>6, <3>1 DEF StartPrecompile
      <4>2. Limit - used \in Nat /\ Limit - used <= Limit /\ 0 \in Int
        BY <1>3, <4>1
      <4> QED BY <2>1, <4>1, <4>2, ResultTypes
    <3>2. CASE ~ok
      <4>1. result' = Failure(0) /\ 0 \in Nat /\ 0 <= Limit
        BY <1>3, <1>6, <3>2 DEF StartPrecompile
      <4> QED BY <2>1, <4>1, ResultTypes
    <3> QED BY <3>1, <3>2
  <2>3. ResultOf(r, <<>>)
    BY <2>2 DEF ResultOf
  <2>4. frames' = <<>> /\ world' \in World /\ phase' = "done"
    BY <1>2, <1>4, <1>6 DEF StartPrecompile
  <2> QED BY <1>2, <2>1, <2>3, <2>4, NoFrames DEF ExecInv, Stack, ResultOf
<1>7. CASE StartCreate(to, v)
  <2>1. CASE Taken(start', to)
    <3>1. /\ frames' = <<>> /\ world' \in World /\ phase' = "done"
          /\ result' = Failure(0) /\ 0 \in Nat
      BY <1>2, <1>7, <2>1 DEF StartCreate
    <3>2. PICK r : r = result'
      OBVIOUS
    <3>3. ResultOf(r, <<>>)
      BY <1>3, <3>1, <3>2, ResultTypes DEF ResultOf
    <3> QED BY <1>2, <3>1, <3>2, <3>3, NoFrames DEF ExecInv, Stack, ResultOf
  <2>2. CASE ~Taken(start', to)
    <3>1. PICK g : g = NewFrame(to, TRUE, FALSE, TRUE, Limit, start')
      OBVIOUS
    <3>2. g \in Frame /\ g.limit = Limit /\ g.spent = 0
      BY <1>2, <1>3, <3>1 DEF NewFrame, Frame
    <3>3. Stack(<<g>>)
      BY <3>2, FirstFrame
    <3>4. Move(Made(start', to), Sender, to, v) \in World
      BY <1>2, <1>3, MadeType, MoveType
    <3>5. frames' = <<g>> /\ result' = None /\ world' \in World /\ phase' = "run"
      BY <1>7, <2>2, <3>1, <3>4 DEF StartCreate
    <3> QED BY <1>2, <3>3, <3>5 DEF ExecInv, Stack
  <2> QED BY <2>1, <2>2
<1> QED BY <1>5, <1>6, <1>7

----------------------------------------------------------------------------
(* Instructions.                                                           *)

LEMMA OpFacts ==
  ASSUME ExecInv, Op
  PROVE  /\ phase = "run" /\ frames # <<>> /\ result = None /\ world \in World
         /\ steps' \in Nat /\ phase' = phase /\ start' = start
BY DEF ExecInv, Op, Running

\* An instruction that costs the top gas it has.
LEMMA PayInv ==
  ASSUME ExecInv, Op, NEW gas \in Nat, gas <= Left(Top),
         frames' = WithTop(Charge(Top, gas)), result' = result, world' \in World
  PROVE  ExecInv'
<1>1. Top \in Frame /\ Top.limit \in Nat /\ Top.spent \in 0 .. Top.limit
  BY OpFacts, TopFacts
<1>2. PICK g : g = Charge(Top, gas)
  OBVIOUS
<1>3. g \in Frame /\ g.limit = Top.limit /\ g.spent = Top.spent + gas
  BY <1>1, <1>2, ChargeType
<1>4. g.spent \in 0 .. g.limit
  BY <1>1, <1>3 DEF Left
<1> QED BY <1>2, <1>3, <1>4, OpFacts, SpendInv

LEMMA ComputeInv ==
  ASSUME ExecInv, Compute
  PROVE  ExecInv'
BY OpFacts, PayInv DEF Compute

LEMMA StoreInv ==
  ASSUME ExecInv, NEW val \in Word, Store(val)
  PROVE  ExecInv'
<1> DEFINE cost   == StoreGas(val, world.slot[Top.this], Genesis.slot[Top.this])
           refund == StoreRefund(val, world.slot[Top.this], Genesis.slot[Top.this])
<1>1. /\ Op /\ Left(Top) >= cost
      /\ frames' = WithTop([Charge(Top, cost) EXCEPT !.refund = @ + refund])
      /\ result' = result /\ world' = [world EXCEPT !.slot[Top.this] = val]
  BY DEF Store
<1>2. /\ Top \in Frame /\ Top.limit \in Nat /\ Top.spent \in 0 .. Top.limit
      /\ Top.this \in Account
  BY <1>1, OpFacts, TopFacts
<1>3. cost \in Nat
  BY ExecutorAssumption DEF ExecutorAssumption, StoreGas
<1>4. refund \in Int
  BY ExecutorAssumption DEF ExecutorAssumption, StoreRefund
<1>5. PICK f : f = Charge(Top, cost)
  OBVIOUS
<1>6. f \in Frame /\ f.limit = Top.limit /\ f.spent = Top.spent + cost
  BY <1>2, <1>3, <1>5, ChargeType
<1>7. PICK g : g = [f EXCEPT !.refund = @ + refund]
  OBVIOUS
<1>8. g \in Frame /\ g.limit = Top.limit /\ g.spent = Top.spent + cost
  BY <1>4, <1>6, <1>7 DEF Frame
<1>9. g.spent \in 0 .. g.limit
  BY <1>1, <1>2, <1>3, <1>8 DEF Left
<1>10. world' \in World
  BY <1>1, <1>2, OpFacts DEF World
<1> QED BY <1>1, <1>5, <1>7, <1>8, <1>9, <1>10, OpFacts, SpendInv

LEMMA FetchInv ==
  ASSUME ExecInv, Fetch \/ FetchFails
  PROVE  ExecInv'
BY DEF ExecInv, Fetch, FetchFails, Op, Running, Stack, ResultOf

----------------------------------------------------------------------------
(* Calls.                                                                  *)

LEMMA CallFacts ==
  ASSUME ExecInv, NEW kind \in Kind, NEW to \in Account, NEW v \in Values,
         NEW ask \in Ask, CanCall(kind, to, v)
  PROVE  /\ Op /\ frames # <<>> /\ v \in Int
         /\ CallFee(v) \in Nat /\ Lent(v, ask) \in Nat /\ Given(v, ask) \in Nat
         /\ CallFee(v) + Lent(v, ask) <= Left(Top)
         /\ Given(v, ask) <= CallFee(v) + Lent(v, ask)
         /\ (IF kind = "call" THEN Move(world, Top.this, to, v) ELSE world) \in World
<1>1. Op /\ Left(Top) >= CallFee(v)
  BY DEF CanCall
<1>2. world \in World /\ frames # <<>> /\ Top.this \in Account
  BY <1>1, OpFacts, TopFacts
<1>3. v \in Int /\ W \in Nat
  BY ExecutorAssumption DEF ExecutorAssumption
<1>4. Move(world, Top.this, to, v) \in World
  BY <1>2, <1>3, MoveType
<1> QED BY <1>1, <1>2, <1>3, <1>4, LentFacts

LEMMA CallPrecompileInv ==
  ASSUME ExecInv, NEW kind \in Kind, NEW to \in Account, NEW v \in Values,
         NEW ask \in Ask, NEW ok \in BOOLEAN, CallPrecompile(kind, to, v, ask, ok)
  PROVE  ExecInv'
<1>1. CanCall(kind, to, v) /\ result' = result
  BY DEF CallPrecompile
<1>2. /\ Op /\ CallFee(v) \in Nat /\ Lent(v, ask) \in Nat /\ Given(v, ask) \in Nat
      /\ CallFee(v) + Lent(v, ask) <= Left(Top)
      /\ Given(v, ask) <= CallFee(v) + Lent(v, ask)
      /\ (IF kind = "call" THEN Move(world, Top.this, to, v) ELSE world) \in World
      /\ Left(Top) \in Nat
  BY <1>1, CallFacts, TopFacts
<1>3. PICK used \in (IF ok THEN Uses \cap 0 .. Given(v, ask) ELSE {Given(v, ask)}) :
        frames' = WithTop(Charge(Top, CallFee(v) + Lent(v, ask) - Given(v, ask) + used))
  BY DEF CallPrecompile
<1>4. used \in 0 .. Given(v, ask)
  BY <1>2, <1>3
<1>5. PICK gas : gas = CallFee(v) + Lent(v, ask) - Given(v, ask) + used
  OBVIOUS
<1>6. gas \in Nat /\ gas <= Left(Top)
  BY <1>2, <1>4, <1>5
<1>7. world \in World
  BY <1>2, OpFacts
<1>8. world' \in World
  BY <1>2, <1>7 DEF CallPrecompile
<1>9. frames' = WithTop(Charge(Top, gas))
  BY <1>3, <1>5
<1> QED BY <1>1, <1>2, <1>6, <1>8, <1>9, PayInv

LEMMA CallRefusedInv ==
  ASSUME ExecInv, NEW kind \in Kind, NEW to \in Account, NEW v \in Values,
         NEW ask \in Ask, CallRefused(kind, to, v, ask)
  PROVE  ExecInv'
<1>1. /\ CanCall(kind, to, v) /\ result' = result /\ world' = world
      /\ frames' = WithTop(Charge(Top, CallFee(v) + Lent(v, ask) - Given(v, ask)))
  BY DEF CallRefused
<1>2. /\ Op /\ CallFee(v) \in Nat /\ Lent(v, ask) \in Nat /\ Given(v, ask) \in Nat
      /\ CallFee(v) + Lent(v, ask) <= Left(Top)
      /\ Given(v, ask) <= CallFee(v) + Lent(v, ask)
      /\ Left(Top) \in Nat
  BY <1>1, CallFacts, TopFacts
<1>3. PICK gas : gas = CallFee(v) + Lent(v, ask) - Given(v, ask)
  OBVIOUS
<1>4. gas \in Nat /\ gas <= Left(Top)
  BY <1>2, <1>3
<1>5. world' \in World
  BY <1>1, <1>2, OpFacts
<1> QED BY <1>1, <1>2, <1>3, <1>4, <1>5, PayInv

LEMMA CallInv ==
  ASSUME ExecInv, NEW kind \in Kind, NEW to \in Account, NEW v \in Values,
         NEW ask \in Ask, Call(kind, to, v, ask)
  PROVE  ExecInv'
<1> DEFINE this   == IF kind \in {"call", "static"} THEN to ELSE Top.this
           static == Top.static \/ kind = "static"
<1>1. /\ CanCall(kind, to, v) /\ result' = result
      /\ world' = IF kind = "call" THEN Move(world, Top.this, to, v) ELSE world
      /\ frames' = Append(WithTop(Charge(Top, CallFee(v) + Lent(v, ask))),
                          NewFrame(this, FALSE, static, world.code[to], Given(v, ask), world))
  BY DEF Call
<1>2. /\ Op /\ CallFee(v) \in Nat /\ Lent(v, ask) \in Nat /\ Given(v, ask) \in Nat
      /\ CallFee(v) + Lent(v, ask) <= Left(Top)
      /\ Given(v, ask) <= CallFee(v) + Lent(v, ask)
      /\ world' \in World
  BY <1>1, CallFacts
<1>3. /\ Top \in Frame /\ Top.this \in Account /\ Top.static \in BOOLEAN
      /\ Top.limit \in Nat /\ Top.spent \in 0 .. Top.limit /\ world \in World
  BY <1>2, OpFacts, TopFacts
<1>4. PICK g : g = Charge(Top, CallFee(v) + Lent(v, ask))
  OBVIOUS
<1>5. g \in Frame /\ g.limit = Top.limit /\ g.spent = Top.spent + (CallFee(v) + Lent(v, ask))
  <2>1. CallFee(v) + Lent(v, ask) \in Nat
    BY <1>2
  <2> QED BY <1>3, <1>4, <2>1, ChargeType
<1>6. g.spent \in 0 .. g.limit
  BY <1>2, <1>3, <1>5 DEF Left
<1>7. PICK f : f = NewFrame(this, FALSE, static, world.code[to], Given(v, ask), world)
  OBVIOUS
<1>8. this \in Account /\ static \in BOOLEAN /\ world.code[to] \in BOOLEAN
  BY <1>3 DEF World
<1>9. f \in Frame /\ f.spent = 0 /\ f.limit = Given(v, ask)
  <2> HIDE DEF this, static
  <2> QED BY <1>2, <1>3, <1>7, <1>8 DEF NewFrame, Frame
<1>10. f.limit <= g.spent
  BY <1>2, <1>3, <1>5, <1>9
<1>11. frames' = Append(WithTop(g), f)
  BY <1>1, <1>4, <1>7
<1>12. result' = None /\ phase = "run" /\ frames # <<>> /\ steps' \in Nat
       /\ phase' = phase /\ start' = start
  BY <1>1, <1>2, OpFacts
<1> QED BY <1>2, <1>5, <1>6, <1>9, <1>10, <1>11, <1>12, PushInv

----------------------------------------------------------------------------
(* Creates.                                                                *)

LEMMA CreateFacts ==
  ASSUME ExecInv, CanCreate
  PROVE  /\ Op /\ frames # <<>> /\ CreateCost \in Nat /\ CreateCost <= Left(Top)
         /\ AllBut(Left(Top) - CreateCost) \in 0 .. Left(Top) - CreateCost
         /\ Left(Top) \in Nat
<1>1. Op /\ Left(Top) >= CreateCost
  BY DEF CanCreate
<1>2. frames # <<>> /\ Left(Top) \in Nat
  BY <1>1, OpFacts, TopFacts
<1>3. CreateCost \in Nat
  BY ExecutorAssumption DEF ExecutorAssumption
<1> QED BY <1>1, <1>2, <1>3, AllButFacts

LEMMA CreateRefusedInv ==
  ASSUME ExecInv, NEW v \in Values, CreateRefused(v)
  PROVE  ExecInv'
<1>1. /\ CanCreate /\ result' = result /\ world' = world
      /\ frames' = WithTop(Charge(Top, CreateCost))
  BY DEF CreateRefused
<1>2. Op /\ CreateCost \in Nat /\ CreateCost <= Left(Top)
  BY <1>1, CreateFacts
<1>3. world' \in World
  BY <1>1, <1>2, OpFacts
<1> QED BY <1>1, <1>2, <1>3, PayInv

LEMMA CreateInv ==
  ASSUME ExecInv, NEW v \in Values, NEW a \in Account, Create(a, v)
  PROVE  ExecInv'
<1> DEFINE by    == Top.this
           lent  == AllBut(Left(Top) - CreateCost)
           cp    == Bump(world, by)
           payer == [Charge(Top, CreateCost + lent) EXCEPT !.next = cp.nonce[by]]
<1>1. /\ CanCreate /\ world.nonce[by] < MaxNonce /\ result' = result
      /\ \/ world' = cp /\ frames' = WithTop(payer)
         \/ /\ world' = Move(Made(cp, a), by, a, v)
            /\ frames' = Append(WithTop(payer), NewFrame(a, TRUE, FALSE, TRUE, lent, cp))
  BY DEF Create
<1>2. /\ Op /\ CreateCost \in Nat /\ CreateCost <= Left(Top) /\ Left(Top) \in Nat
      /\ lent \in 0 .. Left(Top) - CreateCost
  BY <1>1, CreateFacts
<1>3. /\ Top \in Frame /\ by \in Account /\ Top.limit \in Nat
      /\ Top.spent \in 0 .. Top.limit /\ world \in World
  BY <1>2, OpFacts, TopFacts
<1>4. MaxNonce \in Nat /\ W \in Nat /\ v \in Int
  BY ExecutorAssumption DEF ExecutorAssumption
<1>5. world.nonce[by] <= MaxNonce
  <2>1. world.nonce[by] \in Int
    BY <1>3 DEF World
  <2> QED BY <1>1, <1>4, <2>1
<1>6. cp \in World /\ cp.nonce[by] \in Nat
  BY <1>3, <1>5, BumpType
<1>7. Move(Made(cp, a), by, a, v) \in World
  <2> HIDE DEF by, cp
  <2> QED BY <1>3, <1>4, <1>6, MadeType, MoveType
<1>8. PICK h : h = Charge(Top, CreateCost + lent)
  OBVIOUS
<1>9. h \in Frame /\ h.limit = Top.limit /\ h.spent = Top.spent + (CreateCost + lent)
  <2>1. CreateCost + lent \in Nat
    BY <1>2
  <2> HIDE DEF lent
  <2> QED BY <1>3, <1>8, <2>1, ChargeType
<1>10. PICK g : g = payer
  OBVIOUS
<1>11. g \in Frame /\ g.limit = Top.limit /\ g.spent = h.spent
  <2>1. g = [h EXCEPT !.next = cp.nonce[by]]
    BY <1>8, <1>10
  <2> HIDE DEF cp, by, payer
  <2> QED BY <1>6, <1>9, <2>1 DEF Frame
<1>12. g.spent \in 0 .. g.limit /\ lent <= g.spent /\ lent \in Nat
  BY <1>2, <1>3, <1>9, <1>11 DEF Left
<1>13. world' \in World
  BY <1>1, <1>6, <1>7
<1>14. result' = None /\ phase = "run" /\ frames # <<>> /\ steps' \in Nat
       /\ phase' = phase /\ start' = start
  BY <1>1, <1>2, OpFacts
<1>15. CASE frames' = WithTop(payer)
  BY <1>10, <1>11, <1>12, <1>13, <1>14, <1>15, SpendInv
<1>16. CASE frames' = Append(WithTop(payer), NewFrame(a, TRUE, FALSE, TRUE, lent, cp))
  <2>1. PICK f : f = NewFrame(a, TRUE, FALSE, TRUE, lent, cp)
    OBVIOUS
  <2>2. f \in Frame /\ f.spent = 0 /\ f.limit = lent
    <3> HIDE DEF lent, cp
    <3> QED BY <1>6, <1>12, <2>1 DEF NewFrame, Frame
  <2>3. f.limit <= g.spent
    BY <1>12, <2>2
  <2>4. frames' = Append(WithTop(g), f)
    BY <1>10, <1>16, <2>1
  <2> QED BY <1>11, <1>12, <1>13, <1>14, <2>2, <2>3, <2>4, PushInv
<1> QED BY <1>1, <1>15, <1>16

----------------------------------------------------------------------------
(* The ends of a frame and of the transaction.                             *)

LEMMA FrameEndInv ==
  ASSUME ExecInv,
         \/ \E code, bad \in BOOLEAN : Return(code, bad)
         \/ \E b \in Account : SelfDestruct(b)
         \/ Revert \/ Halt
  PROVE  ExecInv'
<1>1. Running
  BY DEF Return, SelfDestruct, Revert, Halt
<1>2. /\ Top \in Frame /\ Top.this \in Account /\ Top.cp \in World /\ Top.refund \in Int
      /\ Left(Top) \in Nat /\ world \in World /\ 0 \in Nat
  BY <1>1, TopFacts DEF Running, ExecInv
<1>3. DepositCost \in Nat /\ DestroyCost \in Nat /\ W \in Nat
  BY ExecutorAssumption DEF ExecutorAssumption
<1>4. ASSUME NEW left \in Nat, left <= Left(Top), End(Failure(left), Top.cp)
      PROVE  ExecInv'
  <2>1. Failure(left) \in Result /\ Failure(left).left = left
    BY DEF Failure, Result
  <2> QED BY <1>2, <1>4, <2>1, EndInv
<1>5. ASSUME NEW left \in Nat, left <= Left(Top), NEW code \in BOOLEAN, NEW w \in World,
             \/ End(Success(left, Top.refund), w)
             \/ End(Deployed(left, Top.refund, Top.this, code), w)
      PROVE  ExecInv'
  <2>1. CASE End(Success(left, Top.refund), w)
    <3>1. Success(left, Top.refund) \in Result /\ Success(left, Top.refund).left = left
      BY <1>2 DEF Success, Result
    <3> QED BY <1>5, <2>1, <3>1, EndInv
  <2>2. CASE End(Deployed(left, Top.refund, Top.this, code), w)
    <3>1. /\ Deployed(left, Top.refund, Top.this, code) \in Result
          /\ Deployed(left, Top.refund, Top.this, code).left = left
      BY <1>2, ResultTypes
    <3> QED BY <1>5, <2>2, <3>1, EndInv
  <2> QED BY <1>5, <2>1, <2>2
<1>6. ASSUME NEW code \in BOOLEAN, NEW bad \in BOOLEAN, Return(code, bad)
      PROVE  ExecInv'
  <2> DEFINE cost == IF code THEN DepositCost ELSE 0
  <2>1. cost \in Nat
    BY <1>3
  <2>2. CASE ~Top.create
    <3>1. End(Success(Left(Top), Top.refund), world)
      BY <1>6, <2>2 DEF Return
    <3>2. Left(Top) <= Left(Top)
      BY <1>2
    <3> QED BY <1>2, <1>5, <3>1, <3>2
  <2>3. CASE Top.create /\ (bad \/ Left(Top) < cost)
    <3>1. End(Failure(0), Top.cp) /\ 0 <= Left(Top)
      BY <1>2, <1>6, <2>3 DEF Return
    <3> QED BY <1>2, <1>4, <3>1
  <2>4. CASE Top.create /\ ~(bad \/ Left(Top) < cost)
    <3>1. End(Deployed(Left(Top) - cost, Top.refund, Top.this, code), world)
      BY <1>6, <2>4 DEF Return
    <3>2. PICK left : left = Left(Top) - cost
      OBVIOUS
    <3>3. left \in Nat /\ left <= Left(Top)
      BY <1>2, <2>1, <2>4, <3>2
    <3>4. End(Deployed(left, Top.refund, Top.this, code), world)
      BY <3>1, <3>2
    <3> QED BY <1>2, <1>5, <3>3, <3>4
  <2> QED BY <2>2, <2>3, <2>4
<1>7. ASSUME NEW b \in Account, SelfDestruct(b)
      PROVE  ExecInv'
  <2> DEFINE a    == Top.this
             gone == IF a \in world.made THEN {a} ELSE {}
             w    == [Move(world, a, b, world.bal[a]) EXCEPT !.doomed = @ \cup gone]
  <2>1. PICK left : left = Left(Top) - DestroyCost
    OBVIOUS
  <2>2. left \in Nat /\ left <= Left(Top)
    BY <1>2, <1>3, <1>7, <2>1 DEF SelfDestruct
  <2>3. \/ End(Deployed(left, Top.refund, a, FALSE), w)
        \/ End(Success(left, Top.refund), w)
    BY <1>7, <2>1 DEF SelfDestruct
  <2>4. Move(world, a, b, world.bal[a]) \in World
    <3>1. world.bal[a] \in Int
      BY <1>2, <1>3 DEF World
    <3> QED BY <1>2, <3>1, MoveType
  <2>5. w \in World
    <3>1. gone \in SUBSET Account
      BY <1>2
    <3> HIDE DEF gone
    <3> QED BY <2>4, <3>1 DEF World
  <2>6. FALSE \in BOOLEAN
    OBVIOUS
  <2> HIDE DEF w
  <2> QED BY <1>5, <2>2, <2>3, <2>5, <2>6
<1>8. CASE Revert
  <2>1. End(Failure(Left(Top)), Top.cp) /\ Left(Top) <= Left(Top)
    BY <1>2, <1>8 DEF Revert
  <2> QED BY <1>2, <1>4, <2>1
<1>9. CASE Halt
  <2>1. End(Failure(0), Top.cp) /\ 0 <= Left(Top)
    BY <1>2, <1>9 DEF Halt
  <2> QED BY <1>2, <1>4, <2>1
<1> QED BY <1>6, <1>7, <1>8, <1>9

LEMMA ResumeInv ==
  ASSUME ExecInv, Resume
  PROVE  ExecInv'
<1>1. /\ phase = "run" /\ frames # <<>> /\ result # None
      /\ result' = None /\ world' = WithCode(world, result)
      /\ steps' = steps /\ phase' = phase /\ start' = start
  BY DEF Resume, Running
<1>2. ResultOf(result, frames)
  BY <1>1 DEF ExecInv
<1>3. /\ Top \in Frame /\ Top.limit \in Nat /\ Top.spent \in 0 .. Top.limit
      /\ world \in World /\ steps \in Nat
  BY <1>1, TopFacts DEF ExecInv
<1>4. result \in Result /\ result.left \in Nat /\ result.left <= Top.spent
  BY <1>1, <1>2 DEF ResultOf, Result, Top
<1>5. PICK r : r = IF result.ok THEN result.refund ELSE 0
  OBVIOUS
<1>6. PICK g : g = [Top EXCEPT !.spent = @ - result.left, !.refund = @ + r]
  OBVIOUS
<1>7. frames' = WithTop(g)
  BY <1>5, <1>6 DEF Resume
<1>8. r \in Int
  BY <1>4, <1>5 DEF Result
<1>9. Top.spent - result.left \in Nat /\ Top.spent - result.left <= Top.limit
  BY <1>3, <1>4
<1>10. g \in Frame /\ g.limit = Top.limit /\ g.spent = Top.spent - result.left
  <2>1. Top.refund + r \in Int
    BY <1>3, <1>8 DEF Frame
  <2>2. PICK n \in Nat : n = Top.spent - result.left
    BY <1>9
  <2>3. PICK m \in Int : m = Top.refund + r
    BY <2>1
  <2>4. g = [Top EXCEPT !.spent = n, !.refund = m]
    BY <1>6, <2>2, <2>3
  <2>5. g \in Frame /\ g.limit = Top.limit /\ g.spent = n
    BY <1>3, <2>4 DEF Frame
  <2> QED BY <2>2, <2>5
<1>11. g.spent \in 0 .. g.limit
  BY <1>9, <1>10
<1>12. world' \in World
  BY <1>1, <1>3, <1>4, WithCodeType
<1> QED BY <1>1, <1>3, <1>7, <1>10, <1>11, <1>12, SpendInv

LEMMA LastInv ==
  ASSUME ExecInv, StepLimit \/ Finish \/ Ended
  PROVE  ExecInv'
<1>1. CASE StepLimit
  <2>1. world' \in World
    BY <1>1, TopFacts DEF StepLimit
  <2>2. Failure(0) \in Result /\ Failure(0).left = 0 /\ 0 <= Limit
    BY ExecutorAssumption DEF ExecutorAssumption, Failure, Result
  <2>3. ResultOf(Failure(0), <<>>)
    BY <2>2 DEF ResultOf
  <2> QED BY <1>1, <2>1, <2>3, NoFrames DEF StepLimit, ExecInv, ResultOf
<1>2. CASE Finish
  <2>1. result \in Result
    <3>1. None \in Result
      BY DEF None, Result
    <3> QED BY <3>1 DEF ExecInv, ResultOf
  <2>2. world' \in World
    <3>1. WithCode(world, result) \in World
      BY <2>1, WithCodeType DEF ExecInv
    <3> QED BY <1>2, <3>1, AppliedType DEF Finish
  <2> QED BY <1>2, <2>2 DEF Finish, ExecInv, Stack, ResultOf
<1>3. CASE Ended
  BY <1>3 DEF Ended, vars, ExecInv, Stack, ResultOf
<1> QED BY <1>1, <1>2, <1>3

----------------------------------------------------------------------------
(* The theorems.                                                           *)

LEMMA ExecInit == Init => ExecInv
BY NoFrames, ExecutorAssumption DEF ExecutorAssumption, Init, ExecInv

LEMMA ExecNext == ExecInv /\ [Next]_vars => ExecInv'
<1> SUFFICES ASSUME ExecInv, [Next]_vars PROVE ExecInv'
  OBVIOUS
<1>1. Pre \subseteq Account /\ New \cup Contract \subseteq Account
  BY DEF Account
<1>2. CASE UNCHANGED vars
  BY <1>2 DEF vars, ExecInv, Stack, ResultOf
<1>3. ASSUME NEW v \in Values,
             \/ \E to \in Account : StartCall(to, v)
             \/ \E to \in Pre, ok \in BOOLEAN : StartPrecompile(to, v, ok)
             \/ \E a \in New \cup Contract : StartCreate(a, v)
      PROVE  ExecInv'
  BY <1>1, <1>3, StartInv
<1>4. ASSUME NEW v \in Values, \E a \in New \cup Contract : Create(a, v)
      PROVE  ExecInv'
  BY <1>1, <1>4, CreateInv
<1>5. ASSUME NEW v \in Values, CreateRefused(v)
      PROVE  ExecInv'
  BY <1>5, CreateRefusedInv
<1>6. ASSUME NEW v \in Values, NEW kind \in Kind, NEW to \in Account, NEW ask \in Ask,
             \/ Call(kind, to, v, ask) \/ CallRefused(kind, to, v, ask)
             \/ \E ok \in BOOLEAN : CallPrecompile(kind, to, v, ask, ok)
      PROVE  ExecInv'
  BY <1>6, CallInv, CallRefusedInv, CallPrecompileInv
<1>7. CASE Compute \/ Fetch \/ FetchFails
  BY <1>7, ComputeInv, FetchInv
<1>8. CASE \E val \in Word : Store(val)
  BY <1>8, StoreInv
<1>9. CASE (\E code, bad \in BOOLEAN : Return(code, bad))
             \/ (\E b \in Account : SelfDestruct(b)) \/ Revert \/ Halt
  BY <1>9, FrameEndInv
<1>10. CASE Resume
  BY <1>10, ResumeInv
<1>11. CASE StepLimit \/ Finish \/ Ended
  BY <1>11, LastInv
<1> QED BY <1>2, <1>3, <1>4, <1>5, <1>6, <1>7, <1>8, <1>9, <1>10, <1>11 DEF Next

LEMMA ExecInvTypes == ExecInv => TypeOK
<1> SUFFICES ASSUME ExecInv PROVE TypeOK
  OBVIOUS
<1> QED BY DEF ExecInv, Stack, ResultOf, TypeOK

LEMMA ExecInvGas == ExecInv => GasIsLent
<1> SUFFICES ASSUME ExecInv PROVE GasIsLent
  OBVIOUS
<1>1. frames \in Seq(Frame) /\ Frames = 1 .. Len(frames)
  BY DEF ExecInv, Stack, Frames
<1>2. /\ \A i \in Frames : frames[i].spent \in 0 .. frames[i].limit
      /\ \A i \in Frames : i > 1 => frames[i].limit <= frames[i - 1].spent
      /\ frames # <<>> => frames[1].limit = Limit
  BY <1>1 DEF ExecInv, Stack
<1>3. Limit \in Nat
  BY ExecutorAssumption DEF ExecutorAssumption
<1>4. Pending <= Limit
  BY <1>3 DEF Pending, ExecInv, ResultOf
<1>5. frames # <<>> => Pending <= Top.spent
  <2> SUFFICES ASSUME frames # <<>> PROVE Pending <= Top.spent
    OBVIOUS
  <2>1. Top.spent >= 0 /\ (result # None => result.left <= Top.spent)
    BY TopFacts DEF ExecInv, ResultOf, Top
  <2> QED BY <2>1 DEF Pending
<1> QED BY <1>2, <1>4, <1>5 DEF GasIsLent

\* Every reachable state has its types: an amount of gas is never negative, an
\* account, a slot, a nonce and a balance never leave their ranges.
THEOREM ExecTypeCorrect == Spec => []TypeOK
<1>1. ExecInv => TypeOK
  BY ExecInvTypes
<1> QED BY <1>1, ExecInit, ExecNext, PTL DEF Spec

\* However frames call, create, fail and return, no frame has gas its caller
\* has not paid for, and none gets back more than it paid.
THEOREM GasCorrect == Spec => []GasIsLent
<1>1. ExecInv => GasIsLent
  BY ExecInvGas
<1> QED BY <1>1, ExecInit, ExecNext, PTL DEF Spec

----------------------------------------------------------------------------
(* What the checkpoints of the open frames say about the world.  The world *)
(* changes with a step, and goes back to the checkpoint of the innermost   *)
(* frame when that frame fails; a fact about the outer frames lasts if it  *)
(* holds of the world and of every checkpoint above them.                  *)

\* The frames fs in the world w, opened when the world was s: static frames
\* have static callees and an unchanged world, and no nonce that a frame used
\* is free in the world, or would be if a frame above it failed.
Nested(fs, w, s) ==
  /\ \A i \in 1 .. Len(fs) : fs[i].static => w = fs[i].cp /\ ~fs[i].create
  /\ \A i, k \in 1 .. Len(fs) : i < k /\ fs[i].static => fs[k].static
  /\ \A i \in 1 .. Len(fs) : fs[i].next <= w.nonce[fs[i].this]
  /\ \A i, k \in 1 .. Len(fs) : i < k => fs[i].next <= fs[k].cp.nonce[fs[i].this]
  /\ fs # <<>> => fs[1].cp = s

\* A step from w to u takes no nonce back.
Onward(w, u) == \A a \in Account : w.nonce[a] <= u.nonce[a]

\* The code of a deployed contract is set when its creator, which is not
\* static, takes the result.
Outcome ==
  /\ ~result.ok => result.made = {}
  /\ result.made # {} => \A i \in 1 .. Len(frames) : ~frames[i].static
  /\ phase = "run" /\ frames = <<>> => result # None /\ (~result.ok => world = start)
  /\ phase = "done" /\ ~result.ok => world = start

\* The inductive invariant.
RollInv ==
  /\ ExecInv
  /\ Nested(frames, world, start)
  /\ Outcome
  /\ start.doomed = {}

----------------------------------------------------------------------------
(* Frames and worlds.                                                      *)

LEMMA Nonces ==
  ASSUME NEW w \in World, NEW a \in Account
  PROVE  w.nonce[a] \in Nat
<1>1. MaxNonce \in Nat
  BY ExecutorAssumption DEF ExecutorAssumption
<1> QED BY <1>1 DEF World

LEMMA FrameFields ==
  ASSUME NEW f \in Frame
  PROVE  /\ f.this \in Account /\ f.cp \in World /\ f.next \in Nat
         /\ f.static \in BOOLEAN /\ f.create \in BOOLEAN
BY DEF Frame

LEMMA OnwardSame == \A w \in World : Onward(w, w)
<1> SUFFICES ASSUME NEW w \in World, NEW a \in Account PROVE w.nonce[a] <= w.nonce[a]
  BY DEF Onward
<1> QED BY Nonces

\* The step of an instruction of the top frame.
LEMMA TopNested ==
  ASSUME NEW fs, Stack(fs), fs # <<>>,
         NEW w \in World, NEW u \in World, NEW s, Nested(fs, w, s), Onward(w, u),
         NEW g \in Frame, g.this = fs[Len(fs)].this, g.cp = fs[Len(fs)].cp,
         g.static = fs[Len(fs)].static, g.create = fs[Len(fs)].create,
         g.static => u = w,
         g.next <= u.nonce[g.this]
  PROVE  Nested([fs EXCEPT ![Len(fs)] = g], u, s)
<1> DEFINE gs == [fs EXCEPT ![Len(fs)] = g]
           n  == Len(fs)
<1>1. fs \in Seq(Frame) /\ n \in 1 .. n
  BY EmptySeq DEF Stack
<1>2. Len(gs) = n /\ gs[n] = g /\ \A i \in 1 .. n : i # n => gs[i] = fs[i]
  BY <1>1
<1>3. \A i \in 1 .. n : /\ fs[i] \in Frame /\ gs[i].this = fs[i].this /\ gs[i].cp = fs[i].cp
                        /\ gs[i].static = fs[i].static /\ gs[i].create = fs[i].create
  BY <1>1, <1>2
<1> HIDE DEF gs
<1>4. \A i \in 1 .. n : fs[i].static => u = w
  <2> SUFFICES ASSUME NEW i \in 1 .. n, fs[i].static PROVE u = w
    OBVIOUS
  <2>1. i = n \/ i < n
    BY <1>1
  <2>2. fs[n].static
    BY <1>1, <2>1 DEF Nested
  <2> QED BY <2>2
<1>5. ASSUME NEW i \in 1 .. n, gs[i].static PROVE u = gs[i].cp /\ ~gs[i].create
  BY <1>3, <1>4, <1>5 DEF Nested
<1>6. ASSUME NEW i \in 1 .. n, NEW k \in 1 .. n, i < k, gs[i].static PROVE gs[k].static
  BY <1>3, <1>6 DEF Nested
<1>7. ASSUME NEW i \in 1 .. n PROVE gs[i].next <= u.nonce[gs[i].this]
  <2>1. CASE i = n
    BY <1>2, <2>1
  <2>2. CASE i # n
    <3>1. gs[i] = fs[i] /\ fs[i].next \in Nat /\ fs[i].this \in Account
      BY <1>2, <1>3, <2>2, FrameFields
    <3>2. fs[i].next <= w.nonce[fs[i].this] /\ w.nonce[fs[i].this] <= u.nonce[fs[i].this]
      BY <3>1 DEF Nested, Onward
    <3>3. w.nonce[fs[i].this] \in Nat /\ u.nonce[fs[i].this] \in Nat
      BY <3>1, Nonces
    <3> QED BY <3>1, <3>2, <3>3
  <2> QED BY <2>1, <2>2
<1>8. ASSUME NEW i \in 1 .. n, NEW k \in 1 .. n, i < k
      PROVE  gs[i].next <= gs[k].cp.nonce[gs[i].this]
  <2>1. i # n
    BY <1>1, <1>8
  <2>2. gs[i] = fs[i] /\ gs[k].cp = fs[k].cp
    BY <1>2, <1>3, <2>1
  <2> QED BY <1>8, <2>2 DEF Nested
<1>9. gs[1].cp = s
  BY <1>1, <1>3 DEF Nested
<1> QED BY <1>2, <1>5, <1>6, <1>7, <1>8, <1>9 DEF Nested, gs

\* A frame is opened, at a checkpoint of the world as it is.
LEMMA PushNested ==
  ASSUME NEW fs, Stack(fs), fs # <<>>,
         NEW w \in World, NEW u \in World, NEW s, Nested(fs, w, s), Onward(w, u),
         NEW f \in Frame, f.cp = w, f.next = 0,
         fs[Len(fs)].static => f.static, f.static => u = w /\ ~f.create
  PROVE  Nested(Append(fs, f), u, s)
<1> DEFINE gs == Append(fs, f)
           n  == Len(fs)
<1>1. fs \in Seq(Frame) /\ n \in 1 .. n
  BY EmptySeq DEF Stack
<1>2. Len(gs) = n + 1 /\ gs[n + 1] = f /\ \A i \in 1 .. n : gs[i] = fs[i] /\ fs[i] \in Frame
  BY <1>1
<1> HIDE DEF gs
<1>3. \A i \in 1 .. n : fs[i].static => f.static
  <2> SUFFICES ASSUME NEW i \in 1 .. n, fs[i].static PROVE f.static
    OBVIOUS
  <2>1. i = n \/ i < n
    BY <1>1
  <2> QED BY <1>1, <2>1 DEF Nested
<1>4. \A i \in 1 .. n + 1 : i \in 1 .. n \/ i = n + 1
  BY <1>1
<1>5. ASSUME NEW i \in 1 .. n + 1, gs[i].static PROVE u = gs[i].cp /\ ~gs[i].create
  <2>1. CASE i = n + 1
    BY <1>2, <1>5, <2>1
  <2>2. CASE i \in 1 .. n
    BY <1>2, <1>3, <1>5, <2>2 DEF Nested
  <2> QED BY <1>4, <2>1, <2>2
<1>6. ASSUME NEW i \in 1 .. n + 1, NEW k \in 1 .. n + 1, i < k, gs[i].static
      PROVE  gs[k].static
  <2>1. i \in 1 .. n
    BY <1>1, <1>6
  <2>2. CASE k = n + 1
    BY <1>2, <1>3, <1>6, <2>1, <2>2
  <2>3. CASE k \in 1 .. n
    BY <1>2, <1>6, <2>1, <2>3 DEF Nested
  <2> QED BY <1>4, <2>2, <2>3
<1>7. ASSUME NEW i \in 1 .. n PROVE fs[i].next <= u.nonce[fs[i].this]
  <2>1. fs[i].next \in Nat /\ fs[i].this \in Account
    BY <1>2, FrameFields
  <2>2. fs[i].next <= w.nonce[fs[i].this] /\ w.nonce[fs[i].this] <= u.nonce[fs[i].this]
    BY <2>1 DEF Nested, Onward
  <2>3. w.nonce[fs[i].this] \in Nat /\ u.nonce[fs[i].this] \in Nat
    BY <2>1, Nonces
  <2> QED BY <2>1, <2>2, <2>3
<1>8. f.next <= u.nonce[f.this]
  <2>1. u.nonce[f.this] \in Nat
    BY FrameFields, Nonces
  <2> QED BY <2>1
<1>9. ASSUME NEW i \in 1 .. n + 1 PROVE gs[i].next <= u.nonce[gs[i].this]
  BY <1>2, <1>4, <1>7, <1>8
<1>10. ASSUME NEW i \in 1 .. n + 1, NEW k \in 1 .. n + 1, i < k
       PROVE  gs[i].next <= gs[k].cp.nonce[gs[i].this]
  <2>1. i \in 1 .. n
    BY <1>1, <1>10
  <2>2. CASE k = n + 1
    BY <1>2, <2>1, <2>2 DEF Nested
  <2>3. CASE k \in 1 .. n
    BY <1>2, <1>10, <2>1, <2>3 DEF Nested
  <2> QED BY <1>4, <2>2, <2>3
<1>11. gs[1].cp = s
  BY <1>1, <1>2 DEF Nested
<1> QED BY <1>2, <1>5, <1>6, <1>9, <1>10, <1>11 DEF Nested, gs

\* The top frame ends: the world goes back to its checkpoint, or on.
LEMMA PopNested ==
  ASSUME NEW fs, Stack(fs), fs # <<>>,
         NEW w \in World, NEW u \in World, NEW s, Nested(fs, w, s),
         \/ u = fs[Len(fs)].cp
         \/ Onward(w, u) /\ (fs[Len(fs)].static => u = w)
  PROVE  LET gs == SubSeq(fs, 1, Len(fs) - 1) IN
         /\ Nested(gs, u, s)
         /\ fs[Len(fs)].create => \A i \in 1 .. Len(gs) : ~gs[i].static
         /\ gs = <<>> => fs[Len(fs)].cp = s
<1> DEFINE gs == SubSeq(fs, 1, Len(fs) - 1)
           n  == Len(fs)
<1>1. fs \in Seq(Frame) /\ n \in 1 .. n /\ n \in Nat
  BY EmptySeq DEF Stack
<1>2. /\ gs \in Seq(Frame) /\ Len(gs) = n - 1
      /\ \A i \in 1 .. n - 1 : gs[i] = fs[i] /\ fs[i] \in Frame /\ i \in 1 .. n /\ i < n
  <2>1. \A i \in 1 .. n - 1 : i \in 1 .. n /\ i < n /\ fs[i] \in Frame
    BY <1>1
  <2>2. 1 \in 1 .. n + 1 /\ n - 1 \in 0 .. n
    BY <1>1
  <2>3. gs \in Seq(Frame) /\ Len(gs) = n - 1 /\ \A i \in 1 .. n - 1 : gs[i] = fs[i]
    <3>1. gs = SubSeq(fs, 1, n - 1)
      OBVIOUS
    <3> HIDE DEF n, gs
    <3>2. /\ SubSeq(fs, 1, n - 1) \in Seq(Frame)
          /\ Len(SubSeq(fs, 1, n - 1)) = IF 1 <= n - 1 THEN n - 1 - 1 + 1 ELSE 0
          /\ \A i \in 1 .. n - 1 - 1 + 1 : SubSeq(fs, 1, n - 1)[i] = fs[1 + i - 1]
      <4>1. n = Len(fs)
        BY DEF n
      <4> QED BY <1>1, <2>2, <4>1, SubSeqProperties
    <3> QED BY <1>1, <3>1, <3>2
  <2> QED BY <2>1, <2>3
<1> HIDE DEF gs
<1>3. ASSUME NEW i \in 1 .. n - 1, fs[i].static PROVE u = fs[i].cp /\ ~fs[i].create
  <2>1. fs[n].static
    BY <1>1, <1>2, <1>3 DEF Nested
  <2>2. w = fs[i].cp /\ ~fs[i].create /\ w = fs[n].cp
    BY <1>1, <1>2, <1>3, <2>1 DEF Nested
  <2> QED BY <2>1, <2>2
<1>4. ASSUME NEW i \in 1 .. n - 1, NEW k \in 1 .. n - 1, i < k, fs[i].static
      PROVE  fs[k].static
  BY <1>2, <1>4 DEF Nested
<1>5. ASSUME NEW i \in 1 .. n - 1 PROVE fs[i].next <= u.nonce[fs[i].this]
  <2>1. CASE u = fs[n].cp
    BY <1>1, <1>2, <2>1 DEF Nested
  <2>2. CASE Onward(w, u)
    <3>1. fs[i].next \in Nat /\ fs[i].this \in Account
      BY <1>2, FrameFields
    <3>2. fs[i].next <= w.nonce[fs[i].this] /\ w.nonce[fs[i].this] <= u.nonce[fs[i].this]
      BY <1>2, <2>2, <3>1 DEF Nested, Onward
    <3>3. w.nonce[fs[i].this] \in Nat /\ u.nonce[fs[i].this] \in Nat
      BY <3>1, Nonces
    <3> QED BY <3>1, <3>2, <3>3
  <2> QED BY <2>1, <2>2
<1>6. ASSUME NEW i \in 1 .. n - 1, NEW k \in 1 .. n - 1, i < k
      PROVE  fs[i].next <= fs[k].cp.nonce[fs[i].this]
  BY <1>2, <1>6 DEF Nested
<1>7. gs # <<>> => gs[1].cp = s
  <2>1. gs # <<>> => 1 \in 1 .. n - 1
    BY <1>1, <1>2, EmptySeq
  <2> QED BY <1>2, <2>1 DEF Nested
<1>8. Nested(gs, u, s)
  BY <1>2, <1>3, <1>4, <1>5, <1>6, <1>7 DEF Nested
<1>9. fs[n].create => \A i \in 1 .. Len(gs) : ~gs[i].static
  <2> SUFFICES ASSUME fs[n].create, NEW i \in 1 .. n - 1, fs[i].static PROVE FALSE
    BY <1>2
  <2>1. fs[n].static
    BY <1>1, <1>2 DEF Nested
  <2> QED BY <1>1, <2>1 DEF Nested
<1>10. gs = <<>> => fs[n].cp = s
  <2>1. gs = <<>> => n = 1
    BY <1>1, <1>2, EmptySeq
  <2> QED BY <2>1 DEF Nested
<1> QED BY <1>8, <1>9, <1>10 DEF gs

LEMMA SameWorlds ==
  ASSUME NEW w \in World
  PROVE  /\ \A r \in Result : r.made = {} => WithCode(w, r) = w
         /\ w.doomed = {} => Applied(w) = w
<1>1. ASSUME NEW r \in Result, r.made = {} PROVE WithCode(w, r) = w
  <2> DEFINE c == [a \in Account |-> IF a \in r.made THEN r.code ELSE w.code[a]]
  <2>1. c = w.code
    BY <1>1 DEF World
  <2>2. WithCode(w, r) = [w EXCEPT !.code = c]
    BY DEF WithCode, World
  <2> HIDE DEF c
  <2> QED BY <2>1, <2>2 DEF World
<1>2. ASSUME w.doomed = {} PROVE Applied(w) = w
  <2> DEFINE b == [a \in Account |-> IF a \in w.doomed THEN 0 ELSE w.bal[a]]
             n == [a \in Account |-> IF a \in w.doomed THEN 0 ELSE w.nonce[a]]
             c == [a \in Account |-> a \notin w.doomed /\ w.code[a]]
             s == [a \in Account |-> IF a \in w.doomed THEN 0 ELSE w.slot[a]]
  <2>1. b = w.bal /\ n = w.nonce /\ s = w.slot
    BY <1>2 DEF World
  <2>2. c = w.code
    <3>1. \A a \in Account : (a \notin w.doomed /\ w.code[a]) = w.code[a]
      BY <1>2 DEF World
    <3> QED BY <3>1 DEF World
  <2>3. Applied(w) = [w EXCEPT !.bal = b, !.nonce = n, !.code = c, !.slot = s]
    BY DEF Applied, World
  <2> HIDE DEF b, n, c, s
  <2> QED BY <2>1, <2>2, <2>3 DEF World
<1> QED BY <1>1, <1>2

LEMMA MoveFacts ==
  ASSUME NEW w \in World, NEW from \in Account, NEW to \in Account, NEW v \in Int
  PROVE  /\ Move(w, from, to, v).nonce = w.nonce
         /\ Move(w, from, to, v).doomed = w.doomed
         /\ v = 0 => Move(w, from, to, v) = w
<1>1. W \in Nat \ {0} /\ w.bal \in [Account -> 0 .. W - 1]
  BY ExecutorAssumption DEF ExecutorAssumption, World
<1> DEFINE b == [w.bal EXCEPT ![from] = (@ - v) % W]
           c == [b EXCEPT ![to] = (@ + v) % W]
           u == [w EXCEPT !.bal[from] = (@ - v) % W]
<1>2. u = [w EXCEPT !.bal = b] /\ u.bal = b
  BY DEF World
<1>3. [u EXCEPT !.bal[to] = (@ + v) % W] = [u EXCEPT !.bal = c]
  BY <1>2 DEF World
<1>4. Move(w, from, to, v) = [w EXCEPT !.bal = c]
  BY <1>2, <1>3 DEF Move, World
<1>5. v = 0 => c = w.bal
  <2> SUFFICES ASSUME v = 0 PROVE c = w.bal
    OBVIOUS
  <2>1. \A i \in 0 .. W - 1 : (i - 0) % W = i /\ (i + 0) % W = i
    BY <1>1
  <2>2. b = w.bal
    BY <1>1, <2>1
  <2> QED BY <1>1, <2>1, <2>2
<1> HIDE DEF b, c, u
<1> QED BY <1>4, <1>5 DEF World

----------------------------------------------------------------------------
(* The ways a step changes the stack.                                      *)

LEMMA RollTop ==
  ASSUME RollInv, frames # <<>>
  PROVE  /\ Stack(frames) /\ Top \in Frame /\ Top.this \in Account /\ Top.next \in Nat
         /\ Top.cp \in World /\ world \in World /\ start \in World
         /\ Top.next <= world.nonce[Top.this]
         /\ Top = frames[Len(frames)] /\ Len(frames) \in 1 .. Len(frames)
<1>1. ExecInv /\ Stack(frames) /\ world \in World /\ start \in World
  BY DEF RollInv, ExecInv
<1>2. frames \in Seq(Frame) /\ Len(frames) \in 1 .. Len(frames)
  BY <1>1, EmptySeq DEF Stack
<1>3. Top \in Frame /\ Top = frames[Len(frames)]
  BY <1>2 DEF Top
<1>4. Top.next <= world.nonce[Top.this]
  BY <1>2, <1>3 DEF RollInv, Nested
<1> QED BY <1>1, <1>2, <1>3, <1>4, FrameFields

\* An instruction that opens no frame, or the taking of a result.
LEMMA SpendRoll ==
  ASSUME RollInv, ExecInv', phase = "run", frames # <<>>,
         NEW g \in Frame, g.this = Top.this, g.cp = Top.cp, g.static = Top.static,
         g.create = Top.create, g.static => world' = world,
         world' \in World, Onward(world, world'), g.next <= world'.nonce[g.this],
         frames' = WithTop(g), result' = None, phase' = phase, start' = start
  PROVE  RollInv'
<1>1. Stack(frames) /\ Top = frames[Len(frames)] /\ world \in World
  BY RollTop
<1>2. Nested(WithTop(g), world', start)
  <2>1. Nested(frames, world, start)
    BY DEF RollInv
  <2> QED BY <1>1, <2>1, TopNested DEF WithTop
<1>3. Nested(frames, world, start)'
  BY <1>2 DEF Nested
<1>4. frames' # <<>>
  <2>1. frames \in Seq(Frame) /\ Len(frames) \in 1 .. Len(frames)
    BY <1>1, EmptySeq DEF Stack
  <2>2. Len(WithTop(g)) = Len(frames)
    BY <2>1 DEF WithTop
  <2> QED BY <2>1, <2>2
<1>5. Outcome'
  BY <1>4 DEF Outcome, None
<1> QED BY <1>3, <1>5 DEF RollInv

\* An instruction that opens a frame; the checkpoint w is the world with what
\* the caller has done before it.
LEMMA PushRoll ==
  ASSUME RollInv, ExecInv', phase = "run", frames # <<>>,
         NEW g \in Frame, g.this = Top.this, g.cp = Top.cp, g.static = Top.static,
         g.create = Top.create, NEW w \in World, g.static => w = world,
         Onward(world, w), g.next <= w.nonce[g.this],
         NEW f, f.cp = w, f.next = 0, g.static => f.static,
         f.static => world' = w /\ ~f.create,
         world' \in World, Onward(w, world'),
         frames' = Append(WithTop(g), f), result' = None, phase' = phase, start' = start
  PROVE  RollInv'
<1>1. Stack(frames) /\ Top = frames[Len(frames)] /\ world \in World
  BY RollTop
<1>2. Nested(WithTop(g), w, start)
  <2>1. Nested(frames, world, start)
    BY DEF RollInv
  <2> QED BY <1>1, <2>1, TopNested DEF WithTop
<1>3. /\ WithTop(g) # <<>> /\ WithTop(g)[Len(WithTop(g))] = g /\ WithTop(g) \in Seq(Frame)
      /\ Len(WithTop(g)) \in Nat
  <2>1. frames \in Seq(Frame) /\ Len(frames) \in 1 .. Len(frames)
    BY <1>1, EmptySeq DEF Stack
  <2>2. /\ WithTop(g) \in Seq(Frame) /\ Len(WithTop(g)) = Len(frames)
        /\ WithTop(g)[Len(frames)] = g
    BY <2>1 DEF WithTop
  <2> QED BY <2>1, <2>2
<1>4. PICK gs : gs = WithTop(g)
  OBVIOUS
<1>5. Stack(Append(gs, f))
  BY <1>4 DEF ExecInv, Stack
<1>6. gs \in Seq(Frame) /\ Append(gs, f) \in Seq(Frame) /\ Len(gs) \in Nat
  BY <1>3, <1>4, <1>5 DEF Stack
<1>7. f \in Frame
  <2>1. Len(Append(gs, f)) = Len(gs) + 1 /\ Append(gs, f)[Len(gs) + 1] = f
    BY <1>6
  <2>2. \A i \in 1 .. Len(Append(gs, f)) : Append(gs, f)[i] \in Frame
    BY <1>6
  <2> QED BY <1>6, <2>1, <2>2
<1>8. Stack(gs)
  <2>1. SubSeq(Append(gs, f), 1, Len(Append(gs, f)) - 1) = gs /\ Append(gs, f) # <<>>
    BY <1>6, <1>7, EmptySeq
  <2> QED BY <1>5, <2>1, PopStack
<1>9. Nested(Append(gs, f), world', start)
  BY <1>2, <1>3, <1>4, <1>7, <1>8, PushNested
<1>10. Nested(frames, world, start)'
  BY <1>4, <1>9 DEF Nested
<1>11. frames' # <<>>
  BY <1>3
<1>12. Outcome'
  BY <1>11 DEF Outcome, None
<1> QED BY <1>10, <1>12 DEF RollInv

\* The end of a frame that fails.
LEMMA FailRoll ==
  ASSUME RollInv, ExecInv', NEW left \in Nat, End(Failure(left), Top.cp)
  PROVE  RollInv'
<1>1. /\ phase = "run" /\ frames # <<>> /\ phase' = phase /\ start' = start
      /\ frames' = Popped /\ result' = Failure(left) /\ world' = Top.cp
  BY DEF End, Running
<1>2. /\ Stack(frames) /\ Top = frames[Len(frames)] /\ world \in World /\ Top.cp \in World
  BY <1>1, RollTop
<1>3. Nested(Popped, Top.cp, start) /\ (Popped = <<>> => Top.cp = start)
  <2>1. Nested(frames, world, start)
    BY DEF RollInv
  <2> QED BY <1>1, <1>2, <2>1, PopNested DEF Popped
<1>4. Nested(frames, world, start)'
  BY <1>1, <1>3 DEF Nested
<1>5. Failure(left) # None /\ Failure(left).made = {} /\ ~Failure(left).ok
  BY DEF Failure, None
<1>6. Outcome'
  BY <1>1, <1>3, <1>5 DEF Outcome
<1> QED BY <1>1, <1>4, <1>6 DEF RollInv

\* The end of one that does not.
LEMMA SucceedRoll ==
  ASSUME RollInv, ExecInv', NEW r, End(r, world'), r.ok = TRUE,
         r.made = {} \/ Top.create,
         world' \in World, Onward(world, world'), Top.static => world' = world
  PROVE  RollInv'
<1>1. /\ phase = "run" /\ frames # <<>> /\ phase' = phase /\ start' = start
      /\ frames' = Popped /\ result' = r
  BY DEF End, Running
<1>2. /\ Stack(frames) /\ Top = frames[Len(frames)] /\ world \in World
  BY <1>1, RollTop
<1>3. /\ Nested(Popped, world', start)
      /\ Top.create => \A i \in 1 .. Len(Popped) : ~Popped[i].static
  <2>1. Nested(frames, world, start)
    BY DEF RollInv
  <2> QED BY <1>1, <1>2, <2>1, PopNested DEF Popped
<1>4. Nested(frames, world, start)'
  BY <1>1, <1>3 DEF Nested
<1>5. Outcome'
  BY <1>1, <1>3 DEF Outcome, None
<1> QED BY <1>1, <1>4, <1>5 DEF RollInv

----------------------------------------------------------------------------
(* The start of the transaction.                                           *)

LEMMA BumpFacts ==
  ASSUME NEW w \in World, NEW a \in Account, w.nonce[a] <= MaxNonce
  PROVE  /\ Bump(w, a) \in World /\ Onward(w, Bump(w, a))
         /\ Bump(w, a).doomed = w.doomed
<1>1. Bump(w, a) \in World
  BY BumpType
<1>2. Bump(w, a).doomed = w.doomed
  BY DEF Bump, World
<1>3. ASSUME NEW b \in Account PROVE w.nonce[b] <= Bump(w, a).nonce[b]
  <2>1. w.nonce[b] \in Nat
    BY Nonces
  <2>2. Bump(w, a).nonce[b] = IF b = a THEN w.nonce[b] + 1 ELSE w.nonce[b]
    BY DEF Bump, World
  <2> QED BY <2>1, <2>2
<1> QED BY <1>1, <1>2, <1>3 DEF Onward

LEMMA MadeFacts ==
  ASSUME NEW w \in World, NEW a \in Account, ~Taken(w, a)
  PROVE  Made(w, a) \in World /\ Onward(w, Made(w, a))
<1>1. Made(w, a) \in World
  BY MadeType
<1>2. ASSUME NEW b \in Account PROVE w.nonce[b] <= Made(w, a).nonce[b]
  <2>1. w.nonce[b] \in Nat
    BY Nonces
  <2>2. Made(w, a).nonce[b] = IF b = a THEN 1 ELSE w.nonce[b]
    BY DEF Made, World
  <2> QED BY <2>1, <2>2 DEF Taken
<1> QED BY <1>1, <1>2 DEF Onward

LEMMA OnwardMove ==
  ASSUME NEW w \in World, NEW u \in World, Onward(w, u),
         NEW from \in Account, NEW to \in Account, NEW v \in Int
  PROVE  Onward(w, Move(u, from, to, v))
BY MoveFacts DEF Onward

LEMMA FirstNested ==
  ASSUME NEW f \in Frame, ~f.static, f.next = 0, NEW w \in World
  PROVE  Nested(<<f>>, w, f.cp)
<1>1. <<f>>[1] = f /\ Len(<<f>>) = 1
  OBVIOUS
<1>2. w.nonce[f.this] \in Nat
  BY FrameFields, Nonces
<1>3. \A i \in 1 .. 1 : i = 1
  OBVIOUS
<1>4. \A i \in 1 .. 1 : <<f>>[i] = f
  BY <1>1, <1>3
<1> QED BY <1>1, <1>2, <1>3, <1>4 DEF Nested

LEMMA NoNested == \A w, s : Nested(<<>>, w, s)
BY DEF Nested

LEMMA StartRoll ==
  ASSUME RollInv, ExecInv', NEW v \in Values, NEW to \in Account, NEW ok \in BOOLEAN,
         \/ StartCall(to, v)
         \/ StartPrecompile(to, v, ok)
         \/ StartCreate(to, v)
  PROVE  RollInv'
<1>1. Begin /\ ExecInv
  BY DEF StartCall, StartPrecompile, StartCreate, RollInv
<1>2. start' = Bump(world, Sender) /\ world = Genesis /\ world \in World
  BY <1>1 DEF Begin, ExecInv
<1>3. Sender \in Account /\ world.nonce[Sender] <= MaxNonce /\ world.doomed = {}
  BY <1>2, ExecutorAssumption DEF ExecutorAssumption, Account
<1>4. start' \in World /\ (start.doomed = {})' /\ world' \in World
  BY <1>2, <1>3, BumpFacts DEF ExecInv
<1>5. ASSUME NEW f, frames' = <<f>>, f.static = FALSE, f.next = 0, f.cp = start',
             result' = None, phase' = "run"
      PROVE  RollInv'
  <2>1. f \in Frame
    <3>1. <<f>> \in Seq(Frame)
      BY <1>5 DEF ExecInv, Stack
    <3> QED BY <3>1
  <2>2. Nested(<<f>>, world', start')
    BY <1>4, <1>5, <2>1, FirstNested
  <2>3. Nested(frames, world, start)'
    BY <1>5, <2>2 DEF Nested
  <2>4. Outcome'
    BY <1>5 DEF Outcome, None
  <2> QED BY <1>4, <2>3, <2>4 DEF RollInv
<1>6. ASSUME frames' = <<>>, phase' = "done", (result.made = {})',
             ~result'.ok => world' = start'
      PROVE  RollInv'
  <2>1. Nested(frames, world, start)'
    BY <1>6, NoNested DEF Nested
  <2>2. Outcome'
    BY <1>6 DEF Outcome
  <2> QED BY <1>4, <2>1, <2>2 DEF RollInv
<1>7. CASE StartCall(to, v)
  <2>1. PICK f : f = NewFrame(to, FALSE, FALSE, world.code[to], Limit, start')
    OBVIOUS
  <2>2. f.static = FALSE /\ f.next = 0 /\ f.cp = start'
    BY <2>1 DEF NewFrame
  <2> QED BY <1>5, <1>7, <2>1, <2>2 DEF StartCall
<1>8. CASE StartPrecompile(to, v, ok)
  <2>1. CASE ok
    <3>1. PICK used : result' = Success(Limit - used, 0)
      BY <1>8, <2>1 DEF StartPrecompile
    <3>2. result'.ok /\ result'.made = {}
      BY <3>1 DEF Success
    <3> QED BY <1>6, <1>8, <3>2 DEF StartPrecompile
  <2>2. CASE ~ok
    <3>1. result' = Failure(0) /\ world' = start'
      BY <1>8, <2>2 DEF StartPrecompile
    <3>2. result'.made = {}
      BY <3>1 DEF Failure
    <3> QED BY <1>6, <1>8, <3>1, <3>2 DEF StartPrecompile
  <2> QED BY <2>1, <2>2
<1>9. CASE StartCreate(to, v)
  <2>1. CASE Taken(start', to)
    <3>1. result' = Failure(0) /\ world' = start' /\ frames' = <<>> /\ phase' = "done"
      BY <1>9, <2>1 DEF StartCreate
    <3>2. result'.made = {}
      BY <3>1 DEF Failure
    <3> QED BY <1>6, <3>1, <3>2
  <2>2. CASE ~Taken(start', to)
    <3>1. PICK f : f = NewFrame(to, TRUE, FALSE, TRUE, Limit, start')
      OBVIOUS
    <3>2. f.static = FALSE /\ f.next = 0 /\ f.cp = start'
      BY <3>1 DEF NewFrame
    <3> QED BY <1>5, <1>9, <2>2, <3>1, <3>2 DEF StartCreate
  <2> QED BY <2>1, <2>2
<1> QED BY <1>7, <1>8, <1>9

----------------------------------------------------------------------------
(* Instructions.                                                           *)

\* An instruction that only pays.
LEMMA PayRoll ==
  ASSUME RollInv, ExecInv', Op, NEW g, frames' = WithTop(g), result' = result,
         g.this = Top.this, g.cp = Top.cp, g.static = Top.static,
         g.create = Top.create, g.next = Top.next,
         Onward(world, world'), Top.static => world' = world
  PROVE  RollInv'
<1>1. phase = "run" /\ frames # <<>> /\ result = None /\ phase' = phase /\ start' = start
  BY DEF Op, Running
<1>2. /\ Stack(frames) /\ Top.next \in Nat /\ Top.this \in Account /\ world \in World
      /\ Top.next <= world.nonce[Top.this]
  BY <1>1, RollTop
<1>3. world' \in World
  BY DEF ExecInv
<1>4. g \in Frame
  <2>1. frames \in Seq(Frame) /\ Len(frames) \in 1 .. Len(frames)
    BY <1>1, <1>2, EmptySeq DEF Stack
  <2>2. [frames EXCEPT ![Len(frames)] = g] \in Seq(Frame)
    BY DEF ExecInv, Stack, WithTop
  <2>3. [frames EXCEPT ![Len(frames)] = g][Len(frames)] = g
        /\ DOMAIN [frames EXCEPT ![Len(frames)] = g] = 1 .. Len(frames)
    BY <2>1
  <2> HIDE DEF Frame
  <2>4. PICK h \in Seq(Frame) : h = [frames EXCEPT ![Len(frames)] = g]
    BY <2>2
  <2>5. h[Len(frames)] = g /\ Len(frames) \in DOMAIN h
    BY <2>1, <2>3, <2>4
  <2>6. \A i \in DOMAIN h : h[i] \in Frame
    OBVIOUS
  <2> QED BY <2>5, <2>6
<1>5. g.next <= world'.nonce[g.this]
  <2>1. world.nonce[g.this] \in Nat /\ world'.nonce[g.this] \in Nat
    BY <1>2, <1>3, Nonces
  <2>2. world.nonce[g.this] <= world'.nonce[g.this]
    BY <1>2 DEF Onward
  <2> QED BY <1>2, <2>1, <2>2
<1> QED BY <1>1, <1>3, <1>4, <1>5, SpendRoll

LEMMA QuietRoll ==
  ASSUME RollInv, ExecInv', Compute \/ Fetch \/ FetchFails
  PROVE  RollInv'
<1>1. CASE Compute
  <2>1. Op /\ frames' = WithTop(Charge(Top, 1)) /\ result' = result /\ world' = world
    BY <1>1 DEF Compute
  <2>2. world \in World /\ frames # <<>>
    BY <2>1 DEF RollInv, ExecInv, Op, Running
  <2>3. PICK g : g = Charge(Top, 1)
    OBVIOUS
  <2>4. /\ g.this = Top.this /\ g.cp = Top.cp /\ g.static = Top.static
        /\ g.create = Top.create /\ g.next = Top.next
    BY <2>2, <2>3, RollTop DEF Charge, Frame
  <2>5. Onward(world, world')
    BY <2>1, <2>2, OnwardSame
  <2> QED BY <2>1, <2>3, <2>4, <2>5, PayRoll
<1>2. CASE Fetch \/ FetchFails
  <2>1. /\ frames' = frames /\ world' = world /\ start' = start /\ result' = result
        /\ phase' \in {phase, "error"}
    BY <1>2 DEF Fetch, FetchFails, Op
  <2>2. Outcome'
    BY <2>1 DEF RollInv, Outcome
  <2> QED BY <2>1, <2>2 DEF RollInv, Nested
<1> QED BY <1>1, <1>2

LEMMA StoreRoll ==
  ASSUME RollInv, ExecInv', NEW val \in Word, Store(val)
  PROVE  RollInv'
<1> DEFINE cost   == StoreGas(val, world.slot[Top.this], Genesis.slot[Top.this])
           refund == StoreRefund(val, world.slot[Top.this], Genesis.slot[Top.this])
<1>1. /\ Op /\ ~Top.static
      /\ frames' = WithTop([Charge(Top, cost) EXCEPT !.refund = @ + refund])
      /\ result' = result /\ world' = [world EXCEPT !.slot[Top.this] = val]
  BY DEF Store
<1>2. world \in World /\ frames # <<>>
  BY <1>1 DEF RollInv, ExecInv, Op, Running
<1>3. PICK g : g = [Charge(Top, cost) EXCEPT !.refund = @ + refund]
  OBVIOUS
<1> HIDE DEF cost, refund
<1>4. /\ g.this = Top.this /\ g.cp = Top.cp /\ g.static = Top.static
      /\ g.create = Top.create /\ g.next = Top.next
  BY <1>2, <1>3, RollTop DEF Charge, Frame
<1>5. world'.nonce = world.nonce
  BY <1>1, <1>2 DEF World
<1>6. Onward(world, world')
  BY <1>2, <1>5, OnwardSame DEF Onward
<1> QED BY <1>1, <1>3, <1>4, <1>6, PayRoll

----------------------------------------------------------------------------
(* Calls and creates.                                                      *)

\* What a call pays, and its ether: none out of a static frame.
LEMMA CallRollFacts ==
  ASSUME RollInv, NEW kind \in Kind, NEW to \in Account, NEW v \in Values,
         NEW ask \in Ask, CanCall(kind, to, v),
         NEW u, u \in {world, IF kind = "call" THEN Move(world, Top.this, to, v) ELSE world}
  PROVE  /\ Op /\ phase = "run" /\ frames # <<>> /\ result = None
         /\ phase' = phase /\ start' = start
         /\ world \in World /\ u \in World /\ Onward(world, u)
         /\ Top.static => u = world
         /\ CallFee(v) + Lent(v, ask) \in Nat
<1>1. ExecInv /\ Op
  BY DEF RollInv, CanCall
<1>2. phase = "run" /\ frames # <<>> /\ result = None /\ world \in World
      /\ phase' = phase /\ start' = start
  BY <1>1, OpFacts
<1>3. CallFee(v) + Lent(v, ask) \in Nat /\ v \in Int
  BY <1>1, CallFacts
<1>4. Top.this \in Account
  BY <1>2, RollTop
<1>5. CASE u = world
  BY <1>1, <1>2, <1>3, <1>5, OnwardSame
<1>6. CASE u = Move(world, Top.this, to, v) /\ kind = "call"
  <2>1. u \in World
    BY <1>2, <1>3, <1>4, <1>6, MoveType
  <2>2. Onward(world, u)
    BY <1>2, <1>3, <1>4, <1>6, OnwardSame, OnwardMove
  <2>3. Top.static => u = world
    BY <1>2, <1>3, <1>4, <1>6, MoveFacts DEF CanCall
  <2> QED BY <1>1, <1>2, <1>3, <2>1, <2>2, <2>3
<1> QED BY <1>5, <1>6

LEMMA CallPaysRoll ==
  ASSUME RollInv, ExecInv', NEW kind \in Kind, NEW to \in Account, NEW v \in Values,
         NEW ask \in Ask,
         \/ CallRefused(kind, to, v, ask)
         \/ \E ok \in BOOLEAN : CallPrecompile(kind, to, v, ask, ok)
  PROVE  RollInv'
<1>1. /\ CanCall(kind, to, v) /\ result' = result
      /\ world' \in {world, IF kind = "call" THEN Move(world, Top.this, to, v) ELSE world}
  BY DEF CallRefused, CallPrecompile
<1>2. PICK gas : frames' = WithTop(Charge(Top, gas))
  BY DEF CallRefused, CallPrecompile
<1>3. /\ Op /\ frames # <<>> /\ Onward(world, world') /\ (Top.static => world' = world)
  BY <1>1, CallRollFacts
<1>4. PICK g : g = Charge(Top, gas)
  OBVIOUS
<1>5. /\ g.this = Top.this /\ g.cp = Top.cp /\ g.static = Top.static
      /\ g.create = Top.create /\ g.next = Top.next
  BY <1>3, <1>4, RollTop DEF Charge, Frame
<1> QED BY <1>1, <1>2, <1>3, <1>4, <1>5, PayRoll

LEMMA CallRoll ==
  ASSUME RollInv, ExecInv', NEW kind \in Kind, NEW to \in Account, NEW v \in Values,
         NEW ask \in Ask, Call(kind, to, v, ask)
  PROVE  RollInv'
<1> DEFINE this   == IF kind \in {"call", "static"} THEN to ELSE Top.this
           static == Top.static \/ kind = "static"
<1>1. /\ CanCall(kind, to, v) /\ result' = result
      /\ world' = IF kind = "call" THEN Move(world, Top.this, to, v) ELSE world
      /\ frames' = Append(WithTop(Charge(Top, CallFee(v) + Lent(v, ask))),
                          NewFrame(this, FALSE, static, world.code[to], Given(v, ask), world))
  BY DEF Call
<1>2. /\ phase = "run" /\ frames # <<>> /\ result = None
      /\ phase' = phase /\ start' = start
      /\ world \in World /\ world' \in World /\ Onward(world, world')
      /\ Top.static => world' = world
      /\ CallFee(v) + Lent(v, ask) \in Nat
  BY <1>1, CallRollFacts
<1>3. Top \in Frame /\ Top.next <= world.nonce[Top.this]
  BY <1>2, RollTop
<1>4. PICK g : g = Charge(Top, CallFee(v) + Lent(v, ask))
  OBVIOUS
<1>5. /\ g \in Frame /\ g.this = Top.this /\ g.cp = Top.cp /\ g.static = Top.static
      /\ g.create = Top.create /\ g.next = Top.next
  <2>1. g \in Frame
    BY <1>2, <1>3, <1>4, ChargeType
  <2> QED BY <1>3, <1>4, <2>1 DEF Charge, Frame
<1>6. PICK f : f = NewFrame(this, FALSE, static, world.code[to], Given(v, ask), world)
  OBVIOUS
<1>7. f.cp = world /\ f.next = 0 /\ f.static = static /\ f.create = FALSE
  BY <1>6 DEF NewFrame
<1>8. kind = "static" => world' = world
  BY <1>1
<1>9. Onward(world, world)
  BY <1>2, OnwardSame
<1>10. frames' = Append(WithTop(g), f) /\ result' = None
  BY <1>1, <1>2, <1>4, <1>6
<1>11. /\ g.static => f.static
       /\ f.static => world' = world /\ ~f.create
       /\ g.next <= world.nonce[g.this]
  BY <1>2, <1>3, <1>5, <1>7, <1>8
<1> QED BY <1>2, <1>5, <1>7, <1>9, <1>10, <1>11, PushRoll

LEMMA CreateRefusedRoll ==
  ASSUME RollInv, ExecInv', NEW v \in Values, CreateRefused(v)
  PROVE  RollInv'
<1>1. /\ Op /\ result' = result /\ world' = world /\ ~Top.static
      /\ frames' = WithTop(Charge(Top, CreateCost))
  BY DEF CreateRefused, CanCreate
<1>2. world \in World /\ frames # <<>>
  BY <1>1 DEF RollInv, ExecInv, Op, Running
<1>3. PICK g : g = Charge(Top, CreateCost)
  OBVIOUS
<1>4. /\ g.this = Top.this /\ g.cp = Top.cp /\ g.static = Top.static
      /\ g.create = Top.create /\ g.next = Top.next
  BY <1>2, <1>3, RollTop DEF Charge, Frame
<1>5. Onward(world, world')
  BY <1>1, <1>2, OnwardSame
<1> QED BY <1>1, <1>3, <1>4, <1>5, PayRoll

\* The creator's nonce is used in the checkpoint of the create.
LEMMA CreateRoll ==
  ASSUME RollInv, ExecInv', NEW v \in Values, NEW a \in Account, Create(a, v)
  PROVE  RollInv'
<1> DEFINE by    == Top.this
           lent  == AllBut(Left(Top) - CreateCost)
           cp    == Bump(world, by)
           payer == [Charge(Top, CreateCost + lent) EXCEPT !.next = cp.nonce[by]]
<1>1. /\ CanCreate /\ Op /\ ~Top.static /\ world.nonce[by] < MaxNonce /\ result' = result
      /\ \/ world' = cp /\ frames' = WithTop(payer)
         \/ /\ ~Taken(cp, a)
            /\ world' = Move(Made(cp, a), by, a, v)
            /\ frames' = Append(WithTop(payer), NewFrame(a, TRUE, FALSE, TRUE, lent, cp))
  BY DEF Create, CanCreate
<1>2. /\ ExecInv /\ phase = "run" /\ frames # <<>> /\ result = None /\ world \in World
      /\ phase' = phase /\ start' = start
  BY <1>1, OpFacts DEF RollInv
<1>3. Top \in Frame /\ by \in Account
  BY <1>2, RollTop
<1>4. MaxNonce \in Nat /\ v \in Int
  BY ExecutorAssumption DEF ExecutorAssumption
<1>5. cp \in World /\ Onward(world, cp) /\ cp.nonce[by] \in Nat
  <2>1. world.nonce[by] \in Nat
    BY <1>2, <1>3, Nonces
  <2>2. world.nonce[by] <= MaxNonce
    BY <1>1, <1>4, <2>1
  <2> QED BY <1>2, <1>3, <2>2, BumpFacts, Nonces
<1>6. CreateCost + lent \in Nat
  BY <1>1, <1>2, CreateFacts
<1>7. PICK h : h = Charge(Top, CreateCost + lent)
  OBVIOUS
<1>8. h \in Frame /\ h.this = Top.this /\ h.cp = Top.cp /\ h.static = Top.static
      /\ h.create = Top.create
  <2>1. h \in Frame
    BY <1>3, <1>6, <1>7, ChargeType
  <2> HIDE DEF lent
  <2> QED BY <1>3, <1>7, <2>1 DEF Charge, Frame
<1>9. PICK g : g = payer
  OBVIOUS
<1>10. g = [h EXCEPT !.next = cp.nonce[by]]
  BY <1>7, <1>9
<1> HIDE DEF cp, lent, payer
<1>11. /\ g \in Frame /\ g.this = Top.this /\ g.cp = Top.cp /\ g.static = Top.static
       /\ g.create = Top.create /\ g.next = cp.nonce[by]
  BY <1>5, <1>8, <1>10 DEF Frame
<1>12. g.next <= cp.nonce[g.this]
  BY <1>5, <1>11
<1>13. CASE world' = cp /\ frames' = WithTop(payer)
  BY <1>1, <1>2, <1>5, <1>9, <1>11, <1>12, <1>13, SpendRoll
<1>14. CASE /\ ~Taken(cp, a)
            /\ world' = Move(Made(cp, a), by, a, v)
            /\ frames' = Append(WithTop(payer), NewFrame(a, TRUE, FALSE, TRUE, lent, cp))
  <2>1. PICK f : f = NewFrame(a, TRUE, FALSE, TRUE, lent, cp)
    OBVIOUS
  <2>2. f.cp = cp /\ f.next = 0 /\ f.static = FALSE
    BY <2>1 DEF NewFrame
  <2>3. Made(cp, a) \in World /\ Onward(cp, Made(cp, a))
    BY <1>5, <1>14, MadeFacts
  <2>4. Onward(cp, world') /\ world' \in World
    BY <1>3, <1>4, <1>5, <1>14, <2>3, OnwardMove, MoveType
  <2> QED BY <1>1, <1>2, <1>5, <1>9, <1>11, <1>12, <1>14, <2>1, <2>2, <2>4, PushRoll
<1> QED BY <1>1, <1>13, <1>14

----------------------------------------------------------------------------
(* The ends of a frame and of the transaction.                             *)

LEMMA FrameEndRoll ==
  ASSUME RollInv, ExecInv',
         \/ \E code, bad \in BOOLEAN : Return(code, bad)
         \/ \E b \in Account : SelfDestruct(b)
         \/ Revert \/ Halt
  PROVE  RollInv'
<1>1. Running /\ ExecInv
  BY DEF Return, SelfDestruct, Revert, Halt, RollInv
<1>2. /\ frames # <<>> /\ world \in World /\ Top.this \in Account /\ Left(Top) \in Nat
      /\ 0 \in Nat
  BY <1>1, TopFacts DEF Running, ExecInv
<1>3. ASSUME NEW left, NEW code, NEW w \in World, w.nonce = world.nonce,
             Top.static => w = world,
             \/ End(Success(left, Top.refund), w)
             \/ Top.create /\ End(Deployed(left, Top.refund, Top.this, code), w)
      PROVE  RollInv'
  <2>1. world' = w
    BY <1>3 DEF End
  <2>2. Onward(world, world')
    BY <1>2, <1>3, <2>1, OnwardSame DEF Onward
  <2>3. CASE End(Success(left, Top.refund), w)
    <3>1. Success(left, Top.refund).ok = TRUE /\ Success(left, Top.refund).made = {}
      BY DEF Success
    <3> QED BY <1>3, <2>1, <2>2, <2>3, <3>1, SucceedRoll
  <2>4. CASE Top.create /\ End(Deployed(left, Top.refund, Top.this, code), w)
    <3>1. Deployed(left, Top.refund, Top.this, code).ok = TRUE
      BY DEF Deployed
    <3> QED BY <1>3, <2>1, <2>2, <2>4, <3>1, SucceedRoll
  <2> QED BY <1>3, <2>3, <2>4
<1>4. ASSUME NEW code \in BOOLEAN, NEW bad \in BOOLEAN, Return(code, bad)
      PROVE  RollInv'
  <2>1. \/ End(Failure(0), Top.cp)
        \/ \E left : \/ End(Success(left, Top.refund), world)
                     \/ Top.create /\ End(Deployed(left, Top.refund, Top.this, code), world)
    BY <1>4 DEF Return
  <2> QED BY <1>2, <1>3, <2>1, FailRoll
<1>5. ASSUME NEW b \in Account, SelfDestruct(b)
      PROVE  RollInv'
  <2> DEFINE a    == Top.this
             gone == IF a \in world.made THEN {a} ELSE {}
             w    == [Move(world, a, b, world.bal[a]) EXCEPT !.doomed = @ \cup gone]
  <2>1. ~Top.static
    BY <1>5 DEF SelfDestruct
  <2>2. \E left : \/ End(Success(left, Top.refund), w)
                  \/ Top.create /\ End(Deployed(left, Top.refund, a, FALSE), w)
    BY <1>5 DEF SelfDestruct
  <2>3. world.bal[a] \in Int
    BY <1>2, ExecutorAssumption DEF ExecutorAssumption, World
  <2>4. PICK m : m = Move(world, a, b, world.bal[a])
    OBVIOUS
  <2>5. m \in World /\ m.nonce = world.nonce
    BY <1>2, <2>3, <2>4, MoveType, MoveFacts
  <2>6. gone \in SUBSET Account
    BY <1>2
  <2>7. w = [m EXCEPT !.doomed = @ \cup gone]
    BY <2>4
  <2> HIDE DEF w, gone
  <2>8. w \in World /\ w.nonce = world.nonce
    BY <2>5, <2>6, <2>7 DEF World
  <2> QED BY <1>3, <2>1, <2>2, <2>8
<1>6. CASE Revert
  BY <1>2, <1>6, FailRoll DEF Revert
<1>7. CASE Halt
  BY <1>2, <1>7, FailRoll DEF Halt
<1> QED BY <1>4, <1>5, <1>6, <1>7

\* The caller of a create that deployed is not static.
LEMMA ResumeRoll ==
  ASSUME RollInv, ExecInv', Resume
  PROVE  RollInv'
<1>1. /\ phase = "run" /\ frames # <<>> /\ result # None
      /\ result' = None /\ world' = WithCode(world, result)
      /\ phase' = phase /\ start' = start
  BY DEF Resume, Running
<1>2. /\ Stack(frames) /\ Top \in Frame /\ world \in World
      /\ Top.next <= world.nonce[Top.this] /\ Top = frames[Len(frames)]
      /\ Len(frames) \in 1 .. Len(frames)
  BY <1>1, RollTop
<1>3. result \in Result /\ world' \in World
  BY <1>1 DEF RollInv, ExecInv, ResultOf
<1>4. world'.nonce = world.nonce
  BY <1>1, <1>2 DEF WithCode, World
<1>5. Onward(world, world')
  BY <1>2, <1>4, OnwardSame DEF Onward
<1>6. Top.static => world' = world
  <2>1. result.made = {} => world' = world
    BY <1>1, <1>2, <1>3, SameWorlds
  <2>2. result.made # {} => ~Top.static
    BY <1>2 DEF RollInv, Outcome
  <2> QED BY <2>1, <2>2
<1>7. PICK n, r : frames' = WithTop([Top EXCEPT !.spent = n, !.refund = r])
  BY DEF Resume
<1>8. PICK g : g = [Top EXCEPT !.spent = n, !.refund = r]
  OBVIOUS
<1>9. /\ g.this = Top.this /\ g.cp = Top.cp /\ g.static = Top.static
      /\ g.create = Top.create /\ g.next = Top.next
  BY <1>2, <1>8 DEF Frame
<1>10. g \in Frame
  <2>1. frames \in Seq(Frame)
    BY <1>2 DEF Stack
  <2>2. PICK h \in Seq(Frame) : h = [frames EXCEPT ![Len(frames)] = g]
    BY <1>7, <1>8 DEF ExecInv, Stack, WithTop
  <2>3. h[Len(frames)] = g /\ Len(frames) \in DOMAIN h
    BY <1>2, <2>1, <2>2
  <2>4. \A i \in DOMAIN h : h[i] \in Frame
    OBVIOUS
  <2> QED BY <2>3, <2>4
<1> QED BY <1>1, <1>2, <1>3, <1>4, <1>5, <1>6, <1>7, <1>8, <1>9, <1>10, SpendRoll

LEMMA LastRoll ==
  ASSUME RollInv, ExecInv', StepLimit \/ Finish \/ Ended
  PROVE  RollInv'
<1>1. CASE StepLimit
  <2>1. /\ frames' = <<>> /\ phase' = "stopped" /\ start' = start
        /\ result' = Failure(0)
    BY <1>1 DEF StepLimit
  <2>2. Nested(frames, world, start)'
    BY <2>1, NoNested DEF Nested
  <2>3. result'.made = {}
    BY <2>1 DEF Failure
  <2>4. Outcome'
    BY <2>1, <2>3 DEF Outcome
  <2> QED BY <2>1, <2>2, <2>4 DEF RollInv
<1>2. CASE Finish
  <2>1. /\ frames = <<>> /\ frames' = <<>> /\ phase = "run" /\ phase' = "done"
        /\ start' = start /\ result' = result
        /\ world' = Applied(WithCode(world, result))
    BY <1>2 DEF Finish
  <2>2. Nested(frames, world, start)'
    BY <2>1, NoNested DEF Nested
  <2>3. result \in Result /\ start \in World
    BY <2>1 DEF RollInv, Outcome, ExecInv, ResultOf
  <2>4. ~result.ok => world' = start
    <3>1. ~result.ok => world = start /\ result.made = {}
      BY <2>1 DEF RollInv, Outcome
    <3>2. start.doomed = {}
      BY DEF RollInv
    <3> QED BY <2>1, <2>3, <3>1, <3>2, SameWorlds
  <2>5. Outcome'
    BY <2>1, <2>4 DEF RollInv, Outcome
  <2> QED BY <2>1, <2>2, <2>5 DEF RollInv
<1>3. CASE Ended
  BY <1>3 DEF Ended, vars, RollInv, Nested, Outcome
<1> QED BY <1>1, <1>2, <1>3

----------------------------------------------------------------------------
(* The theorems.                                                           *)

LEMMA RollInit == Init => RollInv
<1> SUFFICES ASSUME Init PROVE RollInv
  OBVIOUS
<1>1. ExecInv
  BY ExecInit
<1>2. Nested(frames, world, start)
  BY NoNested DEF Init, Nested
<1>3. Outcome
  BY DEF Init, Outcome, None
<1>4. start.doomed = {}
  BY ExecutorAssumption DEF ExecutorAssumption, Init
<1> QED BY <1>1, <1>2, <1>3, <1>4 DEF RollInv

LEMMA RollNext == RollInv /\ [Next]_vars => RollInv'
<1> SUFFICES ASSUME RollInv, [Next]_vars PROVE RollInv'
  OBVIOUS
<1>1. ExecInv'
  BY ExecNext DEF RollInv
<1>2. Pre \subseteq Account /\ New \cup Contract \subseteq Account
  BY DEF Account
<1>3. CASE UNCHANGED vars
  BY <1>1, <1>3 DEF vars, RollInv, Nested, Outcome
<1>4. ASSUME NEW v \in Values,
             \/ \E to \in Account : StartCall(to, v)
             \/ \E to \in Pre, ok \in BOOLEAN : StartPrecompile(to, v, ok)
             \/ \E a \in New \cup Contract : StartCreate(a, v)
      PROVE  RollInv'
  BY <1>1, <1>2, <1>4, StartRoll
<1>5. ASSUME NEW v \in Values, \E a \in New \cup Contract : Create(a, v)
      PROVE  RollInv'
  BY <1>1, <1>2, <1>5, CreateRoll
<1>6. ASSUME NEW v \in Values, CreateRefused(v)
      PROVE  RollInv'
  BY <1>1, <1>6, CreateRefusedRoll
<1>7. ASSUME NEW v \in Values, NEW kind \in Kind, NEW to \in Account, NEW ask \in Ask,
             \/ Call(kind, to, v, ask) \/ CallRefused(kind, to, v, ask)
             \/ \E ok \in BOOLEAN : CallPrecompile(kind, to, v, ask, ok)
      PROVE  RollInv'
  BY <1>1, <1>7, CallRoll, CallPaysRoll
<1>8. CASE Compute \/ Fetch \/ FetchFails
  BY <1>1, <1>8, QuietRoll
<1>9. CASE \E val \in Word : Store(val)
  BY <1>1, <1>9, StoreRoll
<1>10. CASE (\E code, bad \in BOOLEAN : Return(code, bad))
              \/ (\E b \in Account : SelfDestruct(b)) \/ Revert \/ Halt
  BY <1>1, <1>10, FrameEndRoll
<1>11. CASE Resume
  BY <1>1, <1>11, ResumeRoll
<1>12. CASE StepLimit \/ Finish \/ Ended
  BY <1>1, <1>12, LastRoll
<1> QED BY <1>3, <1>4, <1>5, <1>6, <1>7, <1>8, <1>9, <1>10, <1>11, <1>12 DEF Next

LEMMA RollInvGives == RollInv => StaticIsFrozen /\ NoncesAreUsedUp /\ FailedTxLeavesNoTrace
<1> SUFFICES ASSUME RollInv PROVE StaticIsFrozen /\ NoncesAreUsedUp /\ FailedTxLeavesNoTrace
  OBVIOUS
<1>1. Frames = 1 .. Len(frames)
  BY DEF RollInv, ExecInv, Stack, Frames
<1>2. StaticIsFrozen
  BY <1>1 DEF RollInv, Nested, StaticIsFrozen
<1>3. NoncesAreUsedUp
  BY <1>1 DEF RollInv, Nested, NoncesAreUsedUp
<1>4. FailedTxLeavesNoTrace
  BY DEF RollInv, Outcome, FailedTxLeavesNoTrace
<1> QED BY <1>2, <1>3, <1>4

\* While a static frame is open, whatever it calls in whatever way, and
\* however those calls end, the accounts are those of its checkpoint (EIP-214).
THEOREM StaticCorrect == Spec => []StaticIsFrozen
<1>1. RollInv => StaticIsFrozen
  BY RollInvGives
<1> QED BY <1>1, RollInit, RollNext, PTL DEF Spec

\* The nonce that a frame used for a create stays used as long as the frame
\* is open, through every failure above it.
THEOREM NonceUseCorrect == Spec => []NoncesAreUsedUp
<1>1. RollInv => NoncesAreUsedUp
  BY RollInvGives
<1> QED BY <1>1, RollInit, RollNext, PTL DEF Spec

\* A transaction that ends in failure leaves the accounts as they were at its
\* first checkpoint, after the sender's nonce, whatever its frames did.
THEOREM FailureCorrect == Spec => []FailedTxLeavesNoTrace
<1>1. RollInv => FailedTxLeavesNoTrace
  BY RollInvGives
<1> QED BY <1>1, RollInit, RollNext, PTL DEF Spec

----------------------------------------------------------------------------
(* Ether.  The balances of a world add up to those of Genesis, modulo W.   *)

Even(w) == Multiple(Total(w.bal, Account) - Total(Genesis.bal, Account), W)

\* The inductive invariant: so it is in the world and in every world that a
\* failure may bring back, until the doomed accounts are emptied.
EtherInv ==
  phase # "done" =>
    /\ Even(world) /\ Even(start)
    /\ \A i \in 1 .. Len(frames) : Even(frames[i].cp)

LEMMA Finite == IsFiniteSet(Account) /\ W \in Nat \ {0} /\ Genesis \in World
BY ExecutorAssumption DEF ExecutorAssumption

LEMMA BalanceSum ==
  ASSUME NEW w \in World
  PROVE  /\ w.bal \in Wrapped(Account, W) /\ Total(w.bal, Account) \in Int
         /\ \A a \in Account : w.bal[a] \in Int
<1>1. w.bal \in Wrapped(Account, W)
  BY DEF World, Wrapped
<1> QED BY <1>1, Finite, WrappedSum

\* What leaves the balances alone leaves their sum alone.
LEMMA SameBalances ==
  ASSUME NEW w, NEW u, Even(w), u.bal = w.bal
  PROVE  Even(u)
BY DEF Even

LEMMA MoveEven ==
  ASSUME NEW w \in World, NEW from \in Account, NEW to \in Account, NEW v \in Int, Even(w)
  PROVE  Even(Move(w, from, to, v))
<1> DEFINE x == 0 - v
           b == [w.bal EXCEPT ![from] = (@ - v) % W]
           c == [b EXCEPT ![to] = (@ + v) % W]
<1>1. w.bal \in Wrapped(Account, W) /\ Total(w.bal, Account) \in Int /\ w.bal[from] \in Int
  BY BalanceSum
<1>2. x \in Int /\ w.bal[from] - v = w.bal[from] + x /\ x = 0 - v
  BY <1>1
<1>3. b = [w.bal EXCEPT ![from] = (@ + x) % W]
  BY <1>2
<1>4. Move(w, from, to, v).bal = c
  <2> DEFINE u == [w EXCEPT !.bal[from] = (@ - v) % W]
  <2>1. u.bal = b /\ DOMAIN u = DOMAIN w /\ "bal" \in DOMAIN w
    BY DEF World
  <2>2. Move(w, from, to, v) = [u EXCEPT !.bal[to] = (@ + v) % W]
    BY DEF Move
  <2> HIDE DEF u
  <2> QED BY <2>1, <2>2
<1>5. c = [b EXCEPT ![to] = (@ + v) % W]
  OBVIOUS
<1> HIDE DEF x, b, c
<1>6. b \in Wrapped(Account, W) /\ Multiple(Total(b, Account) - Total(w.bal, Account) - x, W)
  BY <1>1, <1>2, <1>3, Finite, TotalWraps
<1>7. c \in Wrapped(Account, W) /\ Multiple(Total(c, Account) - Total(b, Account) - v, W)
  BY <1>5, <1>6, Finite, TotalWraps
<1> DEFINE p == Total(w.bal, Account)
           q == Total(b, Account)
           r == Total(c, Account)
           g == Total(Genesis.bal, Account)
<1>8. /\ p \in Int /\ q \in Int /\ r \in Int /\ g \in Int
      /\ Multiple(p - g, W) /\ Multiple(q - p - x, W) /\ Multiple(r - q - v, W)
  BY <1>1, <1>6, <1>7, Finite, WrappedSum, BalanceSum DEF Even
<1> HIDE DEF p, q, r, g
<1>9. /\ p - g \in Int /\ q - p - x \in Int /\ r - q - v \in Int
      /\ (p - g) + (q - p - x) \in Int
      /\ r - g = ((p - g) + (q - p - x)) + (r - q - v)
  BY <1>2, <1>8
<1>10. Multiple((p - g) + (q - p - x), W)
  BY <1>8, <1>9, Finite, MultipleSum
<1>11. Multiple(r - g, W)
  BY <1>8, <1>9, <1>10, Finite, MultipleSum
<1> QED BY <1>4, <1>11 DEF Even, r, g

\* A step that keeps the frames, or changes what the top one has spent.
LEMMA TopEven ==
  ASSUME EtherInv, ExecInv, phase = "run", frames # <<>>,
         NEW g, g.cp = Top.cp, frames' = WithTop(g), start' = start, Even(world')
  PROVE  EtherInv'
<1>1. frames \in Seq(Frame) /\ Len(frames) \in 1 .. Len(frames)
  BY EmptySeq DEF ExecInv, Stack
<1>2. Len(frames') = Len(frames)
      /\ \A i \in 1 .. Len(frames) : frames'[i] = IF i = Len(frames) THEN g ELSE frames[i]
  BY <1>1 DEF WithTop
<1>3. \A i \in 1 .. Len(frames) : frames'[i].cp = frames[i].cp
  BY <1>1, <1>2 DEF Top
<1> QED BY <1>2, <1>3 DEF EtherInv

LEMMA PushEven ==
  ASSUME EtherInv, ExecInv, phase = "run", frames # <<>>,
         NEW g \in Frame, NEW f, g.cp = Top.cp, Even(f.cp),
         frames' = Append(WithTop(g), f), start' = start, Even(world')
  PROVE  EtherInv'
<1>1. frames \in Seq(Frame) /\ Len(frames) \in 1 .. Len(frames)
  BY EmptySeq DEF ExecInv, Stack
<1>2. PICK fs : fs = WithTop(g)
  OBVIOUS
<1>3. fs \in Seq(Frame) /\ Len(fs) = Len(frames)
      /\ \A i \in 1 .. Len(frames) : fs[i] = IF i = Len(frames) THEN g ELSE frames[i]
  BY <1>1, <1>2 DEF WithTop
<1>4. \A i \in 1 .. Len(frames) : Even(fs[i].cp)
  BY <1>1, <1>3 DEF Top, EtherInv
<1>5. /\ Len(frames') = Len(frames) + 1
      /\ \A i \in 1 .. Len(frames') : frames'[i] = IF i = Len(frames) + 1 THEN f ELSE fs[i]
  BY <1>1, <1>2, <1>3
<1>6. \A i \in 1 .. Len(frames') : Even(frames'[i].cp)
  BY <1>1, <1>4, <1>5
<1> QED BY <1>6 DEF EtherInv

LEMMA PopFacts ==
  ASSUME NEW fs, fs \in Seq(Frame), fs # <<>>
  PROVE  LET gs == SubSeq(fs, 1, Len(fs) - 1) IN
         /\ gs \in Seq(Frame) /\ Len(gs) = Len(fs) - 1
         /\ \A i \in 1 .. Len(gs) : gs[i] = fs[i] /\ i \in 1 .. Len(fs)
<1> DEFINE gs == SubSeq(fs, 1, Len(fs) - 1)
<1>1. Len(fs) \in Nat /\ Len(fs) >= 1
  BY EmptySeq
<1>2. gs \in Seq(Frame) /\ Len(gs) = Len(fs) - 1
  BY <1>1
<1>3. \A i \in 1 .. Len(gs) : gs[i] = fs[i] /\ i \in 1 .. Len(fs)
  BY <1>1, <1>2
<1> QED BY <1>2, <1>3

LEMMA PopEven ==
  ASSUME EtherInv, ExecInv, phase = "run", frames # <<>>,
         frames' = Popped, start' = start, Even(world')
  PROVE  EtherInv'
<1> DEFINE fs == SubSeq(frames, 1, Len(frames) - 1)
<1>1. frames \in Seq(Frame)
  BY DEF ExecInv, Stack
<1>2. frames' = fs
  BY DEF Popped
<1>3. \A i \in 1 .. Len(fs) : fs[i] = frames[i] /\ i \in 1 .. Len(frames)
  BY <1>1, PopFacts
<1> HIDE DEF fs
<1>5. \A i \in 1 .. Len(fs) : Even(fs[i].cp)
  BY <1>3 DEF EtherInv
<1> QED BY <1>2, <1>5 DEF EtherInv

\* What moves no ether.
LEMMA Unmoved ==
  ASSUME NEW w \in World, NEW a \in Account
  PROVE  Bump(w, a).bal = w.bal /\ Made(w, a).bal = w.bal
BY DEF Bump, Made, World

LEMMA StartEven ==
  ASSUME ExecInv, EtherInv, NEW v \in Values, NEW to \in Account, NEW ok \in BOOLEAN,
         \/ StartCall(to, v)
         \/ StartPrecompile(to, v, ok)
         \/ StartCreate(to, v)
  PROVE  EtherInv'
<1>1. Begin
  BY DEF StartCall, StartPrecompile, StartCreate
<1>2. start' = Bump(world, Sender) /\ world = Genesis /\ world \in World /\ Even(world)
  BY <1>1 DEF Begin, ExecInv, EtherInv
<1>3. Sender \in Account /\ world.nonce[Sender] <= MaxNonce /\ v \in Int
  BY <1>2, ExecutorAssumption DEF ExecutorAssumption, Account
<1>4. start' \in World /\ Even(start')
  BY <1>2, <1>3, BumpType, Unmoved, SameBalances
<1>5. Even(Move(start', Sender, to, v))
  BY <1>3, <1>4, MoveEven
<1>6. Made(start', to) \in World /\ Even(Made(start', to))
  BY <1>4, MadeType, Unmoved, SameBalances
<1>7. Even(Move(Made(start', to), Sender, to, v))
  BY <1>3, <1>6, MoveEven
<1>8. ASSUME NEW f, frames' = <<f>>, f.cp = start', Even(world')
      PROVE  EtherInv'
  <2>1. Len(frames') = 1 /\ frames'[1] = f
    BY <1>8
  <2>2. \A i \in 1 .. 1 : i = 1
    OBVIOUS
  <2> QED BY <1>4, <1>8, <2>1, <2>2 DEF EtherInv
<1>9. CASE StartCall(to, v)
  <2>1. PICK f : f = NewFrame(to, FALSE, FALSE, world.code[to], Limit, start')
    OBVIOUS
  <2>2. f.cp = start'
    BY <2>1 DEF NewFrame
  <2> QED BY <1>5, <1>8, <1>9, <2>1, <2>2 DEF StartCall
<1>10. CASE StartPrecompile(to, v, ok)
  BY <1>10 DEF StartPrecompile, EtherInv
<1>11. CASE StartCreate(to, v)
  <2>1. CASE Taken(start', to)
    BY <1>11, <2>1 DEF StartCreate, EtherInv
  <2>2. CASE ~Taken(start', to)
    <3>1. PICK f : f = NewFrame(to, TRUE, FALSE, TRUE, Limit, start')
      OBVIOUS
    <3>2. f.cp = start'
      BY <3>1 DEF NewFrame
    <3> QED BY <1>7, <1>8, <1>11, <2>2, <3>1, <3>2 DEF StartCreate
  <2> QED BY <2>1, <2>2
<1> QED BY <1>9, <1>10, <1>11

\* An instruction that only pays keeps the checkpoint of its frame.
LEMMA ChargeCp ==
  ASSUME ExecInv, frames # <<>>, NEW gas
  PROVE  Charge(Top, gas).cp = Top.cp
BY TopFacts DEF Charge, Frame

LEMMA QuietEven ==
  ASSUME ExecInv, EtherInv,
         \/ Compute \/ Fetch \/ FetchFails
         \/ \E val \in Word : Store(val)
         \/ \E v \in Values : CreateRefused(v)
  PROVE  EtherInv'
<1>1. ASSUME Op, NEW gas, frames' = WithTop(Charge(Top, gas)), world' = world
      PROVE  EtherInv'
  <2>1. phase = "run" /\ frames # <<>> /\ start' = start
    BY <1>1 DEF Op, Running
  <2> QED BY <1>1, <2>1, ChargeCp, TopEven DEF EtherInv
<1>2. CASE Compute
  BY <1>1, <1>2 DEF Compute
<1>3. CASE \E v \in Values : CreateRefused(v)
  BY <1>1, <1>3 DEF CreateRefused, CanCreate
<1>4. CASE Fetch \/ FetchFails
  <2>1. frames' = frames /\ world' = world /\ start' = start /\ phase = "run"
    BY <1>4 DEF Fetch, FetchFails, Op, Running
  <2> QED BY <2>1 DEF EtherInv
<1>5. ASSUME NEW val \in Word, Store(val)
      PROVE  EtherInv'
  <2> DEFINE cost   == StoreGas(val, world.slot[Top.this], Genesis.slot[Top.this])
             refund == StoreRefund(val, world.slot[Top.this], Genesis.slot[Top.this])
  <2>1. /\ Op /\ frames' = WithTop([Charge(Top, cost) EXCEPT !.refund = @ + refund])
        /\ world' = [world EXCEPT !.slot[Top.this] = val]
    BY <1>5 DEF Store
  <2>2. phase = "run" /\ frames # <<>> /\ start' = start /\ world \in World
    BY <2>1 DEF Op, Running, ExecInv
  <2>3. PICK g : g = [Charge(Top, cost) EXCEPT !.refund = @ + refund]
    OBVIOUS
  <2> HIDE DEF cost, refund
  <2>4. g.cp = Top.cp
    BY <2>2, <2>3, TopFacts DEF Charge, Frame
  <2>5. Even(world')
    <3>1. world'.bal = world.bal
      BY <2>1, <2>2 DEF World
    <3> QED BY <2>2, <3>1, SameBalances DEF EtherInv
  <2> QED BY <2>1, <2>2, <2>3, <2>4, <2>5, TopEven
<1> QED BY <1>2, <1>3, <1>4, <1>5

LEMMA CallEven ==
  ASSUME ExecInv, EtherInv, NEW kind \in Kind, NEW to \in Account, NEW v \in Values,
         NEW ask \in Ask,
         \/ Call(kind, to, v, ask) \/ CallRefused(kind, to, v, ask)
         \/ \E ok \in BOOLEAN : CallPrecompile(kind, to, v, ask, ok)
  PROVE  EtherInv'
<1>1. CanCall(kind, to, v) /\ world' \in {world, Move(world, Top.this, to, v)}
  BY DEF Call, CallRefused, CallPrecompile
<1>2. /\ phase = "run" /\ frames # <<>> /\ start' = start
      /\ world \in World /\ v \in Int /\ Top.this \in Account /\ Top \in Frame
  BY <1>1, CallFacts, OpFacts, TopFacts
<1>3. Even(world) /\ Even(world')
  BY <1>1, <1>2, MoveEven DEF EtherInv
<1>4. CASE Call(kind, to, v, ask)
  <2>1. PICK g : g = Charge(Top, CallFee(v) + Lent(v, ask))
    OBVIOUS
  <2>2. g \in Frame /\ g.cp = Top.cp
    <3>1. CallFee(v) + Lent(v, ask) \in Nat
      BY <1>1, CallFacts
    <3> QED BY <1>2, <2>1, <3>1, ChargeType, ChargeCp
  <2>3. PICK f : f = NewFrame(IF kind \in {"call", "static"} THEN to ELSE Top.this,
                              FALSE, Top.static \/ kind = "static", world.code[to],
                              Given(v, ask), world)
    OBVIOUS
  <2>4. f.cp = world
    BY <2>3 DEF NewFrame
  <2>5. frames' = Append(WithTop(g), f)
    BY <1>4, <2>1, <2>3 DEF Call
  <2> QED BY <1>2, <1>3, <2>2, <2>4, <2>5, PushEven
<1>5. CASE \/ CallRefused(kind, to, v, ask)
           \/ \E ok \in BOOLEAN : CallPrecompile(kind, to, v, ask, ok)
  <2>1. PICK gas : frames' = WithTop(Charge(Top, gas))
    BY <1>5 DEF CallRefused, CallPrecompile
  <2> QED BY <1>2, <1>3, <2>1, ChargeCp, TopEven
<1> QED BY <1>4, <1>5

LEMMA CreateEven ==
  ASSUME ExecInv, EtherInv, NEW v \in Values, NEW a \in Account, Create(a, v)
  PROVE  EtherInv'
<1> DEFINE by    == Top.this
           lent  == AllBut(Left(Top) - CreateCost)
           cp    == Bump(world, by)
           payer == [Charge(Top, CreateCost + lent) EXCEPT !.next = cp.nonce[by]]
<1>1. /\ CanCreate /\ Op /\ world.nonce[by] < MaxNonce
      /\ \/ world' = cp /\ frames' = WithTop(payer)
         \/ /\ world' = Move(Made(cp, a), by, a, v)
            /\ frames' = Append(WithTop(payer), NewFrame(a, TRUE, FALSE, TRUE, lent, cp))
  BY DEF Create, CanCreate
<1>2. /\ phase = "run" /\ frames # <<>> /\ start' = start /\ world \in World
      /\ Top \in Frame /\ by \in Account
  BY <1>1, OpFacts, TopFacts
<1>3. MaxNonce \in Nat /\ v \in Int
  BY ExecutorAssumption DEF ExecutorAssumption
<1>4. cp \in World /\ cp.nonce[by] \in Nat /\ Even(cp)
  <2>1. world.nonce[by] \in Nat
    BY <1>2, Nonces
  <2>2. world.nonce[by] <= MaxNonce
    BY <1>1, <1>3, <2>1
  <2> QED BY <1>2, <2>2, BumpType, Unmoved, SameBalances DEF EtherInv
<1>5. Even(Move(Made(cp, a), by, a, v))
  <2>1. Made(cp, a) \in World /\ Even(Made(cp, a))
    BY <1>4, MadeType, Unmoved, SameBalances
  <2> QED BY <1>2, <1>3, <2>1, MoveEven
<1>6. CreateCost + lent \in Nat
  BY <1>1, CreateFacts
<1>7. PICK h : h = Charge(Top, CreateCost + lent)
  OBVIOUS
<1>8. h \in Frame /\ h.cp = Top.cp
  BY <1>2, <1>6, <1>7, ChargeType, ChargeCp
<1>9. PICK g : g = payer
  OBVIOUS
<1>10. g = [h EXCEPT !.next = cp.nonce[by]]
  BY <1>7, <1>9
<1> HIDE DEF cp, lent, payer
<1>11. g \in Frame /\ g.cp = Top.cp
  BY <1>4, <1>8, <1>10 DEF Frame
<1>12. CASE world' = cp /\ frames' = WithTop(payer)
  BY <1>2, <1>4, <1>9, <1>11, <1>12, TopEven
<1>13. CASE /\ world' = Move(Made(cp, a), by, a, v)
            /\ frames' = Append(WithTop(payer), NewFrame(a, TRUE, FALSE, TRUE, lent, cp))
  <2>1. PICK f : f = NewFrame(a, TRUE, FALSE, TRUE, lent, cp)
    OBVIOUS
  <2>2. f.cp = cp
    BY <2>1 DEF NewFrame
  <2>3. Even(world')
    BY <1>5, <1>13
  <2> QED BY <1>2, <1>4, <1>9, <1>11, <1>13, <2>1, <2>2, <2>3, PushEven
<1> QED BY <1>1, <1>12, <1>13

LEMMA FrameEndEven ==
  ASSUME ExecInv, EtherInv,
         \/ \E code, bad \in BOOLEAN : Return(code, bad)
         \/ \E b \in Account : SelfDestruct(b)
         \/ Revert \/ Halt
  PROVE  EtherInv'
<1>1. Running
  BY DEF Return, SelfDestruct, Revert, Halt
<1>2. /\ phase = "run" /\ frames # <<>> /\ world \in World /\ Top.this \in Account
      /\ Even(world)
  BY <1>1, TopFacts DEF Running, ExecInv, EtherInv
<1>3. Even(Top.cp)
  <2>1. Len(frames) \in 1 .. Len(frames)
    BY <1>2, EmptySeq DEF ExecInv, Stack
  <2> QED BY <1>2, <2>1 DEF EtherInv, Top
<1>4. ASSUME NEW r, NEW w, End(r, w), Even(w)
      PROVE  EtherInv'
  <2>1. frames' = Popped /\ world' = w /\ start' = start
    BY <1>4 DEF End
  <2> QED BY <1>2, <1>4, <2>1, PopEven
<1>5. ASSUME NEW code \in BOOLEAN, NEW bad \in BOOLEAN, Return(code, bad)
      PROVE  EtherInv'
  <2>1. \E r : End(r, Top.cp) \/ End(r, world)
    BY <1>5 DEF Return
  <2> QED BY <1>2, <1>3, <1>4, <2>1
<1>6. ASSUME NEW b \in Account, SelfDestruct(b)
      PROVE  EtherInv'
  <2> DEFINE gone == IF Top.this \in world.made THEN {Top.this} ELSE {}
             w    == [Move(world, Top.this, b, world.bal[Top.this]) EXCEPT !.doomed = @ \cup gone]
  <2>1. \E r : End(r, w)
    BY <1>6 DEF SelfDestruct
  <2>2. PICK m : m = Move(world, Top.this, b, world.bal[Top.this])
    OBVIOUS
  <2>3. world.bal[Top.this] \in Int
    BY <1>2, BalanceSum
  <2>4. m \in World /\ Even(m)
    BY <1>2, <2>2, <2>3, MoveType, MoveEven
  <2>5. w = [m EXCEPT !.doomed = @ \cup gone]
    BY <2>2
  <2> HIDE DEF w, gone
  <2>6. w.bal = m.bal
    BY <2>4, <2>5 DEF World
  <2>7. Even(w)
    BY <2>4, <2>6, SameBalances
  <2> QED BY <1>4, <2>1, <2>7
<1>7. CASE Revert \/ Halt
  BY <1>3, <1>4, <1>7 DEF Revert, Halt
<1> QED BY <1>5, <1>6, <1>7

LEMMA ResumeEven ==
  ASSUME ExecInv, EtherInv, Resume
  PROVE  EtherInv'
<1>1. /\ phase = "run" /\ frames # <<>> /\ world' = WithCode(world, result)
      /\ start' = start /\ world \in World
  BY DEF Resume, Running, ExecInv
<1>2. Even(world')
  <2>1. world'.bal = world.bal
    BY <1>1 DEF WithCode, World
  <2> QED BY <1>1, <2>1, SameBalances DEF EtherInv
<1>3. PICK n, r : frames' = WithTop([Top EXCEPT !.spent = n, !.refund = r])
  BY DEF Resume
<1>4. PICK g : g = [Top EXCEPT !.spent = n, !.refund = r]
  OBVIOUS
<1>5. g.cp = Top.cp
  BY <1>1, <1>4, TopFacts DEF Frame
<1> QED BY <1>1, <1>2, <1>3, <1>4, <1>5, TopEven

LEMMA LastEven ==
  ASSUME ExecInv, EtherInv, StepLimit \/ Finish \/ Ended
  PROVE  EtherInv'
<1>1. CASE StepLimit
  <2>1. /\ phase = "run" /\ frames # <<>> /\ frames' = <<>> /\ start' = start
        /\ world' = Top.cp
    BY <1>1 DEF StepLimit
  <2>2. Len(frames) \in 1 .. Len(frames)
    BY <2>1, EmptySeq DEF ExecInv, Stack
  <2>3. Even(Top.cp) /\ Even(start)
    BY <2>1, <2>2 DEF EtherInv, Top
  <2> QED BY <2>1, <2>3 DEF EtherInv
<1>2. CASE Finish
  BY <1>2 DEF Finish, EtherInv
<1>3. CASE Ended
  BY <1>3 DEF Ended, vars, EtherInv
<1> QED BY <1>1, <1>2, <1>3

LEMMA EtherInit == Init => EtherInv
<1> SUFFICES ASSUME Init PROVE EtherInv
  OBVIOUS
<1>1. Total(Genesis.bal, Account) \in Int
  BY Finite, BalanceSum
<1>2. Total(Genesis.bal, Account) - Total(Genesis.bal, Account) = 0
  BY <1>1
<1>3. Even(Genesis)
  BY <1>2, Finite, MultipleZero DEF Even
<1> QED BY <1>3 DEF Init, EtherInv

LEMMA EtherNext == ExecInv /\ EtherInv /\ [Next]_vars => EtherInv'
<1> SUFFICES ASSUME ExecInv, EtherInv, [Next]_vars PROVE EtherInv'
  OBVIOUS
<1>1. Pre \subseteq Account /\ New \cup Contract \subseteq Account
  BY DEF Account
<1>2. CASE UNCHANGED vars
  BY <1>2 DEF vars, EtherInv
<1>3. ASSUME NEW v \in Values,
             \/ \E to \in Account : StartCall(to, v)
             \/ \E to \in Pre, ok \in BOOLEAN : StartPrecompile(to, v, ok)
             \/ \E a \in New \cup Contract : StartCreate(a, v)
      PROVE  EtherInv'
  BY <1>1, <1>3, StartEven
<1>4. ASSUME NEW v \in Values, \E a \in New \cup Contract : Create(a, v)
      PROVE  EtherInv'
  BY <1>1, <1>4, CreateEven
<1>5. ASSUME NEW v \in Values, NEW kind \in Kind, NEW to \in Account, NEW ask \in Ask,
             \/ Call(kind, to, v, ask) \/ CallRefused(kind, to, v, ask)
             \/ \E ok \in BOOLEAN : CallPrecompile(kind, to, v, ask, ok)
      PROVE  EtherInv'
  BY <1>5, CallEven
<1>6. CASE \/ Compute \/ Fetch \/ FetchFails
           \/ \E val \in Word : Store(val)
           \/ \E v \in Values : CreateRefused(v)
  BY <1>6, QuietEven
<1>7. CASE (\E code, bad \in BOOLEAN : Return(code, bad))
              \/ (\E b \in Account : SelfDestruct(b)) \/ Revert \/ Halt
  BY <1>7, FrameEndEven
<1>8. CASE Resume
  BY <1>8, ResumeEven
<1>9. CASE StepLimit \/ Finish \/ Ended
  BY <1>9, LastEven
<1> QED BY <1>2, <1>3, <1>4, <1>5, <1>6, <1>7, <1>8, <1>9 DEF Next

LEMMA EtherInvGives == ExecInv /\ EtherInv => EtherIsMoved
<1> SUFFICES ASSUME ExecInv, EtherInv, phase # "done" PROVE EtherIsMoved
  BY DEF EtherIsMoved
<1>1. /\ Even(world) /\ world \in World
      /\ Total(world.bal, Account) \in Int /\ Total(Genesis.bal, Account) \in Int
  BY Finite, BalanceSum DEF EtherInv, ExecInv
<1>2. Total(world.bal, Account) % W = Total(Genesis.bal, Account) % W
  BY <1>1, Finite, MultipleSame DEF Even
<1> QED BY <1>2 DEF EtherIsMoved, Total

\* Ether is moved, never made, modulo the width of a balance: by a call to
\* itself, a create, a self-destruct, and through every failure of a frame.
THEOREM EtherCorrect == Spec => []EtherIsMoved
<1>1. Init => ExecInv /\ EtherInv
  BY ExecInit, EtherInit
<1>2. ExecInv /\ EtherInv /\ [Next]_vars => (ExecInv /\ EtherInv)'
  BY ExecNext, EtherNext
<1> QED BY <1>1, <1>2, EtherInvGives, PTL DEF Spec
----------------------------------------------------------------------------
(* The gas of all frames.  Each step takes from the top of the stack what  *)
(* it lends, so the sum over the stack loses what is spent and no more     *)
(* comes back.                                                             *)

Lefts(fs) == [i \in 1 .. Len(fs) |-> Left(fs[i])]
Gas(fs)   == Total(Lefts(fs), 1 .. Len(fs))

LEMMA LeftsType ==
  ASSUME NEW fs, Stack(fs)
  PROVE  /\ fs \in Seq(Frame) /\ Len(fs) \in Nat
         /\ \A i \in 1 .. Len(fs) : Lefts(fs)[i] = Left(fs[i]) /\ Lefts(fs)[i] \in Nat
         /\ Gas(fs) \in Nat
<1>1. fs \in Seq(Frame) /\ Len(fs) \in Nat
  BY DEF Stack
<1>2. \A i \in 1 .. Len(fs) : Left(fs[i]) \in Nat
  <2> SUFFICES ASSUME NEW i \in 1 .. Len(fs) PROVE Left(fs[i]) \in Nat
    OBVIOUS
  <2>1. fs[i] \in Frame /\ fs[i].spent \in 0 .. fs[i].limit
    BY <1>1 DEF Stack
  <2>2. fs[i].limit \in Nat
    BY <2>1 DEF Frame
  <2> QED BY <2>1, <2>2 DEF Left
<1>3. \A i \in 1 .. Len(fs) : Lefts(fs)[i] = Left(fs[i]) /\ Lefts(fs)[i] \in Nat
  BY <1>2 DEF Lefts
<1>4. Gas(fs) \in Nat
  BY <1>1, <1>3, RowFinite, TotalNat DEF Gas
<1> QED BY <1>1, <1>3, <1>4

\* A new top.
LEMMA TopGas ==
  ASSUME NEW fs, Stack(fs), fs # <<>>, NEW g, Left(g) \in Int
  PROVE  /\ Gas([fs EXCEPT ![Len(fs)] = g]) = Gas(fs) - Left(fs[Len(fs)]) + Left(g)
         /\ Len([fs EXCEPT ![Len(fs)] = g]) = Len(fs)
<1>1. /\ fs \in Seq(Frame) /\ Len(fs) \in Nat /\ Len(fs) >= 1
      /\ \A i \in 1 .. Len(fs) : Lefts(fs)[i] = Left(fs[i]) /\ Lefts(fs)[i] \in Int
  BY LeftsType, EmptySeq
<1> DEFINE gs == [fs EXCEPT ![Len(fs)] = g]
           n  == Len(fs)
<1>2. Len(gs) = n /\ \A i \in 1 .. n : gs[i] = IF i = n THEN g ELSE fs[i]
  BY <1>1
<1> HIDE DEF gs
<1>3. Lefts(gs)[n] = Left(g) /\ \A i \in 1 .. n : i # n => Lefts(gs)[i] = Lefts(fs)[i]
  BY <1>1, <1>2 DEF Lefts
<1>4. Lefts(fs)[n] = Left(fs[n])
  BY <1>1
<1> HIDE DEF n
<1>5. Total(Lefts(gs), 1 .. n) = Total(Lefts(fs), 1 .. n) - Lefts(fs)[n] + Lefts(gs)[n]
  BY <1>1, <1>3, RowLast DEF n
<1> QED BY <1>2, <1>3, <1>4, <1>5 DEF Gas, gs, n

LEMMA PushGas ==
  ASSUME NEW fs, fs # <<>>, fs \in Seq(Frame), NEW f, Left(f) \in Int,
         \A i \in 1 .. Len(fs) : Left(fs[i]) \in Int
  PROVE  Gas(Append(fs, f)) = Gas(fs) + Left(f)
<1> DEFINE gs == Append(fs, f)
           n  == Len(fs)
<1>1. n \in Nat /\ Len(gs) = n + 1 /\ gs[n + 1] = f /\ \A i \in 1 .. n : gs[i] = fs[i]
  OBVIOUS
<1> HIDE DEF gs
<1>2. \A i \in 1 .. n : Lefts(fs)[i] \in Int /\ Lefts(gs)[i] = Lefts(fs)[i]
  BY <1>1 DEF Lefts
<1>3. Lefts(gs)[n + 1] = Left(f)
  BY <1>1 DEF Lefts
<1> HIDE DEF n
<1>4. Total(Lefts(gs), 1 .. n + 1) = Total(Lefts(fs), 1 .. n) + Lefts(gs)[n + 1]
  BY <1>1, <1>2, <1>3, RowMore
<1> QED BY <1>1, <1>3, <1>4 DEF Gas, gs, n

LEMMA PopGas ==
  ASSUME NEW fs, Stack(fs), fs # <<>>
  PROVE  Gas(SubSeq(fs, 1, Len(fs) - 1)) = Gas(fs) - Left(fs[Len(fs)])
<1> DEFINE gs == SubSeq(fs, 1, Len(fs) - 1)
           n  == Len(fs)
<1>1. /\ fs \in Seq(Frame) /\ n \in Nat /\ n >= 1
      /\ \A i \in 1 .. n : Lefts(fs)[i] = Left(fs[i]) /\ Lefts(fs)[i] \in Int
  BY LeftsType, EmptySeq
<1>2. Len(gs) = n - 1 /\ \A i \in 1 .. n - 1 : gs[i] = fs[i] /\ i \in 1 .. n
  BY <1>1, PopFacts
<1> HIDE DEF gs
<1>3. \A i \in 1 .. n - 1 : Lefts(gs)[i] = Lefts(fs)[i]
  BY <1>1, <1>2 DEF Lefts
<1>4. Lefts(fs)[n] = Left(fs[n])
  BY <1>1
<1> HIDE DEF n
<1>5. Total(Lefts(gs), 1 .. n - 1) = Total(Lefts(fs), 1 .. n) - Lefts(fs)[n]
  BY <1>1, <1>3, RowLess
<1> QED BY <1>2, <1>4, <1>5 DEF Gas, gs, n

LEMMA GasLeft ==
  ASSUME ExecInv
  PROVE  /\ TotalLeft = Gas(frames) + Pending
         /\ Gas(frames) \in Nat /\ Pending \in Nat
<1>1. frames \in Seq(Frame) /\ Stack(frames)
  BY DEF ExecInv, Stack
<1>2. Frames = 1 .. Len(frames)
  BY <1>1 DEF Frames
<1>3. TotalLeft = Gas(frames) + Pending
  BY <1>2 DEF TotalLeft, FrameLeft, Gas, Lefts, Total
<1>4. Pending \in Nat
  BY DEF Pending, ExecInv, ResultOf, Result
<1> QED BY <1>1, <1>3, <1>4, LeftsType

LEMMA TotalLeftIs == TotalLeft = Total(FrameLeft, Frames) + Pending
BY DEF TotalLeft, Total

LEMMA GasLeftNext ==
  ASSUME ExecInv'
  PROVE  TotalLeft' = Gas(frames') + Pending'
<1>1. frames' \in Seq(Frame)
  BY DEF ExecInv, Stack
<1>2. Frames' = 1 .. Len(frames')
  BY <1>1 DEF Frames
<1>3. FrameLeft' = Lefts(frames')
  BY <1>2 DEF FrameLeft, Lefts
<1>4. (TotalLeft = Total(FrameLeft, Frames) + Pending)'
  BY TotalLeftIs, PTL
<1> QED BY <1>2, <1>3, <1>4 DEF Gas

\* The top spends.
LEMMA SpendGas ==
  ASSUME ExecInv, ExecInv', frames # <<>>, result' = result,
         NEW g, Left(g) \in Int, Left(g) <= Left(Top), frames' = WithTop(g)
  PROVE  TotalLeft' <= TotalLeft
<1>1. Gas(frames') = Gas(frames) - Left(Top) + Left(g)
  BY TopGas DEF ExecInv, WithTop, Top
<1>2. TotalLeft' = Gas(frames') + Pending'
  BY GasLeftNext
<1>3. TotalLeft = Gas(frames) + Pending /\ Gas(frames) \in Nat /\ Pending \in Nat
  BY GasLeft
<1>4. Pending' = Pending /\ Left(Top) \in Int
  BY TopFacts DEF Pending
<1> QED BY <1>1, <1>2, <1>3, <1>4

\* The top lends.
LEMMA LendGas ==
  ASSUME ExecInv, ExecInv', frames # <<>>, result' = result,
         NEW g \in Frame, g.limit = Top.limit, g.spent \in 0 .. g.limit,
         NEW f, Left(f) \in Int, Left(g) + Left(f) <= Left(Top),
         frames' = Append(WithTop(g), f)
  PROVE  TotalLeft' <= TotalLeft
<1>1. Stack(frames)
  BY DEF ExecInv
<1>2. Left(g) \in Int
  BY DEF Left, Frame
<1>3. Gas(WithTop(g)) = Gas(frames) - Left(Top) + Left(g)
  BY <1>1, <1>2, TopGas DEF WithTop, Top
<1>4. Stack(WithTop(g)) /\ WithTop(g) # <<>>
  BY <1>1, TopStack DEF WithTop, Top
<1>5. Gas(frames') = Gas(WithTop(g)) + Left(f)
  <2> DEFINE gs == WithTop(g)
  <2> HIDE DEF gs
  <2>1. gs \in Seq(Frame) /\ gs # <<>> /\ \A i \in 1 .. Len(gs) : Left(gs[i]) \in Int
    BY <1>4, LeftsType DEF gs
  <2>2. Gas(Append(gs, f)) = Gas(gs) + Left(f)
    BY <2>1, PushGas
  <2> QED BY <2>2 DEF gs
<1>6. TotalLeft' = Gas(frames') + Pending'
  BY GasLeftNext
<1>7. TotalLeft = Gas(frames) + Pending /\ Gas(frames) \in Nat /\ Pending \in Nat
  BY GasLeft
<1>8. Pending' = Pending /\ Left(Top) \in Int
  BY TopFacts DEF Pending
<1> QED BY <1>2, <1>3, <1>5, <1>6, <1>7, <1>8

\* The top ends, and leaves no more than it had.
LEMMA EndGas ==
  ASSUME ExecInv, ExecInv', NEW r, NEW w, End(r, w), r.left \in Nat, r.left <= Left(Top)
  PROVE  TotalLeft' <= TotalLeft
<1>1. frames # <<>> /\ result = None /\ frames' = Popped /\ result' = r
  BY DEF End, Running
<1>2. Gas(frames') = Gas(frames) - Left(Top)
  BY <1>1, PopGas DEF ExecInv, Popped, Top
<1>3. TotalLeft' = Gas(frames') + Pending'
  BY GasLeftNext
<1>4. TotalLeft = Gas(frames) + Pending /\ Gas(frames) \in Nat
  BY GasLeft
<1>5. Left(Top) \in Nat
  BY <1>1, TopFacts
<1>6. Pending = 0 /\ Pending' \in {0, r.left}
  BY <1>1 DEF Pending
<1> QED BY <1>2, <1>3, <1>4, <1>5, <1>6

LEMMA ChargeGas ==
  ASSUME ExecInv, ExecInv', Op, NEW gas \in Nat, result' = result,
         frames' = WithTop(Charge(Top, gas))
  PROVE  TotalLeft' <= TotalLeft
<1>1. frames # <<>> /\ Top \in Frame /\ Top.limit \in Nat /\ Top.spent \in Nat
  BY OpFacts, TopFacts DEF Frame
<1>2. PICK g : g = Charge(Top, gas)
  OBVIOUS
<1>3. g.limit = Top.limit /\ g.spent = Top.spent + gas
  BY <1>1, <1>2, ChargeType
<1>4. Left(g) \in Int /\ Left(g) <= Left(Top)
  BY <1>1, <1>3 DEF Left
<1> QED BY <1>1, <1>2, <1>4, SpendGas

LEMMA StoreGasLeft ==
  ASSUME ExecInv, ExecInv', NEW val \in Word, Store(val)
  PROVE  TotalLeft' <= TotalLeft
<1> DEFINE cost   == StoreGas(val, world.slot[Top.this], Genesis.slot[Top.this])
           refund == StoreRefund(val, world.slot[Top.this], Genesis.slot[Top.this])
<1>1. /\ Op /\ result' = result
      /\ frames' = WithTop([Charge(Top, cost) EXCEPT !.refund = @ + refund])
  BY DEF Store
<1>2. frames # <<>> /\ Top \in Frame /\ Top.limit \in Nat /\ Top.spent \in Nat
  BY <1>1, OpFacts, TopFacts DEF Frame
<1>3. cost \in Nat
  BY ExecutorAssumption DEF ExecutorAssumption, StoreGas
<1>4. PICK f : f = Charge(Top, cost)
  OBVIOUS
<1>5. f \in Frame /\ f.limit = Top.limit /\ f.spent = Top.spent + cost
  BY <1>2, <1>3, <1>4, ChargeType
<1>6. PICK g : g = [f EXCEPT !.refund = @ + refund]
  OBVIOUS
<1> HIDE DEF refund
<1>7. g.limit = Top.limit /\ g.spent = Top.spent + cost
  BY <1>5, <1>6 DEF Frame
<1>8. Left(g) \in Int /\ Left(g) <= Left(Top)
  BY <1>2, <1>3, <1>7 DEF Left
<1> QED BY <1>1, <1>2, <1>4, <1>6, <1>8, SpendGas

LEMMA CallGas ==
  ASSUME ExecInv, ExecInv', NEW kind \in Kind, NEW to \in Account, NEW v \in Values,
         NEW ask \in Ask,
         \/ Call(kind, to, v, ask) \/ CallRefused(kind, to, v, ask)
         \/ \E ok \in BOOLEAN : CallPrecompile(kind, to, v, ask, ok)
  PROVE  TotalLeft' <= TotalLeft
<1>1. CanCall(kind, to, v) /\ result' = result
  BY DEF Call, CallRefused, CallPrecompile
<1> DEFINE pay  == CallFee(v) + Lent(v, ask)
           give == Given(v, ask)
<1>2. /\ Op /\ frames # <<>> /\ CallFee(v) \in Nat /\ Lent(v, ask) \in Nat
      /\ pay \in Nat /\ give \in Nat /\ pay <= Left(Top) /\ give <= pay
  BY <1>1, CallFacts
<1>3. CASE CallPrecompile(kind, to, v, ask, TRUE) \/ CallPrecompile(kind, to, v, ask, FALSE)
  <2>1. PICK ok \in BOOLEAN : CallPrecompile(kind, to, v, ask, ok)
    BY <1>3
  <2>2. PICK used \in (IF ok THEN Uses \cap 0 .. Given(v, ask) ELSE {Given(v, ask)}) :
          frames' = WithTop(Charge(Top, CallFee(v) + Lent(v, ask) - Given(v, ask) + used))
    BY <2>1 DEF CallPrecompile
  <2>3. used \in Nat
    BY <1>2, <2>2
  <2>4. PICK gas \in Nat : gas = CallFee(v) + Lent(v, ask) - Given(v, ask) + used
    BY <1>2, <2>3
  <2> QED BY <1>1, <1>2, <2>2, <2>4, ChargeGas
<1>4. CASE CallRefused(kind, to, v, ask)
  <2>1. frames' = WithTop(Charge(Top, CallFee(v) + Lent(v, ask) - Given(v, ask)))
    BY <1>4 DEF CallRefused
  <2>2. PICK gas \in Nat : gas = CallFee(v) + Lent(v, ask) - Given(v, ask)
    BY <1>2
  <2> QED BY <1>1, <1>2, <2>1, <2>2, ChargeGas
<1>5. CASE Call(kind, to, v, ask)
  <2>1. PICK this, static : frames' = Append(WithTop(Charge(Top, pay)),
                              NewFrame(this, FALSE, static, world.code[to], give, world))
    BY <1>5 DEF Call
  <2> HIDE DEF pay, give
  <2>2. PICK f : f = NewFrame(this, FALSE, static, world.code[to], give, world)
    OBVIOUS
  <2>3. f.limit = give /\ f.spent = 0
    BY <2>2 DEF NewFrame
  <2>4. Top \in Frame /\ Top.limit \in Nat /\ Top.spent \in 0 .. Top.limit
    BY <1>2, TopFacts
  <2>5. PICK g : g = Charge(Top, pay)
    OBVIOUS
  <2>6. g \in Frame /\ g.limit = Top.limit /\ g.spent = Top.spent + pay
    BY <1>2, <2>4, <2>5, ChargeType
  <2>7. g.spent \in 0 .. g.limit /\ Left(f) \in Int /\ Left(g) + Left(f) <= Left(Top)
    BY <1>2, <2>3, <2>4, <2>6 DEF Left
  <2> QED BY <1>1, <1>2, <2>1, <2>2, <2>5, <2>6, <2>7, LendGas
<1> QED BY <1>3, <1>4, <1>5

LEMMA CreateGas ==
  ASSUME ExecInv, ExecInv', NEW v \in Values, NEW a \in Account, Create(a, v)
  PROVE  TotalLeft' <= TotalLeft
<1> DEFINE by    == Top.this
           lent  == AllBut(Left(Top) - CreateCost)
           cp    == Bump(world, by)
           payer == [Charge(Top, CreateCost + lent) EXCEPT !.next = cp.nonce[by]]
<1>1. /\ CanCreate /\ result' = result
      /\ \/ frames' = WithTop(payer)
         \/ frames' = Append(WithTop(payer), NewFrame(a, TRUE, FALSE, TRUE, lent, cp))
      /\ world.nonce[by] < MaxNonce
  BY DEF Create
<1>2. /\ Op /\ frames # <<>> /\ CreateCost \in Nat /\ CreateCost <= Left(Top)
      /\ Left(Top) \in Nat /\ lent \in 0 .. Left(Top) - CreateCost
  BY <1>1, CreateFacts
<1>3. /\ Top \in Frame /\ by \in Account /\ Top.limit \in Nat
      /\ Top.spent \in 0 .. Top.limit /\ world \in World
  BY <1>2, OpFacts, TopFacts
<1>4. cp.nonce[by] \in Nat
  <2>1. world.nonce[by] \in Nat /\ MaxNonce \in Nat
    BY <1>3, Nonces, ExecutorAssumption DEF ExecutorAssumption
  <2>2. world.nonce[by] <= MaxNonce
    BY <1>1, <2>1
  <2> QED BY <1>3, <2>2, BumpType
<1>5. PICK h : h = Charge(Top, CreateCost + lent)
  OBVIOUS
<1>6. h \in Frame /\ h.limit = Top.limit /\ h.spent = Top.spent + (CreateCost + lent)
  <2>1. CreateCost + lent \in Nat
    BY <1>2
  <2> HIDE DEF lent
  <2> QED BY <1>3, <1>5, <2>1, ChargeType
<1>7. PICK g : g = payer
  OBVIOUS
<1>8. g = [h EXCEPT !.next = cp.nonce[by]]
  BY <1>5, <1>7
<1> HIDE DEF lent, cp, payer
<1>9. g \in Frame /\ g.limit = Top.limit /\ g.spent = h.spent
  BY <1>4, <1>6, <1>8 DEF Frame
<1>10. g.spent \in 0 .. g.limit /\ Left(g) \in Int /\ Left(g) + lent <= Left(Top) /\ lent \in Nat
  <2>1. /\ Top.limit \in Nat /\ Top.spent \in Int /\ CreateCost \in Nat /\ lent \in Nat
        /\ lent <= Top.limit - Top.spent - CreateCost
    <3>1. CreateCost \in Nat /\ Left(Top) \in Nat /\ lent \in 0 .. Left(Top) - CreateCost
      BY <1>2
    <3>2. Top.limit \in Nat /\ Top.spent \in Int
      BY <1>3
    <3> QED BY <3>1, <3>2 DEF Left
  <2>2. g.limit = Top.limit /\ g.spent = Top.spent + (CreateCost + lent)
    BY <1>6, <1>9
  <2>3. Top.spent \in 0 .. Top.limit
    BY <1>3
  <2> QED BY <2>1, <2>2, <2>3 DEF Left
<1>11. CASE frames' = WithTop(payer)
  <2>1. Left(g) <= Left(Top)
    BY <1>2, <1>10
  <2> QED BY <1>1, <1>2, <1>7, <1>10, <1>11, <2>1, SpendGas
<1>12. CASE frames' = Append(WithTop(payer), NewFrame(a, TRUE, FALSE, TRUE, lent, cp))
  <2>1. PICK f : f = NewFrame(a, TRUE, FALSE, TRUE, lent, cp)
    OBVIOUS
  <2>2. f.spent = 0 /\ f.limit = lent
    BY <2>1 DEF NewFrame
  <2>3. Left(f) = lent
    BY <1>10, <2>2 DEF Left
  <2>4. Left(f) \in Int /\ Left(g) + Left(f) <= Left(Top)
    BY <1>10, <2>3
  <2>5. frames' = Append(WithTop(g), f)
    BY <1>7, <1>12, <2>1
  <2>6. g.limit = Top.limit
    BY <1>6, <1>9
  <2>7. g \in Frame /\ g.spent \in 0 .. g.limit /\ result' = result /\ frames # <<>>
    BY <1>1, <1>2, <1>9, <1>10
  <2> QED BY <2>4, <2>5, <2>6, <2>7, LendGas
<1> QED BY <1>1, <1>11, <1>12

LEMMA FrameEndGas ==
  ASSUME ExecInv, ExecInv',
         \/ \E code, bad \in BOOLEAN : Return(code, bad)
         \/ \E b \in Account : SelfDestruct(b)
         \/ Revert \/ Halt
  PROVE  TotalLeft' <= TotalLeft
<1>1. Running
  BY DEF Return, SelfDestruct, Revert, Halt
<1>2. Left(Top) \in Nat
  BY <1>1, TopFacts DEF Running
<1>3. DepositCost \in Nat /\ DestroyCost \in Nat
  BY ExecutorAssumption DEF ExecutorAssumption
<1>4. ASSUME NEW left \in Nat, left <= Left(Top), NEW w, NEW a, NEW code,
             \/ End(Failure(left), w)
             \/ End(Success(left, Top.refund), w)
             \/ End(Deployed(left, Top.refund, a, code), w)
      PROVE  TotalLeft' <= TotalLeft
  <2>1. /\ Failure(left).left = left /\ Success(left, Top.refund).left = left
        /\ Deployed(left, Top.refund, a, code).left = left
    BY DEF Failure, Success, Deployed
  <2> QED BY <1>4, <2>1, EndGas
<1>5. 0 \in Nat /\ 0 <= Left(Top) /\ Left(Top) <= Left(Top)
  BY <1>2
<1>6. ASSUME NEW code \in BOOLEAN, NEW bad \in BOOLEAN, Return(code, bad)
      PROVE  TotalLeft' <= TotalLeft
  <2> DEFINE cost == IF code THEN DepositCost ELSE 0
  <2>1. cost \in Nat
    BY <1>3
  <2>2. CASE Top.create /\ ~(bad \/ Left(Top) < cost)
    <3>1. End(Deployed(Left(Top) - cost, Top.refund, Top.this, code), world)
      BY <1>6, <2>2 DEF Return
    <3>2. PICK left \in Nat : left = Left(Top) - cost /\ left <= Left(Top)
      BY <1>2, <2>1, <2>2
    <3> QED BY <1>4, <3>1, <3>2
  <2>3. CASE ~(Top.create /\ ~(bad \/ Left(Top) < cost))
    <3>1. End(Success(Left(Top), Top.refund), world) \/ End(Failure(0), Top.cp)
      BY <1>6, <2>3 DEF Return
    <3> QED BY <1>2, <1>4, <1>5, <3>1
  <2> QED BY <2>2, <2>3
<1>7. ASSUME NEW b \in Account, SelfDestruct(b)
      PROVE  TotalLeft' <= TotalLeft
  <2>1. PICK left : left = Left(Top) - DestroyCost
    OBVIOUS
  <2>2. left \in Nat /\ left <= Left(Top)
    BY <1>2, <1>3, <1>7, <2>1 DEF SelfDestruct
  <2>3. PICK w : \/ End(Deployed(left, Top.refund, Top.this, FALSE), w)
                 \/ End(Success(left, Top.refund), w)
    BY <1>7, <2>1 DEF SelfDestruct
  <2> QED BY <1>4, <2>2, <2>3
<1>8. CASE Revert
  BY <1>2, <1>4, <1>5, <1>8 DEF Revert
<1>9. CASE Halt
  BY <1>4, <1>5, <1>9 DEF Halt
<1> QED BY <1>6, <1>7, <1>8, <1>9

\* The caller gets what is pending.
LEMMA ResumeGas ==
  ASSUME ExecInv, ExecInv', Resume
  PROVE  TotalLeft' <= TotalLeft
<1>1. frames # <<>> /\ result # None /\ result' = None
  BY DEF Resume, Running
<1>2. /\ Top \in Frame /\ Top.limit \in Nat /\ Top.spent \in Nat
      /\ result.left \in Nat /\ Stack(frames)
  BY <1>1, TopFacts DEF ExecInv, ResultOf, Result, Frame
<1>3. PICK r : frames' = WithTop([Top EXCEPT !.spent = @ - result.left, !.refund = @ + r])
  BY DEF Resume
<1>4. PICK g : g = [Top EXCEPT !.spent = @ - result.left, !.refund = @ + r]
  OBVIOUS
<1>5. g.limit = Top.limit /\ g.spent = Top.spent - result.left
  BY <1>2, <1>4 DEF Frame
<1>6. Left(g) \in Int /\ Left(g) = Left(Top) + result.left /\ Left(Top) \in Int
  BY <1>2, <1>5 DEF Left
<1>7. Gas(frames') = Gas(frames) - Left(Top) + Left(g)
  BY <1>1, <1>2, <1>3, <1>4, <1>6, TopGas DEF WithTop, Top
<1>8. TotalLeft' = Gas(frames') + Pending'
  BY GasLeftNext
<1>9. TotalLeft = Gas(frames) + Pending /\ Gas(frames) \in Nat
  BY GasLeft
<1>10. Pending = result.left /\ Pending' = 0
  BY <1>1 DEF Pending
<1> QED BY <1>2, <1>6, <1>7, <1>8, <1>9, <1>10

LEMMA LastGas ==
  ASSUME ExecInv, ExecInv', StepLimit \/ Finish \/ Ended
  PROVE  TotalLeft' <= TotalLeft
<1>1. TotalLeft' = Gas(frames') + Pending'
  BY GasLeftNext
<1>2. TotalLeft = Gas(frames) + Pending /\ Gas(frames) \in Nat /\ Pending \in Nat
  BY GasLeft
<1>3. CASE StepLimit
  <2>1. frames' = <<>> /\ result' = Failure(0)
    BY <1>3 DEF StepLimit
  <2>2. Pending' = 0
    BY <2>1 DEF Pending, Failure
  <2>3. Gas(frames') = 0
    <3>1. 1 .. Len(frames') = {}
      BY <2>1
    <3> QED BY <3>1, TotalEmpty DEF Gas
  <2> QED BY <1>1, <1>2, <2>2, <2>3
<1>4. CASE Finish \/ Ended
  <2>1. frames' = frames /\ result' = result
    BY <1>4 DEF Finish, Ended, vars
  <2>2. Gas(frames') = Gas(frames) /\ Pending' = Pending
    BY <2>1 DEF Pending
  <2> QED BY <1>1, <1>2, <2>2
<1> QED BY <1>3, <1>4

LEMMA GasNext ==
  ASSUME ExecInv, [Next]_vars, phase = "run"
  PROVE  TotalLeft' <= TotalLeft
<1>1. ExecInv'
  BY ExecNext
<1>2. Pre \subseteq Account /\ New \cup Contract \subseteq Account
  BY DEF Account
<1>3. CASE (UNCHANGED vars) \/ Fetch \/ FetchFails
  <2>1. frames' = frames /\ result' = result
    BY <1>3 DEF vars, Fetch, FetchFails
  <2>2. Gas(frames') = Gas(frames) /\ Pending' = Pending
    BY <2>1 DEF Pending
  <2>3. TotalLeft' = Gas(frames') + Pending'
    BY <1>1, GasLeftNext
  <2>4. TotalLeft = Gas(frames) + Pending /\ Gas(frames) \in Nat /\ Pending \in Nat
    BY GasLeft
  <2> QED BY <2>2, <2>3, <2>4
<1>4. ASSUME NEW v \in Values,
             \/ \E to \in Account : StartCall(to, v)
             \/ \E to \in Pre, ok \in BOOLEAN : StartPrecompile(to, v, ok)
             \/ \E a \in New \cup Contract : StartCreate(a, v)
      PROVE  FALSE
  BY <1>4 DEF StartCall, StartPrecompile, StartCreate, Begin
<1>5. ASSUME NEW v \in Values, \E a \in New \cup Contract : Create(a, v)
      PROVE  TotalLeft' <= TotalLeft
  BY <1>1, <1>2, <1>5, CreateGas
<1>6. ASSUME NEW v \in Values, NEW kind \in Kind, NEW to \in Account, NEW ask \in Ask,
             \/ Call(kind, to, v, ask) \/ CallRefused(kind, to, v, ask)
             \/ \E ok \in BOOLEAN : CallPrecompile(kind, to, v, ask, ok)
      PROVE  TotalLeft' <= TotalLeft
  BY <1>1, <1>6, CallGas
<1>7. CASE Compute \/ \E v \in Values : CreateRefused(v)
  <2>1. 1 \in Nat /\ CreateCost \in Nat
    BY ExecutorAssumption DEF ExecutorAssumption
  <2> QED BY <1>1, <1>7, <2>1, ChargeGas DEF Compute, CreateRefused, CanCreate
<1>8. CASE \E val \in Word : Store(val)
  BY <1>1, <1>8, StoreGasLeft
<1>9. CASE (\E code, bad \in BOOLEAN : Return(code, bad))
              \/ (\E b \in Account : SelfDestruct(b)) \/ Revert \/ Halt
  BY <1>1, <1>9, FrameEndGas
<1>10. CASE Resume
  BY <1>1, <1>10, ResumeGas
<1>11. CASE StepLimit \/ Finish \/ Ended
  BY <1>1, <1>11, LastGas
<1> QED BY <1>3, <1>4, <1>5, <1>6, <1>7, <1>8, <1>9, <1>10, <1>11 DEF Next

\* No step of a running transaction adds to the gas left over all its frames:
\* not a stipend, a refused call, a precompile or what a callee gives back.
THEOREM GasLeftCorrect == Spec => GasNeverGrows
<1>1. ExecInv /\ [Next]_vars => [phase = "run" => TotalLeft' <= TotalLeft]_vars
  BY GasNext
<1> QED BY <1>1, ExecInit, ExecNext, PTL DEF Spec, GasNeverGrows
----------------------------------------------------------------------------
(* The refund.  What the frames below a checkpoint have earned is what     *)
(* the checkpoint's slots are worth, so a frame that fails takes back the  *)
(* clears with the refund for them.  A create never empties a slot that    *)
(* held something at the start: an account that did has a nonce or code,   *)
(* and keeps them.                                                         *)

ClearedIn(w) == {a \in Account : Genesis.slot[a] # 0 /\ w.slot[a] = 0}
Earned(x, w, s) ==
  \E i, j \in 0 .. s : x = Clears * Cardinality(ClearedIn(w)) + i * Unsets + j * Resets
Lives(w)     == \A a \in Account : Genesis.slot[a] # 0 => Taken(w, a)
Refunds(fs)  == [i \in 1 .. Len(fs) |-> fs[i].refund]
Before(fs, k) == Total(Refunds(fs), 1 .. k - 1)
Due(r)       == IF r.ok THEN r.refund ELSE 0

\* Of frame k: what its checkpoint is worth; a create's account was empty.
Sound(fs, k, s) ==
  /\ Lives(fs[k].cp) /\ Earned(Before(fs, k), fs[k].cp, s)
  /\ fs[k].create => Genesis.slot[fs[k].this] = 0

\* The inductive invariant.
RefundInv ==
  phase = "run" =>
    /\ Lives(world)
    /\ Earned(Before(frames, Len(frames) + 1) + Due(result), world, steps)
    /\ \A k \in 1 .. Len(frames) : Sound(frames, k, steps)
    /\ \A a \in result.made : Genesis.slot[a] = 0

LEMMA ClearedCounts ==
  ASSUME NEW w
  PROVE  IsFiniteSet(ClearedIn(w)) /\ Cardinality(ClearedIn(w)) \in Nat
<1>1. ClearedIn(w) \subseteq Account
  BY DEF ClearedIn
<1> QED BY <1>1, Finite, FS_Subset, FS_CardinalityType

LEMMA Prices == Clears \in Nat /\ Unsets \in Nat /\ Resets \in Nat
BY ExecutorAssumption DEF ExecutorAssumption

\* A later step, the same slots.
LEMMA EarnedSame ==
  ASSUME NEW x, NEW w, NEW u, NEW s \in Nat, NEW t \in Nat, s <= t,
         Earned(x, w, s), ClearedIn(u) = ClearedIn(w)
  PROVE  Earned(x, u, t)
<1>1. 0 .. s \subseteq 0 .. t
  OBVIOUS
<1> QED BY <1>1 DEF Earned

LEMMA OneMore ==
  ASSUME NEW c \in Int, NEW n \in Int
  PROVE  c * (n + 1) = c * n + c /\ c * (n - 1) = c * n - c
OBVIOUS

LEMMA StoreRefundCases ==
  ASSUME NEW val, NEW cur, NEW org
  PROVE  \/ StoreRefund(val, cur, org) = 0
              /\ (org # 0 => (cur = 0 <=> val = 0))
         \/ org # 0 /\ cur # 0 /\ val = 0 /\ StoreRefund(val, cur, org) = Clears
         \/ org # 0 /\ cur = 0 /\ val # 0
              /\ StoreRefund(val, cur, org) \in {-Clears, -Clears + Resets}
         \/ org = 0 /\ StoreRefund(val, cur, org) \in {0, Unsets}
         \/ org # 0 /\ cur # 0 /\ val # 0 /\ StoreRefund(val, cur, org) \in {0, Resets}
<1>1. Clears \in Nat /\ Unsets \in Nat /\ Resets \in Nat
  BY Prices
<1>2. CASE val = cur
  BY <1>2 DEF StoreRefund
<1>3. CASE val # cur /\ cur = org
  BY <1>1, <1>3 DEF StoreRefund
<1>4. CASE val # cur /\ cur # org /\ org = 0
  BY <1>1, <1>4 DEF StoreRefund
<1>5. CASE val # cur /\ cur # org /\ org # 0
  <2>1. StoreRefund(val, cur, org)
          = (IF cur = 0 THEN -Clears ELSE IF val = 0 THEN Clears ELSE 0)
            + (IF val # org THEN 0 ELSE Resets)
    BY <1>5 DEF StoreRefund
  <2>2. CASE cur = 0
    BY <1>1, <1>5, <2>1, <2>2
  <2>3. CASE cur # 0 /\ val = 0
    BY <1>1, <1>5, <2>1, <2>3
  <2>4. CASE cur # 0 /\ val # 0
    BY <1>1, <1>5, <2>1, <2>4
  <2> QED BY <2>2, <2>3, <2>4
<1> QED BY <1>2, <1>3, <1>4, <1>5

\* What SSTORE refunds is what the slot is worth now and was not before.
LEMMA StoreEarned ==
  ASSUME NEW x \in Int, NEW w \in World, NEW a \in Account, NEW val \in Word, NEW s \in Nat,
         Earned(x, w, s)
  PROVE  Earned(x + StoreRefund(val, w.slot[a], Genesis.slot[a]),
                [w EXCEPT !.slot[a] = val], s + 1)
<1> DEFINE u   == [w EXCEPT !.slot[a] = val]
           cur == w.slot[a]
           org == Genesis.slot[a]
           d   == StoreRefund(val, cur, org)
           C   == ClearedIn(w)
           D   == ClearedIn(u)
           n   == Cardinality(C)
           m   == Cardinality(D)
<1>1. \A b \in Account : u.slot[b] = IF b = a THEN val ELSE w.slot[b]
  BY DEF World
<1>2. IsFiniteSet(C) /\ IsFiniteSet(D) /\ n \in Nat /\ m \in Nat
  BY ClearedCounts
<1>3. Clears \in Nat /\ Unsets \in Nat /\ Resets \in Nat
  BY Prices
<1>4. PICK i \in 0 .. s, j \in 0 .. s : x = Clears * n + i * Unsets + j * Resets
  BY DEF Earned
<1> HIDE DEF u, d, cur, org
<1>5. (org # 0 => (cur = 0 <=> val = 0)) => D = C
  BY <1>1 DEF ClearedIn, cur, org
<1>6. org # 0 /\ cur # 0 /\ val = 0 => D = C \cup {a} /\ a \notin C
  BY <1>1 DEF ClearedIn, cur, org
<1>7. org # 0 /\ cur = 0 /\ val # 0 => D = C \ {a} /\ a \in C
  BY <1>1 DEF ClearedIn, cur, org
<1> HIDE DEF C, D
<1>8. /\ org # 0 /\ cur # 0 /\ val = 0 => m = n + 1
      /\ org # 0 /\ cur = 0 /\ val # 0 => m = n - 1
      /\ (org # 0 => (cur = 0 <=> val = 0)) => m = n
  BY <1>2, <1>5, <1>6, <1>7, FS_AddElement, FS_RemoveElement
<1> HIDE DEF n, m
<1>9. Clears * (n + 1) = Clears * n + Clears /\ Clears * (n - 1) = Clears * n - Clears
  BY <1>2, <1>3, OneMore
<1>10. \/ d = Clears * m - Clears * n
       \/ d = Clears * m - Clears * n + Unsets
       \/ d = Clears * m - Clears * n + Resets
  <2> DEFINE p == Clears * n
             q == Clears * m
  <2>1. /\ org # 0 /\ cur # 0 /\ val = 0 => q = p + Clears
        /\ org # 0 /\ cur = 0 /\ val # 0 => q = p - Clears
        /\ (org # 0 => (cur = 0 <=> val = 0)) => q = p
    BY <1>8, <1>9
  <2>2. p \in Int /\ q \in Int
    BY <1>2, <1>3
  <2>3. \/ d = 0 /\ (org # 0 => (cur = 0 <=> val = 0))
        \/ org # 0 /\ cur # 0 /\ val = 0 /\ d = Clears
        \/ org # 0 /\ cur = 0 /\ val # 0 /\ d \in {-Clears, -Clears + Resets}
        \/ org = 0 /\ d \in {0, Unsets}
        \/ org # 0 /\ cur # 0 /\ val # 0 /\ d \in {0, Resets}
    BY StoreRefundCases DEF d
  <2> HIDE DEF p, q
  <2>4. d = q - p \/ d = q - p + Unsets \/ d = q - p + Resets
    BY <1>3, <2>1, <2>2, <2>3
  <2> QED BY <2>4 DEF p, q
<1>11. i + 1 \in 0 .. s + 1 /\ j + 1 \in 0 .. s + 1 /\ i \in 0 .. s + 1 /\ j \in 0 .. s + 1
  OBVIOUS
<1>12. (i + 1) * Unsets = i * Unsets + Unsets /\ (j + 1) * Resets = j * Resets + Resets
  BY <1>3
<1>13. \E k \in 0 .. s + 1, l \in 0 .. s + 1 : x + d = Clears * m + k * Unsets + l * Resets
  <2> DEFINE p == Clears * n
             q == Clears * m
             y == i * Unsets
             z == j * Resets
  <2>1. p \in Int /\ q \in Int /\ y \in Int /\ z \in Int
    BY <1>2, <1>3
  <2>2. x = p + y + z /\ (d = q - p \/ d = q - p + Unsets \/ d = q - p + Resets)
    BY <1>4, <1>10
  <2>3. (i + 1) * Unsets = y + Unsets /\ (j + 1) * Resets = z + Resets
    BY <1>12
  <2>4. \/ x + d = q + y + z
        \/ x + d = q + (y + Unsets) + z
        \/ x + d = q + y + (z + Resets)
    <3> HIDE DEF p, q, y, z
    <3> QED BY <1>3, <2>1, <2>2
  <2>5. \/ x + d = q + i * Unsets + j * Resets
        \/ x + d = q + (i + 1) * Unsets + j * Resets
        \/ x + d = q + i * Unsets + (j + 1) * Resets
    BY <2>3, <2>4
  <2> HIDE DEF q, p
  <2>6. \E k \in 0 .. s + 1, l \in 0 .. s + 1 : x + d = q + k * Unsets + l * Resets
    BY <1>11, <2>5
  <2> QED BY <2>6 DEF q
<1> QED BY <1>13 DEF Earned, m, D, u, d, cur, org

\* What a step leaves of an account that held something keeps it.
LEMMA LivesOn ==
  ASSUME NEW w, NEW u, Lives(w),
         \A a \in Account : Genesis.slot[a] # 0 /\ Taken(w, a) => Taken(u, a)
  PROVE  Lives(u)
BY DEF Lives

LEMMA LivesFacts ==
  ASSUME NEW w \in World, Lives(w), NEW a \in Account
  PROVE  /\ w.nonce[a] <= MaxNonce => Lives(Bump(w, a))
         /\ ~Taken(w, a) => Genesis.slot[a] = 0
         /\ Lives(Made(w, a))
<1>1. \A b \in Account : w.nonce[b] \in Nat
  BY Nonces
<1>2. \A b \in Account : /\ Bump(w, a).nonce[b] = (IF b = a THEN w.nonce[b] + 1 ELSE w.nonce[b])
                         /\ Bump(w, a).code[b] = w.code[b]
  BY DEF Bump, World
<1>3. \A b \in Account : /\ Made(w, a).nonce[b] = (IF b = a THEN 1 ELSE w.nonce[b])
                         /\ Made(w, a).code[b] = w.code[b]
  BY DEF Made, World
<1>4. \A b \in Account : Taken(w, b) => Taken(Bump(w, a), b)
  BY <1>1, <1>2 DEF Taken
<1>5. \A b \in Account : Taken(w, b) => Taken(Made(w, a), b)
  BY <1>1, <1>3 DEF Taken
<1> QED BY <1>4, <1>5, LivesOn DEF Lives

\* Neither ether nor a nonce touches a slot.
LEMMA SlotFacts ==
  ASSUME NEW w \in World, NEW a \in Account
  PROVE  /\ Bump(w, a).slot = w.slot
         /\ Genesis.slot[a] = 0 => ClearedIn(Made(w, a)) = ClearedIn(w)
         /\ \A b \in Account, v \in Int :
              /\ Move(w, a, b, v).slot = w.slot /\ Move(w, a, b, v).nonce = w.nonce
              /\ Move(w, a, b, v).code = w.code
<1>1. Bump(w, a).slot = w.slot
  BY DEF Bump, World
<1>2. \A b \in Account : Made(w, a).slot[b] = IF b = a THEN 0 ELSE w.slot[b]
  BY DEF Made, World
<1>3. Genesis.slot[a] = 0 => ClearedIn(Made(w, a)) = ClearedIn(w)
  BY <1>2 DEF ClearedIn
<1>4. ASSUME NEW b \in Account, NEW v \in Int
      PROVE  /\ Move(w, a, b, v).slot = w.slot /\ Move(w, a, b, v).nonce = w.nonce
             /\ Move(w, a, b, v).code = w.code
  BY DEF Move, World
<1> QED BY <1>1, <1>3, <1>4

LEMMA SameSlots ==
  ASSUME NEW w, NEW u, u.slot = w.slot
  PROVE  ClearedIn(u) = ClearedIn(w)
BY DEF ClearedIn

LEMMA SameTaken ==
  ASSUME NEW w, NEW u, Lives(w), u.nonce = w.nonce, u.code = w.code
  PROVE  Lives(u)
BY DEF Lives, Taken

----------------------------------------------------------------------------
(* The refunds of a stack.                                                 *)

LEMMA RefundsType ==
  ASSUME NEW fs \in Seq(Frame)
  PROVE  /\ Len(fs) \in Nat
         /\ \A i \in 1 .. Len(fs) : fs[i].refund \in Int /\ Refunds(fs)[i] = fs[i].refund
         /\ \A k \in 1 .. Len(fs) + 1 : Before(fs, k) \in Int
<1>1. Len(fs) \in Nat /\ \A i \in 1 .. Len(fs) : fs[i] \in Frame
  OBVIOUS
<1>2. \A i \in 1 .. Len(fs) : fs[i].refund \in Int /\ Refunds(fs)[i] = fs[i].refund
  BY <1>1 DEF Frame, Refunds
<1>3. ASSUME NEW k \in 1 .. Len(fs) + 1 PROVE Before(fs, k) \in Int
  <2>1. k - 1 \in Nat /\ 1 .. k - 1 \subseteq 1 .. Len(fs)
    BY <1>1
  <2>2. \A i \in 1 .. k - 1 : Refunds(fs)[i] \in Int
    BY <1>2, <2>1
  <2> QED BY <2>1, <2>2, RowFinite, TotalType DEF Before
<1> QED BY <1>1, <1>2, <1>3

LEMMA BeforeSame ==
  ASSUME NEW fs \in Seq(Frame), NEW gs \in Seq(Frame),
         NEW k \in 1 .. Len(fs) + 1, k <= Len(gs) + 1,
         \A i \in 1 .. k - 1 : gs[i].refund = fs[i].refund
  PROVE  Before(gs, k) = Before(fs, k)
<1>1. /\ k - 1 \in Nat /\ 1 .. k - 1 \subseteq 1 .. Len(fs) /\ 1 .. k - 1 \subseteq 1 .. Len(gs)
  OBVIOUS
<1>2. \A i \in 1 .. k - 1 : Refunds(fs)[i] \in Int /\ Refunds(fs)[i] = Refunds(gs)[i]
  BY <1>1, RefundsType
<1> QED BY <1>1, <1>2, RowFinite, TotalSame DEF Before

LEMMA BeforeMore ==
  ASSUME NEW fs \in Seq(Frame), NEW k \in 1 .. Len(fs)
  PROVE  Before(fs, k + 1) = Before(fs, k) + fs[k].refund
<1> DEFINE h == Refunds(fs)
           n == k - 1
<1>1. n \in Nat /\ n + 1 = k /\ (k + 1) - 1 = n + 1 /\ 1 .. n \subseteq 1 .. Len(fs)
  OBVIOUS
<1>2. (\A i \in 1 .. n : h[i] \in Int) /\ h[n + 1] \in Int /\ h[n + 1] = fs[k].refund
  BY <1>1, RefundsType
<1> HIDE DEF h, n
<1>3. Total(h, 1 .. n + 1) = Total(h, 1 .. n) + h[n + 1]
  BY <1>1, <1>2, RowMore
<1>4. Before(fs, k) = Total(h, 1 .. n) /\ Before(fs, k + 1) = Total(h, 1 .. n + 1)
  BY <1>1 DEF Before, h, n
<1> QED BY <1>2, <1>3, <1>4

LEMMA BeforeFirst == \A fs : Before(fs, 1) = 0
<1>1. 1 .. 1 - 1 = {}
  OBVIOUS
<1> QED BY <1>1, TotalEmpty DEF Before

LEMMA SoundSame ==
  ASSUME NEW fs \in Seq(Frame), NEW gs \in Seq(Frame), NEW s \in Nat, NEW t \in Nat, s <= t,
         NEW k \in 1 .. Len(fs), k <= Len(gs), Sound(fs, k, s),
         \A i \in 1 .. k - 1 : gs[i].refund = fs[i].refund,
         gs[k].cp = fs[k].cp, gs[k].this = fs[k].this, gs[k].create = fs[k].create
  PROVE  Sound(gs, k, t)
<1>1. k \in 1 .. Len(fs) + 1 /\ k <= Len(gs) + 1
  BY RefundsType
<1>2. Before(gs, k) = Before(fs, k)
  BY <1>1, BeforeSame
<1>3. Earned(Before(fs, k), fs[k].cp, t)
  BY EarnedSame DEF Sound
<1> QED BY <1>2, <1>3 DEF Sound

LEMMA TopRefunds ==
  ASSUME NEW fs \in Seq(Frame), NEW gs \in Seq(Frame), Len(fs) >= 1,
         Len(gs) >= Len(fs), \A i \in 1 .. Len(fs) - 1 : gs[i] = fs[i]
  PROVE  /\ Before(fs, Len(fs) + 1) = Before(fs, Len(fs)) + fs[Len(fs)].refund
         /\ Before(gs, Len(fs) + 1) = Before(fs, Len(fs)) + gs[Len(fs)].refund
         /\ Before(fs, Len(fs)) \in Int
<1> DEFINE n == Len(fs)
<1>1. n \in 1 .. Len(fs) /\ n \in 1 .. Len(gs) /\ n \in 1 .. Len(fs) + 1 /\ n <= Len(gs) + 1
  BY RefundsType
<1>2. \A i \in 1 .. n - 1 : gs[i].refund = fs[i].refund
  OBVIOUS
<1> HIDE DEF n
<1>3. Before(gs, n) = Before(fs, n)
  BY <1>1, <1>2, BeforeSame
<1>4. Before(fs, n + 1) = Before(fs, n) + fs[n].refund
  BY <1>1, BeforeMore
<1>5. Before(gs, n + 1) = Before(gs, n) + gs[n].refund
  BY <1>1, BeforeMore
<1>6. Before(fs, n) \in Int
  BY <1>1, RefundsType
<1> QED BY <1>3, <1>4, <1>5, <1>6 DEF n

\* A step that changes what the top is owed, and the slots with it.
LEMMA TopEarned ==
  ASSUME ExecInv, ExecInv', RefundInv, phase = "run", frames # <<>>, steps <= steps',
         NEW g, g.cp = Top.cp, g.this = Top.this, g.create = Top.create,
         frames' = WithTop(g), NEW d \in Int,
         g.refund + Due(result') = Top.refund + Due(result) + d,
         g.refund \in Int, Due(result) \in Int, Due(result') \in Int,
         \A a \in result'.made : Genesis.slot[a] = 0, Lives(world'),
         Earned(Before(frames, Len(frames) + 1) + Due(result) + d, world', steps')
  PROVE  RefundInv'
<1> DEFINE n == Len(frames)
<1>1. /\ frames \in Seq(Frame) /\ frames' \in Seq(Frame) /\ n \in Nat /\ n >= 1
      /\ steps \in Nat /\ steps' \in Nat
  BY EmptySeq DEF ExecInv, Stack
<1>2. /\ Len(frames') = n
      /\ \A i \in 1 .. n : frames'[i] = IF i = n THEN g ELSE frames[i]
  BY <1>1 DEF WithTop
<1>3. Top = frames[n] /\ frames[n].refund \in Int
  BY <1>1, RefundsType DEF Top
<1>4. \A i \in 1 .. n - 1 : frames'[i] = frames[i]
  BY <1>1, <1>2
<1>5. frames'[n] = g
  BY <1>1, <1>2
<1>6. /\ Before(frames, n + 1) = Before(frames, n) + frames[n].refund
      /\ Before(frames', n + 1) = Before(frames, n) + g.refund
      /\ Before(frames, n) \in Int
  <2>1. /\ frames \in Seq(Frame) /\ frames' \in Seq(Frame) /\ Len(frames) >= 1
        /\ Len(frames') >= Len(frames)
    BY <1>1, <1>2
  <2>2. \A i \in 1 .. Len(frames) - 1 : frames'[i] = frames[i]
    BY <1>4
  <2>3. /\ Before(frames, Len(frames) + 1)
             = Before(frames, Len(frames)) + frames[Len(frames)].refund
        /\ Before(frames', Len(frames) + 1)
             = Before(frames, Len(frames)) + frames'[Len(frames)].refund
        /\ Before(frames, Len(frames)) \in Int
    BY <2>1, <2>2, TopRefunds
  <2> QED BY <1>5, <2>3
<1>7. Before(frames', n + 1) + Due(result') = Before(frames, n + 1) + Due(result) + d
  <2> DEFINE x == Before(frames, n)
             y == Due(result)
             z == Due(result')
             u == frames[n].refund
             v == g.refund
  <2>1. x \in Int /\ y \in Int /\ z \in Int /\ u \in Int /\ v \in Int /\ v + z = u + y + d
    BY <1>3, <1>6
  <2>2. Before(frames, n + 1) = x + u /\ Before(frames', n + 1) = x + v
    BY <1>6
  <2> HIDE DEF x, y, z, u, v
  <2>3. (x + v) + z = (x + u) + y + d
    BY <2>1
  <2> QED BY <2>2, <2>3 DEF y, z
<1>8. ASSUME NEW k \in 1 .. n PROVE Sound(frames', k, steps')
  <2>1. Sound(frames, k, steps)
    BY DEF RefundInv
  <2>2. k <= Len(frames') /\ \A i \in 1 .. k - 1 : frames'[i].refund = frames[i].refund
    BY <1>1, <1>2, <1>4
  <2>3. /\ frames'[k].cp = frames[k].cp /\ frames'[k].this = frames[k].this
        /\ frames'[k].create = frames[k].create
    BY <1>2, <1>3
  <2> QED BY <1>1, <2>1, <2>2, <2>3, SoundSame
<1>9. Earned(Before(frames', Len(frames') + 1) + Due(result'), world', steps')
  BY <1>2, <1>7
<1> QED BY <1>2, <1>8, <1>9 DEF RefundInv

LEMMA PushEarned ==
  ASSUME ExecInv, ExecInv', RefundInv, phase = "run", frames # <<>>, steps <= steps',
         NEW g \in Frame, g.cp = Top.cp, g.this = Top.this, g.create = Top.create,
         g.refund = Top.refund,
         NEW f, f.refund = 0, frames' = Append(WithTop(g), f), result' = result,
         result = None, ClearedIn(f.cp) = ClearedIn(world), Lives(f.cp),
         f.create => Genesis.slot[f.this] = 0,
         Lives(world'), ClearedIn(world') = ClearedIn(world)
  PROVE  RefundInv'
<1> DEFINE n == Len(frames)
<1>1. /\ frames \in Seq(Frame) /\ frames' \in Seq(Frame) /\ n \in Nat /\ n >= 1
      /\ steps \in Nat /\ steps' \in Nat
  BY EmptySeq DEF ExecInv, Stack
<1>2. PICK fs : fs = WithTop(g)
  OBVIOUS
<1>3. fs \in Seq(Frame) /\ Len(fs) = n
      /\ \A i \in 1 .. n : fs[i] = IF i = n THEN g ELSE frames[i]
  BY <1>1, <1>2 DEF WithTop
<1>4. /\ Len(frames') = n + 1
      /\ \A i \in 1 .. n + 1 : frames'[i] = IF i = n + 1 THEN f ELSE IF i = n THEN g ELSE frames[i]
  BY <1>1, <1>2, <1>3
<1>5. Top = frames[n]
  BY DEF Top
<1>6. \A i \in 1 .. n - 1 : frames'[i] = frames[i]
  BY <1>1, <1>4
<1>7. frames'[n] = g /\ frames'[n + 1] = f
  BY <1>1, <1>4
<1>8. /\ Before(frames, n + 1) = Before(frames, n) + frames[n].refund
      /\ Before(frames', n + 1) = Before(frames, n) + g.refund
  <2>1. Len(frames') >= n
    BY <1>1, <1>4
  <2> QED BY <1>1, <1>6, <1>7, <2>1, TopRefunds
<1>9. Before(frames', n + 1) = Before(frames, n + 1)
  BY <1>5, <1>8
<1>10. Before(frames', n + 2) = Before(frames, n + 1) /\ Before(frames, n + 1) \in Int
  <2>1. n + 1 \in 1 .. Len(frames') /\ (n + 1) + 1 = n + 2 /\ n + 1 \in 1 .. Len(frames) + 1
    BY <1>1, <1>4
  <2>2. Before(frames', n + 2) = Before(frames', n + 1) + frames'[n + 1].refund
    BY <1>1, <2>1, BeforeMore
  <2>3. Before(frames, n + 1) \in Int
    BY <1>1, <2>1, RefundsType
  <2> QED BY <1>7, <1>9, <2>2, <2>3
<1>11. Due(result) = 0 /\ Earned(Before(frames, n + 1), world, steps)
  <2>1. Due(result) = 0
    BY DEF Due, None
  <2> QED BY <1>10, <2>1 DEF RefundInv
<1>12. /\ Earned(Before(frames, n + 1), world', steps')
       /\ Earned(Before(frames, n + 1), f.cp, steps')
  BY <1>1, <1>11, EarnedSame
<1>13. ASSUME NEW k \in 1 .. n PROVE Sound(frames', k, steps')
  <2>1. Sound(frames, k, steps)
    BY DEF RefundInv
  <2>2. k <= Len(frames') /\ \A i \in 1 .. k - 1 : frames'[i].refund = frames[i].refund
    BY <1>1, <1>4, <1>6
  <2>3. /\ frames'[k].cp = frames[k].cp /\ frames'[k].this = frames[k].this
        /\ frames'[k].create = frames[k].create
    BY <1>1, <1>4, <1>5
  <2> QED BY <1>1, <2>1, <2>2, <2>3, SoundSame
<1>14. Sound(frames', n + 1, steps')
  BY <1>7, <1>9, <1>12 DEF Sound
<1>15. \A k \in 1 .. Len(frames') : Sound(frames', k, steps')
  <2>1. \A k \in 1 .. n + 1 : k \in 1 .. n \/ k = n + 1
    BY <1>1
  <2> QED BY <1>4, <1>13, <1>14, <2>1
<1>16. Len(frames') + 1 = n + 2
  BY <1>1, <1>4
<1>17. Due(result') = 0 /\ Before(frames, n + 1) + 0 = Before(frames, n + 1)
  BY <1>10, <1>11
<1>18. Earned(Before(frames', Len(frames') + 1) + Due(result'), world', steps')
  BY <1>10, <1>12, <1>16, <1>17
<1>19. result'.made = {}
  BY DEF None
<1> QED BY <1>15, <1>18, <1>19 DEF RefundInv

\* The top fails, or hands its refund on.
LEMMA PopEarned ==
  ASSUME ExecInv, ExecInv', RefundInv, NEW r, NEW w, End(r, w),
         \A a \in r.made : Genesis.slot[a] = 0,
         \/ w = Top.cp /\ Due(r) = 0
         \/ /\ ClearedIn(w) = ClearedIn(world) /\ Lives(w)
            /\ Due(r) = Top.refund
  PROVE  RefundInv'
<1> DEFINE n  == Len(frames)
           fs == SubSeq(frames, 1, Len(frames) - 1)
<1>1. /\ phase = "run" /\ frames # <<>> /\ result = None
      /\ frames' = fs /\ result' = r /\ world' = w
  BY DEF End, Running, Popped
<1>2. /\ frames \in Seq(Frame) /\ frames' \in Seq(Frame) /\ n \in Nat /\ n >= 1
      /\ steps \in Nat /\ steps' \in Nat /\ steps <= steps'
  BY <1>1, EmptySeq DEF ExecInv, Stack, End
<1>3. Len(fs) = n - 1 /\ \A i \in 1 .. n - 1 : fs[i] = frames[i] /\ i \in 1 .. n
  BY <1>1, <1>2, PopFacts
<1> HIDE DEF fs
<1>4. Top = frames[n] /\ Top.refund \in Int
  BY <1>1, TopFacts DEF Top
<1>5. Before(frames', n) = Before(frames, n) /\ Before(frames, n) \in Int
  <2>1. n \in 1 .. Len(frames) + 1 /\ n <= Len(frames') + 1
    BY <1>1, <1>2, <1>3
  <2>2. \A i \in 1 .. n - 1 : frames'[i].refund = frames[i].refund
    BY <1>1, <1>3
  <2> QED BY <1>2, <2>1, <2>2, BeforeSame, RefundsType
<1>6. ASSUME NEW k \in 1 .. n - 1 PROVE Sound(frames', k, steps')
  <2>1. k \in 1 .. Len(frames) /\ k <= Len(frames')
    BY <1>1, <1>2, <1>3
  <2>2. Sound(frames, k, steps)
    BY <1>1, <2>1 DEF RefundInv
  <2>3. \A i \in 1 .. k - 1 : frames'[i].refund = frames[i].refund
    BY <1>1, <1>2, <1>3
  <2> QED BY <1>1, <1>2, <1>3, <2>1, <2>2, <2>3, SoundSame
<1>7. Earned(Before(frames, n) + Due(r), w, steps')
  <2>1. CASE w = Top.cp /\ Due(r) = 0
    <3>1. n \in 1 .. Len(frames)
      BY <1>2
    <3>2. Earned(Before(frames, n), Top.cp, steps)
      BY <1>1, <1>4, <3>1 DEF RefundInv, Sound
    <3>3. Earned(Before(frames, n), Top.cp, steps')
      BY <1>2, <3>2, EarnedSame
    <3> QED BY <1>5, <2>1, <3>3
  <2>2. CASE ClearedIn(w) = ClearedIn(world) /\ Due(r) = Top.refund
    <3>1. n \in 1 .. Len(frames)
      BY <1>2
    <3>2. Before(frames, n + 1) = Before(frames, n) + Top.refund
      BY <1>2, <1>4, <3>1, BeforeMore
    <3>3. Due(result) = 0
      BY <1>1 DEF Due, None
    <3>4. Before(frames, n + 1) + Due(result) = Before(frames, n) + Due(r)
      BY <1>4, <1>5, <2>2, <3>2, <3>3
    <3>5. Earned(Before(frames, n) + Due(r), world, steps)
      BY <1>1, <3>4 DEF RefundInv
    <3> QED BY <1>2, <2>2, <3>5, EarnedSame
  <2> QED BY <2>1, <2>2
<1>8. Lives(w)
  <2>1. n \in 1 .. Len(frames)
    BY <1>2
  <2> QED BY <1>1, <1>4, <2>1 DEF RefundInv, Sound
<1>9. Len(frames') + 1 = n
  BY <1>1, <1>2, <1>3
<1>10. Earned(Before(frames', Len(frames') + 1) + Due(result'), world', steps')
  BY <1>1, <1>5, <1>7, <1>9
<1>11. Len(frames') = n - 1
  BY <1>1, <1>3
<1> QED BY <1>1, <1>6, <1>8, <1>10, <1>11 DEF RefundInv

LEMMA EarnedNone ==
  ASSUME NEW w, ClearedIn(w) = ClearedIn(Genesis), NEW s \in Nat
  PROVE  Earned(0, w, s)
<1>1. ClearedIn(w) = {}
  BY DEF ClearedIn
<1>2. Cardinality(ClearedIn(w)) = 0
  BY <1>1, FS_EmptySet
<1>3. 0 = Clears * 0 + 0 * Unsets + 0 * Resets /\ 0 \in 0 .. s
  BY Prices
<1> QED BY <1>2, <1>3 DEF Earned

LEMMA StartEarned ==
  ASSUME ExecInv, ExecInv', NEW v \in Values, NEW to \in Account, NEW ok \in BOOLEAN,
         \/ StartCall(to, v)
         \/ StartPrecompile(to, v, ok)
         \/ StartCreate(to, v)
  PROVE  RefundInv'
<1>1. Begin
  BY DEF StartCall, StartPrecompile, StartCreate
<1>2. start' = Bump(world, Sender) /\ world = Genesis /\ world \in World /\ steps' \in Nat
  BY <1>1 DEF Begin, ExecInv
<1>3. Sender \in Account /\ world.nonce[Sender] <= MaxNonce /\ v \in Int /\ Lives(world)
  BY <1>2, ExecutorAssumption DEF ExecutorAssumption, Account, Lives, Taken
<1>4. /\ start' \in World /\ Lives(start') /\ ClearedIn(start') = ClearedIn(Genesis)
  BY <1>2, <1>3, BumpType, LivesFacts, SlotFacts, SameSlots
<1>5. ASSUME NEW w \in World, Lives(w), ClearedIn(w) = ClearedIn(Genesis)
      PROVE  /\ Lives(Move(w, Sender, to, v))
             /\ ClearedIn(Move(w, Sender, to, v)) = ClearedIn(Genesis)
  BY <1>3, <1>5, SlotFacts, SameSlots, SameTaken
<1>6. ASSUME NEW f, frames' = <<f>>, f.cp = start', f.refund = 0, result' = None,
             f.create => Genesis.slot[f.this] = 0,
             Lives(world'), ClearedIn(world') = ClearedIn(Genesis)
      PROVE  RefundInv'
  <2>1. Len(frames') = 1 /\ frames'[1] = f /\ \A i \in 1 .. 1 : i = 1
    BY <1>6
  <2>2. frames' \in Seq(Frame)
    BY DEF ExecInv, Stack
  <2>3. Before(frames', 1) = 0
    BY BeforeFirst
  <2>4. Before(frames', 2) = 0
    <3>1. 1 \in 1 .. Len(frames') /\ 1 + 1 = 2
      BY <2>1
    <3>2. Before(frames', 2) = Before(frames', 1) + frames'[1].refund
      BY <2>2, <3>1, BeforeMore
    <3> QED BY <1>6, <2>1, <2>3, <3>2
  <2>5. Earned(0, start', steps') /\ Earned(0, world', steps')
    BY <1>2, <1>4, <1>6, EarnedNone
  <2>6. Sound(frames', 1, steps')
    BY <1>4, <1>6, <2>1, <2>3, <2>5 DEF Sound
  <2>7. Due(result') = 0 /\ result'.made = {}
    BY <1>6 DEF Due, None
  <2>8. Earned(Before(frames', Len(frames') + 1) + Due(result'), world', steps')
    BY <2>1, <2>4, <2>5, <2>7
  <2> QED BY <1>6, <2>1, <2>6, <2>7, <2>8 DEF RefundInv
<1>7. CASE StartCall(to, v)
  <2>1. PICK f : f = NewFrame(to, FALSE, FALSE, world.code[to], Limit, start')
    OBVIOUS
  <2>2. f.cp = start' /\ f.refund = 0 /\ ~f.create
    BY <2>1 DEF NewFrame
  <2> QED BY <1>4, <1>5, <1>6, <1>7, <2>1, <2>2 DEF StartCall
<1>8. CASE StartPrecompile(to, v, ok)
  BY <1>8 DEF StartPrecompile, RefundInv
<1>9. CASE StartCreate(to, v)
  <2>1. CASE Taken(start', to)
    BY <1>9, <2>1 DEF StartCreate, RefundInv
  <2>2. CASE ~Taken(start', to)
    <3>1. PICK f : f = NewFrame(to, TRUE, FALSE, TRUE, Limit, start')
      OBVIOUS
    <3>2. f.cp = start' /\ f.refund = 0 /\ f.this = to
      BY <3>1 DEF NewFrame
    <3>3. /\ Genesis.slot[to] = 0 /\ Made(start', to) \in World /\ Lives(Made(start', to))
          /\ ClearedIn(Made(start', to)) = ClearedIn(Genesis)
      BY <1>4, <2>2, MadeType, LivesFacts, SlotFacts
    <3>4. /\ frames' = <<f>> /\ result' = None
          /\ world' = Move(Made(start', to), Sender, to, v)
      BY <1>9, <2>2, <3>1 DEF StartCreate
    <3>5. Lives(world') /\ ClearedIn(world') = ClearedIn(Genesis)
      BY <1>5, <3>3, <3>4
    <3> QED BY <1>6, <3>2, <3>3, <3>4, <3>5
  <2> QED BY <2>1, <2>2
<1> QED BY <1>7, <1>8, <1>9

LEMMA RunFacts ==
  ASSUME ExecInv, RefundInv, phase = "run", frames # <<>>
  PROVE  /\ frames \in Seq(Frame) /\ Len(frames) \in 1 .. Len(frames)
         /\ Top \in Frame /\ Top.refund \in Int /\ Top.this \in Account
         /\ Lives(world) /\ Sound(frames, Len(frames), steps)
         /\ Earned(Before(frames, Len(frames) + 1) + Due(result), world, steps)
         /\ Before(frames, Len(frames) + 1) + Due(result) \in Int /\ Due(result) \in Int
         /\ world \in World /\ steps \in Nat
<1>1. frames \in Seq(Frame) /\ Len(frames) \in 1 .. Len(frames)
  BY EmptySeq DEF ExecInv, Stack
<1>2. Due(result) \in Int
  BY DEF Due, ExecInv, ResultOf, Result, None
<1>3. Before(frames, Len(frames) + 1) \in Int
  BY <1>1, RefundsType
<1>4. Before(frames, Len(frames) + 1) + Due(result) \in Int
  BY <1>2, <1>3
<1> QED BY <1>1, <1>2, <1>4, TopFacts DEF RefundInv, ExecInv

\* An instruction that earns nothing.
LEMMA PayEarned ==
  ASSUME ExecInv, ExecInv', RefundInv, Op, result' = result,
         NEW g, g.cp = Top.cp, g.this = Top.this, g.create = Top.create, g.refund = Top.refund,
         frames' = WithTop(g), Lives(world'), ClearedIn(world') = ClearedIn(world)
  PROVE  RefundInv'
<1>1. phase = "run" /\ frames # <<>> /\ result = None /\ steps' = steps + 1
  BY DEF Op, Running
<1>2. /\ Top.refund \in Int /\ steps \in Nat /\ Due(result) \in Int
      /\ Earned(Before(frames, Len(frames) + 1) + Due(result), world, steps)
      /\ Before(frames, Len(frames) + 1) + Due(result) \in Int
  BY <1>1, RunFacts
<1> DEFINE x == Before(frames, Len(frames) + 1) + Due(result)
<1>3. x \in Int /\ Earned(x, world, steps)
  BY <1>2
<1> HIDE DEF x
<1>4. steps <= steps' /\ steps' \in Nat /\ x + 0 = x
  BY <1>1, <1>2, <1>3
<1>5. Earned(x + 0, world', steps')
  BY <1>2, <1>3, <1>4, EarnedSame
<1>6. g.refund + Due(result') = Top.refund + Due(result) + 0
  BY <1>2
<1>7. \A a \in result'.made : Genesis.slot[a] = 0
  BY <1>1 DEF None
<1> QED BY <1>1, <1>2, <1>4, <1>5, <1>6, <1>7, TopEarned DEF x

LEMMA ChargeEarned ==
  ASSUME ExecInv, ExecInv', RefundInv, Op, result' = result,
         NEW gas, frames' = WithTop(Charge(Top, gas)),
         Lives(world'), ClearedIn(world') = ClearedIn(world)
  PROVE  RefundInv'
<1>1. PICK g : g = Charge(Top, gas)
  OBVIOUS
<1>2. /\ g.cp = Top.cp /\ g.this = Top.this /\ g.create = Top.create
      /\ g.refund = Top.refund
  BY <1>1, OpFacts, TopFacts DEF Charge, Frame
<1> QED BY <1>1, <1>2, PayEarned

LEMMA StoreEarnedNext ==
  ASSUME ExecInv, ExecInv', RefundInv, NEW val \in Word, Store(val)
  PROVE  RefundInv'
<1> DEFINE cost == StoreGas(val, world.slot[Top.this], Genesis.slot[Top.this])
           d    == StoreRefund(val, world.slot[Top.this], Genesis.slot[Top.this])
           x    == Before(frames, Len(frames) + 1) + Due(result)
<1>1. /\ Op /\ result' = result
      /\ frames' = WithTop([Charge(Top, cost) EXCEPT !.refund = @ + d])
      /\ world' = [world EXCEPT !.slot[Top.this] = val]
  BY DEF Store
<1>2. phase = "run" /\ frames # <<>> /\ result = None /\ steps' = steps + 1
  BY <1>1 DEF Op, Running
<1>3. /\ Top \in Frame /\ Top.refund \in Int /\ Top.this \in Account /\ world \in World
      /\ steps \in Nat /\ Due(result) \in Int /\ Lives(world)
      /\ x \in Int /\ Earned(x, world, steps)
  BY <1>2, RunFacts
<1>4. Earned(x + d, world', steps')
  <2>1. Earned(x + d, [world EXCEPT !.slot[Top.this] = val], steps + 1)
    <3> HIDE DEF x
    <3> QED BY <1>3, StoreEarned
  <2> QED BY <1>1, <1>2, <2>1
<1>5. d \in Int
  BY ExecutorAssumption DEF ExecutorAssumption, StoreRefund
<1>6. Lives(world')
  <2>1. world'.nonce = world.nonce /\ world'.code = world.code
    BY <1>1, <1>3 DEF World
  <2> QED BY <1>3, <2>1, SameTaken
<1>7. PICK g : g = [Charge(Top, cost) EXCEPT !.refund = @ + d]
  OBVIOUS
<1> HIDE DEF cost, d
<1>8. /\ g.cp = Top.cp /\ g.this = Top.this /\ g.create = Top.create
      /\ g.refund = Top.refund + d
  BY <1>3, <1>7 DEF Charge, Frame
<1>9. frames' = WithTop(g) /\ steps <= steps'
  BY <1>1, <1>2, <1>3, <1>7
<1>10. g.refund + Due(result') = Top.refund + Due(result) + d /\ g.refund \in Int
  BY <1>1, <1>3, <1>5, <1>8
<1>11. (\A a \in result'.made : Genesis.slot[a] = 0) /\ Due(result') \in Int
  BY <1>1, <1>2, <1>3 DEF None
<1> QED BY <1>2, <1>3, <1>4, <1>5, <1>6, <1>8, <1>9, <1>10, <1>11, TopEarned

LEMMA QuietEarned ==
  ASSUME ExecInv, ExecInv', RefundInv,
         Compute \/ Fetch \/ FetchFails \/ \E v \in Values : CreateRefused(v)
  PROVE  RefundInv'
<1>1. phase = "run" /\ frames # <<>> /\ world' = world /\ result' = result /\ Lives(world)
  BY DEF Compute, Fetch, FetchFails, CreateRefused, CanCreate, Op, Running, RefundInv
<1>2. CASE Compute \/ \E v \in Values : CreateRefused(v)
  BY <1>1, <1>2, ChargeEarned DEF Compute, CreateRefused, CanCreate
<1>3. CASE FetchFails
  BY <1>3 DEF FetchFails, RefundInv
<1>4. CASE Fetch
  <2>1. frames' = frames /\ steps' = steps + 1 /\ steps \in Nat
    BY <1>4 DEF Fetch, Op, ExecInv
  <2>2. steps <= steps' /\ steps' \in Nat
    BY <2>1
  <2>3. \A x, w : Earned(x, w, steps) => Earned(x, w, steps')
    BY <2>1, <2>2, EarnedSame
  <2>4. \A k \in 1 .. Len(frames) : Sound(frames, k, steps')
    BY <1>1, <2>3 DEF RefundInv, Sound
  <2> QED BY <1>1, <2>1, <2>3, <2>4 DEF RefundInv
<1> QED BY <1>2, <1>3, <1>4

LEMMA CallEarned ==
  ASSUME ExecInv, ExecInv', RefundInv, NEW kind \in Kind, NEW to \in Account,
         NEW v \in Values, NEW ask \in Ask,
         \/ Call(kind, to, v, ask) \/ CallRefused(kind, to, v, ask)
         \/ \E ok \in BOOLEAN : CallPrecompile(kind, to, v, ask, ok)
  PROVE  RefundInv'
<1>1. /\ CanCall(kind, to, v) /\ world' \in {world, Move(world, Top.this, to, v)}
      /\ result' = result
  BY DEF Call, CallRefused, CallPrecompile
<1>2. /\ Op /\ phase = "run" /\ frames # <<>> /\ result = None /\ v \in Int
      /\ steps' = steps + 1
  BY <1>1, CallFacts, OpFacts DEF Op
<1>3. /\ world \in World /\ Top.this \in Account /\ Top \in Frame /\ Lives(world)
      /\ steps \in Nat
  BY <1>2, RunFacts
<1>4. Lives(world') /\ ClearedIn(world') = ClearedIn(world)
  BY <1>1, <1>2, <1>3, SlotFacts, SameSlots, SameTaken
<1>5. CASE Call(kind, to, v, ask)
  <2>1. PICK g : g = Charge(Top, CallFee(v) + Lent(v, ask))
    OBVIOUS
  <2>2. /\ g \in Frame /\ g.cp = Top.cp /\ g.this = Top.this /\ g.create = Top.create
        /\ g.refund = Top.refund
    <3>1. CallFee(v) + Lent(v, ask) \in Nat
      BY <1>1, CallFacts
    <3>2. g \in Frame
      BY <1>3, <2>1, <3>1, ChargeType
    <3> QED BY <1>3, <2>1, <3>2 DEF Charge, Frame
  <2>3. PICK f : f = NewFrame(IF kind \in {"call", "static"} THEN to ELSE Top.this,
                              FALSE, Top.static \/ kind = "static", world.code[to],
                              Given(v, ask), world)
    OBVIOUS
  <2>4. f.cp = world /\ f.refund = 0 /\ ~f.create
    BY <2>3 DEF NewFrame
  <2>5. frames' = Append(WithTop(g), f)
    BY <1>5, <2>1, <2>3 DEF Call
  <2>6. steps <= steps'
    BY <1>2, <1>3
  <2> QED BY <1>1, <1>2, <1>3, <1>4, <2>2, <2>4, <2>5, <2>6, PushEarned
<1>6. CASE \/ CallRefused(kind, to, v, ask)
           \/ \E ok \in BOOLEAN : CallPrecompile(kind, to, v, ask, ok)
  <2>1. PICK gas : frames' = WithTop(Charge(Top, gas))
    BY <1>6 DEF CallRefused, CallPrecompile
  <2> QED BY <1>1, <1>2, <1>4, <2>1, ChargeEarned
<1> QED BY <1>5, <1>6

LEMMA CreateEarned ==
  ASSUME ExecInv, ExecInv', RefundInv, NEW v \in Values, NEW a \in Account, Create(a, v)
  PROVE  RefundInv'
<1> DEFINE by    == Top.this
           lent  == AllBut(Left(Top) - CreateCost)
           cp    == Bump(world, by)
           payer == [Charge(Top, CreateCost + lent) EXCEPT !.next = cp.nonce[by]]
<1>1. /\ CanCreate /\ Op /\ world.nonce[by] < MaxNonce /\ result' = result
      /\ \/ world' = cp /\ frames' = WithTop(payer)
         \/ /\ ~Taken(cp, a) /\ world' = Move(Made(cp, a), by, a, v)
            /\ frames' = Append(WithTop(payer), NewFrame(a, TRUE, FALSE, TRUE, lent, cp))
  BY DEF Create, CanCreate
<1>2. /\ phase = "run" /\ frames # <<>> /\ result = None /\ steps' = steps + 1
  BY <1>1 DEF Op, Running
<1>3. /\ world \in World /\ Top \in Frame /\ by \in Account /\ Lives(world) /\ steps \in Nat
  BY <1>2, RunFacts
<1>4. MaxNonce \in Nat /\ v \in Int
  BY ExecutorAssumption DEF ExecutorAssumption
<1>5. /\ cp \in World /\ cp.nonce[by] \in Nat /\ Lives(cp)
      /\ ClearedIn(cp) = ClearedIn(world)
  <2>1. world.nonce[by] \in Nat
    BY <1>3, Nonces
  <2>2. world.nonce[by] <= MaxNonce
    BY <1>1, <1>4, <2>1
  <2> QED BY <1>3, <2>2, BumpType, LivesFacts, SlotFacts, SameSlots
<1>6. CreateCost + lent \in Nat
  BY <1>1, CreateFacts
<1>7. PICK h : h = Charge(Top, CreateCost + lent)
  OBVIOUS
<1>8. /\ h \in Frame /\ h.cp = Top.cp /\ h.this = by /\ h.create = Top.create
      /\ h.refund = Top.refund
  <2>1. h \in Frame
    BY <1>3, <1>6, <1>7, ChargeType
  <2> HIDE DEF lent
  <2> QED BY <1>3, <1>7, <2>1 DEF Charge, Frame
<1>9. PICK g : g = payer
  OBVIOUS
<1>10. g = [h EXCEPT !.next = cp.nonce[by]]
  BY <1>7, <1>9
<1> HIDE DEF cp, lent, payer
<1>11. /\ g \in Frame /\ g.cp = Top.cp /\ g.this = Top.this /\ g.create = Top.create
       /\ g.refund = Top.refund
  BY <1>5, <1>8, <1>10 DEF Frame
<1>12. CASE world' = cp /\ frames' = WithTop(payer)
  BY <1>1, <1>5, <1>9, <1>11, <1>12, PayEarned
<1>13. CASE /\ ~Taken(cp, a) /\ world' = Move(Made(cp, a), by, a, v)
            /\ frames' = Append(WithTop(payer), NewFrame(a, TRUE, FALSE, TRUE, lent, cp))
  <2>1. PICK f : f = NewFrame(a, TRUE, FALSE, TRUE, lent, cp)
    OBVIOUS
  <2>2. f.cp = cp /\ f.refund = 0 /\ f.this = a
    BY <2>1 DEF NewFrame
  <2>3. PICK m : m = Made(cp, a)
    OBVIOUS
  <2>4. /\ m \in World /\ Genesis.slot[a] = 0 /\ Lives(m) /\ ClearedIn(m) = ClearedIn(world)
    BY <1>5, <1>13, <2>3, MadeType, LivesFacts, SlotFacts
  <2>5. Lives(world') /\ ClearedIn(world') = ClearedIn(world)
    <3>1. /\ Move(m, Top.this, a, v).slot = m.slot
          /\ Move(m, Top.this, a, v).nonce = m.nonce
          /\ Move(m, Top.this, a, v).code = m.code
      BY <1>3, <1>4, <2>4, SlotFacts
    <3>2. world' = Move(m, Top.this, a, v)
      BY <1>13, <2>3
    <3>3. world'.slot = m.slot /\ world'.nonce = m.nonce /\ world'.code = m.code
      BY <3>1, <3>2
    <3> QED BY <2>4, <3>3, SameSlots, SameTaken
  <2>6. frames' = Append(WithTop(g), f) /\ steps <= steps'
    BY <1>2, <1>3, <1>9, <1>13, <2>1
  <2> QED BY <1>1, <1>2, <1>5, <1>11, <2>2, <2>4, <2>5, <2>6, PushEarned
<1> QED BY <1>1, <1>12, <1>13

LEMMA FrameEndEarned ==
  ASSUME ExecInv, ExecInv', RefundInv,
         \/ \E code, bad \in BOOLEAN : Return(code, bad)
         \/ \E b \in Account : SelfDestruct(b)
         \/ Revert \/ Halt
  PROVE  RefundInv'
<1>1. Running
  BY DEF Return, SelfDestruct, Revert, Halt
<1>2. /\ phase = "run" /\ frames # <<>> /\ world \in World /\ Top.this \in Account
      /\ Lives(world) /\ Sound(frames, Len(frames), steps)
  BY <1>1, RunFacts DEF Running
<1>3. Top.create => Genesis.slot[Top.this] = 0
  BY <1>2 DEF Sound, Top
<1>4. ASSUME NEW left, End(Failure(left), Top.cp)
      PROVE  RefundInv'
  <2>1. Due(Failure(left)) = 0 /\ Failure(left).made = {}
    BY DEF Due, Failure
  <2> QED BY <1>4, <2>1, PopEarned
<1>5. ASSUME NEW left, NEW code, NEW w, ClearedIn(w) = ClearedIn(world), Lives(w),
             \/ End(Success(left, Top.refund), w)
             \/ Top.create /\ End(Deployed(left, Top.refund, Top.this, code), w)
      PROVE  RefundInv'
  <2>1. Due(Success(left, Top.refund)) = Top.refund /\ Success(left, Top.refund).made = {}
    BY DEF Due, Success
  <2>2. /\ Due(Deployed(left, Top.refund, Top.this, code)) = Top.refund
        /\ Deployed(left, Top.refund, Top.this, code).made = {Top.this}
    BY DEF Due, Deployed
  <2>3. CASE End(Success(left, Top.refund), w)
    BY <1>5, <2>1, <2>3, PopEarned
  <2>4. CASE Top.create /\ End(Deployed(left, Top.refund, Top.this, code), w)
    BY <1>3, <1>5, <2>2, <2>4, PopEarned
  <2> QED BY <1>5, <2>3, <2>4
<1>6. ASSUME NEW code \in BOOLEAN, NEW bad \in BOOLEAN, Return(code, bad)
      PROVE  RefundInv'
  <2>1. \/ End(Failure(0), Top.cp)
        \/ \E left : \/ End(Success(left, Top.refund), world)
                     \/ Top.create /\ End(Deployed(left, Top.refund, Top.this, code), world)
    BY <1>6 DEF Return
  <2> QED BY <1>2, <1>4, <1>5, <2>1
<1>7. ASSUME NEW b \in Account, SelfDestruct(b)
      PROVE  RefundInv'
  <2> DEFINE gone == IF Top.this \in world.made THEN {Top.this} ELSE {}
             w    == [Move(world, Top.this, b, world.bal[Top.this]) EXCEPT !.doomed = @ \cup gone]
  <2>1. \E left : \/ End(Success(left, Top.refund), w)
                  \/ Top.create /\ End(Deployed(left, Top.refund, Top.this, FALSE), w)
    BY <1>7 DEF SelfDestruct
  <2>2. PICK m : m = Move(world, Top.this, b, world.bal[Top.this])
    OBVIOUS
  <2>3. world.bal[Top.this] \in Int
    BY <1>2, BalanceSum
  <2>4. m \in World /\ m.slot = world.slot /\ m.nonce = world.nonce /\ m.code = world.code
    BY <1>2, <2>2, <2>3, MoveType, SlotFacts
  <2>5. w = [m EXCEPT !.doomed = @ \cup gone]
    BY <2>2
  <2> HIDE DEF w, gone
  <2>6. w.slot = world.slot /\ w.nonce = world.nonce /\ w.code = world.code
    BY <2>4, <2>5 DEF World
  <2>7. ClearedIn(w) = ClearedIn(world) /\ Lives(w)
    BY <1>2, <2>6, SameSlots, SameTaken
  <2> QED BY <1>5, <2>1, <2>7
<1>8. CASE Revert \/ Halt
  BY <1>4, <1>8 DEF Revert, Halt
<1> QED BY <1>6, <1>7, <1>8

LEMMA ResumeEarned ==
  ASSUME ExecInv, ExecInv', RefundInv, Resume
  PROVE  RefundInv'
<1> DEFINE x == Before(frames, Len(frames) + 1) + Due(result)
<1>1. /\ phase = "run" /\ frames # <<>> /\ result # None /\ result' = None
      /\ world' = WithCode(world, result) /\ steps' = steps
      /\ frames' = WithTop([Top EXCEPT !.spent = @ - result.left, !.refund = @ + Due(result)])
  BY DEF Resume, Running, Due
<1>2. /\ Top \in Frame /\ Top.refund \in Int /\ world \in World /\ Lives(world)
      /\ x \in Int /\ Due(result) \in Int /\ Earned(x, world, steps) /\ steps \in Nat
  BY <1>1, RunFacts
<1>3. PICK g : g = [Top EXCEPT !.spent = @ - result.left, !.refund = @ + Due(result)]
  OBVIOUS
<1>4. /\ g.cp = Top.cp /\ g.this = Top.this /\ g.create = Top.create
      /\ g.refund = Top.refund + Due(result)
  BY <1>2, <1>3 DEF Frame
<1>5. Due(result') = 0 /\ result'.made = {}
  BY <1>1 DEF Due, None
<1>6. g.refund \in Int /\ g.refund + Due(result') = Top.refund + Due(result) + 0
  BY <1>2, <1>4, <1>5
<1>7. ClearedIn(world') = ClearedIn(world) /\ Lives(world')
  <2>1. /\ world'.slot = world.slot /\ world'.nonce = world.nonce
        /\ \A a \in Account : a \notin result.made => world'.code[a] = world.code[a]
    BY <1>1, <1>2 DEF WithCode, World
  <2>2. \A a \in Account : Genesis.slot[a] # 0 => a \notin result.made
    BY <1>1 DEF RefundInv
  <2>3. \A a \in Account : Genesis.slot[a] # 0 /\ Taken(world, a) => Taken(world', a)
    BY <2>1, <2>2 DEF Taken
  <2> QED BY <1>2, <2>1, <2>3, SameSlots, LivesOn
<1> HIDE DEF x
<1>8. x + 0 = x /\ steps <= steps' /\ steps' \in Nat
  BY <1>1, <1>2
<1>9. Earned(x + 0, world', steps')
  BY <1>2, <1>7, <1>8, EarnedSame
<1>10. frames' = WithTop(g) /\ Due(result') \in Int
  BY <1>1, <1>3, <1>5
<1> QED BY <1>1, <1>2, <1>4, <1>5, <1>6, <1>7, <1>8, <1>9, <1>10, TopEarned DEF x

LEMMA RefundInit == Init => RefundInv
BY DEF Init, RefundInv

LEMMA RefundNext == ExecInv /\ RefundInv /\ [Next]_vars => RefundInv'
<1> SUFFICES ASSUME ExecInv, RefundInv, [Next]_vars PROVE RefundInv'
  OBVIOUS
<1>1. ExecInv'
  BY ExecNext
<1>2. Pre \subseteq Account /\ New \cup Contract \subseteq Account
  BY DEF Account
<1>3. CASE UNCHANGED vars
  BY <1>3 DEF vars, RefundInv
<1>4. ASSUME NEW v \in Values,
             \/ \E to \in Account : StartCall(to, v)
             \/ \E to \in Pre, ok \in BOOLEAN : StartPrecompile(to, v, ok)
             \/ \E a \in New \cup Contract : StartCreate(a, v)
      PROVE  RefundInv'
  BY <1>1, <1>2, <1>4, StartEarned
<1>5. ASSUME NEW v \in Values, \E a \in New \cup Contract : Create(a, v)
      PROVE  RefundInv'
  BY <1>1, <1>2, <1>5, CreateEarned
<1>6. ASSUME NEW v \in Values, NEW kind \in Kind, NEW to \in Account, NEW ask \in Ask,
             \/ Call(kind, to, v, ask) \/ CallRefused(kind, to, v, ask)
             \/ \E ok \in BOOLEAN : CallPrecompile(kind, to, v, ask, ok)
      PROVE  RefundInv'
  BY <1>1, <1>6, CallEarned
<1>7. CASE Compute \/ Fetch \/ FetchFails \/ \E v \in Values : CreateRefused(v)
  BY <1>1, <1>7, QuietEarned
<1>8. CASE \E val \in Word : Store(val)
  BY <1>1, <1>8, StoreEarnedNext
<1>9. CASE (\E code, bad \in BOOLEAN : Return(code, bad))
              \/ (\E b \in Account : SelfDestruct(b)) \/ Revert \/ Halt
  BY <1>1, <1>9, FrameEndEarned
<1>10. CASE Resume
  BY <1>1, <1>10, ResumeEarned
<1>11. CASE StepLimit \/ Finish
  BY <1>11 DEF StepLimit, Finish, RefundInv
<1>12. CASE Ended
  BY <1>12 DEF Ended, vars, RefundInv
<1> QED BY <1>3, <1>4, <1>5, <1>6, <1>7, <1>8, <1>9, <1>10, <1>11, <1>12 DEF Next

LEMMA TotalRefundIs == TotalRefund = Total(FrameRefund, Frames) + Due(result)
BY DEF TotalRefund, Total, Due

LEMMA RefundInvGives == ExecInv /\ RefundInv => RefundIsEarned
<1> SUFFICES ASSUME ExecInv, RefundInv, phase = "run" PROVE RefundIsEarned
  BY DEF RefundIsEarned
<1> DEFINE n == Len(frames)
<1>1. frames \in Seq(Frame) /\ n \in Nat /\ Frames = 1 .. n /\ (n + 1) - 1 = n
  BY DEF ExecInv, Stack, Frames
<1>2. FrameRefund = Refunds(frames)
  BY <1>1 DEF FrameRefund, Refunds
<1>3. TotalRefund = Before(frames, n + 1) + Due(result)
  BY <1>1, <1>2, TotalRefundIs DEF Before
<1>4. Earned(TotalRefund, world, steps)
  BY <1>3 DEF RefundInv
<1>5. ClearedIn(world) = Cleared
  BY DEF ClearedIn, Cleared
<1> QED BY <1>4, <1>5 DEF Earned, RefundIsEarned

\* The refund of a running transaction is what its cleared and its restored
\* slots earned, through every success and every failure of a frame.
THEOREM RefundCorrect == Spec => []RefundIsEarned
<1>1. Init => ExecInv /\ RefundInv
  BY ExecInit, RefundInit
<1>2. ExecInv /\ RefundInv /\ [Next]_vars => (ExecInv /\ RefundInv)'
  BY ExecNext, RefundNext
<1> QED BY <1>1, <1>2, RefundInvGives, PTL DEF Spec
=============================================================================
