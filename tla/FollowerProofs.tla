--------------------------- MODULE FollowerProofs ---------------------------
(***************************************************************************)
(* Proofs about Follower: what is cached is what the branch of the block   *)
(* in hand says, and the links of the tracker lead to the transaction that *)
(* wrote what the swap read, for every tree of blocks, every transactions  *)
(* and every retention.                                                    *)
(***************************************************************************)
EXTENDS Follower, TLAPS

----------------------------------------------------------------------------
(* The inductive invariant of the cache.                                   *)

\* A slot of what the block wrote so far is cached, or was not written: what is
\* fetched later is fetched as of the parent.
CacheInv ==
  /\ pinned = Parent[block]
  /\ stage \in {"pre", "wait", "again"} => ~purge
  /\ stage = "pre" => \A k \in DOMAIN cache : cache[k].cur = Value[pinned][k]
  /\ stage = "txs" /\ ~purge => \A k \in Slots \ DOMAIN cache : Writers(block, index - 1, k) = {}
  /\ stage \in {"txs", "wait"} /\ ~purge =>
       \A k \in DOMAIN cache : cache[k].cur = Before(block, index, k)
  /\ stage = "again" => DOMAIN cache = {}

----------------------------------------------------------------------------
(* The inductive invariant of the stream: each trace, sent or not, comes   *)
(* right after the one before it on its branch, or starts a block that     *)
(* replaces one of the same parent.                                        *)

\* What is in slot k after t.
Left(t, k) == IF t.block = Base THEN Value[Base][k] ELSE Before(t.block, t.i + 1, k)

Leads(t, b)    == t.n < Number[b] /\ \A k \in Plain : Left(t, k) = Value[Parent[b]][k]
Replaces(t, b) == /\ t.block \in Blocks /\ Parent[t.block] = Parent[b]
                  /\ t.n = Number[b] /\ t.i >= 1
Starts(t, b)   == Leads(t, b) \/ (Replaces(t, b) /\ Txs[b] # <<>>)

\* Transaction i of b comes right after t.
Precedes(t, b, i) == IF i = 1 THEN Starts(t, b) ELSE t.block = b /\ t.i = i - 1
Ends(t, b) == IF Txs[b] = <<>> THEN Leads(t, b) ELSE t.block = b /\ t.i = Len(Txs[b])

Follows(s, t) == IF t.block = Base THEN s.block = Base ELSE Precedes(s, t.block, t.i)

\* The trace of a whole transaction, or of what came before the first.
Placed(t) == IF t.block = Base THEN t.n = 0 /\ t.i = 0
             ELSE t.n = Number[t.block] /\ t.i \in DOMAIN Txs[t.block]
Whole(t)  == /\ Placed(t)
             /\ t.writes \cap Plain = IF t.block = Base THEN {}
                                     ELSE Txs[t.block][t.i].writes \cap Plain
             /\ t.block = Base => t.reads = {}

\* The tracker has come to s.
Spot(b, i) == [block |-> b, n |-> IF b = Base THEN 0 ELSE Number[b], i |-> i]
HasSeen(s) ==
  /\ Placed(s) /\ seen = <<s.n, s.i>>
  /\ \A k \in DOMAIN index_of \cap Plain :
       /\ s.block \in Blocks
       /\ <<index_of[k].block, index_of[k].i>> = Left(s, k)
       /\ index_of[k].n = Number[index_of[k].block]

Consecutive(s) ==
  /\ \A j \in 1 .. Len(queue) : Whole(queue[j]) /\ Follows(IF j = 1 THEN s ELSE queue[j - 1], queue[j])
  /\ Whole(open) /\ Follows(IF queue = <<>> THEN s ELSE queue[Len(queue)], open)

StreamInv ==
  sound =>
    /\ \E b \in Blocks \cup {Base} : HasSeen(Spot(b, seen[2])) /\ Consecutive(Spot(b, seen[2]))
    /\ stage = "pre" => Starts(open, block)
    /\ stage = "txs" => Precedes(open, block, index)
    /\ stage \in {"wait", "again"} => Ends(open, block)
    /\ LinksLeadToTheWriter

----------------------------------------------------------------------------
(* The tree of blocks.                                                     *)

\* A branch is its tip on top of the branch of the tip's parent.
LEMMA BranchStep ==
  ASSUME NEW b \in Blocks
  PROVE  Branch[b] = {b} \cup Branch[Parent[b]]
<1> DEFINE All == Blocks \cup {Base}
           Up  == {b} \cup Branch[Parent[b]]
<1>1. b \in All /\ Parent[b] \in All /\ b # Base BY FollowerAssumption
<1>2. Branch[Parent[b]] \subseteq All /\ Branch[b] \subseteq All BY <1>1 DEF Branch
<1>3. Parent[b] \in Branch[Parent[b]] BY <1>1 DEF Branch
<1>4. ASSUME NEW a \in Branch[Parent[b]], a # Base
      PROVE  Parent[a] \in Branch[Parent[b]]
  <2>1. a \in Blocks /\ Parent[a] \in All BY <1>2, <1>4, FollowerAssumption
  <2>2. ASSUME NEW S \in SUBSET All, Parent[b] \in S, Closed(S)
        PROVE  Parent[a] \in S
    <3>1. a \in S BY <2>2, <1>1, <1>4 DEF Branch
    <3> QED BY <3>1, <2>2, <1>4 DEF Closed
  <2> QED BY <1>1, <2>1, <2>2 DEF Branch
<1>5. Closed(Up) BY <1>3, <1>4 DEF Closed
<1>6. Branch[b] \subseteq Up
  <2>1. Up \in SUBSET All /\ b \in Up BY <1>1, <1>2
  <2> QED BY <1>1, <2>1, <1>5 DEF Branch
<1>7. ASSUME NEW a \in Up PROVE a \in Branch[b]
  <2>1. a \in All BY <1>7, <1>1, <1>2
  <2>2. ASSUME NEW S \in SUBSET All, b \in S, Closed(S) PROVE a \in S
    <3>1. Parent[b] \in S BY <2>2, <1>1 DEF Closed
    <3>2. CASE a = b BY <3>2, <2>2
    <3>3. CASE a \in Branch[Parent[b]] BY <1>1, <3>3, <3>1, <2>2 DEF Branch
    <3> QED BY <3>2, <3>3, <1>7
  <2> QED BY <1>1, <2>1, <2>2 DEF Branch
<1> QED BY <1>6, <1>7

\* No block of a branch has a higher number than its tip.
LEMMA TipIsHighest ==
  ASSUME NEW tip \in Blocks \cup {Base}, NEW a \in Branch[tip]
  PROVE  Number[a] \in Nat /\ Number[tip] \in Nat /\ Number[a] <= Number[tip]
<1> DEFINE All == Blocks \cup {Base}
           Low == {c \in All : Number[c] <= Number[tip]}
<1>1. a \in All BY DEF Branch
<1>2. Number \in [All -> Nat] BY FollowerAssumption
<1>3. ASSUME NEW c \in Low, c # Base PROVE Parent[c] \in Low
  <2>1. c \in Blocks /\ Parent[c] \in All /\ Number[c] = Number[Parent[c]] + 1
    BY <1>3, FollowerAssumption
  <2>2. Number[c] \in Nat /\ Number[Parent[c]] \in Nat /\ Number[tip] \in Nat BY <2>1, <1>2
  <2> QED BY <2>1, <2>2, <1>3
<1>4. Low \in SUBSET All /\ tip \in Low /\ Closed(Low) BY <1>2, <1>3 DEF Closed
<1>5. a \in Low BY <1>4 DEF Branch
<1> QED BY <1>1, <1>2, <1>5

\* The last writer of a slot is the transaction in hand, if it writes it.
LEMMA MaxIsLast ==
  ASSUME NEW S \in SUBSET Int, NEW i \in S, \A j \in S : j <= i
  PROVE  Max(S) = i
<1>1. \A x \in S : x >= i => x = i OBVIOUS
<1>2. \A x \in S : (\A y \in S : x >= y) <=> x = i BY <1>1
<1> QED BY <1>2, Zenon DEF Max

\* Place i of a block writes slot k last, or leaves what it finds.
LEMMA WritersStep ==
  ASSUME NEW b, NEW i \in Nat, NEW k
  PROVE  /\ (i + 1) - 1 = i
         /\ k \in Written(b, i) => Writers(b, i, k) # {} /\ Max(Writers(b, i, k)) = i
         /\ k \notin Written(b, i) => Writers(b, i, k) = Writers(b, i - 1, k)
<1>1. CASE k \in Written(b, i)
  <2>1. i \in Writers(b, i, k) /\ Writers(b, i, k) \in SUBSET Int
        /\ \A j \in Writers(b, i, k) : j <= i
    BY <1>1 DEF Writers
  <2> QED BY <1>1, <2>1, MaxIsLast
<1>2. CASE k \notin Written(b, i)
  <2>1. ASSUME NEW j \in Writers(b, i, k) PROVE j \in Writers(b, i - 1, k)
    <3>1. j \in 0 .. i /\ j # i BY <1>2 DEF Writers
    <3>2. j \in 0 .. (i - 1) BY <3>1
    <3> QED BY <3>2 DEF Writers
  <2>2. ASSUME NEW j \in Writers(b, i - 1, k) PROVE j \in Writers(b, i, k)
    <3>1. j \in 0 .. i BY DEF Writers
    <3> QED BY <3>1 DEF Writers
  <2> QED BY <2>1, <2>2, <1>2
<1> QED BY <1>1, <1>2

\* What place i leaves is what it found, but for its own writes.
LEMMA BeforeStep ==
  ASSUME NEW b, NEW i \in Nat, NEW k
  PROVE  Before(b, i + 1, k) = IF k \in Written(b, i) THEN <<b, i>> ELSE Before(b, i, k)
BY WritersStep DEF Before

\* The places of a block: pre_block, its transactions, post_block.
LEMMA Places ==
  ASSUME NEW b \in Blocks
  PROVE  /\ Over(b) \in Nat \ {0} /\ Over(b) = Len(Txs[b]) + 1
         /\ Written(b, 0) = Ring[b] /\ Written(b, Over(b)) = Dequeued[b]
         /\ \A i \in DOMAIN Txs[b] : i \in Nat \ {0} /\ Written(b, i) = Txs[b][i].writes
<1>1. Len(Txs[b]) \in Nat /\ DOMAIN Txs[b] = 1 .. Len(Txs[b]) BY FollowerAssumption
<1> QED BY <1>1 DEF Over, Written

\* pre_block finds what the parent left, and the first transaction what
\* pre_block left.
LEMMA BeforeFirst ==
  ASSUME NEW b \in Blocks, NEW k
  PROVE  /\ Writers(b, 0 - 1, k) = {}
         /\ Before(b, 0, k) = Value[Parent[b]][k]
         /\ Before(b, 1, k) = IF k \in Ring[b] THEN <<b, 0>> ELSE Value[Parent[b]][k]
<1>1. Writers(b, 0 - 1, k) = {} BY DEF Writers
<1>2. Before(b, 0, k) = Value[Parent[b]][k] BY <1>1 DEF Before
<1>3. Before(b, 0 + 1, k) = IF k \in Written(b, 0) THEN <<b, 0>> ELSE Before(b, 0, k)
  BY BeforeStep
<1>4. 0 + 1 = 1 /\ Written(b, 0) = Ring[b] BY Places
<1> QED BY <1>1, <1>2, <1>3, <1>4

\* What a block leaves is what post_block leaves.
LEMMA ValueStep ==
  ASSUME NEW b \in Blocks, NEW k \in Slots
  PROVE  Value[b][k] = Before(b, Over(b) + 1, k)
<1> DEFINE n == Over(b)
<1>1. n \in Nat /\ (n + 1) - 1 = n /\ Parent[b] \in Blocks \cup {Base} BY Places, FollowerAssumption
<1>2. Branch[b] = {b} \cup Branch[Parent[b]] BY BranchStep
<1>3. CASE Writers(b, n, k) = {}
  <2>1. Writing(b, k) = Writing(Parent[b], k) BY <1>2, <1>3 DEF Writing
  <2>2. Last(b, k) = Last(Parent[b], k) BY <2>1 DEF Last
  <2>3. Value[b][k] = Value[Parent[b]][k] BY <1>1, <2>1, <2>2 DEF Value
  <2> QED BY <2>3, <1>1, <1>3 DEF Before
<1>4. CASE Writers(b, n, k) # {}
  <2>1. b \in Writing(b, k) BY <1>2, <1>4 DEF Writing
  <2>2. Number[b] \in Nat /\ Number[Parent[b]] \in Nat /\ Number[b] = Number[Parent[b]] + 1
    BY <1>1, FollowerAssumption
  <2>3. ASSUME NEW c \in Writing(b, k), c # b PROVE Number[c] \in Nat /\ Number[c] < Number[b]
    <3>1. c \in Branch[Parent[b]] BY <2>3, <1>2 DEF Writing
    <3>2. Number[c] \in Nat /\ Number[c] <= Number[Parent[b]] BY <3>1, <1>1, TipIsHighest
    <3> QED BY <3>2, <2>2
  <2>4. \A c \in Writing(b, k) : Number[c] <= Number[b] BY <2>2, <2>3
  <2>5. \A c \in Writing(b, k) : (\A d \in Writing(b, k) : Number[d] <= Number[c]) => c = b
    <3>1. SUFFICES ASSUME NEW c \in Writing(b, k), Number[b] <= Number[c], c # b PROVE FALSE
      BY <2>1
    <3> QED BY <3>1, <2>2, <2>3
  <2>6. Last(b, k) = b BY <2>1, <2>4, <2>5 DEF Last
  <2>7. Value[b][k] = <<b, Max(Writers(b, n, k))>> BY <2>1, <2>6 DEF Value
  <2> QED BY <2>7, <1>1, <1>4 DEF Before
<1> QED BY <1>3, <1>4

\* A plain slot comes to the first transaction from the parent, and from the
\* last one to the next block.
LEMMA PlainStep ==
  ASSUME NEW b \in Blocks, NEW k \in Plain
  PROVE  /\ Before(b, 1, k) = Value[Parent[b]][k]
         /\ Value[b][k] = Before(b, Len(Txs[b]) + 1, k)
<1>1. k \in Slots /\ k \notin Ring[b] /\ k \notin Dequeued[b] BY FollowerAssumption DEF Plain
<1>2. Over(b) \in Nat /\ Over(b) = Len(Txs[b]) + 1 /\ Written(b, Over(b)) = Dequeued[b] BY Places
<1>3. Value[b][k] = Before(b, Over(b) + 1, k) BY <1>1, ValueStep
<1>4. Before(b, Over(b) + 1, k) = Before(b, Over(b), k) BY <1>1, <1>2, BeforeStep
<1> QED BY <1>1, <1>2, <1>3, <1>4, BeforeFirst

----------------------------------------------------------------------------
(* Types.                                                                  *)

LEMMA TxType ==
  ASSUME NEW b \in Blocks
  PROVE  /\ Len(Txs[b]) \in Nat /\ DOMAIN Txs[b] = 1 .. Len(Txs[b])
         /\ Txs[b] \in Seq([reads : SUBSET Slots, writes : SUBSET Slots, swap : BOOLEAN])
         /\ \A i \in DOMAIN Txs[b] : /\ Txs[b][i].reads \subseteq Slots
                                      /\ Txs[b][i].writes \subseteq Slots /\ Txs[b][i].swap \in BOOLEAN
<1> DEFINE TxSet == [reads : SUBSET Slots, writes : SUBSET Slots, swap : BOOLEAN]
<1>1. Txs[b] \in Seq(TxSet) BY FollowerAssumption
<1>2. \A t \in TxSet : t.reads \subseteq Slots /\ t.writes \subseteq Slots /\ t.swap \in BOOLEAN
  OBVIOUS
<1> HIDE DEF TxSet
<1>3. Len(Txs[b]) \in Nat /\ DOMAIN Txs[b] = 1 .. Len(Txs[b])
      /\ \A i \in DOMAIN Txs[b] : Txs[b][i] \in TxSet
  BY <1>1
<1> QED BY <1>1, <1>2, <1>3 DEF TxSet

LEMMA BlockType ==
  ASSUME NEW b \in Blocks
  PROVE  /\ b # Base /\ Parent[b] \in Blocks \cup {Base} /\ Number[b] \in Nat
         /\ Number[Parent[b]] \in Nat /\ Number[b] = Number[Parent[b]] + 1
BY FollowerAssumption

LEMMA TraceType ==
  ASSUME NEW b \in Blocks, NEW i \in Nat, NEW r \in SUBSET Slots, NEW w \in SUBSET Slots,
         NEW s \in BOOLEAN
  PROVE  Trace(b, i, r, w, s) \in AllTraces /\ Trace(b, i, r, w, s) # NoTrace
BY BlockType DEF Trace, AllTraces, NoTrace

LEMMA TagType ==
  ASSUME TypeOK, NEW t \in AllTraces, Tag(t)
  PROVE  open' \in AllTraces /\ queue' \in Seq(AllTraces)
BY DEF TypeOK, Tag

LEMMA AddsType ==
  ASSUME TypeOK, NEW ks \in SUBSET Slots, Adds(ks)
  PROVE  open' \in AllTraces
BY DEF TypeOK, AllTraces, Adds

LEMMA SystemSlots ==
  ASSUME NEW b \in Blocks
  PROVE  /\ Ring[b] \subseteq Slots /\ Dequeued[b] \subseteq Queue /\ Queue \subseteq Slots
         /\ \A ks \in Short(Ring[b]) : ks \subseteq Slots
         /\ \A ks \in Short(Dequeued[b]) : ks \subseteq Slots
BY FollowerAssumption DEF Short

LEMMA TypeInit == Init => TypeOK
<1> SUFFICES ASSUME Init PROVE TypeOK OBVIOUS
<1>1. NoTrace \in AllTraces BY DEF NoTrace, AllTraces
<1>2. open \in AllTraces /\ queue \in Seq(AllTraces) /\ seen \in Nat \X Nat BY <1>1 DEF Init
<1>3. DOMAIN cache = {} /\ DOMAIN index_of = {} BY DEF Init
<1>4. Parent[canon] \in Blocks \cup {Base} BY BlockType DEF Init
<1>5. moves \in 0 .. MaxMoves /\ fails \in 0 .. MaxFails BY FollowerAssumption DEF Init
<1> QED BY <1>2, <1>3, <1>4, <1>5 DEF Init, TypeOK

LEMMA TypeStep == TypeOK /\ [Next]_vars => TypeOK'
<1> SUFFICES ASSUME TypeOK, [Next]_vars PROVE TypeOK' OBVIOUS
<1>0. MaxMoves \in Nat /\ MaxFails \in Nat BY FollowerAssumption
<1> USE <1>0
<1>1. CASE Moves BY <1>1 DEF TypeOK, Moves, replayVars, trackerVars
<1>2. CASE PreBlock
  <2>1. Ring[block] \subseteq Slots BY SystemSlots DEF TypeOK
  <2>2. open' \in AllTraces BY <1>2, <2>1, AddsType DEF PreBlock
  <2>3. DOMAIN cache' \subseteq Slots BY <1>2, <2>1 DEF PreBlock, Stamped, TypeOK
  <2>4. 1 \in 1 .. Over(block) BY Places DEF TypeOK
  <2> QED BY <1>2, <2>2, <2>3, <2>4 DEF TypeOK, PreBlock, nodeVars, trackerVars
<1>3. CASE PreBlockFails
  <2>1. PICK ks \in Short(Ring[block]) : cache' = Stamped(ks) /\ Adds(ks)
    BY <1>3 DEF PreBlockFails
  <2>2. ks \subseteq Slots BY <2>1, SystemSlots DEF TypeOK
  <2>3. open' \in AllTraces BY <2>1, <2>2, AddsType
  <2>4. DOMAIN cache' \subseteq Slots BY <2>1, <2>2 DEF Stamped, TypeOK
  <2>5. 1 \in 1 .. Over(block) BY Places DEF TypeOK
  <2> QED BY <1>3, <2>3, <2>4, <2>5 DEF TypeOK, PreBlockFails, nodeVars, trackerVars
<1>4. CASE Executes
  <2> DEFINE t == Txs[block][index]
  <2>1. index \in DOMAIN Txs[block] /\ index + 1 \in 1 .. Over(block) /\ index \in Nat
    BY <1>4, TxType DEF TypeOK, Executes, Over
  <2>2. t.reads \subseteq Slots /\ t.writes \subseteq Slots /\ t.swap \in BOOLEAN
    BY <2>1, TxType DEF TypeOK
  <2>3. open' \in AllTraces /\ queue' \in Seq(AllTraces)
    <3> DEFINE tr == Trace(block, index, t.reads, t.writes, t.swap)
    <3>1. t.reads \in SUBSET Slots /\ t.writes \in SUBSET Slots BY <2>2
    <3>2. block \in Blocks /\ index \in Nat BY <2>1 DEF TypeOK
    <3>3. tr \in AllTraces BY <2>2, <3>1, <3>2, TraceType
    <3>4. Tag(tr) BY <1>4 DEF Executes
    <3> HIDE DEF tr
    <3> QED BY <3>3, <3>4, TagType
  <2>4. DOMAIN cache' \subseteq Slots
    <3>1. DOMAIN cache' = DOMAIN cache \cup (t.reads \cup t.writes)
      BY <1>4, Zenon DEF Executes, Reset, Put, Fetched
    <3>2. DOMAIN cache \subseteq Slots BY DEF TypeOK
    <3>3. t.reads \cup t.writes \subseteq Slots BY <2>2
    <3> QED BY <3>1, <3>2, <3>3, Zenon
  <2>5. /\ index' = index + 1 /\ stage = "txs"
        /\ UNCHANGED <<nodeVars, block, stage, pinned, purge, trackerVars, fails, sound>>
    BY <1>4 DEF Executes
  <2> HIDE DEF t
  <2> QED BY <2>1, <2>3, <2>4, <2>5 DEF TypeOK, nodeVars, trackerVars
<1>5. CASE ExecutionFails
  <2> DEFINE t == Txs[block][index]
  <2>1. index \in DOMAIN Txs[block] /\ index + 1 \in 1 .. Over(block) /\ index \in Nat
    BY <1>5, TxType DEF TypeOK, ExecutionFails, Over
  <2>2. PICK ks \in SUBSET (t.reads \cup t.writes) :
          /\ cache' = Reset(Put(Fetched(ks), ks \cap t.writes, <<block, index>>))
          /\ Tag(Trace(block, index, ks \cap t.reads, ks \cap t.writes, FALSE))
    BY <1>5 DEF ExecutionFails
  <2>3. t.reads \subseteq Slots /\ t.writes \subseteq Slots BY <2>1, TxType DEF TypeOK
  <2>4. open' \in AllTraces /\ queue' \in Seq(AllTraces)
    <3> DEFINE tr == Trace(block, index, ks \cap t.reads, ks \cap t.writes, FALSE)
    <3>1. ks \cap t.reads \in SUBSET Slots /\ ks \cap t.writes \in SUBSET Slots BY <2>3
    <3>2. block \in Blocks /\ index \in Nat BY <2>1 DEF TypeOK
    <3>3. tr \in AllTraces BY <3>1, <3>2, TraceType
    <3>4. Tag(tr) BY <2>2
    <3> HIDE DEF tr
    <3> QED BY <3>3, <3>4, TagType
  <2>5. DOMAIN cache' \subseteq Slots
    <3>1. DOMAIN cache' = DOMAIN cache \cup ks BY <2>2 DEF Reset, Put, Fetched
    <3>2. DOMAIN cache \subseteq Slots BY DEF TypeOK
    <3> HIDE DEF t
    <3> QED BY <2>3, <3>1, <3>2
  <2>6. /\ fails' = fails + 1 /\ fails < MaxFails /\ purge' = TRUE /\ sound' = FALSE
        /\ index' = index + 1 /\ stage = "txs"
        /\ UNCHANGED <<nodeVars, block, stage, pinned, trackerVars>>
    BY <1>5 DEF ExecutionFails
  <2>7. fails' \in 0 .. MaxFails BY <2>6 DEF TypeOK
  <2> HIDE DEF t
  <2> QED BY <2>1, <2>4, <2>5, <2>6, <2>7 DEF TypeOK, nodeVars, trackerVars
<1>6. CASE PostBlock
  <2>1. /\ index = Over(block) /\ stage' = "wait" /\ index' = index + 1 /\ purge' = FALSE
        /\ UNCHANGED <<nodeVars, block, pinned, queue, trackerVars, sound>>
    BY <1>6 DEF PostBlock
  <2>2. block \in Blocks BY DEF TypeOK
  <2>3. PICK ks \in SUBSET Slots : Adds(ks)
    <3>1. Dequeued[block] \in SUBSET Slots /\ \A ks \in Short(Dequeued[block]) : ks \in SUBSET Slots
      BY <2>2, SystemSlots
    <3> QED BY <1>6, <3>1 DEF PostBlock
  <2>4. open' \in AllTraces BY <2>3, AddsType
  <2>5. DOMAIN cache' \subseteq Slots
    <3>1. cache' = <<>> \/ cache' = TakenOff BY <1>6 DEF PostBlock
    <3>2. CASE cache' = <<>> BY <3>2
    <3>3. CASE cache' = TakenOff
      <4>1. DOMAIN cache' = DOMAIN cache \cup Queue BY <3>3, Zenon DEF TakenOff, Put, Fetched
      <4> QED BY <2>2, <4>1, SystemSlots DEF TypeOK
    <3> QED BY <3>1, <3>2, <3>3
  <2>6. fails' \in 0 .. MaxFails BY <1>6 DEF PostBlock, TypeOK
  <2> QED BY <2>1, <2>2, <2>4, <2>5, <2>6 DEF TypeOK, nodeVars, trackerVars
<1>7. CASE NextTip
  <2>1. PICK next \in At(canon, Number[block] + 1) :
          IF Parent[next] = block
          THEN block' = next /\ pinned' = Parent[next] /\ stage' = "pre" /\ UNCHANGED cache
          ELSE cache' = <<>> /\ stage' = "again" /\ UNCHANGED <<block, pinned>>
    BY <1>7 DEF NextTip
  <2>2. block' \in Blocks /\ pinned' \in Blocks \cup {Base} BY <2>1, BlockType DEF At, TypeOK
  <2>3. stage' \in {"pre", "again"} /\ DOMAIN cache' \subseteq Slots
    BY <2>1 DEF TypeOK
  <2>4. UNCHANGED <<nodeVars, index, purge, open, queue, trackerVars, fails, sound>>
    BY <1>7 DEF NextTip
  <2> QED BY <2>2, <2>3, <2>4 DEF TypeOK, nodeVars, trackerVars
<1>8. CASE Reorganises
  <2>1. block' \in Blocks /\ pinned' \in Blocks \cup {Base} /\ sound' \in BOOLEAN
    BY <1>8, BlockType DEF Reorganises, At, TypeOK
  <2> QED BY <1>8, <2>1 DEF TypeOK, Reorganises, nodeVars, trackerVars
<1>9. CASE Stops BY <1>9 DEF TypeOK, Stops, nodeVars, trackerVars
<1>10. CASE Observes
  <2> DEFINE t == Head(queue)
  <2>1. t \in AllTraces /\ queue' \in Seq(AllTraces) BY <1>10 DEF Observes, TypeOK
  <2>2. t.n \in Nat /\ t.i \in Nat /\ t.writes \subseteq Slots BY <2>1 DEF AllTraces
  <2>3. seen' \in Nat \X Nat /\ DOMAIN index_of' = Kept(t) \cup t.writes
    BY <1>10, <2>2 DEF Observes
  <2>4. DOMAIN index_of' \subseteq Slots BY <2>2, <2>3 DEF Kept, TypeOK
  <2> QED BY <1>10, <2>1, <2>3, <2>4 DEF TypeOK, Observes, nodeVars, replayVars
<1>11. CASE Done BY <1>11 DEF TypeOK, Done, vars, nodeVars, replayVars, trackerVars
<1>12. CASE UNCHANGED vars BY <1>12 DEF TypeOK, vars, nodeVars, replayVars, trackerVars
<1> QED
  BY <1>1, <1>2, <1>3, <1>4, <1>5, <1>6, <1>7, <1>8, <1>9, <1>10, <1>11, <1>12 DEF Next, Replay

\* Every variable keeps to its type: what the follower carries from block to
\* block, the traces it sends and what the tracker indexes (detect.rs:112-338).
THEOREM TypeCorrect == Spec => []TypeOK
<1>1. Init => TypeOK BY TypeInit
<1>2. TypeOK /\ [Next]_vars => TypeOK' BY TypeStep
<1> QED BY <1>1, <1>2, PTL DEF Spec

----------------------------------------------------------------------------
(* The cache.                                                              *)

LEMMA CacheInit == Init => CacheInv
<1> SUFFICES ASSUME Init PROVE CacheInv OBVIOUS
<1>1. DOMAIN cache = {} BY DEF Init
<1> QED BY <1>1 DEF Init, CacheInv

\* c is the cache with ks fetched into it and v written to ws.
Holds(c, ks, ws, v) ==
  /\ DOMAIN c = DOMAIN cache \cup ks
  /\ \A k \in DOMAIN c :
       c[k].cur = IF k \in ws THEN v
                  ELSE IF k \in DOMAIN cache THEN cache[k].cur ELSE Value[pinned][k]

\* What is fetched and written, by a transaction or by post_block.
LEMMA CacheAfter ==
  ASSUME NEW ks \in SUBSET Slots, NEW ws \in SUBSET ks, NEW v,
         NEW c \in {Put(Fetched(ks), ws, v), Reset(Put(Fetched(ks), ws, v))}
  PROVE  Holds(c, ks, ws, v)
<1> DEFINE F == Fetched(ks)
           P == Put(F, ws, v)
<1>1. DOMAIN F = DOMAIN cache \cup ks
      /\ \A k \in DOMAIN F : F[k].cur = IF k \in DOMAIN cache THEN cache[k].cur ELSE Value[pinned][k]
  BY DEF Fetched
<1> HIDE DEF F
<1>2. DOMAIN P = DOMAIN F
      /\ \A k \in DOMAIN F : P[k] = IF k \in ws THEN [cur |-> v, org |-> F[k].org] ELSE F[k]
  BY DEF Put
<1>3. \A k \in DOMAIN F : P[k].cur = IF k \in ws THEN v ELSE F[k].cur
  BY <1>2
<1> HIDE DEF P
<1>4. DOMAIN c = DOMAIN P /\ \A k \in DOMAIN P : c[k].cur = P[k].cur
  <2>1. CASE c = P BY <2>1
  <2>2. CASE c = Reset(P)
    <3>1. DOMAIN c = DOMAIN P /\ \A k \in DOMAIN P : c[k] = [cur |-> P[k].cur, org |-> P[k].cur]
      BY <2>2 DEF Reset
    <3> QED BY <3>1
  <2> QED BY <2>1, <2>2 DEF F, P
<1> QED BY <1>1, <1>2, <1>3, <1>4 DEF Holds

LEMMA CacheStep == TypeOK /\ TypeOK' /\ CacheInv /\ [Next]_vars => CacheInv'
<1> SUFFICES ASSUME TypeOK, TypeOK', CacheInv, [Next]_vars PROVE CacheInv' OBVIOUS
<1>1. CASE Moves BY <1>1 DEF CacheInv, Moves, replayVars
<1>2. CASE PreBlock
  <2>1. block \in Blocks /\ pinned = Parent[block] BY DEF TypeOK, CacheInv
  <2>2. /\ DOMAIN cache' = DOMAIN cache \cup Ring[block]
        /\ \A k \in DOMAIN cache' :
             cache'[k].cur = IF k \in Ring[block] THEN <<block, 0>> ELSE cache[k].cur
    BY <1>2 DEF PreBlock, Stamped
  <2>3. \A k : /\ Writers(block, 0 - 1, k) = {}
              /\ Before(block, 1, k) = IF k \in Ring[block] THEN <<block, 0>> ELSE Value[pinned][k]
    BY <2>1, BeforeFirst
  <2>4. stage = "pre" /\ stage' = "txs" /\ index' = 1 /\ 1 - 1 = 0 /\ UNCHANGED <<block, pinned, purge>>
    BY <1>2 DEF PreBlock
  <2>5. \A k \in Slots \ DOMAIN cache' : Writers(block', index' - 1, k) = {}
    <3>1. \A k \in Slots \ DOMAIN cache' : k \notin Written(block, 0) BY <2>1, <2>2, Places
    <3>2. \A k \in Slots \ DOMAIN cache' : Writers(block, 0, k) = Writers(block, 0 - 1, k)
      BY <3>1, WritersStep
    <3> QED BY <2>3, <2>4, <3>2
  <2>6. \A k \in DOMAIN cache' : cache'[k].cur = Before(block', index', k)
    BY <2>1, <2>2, <2>3, <2>4 DEF CacheInv
  <2> QED BY <2>1, <2>4, <2>5, <2>6 DEF CacheInv
<1>3. CASE PreBlockFails BY <1>3 DEF CacheInv, PreBlockFails
<1>4. CASE Executes
  <2> DEFINE t == Txs[block][index]
  <2>0. block \in Blocks /\ index \in 1 .. Len(Txs[block]) BY <1>4, TxType DEF TypeOK, Executes
  <2>1. index \in DOMAIN Txs[block] /\ block \in Blocks /\ index \in Nat /\ (index + 1) - 1 = index
    BY <2>0, TxType
  <2>9. \A k : Before(block, index + 1, k) = IF k \in t.writes THEN <<block, index>> ELSE Before(block, index, k)
    BY <2>1, BeforeStep, Places
  <2>2. t.reads \cup t.writes \in SUBSET Slots /\ t.writes \in SUBSET (t.reads \cup t.writes)
    BY <2>1, TxType
  <2> HIDE DEF t
  <2>3. /\ DOMAIN cache' = DOMAIN cache \cup (t.reads \cup t.writes)
        /\ \A k \in DOMAIN cache' :
             cache'[k].cur = IF k \in t.writes THEN <<block, index>>
                             ELSE IF k \in DOMAIN cache THEN cache[k].cur ELSE Value[pinned][k]
    <3>1. cache' = Reset(Put(Fetched(t.reads \cup t.writes), t.writes, <<block, index>>))
      BY <1>4 DEF Executes, t
    <3> DEFINE ks == t.reads \cup t.writes
               ws == t.writes
               v  == <<block, index>>
    <3>2. ks \in SUBSET Slots /\ ws \in SUBSET ks
          /\ cache' \in {Put(Fetched(ks), ws, v), Reset(Put(Fetched(ks), ws, v))}
      BY <3>1, <2>2
    <3> HIDE DEF ks, ws, v
    <3>3. Holds(cache', ks, ws, v) BY <3>2, CacheAfter
    <3> QED BY <3>3 DEF Holds, ks, ws, v
  <2>4. ASSUME ~purge, NEW k \in DOMAIN cache'
        PROVE  cache'[k].cur = Before(block, index + 1, k)
    <3>1. CASE k \in t.writes BY <3>1, <2>3, <2>9
    <3>2. CASE k \notin t.writes /\ k \in DOMAIN cache
      BY <1>4, <3>2, <2>3, <2>4, <2>9 DEF CacheInv, Executes
    <3>3. CASE k \notin t.writes /\ k \notin DOMAIN cache
      <4>1. Before(block, index, k) = Value[pinned][k]
        <5>1. k \in Slots BY DEF TypeOK
        <5> QED BY <1>4, <3>3, <2>4, <5>1 DEF CacheInv, Executes, Before
      <4> QED BY <3>3, <4>1, <2>3, <2>9
    <3> QED BY <3>1, <3>2, <3>3
  <2>5. ASSUME ~purge, NEW k \in Slots \ DOMAIN cache' PROVE Writers(block, index, k) = {}
    <3>1. k \notin t.writes /\ k \notin DOMAIN cache BY <2>3, <2>5
    <3>2. Writers(block, index, k) = Writers(block, index - 1, k) BY <3>1, <2>1, WritersStep, Places DEF t
    <3> QED BY <1>4, <3>1, <3>2, <2>5 DEF CacheInv, Executes
  <2> QED BY <1>4, <2>1, <2>3, <2>4, <2>5 DEF CacheInv, Executes
<1>5. CASE ExecutionFails BY <1>5 DEF CacheInv, ExecutionFails
<1>6. CASE PostBlock
  <2>1. block \in Blocks /\ Over(block) \in Nat /\ Written(block, Over(block)) = Dequeued[block]
    BY Places DEF TypeOK
  <2>2. /\ index = Over(block) /\ stage = "txs" /\ stage' = "wait" /\ index' = index + 1
        /\ ~purge' /\ UNCHANGED <<block, pinned>>
    BY <1>6 DEF PostBlock
  <2>3. cache' = <<>> \/ (cache' = TakenOff /\ ~purge) BY <1>6 DEF PostBlock, TypeOK
  <2>4. CASE cache' = <<>>
    <3>1. DOMAIN cache' = {} BY <2>4
    <3> QED BY <2>2, <3>1 DEF CacheInv
  <2>5. CASE cache' = TakenOff /\ ~purge
    <3>1. /\ DOMAIN cache' = DOMAIN cache \cup Queue
          /\ \A k \in DOMAIN cache' :
               cache'[k].cur = IF k \in Dequeued[block] THEN <<block, index>>
                               ELSE IF k \in DOMAIN cache THEN cache[k].cur ELSE Value[pinned][k]
      <4> DEFINE ks == Queue
                 ws == Dequeued[block]
                 v  == <<block, index>>
      <4>1. ks \in SUBSET Slots /\ ws \in SUBSET ks
            /\ cache' \in {Put(Fetched(ks), ws, v), Reset(Put(Fetched(ks), ws, v))}
        BY <2>1, <2>5, SystemSlots DEF TakenOff
      <4> HIDE DEF ks, ws, v
      <4>2. Holds(cache', ks, ws, v) BY <4>1, CacheAfter
      <4> QED BY <4>2 DEF Holds, ks, ws, v
    <3>2. \A k : Before(block, index + 1, k) =
                   IF k \in Dequeued[block] THEN <<block, index>> ELSE Before(block, index, k)
      BY <2>1, <2>2, BeforeStep
    <3>3. ASSUME NEW k \in DOMAIN cache' PROVE cache'[k].cur = Before(block, index + 1, k)
      <4>1. CASE k \in Dequeued[block] BY <3>1, <3>2, <4>1
      <4>2. CASE k \notin Dequeued[block] /\ k \in DOMAIN cache
        <5>1. cache[k].cur = Before(block, index, k) BY <2>2, <2>5, <4>2 DEF CacheInv
        <5> QED BY <3>1, <3>2, <4>2, <5>1
      <4>3. CASE k \notin Dequeued[block] /\ k \notin DOMAIN cache
        <5>1. k \in Slots BY DEF TypeOK
        <5>2. Writers(block, index - 1, k) = {} BY <2>2, <2>5, <4>3, <5>1 DEF CacheInv
        <5>3. Before(block, index, k) = Value[pinned][k] BY <5>2 DEF Before, CacheInv
        <5> QED BY <3>1, <3>2, <4>3, <5>3
      <4> QED BY <4>1, <4>2, <4>3
    <3> QED BY <2>2, <3>3 DEF CacheInv
  <2> QED BY <2>3, <2>4, <2>5
<1>7. CASE NextTip
  <2>1. PICK next \in At(canon, Number[block] + 1) :
          IF Parent[next] = block
          THEN block' = next /\ pinned' = Parent[next] /\ stage' = "pre" /\ UNCHANGED cache
          ELSE cache' = <<>> /\ stage' = "again" /\ UNCHANGED <<block, pinned>>
    BY <1>7 DEF NextTip
  <2>2. stage = "wait" /\ ~purge /\ purge' = purge BY <1>7 DEF NextTip, CacheInv
  <2>3. CASE Parent[next] = block
    <3>1. index = Over(block) + 1 /\ DOMAIN cache \subseteq Slots BY <2>2 DEF TypeOK
    <3>2. \A k \in Slots : Value[block][k] = Before(block, Over(block) + 1, k)
      BY ValueStep DEF TypeOK
    <3> QED BY <2>1, <2>2, <2>3, <3>1, <3>2 DEF CacheInv
  <2>4. CASE Parent[next] # block
    <3>1. DOMAIN cache' = {} /\ stage' = "again" /\ block' = block /\ pinned' = pinned BY <2>1, <2>4
    <3> QED BY <2>2, <3>1 DEF CacheInv
  <2> QED BY <2>3, <2>4
<1>8. CASE Reorganises BY <1>8 DEF CacheInv, Reorganises
<1>9. CASE Stops BY <1>9 DEF CacheInv, Stops
<1>10. CASE Observes BY <1>10 DEF CacheInv, Observes, replayVars
<1>11. CASE Done BY <1>11 DEF CacheInv, Done, vars, replayVars
<1>12. CASE UNCHANGED vars BY <1>12 DEF CacheInv, vars, replayVars
<1> QED
  BY <1>1, <1>2, <1>3, <1>4, <1>5, <1>6, <1>7, <1>8, <1>9, <1>10, <1>11, <1>12 DEF Next, Replay

LEMMA CacheAlways == Spec => [](TypeOK /\ CacheInv)
<1>1. Init => TypeOK /\ CacheInv BY TypeInit, CacheInit
<1>2. TypeOK /\ CacheInv /\ [Next]_vars => (TypeOK /\ CacheInv)' BY TypeStep, CacheStep
<1> QED BY <1>1, <1>2, PTL DEF Spec

\* Reorganisations, failures and what the node has made of its chain meanwhile
\* do not get into the cache: it holds what the branch of the block in hand
\* says, at every transaction of a block in which nothing failed (detect.rs:306-331).
THEOREM CacheCorrect == Spec => []CacheIsOfItsBranch
<1>1. CacheInv => CacheIsOfItsBranch BY DEF CacheInv, CacheIsOfItsBranch
<1> QED BY <1>1, CacheAlways, PTL

----------------------------------------------------------------------------
(* The stream of traces.                                                   *)

\* Where a trace stands is its block, number and index.
LEMMA SamePlace ==
  ASSUME NEW s, NEW t, s.block = t.block, s.n = t.n, s.i = t.i
  PROVE  /\ \A k : Left(s, k) = Left(t, k)
         /\ \A b : /\ Starts(s, b) <=> Starts(t, b)
                   /\ Ends(s, b) <=> Ends(t, b)
         /\ \A b, i : Precedes(s, b, i) <=> Precedes(t, b, i)
         /\ \A x : /\ Follows(s, x) <=> Follows(t, x)
                   /\ Follows(x, s) <=> Follows(x, t)
         /\ Placed(s) <=> Placed(t)
<1>1. \A k : Left(s, k) = Left(t, k) BY DEF Left
<1>2. \A b : Leads(s, b) <=> Leads(t, b) BY <1>1 DEF Leads
<1>3. \A b : Replaces(s, b) <=> Replaces(t, b) BY DEF Replaces
<1>4. \A b : Starts(s, b) <=> Starts(t, b) BY <1>2, <1>3 DEF Starts
<1>5. \A b : Ends(s, b) <=> Ends(t, b) BY <1>2 DEF Ends
<1>6. \A b, i : Precedes(s, b, i) <=> Precedes(t, b, i) BY <1>4 DEF Precedes
<1>7. \A x : Follows(s, x) <=> Follows(t, x) BY <1>6 DEF Follows
<1>8. \A x : Follows(x, s) <=> Follows(x, t) BY DEF Follows
<1>9. Placed(s) <=> Placed(t) BY DEF Placed
<1> QED BY <1>1, <1>4, <1>5, <1>6, <1>7, <1>8, <1>9

\* pre_block and post_block add to the trace that is open, and not to its place.
Touched == Queue \cup UNION {Ring[b] : b \in Blocks}
More    == open' = open \/ \E ks \in SUBSET Touched : Adds(ks)

LEMMA SystemWrites ==
  ASSUME TypeOK, More
  PROVE  /\ open'.block = open.block /\ open'.n = open.n /\ open'.i = open.i
         /\ Whole(open) => Whole(open)'
<1>1. CASE open' = open BY <1>1 DEF Whole, Placed
<1>2. ASSUME NEW ks \in SUBSET Touched, Adds(ks)
      PROVE  /\ open'.block = open.block /\ open'.n = open.n /\ open'.i = open.i
             /\ Whole(open) => Whole(open)'
  <2>1. /\ open'.block = open.block /\ open'.n = open.n /\ open'.i = open.i
        /\ open'.reads = open.reads /\ open'.writes = open.writes \cup ks
    BY <1>2 DEF TypeOK, AllTraces, Adds
  <2>2. ks \cap Plain = {} BY DEF Plain, Touched
  <2>3. open'.writes \cap Plain = open.writes \cap Plain BY <2>1, <2>2
  <2>4. Placed(open) => Placed(open)' BY <2>1 DEF Placed
  <2> QED BY <2>1, <2>3, <2>4 DEF Whole
<1> QED BY <1>1, <1>2 DEF More

LEMMA SystemTouches ==
  ASSUME NEW b \in Blocks
  PROVE  /\ Ring[b] \in SUBSET Touched /\ Dequeued[b] \in SUBSET Touched
         /\ \A ks \in Short(Ring[b]) : ks \in SUBSET Touched
         /\ \A ks \in Short(Dequeued[b]) : ks \in SUBSET Touched
BY SystemSlots DEF Touched, Short

\* What the stream was up to is kept by a step that leaves the places alone.
LEMMA StreamKept ==
  ASSUME TypeOK, sound, StreamInv, UNCHANGED <<queue, seen, index_of, links>>, More
  PROVE  /\ \E b \in Blocks \cup {Base} : (HasSeen(Spot(b, seen[2])) /\ Consecutive(Spot(b, seen[2])))'
         /\ LinksLeadToTheWriter'
         /\ open'.block = open.block /\ open'.n = open.n /\ open'.i = open.i
<1>1. open'.block = open.block /\ open'.n = open.n /\ open'.i = open.i
      /\ (Whole(open) => Whole(open'))
  BY SystemWrites DEF Whole, Placed
<1>2. \A x : Follows(x, open') <=> Follows(x, open) BY <1>1, SamePlace
<1>3. PICK b \in Blocks \cup {Base} : HasSeen(Spot(b, seen[2])) /\ Consecutive(Spot(b, seen[2]))
  BY DEF StreamInv
<1>4. (HasSeen(Spot(b, seen[2])) /\ Consecutive(Spot(b, seen[2])))'
  BY <1>1, <1>2, <1>3 DEF HasSeen, Consecutive, Whole, Placed
<1>5. LinksLeadToTheWriter' BY DEF StreamInv, LinksLeadToTheWriter
<1> QED BY <1>1, <1>3, <1>4, <1>5

LEMMA StreamInit == Init => StreamInv
<1> SUFFICES ASSUME Init PROVE StreamInv OBVIOUS
<1>1. open = NoTrace /\ open.block = Base /\ open.n = 0 /\ open.i = 0
      /\ open.writes = {} /\ open.reads = {} /\ queue = <<>> /\ seen = <<0, 0>>
  BY DEF Init, NoTrace
<1>2. block \in Blocks /\ Parent[block] = Base /\ stage = "pre" /\ DOMAIN index_of = {} /\ links = {}
  BY DEF Init
<1> DEFINE s == Spot(Base, seen[2])
<1>3. s.block = Base /\ s.n = 0 /\ s.i = 0 BY <1>1 DEF Spot
<1> HIDE DEF s
<1>4. HasSeen(s) BY <1>1, <1>2, <1>3 DEF HasSeen, Placed
<1>5. Consecutive(s) BY <1>1, <1>3 DEF Consecutive, Whole, Placed, Follows
<1>6. Starts(open, block)
  <2>1. 0 < Number[block] BY <1>2, BlockType
  <2> QED BY <1>1, <1>2, <2>1 DEF Starts, Leads, Left
<1>7. LinksLeadToTheWriter BY <1>2 DEF LinksLeadToTheWriter
<1> QED BY <1>2, <1>4, <1>5, <1>6, <1>7 DEF StreamInv, s

\* The Tag of a transaction that comes right after what is open.
LEMMA StreamTags ==
  ASSUME TypeOK, sound, StreamInv, NEW t, Tag(t), t.block \in Blocks, Whole(t),
         Precedes(open, t.block, t.i), UNCHANGED <<seen, index_of>>
  PROVE  \E b \in Blocks \cup {Base} : (HasSeen(Spot(b, seen[2])) /\ Consecutive(Spot(b, seen[2])))'
<1>1. PICK b \in Blocks \cup {Base} : HasSeen(Spot(b, seen[2])) /\ Consecutive(Spot(b, seen[2]))
  BY DEF StreamInv
<1> DEFINE s == Spot(b, seen[2])
           prev == IF queue = <<>> THEN s ELSE queue[Len(queue)]
<1> HIDE DEF s
<1>2. open' = t /\ seen' = seen /\ index_of' = index_of BY DEF Tag
<1>3. (HasSeen(Spot(b, seen[2])))' BY <1>1, <1>2 DEF HasSeen
<1>4. /\ \A j \in 1 .. Len(queue) : Whole(queue[j]) /\ Follows(IF j = 1 THEN s ELSE queue[j - 1], queue[j])
      /\ Whole(open) /\ Follows(prev, open) /\ Placed(s)
  BY <1>1 DEF Consecutive, HasSeen, s
<1>5. Len(queue) \in Nat /\ queue \in Seq(AllTraces) /\ t.block # Base
  <2>1. queue \in Seq(AllTraces) BY DEF TypeOK
  <2>2. t.block # Base BY BlockType
  <2> QED BY <2>1, <2>2
<1>6. Follows(open, t) BY <1>5 DEF Follows
<1>7. CASE open = NoTrace
  <2>1. queue' = queue BY <1>7 DEF Tag
  <2>2. open.block = Base /\ open.n = 0 /\ open.i = 0 BY <1>7 DEF NoTrace
  <2>3. prev.block = Base BY <1>4, <2>2 DEF Follows
  <2>4. Placed(prev) BY <1>4, <1>5 DEF Whole
  <2>5. prev.n = 0 /\ prev.i = 0 BY <2>3, <2>4 DEF Placed
  <2> HIDE DEF prev
  <2>6. Follows(prev, t)
    <3>1. prev.block = open.block /\ prev.n = open.n /\ prev.i = open.i BY <2>2, <2>3, <2>5
    <3>2. Follows(prev, t) <=> Follows(open, t) BY <3>1, SamePlace
    <3> QED BY <3>2, <1>6
  <2>7. Consecutive(s)' BY <1>2, <1>4, <2>1, <2>6 DEF Consecutive, prev, s
  <2> QED BY <1>1, <1>2, <1>3, <2>7 DEF s
<1>8. CASE open # NoTrace
  <2>1. queue' = Append(queue, open) BY <1>8 DEF Tag
  <2>2. /\ Len(queue') = Len(queue) + 1 /\ queue'[Len(queue) + 1] = open
        /\ \A j \in 1 .. Len(queue) : queue'[j] = queue[j]
        /\ queue' # <<>> /\ queue'[Len(queue')] = open
    BY <1>5, <2>1 DEF TypeOK
  <2>3. ASSUME NEW j \in 1 .. Len(queue')
        PROVE  Whole(queue'[j]) /\ Follows(IF j = 1 THEN s ELSE queue'[j - 1], queue'[j])
    <3>1. CASE j \in 1 .. Len(queue)
      <4>1. j # 1 => j - 1 \in 1 .. Len(queue) BY <3>1, <1>5
      <4> QED BY <3>1, <4>1, <1>4, <2>2
    <3>2. CASE j = Len(queue) + 1
      <4>1. (j = 1 <=> queue = <<>>) /\ (j # 1 => j - 1 = Len(queue) /\ Len(queue) \in 1 .. Len(queue))
        BY <3>2, <1>5
      <4>2. (IF j = 1 THEN s ELSE queue'[j - 1]) = prev BY <4>1, <2>2
      <4> QED BY <3>2, <4>2, <1>4, <2>2
    <3> QED BY <3>1, <3>2, <2>2, <1>5
  <2>4. Consecutive(s)' BY <1>2, <1>6, <2>2, <2>3 DEF Consecutive, s
  <2> QED BY <1>1, <1>2, <1>3, <2>4 DEF s
<1> QED BY <1>7, <1>8

\* What the tracker keeps when it comes to t is what t finds.
LEMMA KeptIsBefore ==
  ASSUME TypeOK, NEW b \in Blocks \cup {Base}, NEW s, s = Spot(b, seen[2]), HasSeen(s),
         NEW t \in AllTraces, t.block \in Blocks, Placed(t), Follows(s, t),
         NEW k \in Kept(t) \cap Plain
  PROVE  <<index_of[k].block, index_of[k].i>> = Before(t.block, t.i, k)
<1>1. s.block = b /\ s.i = seen[2] /\ s.n = seen[1] BY DEF Spot, HasSeen
<1>2. k \in DOMAIN index_of \cap Plain /\ k \in Plain BY DEF Kept
<1>3. /\ b \in Blocks /\ <<index_of[k].block, index_of[k].i>> = Left(s, k)
      /\ index_of[k].n = Number[index_of[k].block]
  BY <1>1, <1>2 DEF HasSeen
<1>4. b # Base /\ t.block # Base /\ t.n = Number[t.block] /\ t.i \in DOMAIN Txs[t.block]
      /\ t.i \in Nat /\ seen[2] \in Nat
  <2>1. b # Base /\ t.block # Base BY <1>3, BlockType
  <2>2. t.i \in Nat /\ seen[2] \in Nat BY DEF AllTraces, TypeOK
  <2> QED BY <2>1, <2>2 DEF Placed
<1>5. Left(s, k) = Before(b, s.i + 1, k) BY <1>1, <1>4 DEF Left
<1>6. Precedes(s, t.block, t.i) BY <1>4 DEF Follows
<1>7. CASE t.i # 1
  <2>1. b = t.block /\ s.i = t.i - 1 BY <1>1, <1>6, <1>7 DEF Precedes
  <2>2. s.i + 1 = t.i BY <2>1, <1>4
  <2> QED BY <1>3, <1>5, <2>1, <2>2
<1>8. CASE t.i = 1 /\ Leads(s, t.block)
  BY <1>2, <1>3, <1>8, PlainStep DEF Leads
<1>9. CASE t.i = 1 /\ Replaces(s, t.block)
  <2>1. Parent[b] = Parent[t.block] /\ s.n = t.n /\ seen[2] >= 1 BY <1>1, <1>4, <1>9 DEF Replaces
  <2>2. s.n = Number[b] BY <1>4, <1>1 DEF HasSeen, Placed
  <2>3. Back(t) BY <1>1, <1>4, <1>9, <2>1 DEF Back
  <2>4. index_of[k].n < t.n BY <2>3 DEF Kept
  <2>5. index_of[k].block # b BY <1>3, <1>4, <2>1, <2>2, <2>4, BlockType
  <2>6. Writers(b, (s.i + 1) - 1, k) = {} BY <1>3, <1>5, <2>5 DEF Before
  <2>7. Before(b, s.i + 1, k) = Value[Parent[b]][k] BY <2>6 DEF Before
  <2> QED BY <1>2, <1>3, <1>5, <1>9, <2>1, <2>7, PlainStep
<1> QED BY <1>6, <1>7, <1>8, <1>9 DEF Precedes, Starts

\* Sending one trace to the tracker, and what it links.
LEMMA StreamObserves ==
  ASSUME TypeOK, sound, StreamInv, Observes
  PROVE  /\ \E b \in Blocks \cup {Base} : (HasSeen(Spot(b, seen[2])) /\ Consecutive(Spot(b, seen[2])))'
         /\ LinksLeadToTheWriter'
<1>1. PICK b \in Blocks \cup {Base} : HasSeen(Spot(b, seen[2])) /\ Consecutive(Spot(b, seen[2]))
  BY DEF StreamInv
<1> DEFINE s == Spot(b, seen[2])
<1>0. PICK t : t = Head(queue) OBVIOUS
<1>2. queue # <<>> /\ queue' = Tail(queue) /\ UNCHANGED <<open, block, stage, index, sound>>
  BY DEF Observes, replayVars
<1>3. /\ queue \in Seq(AllTraces) /\ Len(queue) \in Nat \ {0} /\ t \in AllTraces /\ t = queue[1]
      /\ Len(queue') = Len(queue) - 1
      /\ \A j \in 1 .. Len(queue) - 1 : queue'[j] = queue[j + 1]
  BY <1>0, <1>2 DEF TypeOK
<1>4. Whole(t) /\ Placed(t) /\ Follows(s, t) /\ HasSeen(s)
  BY <1>1, <1>3 DEF Consecutive, Whole
<1>5. t.block \in Blocks \cup {Base} /\ t.n \in Nat /\ t.i \in Nat BY <1>3 DEF AllTraces
<1>6. seen' = <<t.n, t.i>> /\ seen'[1] = t.n /\ seen'[2] = t.i BY <1>0 DEF Observes
<1>7. /\ DOMAIN index_of' = Kept(t) \cup t.writes
      /\ \A k \in DOMAIN index_of' :
           index_of'[k] = IF k \in t.writes
                          THEN [block |-> t.block, n |-> t.n, i |-> t.i, quote |-> ~t.swap]
                          ELSE index_of[k]
  BY <1>0 DEF Observes
<1>8. \A k \in Kept(t) : k \in DOMAIN index_of BY DEF Kept
<1>9. ASSUME t.block \in Blocks, NEW k \in Kept(t) \cap Plain
      PROVE  <<index_of[k].block, index_of[k].i>> = Before(t.block, t.i, k)
  BY <1>3, <1>4, <1>9, KeptIsBefore
<1>10. t.block = Base => \A k \in Kept(t) : k \notin Plain
  <2>1. t.block = Base => s.block = Base BY <1>4 DEF Follows
  <2>2. s.block = Base => \A k \in DOMAIN index_of : k \notin Plain
    BY <1>4, FollowerAssumption DEF HasSeen
  <2> QED BY <1>8, <2>1, <2>2
<1> DEFINE u == Spot(t.block, t.i)
<1>11. u.block = t.block /\ u.n = t.n /\ u.i = t.i BY <1>4 DEF Spot, Placed
<1>12. (HasSeen(Spot(t.block, seen[2])))'
  <2>1. Spot(t.block, seen'[2]) = u BY <1>6
  <2>2. Placed(u) BY <1>4, <1>11 DEF Placed
  <2>3. ASSUME NEW k \in DOMAIN index_of' \cap Plain
        PROVE  /\ t.block \in Blocks
               /\ <<index_of'[k].block, index_of'[k].i>> = Before(t.block, t.i + 1, k)
               /\ index_of'[k].n = Number[index_of'[k].block]
    <3>1. t.block \in Blocks
      <4>1. CASE t.block = Base
        <5>1. k \notin t.writes BY <1>4, <4>1 DEF Whole
        <5> QED BY <5>1, <4>1, <1>7, <1>10
      <4> QED BY <4>1, <1>5
    <3>2. /\ t.block # Base /\ t.n = Number[t.block] /\ t.i \in DOMAIN Txs[t.block]
          /\ (k \in t.writes <=> k \in Txs[t.block][t.i].writes)
      BY <1>4, <3>1, BlockType DEF Whole, Placed
    <3>5. Before(t.block, t.i + 1, k) =
            IF k \in t.writes THEN <<t.block, t.i>> ELSE Before(t.block, t.i, k)
      BY <1>5, <3>1, <3>2, BeforeStep, Places
    <3>3. CASE k \in t.writes
      <4>1. index_of'[k] = [block |-> t.block, n |-> t.n, i |-> t.i, quote |-> ~t.swap]
        BY <1>7, <3>3
      <4>2. index_of'[k].block = t.block /\ index_of'[k].n = t.n /\ index_of'[k].i = t.i BY <4>1
      <4> QED BY <3>1, <3>2, <3>3, <3>5, <4>2
    <3>4. CASE k \notin t.writes
      <4>1. k \in Kept(t) \cap Plain /\ index_of'[k] = index_of[k] BY <1>7, <3>4
      <4>2. <<index_of[k].block, index_of[k].i>> = Before(t.block, t.i, k) BY <1>9, <3>1, <4>1
      <4>3. index_of[k].n = Number[index_of[k].block] BY <1>4, <1>8, <4>1 DEF HasSeen
      <4> QED BY <3>1, <3>2, <3>4, <3>5, <4>1, <4>2, <4>3
    <3> QED BY <3>3, <3>4
  <2>4. \A k : t.block \in Blocks => Left(u, k) = Before(t.block, t.i + 1, k)
    BY <1>11, BlockType DEF Left
  <2> HIDE DEF u
  <2> QED BY <1>6, <1>11, <2>1, <2>2, <2>3, <2>4 DEF HasSeen
<1>13. (Consecutive(Spot(t.block, seen[2])))'
  <2>1. Spot(t.block, seen'[2]) = u BY <1>6
  <2>2. \A x : Follows(u, x) <=> Follows(t, x) BY <1>11, SamePlace
  <2> HIDE DEF u
  <2>3. /\ \A j \in 1 .. Len(queue) :
              Whole(queue[j]) /\ Follows(IF j = 1 THEN s ELSE queue[j - 1], queue[j])
        /\ Whole(open) /\ Follows(queue[Len(queue)], open)
    BY <1>1, <1>2 DEF Consecutive
  <2>4. ASSUME NEW j \in 1 .. Len(queue')
        PROVE  Whole(queue'[j]) /\ Follows(IF j = 1 THEN u ELSE queue'[j - 1], queue'[j])
    <3>1. /\ j \in 1 .. Len(queue) - 1 /\ j + 1 \in 1 .. Len(queue) /\ j + 1 # 1 /\ (j + 1) - 1 = j
          /\ queue'[j] = queue[j + 1]
      BY <1>3
    <3>2. Whole(queue[j + 1]) /\ Follows(queue[j], queue[j + 1]) BY <2>3, <3>1
    <3>3. CASE j = 1 BY <1>3, <2>2, <3>1, <3>2, <3>3
    <3>4. CASE j # 1
      <4>1. j - 1 \in 1 .. Len(queue) - 1 /\ (j - 1) + 1 = j BY <3>1, <3>4
      <4>2. queue'[j - 1] = queue[j] BY <1>3, <4>1
      <4> QED BY <3>1, <3>2, <3>4, <4>2
    <3> QED BY <3>3, <3>4
  <2>5. Follows(IF queue' = <<>> THEN u ELSE queue'[Len(queue')], open)
    <3>1. CASE queue' = <<>>
      <4>1. Len(queue) = 1 BY <1>3, <3>1
      <4> QED BY <1>3, <2>2, <2>3, <3>1, <4>1
    <3>2. CASE queue' # <<>>
      <4>1. Len(queue') \in 1 .. Len(queue) - 1 /\ Len(queue') + 1 = Len(queue)
        <5>1. Len(queue') # 0 BY <1>2, <1>3, <3>2
        <5> QED BY <5>1, <1>3
      <4> QED BY <1>3, <2>3, <3>2, <4>1
    <3> QED BY <3>1, <3>2
  <2> QED BY <1>2, <2>1, <2>3, <2>4, <2>5 DEF Consecutive
<1>14. LinksLeadToTheWriter'
  <2> DEFINE quotes == {k \in t.reads \cap Kept(t) : index_of[k].quote}
             new == {[slot |-> k, of |-> <<t.block, t.i>>,
                      update |-> <<index_of[k].block, index_of[k].i>>] : k \in quotes}
  <2>1. links' \subseteq links \cup new BY <1>0 DEF Observes
  <2>2. ASSUME NEW l \in new, l.slot \in Plain PROVE l.update = Before(l.of[1], l.of[2], l.slot)
    <3>1. PICK k \in t.reads \cap Kept(t) :
            l = [slot |-> k, of |-> <<t.block, t.i>>, update |-> <<index_of[k].block, index_of[k].i>>]
      BY <2>2
    <3>2. l.slot = k /\ l.of[1] = t.block /\ l.of[2] = t.i
          /\ l.update = <<index_of[k].block, index_of[k].i>>
      BY <3>1
    <3>3. k \in Kept(t) \cap Plain /\ t.block \in Blocks
      BY <1>4, <1>5, <2>2, <3>1, <3>2 DEF Whole
    <3> QED BY <1>9, <3>2, <3>3
  <2> HIDE DEF new
  <2>3. \A l \in links : l.slot \in Plain => l.update = Before(l.of[1], l.of[2], l.slot)
    BY DEF StreamInv, LinksLeadToTheWriter
  <2> QED BY <2>1, <2>2, <2>3 DEF LinksLeadToTheWriter
<1> QED BY <1>5, <1>12, <1>13, <1>14

\* A transaction that is executed as a whole.
LEMMA StreamExecutes ==
  ASSUME TypeOK, sound, StreamInv, Executes
  PROVE  /\ \E b \in Blocks \cup {Base} : (HasSeen(Spot(b, seen[2])) /\ Consecutive(Spot(b, seen[2])))'
         /\ LinksLeadToTheWriter' /\ Precedes(open, block, index)'
<1>1. /\ stage = "txs" /\ index <= Len(Txs[block]) /\ index' = index + 1 /\ block' = block
      /\ UNCHANGED <<seen, index_of, links>>
  BY DEF Executes, trackerVars
<1>2. block \in Blocks /\ index \in Nat \ {0} /\ index \in DOMAIN Txs[block] /\ block # Base
  <2>1. block \in Blocks /\ index \in 1 .. Len(Txs[block]) BY <1>1, TxType DEF TypeOK
  <2>2. DOMAIN Txs[block] = 1 .. Len(Txs[block]) BY <2>1, TxType
  <2>3. block # Base BY <2>1, BlockType
  <2>4. index \in Nat \ {0} BY <2>1
  <2> QED BY <2>1, <2>2, <2>3, <2>4
<1> DEFINE tx == Txs[block][index]
<1>3. PICK t : t = Trace(block, index, tx.reads, tx.writes, tx.swap) OBVIOUS
<1>4. t.block = block /\ t.i = index /\ t.n = Number[block] /\ t.writes = tx.writes
  BY <1>3 DEF Trace
<1>5. Tag(t) /\ open' = t BY <1>3 DEF Executes, Tag
<1>6. Whole(t)
  <2>1. Placed(t) BY <1>2, <1>4 DEF Placed
  <2> QED BY <1>2, <1>4, <2>1 DEF Whole
<1>7. Precedes(open, t.block, t.i) BY <1>1, <1>4 DEF StreamInv
<1>8. \E b \in Blocks \cup {Base} : (HasSeen(Spot(b, seen[2])) /\ Consecutive(Spot(b, seen[2])))'
  BY <1>1, <1>2, <1>4, <1>5, <1>6, <1>7, StreamTags
<1>9. LinksLeadToTheWriter' BY <1>1 DEF StreamInv, LinksLeadToTheWriter
<1>10. Precedes(open, block, index)'
  <2>1. index' # 1 /\ index' - 1 = index BY <1>1, <1>2
  <2> QED BY <1>1, <1>4, <1>5, <2>1 DEF Precedes
<1> QED BY <1>8, <1>9, <1>10

LEMMA EmptyBlock ==
  ASSUME NEW b \in Blocks
  PROVE  Txs[b] = <<>> <=> Len(Txs[b]) = 0
BY TxType

LEMMA StreamStep == TypeOK /\ StreamInv /\ [Next]_vars => StreamInv'
<1> SUFFICES ASSUME TypeOK, StreamInv, [Next]_vars, sound' PROVE StreamInv'
  BY DEF StreamInv
<1> DEFINE Kin == /\ \E b \in Blocks \cup {Base} :
                        (HasSeen(Spot(b, seen[2])) /\ Consecutive(Spot(b, seen[2])))'
                  /\ LinksLeadToTheWriter'
           Same == open'.block = open.block /\ open'.n = open.n /\ open'.i = open.i
<1>0. ASSUME sound, UNCHANGED <<queue, seen, index_of, links>>, More PROVE Kin /\ Same
  BY <1>0, StreamKept
<1>13. Same => /\ \A b : Starts(open', b) <=> Starts(open, b)
               /\ \A b : Ends(open', b) <=> Ends(open, b)
               /\ \A b, i : Precedes(open', b, i) <=> Precedes(open, b, i)
  BY SamePlace
<1>14. block \in Blocks /\ block # Base BY BlockType DEF TypeOK
<1>1. CASE Moves
  <2>1. sound /\ UNCHANGED <<queue, seen, index_of, links, open, stage, block, index>>
    BY <1>1 DEF Moves, replayVars, trackerVars
  <2>2. Kin BY <1>0, <2>1 DEF More
  <2> HIDE DEF Kin
  <2> QED BY <2>1, <2>2 DEF StreamInv, Kin
<1>2. CASE PreBlock
  <2>1. /\ sound /\ UNCHANGED <<queue, seen, index_of, links, block>> /\ More
        /\ stage = "pre" /\ stage' = "txs" /\ index' = 1
    BY <1>2, <1>14, SystemTouches DEF PreBlock, trackerVars, More
  <2>2. Kin /\ Same BY <1>0, <2>1
  <2>3. Starts(open', block) BY <1>13, <2>1, <2>2 DEF StreamInv
  <2>4. Precedes(open', block', index') BY <2>1, <2>3 DEF Precedes
  <2> HIDE DEF Kin
  <2> QED BY <2>1, <2>2, <2>4 DEF StreamInv, Kin
<1>3. CASE PreBlockFails
  <2>1. /\ sound /\ UNCHANGED <<queue, seen, index_of, links, block>> /\ More
        /\ stage = "pre" /\ stage' = "txs" /\ index' = 1
    BY <1>3, <1>14, SystemTouches DEF PreBlockFails, trackerVars, More
  <2>2. Kin /\ Same BY <1>0, <2>1
  <2>3. Starts(open', block) BY <1>13, <2>1, <2>2 DEF StreamInv
  <2>4. Precedes(open', block', index') BY <2>1, <2>3 DEF Precedes
  <2> HIDE DEF Kin
  <2> QED BY <2>1, <2>2, <2>4 DEF StreamInv, Kin
<1>4. CASE Executes
  <2>1. sound /\ stage' = "txs" BY <1>4 DEF Executes
  <2>2. Kin /\ Precedes(open, block, index)' BY <1>4, <2>1, StreamExecutes
  <2> HIDE DEF Kin
  <2> QED BY <2>1, <2>2 DEF StreamInv, Kin
<1>5. CASE ExecutionFails BY <1>5 DEF ExecutionFails
<1>6. CASE PostBlock
  <2>1. /\ sound /\ UNCHANGED <<queue, seen, index_of, links, block>> /\ More
        /\ stage = "txs" /\ stage' = "wait" /\ index = Over(block)
    BY <1>6, <1>14, SystemTouches DEF PostBlock, trackerVars, More
  <2>2. Kin /\ Same BY <1>0, <2>1
  <2>3. index = Len(Txs[block]) + 1 /\ Len(Txs[block]) \in Nat BY <1>14, <2>1, TxType DEF Over
  <2>4. Precedes(open, block, index) BY <2>1 DEF StreamInv
  <2>5. Ends(open, block)
    <3>1. CASE Txs[block] = <<>>
      <4>1. index = 1 BY <1>14, <2>3, <3>1, EmptyBlock
      <4> QED BY <2>4, <3>1, <4>1 DEF Precedes, Starts, Ends
    <3>2. CASE Txs[block] # <<>>
      <4>1. index # 1 /\ index - 1 = Len(Txs[block]) BY <1>14, <2>3, <3>2, EmptyBlock
      <4> QED BY <2>4, <3>2, <4>1 DEF Precedes, Ends
    <3> QED BY <3>1, <3>2
  <2>6. Ends(open', block') BY <1>13, <2>1, <2>2, <2>5
  <2> HIDE DEF Kin
  <2> QED BY <2>1, <2>2, <2>6 DEF StreamInv, Kin
<1>7. CASE NextTip
  <2>1. PICK next \in At(canon, Number[block] + 1) :
          IF Parent[next] = block
          THEN block' = next /\ pinned' = Parent[next] /\ stage' = "pre" /\ UNCHANGED cache
          ELSE cache' = <<>> /\ stage' = "again" /\ UNCHANGED <<block, pinned>>
    BY <1>7 DEF NextTip
  <2>2. sound /\ UNCHANGED <<queue, seen, index_of, links, open>> /\ stage = "wait"
    BY <1>7 DEF NextTip, trackerVars
  <2>3. Kin BY <1>0, <2>2 DEF More
  <2>4. Ends(open, block) /\ Whole(open) BY <2>2 DEF StreamInv, Consecutive
  <2>5. CASE Parent[next] = block
    <3>1. /\ next \in Blocks /\ Number[next] = Number[block] + 1 /\ Number[block] \in Nat
          /\ Len(Txs[block]) \in Nat /\ open.n \in Nat
      BY <1>14, BlockType, TxType DEF At, TypeOK, AllTraces
    <3>2. CASE Txs[block] = <<>>
      <4>1. Leads(open, block) BY <2>4, <3>2 DEF Ends
      <4>2. ASSUME NEW k \in Plain PROVE Value[block][k] = Value[Parent[block]][k]
        <5>1. Len(Txs[block]) + 1 = 1 BY <3>2
        <5> QED BY <1>14, <5>1, PlainStep
      <4>3. Leads(open, next) BY <2>5, <3>1, <4>1, <4>2 DEF Leads
      <4> QED BY <2>1, <2>2, <2>3, <2>5, <4>3 DEF StreamInv, Starts
    <3>3. CASE Txs[block] # <<>>
      <4>1. open.block = block /\ open.i = Len(Txs[block]) BY <2>4, <3>3 DEF Ends
      <4>2. open.n = Number[block] BY <1>14, <2>4, <4>1 DEF Whole, Placed
      <4>3. \A k \in Plain : Left(open, k) = Value[block][k] BY <1>14, <4>1, PlainStep DEF Left
      <4>4. Leads(open, next) BY <2>5, <3>1, <4>2, <4>3 DEF Leads
      <4> QED BY <2>1, <2>2, <2>3, <2>5, <4>4 DEF StreamInv, Starts
    <3> QED BY <3>2, <3>3
  <2>6. CASE Parent[next] # block
    <3>1. stage' = "again" /\ block' = block BY <2>1, <2>6
    <3> HIDE DEF Kin
    <3> QED BY <2>2, <2>3, <2>4, <3>1 DEF StreamInv, Kin
  <2> QED BY <2>5, <2>6
<1>8. CASE Reorganises
  <2>1. PICK b \in At(canon, Number[block]) :
          /\ block' = b /\ sound' = (sound /\ Parent[b] = Parent[block] /\ Txs[b] # <<>>)
    BY <1>8 DEF Reorganises
  <2>2. sound /\ Parent[b] = Parent[block] /\ Txs[b] # <<>> BY <2>1 DEF TypeOK
  <2>3. UNCHANGED <<queue, seen, index_of, links, open>> /\ stage = "again" /\ stage' = "pre"
    BY <1>8 DEF Reorganises, trackerVars
  <2>4. Kin BY <1>0, <2>2, <2>3 DEF More
  <2>5. Ends(open, block) /\ Whole(open) BY <2>2, <2>3 DEF StreamInv, Consecutive
  <2>6. b \in Blocks /\ Number[b] = Number[block] BY DEF At
  <2>7. Starts(open, b)
    <3>1. CASE Txs[block] = <<>>
      <4>1. Leads(open, block) BY <2>5, <3>1 DEF Ends
      <4> QED BY <2>2, <2>6, <4>1 DEF Leads, Starts
    <3>2. CASE Txs[block] # <<>>
      <4>1. open.block = block /\ open.i = Len(Txs[block]) BY <2>5, <3>2 DEF Ends
      <4>2. open.n = Number[block] BY <1>14, <2>5, <4>1 DEF Whole, Placed
      <4>3. Len(Txs[block]) >= 1 BY <1>14, <3>2, EmptyBlock, TxType
      <4> QED BY <1>14, <2>2, <2>6, <4>1, <4>2, <4>3 DEF Replaces, Starts
    <3> QED BY <3>1, <3>2
  <2> HIDE DEF Kin
  <2> QED BY <2>1, <2>3, <2>4, <2>7 DEF StreamInv, Kin
<1>9. CASE Stops
  <2>1. sound /\ UNCHANGED <<queue, seen, index_of, links, open>> /\ stage' = "stopped"
    BY <1>9 DEF Stops, trackerVars
  <2>2. Kin BY <1>0, <2>1 DEF More
  <2> HIDE DEF Kin
  <2> QED BY <2>1, <2>2 DEF StreamInv, Kin
<1>10. CASE Observes
  <2>1. sound /\ UNCHANGED <<open, stage, block, index>> BY <1>10 DEF Observes, replayVars
  <2>2. Kin BY <1>10, <2>1, StreamObserves
  <2> HIDE DEF Kin
  <2> QED BY <2>1, <2>2 DEF StreamInv, Kin
<1>11. CASE UNCHANGED vars
  <2>1. sound /\ UNCHANGED <<queue, seen, index_of, links, open, stage, block, index>>
    BY <1>11 DEF vars, replayVars, trackerVars
  <2>2. Kin BY <1>0, <2>1 DEF More
  <2> HIDE DEF Kin
  <2> QED BY <2>1, <2>2 DEF StreamInv, Kin
<1>12. CASE Done BY <1>11, <1>12 DEF Done
<1> QED
  BY <1>1, <1>2, <1>3, <1>4, <1>5, <1>6, <1>7, <1>8, <1>9, <1>10, <1>11, <1>12 DEF Next, Replay

\* A link leads to the transaction whose value the swap found in the slot, as
\* long as each reorganisation replaced one block by one with transactions and
\* no transaction was cut short, and whatever the tracker still has to see
\* when one happens (detect.rs:207-222, quotes.rs:115-256).
THEOREM LinksCorrect == Spec => []LinksAreSound
<1>1. Init => TypeOK /\ StreamInv BY TypeInit, StreamInit
<1>2. TypeOK /\ StreamInv /\ [Next]_vars => (TypeOK /\ StreamInv)' BY TypeStep, StreamStep
<1>3. StreamInv => LinksAreSound BY DEF StreamInv, LinksAreSound
<1> QED BY <1>1, <1>2, <1>3, PTL DEF Spec
=============================================================================
