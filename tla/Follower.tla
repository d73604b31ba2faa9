------------------------------ MODULE Follower ------------------------------
(***************************************************************************)
(* yevm-demo/src/bin/detect.rs follows a chain: it executes block after    *)
(* block over one cache, asking a node (yevm-core/src/rpc.rs) for what the *)
(* cache lacks as of the parent of the block, and streams the traces to a  *)
(* tracker that links swaps to the quotes they read (yevm-lens/src/        *)
(* quotes.rs).  The node may change its mind about which chain is          *)
(* canonical at any moment.                                                *)
(*                                                                         *)
(* A transaction is the slots it reads and writes, and whether it swaps or *)
(* pushes a quote; the value of a slot is what wrote it last:              *)
(* <<block, index>>, where index 0 is pre_block and the one past the last  *)
(* transaction post_block.  Each contract has one slot for each purpose.   *)
(***************************************************************************)
EXTENDS Integers, Sequences, FiniteSets, FiniteSetsExt

CONSTANTS
  Base,      \* a block whose ancestors do not matter
  Blocks,    \* the others: of all branches
  Parent,    \* of each of them
  Number,    \* of each, and of Base
  Txs,       \* the transactions of each: reads, writes, swap
  Slots,     \* the slots of all contracts
  Ring,      \* of each block: the slots pre_block writes
  Queue,     \* the slots of the request predeploys that post_block reads,
  Dequeued,  \* and of each block: those it writes
  Retain,    \* blocks a write is remembered for: 64
  MaxMoves,  \* bound on how often the node's chain changes
  MaxFails   \* bound on how many fetches fail

ASSUME FollowerAssumption ==
  /\ Base \notin Blocks /\ Parent \in [Blocks -> Blocks \cup {Base}]
  /\ Number \in [Blocks \cup {Base} -> Nat]
  /\ \A b \in Blocks : Number[b] = Number[Parent[b]] + 1
  /\ Ring \in [Blocks -> SUBSET Slots]
  /\ Queue \subseteq Slots /\ Dequeued \in [Blocks -> SUBSET Queue]
  /\ Retain \in Nat /\ MaxMoves \in Nat /\ MaxFails \in Nat
  /\ Txs \in [Blocks -> Seq([reads : SUBSET Slots, writes : SUBSET Slots, swap : BOOLEAN])]

VARIABLES
  canon,   \* the tip of the node's chain
  moves,   \* how often it changed
  block,   \* the block in hand
  stage,   \* "pre", "txs", "wait" for the next block, "again" or "stopped"
  index,   \* the next transaction of the block, or what comes after the last
  cache,   \* what is cached: current and original value of slots
  pinned,  \* rpc.block_hash: queries are answered as of this block
  purge,   \* purge_required
  open,    \* the trace that is being collected: it is sent at the next Tag
  queue,   \* traces sent to the tracker
  seen,    \* the tracker: block and index of the last trace,
  index_of,\* and the last writer of each slot
  links,   \* history: the links it found
  fails,   \* how many fetches failed
  sound    \* history: no block was missed, and no transaction failed

nodeVars    == <<canon, moves>>
replayVars  == <<block, stage, index, cache, pinned, purge, open>>
trackerVars == <<seen, index_of, links>>
vars == <<nodeVars, replayVars, queue, trackerVars, fails, sound>>

\* The chain that ends in b: the least set that has b and the parents of its own.
Closed(S) == \A b \in S \ {Base} : Parent[b] \in S
Branch == [tip \in Blocks \cup {Base} |->
             {b \in Blocks \cup {Base} :
                \A S \in SUBSET (Blocks \cup {Base}) : tip \in S /\ Closed(S) => b \in S}]
At(tip, n) == {b \in Blocks \cap Branch[tip] : Number[b] = n}

\* What is in its slots after b: what the last block of the chain that wrote them left.
Over(b) == Len(Txs[b]) + 1
Written(b, j) == CASE j = 0 -> Ring[b] [] j = Over(b) -> Dequeued[b] [] OTHER -> Txs[b][j].writes
Writers(b, i, k) == {j \in 0 .. i : k \in Written(b, j)}
Writing(tip, k) == {b \in Blocks \cap Branch[tip] : Writers(b, Over(b), k) # {}}
Last(tip, k) == CHOOSE b \in Writing(tip, k) : \A c \in Writing(tip, k) : Number[c] <= Number[b]
Value == [b \in Blocks \cup {Base} |-> [k \in Slots |->
            IF Writing(b, k) = {} THEN <<Base, 0>>
            ELSE <<Last(b, k), Max(Writers(Last(b, k), Over(Last(b, k)), k))>>]]

\* What transaction i of block b finds in slot k: what is there after those
\* before it, and after pre_block.
Before(b, i, k) ==
  IF Writers(b, i - 1, k) = {} THEN Value[Parent[b]][k] ELSE <<b, Max(Writers(b, i - 1, k))>>

Trace(b, i, reads, writes, swap) ==
  [block |-> b, n |-> Number[b], i |-> i, reads |-> reads, writes |-> writes, swap |-> swap]
\* Before the first Tag: (0, 0), the default.
NoTrace == [block |-> Base, n |-> 0, i |-> 0, reads |-> {}, writes |-> {}, swap |-> FALSE]

\* Rpc::latest, and the block it names.
Init ==
  /\ canon \in {b \in Blocks : Parent[b] = Base} /\ moves = 0
  /\ block = canon /\ stage = "pre" /\ index = 1
  /\ cache = <<>> /\ pinned = Parent[block] /\ purge = FALSE
  /\ open = NoTrace /\ queue = <<>>
  /\ seen = <<0, 0>> /\ index_of = <<>> /\ links = {} /\ sound = TRUE /\ fails = 0

----------------------------------------------------------------------------
(* The node.                                                               *)

Moves ==
  /\ moves < MaxMoves
  /\ canon' \in Blocks \ {canon}
  /\ moves' = moves + 1
  /\ UNCHANGED <<replayVars, queue, trackerVars, fails, sound>>

----------------------------------------------------------------------------
(* The loop of main.                                                       *)

\* fetch: the answers are as of the pinned block.
Fetched(ks) == [k \in DOMAIN cache \cup ks |->
                  IF k \in DOMAIN cache THEN cache[k]
                  ELSE [cur |-> Value[pinned][k], org |-> Value[pinned][k]]]

Put(c, ks, v) == [k \in DOMAIN c |-> IF k \in ks THEN [cur |-> v, org |-> c[k].org] ELSE c[k]]

\* Cache::reset
Reset(c) == [k \in DOMAIN c |-> [cur |-> c[k].cur, org |-> c[k].cur]]

\* pre_block fetches each of its slots whether it is cached or not, and writes
\* it.  It has no Tag: what it writes is put down to the transaction before.
Stamped(ks) ==
  [k \in DOMAIN cache \cup ks |->
     IF k \in ks THEN [cur |-> <<block, 0>>, org |-> Value[pinned][k]] ELSE cache[k]]
Adds(ks) == open' = [open EXCEPT !.writes = @ \cup ks]

PreBlock ==
  /\ stage = "pre"
  /\ cache' = Stamped(Ring[block]) /\ Adds(Ring[block])
  /\ stage' = "txs" /\ index' = 1
  /\ UNCHANGED <<nodeVars, block, pinned, purge, queue, trackerVars, fails, sound>>

\* The writes that precede a fetch that fails: not all, or none.
Short(ks) == ((SUBSET ks) \ {ks}) \cup {{}}

\* What was written before the failure stays.
PreBlockFails ==
  /\ stage = "pre" /\ fails < MaxFails /\ fails' = fails + 1
  /\ \E ks \in Short(Ring[block]) : cache' = Stamped(ks) /\ Adds(ks)
  /\ stage' = "txs" /\ index' = 1 /\ purge' = TRUE
  /\ UNCHANGED <<nodeVars, block, pinned, queue, trackerVars, sound>>

\* The Tag of a transaction ends the trace of the one before.
Tag(t) ==
  /\ queue' = IF open = NoTrace THEN queue ELSE Append(queue, open)
  /\ open' = t

Executes ==
  /\ stage = "txs" /\ index <= Len(Txs[block])
  /\ LET t == Txs[block][index]
     IN  /\ cache' = Reset(Put(Fetched(t.reads \cup t.writes), t.writes, <<block, index>>))
         /\ Tag(Trace(block, index, t.reads, t.writes, t.swap))
  /\ index' = index + 1
  /\ UNCHANGED <<nodeVars, block, stage, pinned, purge, trackerVars, fails, sound>>

\* A fetch fails: what was done before it stays in the cache and in the trace.
ExecutionFails ==
  /\ fails < MaxFails /\ fails' = fails + 1
  /\ stage = "txs" /\ index <= Len(Txs[block])
  /\ LET t == Txs[block][index]
     IN  \E ks \in SUBSET (t.reads \cup t.writes) :
           /\ ks # t.reads \cup t.writes
           /\ cache' = Reset(Put(Fetched(ks), ks \cap t.writes, <<block, index>>))
           /\ Tag(Trace(block, index, ks \cap t.reads, ks \cap t.writes, FALSE))
  /\ index' = index + 1 /\ purge' = TRUE /\ sound' = FALSE
  /\ UNCHANGED <<nodeVars, block, stage, pinned, trackerVars>>

\* Mutant: what is cached is fetched again.
TakenOffAfresh ==
  [k \in DOMAIN cache \cup Queue |->
     LET was == IF k \in Queue THEN [cur |-> Value[pinned][k], org |-> Value[pinned][k]]
                ELSE cache[k]
     IN  IF k \in Dequeued[block] THEN [cur |-> <<block, index>>, org |-> was.org] ELSE was]

\* post_block takes requests off the queues: it fetches what is not cached, for
\* transactions may have written it, and writes.
TakenOff == Put(Fetched(Queue), Dequeued[block], <<block, index>>)

\* Mutant: the cache of a block that failed is carried on.
PostBlockCarries ==
  /\ stage = "txs" /\ index = Over(block)
  /\ \/ fails' = fails /\ cache' = TakenOff /\ Adds(Dequeued[block])
     \/ /\ fails < MaxFails /\ fails' = fails + 1
        /\ cache' = cache
        /\ \E ks \in Short(Dequeued[block]) : Adds(ks)
  /\ stage' = "wait" /\ index' = index + 1 /\ purge' = FALSE
  /\ UNCHANGED <<nodeVars, block, pinned, queue, trackerVars, sound>>

\* post_block, which may fail before any of its writes, and the purge if
\* anything did.
PostBlock ==
  /\ stage = "txs" /\ index = Over(block)
  /\ \/ /\ fails' = fails
        /\ cache' = IF purge THEN <<>> ELSE TakenOff
        /\ Adds(Dequeued[block])
     \/ /\ fails < MaxFails /\ fails' = fails + 1
        /\ cache' = <<>>
        /\ \E ks \in Short(Dequeued[block]) : Adds(ks)
  /\ stage' = "wait" /\ index' = index + 1 /\ purge' = FALSE
  /\ UNCHANGED <<nodeVars, block, pinned, queue, trackerVars, sound>>

\* next_tip answers: the block follows on the one in hand, or it does not, and
\* the cache is purged.
NextTip ==
  /\ stage = "wait"
  /\ \E next \in At(canon, Number[block] + 1) :
       IF Parent[next] = block
       THEN /\ block' = next /\ pinned' = Parent[next] /\ stage' = "pre"
            /\ UNCHANGED cache
       ELSE /\ cache' = <<>> /\ stage' = "again"
            /\ UNCHANGED <<block, pinned>>
  /\ UNCHANGED <<nodeVars, index, purge, open, queue, trackerVars, fails, sound>>

\* Mutant: the block in hand is executed again, not asked for.
ReorganisesSame ==
  /\ stage = "again"
  /\ stage' = "pre"
  /\ UNCHANGED <<nodeVars, block, index, cache, pinned, purge, open, queue, trackerVars, fails, sound>>

\* The node's block of the same number is taken for it, whatever it is by now.
\* Blocks before it are not looked at.
Reorganises ==
  /\ stage = "again"
  /\ \E b \in At(canon, Number[block]) :
       /\ block' = b /\ pinned' = Parent[b]
       /\ sound' = (sound /\ Parent[b] = Parent[block] /\ Txs[b] # <<>>)
  /\ stage' = "pre"
  /\ UNCHANGED <<nodeVars, index, cache, purge, open, queue, trackerVars, fails>>

\* No next block for too long, or none any more of the number in hand.
Stops ==
  /\ \/ stage = "wait" /\ At(canon, Number[block] + 1) = {}
     \/ stage = "again" /\ At(canon, Number[block]) = {}
  /\ stage' = "stopped"
  /\ UNCHANGED <<nodeVars, block, index, cache, pinned, purge, open, queue, trackerVars, fails, sound>>

----------------------------------------------------------------------------
(* The tracker: purge_from, evict_before, observe.                         *)

Back(t) == t.n < seen[1] \/ (t.n = seen[1] /\ t.i <= seen[2])

\* Mutant: a block executed again is not noticed.
KeptThroughout(t) ==
  {k \in DOMAIN index_of : t.n # seen[1] => index_of[k].n >= t.n - Retain}

Kept(t) ==
  {k \in DOMAIN index_of :
     /\ Back(t) => index_of[k].n < t.n
     /\ t.n # seen[1] => index_of[k].n >= t.n - Retain}

\* The links are made before the trace's own writes are recorded.
Observes ==
  /\ queue # <<>>
  /\ LET t == Head(queue)
         quotes == {k \in t.reads \cap Kept(t) : index_of[k].quote}
     IN  /\ links' = IF t.swap
                     THEN links \cup {[slot |-> k, of |-> <<t.block, t.i>>,
                                       update |-> <<index_of[k].block, index_of[k].i>>] : k \in quotes}
                     ELSE links
         /\ index_of' = [k \in Kept(t) \cup t.writes |->
                           IF k \in t.writes
                           THEN [block |-> t.block, n |-> t.n, i |-> t.i, quote |-> ~t.swap]
                           ELSE index_of[k]]
         /\ seen' = <<t.n, t.i>>
  /\ queue' = Tail(queue)
  /\ UNCHANGED <<nodeVars, replayVars, fails, sound>>

Done == stage = "stopped" /\ queue = <<>> /\ UNCHANGED vars

Replay == PreBlock \/ PreBlockFails \/ Executes \/ ExecutionFails \/ PostBlock \/ NextTip
          \/ Reorganises \/ Stops
Next == Moves \/ Replay \/ Observes \/ Done

\* The loop goes on, and gives up on a next block by its clock; the tracker's
\* task is scheduled.
Fairness == WF_vars(Replay) /\ WF_vars(Observes)

Spec == Init /\ [][Next]_vars /\ Fairness

----------------------------------------------------------------------------
(* Properties.                                                             *)

AllTraces == [block : Blocks \cup {Base}, n : Nat, i : Nat, reads : SUBSET Slots,
              writes : SUBSET Slots, swap : BOOLEAN]

\* Every variable keeps to its type; the next transaction is one of the block's
\* or comes right after them, and after post_block one further.
TypeOK ==
  /\ canon \in Blocks /\ block \in Blocks /\ pinned \in Blocks \cup {Base}
  /\ stage \in {"pre", "txs", "wait", "again", "stopped"}
  /\ stage = "txs" => index \in 1 .. Over(block)
  /\ stage = "wait" => index = Over(block) + 1
  /\ moves \in 0 .. MaxMoves
  /\ fails \in 0 .. MaxFails
  /\ open \in AllTraces /\ queue \in Seq(AllTraces) /\ seen \in Nat \X Nat
  /\ DOMAIN cache \subseteq Slots /\ DOMAIN index_of \subseteq Slots
  /\ purge \in BOOLEAN /\ sound \in BOOLEAN

\* What is cached is what the branch of the block in hand says, at every
\* transaction of a block in which nothing failed and when the next is waited
\* for, whatever the node has made of its chain meanwhile: for the slots of
\* transactions and for those of the system contracts, which pre_block fetches
\* over what is cached and post_block must not (exe.rs:150), because
\* transactions of the block may have written them.
CacheIsOfItsBranch ==
  ~purge /\ stage \in {"txs", "wait"} =>
    \A k \in DOMAIN cache : cache[k].cur = Before(block, index, k)

\* Slots that neither pre_block nor post_block ever writes.
Plain == Slots \ (Queue \cup UNION {Ring[b] : b \in Blocks})

\* "so a reorged quote update cannot be linked" (detect.rs:213): a link leads
\* to the transaction whose value the swap found in the slot.  What pre_block
\* and post_block write has no Tag of its own and is put down to the
\* transaction before, so that slots they write are not spoken of.
LinksLeadToTheWriter ==
  \A l \in links : l.slot \in Plain => l.update = Before(l.of[1], l.of[2], l.slot)

\* They do if each reorganisation replaced one block by one with transactions
\* and no transaction was cut short.
LinksAreSound == sound => LinksLeadToTheWriter

\* Reorganisations are got over: when the node's chain stays, the follower
\* comes to its end, and the tracker has seen what was sent.
ComesToAnEnd == <>[](stage = "stopped" /\ queue = <<>>)
=============================================================================
