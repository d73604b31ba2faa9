# yevm: models, checks and proofs

`yevm` executes Ethereum transactions outside a node. The engine (`yevm-core`)
runs a transaction over a cache of accounts that it fills from a chain backend
while it runs. Around it are a wallet gate that holds signed transactions until
their owner approves them (`yevm-gate`), an analyser of traces (`yevm-lens`),
and bindings (`yevm-wasm`, `yevm-reth`, the CLI, demos and tests).

Paths below are relative to the repository.

## The system

| Part | State | Operations | What makes it correct |
|---|---|---|---|
| State journal, `yevm-core/src/cache.rs` | accounts and slots read through from the chain; per-transaction sets (warm, created, destroyed, transient); the event list, which is also the undo journal; logs | reads, fetch merges, writes, create, destroy, log, `checkpoint`, `revert_to`, `apply`, `reset`, `purge` | a revert restores what was seen at its checkpoint; logs of reverted frames go; originals are those of the start of the transaction; only accounts made in the transaction are deleted |
| Executor, `exe.rs`, `ops/calls.rs`, `ops/store.rs` | the stack of call frames, each with gas, refund, static flag and checkpoint; the result on its way to the caller | start of a transaction; calls, creates, precompiles, SSTORE, SELFDESTRUCT; return, revert, halt; fetch and retry; step limit; end | gas lent comes from the lender; ether and refunds add up; static frames change nothing; a nonce is used once; a failed transaction leaves no trace |
| Instructions, `evm.rs`, `ops/*` | of one frame: pc, stack, memory, gas, and what is pending: charges, pushes, warming | step; yield for a fetch, reset, retry; the return into a frame that called | an instruction takes effect once, however often it yields; memory is paid for once, cold access once each time an instruction reaches the account; signed arithmetic is exact |
| Precompiles, `pre/*` | none | price, check, compute | batching pays; MODEXP computes on its padded input and charges for the work |
| Fees, `exe.rs` `intrinsic`, `finalized` | balances of sender and coinbase | upfront charge, refund, tip | ether adds up; the sender pays for the gas used, between floor and spent |
| Authorization lists, `eip7702.rs` | nonces and code of authorities | skip or apply each tuple | a nonce is used once, by a transaction or a tuple |
| Blocks, `exe.rs` `pre_block`, `post_block`, `apply_withdrawals` | storage of the system contracts: two rings, two request queues with their excess | writes before a block; withdrawals and dequeues after it | the rings serve the last blocks; requests are taken in order; the excess is the backlog |
| Fetch and replay, `chain.rs`, `rpc.rs` | the block that queries are pinned to; a recorded list and its position | online fetch, offline replay | what is cached is of the branch in hand |
| Trace stream, `trace.rs`, `cache.rs` | events with numbers; a bounded channel | emit, undo | a listener that applies the undos sees the events that survive |
| Lens, `yevm-lens/src/analyse.rs`, `quotes.rs` | per transaction: a call stack, flows, balance writes, transfers; over blocks: the last writer of each slot | analyse; observe, evict, purge | flows are what moved; a transfer nobody made is flagged; swaps rest on trades; a link leads to the writer |
| Follower, `yevm-demo/src/bin/detect.rs` | the cache carried from block to block; the tip; the tracker's queue | follow, purge, go back after a reorganisation | the cache is never of another branch; reorganisations are got over |
| Gate queue, `yevm-gate/src/main.rs`, `db.rs` | table `txs`; the requests under way | post (single or batch), submit, delete | the caps; nothing vanishes that no upstream accepted |
| Gate sessions, `auth.rs` | challenges and sessions with lifetimes | challenge, verify, authenticate | a challenge makes one session; only a live session acts |
| Gate registry, `main.rs`, `db.rs` | table `chains` and its copy in memory | set, delete, batches | only the administrator changes it; table and copy agree |
| Bindings, tests, demos, base types | - | wrapping, I/O | - |

How they interact: the executor calls the cache for every read and write, and the
chain backend when the cache does not hold what an instruction needs; the cache
keeps the events and hands them to a listener, which is the lens. A frame takes a
checkpoint when it opens, and on failure asks the cache to go back to it; the lens
learns of it by the range of events taken back. The follower carries one cache over
many blocks and purges it when what it is of is gone. The gate shares one
database between all its requests, and each `await` is a place where
another request may run, or the request may end.

What is hard: undo under nesting (journal, lens), accounting across frames that end in
six ways (executor), instructions that are interrupted and repeated (interpreter),
a chain that changes under a cache (follower), and reads that are stale when they are
used, across awaits (gate). `PROJECT.json` lists the hazards line by line, with the
properties for each.

## Modules

| Module | Models | Checked by | Proofs |
|---|---|---|---|
| `Journal` | `cache.rs` | `MCJournal` | `JournalProofs` |
| `Executor` | `exe.rs`, `ops/calls.rs`, `ops/store.rs` | `MCExecutor` | `ExecutorProofs` |
| `Words` | the arithmetic of `ops/basic.rs` | with `Interpreter` | `InterpreterProofs` |
| `Opcodes` | the handlers, `ops/*.rs` | with `Interpreter` | `InterpreterProofs` |
| `Machine` | the operations of a frame, `evm.rs` | with `Interpreter` | `InterpreterProofs` |
| `Interpreter` | `Evm::step` and the loop around it | `MCInterpreter` | `InterpreterProofs` |
| `AtomicFrame` | what a frame promises (abstract) | as a property of `Interpreter` | `InterpreterProofs` |
| `FrameRefinement` | nothing: the mapping from `Interpreter` to `AtomicFrame` | `MCInterpreter` | `InterpreterProofs` |
| `Precompiles` | `pre/*.rs` | `MCPrecompiles` | - |
| `Settle` | `exe.rs` around the execution: `intrinsic`, `finalized`, checks; `eip7702.rs` | with `Block` | `BlockProofs` |
| `Requests` | `process_request_queue` of `exe.rs`; the predeploy's side is external | with `Block` | `BlockProofs` |
| `RequestFifo` | what a request predeploy promises (abstract) | as a property of `Block` | `BlockProofs` |
| `Block` | `pre_block`, `post_block`, `apply_withdrawals`; the order in which replay, bench and detect call them; composes `Settle` and `Requests` | `MCBlock` | `BlockProofs` |
| `Lens` | `yevm-lens/src/analyse.rs` | with `Traces` | - |
| `Traces` | what nested frames emit, `exe.rs`, `trace.rs`; composed with `Lens` | `MCTraces` | - |
| `Follower` | `detect.rs`, `rpc.rs`, the tracker of `quotes.rs` | `MCFollower` | `FollowerProofs` |
| `Gate` | nothing: the constants that both halves of `yevm-gate` have | with the two | - |
| `GateQueue` | the queue of `yevm-gate` | `MCGate` | `GateProofs` |
| `GateAdmin` | sessions and registry of `yevm-gate` | `MCGate` | `AdminProofs` |
| `Sums` | nothing: lemmas on sums over finite sets | - | its own; used by the proofs of `Executor`, `Block`, `Interpreter` |

### Journal

`cur` is all nine maps and sets of `Cache` as one function over locations: a
location names the map, the account and the key. `Absent` is an account or slot
that is not cached; `Observe` is what a reader sees then, the chain's value. `orig`
holds the originals of slots. `events` is `Cache::events` without the traces that
`revert_to` ignores; an event that has been marked reverted is replaced by
`Reverted`. `frames` are the checkpoints that the call frames hold, each with a
history copy of the state observed there, which is what a revert is judged by.

One action per mutation (`Put`, `TPut`, `IncNonce`, `SetValue`, `SetCode`, `Warm`,
`Create`, `Destroy`, `Log`), two for fetches (`Merge`, `InitSlot`), and
`Checkpoint`, `Commit`, `RevertTo`, `Apply`, `Reset`, `Purge`. The guards that
come from callers rather than from the cache (an account is fetched before it is
written, only accounts with code write storage) are named where they stand.

`gaps` is a history variable: the locations for which an event was emitted
that does not record the value it overwrote. `RewindRestores` says that every revert
is exact outside the gaps, `GapsAreKnown` says that the gaps are two: the
balance of an address that a create takes over, and the mark of an account that
self-destructs twice. In both the revert gives back something else than was there.

### Executor

`frames` is `callstack`; a frame keeps its gas (`limit`, `spent`, `refund`), its
account, whether it is static or a create, and its checkpoint. The checkpoint is the
world itself: `Journal` shows that a revert restores it where there are no gaps, and
the guard `Known` keeps ether from a new address before its creation, which is
the case in which there is one. `result` is the `CallResult` on its way to
the caller, `world` the accounts.

A program is any sequence of instructions. `Compute` stands for all that only
spend gas; `Store`, `SelfDestruct`, the calls and the creates are modelled with their
checks in the order of the code. `CallPrecompile` is inline as in the code, with
no look at depth or balance, so ether wraps modulo `W`. `Fetch` and `FetchFails` are
an instruction that needs data, `Resume` the caller taking a result, `Halt` every
exceptional end. `StepLimit` is `MAX_STEPS`, and `FetchFails` and it end a run
without the settlement.

`next` (of a frame) and `start` are history.

### Words, Opcodes, Machine, Interpreter, AtomicFrame

`Words` is arithmetic on words of `Bytes` bytes of `ByteBits` bits, put together as the
code does it (signs by masks and absolute values). `Opcodes` gives each handler as
the sequence of its calls into `evm.rs` and the state, in the order of the code:
charge, peek, ask for an account or a slot, check a range, expand memory, push, act.
`Machine` is a frame and what each of those calls does to it. As in the code, what an
instruction takes, pushes, pays and warms is pending until `apply` and forgotten by
`reset`; memory, pc, the order of the stack and the state change at once. `Handle` runs
the calls of one instruction until the first that does not go through.

`Interpreter` is `Evm::step` with the executor's loop around it. Its arms are `Done`,
`AsksForData` (yield and reset), `Leaves` (every end, by halt or not) and `Calls`;
`Answer` and `FetchFails` are the chain; `CallEnds` is a callee (left to `Executor`) that
returns any part of the gas lent, data of some size and a status.

`AtomicFrame` is a frame that has everything at hand and does each instruction in one
step. It takes what an instruction does (`Handle`, `Apply`) as constant operators, to which
`FrameRefinement` gives those of `Machine`, so that the two differ in control alone. The mapping
of its `RunsAsIfWhole` puts everything in `known` and reads `fetching` as `running`: every yield and every repetition is then a stutter, and the
repeated instruction is the one step. An instruction that changed memory or the
state before it yields would break it.

`paid`, `owed`, `colds` and `cold` are history. Contents of memory, call data and hashes are
left out: what reads them pushes the constant `Given`. The delegations of accounts are a
constant. `eip7702.rs` lets an account delegate to itself, and in the run one does. A call of it
asks for the account twice, and is charged for a cold one both times: what warms it the first time is pending
when it is asked for the second. `ColdIsPaidOnce`, which is the comment at `calls.rs:78`, is violated
by it. `ColdIsPaidAsReached` is what the code does: no account is paid for as cold more often than one
instruction reaches it (`Reached`), which is once but for a delegation to itself.

### Precompiles

`call` is the call under way, if any: its precompile, input and gas, and the answer `Run` gives.
Hashing, curves and signatures belong to libraries, so an input is its length and the
kinds of point in it: at infinity, in the subgroup, on the curve, or bad. Each rule has the
check of the length, the price, the kinds it takes and the length of the answer, in
the order of the code; the discount tables are those of the code. MODEXP is modelled in
full, with its bytes: sizes read from a head that may be shorter than the head,
saturating prices, slicing that stops at the end of the input.

### Settle

`Executor::run` outside its loop. `phase` is where it is: the tuples (`auths`), the
execution (`exec`), the settlement. The execution is abstract: it spends an amount between
the intrinsic gas and the limit, earns a refund, moves the ether, and succeeds or
fails; or it stops without settling (a fetch that fails, or `MAX_STEPS`). `Executor`
has the detail. `Reject`, `PriceRefused` and the first branch of `Charge` are
the errors, in the order of the code, each leaving what was done before it: the
nonce and the tuples for `PriceRefused`, the upfront fee too for `GasTooLow`.
Prices and balances wrap modulo `W`, as the 256-bit integers do (the check
of funds is disabled in the code).

A tuple is a step, and its fetches may fail: `TupleFails` has both places, before
anything is changed, and between the code and the nonce. `torn` records the
latter. `held` is the set of cached accounts, from which a fetch is not needed.

`owed`, `burned`, `lost` and `minted` are history variables that say where ether that is
in no account has gone: paid up front and not settled yet; burned as base fee or
for blobs; kept by runs that were never settled; and (subtracted) charged
beyond the gas limit by the floor, which the tip and the burn take though
nobody paid it. `EtherAddsUp` says that this is all.

### Requests and RequestFifo

Slots 0 to 3 of a request predeploy and the slots of its queue. `Add` is the predeploy's
bytecode, after the EIP; `EndBlock` is `process_request_queue`. `Waiting` is the refinement
mapping: the slots from `head` to `tail` are the sequence `waiting` of `RequestFifo`.

### Block

`PreBlock` writes the rings, the steps of `Settle` follow, and `PostBlock` credits a
withdrawal (or none) and ends the block in the predeploy. `stage` is `txs` in a block
without an error. After one it is `bad`: replay and bench stop there (`Over`), detect
goes on with the other transactions and `post_block` and purges the cache after
it, after which nothing of this state is left (`stopped`). `PreBlockFails` and
`PostBlockFails` have each place where one of their fetches may fail. A hash and a beacon root are
the number of their block; `stamps`, `demand` and `credited` are history. The predeploy is
deployed, a block has a beacon root, and there is one queue of the two, which
run the same code.

### Lens and Traces

`Traces` runs a transaction of nested frames and emits what `exe.rs` and `cache.rs` do, in
their order: `Call`, `Hash`, `Store`, `Log`, the ends that emit an event and those that do not
or take theirs back (`RunsOut`, `CallIsRefused`, `CreationFails`), the fee, and for each rollback an
`Undo` with the range of the event numbers. `truth` is history: the moves of value, Swap logs
and forgeries that were not undone. `plain` is history too: whether every frame that was
announced was also seen to end. Gas, memory and the values of slots are left out.

`Lens` is the analyser as operators over the feed: live events, preimages of balance
slots, then the fold over the events with the call stack, the ether flows with
those that die with their frame, balance writes and the Transfer, Deposit and Withdrawal
logs they bear out; then net flows, swaps with pools, swapper, payer and
recipient, and unverified Swap logs.

### Follower

`canon` is the tip of the node's chain, which moves to any block at any time (`Moves`). The
replay loop of `detect.rs` goes through `stage`: `PreBlock`, `Executes` for each transaction,
`PostBlock`, `NextTip`, and `Reorganises` if the next block does not follow on the one in hand;
each fetch may fail (`PreBlockFails`, `ExecutionFails`, in `PostBlock`), which makes a purge due.
Queries are answered as of `pinned`, whatever the node's chain is by then.

The value of a slot is what wrote it last, a block and an index, so that a stale value is visible. Index 0 is
`pre_block`, which writes the slots in `Ring`, and the one past the last transaction is `post_block`,
which reads the slots in `Queue` and writes those in `Dequeued`. Nothing keeps these slots from those of
transactions: a transaction that calls a request predeploy writes what `post_block` of the same block reads and
writes. `pre_block` fetches over what is cached (`Stamped`); `post_block` fetches only what is
not (`TakenOff`), and must, for the node answers as of the parent. Neither has a Tag, so that what they write is put down to the
transaction before (`Adds`), and `LinksLeadToTheWriter` speaks of the slots that neither writes (`Plain`).

`open` and `queue` are the traces
on their way to the tracker's task, `seen` and `index_of` its memory; `Observes`
is `purge_from`, `evict_before` and `observe`. `links` and `sound` are history: `sound` is lost
when a reorganisation goes unseen by the tracker, because a block that is replaced is
not the last one alone or is replaced by an empty one, or when a transaction is cut short.

### GateQueue

`txs` gives each transaction the chain of its row, or `NoChain`; `req` is what each
request under way is about to do; `sent` is history, what some upstream accepted. Each
query and each upstream call is a step, and a step that awaits may fail. A
request may be dropped at any of them (`HangUp`: the server drops the future of a
handler whose client is gone), and the process may restart (`Restart`); rows
outlive both. `Send` has the three outcomes: accepted and heard,
accepted and not heard, not accepted.

### GateAdmin

`challenges` and `sessions` are tables, `table` and `chains` the registry and its copy in
memory, `asking` what each request is about to do. As in `GateQueue`, each query, lock
and message to a node is a step, at which the request may fail or be dropped
(`AdminHangsUp`), and the process may restart (`AdminRestarts`, which loads the map from the table). The clock
is read once, when a handler starts (`at`), and moves on its own (`Tick`). Challenges and
tokens are random in the code: here they are never made twice, nor guessed.
`issued`, `opened` and `torn` are history; `torn` holds the chains on which two changes crossed
between table and map, or one was dropped there.

### MCGate

The queue and the administration share no variable and no row, so that what either does is not seen by the other's
properties. `MCGate` checks both at once: one moves only while the other has not begun, which makes the states the sum of theirs
and leaves out no step of either.

## Runs

| Run | Shows |
|---|---|
| `journal` | reverts are exact outside the gaps; the gaps are known; logs, originals and deletions are right |
| `journal_balances` | (violation) the balance of an address is lost when its creation is reverted |
| `executor` | gas, refund, ether, nonces, static frames, failed transactions |
| `interpreter` | yields are invisible (a refinement); memory is paid for once, cold access as often as an instruction reaches the account; arithmetic is exact; frames end |
| `cold_twice` | (violation) a call of an account that delegates to itself pays for cold access twice |
| `precompiles` | a batch costs no more than its parts; MODEXP is of the padded input and paid for |
| `block` | ether adds up; nonces are used once; gas of receipts; rings; excess; the predeploy's storage implements `RequestFifo` |
| `lens` | flows, forgeries and swaps of the analyser against what happened |
| `lens_stack` | (violation) the analyser puts a log down to a frame that has ended |
| `follower` | the carried cache is of the branch in hand, the slots of system contracts included; links; reorganisations are got over |
| `gate` | the caps are overshot by less than the number of requests; a row goes only for a reason; one session per challenge; only the administrator's live session changes the registry; map and table agree |
| `gate_dropped` | (violation) a row is dropped that its own chain did not accept |

The four violations are listed in `PROJECT.json` under findings, with the comment of the
code that each contradicts. `TypeOK` of `Journal`, `Executor`, `Block`, `GateQueue`,
`GateAdmin` and `Follower` is proved, and the runs do not repeat it; that of `Interpreter` is
proved and checked, that of `Traces` is checked by its run.

### Bounds, and why they are enough

- `Journal` (534,405 states): a contract with balance, code and a nonzero slot, and a fresh address;
  one key; one value to write per kind, equal to what is there in some places and
  not in others, so that writes that change nothing are among them; four
  events over all transactions (`MaxEvents`); two open
  checkpoints (`MaxFrames`). Interference of undos needs two events at one location
  and two nested checkpoints, and a create is up to three events, so that
  write-create-revert and create-destroy-destroy-revert fit.
  All five properties are proved for all bounds.
- `Executor`: one contract, one new address, one precompile, a sender; balances wrap at 4;
  16 units of gas, of which a callee may take seven eighths; depth 2 (three
  frames); five instructions. Two creates by one account, a clear in a caller that
  a callee undoes, and a self-call that fails all take at most five. The contract's
  nonce starts one short of the limit. The costs keep the order that matters: the
  stipend is less than what a call with ether costs. All seven properties are proved
  for all bounds.
- `Block`: four accounts (a sender, a coinbase that sends too, a contract, one
  that only a tuple names), three blocks, two transactions in all, from six: one
  plain, one whose sender delegates to a contract and whose list sets and clears
  another's code, one of the coinbase to itself with a floor above its limit,
  and three that are refused early, late and for their gas. Balances wrap at
  32 and do wrap. The rings have two entries and three blocks go by, at
  intervals of one or two, so they wrap with and without a gap. The queue has two slots and a block takes one
  request, so that one waits and slots are used again. All the properties are
  proved for all bounds.
- `Interpreter` (43,901 states): words of two bytes of two bits, so that every arithmetic
  instruction runs on all pairs of the 16 words, both signs and both bytes among
  them. Every other instruction runs on operands and gas limits at its
  boundaries: just enough and one too little, regions that end at the limit of memory
  (6), pass it, and wrap; accounts that are the frame's own, blank, delegating
  to others and to themselves,
  and precompiles, cold and warm, asked for twice. A stack of 8 fills up. Programs are
  short since yields, charges and growth concern one instruction and
  the next; loops that only gas ends are among them.
  All but `Ends` are proved for every width of a word and every code.
- `Precompiles` (146,557 states): each of the 18 with inputs at, one below and one above each length that
  matters, batches up to 150 (past the 128 entries of the tables), good and bad points, six gas limits; MODEXP
  in base 2, on all strings of up to seven digits, with announced sizes of none, a few (around `HeadLen` for
  the exponent), and as large as the integers go.
- `Lens` (592,382 states): a bot that is called, a pool that pays and calls back, a token, a wrapper of ether, an
  account without code, a precompile, and a created account; nine events
  before the frames only return (`MaxEvents`), three logs, four frames. A swap is two transfers in
  nested frames, and each may be undone from below; once a frame has ended unseen
  nothing is claimed, and the run does nothing new (`MaxTail`).
- `Follower` (155,842 states): three branches, a1-a2-a3, a1-c2 and b1-b2, so that a block or two are replaced, by blocks of
  the same parent or not; three moves of the chain, one failing fetch; a write is
  remembered for one block, so that it is also forgotten. Quotes and
  swaps on one slot; a ring of two slots, one of which a swap also reads; a queue whose count and tail a transaction and
  `post_block` of the same block write, and which a block empties or does not. The two safety properties are proved for every tree of blocks.
- `Gate` (1,617,956 states). The queue: two requests, four transactions of two senders, two chains, a cap of two and a cap per
  sender of one. The race needs two requests, and the per-sender cap needs one sender
  with more transactions than the cap. The administration: two requests, an administrator and a user, two challenges, two tokens, two
  chains, a deletion beside a change of both chains at once; lifetimes of one tick and two ticks of the clock, so that a
  challenge and a session are used fresh, at their limit and too late. Requests and tokens are
  symmetric: no property and no action tells them apart. The
  properties are proved for any number of each.

`CHECK_DEADLOCK` is left on everywhere: a transaction, frame, chain of blocks or follower
that has ended repeats its last state (`Ended`, `Stop`, `Over`, `Done`), since it is used once.

### Fairness

- `Interpreter`: weak fairness of `Step`, `Answer` and `CallEnds`. The executor's loop is sequential and
  nothing else runs in it, so an instruction that can be done is; a fetch is
  awaited, and comes back with an answer or an error (`FetchFails`, which needs no fairness, as it
  only ends the frame); a callee ends by the same argument one level down.
  `Ends` then says that no loop is free of gas and that no instruction is repeated for ever.
- `Follower`: weak fairness of `Replay` (the main loop, each wait of which has a deadline: `Stops`) and of
  `Observes` (the tracker's task of the runtime). The node's `Moves` has none: it may stop
  changing its mind, and after `MaxMoves` it does. `ComesToAnEnd` says that the loop then gets over the last
  reorganisation and the queue is emptied.

The other specifications assume none: their properties are safety properties, and a queued
transaction may rightly wait for ever for its owner.

## What is proved

TLAPS checks the 37 theorems of seven proof modules, for all values of the
constants that satisfy the named assumptions; the eighth, `Sums`, has the lemmas on sums over finite
sets that three of them need (how a sum changes when a term does, and that sums modulo `W` add up). The
assumptions say that sets of accounts, transactions and requests are finite, that numbers are
in their ranges, that a genesis account with storage has a nonce or code, and of a code (`InterpreterAssumption`)
that a PUSH is not wider than a word. One theorem has a hypothesis on top: `RefinementCorrect`.

- `TypeCorrect`, `RewindCorrect` (`JournalProofs`): `Spec => []TypeOK` and
  `Spec => []RewindRestores`. `RewindRestores` is not inductive, because it speaks
  only of going back from now, and a commit or a revert changes what "from now"
  means. `JInv` adds that checkpoints are in order (`InOrder`), and that the state seen at
  each checkpoint leads back to the one before it through the events between them
  (`PairsLeadBack`), as the present does (`NowLeadsBack`). Reverting to the top
  checkpoint then makes the present what was seen there, and the pair below takes
  over.
- `GapsCorrect`, `LogsCorrect`, `OriginalCorrect`, `DestroyedCorrect` (on top of the former). A creation needs an address without nonce and code, and no step but a
  revert makes an account blank again, so that what is blank now was blank when the
  transaction began. `EntryInv` says this of the present and of the state at each
  checkpoint (`StatesSound`), that the overwrites that no event records are those of blank addresses
  (`GapsAreKnown`), that the accounts with a creation event were blank at the start (`EventsFit`), that a
  mark of destruction has an event after that of the creation, so that both go together
  (`MarksHaveEvents`), and that a slot the cache does not hold was the chain's at the
  start as well (`SlotsKnown`). `LogsAreLive` is inductive.
- `ExecTypeCorrect`, `GasCorrect` (`ExecutorProofs`): `Spec => []TypeOK` and
  `Spec => []GasIsLent`. They are one invariant, `ExecInv`: a callee's limit is a natural
  number because its caller had that much left, and what comes back is at most
  what the caller spent, because no frame spends more than its limit. The
  assumption `Stipend <= ValueCost` is used here, and nowhere else.
- `StaticCorrect`, `NonceUseCorrect`, `FailureCorrect`: a step changes
  the world, and a failing frame puts back that of its checkpoint, so that a fact about the outer
  frames lasts if it holds of the world and of every checkpoint above them. `RollInv` is
  that: the callees of a static frame are static and the world is that of its checkpoint;
  a nonce that a frame used is used in the world and in the checkpoint of every frame above; the
  first checkpoint is the world at the start.
- `EtherCorrect`, `GasLeftCorrect`, `RefundCorrect`: sums over accounts and over frames. `EtherInv`: the balances add up
  to those of the start, modulo a word, in the world and in every checkpoint that a failure may bring back. The gas
  left is the sum over the stack of what each frame has not spent; `GasNeverGrows` is an action property, relative to `ExecInv`.
  `RefundInv`: what the frames below one have earned is what the slots cleared in its
  checkpoint are worth, and some number of restored ones; a creation starts from an empty slot, because
  an account that had storage keeps its nonce or code.
- `BlockTypeCorrect`, `NoncesCorrect`, `ReceiptCorrect`, `HistoryCorrect`, `QueueImplementsFifo`
  (`BlockProofs`): the first three are `Spec => []P`; `TypeOK` is inductive, and the
  other two are relative to it. `NoncesUsedOnce` is inductive because its first part puts every used nonce
  behind the account's, so a nonce in use now is new. `HistoryCorrect` is from `RingInv`: each of the last `Window`
  blocks has a place of its own (`OwnPlace`, by the arithmetic of remainders), and holds it until
  the block that comes `Window` later. `QueueImplementsFifo` is
  `Spec => Fifo!Spec`: `Add` appends to `Waiting` (`AddMakes`), `EndBlock` drops
  its prefix whether or not the slots start again (`EndBlockTakes`), and no
  other step changes it.
- `EtherConserved`, `ExcessCorrect`: `EtherInv` is that the balances with `owed`, `burned`, `lost` and less
  `minted` are those of genesis and what withdrawals credited, modulo `W`, and that the transaction in hand has paid for
  its gas. `ExcessInv`: the excess bounds what any run of blocks up to now left beyond the target, and is what some
  run left, or zero. A block lengthens every run, and the rule of the excess keeps the largest.
- `QueueTypeCorrect`, `OvershootCorrect`, `NothingVanishesCorrect`
  (`GateProofs`), from `GateInv`: either the rows are fewer than the cap, or rows and
  requests that have counted but not inserted are together at most the cap and
  the number of requests, less one; a request about to drop holds a transaction
  that was sent; one about to delete is of somebody who may.
- `AdminTypeCorrect`, `ChallengeCorrect`, `AdminCorrect`, `MapCorrect` (`AdminProofs`). `SigningInv`: a challenge that is
  still in its table has opened nothing, and one that is gone is with one request or has opened one session. `AdmissionInv`: a request past the check carries a session that was opened for the
  administrator, whatever happened to its row since. `MirrorInv`: a chain that is not
  torn has the same entry in table and map, or one request between the two that will
  make it so.
- `TypeCorrect`, `CacheCorrect`, `LinksCorrect` (`FollowerProofs`). `CacheInv`: a
  slot is cached, or was not written in the block so far, by `pre_block` or a transaction, so that a later fetch,
  as of the parent, is right. `StreamInv`: each trace, sent or still open, comes right after
  the one before it on its branch, or starts a block that replaces one of the same parent; the tracker's index
  is then that of the branch of the trace it saw last. Both rest on three lemmas
  about the tree (`BranchStep`, `TipIsHighest`, `ValueStep`). A branch is the least set closed
  under parents, and they follow from its being least, without induction.
  `ComesToAnEnd` is not proved, so the fairness of the specification is not used.

- `TypeCorrect`, `MemoryCorrect`, `ColdCorrect`, `GasCorrect` (`InterpreterProofs`). `Handle` goes through the steps of an
  instruction until one fails, so the argument is about programs. `Legal` says which step may stand where (operands are
  counted before they are read, memory is paid for before it is used, an account is asked for
  before it is charged, a call comes last), and `DispatchLegal` that the program of every operation is legal. `Mid` is what
  holds of a frame after the first k steps of a legal program: how it differs from the frame at the
  start, what is pending and that it is paid for. That the steps lead there is shown by a least counterexample in k.
  `Safe` is what holds between two instructions: nothing is pending, what was paid for memory is its
  price, an account that is not warm was not paid for, and none was more often than `Reached`; it is the inductive invariant.
  An instruction charges for at most two accounts, which are the same one only if it delegates to itself (`TimesTwo`).
- `RefinementCorrect`: `Spec => RunsAsIfWhole`. Two frames are `Alike` if they differ in `known` and `want` alone and
  one of them has everything. A step that does not ask for data, or that has what it asks for, keeps frames alike; a
  step that yields ends the instruction, and `Reset` makes of it the frame it started from, because what had been
  done until then was pending: no step that changes memory or the state comes before one that asks. So a
  yield is a stutter, and the repetition that gets through is the step of `AtomicFrame`. The hypothesis is that
  address zero does not delegate: a call is charged for a delegate, and asks for it only if the
  address is not zero. An authority is the signer recovered from an authorization, and no signature recovers to zero.
- `ArithmeticCorrect`: `Spec => []ArithmeticIsExact`. `ComputeExact` is about the operators of `Words`: to mask the low m bits is
  to take the remainder by 2^m and to set the high ones to add a constant (`BitsBelow`, `AndMask`, `OrMask`, by the sum of
  the powers of two of the bits); to flip the sign bit is to shift the signed numbers up by half of W (`KeyIs`); a shift is a division;
  and one quotient alone truncates towards zero (`TruncatesOnce`), which that of the absolute values with the
  sign put back does (`QuotientIs`), the smallest number by -1 included. `HandleArith` takes the result to the top of the
  stack. `Exact` adds to the property that only a running frame has just done arithmetic; without it, the
  answer to a fetch or the end of a call could be taken for the result.

Only model-checked:

- `TypeOK`, `FlowsAreMoves`, `ForgeriesAreFlagged` and `SwapsAreTrades` of `Traces`, and `ModexpIsOfPaddedInput` of
  `Precompiles`: folds over a feed and over the digits of an input, which call for
  induction over the data. (Where such an induction is over a number, a least counterexample replaces it, as for
  `Handle`, and for `Two` of `Words`.)
- `BatchingPays` of `Precompiles`: its content is two tables of 128 discounts each, which TLC goes through entry by entry.
- `Ends` and `ComesToAnEnd`: liveness, which is out of the prover's reach, as is ENABLED.

No module has a RECURSIVE operator.

## Observations

What the models show of the code beside the findings, and take as it is:

- A revert of a second SELFDESTRUCT of an account takes back the mark of the first
  (`cache.rs:529`); it is the second of the two gaps of the journal.
- At `MAX_STEPS` (`exe.rs:693`) the innermost frame alone is reverted and nothing is settled: what the outer
  frames wrote stays (`StepLimit`).
- The caps of the queue are overshot by up to the number of requests under way, less one (`main.rs:333`).
- JUMP accepts the byte 0x5B inside the data of a PUSH. Its target, the index of BYTE, the
  offset of CALLDATALOAD and the gas operand of a call are cut to 64 bits before they are compared.
- The charge that runs out of gas may pass the limit; the executor drains the frame.
- A call of a precompile with ether checks no balance, so that it wraps (`exe.rs:812`).
- `pre_block` and `post_block` reset no originals, so that a system slot keeps a stale one for
  the first transaction of the next block, which matters if it calls a request predeploy: its SSTORE is charged against what
  was there before `post_block`. No property says otherwise. `OriginalIsTxStart` of `Journal` takes as the
  start of a transaction the reset before it, and `Follower` keeps the stale original (`TakenOff`) and claims nothing of it. Their events
  are put down to the last transaction before them.
- A reorganisation to an empty block, or of more than the last block, does not purge the tracker; a link may then lead
  to a transaction of the branch that is gone (`sound`).
- The list of what `detect` fetched grows without a bound.

## What the properties do not say

- `MapIsTheTable` speaks of chains of which no two changes crossed between table and map and none was dropped there. Where they do,
  table and map may differ until a restart: `main.rs` does not order them, and says nothing of it.
- `NoncesUsedOnce` leaves out a tuple whose fetch failed between its code and its nonce (`torn`), after
  which the authority has the code and the nonce is free.
- `SwapsAreTrades` says that a reported swap rests on two transfers that happened, in opposite directions. Which side is the pool
  and which the swapper the analyser infers from who calls whom (`analyse.rs:508`, `analyse.rs:591`); that it infers it rightly is not checked.

## Not modelled

- A full trace channel (`cache.rs:416`): the event is dropped, and with an `Undo` the listener keeps
  what was undone. Any loss breaks the properties of `Lens`, and nothing in the code recovers from it, so there is no
  property of the code to check.
- Offline replay by position (`chain.rs:38`): it checks the kind of a recorded answer and
  nothing else; that a run asks for the same things in the same order follows from its being deterministic.
- BLOCKHASH by number with a failure cached as zero (`chain.rs:79`): what it answers is the node's
  choice.
- The browser's replay (`yevm-wasm/src/lib.rs`), which runs the earlier transactions without `pre_block` and passes
  over their errors: it shows one transaction beside its receipt and promises nothing of the state.
- Decoding of transactions in the gate; RLP; hashing, curves and signatures; RPC transport, the reth
  database and the browser (I/O); base types, helpers and the facade crate; the state tests, the CLI and
  the demos other than `detect`.
- In the lens: approvals, NFTs, proxies, labels of protocols, and alerts that the rest does not depend on.
- In `Executor`, an account has one slot and no transient storage, and warm and cold access
  cost the same; `Interpreter` has both for one frame. Memory and warm accounts are not
  carried between frames.
