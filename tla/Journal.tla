------------------------------ MODULE Journal ------------------------------
(***************************************************************************)
(* The state cache of the engine, yevm-core/src/cache.rs: accounts and     *)
(* storage read through from a chain backend, the per-transaction sets     *)
(* (warm, created, destroyed, transient), and the journal of events from   *)
(* which a failed call frame is rolled back.                               *)
(*                                                                         *)
(* The nine maps and sets of the code are one function `cur` over          *)
(* locations; a location names the map (its kind), the account and, where  *)
(* the map has one, the key.  A set is the 0/1 function of its members.    *)
(* A backed location that is Absent is one the cache does not hold: a read *)
(* of it is answered by the chain.                                         *)
(*                                                                         *)
(* The callers of the cache (exe.rs, ops/*.rs) fetch an account or a slot  *)
(* before they change it and keep a checkpoint per call frame; the guards  *)
(* below that the code of the cache does not have are theirs, and each     *)
(* says so.                                                                *)
(***************************************************************************)
EXTENDS Naturals, Sequences, FiniteSets

CONSTANTS
  Acc,        \* account addresses
  Key,        \* storage keys
  NoKey,      \* the key of a location that has none
  NoLoc,      \* the location of an event that changes none
  Absent,     \* a backed location the cache does not hold
  MaxVal,     \* values of balances, nonces, codes and slots are 0..MaxVal
  Input,      \* the values callers write, for each kind of location
  Touched,    \* the warm marks and transient cells callers write
  Chain,      \* what the chain backend answers for each backed location
  Held,       \* accounts loaded before the first transaction (insert_account)
  MaxEvents,  \* bound on the events of all transactions together
  MaxFrames   \* bound on the checkpoints held at once

Val == 0 .. MaxVal

AccountKind == {"value", "nonce", "code"}
MarkKind    == {"warmAcc", "created", "destroyed"}

Field(kind, a)   == [kind |-> kind, acc |-> a, key |-> NoKey]
Cell(kind, a, k) == [kind |-> kind, acc |-> a, key |-> k]

BackedLoc == [kind : AccountKind, acc : Acc, key : {NoKey}]
               \cup [kind : {"store"}, acc : Acc, key : Key]
SlotLoc   == [kind : {"store"}, acc : Acc, key : Key]
TxLoc     == [kind : MarkKind, acc : Acc, key : {NoKey}]
               \cup [kind : {"temp", "warmKey"}, acc : Acc, key : Key]
Loc       == BackedLoc \cup TxLoc

\* A zero code is the empty code; other codes stand for themselves.
ASSUME JournalAssumption ==
  /\ MaxVal \in Nat \ {0}
  /\ Input \in [{"value", "code", "store", "temp"} -> SUBSET Val]
  /\ MaxEvents \in Nat /\ MaxFrames \in Nat
  /\ Absent \notin Val
  /\ NoLoc \notin Loc /\ Touched \subseteq TxLoc /\ Held \subseteq Acc
  /\ Chain \in [BackedLoc -> Val]

\* An address without nonce and code has never run code, so it has no storage.
ASSUME ChainAssumption ==
  \A a \in Acc, k \in Key :
    (Chain[Field("nonce", a)] = 0 /\ Chain[Field("code", a)] = 0)
      => Chain[Cell("store", a, k)] = 0

VARIABLES
  cur,      \* [Loc -> Val \cup {Absent}]: the cache's maps
  orig,     \* the `original` of each storage slot
  events,   \* the journal
  logs,     \* the logs kept for the receipt, each named by its event
  frames,   \* the checkpoints held by the open call frames, with (history)
            \* the state as it was observed when each was taken
  base,     \* history: the state observed at the start of the transaction
  gaps,     \* history: locations overwritten inside a frame by an event that
            \* does not record the value it overwrote
  applied,  \* the transaction has been applied, and awaits reset
  past      \* history: events of the transactions before this one

vars == <<cur, orig, events, logs, frames, base, gaps, applied, past>>

\* An event keeps what revert_to reads of it: `prev` is what its undo writes.
\* Of one marked reverted nothing is read again, so nothing is kept.
Event == [op : {"write", "create", "log", "reverted"}, loc : Loc \cup {NoLoc},
          prev : Val]
Frame == [cp : Nat, snap : [Loc -> Val]]

----------------------------------------------------------------------------
(* Reading.                                                                *)

\* What a reader sees: the cached value, or the chain's.
Observe(c) == [l \in Loc |-> IF l \in BackedLoc /\ c[l] = Absent
                             THEN Chain[l] ELSE c[l]]

Cached(a)     == cur[Field("value", a)] # Absent
Marked(kind, a) == cur[Field(kind, a)] = 1

\* Only deployed code and the init code of a create reach storage.
RunsCode(a) == Marked("created", a) \/ cur[Field("code", a)] # 0

\* The locations an account entry holds: they go when the entry goes.
EntryOf(a) == {l \in BackedLoc : l.acc = a}

----------------------------------------------------------------------------
(* The journal.                                                            *)

\* The event a mutation emits, and what its undo will write back.
Wrote(l, prev)  == [op |-> "write", loc |-> l, prev |-> prev]
CreatedEvent(a) == [op |-> "create", loc |-> Field("created", a), prev |-> 0]
LogEvent        == [op |-> "log", loc |-> NoLoc, prev |-> 0]
Reverted        == [op |-> "reverted", loc |-> NoLoc, prev |-> 0]

\* Emit the events es; lost are the locations whose value before the step
\* their undo would not bring back.  Only an event inside a frame is undone.
Emit(es, lost) ==
  /\ past + Len(events) + Len(es) <= MaxEvents
  /\ events' = events \o es
  /\ gaps' = IF frames = <<>> THEN gaps ELSE gaps \cup lost

\* One journaled write of v to l, whose undo writes `prev`.
Write(l, v, prev) ==
  /\ cur' = [cur EXCEPT ![l] = v]
  /\ Emit(<<Wrote(l, prev)>>, IF prev = cur[l] THEN {} ELSE {l})
  /\ UNCHANGED <<orig, logs, frames, base, applied, past>>

Since(cp) == {i \in DOMAIN events : i > cp}

UndoersOf(cp, l) ==
  {i \in Since(cp) : events[i].op \in {"write", "create"} /\ events[i].loc = l}

\* The entry of a was made by a create that a return to cp undoes.
CreatedSince(cp, a) ==
  \E i \in Since(cp) :
    events[i].op = "create" /\ events[i].loc = Field("created", a)

First(S) == CHOOSE i \in S : \A j \in S : i <= j

\* Mutant: the undos applied oldest first.
RewoundOldestFirst(cp) ==
  [l \in Loc |->
     IF l \in BackedLoc /\ CreatedSince(cp, l.acc) THEN Absent
     ELSE IF UndoersOf(cp, l) = {} \/ cur[l] = Absent THEN cur[l]
     ELSE LET S == UndoersOf(cp, l)
          IN  events[CHOOSE i \in S : \A j \in S : j <= i].prev]

\* revert_to undoes the live events since cp, last first, so a location ends
\* with what its first event recorded.  Undoing a create removes the entry,
\* and the undo of a write to an entry or slot that is gone does nothing.
Rewound(cp) ==
  [l \in Loc |->
     IF l \in BackedLoc /\ CreatedSince(cp, l.acc) THEN Absent
     ELSE IF UndoersOf(cp, l) = {} \/ cur[l] = Absent THEN cur[l]
     ELSE events[First(UndoersOf(cp, l))].prev]

LogsSince(cp) == {i \in Since(cp) : events[i].op = "log"}

----------------------------------------------------------------------------
(* Reads that fill the cache (chain::fetch): not journaled.                *)

\* fetch(Account): merge of the chain's answer, when no entry is held.
Merge(a) ==
  /\ ~Cached(a) /\ ~applied
  /\ cur' = [l \in Loc |-> IF l \in EntryOf(a) /\ l.kind \in AccountKind
                           THEN Chain[l] ELSE cur[l]]
  /\ UNCHANGED <<orig, events, logs, frames, base, gaps, applied, past>>

\* fetch(StateCell): init of a slot, when none is held.
InitSlot(a, k) ==
  LET l == Cell("store", a, k) IN
  /\ Cached(a) /\ RunsCode(a) /\ cur[l] = Absent /\ ~applied
  /\ cur' = [cur EXCEPT ![l] = Chain[l]]
  /\ orig' = [orig EXCEPT ![l] = Chain[l]]
  /\ UNCHANGED <<events, logs, frames, base, gaps, applied, past>>

----------------------------------------------------------------------------
(* Journaled mutations.                                                    *)

\* Mutant: the event does not keep the value overwritten.
PutForgets(a, k, v) ==
  LET l == Cell("store", a, k) IN
  /\ cur[l] # Absent /\ ~applied
  /\ RunsCode(a)
  /\ Write(l, v, 0)

\* put, by SSTORE: the slot was fetched.
Put(a, k, v) ==
  LET l == Cell("store", a, k) IN
  /\ cur[l] # Absent /\ ~applied
  /\ RunsCode(a)
  /\ Write(l, v, cur[l])

\* tput, by TSTORE; an absent cell reads as zero and zero is undone by removal.
TPut(a, k, v) ==
  LET l == Cell("temp", a, k) IN
  /\ l \in Touched /\ Cached(a) /\ ~applied
  /\ RunsCode(a)
  /\ Write(l, v, cur[l])

IncNonce(a) ==
  LET l == Field("nonce", a) IN
  /\ Cached(a) /\ ~applied /\ cur[l] < MaxVal
  /\ cur[l] # 0 \/ frames = <<>>   \* a contract has nonce >= 1 (EIP-161)
  /\ Write(l, cur[l] + 1, cur[l])

SetValue(a, v) ==
  LET l == Field("value", a) IN
  /\ Cached(a) /\ ~applied
  /\ Write(l, v, cur[l])

\* set_code: a delegation before the first checkpoint (apply_authorization_list),
\* or the deployed code of an account this transaction created.  Its undo
\* writes the empty code, whatever was there.
SetCode(a, v) ==
  LET l == Field("code", a) IN
  /\ Cached(a) /\ ~applied
  /\ \/ frames = <<>> /\ cur[Field("nonce", a)] # 0
     \/ Marked("created", a) /\ cur[l] = 0 /\ v # 0
  /\ Write(l, v, 0)

\* warm_acc, warm_key: journaled only when the location was cold.
Warm(l) ==
  /\ l.kind \in {"warmAcc", "warmKey"} /\ cur[l] = 0 /\ ~applied
  /\ Write(l, 1, 0)

\* create: the entry is replaced by one with nonce 1, the balance the caller
\* found and no storage; the caller has refused an address with nonce or code.
Create(a) ==
  LET v == cur[Field("value", a)] IN
  /\ Cached(a) /\ ~applied
  /\ cur[Field("nonce", a)] = 0 /\ cur[Field("code", a)] = 0
  /\ frames # <<>>
  /\ cur' = [l \in Loc |->
               CASE l = Field("created", a)              -> 1
                 [] l = Field("nonce", a)                -> 1
                 [] l \in EntryOf(a) /\ l.kind = "store" -> Absent
                 [] OTHER                                -> cur[l]]
  /\ orig' = [l \in SlotLoc |-> IF l.acc = a THEN Absent ELSE orig[l]]
  /\ Emit((<<Wrote(Field("nonce", a), 0)>>
             \o (IF v = 0 THEN <<>> ELSE <<Wrote(Field("value", a), 0)>>))
             \o <<CreatedEvent(a)>>,
          {l \in EntryOf(a) : \/ Observe(cur)[l] # Chain[l]
                              \/ \E k \in DOMAIN frames : frames[k].snap[l] # Chain[l]}
            \cup {l \in {Field("created", a)} : cur[l] # 0})
  /\ UNCHANGED <<logs, frames, base, applied, past>>

\* Mutant: any account can be deleted, as before EIP-6780.
DestroyAny(a) ==
  LET l == Field("destroyed", a) IN
  /\ Cached(a) /\ frames # <<>> /\ ~applied
  /\ Write(l, 1, 0)

\* destroy, by SELFDESTRUCT: only of an account created in this transaction
\* (EIP-6780).  Its undo clears the mark, even one that was set before.
Destroy(a) ==
  LET l == Field("destroyed", a) IN
  /\ Marked("created", a) /\ frames # <<>> /\ ~applied
  /\ Write(l, 1, 0)

Log ==
  /\ frames # <<>> /\ ~applied
  /\ Emit(<<LogEvent>>, {})
  /\ logs' = Append(logs, Len(events) + 1)
  /\ UNCHANGED <<cur, orig, frames, base, applied, past>>

----------------------------------------------------------------------------
(* Checkpoints.                                                            *)

\* checkpoint, when a frame opens.
Checkpoint ==
  /\ Len(frames) < MaxFrames /\ ~applied
  /\ frames' = Append(frames, [cp |-> Len(events), snap |-> Observe(cur)])
  /\ UNCHANGED <<cur, orig, events, logs, base, gaps, applied, past>>

\* The frame ends well: its checkpoint is dropped, its events stay.
Commit ==
  /\ frames # <<>>
  /\ frames' = SubSeq(frames, 1, Len(frames) - 1)
  /\ UNCHANGED <<cur, orig, events, logs, base, gaps, applied, past>>

\* Mutant: the logs of the frame that fails are kept.
RevertKeepsLogs ==
  /\ frames # <<>>
  /\ LET cp == frames[Len(frames)].cp IN
     /\ cur' = Rewound(cp)
     /\ orig' = [l \in SlotLoc |-> IF CreatedSince(cp, l.acc) THEN Absent ELSE orig[l]]
     /\ events' = [i \in DOMAIN events |->
                     IF i \in Since(cp) THEN Reverted ELSE events[i]]
  /\ frames' = SubSeq(frames, 1, Len(frames) - 1)
  /\ UNCHANGED <<logs, base, gaps, applied, past>>

\* revert_to the checkpoint of the innermost frame, which fails.
RevertTo ==
  /\ frames # <<>>
  /\ LET cp == frames[Len(frames)].cp IN
     /\ cur' = Rewound(cp)
     /\ orig' = [l \in SlotLoc |-> IF CreatedSince(cp, l.acc) THEN Absent ELSE orig[l]]
     /\ events' = [i \in DOMAIN events |->
                     IF i \in Since(cp) THEN Reverted ELSE events[i]]
     /\ logs' = SubSeq(logs, 1, Len(logs) - Cardinality(LogsSince(cp)))
  /\ frames' = SubSeq(frames, 1, Len(frames) - 1)
  /\ UNCHANGED <<base, gaps, applied, past>>

----------------------------------------------------------------------------
(* The ends of a transaction.                                              *)

\* apply: a destroyed account becomes an explicitly empty entry.
Apply ==
  /\ frames = <<>> /\ ~applied
  /\ cur' = [l \in Loc |->
               IF ~Marked("destroyed", l.acc) THEN cur[l]
               ELSE CASE l.kind = "store" -> Absent
                      [] l.kind \in AccountKind \cup {"created", "destroyed"} -> 0
                      [] OTHER -> cur[l]]
  /\ orig' = [l \in SlotLoc |-> IF Marked("destroyed", l.acc) THEN Absent ELSE orig[l]]
  /\ applied' = TRUE
  /\ UNCHANGED <<events, logs, frames, base, gaps, past>>

\* Mutant: a slot keeps its original into the next transaction.
ResetKeepsOriginals ==
  LET kept == [l \in Loc |-> IF l \in BackedLoc THEN cur[l] ELSE 0] IN
  /\ cur' = kept
  /\ orig' = orig
  /\ events' = <<>> /\ logs' = <<>> /\ frames' = <<>>
  /\ base' = Observe(kept)
  /\ gaps' = {} /\ applied' = FALSE
  /\ past' = past + Len(events)

\* reset, before the next transaction; also after one that ended in an error,
\* with its frames open and apply never called.
Reset ==
  LET kept == [l \in Loc |-> IF l \in BackedLoc THEN cur[l] ELSE 0] IN
  /\ cur' = kept
  /\ orig' = [l \in SlotLoc |-> cur[l]]
  /\ events' = <<>> /\ logs' = <<>> /\ frames' = <<>>
  /\ base' = Observe(kept)
  /\ gaps' = {} /\ applied' = FALSE
  /\ past' = past + Len(events)

----------------------------------------------------------------------------

Empty == [l \in Loc |-> IF l \in BackedLoc THEN Absent ELSE 0]

Loaded ==
  [l \in Loc |-> IF l.acc \in Held /\ l.kind \in AccountKind THEN Chain[l] ELSE Empty[l]]

Init ==
  /\ cur = Loaded
  /\ orig = [l \in SlotLoc |-> Absent]
  /\ events = <<>> /\ logs = <<>> /\ frames = <<>>
  /\ base = Observe(Loaded)
  /\ gaps = {} /\ applied = FALSE
  /\ past = 0

\* purge: the cache forgets everything, the chain backend answers again.
Purge ==
  /\ cur' = Empty
  /\ orig' = [l \in SlotLoc |-> Absent]
  /\ events' = <<>> /\ logs' = <<>> /\ frames' = <<>>
  /\ base' = Observe(Empty)
  /\ gaps' = {} /\ applied' = FALSE
  /\ past' = past + Len(events)

Next ==
  \/ \E a \in Acc : \/ Merge(a) \/ IncNonce(a)
                    \/ Create(a) \/ Destroy(a)
                    \/ \E v \in Input["value"] : SetValue(a, v)
                    \/ \E v \in Input["code"] : SetCode(a, v)
  \/ \E a \in Acc, k \in Key : \/ InitSlot(a, k)
                               \/ \E v \in Input["store"] : Put(a, k, v)
                               \/ \E v \in Input["temp"] : TPut(a, k, v)
  \/ \E l \in Touched : Warm(l)
  \/ Log
  \/ Checkpoint \/ Commit \/ RevertTo
  \/ Apply \/ Reset \/ Purge

Spec == Init /\ [][Next]_vars

----------------------------------------------------------------------------
(* Properties.                                                             *)

\* Types of the variables; an entry is held whole or not at all, and a slot
\* has its original exactly when it is held.
TypeOK ==
  /\ cur \in [Loc -> Val \cup {Absent}]
  /\ \A l \in TxLoc : cur[l] \in Val
  /\ \A a \in Acc : \A k \in AccountKind : cur[Field(k, a)] = Absent <=> ~Cached(a)
  /\ orig \in [SlotLoc -> Val \cup {Absent}]
  /\ \A l \in SlotLoc : /\ orig[l] = Absent <=> cur[l] = Absent
                        /\ cur[l] # Absent => Cached(l.acc)
  /\ events \in Seq(Event)
  /\ logs \in Seq(Nat)
  /\ frames \in Seq(Frame)
  /\ base \in [Loc -> Val]
  /\ gaps \subseteq Loc
  /\ applied \in BOOLEAN
  /\ past \in Nat

Restores(k, l) == Observe(Rewound(frames[k].cp))[l] = frames[k].snap[l]

\* Returning to any open frame's checkpoint (state.rs, revert_to: "Revert all
\* state mutations since the given checkpoint") brings back what was observed
\* there, whatever frames were committed or reverted in between, at every
\* location that no event overwrote without recording it.
RewindRestores ==
  \A k \in DOMAIN frames : \A l \in Loc \ gaps : Restores(k, l)

\* The journal records every value it overwrites, except the balance of an
\* address that is not the chain's when a create replaces its entry, and the mark of
\* an account that self-destructs again, both of addresses new in this
\* transaction: code, nonces, storage, transient
\* cells and warm sets never go unrecorded inside a frame.
GapsAreKnown ==
  \A l \in gaps : /\ l.kind \in {"value", "destroyed"}
                   /\ base[Field("nonce", l.acc)] = 0
                   /\ base[Field("code", l.acc)] = 0

\* The logs kept for the receipt are exactly those of frames not reverted, in
\* the order of emission (revert_to cuts them by counting live log events).
LogsAreLive ==
  /\ {logs[i] : i \in DOMAIN logs} = LogsSince(0)
  /\ \A i, j \in DOMAIN logs : i < j => logs[i] < logs[j]

\* The original of a slot, from which SSTORE computes its gas and refund, is
\* the value at the start of the transaction through every revert, creation,
\* deletion and refetch.
OriginalIsTxStart ==
  \A l \in SlotLoc : orig[l] # Absent /\ ~applied => orig[l] = base[l]

\* What apply deletes was created by this transaction (EIP-6780), also when
\* frames that created or destroyed it were reverted.
DestroyedWereCreated ==
  \A a \in Acc : Marked("destroyed", a) =>
    /\ Marked("created", a)
    /\ base[Field("nonce", a)] = 0 /\ base[Field("code", a)] = 0

\* state.rs:75 without exception, of balances: a create that is reverted gives
\* back the balance the address had.
RevertKeepsBalances ==
  \A k \in DOMAIN frames : \A a \in Acc : Restores(k, Field("value", a))
=============================================================================
