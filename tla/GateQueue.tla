----------------------------- MODULE GateQueue -----------------------------
(***************************************************************************)
(* The queue of signed transactions of yevm-gate: rows of the SQLite table *)
(* `txs`, which requests that run side by side post, submit and delete     *)
(* (yevm-gate/src/main.rs, yevm-gate/src/db.rs).                           *)
(*                                                                         *)
(* A handler gives way to the others at each await, so each query and each *)
(* message to an upstream node is a step of its own.  A request may end at *)
(* any await: the query or the message fails, the client hangs up, or the  *)
(* process dies.  Rows outlive them all.  An entry of a batch that the     *)
(* gate cannot decode, or forwards, touches no row and is left out, as are *)
(* the sessions: `who` is the caller the middleware let in.                *)
(***************************************************************************)
EXTENDS Gate, Integers, Sequences, FiniteSets

CONSTANTS
  Tx,            \* transactions, by hash
  NoChain,       \* the chain of a transaction that has no row
  From,          \* the signer of each transaction
  Offers,        \* batches a client may post, each with the chain of its URL
  MaxTotal,      \* MAX_SIGNED_TOTAL: 1024 * 1024
  MaxPerSender   \* MAX_SIGNED_PER_SENDER: 256

ASSUME GateQueueAssumption ==
  /\ NoChain \notin Chain
  /\ Admin \in User /\ From \in [Tx -> User]
  /\ Offers \subseteq (Seq(Tx) \ {<<>>}) \X Chain
  /\ MaxTotal \in Nat \ {0} /\ MaxPerSender \in Nat \ {0}
  /\ IsFiniteSet(Tx) /\ IsFiniteSet(Req)

VARIABLES
  txs,    \* the table: the chain each transaction is held for, or NoChain
  req,    \* the requests
  sent    \* history: what an upstream node accepted, with the chain

vars == <<txs, req, sent>>

Held           == {t \in Tx : txs[t] # NoChain}
HeldFrom(u)    == {t \in Held : From[t] = u}

Idle == [step |-> "idle", what |-> <<>>, chain |-> NoChain, who |-> Admin]

\* `what` is the rest of the batch of a post, or the one transaction of the
\* others; `who` matters to the others only.
Request == [step : {"total", "signer", "insert", "resolve", "send", "drop", "delete"},
            what : Seq(Tx) \ {<<>>}, chain : Chain, who : User] \cup {Idle}

Init == txs = [t \in Tx |-> NoChain] /\ req = [r \in Req |-> Idle] /\ sent = {}

At(r, step)     == req[r].step = step
Entry(r)        == Head(req[r].what)
Goes(r, step)   == req' = [req EXCEPT ![r].step = step]
Ends(r)         == req' = [req EXCEPT ![r] = Idle]

----------------------------------------------------------------------------
(* Posts: proxy, handle_batch and store_raw_tx.                            *)

Post(r) ==
  /\ At(r, "idle")
  /\ \E offer \in Offers :
       req' = [req EXCEPT ![r] = [step |-> "total", what |-> offer[1],
                                  chain |-> offer[2], who |-> Admin]]
  /\ UNCHANGED <<txs, sent>>

\* The entry is answered, with its hash or an error; the batch goes on.
NextEntry(r) ==
  IF Len(req[r].what) = 1 THEN Ends(r)
  ELSE req' = [req EXCEPT ![r].what = Tail(@), ![r].step = "total"]

\* A full queue and a query that fails both refuse the entry.
CountTotal(r) ==
  /\ At(r, "total")
  /\ \/ Cardinality(Held) < MaxTotal /\ Goes(r, "signer")
     \/ NextEntry(r)
  /\ UNCHANGED <<txs, sent>>

\* Mutant: a sender at its cap is let through.
CountForSignerPast(r) ==
  /\ At(r, "signer")
  /\ \/ Cardinality(HeldFrom(From[Entry(r)])) <= MaxPerSender /\ Goes(r, "insert")
     \/ NextEntry(r)
  /\ UNCHANGED <<txs, sent>>

CountForSigner(r) ==
  /\ At(r, "signer")
  /\ \/ Cardinality(HeldFrom(From[Entry(r)])) < MaxPerSender /\ Goes(r, "insert")
     \/ NextEntry(r)
  /\ UNCHANGED <<txs, sent>>

\* INSERT OR IGNORE: a row that is there stays as it is.
Stored(t, c) == [txs EXCEPT ![t] = IF @ = NoChain THEN c ELSE @]

Insert(r) ==
  /\ At(r, "insert")
  /\ txs' = Stored(Entry(r), req[r].chain) \/ txs' = txs
  /\ NextEntry(r)
  /\ UNCHANGED sent

----------------------------------------------------------------------------
(* Submits and deletes, of the signer or the administrator.                *)

Owned(who, t) == t \in Held /\ who \in {Admin, From[t]}

SubmitOpen(r) ==
  /\ At(r, "idle")
  /\ \E t \in Tx, who \in User :
       /\ Owned(who, t)
       /\ req' = [req EXCEPT ![r] = [step |-> "resolve", what |-> <<t>>,
                                     chain |-> txs[t], who |-> who]]
  /\ UNCHANGED <<txs, sent>>

\* The registry has the chain, or the endpoint the caller names serves it.
Resolve(r) ==
  /\ At(r, "resolve")
  /\ Goes(r, "send") \/ Ends(r)
  /\ UNCHANGED <<txs, sent>>

\* Mutant: a refusal is taken for an answer.
SendDropsRefused(r) ==
  /\ At(r, "send")
  /\ \/ sent' = sent \cup {<<Entry(r), req[r].chain>>} /\ (Goes(r, "drop") \/ Ends(r))
     \/ sent' = sent /\ Goes(r, "drop")
  /\ UNCHANGED txs

\* The upstream takes the transaction and says so, takes it and is not heard,
\* or does not take it.
Send(r) ==
  /\ At(r, "send")
  /\ \/ sent' = sent \cup {<<Entry(r), req[r].chain>>} /\ (Goes(r, "drop") \/ Ends(r))
     \/ sent' = sent /\ Ends(r)
  /\ UNCHANGED txs

DeleteOpen(r) ==
  /\ At(r, "idle")
  /\ \E t \in Tx, who \in User :
       /\ Owned(who, t)
       /\ req' = [req EXCEPT ![r] = [step |-> "delete", what |-> <<t>>,
                                     chain |-> txs[t], who |-> who]]
  /\ UNCHANGED <<txs, sent>>

\* DELETE, by hash alone: of api_submit after the send, and of api_delete.
Drop(r) ==
  /\ At(r, "drop") \/ At(r, "delete")
  /\ txs' = [txs EXCEPT ![Entry(r)] = NoChain] \/ txs' = txs
  /\ Ends(r)
  /\ UNCHANGED sent

----------------------------------------------------------------------------
\* The client hangs up, and the handler is dropped at its await.
HangUp(r) == ~ At(r, "idle") /\ Ends(r) /\ UNCHANGED <<txs, sent>>

Restart == req' = [r \in Req |-> Idle] /\ UNCHANGED <<txs, sent>>

Next ==
  \/ \E r \in Req :
       \/ Post(r) \/ CountTotal(r) \/ CountForSigner(r) \/ Insert(r)
       \/ SubmitOpen(r) \/ Resolve(r) \/ Send(r) \/ DeleteOpen(r) \/ Drop(r)
       \/ HangUp(r)
  \/ Restart

Spec == Init /\ [][Next]_vars

----------------------------------------------------------------------------
TypeOK ==
  /\ txs \in [Tx -> Chain \cup {NoChain}]
  /\ req \in [Req -> Request]
  /\ sent \in SUBSET (Tx \X Chain)

\* Transactions of `of` are held up to `cap`, and for each other request that
\* counted while there was still room, one more.
Overshoots(held, cap) == Cardinality(held) <= cap + Cardinality(Req) - 1

\* The caps are read some awaits before the row is written (count_total,
\* count_for_signer and then insert, store_raw_tx): requests side by side may
\* pass them, by one transaction for each request but one and by no more, for
\* the queue and for each sender.
OvershootIsBounded ==
  /\ Overshoots(Held, MaxTotal)
  /\ \A u \in User : Overshoots(HeldFrom(u), MaxPerSender)

\* A transaction leaves the queue only when some upstream node has accepted
\* it, or by a delete of its signer or the administrator, whatever ends, fails
\* or is sent twice in between (api_submit, api_delete).
NothingVanishes ==
  [][\A t \in Tx : txs[t] # NoChain /\ txs'[t] = NoChain =>
       \/ \E c \in Chain : <<t, c>> \in sent
       \/ \E r \in Req : /\ At(r, "delete") /\ Entry(r) = t
                       /\ req[r].who \in {Admin, From[t]}]_vars

\* What main.rs:417 says of a submit: "The queue entry is dropped only once
\* the upstream accepted it", the upstream of the chain the entry is for.
DroppedOnceAccepted ==
  [][\A t \in Tx : txs[t] # NoChain /\ txs'[t] = NoChain =>
       \/ <<t, txs[t]>> \in sent
       \/ \E r \in Req : At(r, "delete") /\ Entry(r) = t]_vars
=============================================================================
