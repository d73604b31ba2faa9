------------------------------- MODULE Settle -------------------------------
(***************************************************************************)
(* A transaction around its execution: Executor::run of                    *)
(* yevm-core/src/exe.rs before the first frame and after the last, with    *)
(* `intrinsic`, `finalized` and the authorization list of eip7702.rs.      *)
(*                                                                         *)
(* The execution itself (module Executor) is abstract: it spends gas,      *)
(* earns a refund, and succeeds, fails, or stops without a settlement.     *)
(* Transactions follow one another; the caller goes on after an error, as  *)
(* run_with_block of yevm-wasm does, or not, as it likes.                  *)
(***************************************************************************)
EXTENDS Integers, Sequences, FiniteSets, FiniteSetsExt

CONSTANTS
  Acc,        \* addresses
  None,       \* no address; also the empty code
  Deployed,   \* the code of a contract; any other code is a delegation
  W,          \* balances, prices and fees are modulo W
  MaxNonce,   \* u64::MAX, and the bound on nonces
  Coinbase, BaseFee, BlockGas,          \* of the block's head
  Tx,         \* the transactions that may come, see TxType
  AuthCost,   \* intrinsic gas of one tuple (25000)
  AuthRefund, \* refund for a tuple of an account that exists (12500)
  Quotient,   \* the part of the gas spent that may be refunded (5)
  Refunds,    \* refunds an execution may earn
  Genesis,    \* balances, nonces and codes before the first transaction
  MaxTxs      \* bound on the transactions tried

Tuple  == [by : Acc \cup {None}, chain : BOOLEAN, nonce : Nat, to : Acc \cup {None}]
TxType == [by : Acc, to : Acc, eth : Nat, gas : Nat, legacy : BOOLEAN,
           cap : Nat, prio : Nat, cost : Nat, floor : Nat, blob : Nat,
           auths : Seq(Tuple)]

ASSUME SettleAssumption ==
  /\ IsFiniteSet(Acc)
  /\ W \in Nat \ {0} /\ MaxNonce \in Nat /\ Quotient \in Nat \ {0}
  /\ Coinbase \in Acc /\ BaseFee \in 0 .. W - 1 /\ BlockGas \in Nat
  /\ AuthCost \in Nat /\ AuthRefund \in Nat /\ Refunds \subseteq Nat
  /\ None \notin Acc /\ Deployed \notin Acc \cup {None}
  /\ Tx \subseteq TxType /\ Tx # {} /\ MaxTxs \in Nat
  /\ \A t \in Tx : t.cap < W /\ t.prio < W /\ t.eth < W
  /\ Genesis \in [bal : [Acc -> 0 .. W - 1], nonce : [Acc -> 0 .. MaxNonce],
                  code : [Acc -> Acc \cup {None, Deployed}]]

VARIABLES
  bal, nonce, code,   \* the accounts
  held,     \* the accounts in the cache: reading any other is a fetch
  phase,    \* where Executor::run is
  tx,       \* the transaction in hand
  at,       \* its next tuple
  refund,   \* the refund so far: of its tuples, then of its execution too
  price,    \* its effective gas price
  spent,    \* the gas its execution spent
  receipt,  \* the last transaction settled, with its gas.spent and gas.finalized
  tried,    \* history: transactions tried
  owed,     \* history: paid up front by the transaction in hand
  burned,   \* history: base fees and blob fees of settled transactions
  lost,     \* history: paid up front by transactions never settled
  minted,   \* history: the price of gas charged beyond the gas limit
  done,     \* history: each nonce used, by a transaction or a tuple
  torn      \* history: authorities whose tuple ended between code and nonce

accounts == <<bal, nonce, code>>
ether    == <<owed, burned, lost, minted>>
settleVars == <<accounts, held, phase, tx, at, refund, price, spent, receipt, tried,
                ether, done, torn>>

Lesser(a, b)  == IF a < b THEN a ELSE b
Greater(a, b) == IF a < b THEN b ELSE a

Needs(t) == {t.by, t.to, Coinbase}

\* The run ends, well or not, and the caller may start the next.
Leave == phase' = "idle" /\ tried' = tried + 1

----------------------------------------------------------------------------
(* Before anything is charged.                                             *)

Valid(t) == /\ t.legacy \/ (BaseFee <= t.cap /\ t.prio <= t.cap)
            /\ t.gas <= BlockGas

\* An account cannot be fetched, or a check fails: nothing has changed.
Reject(t) ==
  /\ phase = "idle" /\ tried < MaxTxs
  /\ \/ \E some \in {{}, {t.by}, {t.by, Coinbase}} :
          /\ ~(Needs(t) \subseteq held \cup some)
          /\ held' = held \cup some
     \/ ~Valid(t) /\ held' = held \cup Needs(t)
  /\ Leave
  /\ UNCHANGED <<accounts, tx, at, refund, price, spent, receipt, ether, done, torn>>

\* The sender's nonce is used before the tuples are looked at.
Begin(t) ==
  /\ phase = "idle" /\ tried < MaxTxs /\ nonce[t.by] < MaxNonce
  /\ Valid(t)
  /\ held' = held \cup Needs(t)
  /\ nonce' = [nonce EXCEPT ![t.by] = @ + 1]
  /\ done' = Append(done, <<t.by, nonce[t.by]>>)
  /\ phase' = "auths" /\ tx' = t /\ at' = 1 /\ refund' = 0
  /\ UNCHANGED <<bal, code, price, spent, receipt, tried, ether, torn>>

----------------------------------------------------------------------------
(* apply_authorization_list: one tuple a step.                             *)

InAuths == phase = "auths" /\ at <= Len(tx.auths)
Signed(u)  == u.by # None /\ u.chain /\ u.nonce # MaxNonce
Current(u) == code[u.by] # Deployed /\ u.nonce = nonce[u.by]
Exists(a)  == bal[a] # 0 \/ nonce[a] # 0 \/ code[a] # None

SkipTuple ==
  LET u == tx.auths[at] IN
  /\ InAuths
  /\ IF Signed(u) THEN ~Current(u) /\ held' = held \cup {u.by} ELSE held' = held
  /\ at' = at + 1
  /\ UNCHANGED <<accounts, phase, tx, refund, price, spent, receipt, tried, ether, done, torn>>

\* Mutant: clearing a delegation does not use the nonce.
ApplyTupleOnce ==
  LET u == tx.auths[at] IN
  /\ InAuths /\ Signed(u) /\ Current(u)
  /\ code' = [code EXCEPT ![u.by] = u.to]
  /\ nonce' = IF u.to = None THEN nonce ELSE [nonce EXCEPT ![u.by] = @ + 1]
  /\ refund' = refund + (IF Exists(u.by) THEN AuthRefund ELSE 0)
  /\ done' = Append(done, <<u.by, u.nonce>>)
  /\ held' = held \cup ({u.by, u.to} \ {None})
  /\ at' = at + 1
  /\ UNCHANGED <<bal, phase, tx, price, spent, receipt, tried, ether, torn>>

\* set_auth or the empty code, then inc_nonce.
ApplyTuple ==
  LET u == tx.auths[at] IN
  /\ InAuths /\ Signed(u) /\ Current(u)
  /\ code' = [code EXCEPT ![u.by] = u.to]
  /\ nonce' = [nonce EXCEPT ![u.by] = @ + 1]
  /\ refund' = refund + (IF Exists(u.by) THEN AuthRefund ELSE 0)
  /\ done' = Append(done, <<u.by, u.nonce>>)
  /\ held' = held \cup ({u.by, u.to} \ {None})
  /\ at' = at + 1
  /\ UNCHANGED <<bal, phase, tx, price, spent, receipt, tried, ether, torn>>

\* The authority cannot be fetched; or its code is set and then the target
\* cannot, so the nonce of the tuple is not used.
TupleFails ==
  LET u == tx.auths[at] IN
  /\ InAuths /\ Signed(u)
  /\ \/ /\ u.by \notin held
        /\ UNCHANGED <<code, held, done, torn>>
     \/ /\ Current(u) /\ u.to \notin held \cup {u.by, None}
        /\ code' = [code EXCEPT ![u.by] = u.to]
        /\ held' = held \cup {u.by}
        /\ done' = Append(done, <<u.by, u.nonce>>)
        /\ torn' = torn \cup {u.by}
  /\ Leave
  /\ UNCHANGED <<bal, nonce, tx, at, refund, price, spent, receipt, ether>>

----------------------------------------------------------------------------
(* intrinsic.                                                              *)

Effective(t) ==
  IF t.legacy THEN t.cap ELSE Lesser(t.cap, (BaseFee + t.prio) % W)

\* The checks that come after nonce and tuples.
PriceRefused ==
  /\ phase = "auths" /\ at > Len(tx.auths)
  /\ tx.cap < BaseFee \/ Effective(tx) * tx.gas >= W
  /\ Leave
  /\ UNCHANGED <<accounts, held, tx, at, refund, price, spent, receipt, ether, done, torn>>

\* The gas limit and the blobs are paid for, from whatever the balance is (the
\* check of funds is disabled); only then is the gas limit compared.
Charge ==
  LET upfront == (Effective(tx) * tx.gas + tx.blob) % W IN
  /\ phase = "auths" /\ at > Len(tx.auths)
  /\ BaseFee <= tx.cap /\ Effective(tx) * tx.gas < W
  /\ bal' = [bal EXCEPT ![tx.by] = (@ - upfront) % W]
  /\ price' = Effective(tx)
  /\ IF tx.gas < tx.cost + AuthCost * Len(tx.auths)
     THEN Leave /\ lost' = (lost + upfront) % W /\ UNCHANGED owed
     ELSE phase' = "exec" /\ owed' = upfront /\ UNCHANGED <<tried, lost>>
  /\ UNCHANGED <<nonce, code, held, tx, at, refund, spent, receipt, burned, minted,
                 done, torn>>

----------------------------------------------------------------------------
(* The execution.                                                          *)

Spendings(t) == t.cost + AuthCost * Len(t.auths) .. t.gas

\* transfer.
Moved(t) ==
  LET paid == [bal EXCEPT ![t.by] = (@ - t.eth) % W]
  IN  [paid EXCEPT ![t.to] = (@ + t.eth) % W]

Succeed(s, r) ==
  /\ phase = "exec"
  /\ bal' = Moved(tx) /\ spent' = s /\ refund' = refund + r
  /\ phase' = "settle"
  /\ UNCHANGED <<nonce, code, held, tx, at, price, receipt, tried, ether, done, torn>>

\* The first frame reverts or halts: what it earned goes, what the tuples
\* earned stays.
Fail(s) ==
  /\ phase = "exec"
  /\ spent' = s /\ phase' = "settle"
  /\ UNCHANGED <<accounts, held, tx, at, refund, price, receipt, tried, ether, done, torn>>

\* A fetch fails (an error) or the steps run out (not an error): finalized is
\* not reached, and the ether may have moved.
Stop ==
  /\ phase = "exec"
  /\ bal' \in {bal, Moved(tx)}
  /\ lost' = (lost + owed) % W /\ owed' = 0
  /\ Leave
  /\ UNCHANGED <<nonce, code, held, tx, at, refund, price, spent, receipt, burned, minted,
                 done, torn>>

----------------------------------------------------------------------------
(* finalized.                                                              *)

\* Mutant: the refund is not capped.
FinalGasUncapped == Greater(Greater(spent - refund, 0), tx.floor)

FinalGas ==
  Greater(Greater(spent - Lesser(refund, spent \div Quotient), 0), tx.floor)

PriorityFee ==
  IF tx.legacy THEN (price - BaseFee) % W
               ELSE Lesser(tx.prio, (price - BaseFee) % W)

\* Mutant: the tip is for the gas spent, refunded or not.
TipForSpent == (spent * PriorityFee) % W

Tip == (FinalGas * PriorityFee) % W

Finalize ==
  LET returned == Greater(tx.gas - FinalGas, 0)
      paidBack == [bal EXCEPT ![tx.by] = (@ + returned * price) % W]
  IN
  /\ phase = "settle"
  /\ bal' = [paidBack EXCEPT ![Coinbase] = (@ + Tip) % W]
  /\ receipt' = [tx |-> tx, spent |-> spent, final |-> FinalGas]
  /\ burned' = (burned + FinalGas * BaseFee + tx.blob) % W
  /\ minted' = (minted + Greater(FinalGas - tx.gas, 0) * price) % W
  /\ owed' = 0
  /\ Leave
  /\ UNCHANGED <<nonce, code, held, tx, at, refund, price, spent, lost, done, torn>>

----------------------------------------------------------------------------

SettleInit ==
  /\ bal = Genesis.bal /\ nonce = Genesis.nonce /\ code = Genesis.code
  /\ held = {} /\ phase = "idle"
  /\ tx = CHOOSE t \in Tx : TRUE
  /\ at = 1 /\ refund = 0 /\ price = 0 /\ spent = 0
  /\ receipt = None /\ tried = 0
  /\ owed = 0 /\ burned = 0 /\ lost = 0 /\ minted = 0
  /\ done = <<>> /\ torn = {}

SettleNext ==
  \/ \E t \in Tx : Reject(t) \/ Begin(t)
  \/ SkipTuple \/ ApplyTuple \/ TupleFails
  \/ PriceRefused \/ Charge
  \/ \E s \in Spendings(tx) : Fail(s) \/ \E r \in Refunds : Succeed(s, r)
  \/ Stop \/ Finalize

----------------------------------------------------------------------------
(* Properties.                                                             *)

SettleTypeOK ==
  /\ bal \in [Acc -> 0 .. W - 1] /\ nonce \in [Acc -> 0 .. MaxNonce]
  /\ code \in [Acc -> Acc \cup {None, Deployed}]
  /\ held \subseteq Acc /\ phase \in {"idle", "auths", "exec", "settle"}
  /\ tx \in Tx /\ at \in 1 .. Len(tx.auths) + 1
  /\ refund \in Nat /\ price \in 0 .. W - 1 /\ spent \in Nat
  /\ phase = "settle" => spent <= tx.gas
  /\ tried \in 0 .. MaxTxs /\ (phase # "idle" => tried < MaxTxs)
  /\ {owed, burned, lost, minted} \subseteq 0 .. W - 1
  /\ owed # 0 => phase \in {"exec", "settle"}
  /\ done \in Seq(Acc \X (0 .. MaxNonce)) /\ torn \subseteq Acc

\* All ether there is, modulo W.
Ether == (MapThenSumSet(LAMBDA a : bal[a], Acc) + burned + owed + lost - minted) % W

\* A nonce is used once, by a transaction of the account or by a tuple it
\* signed, and it is behind the account then; so no tuple takes effect twice.
\* A tuple that lost its nonce to a failed fetch is the exception (set_auth
\* comes before the fetch of the target, and inc_nonce after it).
NoncesUsedOnce ==
  /\ \A i \in DOMAIN done :
       done[i][1] \notin torn => done[i][2] < nonce[done[i][1]]
  /\ \A i, j \in DOMAIN done :
       done[i] = done[j] /\ done[i][1] \notin torn => i = j

\* The gas of the receipt: at least the floor and all but a fifth of what was
\* spent, at most what was spent or the floor (EIP-3529, EIP-7623).
ReceiptIsFair ==
  receipt # None =>
    /\ receipt.tx.floor <= receipt.final
    /\ receipt.final <= Greater(receipt.spent, receipt.tx.floor)
    /\ receipt.final >= receipt.spent - receipt.spent \div Quotient
=============================================================================
