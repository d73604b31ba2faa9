---------------------------- MODULE BlockProofs ----------------------------
(***************************************************************************)
(* Proofs about Block, for all values of its constants.                    *)
(***************************************************************************)
EXTENDS Block, Sums, SequenceTheorems, TLAPS

----------------------------------------------------------------------------
(* Transactions.                                                           *)

LEMMA TxFacts ==
  ASSUME NEW t \in Tx
  PROVE  /\ t \in TxType
         /\ t.by \in Acc /\ t.to \in Acc /\ t.eth \in 0 .. W - 1 /\ t.gas \in Nat
         /\ t.cap \in 0 .. W - 1 /\ t.prio \in 0 .. W - 1
         /\ t.cost \in Nat /\ t.floor \in Nat /\ t.blob \in Nat
         /\ t.auths \in Seq(Tuple) /\ Len(t.auths) \in Nat
  <1>1. t \in TxType /\ t.cap < W /\ t.prio < W /\ t.eth < W /\ W \in Nat
    BY SettleAssumption
  <1>2. /\ t.by \in Acc /\ t.to \in Acc /\ t.eth \in Nat /\ t.gas \in Nat
        /\ t.cap \in Nat /\ t.prio \in Nat
        /\ t.cost \in Nat /\ t.floor \in Nat /\ t.blob \in Nat
        /\ t.auths \in Seq(Tuple)
    BY <1>1 DEF TxType
  <1>3. QED
    BY <1>1, <1>2

\* Whatever is reduced modulo W is a balance.
LEMMA Reduced ==
  ASSUME NEW x \in Int
  PROVE  x % W \in 0 .. W - 1
  BY SettleAssumption

LEMMA Credited ==
  ASSUME NEW b \in [Acc -> 0 .. W - 1], NEW a \in Acc, NEW x \in Int
  PROVE  [b EXCEPT ![a] = (@ + x) % W] \in [Acc -> 0 .. W - 1]
  <1>1. b[a] \in Int
    BY SettleAssumption
  <1>2. (b[a] + x) % W \in 0 .. W - 1
    BY <1>1, Reduced
  <1>3. QED
    BY <1>2

LEMMA Debited ==
  ASSUME NEW b \in [Acc -> 0 .. W - 1], NEW a \in Acc, NEW x \in Int
  PROVE  [b EXCEPT ![a] = (@ - x) % W] \in [Acc -> 0 .. W - 1]
  <1>1. b[a] \in Int
    BY SettleAssumption
  <1>2. (b[a] - x) % W \in 0 .. W - 1
    BY <1>1, Reduced
  <1>3. QED
    BY <1>2

LEMMA MovedType ==
  ASSUME bal \in [Acc -> 0 .. W - 1], NEW t \in Tx
  PROVE  Moved(t) \in [Acc -> 0 .. W - 1]
  <1>1. t.by \in Acc /\ t.to \in Acc /\ t.eth \in Int
    BY TxFacts, SettleAssumption
  <1>2. QED
    BY <1>1, Credited, Debited DEF Moved

LEMMA EffectiveType ==
  ASSUME NEW t \in Tx
  PROVE  Effective(t) \in 0 .. W - 1
  <1>1. t.cap \in 0 .. W - 1 /\ t.prio \in 0 .. W - 1 /\ BaseFee \in 0 .. W - 1 /\ W \in Nat
    BY TxFacts, SettleAssumption
  <1>2. (BaseFee + t.prio) % W \in 0 .. W - 1
    BY <1>1, Reduced
  <1>3. QED
    BY <1>1, <1>2 DEF Effective, Lesser

LEMMA InHand ==
  ASSUME SettleTypeOK, InAuths
  PROVE  /\ tx.auths[at] \in Tuple /\ at + 1 \in 1 .. Len(tx.auths) + 1
         /\ phase = "auths" /\ tx \in Tx
  <1>1. tx \in Tx /\ tx.auths \in Seq(Tuple) /\ Len(tx.auths) \in Nat
    BY TxFacts DEF SettleTypeOK
  <1>2. at \in 1 .. Len(tx.auths)
    BY <1>1 DEF SettleTypeOK, InAuths
  <1>3. QED
    BY <1>1, <1>2 DEF InAuths

\* A nonce that is not the last can be used.
LEMMA Used ==
  ASSUME SettleTypeOK, NEW a \in Acc, nonce[a] < MaxNonce
  PROVE  /\ [nonce EXCEPT ![a] = @ + 1] \in [Acc -> 0 .. MaxNonce]
         /\ <<a, nonce[a]>> \in Acc \X (0 .. MaxNonce)
         /\ Append(done, <<a, nonce[a]>>) \in Seq(Acc \X (0 .. MaxNonce))
  <1>1. nonce[a] \in 0 .. MaxNonce /\ MaxNonce \in Nat
    BY SettleAssumption DEF SettleTypeOK
  <1>2. nonce[a] + 1 \in 0 .. MaxNonce
    BY <1>1
  <1>3. [nonce EXCEPT ![a] = @ + 1] \in [Acc -> 0 .. MaxNonce]
    BY <1>2 DEF SettleTypeOK
  <1>4. <<a, nonce[a]>> \in Acc \X (0 .. MaxNonce)
    BY <1>1
  <1>5. QED
    BY <1>3, <1>4 DEF SettleTypeOK

LEMMA RejectType ==
  ASSUME SettleTypeOK, NEW t \in Tx, Reject(t)
  PROVE  SettleTypeOK'
  <1>1. held' \subseteq Acc
    <2>1. held \subseteq Acc /\ {t.by, t.to, Coinbase} \subseteq Acc
      BY TxFacts, SettleAssumption DEF SettleTypeOK
    <2>2. \/ \E some \in {{}, {t.by}, {t.by, Coinbase}} : held' = held \cup some
          \/ held' = held \cup Needs(t)
      BY DEF Reject
    <2>3. QED
      BY <2>1, <2>2, Zenon DEF Needs
  <1>2. tried' \in 0 .. MaxTxs
    BY SettleAssumption DEF Reject, Leave, SettleTypeOK
  <1>3. QED
    BY <1>1, <1>2 DEF Reject, Leave, SettleTypeOK, accounts, ether

LEMMA BeginType ==
  ASSUME SettleTypeOK, NEW t \in Tx, Begin(t)
  PROVE  SettleTypeOK'
  <1>1. held' \subseteq Acc /\ t.by \in Acc
    BY TxFacts, SettleAssumption DEF Begin, SettleTypeOK, Needs
  <1>2. nonce' \in [Acc -> 0 .. MaxNonce] /\ done' \in Seq(Acc \X (0 .. MaxNonce))
    BY <1>1, Used DEF Begin
  <1>3. at' \in 1 .. Len(t.auths) + 1 /\ refund' \in Nat
    BY TxFacts DEF Begin
  <1>4. QED
    BY <1>1, <1>2, <1>3 DEF Begin, SettleTypeOK, ether

LEMMA SkipTupleType ==
  ASSUME SettleTypeOK, SkipTuple
  PROVE  SettleTypeOK'
  <1> DEFINE u == tx.auths[at]
  <1>1. u \in Tuple /\ at + 1 \in 1 .. Len(tx.auths) + 1
    BY InHand DEF SkipTuple
  <1>2. held' \subseteq Acc
    BY <1>1 DEF SkipTuple, Signed, Tuple, SettleTypeOK
  <1>3. QED
    BY <1>1, <1>2 DEF SkipTuple, SettleTypeOK, accounts, ether

LEMMA ApplyTupleType ==
  ASSUME SettleTypeOK, ApplyTuple
  PROVE  SettleTypeOK'
  <1> DEFINE u == tx.auths[at]
  <1>1. /\ u \in Tuple /\ at + 1 \in 1 .. Len(tx.auths) + 1
        /\ phase = "auths" /\ phase' = phase /\ tx' = tx
    BY InHand DEF ApplyTuple
  <1>2. u.by \in Acc /\ u.to \in Acc \cup {None} /\ u.nonce = nonce[u.by]
    BY <1>1 DEF ApplyTuple, Signed, Current, Tuple
  <1>3. nonce[u.by] < MaxNonce
    <2>1. nonce[u.by] \in 0 .. MaxNonce /\ nonce[u.by] # MaxNonce /\ MaxNonce \in Nat
      BY <1>2, SettleAssumption DEF ApplyTuple, Signed, SettleTypeOK
    <2>2. QED
      BY <2>1
  <1>4. nonce' \in [Acc -> 0 .. MaxNonce] /\ done' \in Seq(Acc \X (0 .. MaxNonce))
    BY <1>2, <1>3, Used DEF ApplyTuple
  <1>5. code' \in [Acc -> Acc \cup {None, Deployed}]
    BY <1>2 DEF ApplyTuple, SettleTypeOK
  <1>6. held' \subseteq Acc
    BY <1>2 DEF ApplyTuple, SettleTypeOK
  <1>7. refund' \in Nat
    BY SettleAssumption DEF ApplyTuple, SettleTypeOK
  <1>8. at' \in 1 .. Len(tx'.auths) + 1
    BY <1>1 DEF ApplyTuple
  <1>9. QED
    BY <1>1, <1>4, <1>5, <1>6, <1>7, <1>8 DEF ApplyTuple, SettleTypeOK, ether

LEMMA TupleFailsType ==
  ASSUME SettleTypeOK, TupleFails
  PROVE  SettleTypeOK'
  <1> DEFINE u == tx.auths[at]
  <1>1. u \in Tuple /\ phase = "auths"
    BY InHand DEF TupleFails
  <1>2. u.by \in Acc /\ u.to \in Acc \cup {None}
    BY <1>1 DEF TupleFails, Signed, Tuple
  <1>3. tried' \in 0 .. MaxTxs /\ phase' = "idle" /\ owed' = 0
    BY <1>1, SettleAssumption DEF TupleFails, Leave, SettleTypeOK, ether
  <1>4. code' \in [Acc -> Acc \cup {None, Deployed}] /\ held' \subseteq Acc
    BY <1>2 DEF TupleFails, SettleTypeOK
  <1>5. \/ done' = done /\ torn' = torn
        \/ Current(u) /\ done' = Append(done, <<u.by, u.nonce>>) /\ torn' = torn \cup {u.by}
    BY DEF TupleFails
  <1>6. done' \in Seq(Acc \X (0 .. MaxNonce)) /\ torn' \subseteq Acc
    <2> HIDE DEF u
    <2>1. CASE done' = done /\ torn' = torn
      BY <2>1 DEF SettleTypeOK
    <2>2. CASE Current(u) /\ done' = Append(done, <<u.by, u.nonce>>) /\ torn' = torn \cup {u.by}
      <3>1. u.nonce \in 0 .. MaxNonce
        BY <1>2, <2>2 DEF Current, SettleTypeOK
      <3>2. <<u.by, u.nonce>> \in Acc \X (0 .. MaxNonce)
        BY <1>2, <3>1
      <3>3. done \in Seq(Acc \X (0 .. MaxNonce)) /\ torn \subseteq Acc
        BY DEF SettleTypeOK
      <3>4. Append(done, <<u.by, u.nonce>>) \in Seq(Acc \X (0 .. MaxNonce))
        BY <3>2, <3>3, AppendProperties
      <3>5. torn \cup {u.by} \subseteq Acc
        BY <1>2, <3>3
      <3>6. QED
        BY <2>2, <3>4, <3>5
    <2>3. QED
      BY <1>5, <2>1, <2>2
  <1>7. UNCHANGED <<bal, nonce, tx, at, refund, price, spent, owed, burned, lost, minted>>
    BY DEF TupleFails, ether
  <1> HIDE DEF u
  <1>8. /\ bal' \in [Acc -> 0 .. W - 1] /\ nonce' \in [Acc -> 0 .. MaxNonce]
        /\ tx' \in Tx /\ at' \in 1 .. Len(tx'.auths) + 1
        /\ refund' \in Nat /\ price' \in 0 .. W - 1 /\ spent' \in Nat
        /\ {owed', burned', lost', minted'} \subseteq 0 .. W - 1
    BY <1>7 DEF SettleTypeOK
  <1>9. QED
    BY <1>3, <1>4, <1>6, <1>8 DEF SettleTypeOK

LEMMA PriceRefusedType ==
  ASSUME SettleTypeOK, PriceRefused
  PROVE  SettleTypeOK'
  <1>1. tried' \in 0 .. MaxTxs /\ phase' = "idle" /\ owed = 0
    <2>1. MaxTxs \in Nat
      BY SettleAssumption
    <2>2. QED
      BY <2>1 DEF PriceRefused, Leave, SettleTypeOK
  <1>2. QED
    BY <1>1 DEF PriceRefused, SettleTypeOK, accounts, ether

LEMMA ChargeType ==
  ASSUME SettleTypeOK, Charge
  PROVE  SettleTypeOK'
  <1> DEFINE upfront == (Effective(tx) * tx.gas + tx.blob) % W
  <1>1. tx \in Tx /\ Effective(tx) \in 0 .. W - 1 /\ tx.gas \in Nat /\ tx.blob \in Nat
        /\ tx.by \in Acc /\ W \in Nat
    BY EffectiveType, TxFacts, SettleAssumption DEF SettleTypeOK
  <1>2. Effective(tx) * tx.gas + tx.blob \in Int
    BY <1>1
  <1>3. upfront \in 0 .. W - 1 /\ upfront \in Int
    BY <1>1, <1>2, Reduced
  <1>4. bal' \in [Acc -> 0 .. W - 1]
    BY <1>1, <1>3, Debited DEF Charge, SettleTypeOK
  <1>5. price' \in 0 .. W - 1
    BY <1>1 DEF Charge
  <1>6. (lost + upfront) % W \in 0 .. W - 1 /\ lost \in 0 .. W - 1 /\ owed = 0
        /\ tried + 1 \in 0 .. MaxTxs /\ tried \in 0 .. MaxTxs /\ tried < MaxTxs
    <2>1. lost \in 0 .. W - 1 /\ tried < MaxTxs /\ tried \in 0 .. MaxTxs /\ owed = 0
      BY DEF Charge, SettleTypeOK
    <2>2. lost + upfront \in Int
      BY <1>1, <1>3, <2>1
    <2>3. QED
      BY <2>1, <2>2, Reduced, SettleAssumption
  <1>7. /\ owed' \in 0 .. W - 1 /\ lost' \in 0 .. W - 1 /\ tried' \in 0 .. MaxTxs
        /\ phase' \in {"idle", "exec"} /\ (phase' = "exec" => tried' < MaxTxs)
        /\ (owed' # 0 => phase' = "exec")
    <2>1. CASE Leave /\ lost' = (lost + upfront) % W /\ owed' = owed
      BY <1>1, <1>6, <2>1 DEF Leave
    <2>2. CASE phase' = "exec" /\ owed' = upfront /\ tried' = tried /\ lost' = lost
      BY <1>3, <1>6, <2>2
    <2>3. QED
      BY <2>1, <2>2 DEF Charge
  <1>8. /\ nonce' = nonce /\ code' = code /\ held' = held /\ tx' = tx /\ at' = at
        /\ refund' = refund /\ spent' = spent /\ burned' = burned /\ minted' = minted
        /\ done' = done /\ torn' = torn
    BY DEF Charge
  <1>9. QED
    BY <1>4, <1>5, <1>7, <1>8 DEF SettleTypeOK

\* What an execution spends is within the gas limit.
LEMMA SpendingsType ==
  ASSUME NEW t \in Tx, NEW s \in Spendings(t)
  PROVE  s \in Nat /\ s <= t.gas
  <1>1. t.cost \in Nat /\ t.gas \in Nat /\ AuthCost \in Nat /\ Len(t.auths) \in Nat
    BY TxFacts, SettleAssumption
  <1>2. AuthCost * Len(t.auths) \in Nat
    BY <1>1
  <1>3. QED
    BY <1>1, <1>2 DEF Spendings

LEMMA SucceedType ==
  ASSUME SettleTypeOK, NEW s \in Spendings(tx), NEW r \in Nat, Succeed(s, r)
  PROVE  SettleTypeOK'
  <1>1. tx \in Tx /\ tx' = tx
    BY DEF Succeed, SettleTypeOK
  <1>2. s \in Nat /\ s <= tx.gas
    BY <1>1, SpendingsType
  <1>3. bal' \in [Acc -> 0 .. W - 1]
    BY <1>1, MovedType DEF Succeed, SettleTypeOK
  <1>4. refund' \in Nat
    BY DEF Succeed, SettleTypeOK
  <1>5. QED
    BY <1>1, <1>2, <1>3, <1>4 DEF Succeed, SettleTypeOK, ether

LEMMA FailType ==
  ASSUME SettleTypeOK, NEW s \in Spendings(tx), Fail(s)
  PROVE  SettleTypeOK'
  <1>1. tx \in Tx /\ tx' = tx
    BY DEF Fail, SettleTypeOK
  <1>2. s \in Nat /\ s <= tx.gas
    BY <1>1, SpendingsType
  <1>3. QED
    BY <1>1, <1>2 DEF Fail, SettleTypeOK, accounts, ether

LEMMA StopType ==
  ASSUME SettleTypeOK, Stop
  PROVE  SettleTypeOK'
  <1>1. bal' \in [Acc -> 0 .. W - 1]
    BY MovedType DEF Stop, SettleTypeOK
  <1>2. lost + owed \in Int
    BY SettleAssumption DEF SettleTypeOK
  <1>3. lost' \in 0 .. W - 1
    BY <1>2, Reduced DEF Stop
  <1>4. tried' \in 0 .. MaxTxs /\ phase' = "idle"
    BY SettleAssumption DEF Stop, Leave, SettleTypeOK
  <1>5. owed' = 0 /\ owed' \in 0 .. W - 1
    BY SettleAssumption DEF Stop
  <1>6. QED
    BY <1>1, <1>3, <1>4, <1>5 DEF Stop, SettleTypeOK

\* The gas of a receipt.
LEMMA FinalGasType ==
  ASSUME SettleTypeOK
  PROVE  /\ FinalGas \in Nat /\ PriorityFee \in 0 .. W - 1
         /\ tx.floor <= FinalGas /\ FinalGas <= Greater(spent, tx.floor)
         /\ FinalGas >= spent - spent \div Quotient
  <1>1. /\ spent \in Nat /\ refund \in Nat /\ tx.floor \in Nat /\ tx.prio \in 0 .. W - 1
        /\ price \in Int /\ BaseFee \in Int /\ Quotient \in Nat \ {0}
    BY TxFacts, SettleAssumption DEF SettleTypeOK
  <1>2. (price - BaseFee) % W \in 0 .. W - 1
    BY <1>1, Reduced
  <1>3. PriorityFee \in 0 .. W - 1
    BY <1>1, <1>2 DEF PriorityFee, Lesser
  <1>4. spent \div Quotient \in Nat
    BY <1>1
  <1> DEFINE part == spent \div Quotient
  <1>5. part \in Nat
    BY <1>4
  <1> HIDE DEF part
  <1>6. Lesser(refund, part) \in Nat /\ Lesser(refund, part) <= part
    BY <1>1, <1>5 DEF Lesser
  <1>7. FinalGas = Greater(Greater(spent - Lesser(refund, part), 0), tx.floor)
    BY DEF FinalGas, part
  <1>8. FinalGas \in Nat /\ tx.floor <= FinalGas /\ FinalGas <= Greater(spent, tx.floor)
        /\ FinalGas >= spent - part
    BY <1>1, <1>5, <1>6, <1>7 DEF Greater
  <1>9. QED
    BY <1>3, <1>8 DEF part
LEMMA FinalizeType ==
  ASSUME SettleTypeOK, Finalize
  PROVE  SettleTypeOK'
  <1> DEFINE returned == Greater(tx.gas - FinalGas, 0)
             over     == Greater(FinalGas - tx.gas, 0)
             paidBack == [bal EXCEPT ![tx.by] = (@ + returned * price) % W]
  <1>1. /\ tx.by \in Acc /\ tx.gas \in Nat /\ tx.blob \in Nat /\ Coinbase \in Acc
        /\ price \in Int /\ BaseFee \in Int /\ W \in Nat \ {0} /\ MaxTxs \in Nat
        /\ burned \in Int /\ minted \in Int
    BY TxFacts, SettleAssumption DEF SettleTypeOK
  <1>2. FinalGas \in Nat /\ PriorityFee \in 0 .. W - 1
    BY FinalGasType
  <1>3. returned \in Nat /\ over \in Nat
    BY <1>1, <1>2 DEF Greater
  <1>4. Tip \in 0 .. W - 1
    <2>1. FinalGas * PriorityFee \in Int
      BY <1>1, <1>2
    <2>2. QED
      BY <2>1, Reduced DEF Tip
  <1>5. returned * price \in Int /\ Tip \in Int /\ FinalGas * BaseFee \in Int
        /\ over * price \in Int
    BY <1>1, <1>2, <1>3, <1>4
  <1> HIDE DEF returned, over
  <1>6. paidBack \in [Acc -> 0 .. W - 1]
    BY <1>1, <1>5, Credited DEF SettleTypeOK
  <1> HIDE DEF paidBack
  <1>7. bal' = [paidBack EXCEPT ![Coinbase] = (@ + Tip) % W]
    BY DEF Finalize, paidBack, returned
  <1>8. bal' \in [Acc -> 0 .. W - 1]
    BY <1>1, <1>5, <1>6, <1>7, Credited
  <1>9. burned' \in 0 .. W - 1
    <2>1. burned + FinalGas * BaseFee + tx.blob \in Int
      BY <1>1, <1>5
    <2>2. burned' = (burned + FinalGas * BaseFee + tx.blob) % W
      BY DEF Finalize
    <2>3. QED
      BY <2>1, <2>2, Reduced
  <1>10. minted' \in 0 .. W - 1
    <2>1. minted + over * price \in Int
      BY <1>1, <1>5
    <2>2. minted' = (minted + over * price) % W
      BY DEF Finalize, over
    <2>3. QED
      BY <2>1, <2>2, Reduced
  <1>11. owed' = 0 /\ owed' \in 0 .. W - 1 /\ tried' \in 0 .. MaxTxs /\ phase' = "idle"
    BY <1>1 DEF Finalize, Leave, SettleTypeOK
  <1>12. /\ nonce' = nonce /\ code' = code /\ held' = held /\ tx' = tx /\ at' = at
         /\ refund' = refund /\ price' = price /\ spent' = spent /\ lost' = lost
         /\ done' = done /\ torn' = torn
    BY DEF Finalize
  <1>13. QED
    BY <1>8, <1>9, <1>10, <1>11, <1>12 DEF SettleTypeOK

----------------------------------------------------------------------------
(* The predeploy.                                                          *)

LEMMA AddType ==
  ASSUME RequestsTypeOK, NEW r \in Request, Add(r)
  PROVE  RequestsTypeOK'
  <1>1. tail \in Nat /\ head \in Nat /\ head <= tail /\ tail < Slots /\ Slots \in Nat
    BY RequestsAssumption DEF RequestsTypeOK, Add
  <1>2. queue' \in [0 .. Slots - 1 -> Request]
    BY DEF Add, RequestsTypeOK
  <1>3. head' \in 0 .. tail' /\ tail' \in 0 .. Slots /\ inBlock' \in Nat
    BY <1>1 DEF Add, RequestsTypeOK
  <1>4. QED
    BY <1>2, <1>3 DEF Add, RequestsTypeOK

LEMMA EndBlockType ==
  ASSUME RequestsTypeOK, EndBlock
  PROVE  RequestsTypeOK'
  <1>1. /\ tail \in Nat /\ head \in Nat /\ head <= tail /\ tail <= Slots /\ Slots \in Nat
        /\ MaxPerBlock \in Nat /\ Target \in Nat /\ inBlock \in Nat
    BY RequestsAssumption DEF RequestsTypeOK
  <1>2. head' \in 0 .. tail' /\ tail' \in 0 .. Slots
    BY <1>1 DEF EndBlock, Dequeue, Minus
  <1>3. excess' \in Nat
    BY <1>1 DEF EndBlock, NewExcess, Minus, RequestsTypeOK
  <1>4. QED
    BY <1>2, <1>3 DEF EndBlock, RequestsTypeOK

----------------------------------------------------------------------------
(* Blocks.                                                                 *)

Ring == [0 .. Window - 1 -> Nat]

BlockTypeOK ==
  /\ stage \in {"pre", "txs", "bad", "stopped"} /\ number \in 1 .. MaxBlocks + 1
  /\ (Running => number <= MaxBlocks)
  /\ now \in Nat /\ credited \in 0 .. W - 1
  /\ {hashes, times, roots} \subseteq Ring
  /\ stamps \in Seq(Nat) /\ demand \in Seq(Nat)

LEMMA TypeOKParts == TypeOK <=> SettleTypeOK /\ RequestsTypeOK /\ BlockTypeOK
  BY DEF TypeOK, BlockTypeOK, Ring

LEMMA InitType == Init => TypeOK
  <1> SUFFICES ASSUME Init
               PROVE  TypeOK
    OBVIOUS
  <1>1. SettleTypeOK
    <2>1. Genesis.bal \in [Acc -> 0 .. W - 1] /\ Genesis.nonce \in [Acc -> 0 .. MaxNonce]
          /\ Genesis.code \in [Acc -> Acc \cup {None, Deployed}]
      BY SettleAssumption
    <2>2. tx \in Tx /\ at \in 1 .. Len(tx.auths) + 1
      <3>1. tx \in Tx
        BY SettleAssumption DEF Init, SettleInit
      <3>2. QED
        BY <3>1, TxFacts DEF Init, SettleInit
    <2>3. 0 \in 0 .. W - 1 /\ 0 \in 0 .. MaxTxs
      BY SettleAssumption
    <2>4. QED
      BY <2>1, <2>2, <2>3 DEF Init, SettleInit, SettleTypeOK
  <1>2. RequestsTypeOK
    <2>1. (CHOOSE r \in Request : TRUE) \in Request
      BY RequestsAssumption
    <2>2. queue \in [0 .. Slots - 1 -> Request]
      BY <2>1 DEF Init, RequestsInit
    <2>3. QED
      BY <2>2, RequestsAssumption DEF Init, RequestsInit, RequestsTypeOK
  <1>3. BlockTypeOK
    BY SettleAssumption, BlockAssumption DEF Init, BlockTypeOK, Ring, Running
  <1>4. QED
    BY <1>1, <1>2, <1>3, TypeOKParts

\* Steps of other parts leave a part alone.
LEMMA SettleSame == SettleTypeOK /\ UNCHANGED settleVars => SettleTypeOK'
  BY DEF SettleTypeOK, settleVars, accounts, ether

LEMMA RequestsSame == RequestsTypeOK /\ UNCHANGED queueVars => RequestsTypeOK'
  BY DEF RequestsTypeOK, queueVars

LEMMA BlockSame ==
  BlockTypeOK /\ UNCHANGED <<number, now, ringVars, stamps, demand, credited>>
    /\ (stage' = stage \/ stage' = "stopped" \/ (Running /\ stage' = "bad")) => BlockTypeOK'
  BY DEF BlockTypeOK, ringVars, Running
\* A value is stored at a place of a ring.
LEMMA RingPut ==
  ASSUME NEW r \in Ring, NEW i \in Nat, NEW v \in Nat
  PROVE  [r EXCEPT ![i % Window] = v] \in Ring
  BY BlockAssumption DEF Ring

LEMMA PreBlockType ==
  ASSUME TypeOK, PreBlock
  PROVE  TypeOK'
  <1>1. SettleTypeOK /\ RequestsTypeOK /\ BlockTypeOK
    BY TypeOKParts
  <1>2. SettleTypeOK' /\ RequestsTypeOK'
    BY <1>1, SettleSame, RequestsSame DEF PreBlock
  <1>3. PICK t \in now + 1 .. now + Gap :
          /\ now' = t /\ PutTime(t) /\ PutRoot(t) /\ stamps' = Append(stamps, t)
    BY DEF PreBlock
  <1>4. now \in Nat /\ Gap \in Nat /\ number \in Nat /\ number >= 1
    BY <1>1, BlockAssumption DEF BlockTypeOK
  <1>5. t \in Nat
    BY <1>3, <1>4
  <1>6. hashes \in Ring /\ times \in Ring /\ roots \in Ring /\ number - 1 \in Nat
    BY <1>1, <1>4 DEF BlockTypeOK
  <1>7. hashes' \in Ring /\ times' \in Ring /\ roots' \in Ring
    BY <1>3, <1>4, <1>5, <1>6, RingPut DEF PreBlock, PutHash, PutTime, PutRoot
  <1>8. stamps' \in Seq(Nat)
    BY <1>1, <1>3, <1>5 DEF BlockTypeOK
  <1>9. BlockTypeOK'
    BY <1>1, <1>3, <1>5, <1>7, <1>8 DEF PreBlock, BlockTypeOK, Running
  <1>10. QED
    BY <1>2, <1>9, TypeOKParts DEF TypeOK, BlockTypeOK, Ring

LEMMA PreBlockFailsType ==
  ASSUME TypeOK, PreBlockFails
  PROVE  TypeOK'
  <1>1. SettleTypeOK /\ RequestsTypeOK /\ BlockTypeOK
    BY TypeOKParts
  <1>2. SettleTypeOK' /\ RequestsTypeOK'
    BY <1>1, SettleSame, RequestsSame DEF PreBlockFails
  <1>3. PICK t \in now + 1 .. now + Gap :
          \/ UNCHANGED ringVars
          \/ PutTime(t) /\ UNCHANGED <<roots, hashes>>
          \/ PutTime(t) /\ PutRoot(t) /\ UNCHANGED hashes
    BY DEF PreBlockFails
  <1>4. now \in Nat /\ Gap \in Nat /\ number \in Nat
    BY <1>1, BlockAssumption DEF BlockTypeOK
  <1>5. t \in Nat
    BY <1>3, <1>4
  <1>6. hashes \in Ring /\ times \in Ring /\ roots \in Ring
    BY <1>1 DEF BlockTypeOK
  <1>7. hashes' \in Ring /\ times' \in Ring /\ roots' \in Ring
    BY <1>3, <1>4, <1>5, <1>6, RingPut DEF PutTime, PutRoot, ringVars
  <1>8. BlockTypeOK'
    BY <1>1, <1>7 DEF PreBlockFails, BlockTypeOK, Running
  <1>9. QED
    BY <1>2, <1>8, TypeOKParts DEF TypeOK, BlockTypeOK, Ring

LEMMA TxStepType ==
  ASSUME TypeOK, TxStep
  PROVE  TypeOK'
  <1>1. SettleTypeOK /\ RequestsTypeOK /\ BlockTypeOK
    BY TypeOKParts
  <1>2. RequestsTypeOK' /\ BlockTypeOK'
    BY <1>1, RequestsSame, BlockSame DEF TxStep
  <1>3. Refunds \subseteq Nat
    BY SettleAssumption
  <1>4. SettleTypeOK'
    BY <1>1, <1>3, BeginType, SkipTupleType, ApplyTupleType, FinalizeType, ChargeType,
       FailType, SucceedType DEF TxStep
  <1>5. QED
    BY <1>2, <1>4, TypeOKParts DEF TypeOK, BlockTypeOK, Ring

LEMMA TxRequestsType ==
  ASSUME TypeOK, TxRequests
  PROVE  TypeOK'
  <1>1. SettleTypeOK /\ RequestsTypeOK /\ BlockTypeOK
    BY TypeOKParts
  <1>2. PICK s \in Spendings(tx), q \in Request : Succeed(s, 0) /\ Add(q)
    BY DEF TxRequests
  <1>3. SettleTypeOK' /\ RequestsTypeOK'
    BY <1>1, <1>2, SucceedType, AddType
  <1>4. BlockTypeOK'
    BY <1>1, BlockSame DEF TxRequests, BlockTypeOK, Running
  <1>5. QED
    BY <1>3, <1>4, TypeOKParts DEF TypeOK, BlockTypeOK, Ring

LEMMA TxStepLimitType ==
  ASSUME TypeOK, TxStepLimit
  PROVE  TypeOK'
  <1>1. SettleTypeOK /\ RequestsTypeOK /\ BlockTypeOK
    BY TypeOKParts
  <1>2. SettleTypeOK' /\ RequestsTypeOK' /\ BlockTypeOK'
    BY <1>1, StopType, RequestsSame, BlockSame DEF TxStepLimit
  <1>3. QED
    BY <1>2, TypeOKParts DEF TypeOK, BlockTypeOK, Ring

LEMMA TxErrsType ==
  ASSUME TypeOK, TxErrs
  PROVE  TypeOK'
  <1>1. SettleTypeOK /\ RequestsTypeOK /\ BlockTypeOK
    BY TypeOKParts
  <1>2. RequestsTypeOK' /\ BlockTypeOK'
    BY <1>1, RequestsSame, BlockSame DEF TxErrs
  <1>3. SettleTypeOK'
    BY <1>1, RejectType, TupleFailsType, PriceRefusedType, StopType, ChargeType DEF TxErrs
  <1>4. QED
    BY <1>2, <1>3, TypeOKParts DEF TypeOK, BlockTypeOK, Ring

\* Withdrawals, or none.
LEMMA WithdrawType ==
  ASSUME SettleTypeOK, credited \in 0 .. W - 1, UNCHANGED beside,
         \/ \E c \in Credit : Withdraw(c[1], c[2])
         \/ UNCHANGED <<bal, credited, held>>
  PROVE  SettleTypeOK' /\ credited' \in 0 .. W - 1
  <1>1. bal' \in [Acc -> 0 .. W - 1] /\ held' \subseteq Acc /\ credited' \in 0 .. W - 1
    <2>1. CASE \E c \in Credit : Withdraw(c[1], c[2])
      <3>1. PICK c \in Credit : Withdraw(c[1], c[2])
        BY <2>1
      <3>2. c[1] \in Acc /\ c[2] \in Int
        BY BlockAssumption, SettleAssumption
      <3>3. credited + c[2] \in Int
        BY <3>2, SettleAssumption
      <3>4. QED
        BY <3>1, <3>2, <3>3, Credited, Reduced DEF Withdraw, SettleTypeOK
    <2>2. CASE UNCHANGED <<bal, credited, held>>
      BY <2>2 DEF SettleTypeOK
    <2>3. QED
      BY <2>1, <2>2
  <1>2. QED
    BY <1>1 DEF SettleTypeOK, beside, ether

LEMMA PostBlockType ==
  ASSUME TypeOK, PostBlock
  PROVE  TypeOK'
  <1>1. SettleTypeOK /\ RequestsTypeOK /\ BlockTypeOK
    BY TypeOKParts
  <1>2. SettleTypeOK' /\ RequestsTypeOK' /\ credited' \in 0 .. W - 1
    BY <1>1, WithdrawType, EndBlockType DEF PostBlock, BlockTypeOK, Running
  <1>3. inBlock \in Nat /\ demand \in Seq(Nat) /\ MaxBlocks \in Nat
    BY <1>1, BlockAssumption DEF RequestsTypeOK, BlockTypeOK
  <1>4. demand' \in Seq(Nat) /\ number' \in 1 .. MaxBlocks + 1
    BY <1>1, <1>3 DEF PostBlock, BlockTypeOK, Running
  <1>5. BlockTypeOK'
    BY <1>1, <1>2, <1>4 DEF PostBlock, BlockTypeOK, ringVars, Running
  <1>6. QED
    BY <1>2, <1>5, TypeOKParts DEF TypeOK, BlockTypeOK, Ring

LEMMA PostBlockFailsType ==
  ASSUME TypeOK, PostBlockFails
  PROVE  TypeOK'
  <1>1. SettleTypeOK /\ RequestsTypeOK /\ BlockTypeOK
    BY TypeOKParts
  <1>2. SettleTypeOK' /\ credited' \in 0 .. W - 1
    BY <1>1, WithdrawType DEF PostBlockFails, BlockTypeOK
  <1>3. inBlock \in Nat /\ demand \in Seq(Nat)
    BY <1>1 DEF RequestsTypeOK, BlockTypeOK
  <1>4. RequestsTypeOK' /\ demand' \in Seq(Nat)
    BY <1>1, <1>3, EndBlockType, RequestsSame DEF PostBlockFails
  <1>5. BlockTypeOK'
    BY <1>1, <1>2, <1>4 DEF PostBlockFails, BlockTypeOK, ringVars, Running
  <1>6. QED
    BY <1>2, <1>4, <1>5, TypeOKParts DEF TypeOK, BlockTypeOK, Ring

\* The types of Block, for all values of its constants: balances stay within
\* their width, nonces within theirs, the queue within its slots, and a
\* settlement never refunds more than was spent.
THEOREM BlockTypeCorrect == Spec => []TypeOK
  <1>1. TypeOK /\ [Next]_vars => TypeOK'
    <2> SUFFICES ASSUME TypeOK, [Next]_vars
                 PROVE  TypeOK'
      OBVIOUS
    <2>1. CASE PreBlock
      BY <2>1, PreBlockType
    <2>2. CASE PreBlockFails
      BY <2>2, PreBlockFailsType
    <2>3. CASE TxStep
      BY <2>3, TxStepType
    <2>4. CASE TxRequests
      BY <2>4, TxRequestsType
    <2>5. CASE TxStepLimit
      BY <2>5, TxStepLimitType
    <2>6. CASE TxErrs
      BY <2>6, TxErrsType
    <2>7. CASE PostBlock
      BY <2>7, PostBlockType
    <2>8. CASE PostBlockFails
      BY <2>8, PostBlockFailsType
    <2>9. CASE UNCHANGED vars
      <3>1. SettleTypeOK' /\ RequestsTypeOK' /\ BlockTypeOK'
        BY <2>9, TypeOKParts, SettleSame, RequestsSame, BlockSame DEF vars
      <3>2. QED
        BY <3>1, TypeOKParts DEF TypeOK, BlockTypeOK, Ring
    <2>10. QED
      BY <2>1, <2>2, <2>3, <2>4, <2>5, <2>6, <2>7, <2>8, <2>9 DEF Next, Over
  <1>2. QED
    BY <1>1, InitType, PTL DEF Spec

----------------------------------------------------------------------------
(* Nonces.                                                                 *)

\* The facts of TypeOK that nonces rest on.
NonceTypes ==
  /\ nonce \in [Acc -> 0 .. MaxNonce] /\ done \in Seq(Acc \X (0 .. MaxNonce))
  /\ torn \subseteq Acc

LEMMA UsesNonce ==
  ASSUME NonceTypes, NoncesUsedOnce, NEW a \in Acc,
         nonce' = [nonce EXCEPT ![a] = @ + 1],
         done' = Append(done, <<a, nonce[a]>>), torn' = torn
  PROVE  NoncesUsedOnce'
  <1> DEFINE n == Len(done)
  <1>1. n \in Nat /\ DOMAIN done = 1 .. n /\ DOMAIN done' = 1 .. n + 1
    BY DEF NonceTypes
  <1>2. done'[n + 1] = <<a, nonce[a]>> /\ \A i \in 1 .. n : done'[i] = done[i]
    BY DEF NonceTypes
  <1>3. \A i \in 1 .. n : done[i] \in Acc \X (0 .. MaxNonce)
    BY <1>1 DEF NonceTypes
  <1>4. \A b \in Acc : nonce[b] \in Nat /\ nonce'[b] \in Nat /\ nonce[b] <= nonce'[b]
    BY SettleAssumption DEF NonceTypes
  <1>5. nonce[a] < nonce'[a]
    BY <1>4 DEF NonceTypes
  <1>6. ASSUME NEW i \in 1 .. n, done[i][1] \notin torn
        PROVE  done[i][2] < nonce[done[i][1]] /\ done[i][2] < nonce'[done[i][1]]
    <2>1. done[i][2] < nonce[done[i][1]]
      BY <1>1, <1>6 DEF NoncesUsedOnce
    <2>2. done[i][1] \in Acc /\ done[i][2] \in Nat
      BY <1>3, SettleAssumption
    <2>3. QED
      BY <1>4, <2>1, <2>2
  <1> HIDE DEF n
  <1>7. ASSUME NEW i \in 1 .. n, done[i][1] \notin torn
        PROVE  done[i] # <<a, nonce[a]>>
    <2>1. done[i][2] < nonce[done[i][1]]
      BY <1>6, <1>7
    <2>2. nonce[a] \in Nat
      BY <1>4
    <2>3. QED
      BY <2>1, <2>2
  <1>8. ASSUME NEW i \in DOMAIN done', done'[i][1] \notin torn
        PROVE  done'[i][2] < nonce'[done'[i][1]]
    BY <1>1, <1>2, <1>5, <1>6, <1>8
  <1>9. ASSUME NEW i \in DOMAIN done', NEW j \in DOMAIN done',
               done'[i] = done'[j], done'[i][1] \notin torn
        PROVE  i = j
    <2>1. CASE i \in 1 .. n /\ j \in 1 .. n
      BY <1>1, <1>2, <1>9, <2>1 DEF NoncesUsedOnce
    <2>2. CASE i \in 1 .. n /\ j = n + 1
      BY <1>2, <1>7, <1>9, <2>2
    <2>3. CASE i = n + 1 /\ j \in 1 .. n
      BY <1>2, <1>7, <1>9, <2>3
    <2>4. QED
      BY <1>1, <2>1, <2>2, <2>3
  <1>10. QED
    BY <1>8, <1>9 DEF NoncesUsedOnce

LEMMA LosesNonce ==
  ASSUME NonceTypes, NoncesUsedOnce, NEW a \in Acc, NEW v, nonce' = nonce,
         done' = Append(done, <<a, v>>), torn' = torn \cup {a}
  PROVE  NoncesUsedOnce'
  <1> DEFINE n == Len(done)
  <1>1. n \in Nat /\ DOMAIN done = 1 .. n /\ DOMAIN done' = 1 .. n + 1
    BY DEF NonceTypes
  <1>2. done'[n + 1] = <<a, v>> /\ \A i \in 1 .. n : done'[i] = done[i]
    BY DEF NonceTypes
  <1> HIDE DEF n
  <1>3. \A i \in DOMAIN done' : done'[i][1] \notin torn' => i \in 1 .. n /\ done'[i][1] \notin torn
    BY <1>1, <1>2
  <1>4. ASSUME NEW i \in DOMAIN done', done'[i][1] \notin torn'
        PROVE  done'[i][2] < nonce'[done'[i][1]]
    BY <1>1, <1>2, <1>3, <1>4 DEF NoncesUsedOnce
  <1>5. ASSUME NEW i \in DOMAIN done', NEW j \in DOMAIN done',
               done'[i] = done'[j], done'[i][1] \notin torn'
        PROVE  i = j
    BY <1>1, <1>2, <1>3, <1>5 DEF NoncesUsedOnce
  <1>6. QED
    BY <1>4, <1>5 DEF NoncesUsedOnce

LEMMA KeepsNonces ==
  NoncesUsedOnce /\ UNCHANGED <<nonce, done, torn>> => NoncesUsedOnce'
  BY DEF NoncesUsedOnce
LEMMA BeginNonces ==
  ASSUME SettleTypeOK, NoncesUsedOnce, NEW t \in Tx, Begin(t)
  PROVE  NoncesUsedOnce'
  <1>1. t.by \in Acc /\ NonceTypes
    BY TxFacts DEF SettleTypeOK, NonceTypes
  <1>2. QED
    BY <1>1, UsesNonce DEF Begin

LEMMA ApplyTupleNonces ==
  ASSUME SettleTypeOK, NoncesUsedOnce, ApplyTuple
  PROVE  NoncesUsedOnce'
  <1> DEFINE u == tx.auths[at]
  <1>1. u \in Tuple /\ NonceTypes
    BY InHand DEF ApplyTuple, SettleTypeOK, NonceTypes
  <1>2. u.by \in Acc /\ u.nonce = nonce[u.by]
    BY <1>1 DEF ApplyTuple, Signed, Current, Tuple
  <1>3. /\ nonce' = [nonce EXCEPT ![u.by] = @ + 1]
        /\ done' = Append(done, <<u.by, nonce[u.by]>>) /\ torn' = torn
    BY <1>2 DEF ApplyTuple
  <1>4. QED
    BY <1>1, <1>2, <1>3, UsesNonce

LEMMA TupleFailsNonces ==
  ASSUME SettleTypeOK, NoncesUsedOnce, TupleFails
  PROVE  NoncesUsedOnce'
  <1> DEFINE u == tx.auths[at]
  <1>1. u \in Tuple /\ NonceTypes
    BY InHand DEF TupleFails, SettleTypeOK, NonceTypes
  <1>2. u.by \in Acc /\ nonce' = nonce
    BY <1>1 DEF TupleFails, Signed, Tuple
  <1>3. \/ done' = done /\ torn' = torn
        \/ done' = Append(done, <<u.by, u.nonce>>) /\ torn' = torn \cup {u.by}
    BY DEF TupleFails
  <1>4. CASE done' = done /\ torn' = torn
    BY <1>2, <1>4, KeepsNonces
  <1>5. CASE done' = Append(done, <<u.by, u.nonce>>) /\ torn' = torn \cup {u.by}
    BY <1>1, <1>2, <1>5, LosesNonce
  <1>6. QED
    BY <1>3, <1>4, <1>5

\* No nonce is used twice, by a transaction or a tuple, but one that a failed
\* fetch tore; for all accounts, transactions and orders of them.
THEOREM NoncesCorrect == Spec => []NoncesUsedOnce
  <1>1. Init => NoncesUsedOnce
    BY DEF Init, SettleInit, NoncesUsedOnce
  <1>2. TypeOK /\ NoncesUsedOnce /\ [Next]_vars => NoncesUsedOnce'
    <2> SUFFICES ASSUME TypeOK, NoncesUsedOnce, [Next]_vars
                 PROVE  NoncesUsedOnce'
      OBVIOUS
    <2>1. SettleTypeOK
      BY DEF TypeOK
    <2>2. CASE TxStep
      <3>1. \/ \E t \in Tx : Begin(t)
            \/ ApplyTuple
            \/ UNCHANGED <<nonce, done, torn>>
        BY <2>2 DEF TxStep, SkipTuple, Finalize, Charge, Fail, Succeed, accounts
      <3>2. QED
        BY <2>1, <3>1, BeginNonces, ApplyTupleNonces, KeepsNonces
    <2>3. CASE TxErrs
      <3>1. TupleFails \/ UNCHANGED <<nonce, done, torn>>
        BY <2>3 DEF TxErrs, Reject, PriceRefused, Stop, Charge, accounts
      <3>2. QED
        BY <2>1, <3>1, TupleFailsNonces, KeepsNonces
    <2>4. CASE TxRequests \/ TxStepLimit
      BY <2>4, KeepsNonces DEF TxRequests, Succeed, TxStepLimit, Stop
    <2>5. CASE PreBlock \/ PreBlockFails \/ UNCHANGED vars
      BY <2>5, KeepsNonces DEF PreBlock, PreBlockFails, vars, settleVars, accounts
    <2>6. CASE PostBlock \/ PostBlockFails
      BY <2>6, KeepsNonces DEF PostBlock, PostBlockFails, beside
    <2>7. QED
      BY <2>2, <2>3, <2>4, <2>5, <2>6 DEF Next, Over
  <1>3. QED
    BY <1>1, <1>2, BlockTypeCorrect, PTL DEF Spec

----------------------------------------------------------------------------
(* Receipts.                                                               *)

\* The gas charged is at least the floor and all but the capped refund of what
\* was spent, and at most the larger of floor and spent.
THEOREM ReceiptCorrect == Spec => []ReceiptIsFair
  <1>1. Init => ReceiptIsFair
    BY DEF Init, SettleInit, ReceiptIsFair
  <1>2. TypeOK /\ ReceiptIsFair /\ [Next]_vars => ReceiptIsFair'
    <2> SUFFICES ASSUME TypeOK, ReceiptIsFair, [Next]_vars
                 PROVE  ReceiptIsFair'
      OBVIOUS
    <2>1. CASE TxStep
      <3>1. Finalize \/ UNCHANGED receipt
        BY <2>1 DEF TxStep, Begin, SkipTuple, ApplyTuple, Charge, Fail, Succeed
      <3>2. CASE Finalize
        <4>1. receipt' = [tx |-> tx, spent |-> spent, final |-> FinalGas]
          BY <3>2 DEF Finalize
        <4>2. /\ tx.floor <= FinalGas /\ FinalGas <= Greater(spent, tx.floor)
              /\ FinalGas >= spent - spent \div Quotient
          BY FinalGasType DEF TypeOK
        <4>3. QED
          BY <4>1, <4>2 DEF ReceiptIsFair
      <3>3. QED
        BY <3>1, <3>2 DEF ReceiptIsFair
    <2>2. CASE TxErrs
      BY <2>2 DEF TxErrs, Reject, TupleFails, PriceRefused, Stop, Charge, ReceiptIsFair
    <2>3. CASE TxRequests \/ TxStepLimit
      BY <2>3 DEF TxRequests, Succeed, TxStepLimit, Stop, ReceiptIsFair
    <2>4. CASE PreBlock \/ PreBlockFails \/ UNCHANGED vars
      BY <2>4 DEF PreBlock, PreBlockFails, vars, settleVars, ReceiptIsFair
    <2>5. CASE PostBlock \/ PostBlockFails
      BY <2>5 DEF PostBlock, PostBlockFails, beside, ReceiptIsFair
    <2>6. QED
      BY <2>1, <2>2, <2>3, <2>4, <2>5 DEF Next, Over
  <1>3. QED
    BY <1>1, <1>2, BlockTypeCorrect, PTL DEF Spec

----------------------------------------------------------------------------
(* The rings of the system contracts.                                      *)

\* Blocks that pre_block has opened.
Opened == IF stage = "txs" THEN number ELSE number - 1

HashesServed ==
  \A n \in 0 .. Opened - 1 : Opened - n <= Window => hashes[n % Window] = n

RootsServed ==
  \A n \in 1 .. Opened :
    now - stamps[n] < Window =>
      times[stamps[n] % Window] = stamps[n] /\ roots[stamps[n] % Window] = n

\* The inductive invariant: an error ends it, and the run of blocks with it.
RingInv ==
  stage \in {"pre", "txs"} =>
    /\ Len(stamps) = Opened
    /\ \A n \in 1 .. Opened : stamps[n] <= now
    /\ HashesServed /\ RootsServed

\* Two numbers less than a window apart have places of their own.
LEMMA OwnPlace ==
  ASSUME NEW x \in Nat, NEW y \in Nat, x < y, y - x < Window
  PROVE  x % Window # y % Window
  <1>1. Window \in Nat \ {0}
    BY BlockAssumption
  <1>2. PICK q \in Nat, r \in Nat : x = Window * q + r /\ r = x % Window /\ q = x \div Window
    BY <1>1
  <1>3. PICK p \in Nat, s \in Nat : y = Window * p + s /\ s = y % Window /\ p = y \div Window
    BY <1>1
  <1>4. SUFFICES ASSUME r = s PROVE FALSE
    BY <1>2, <1>3
  <1>5. y - x = Window * p - Window * q
    BY <1>1, <1>2, <1>3, <1>4
  <1>6. y - x = Window * (p - q)
    BY <1>1, <1>5
  <1>7. CASE p <= q
    <2>1. Window * (p - q) <= 0
      BY <1>1, <1>7
    <2>2. QED
      BY <1>6, <2>1
  <1>8. CASE p - q >= 1
    <2>1. Window * (p - q) >= Window
      BY <1>1, <1>8
    <2>2. QED
      BY <1>1, <1>6, <2>1
  <1>9. QED
    BY <1>7, <1>8

LEMMA Places == \A x \in Nat : x % Window \in 0 .. Window - 1
  BY BlockAssumption

LEMMA PreBlockRings ==
  ASSUME TypeOK, RingInv, PreBlock
  PROVE  RingInv'
  <1>1. /\ stage = "pre" /\ stage' = "txs" /\ number' = number
        /\ number \in Nat /\ number >= 1 /\ now \in Nat /\ Window \in Nat \ {0}
        /\ hashes \in Ring /\ times \in Ring /\ roots \in Ring /\ stamps \in Seq(Nat)
    BY BlockAssumption DEF TypeOK, PreBlock, Ring
  <1>2. PICK t \in now + 1 .. now + Gap :
          now' = t /\ PutTime(t) /\ PutRoot(t) /\ stamps' = Append(stamps, t)
    BY DEF PreBlock
  <1>3. t \in Nat /\ now < t
    BY <1>1, <1>2, BlockAssumption
  <1>4. /\ Len(stamps) = number - 1
        /\ \A n \in 1 .. number - 1 : stamps[n] \in Nat /\ stamps[n] <= now
    BY <1>1 DEF RingInv, Opened
  <1>5. /\ Len(stamps') = number /\ stamps'[number] = t
        /\ \A n \in 1 .. number - 1 : stamps'[n] = stamps[n]
    BY <1>1, <1>2, <1>3, <1>4
  <1>6. \A n \in 1 .. number : n \in 1 .. number - 1 \/ n = number
    BY <1>1
  <1>7. \A n \in 0 .. number - 1 : n \in 0 .. number - 2 \/ n = number - 1
    BY <1>1
  <1>8. ASSUME NEW n \in 0 .. number - 1, number - n <= Window
        PROVE  hashes'[n % Window] = n
    <2>1. hashes' = [hashes EXCEPT ![(number - 1) % Window] = number - 1]
      BY DEF PreBlock, PutHash
    <2>2. n \in Nat /\ number - 1 \in Nat
      BY <1>1
    <2>3. n % Window \in DOMAIN hashes
      BY <1>1, <2>2, Places DEF Ring
    <2>4. CASE n = number - 1
      BY <2>1, <2>3, <2>4
    <2>5. CASE n \in 0 .. number - 2
      <3>1. n % Window # (number - 1) % Window
        <4>1. n < number - 1 /\ (number - 1) - n < Window
          BY <1>1, <1>8, <2>5
        <4>2. QED
          BY <2>2, <4>1, OwnPlace
      <3>2. hashes[n % Window] = n
        <4>1. n \in 0 .. (number - 1) - 1 /\ (number - 1) - n <= Window
          BY <1>1, <1>8, <2>5
        <4>2. QED
          BY <1>1, <4>1 DEF RingInv, HashesServed, Opened
      <3>3. QED
        BY <2>1, <2>3, <3>1, <3>2
    <2>6. QED
      BY <1>7, <2>4, <2>5
  <1>9. ASSUME NEW n \in 1 .. number, t - stamps'[n] < Window
        PROVE  times'[stamps'[n] % Window] = stamps'[n] /\ roots'[stamps'[n] % Window] = n
    <2>1. /\ times' = [times EXCEPT ![t % Window] = t]
          /\ roots' = [roots EXCEPT ![t % Window] = number]
      BY <1>2 DEF PutTime, PutRoot
    <2>2. DOMAIN times = 0 .. Window - 1 /\ DOMAIN roots = 0 .. Window - 1
      BY <1>1 DEF Ring
    <2>3. CASE n = number
      BY <1>3, <1>5, <2>1, <2>2, <2>3, Places
    <2>4. CASE n \in 1 .. number - 1
      <3>1. PICK u \in Nat : u = stamps[n] /\ u <= now /\ stamps'[n] = u
        BY <1>4, <1>5, <2>4
      <3>2. now - u < Window /\ u < t /\ t - u < Window
        BY <1>1, <1>3, <1>9, <3>1
      <3>3. u % Window # t % Window
        BY <1>3, <3>2, OwnPlace
      <3>4. times[u % Window] = u /\ roots[u % Window] = n
        BY <1>1, <2>4, <3>1, <3>2 DEF RingInv, RootsServed, Opened
      <3>5. u % Window \in 0 .. Window - 1
        BY Places
      <3>6. QED
        BY <2>1, <2>2, <3>1, <3>3, <3>4, <3>5
    <2>5. QED
      BY <1>6, <2>3, <2>4
  <1>10. Opened' = number
    BY <1>1 DEF Opened
  <1>11. \A n \in 1 .. number : stamps'[n] <= now'
    <2>1. \A n \in 1 .. number - 1 : stamps'[n] <= t
      BY <1>1, <1>3, <1>4, <1>5
    <2>2. QED
      BY <1>2, <1>3, <1>5, <1>6, <2>1
  <1>12. HashesServed' /\ RootsServed'
    BY <1>2, <1>8, <1>9, <1>10 DEF HashesServed, RootsServed
  <1>13. QED
    BY <1>5, <1>10, <1>11, <1>12 DEF RingInv

\* While nothing fails, the history contract serves the last Window hashes, and
\* the beacon roots contract each root of the last Window seconds (exe.rs
\* pre_block), however many slots are missed between blocks.
THEOREM HistoryCorrect == Spec => []HistoryIsServed
  <1>1. Init => RingInv
    BY DEF Init, RingInv, Opened, HashesServed, RootsServed
  <1>2. TypeOK /\ RingInv /\ [Next]_vars => RingInv'
    <2> SUFFICES ASSUME TypeOK, RingInv, [Next]_vars
                 PROVE  RingInv'
      OBVIOUS
    <2>1. CASE UNCHANGED <<stage, number, now, ringVars, stamps>>
      BY <2>1 DEF ringVars, RingInv, Opened, HashesServed, RootsServed
    <2>2. CASE TxStep \/ TxRequests \/ TxStepLimit \/ UNCHANGED vars
      BY <2>1, <2>2 DEF TxStep, TxRequests, TxStepLimit, vars
    <2>3. CASE TxErrs \/ PreBlockFails \/ PostBlockFails
      BY <2>3 DEF TxErrs, PreBlockFails, PostBlockFails, RingInv
    <2>4. CASE PostBlock
      <3>1. number \in Nat
        BY DEF TypeOK
      <3>2. CASE stage = "txs"
        <4>1. /\ stage' = "pre" /\ number' = number + 1
              /\ UNCHANGED <<now, ringVars, stamps>>
          BY <2>4, <3>2 DEF PostBlock
        <4>2. Opened' = Opened
          BY <3>1, <3>2, <4>1 DEF Opened
        <4>3. QED
          BY <3>2, <4>1, <4>2 DEF RingInv, HashesServed, RootsServed, ringVars
      <3>3. CASE stage # "txs"
        BY <2>4, <3>3 DEF PostBlock, RingInv
      <3>4. QED
        BY <3>2, <3>3
    <2>5. QED
      BY <2>1, <2>2, <2>3, <2>4, PreBlockRings DEF Next, Over
  <1>3. TypeOK /\ RingInv => HistoryIsServed
    <2> SUFFICES ASSUME TypeOK, RingInv, stage = "txs"
                 PROVE  /\ \A n \in 0 .. number - 1 : number - n <= Window => hashes[n % Window] = n
                        /\ \A n \in 1 .. number :
                             now - stamps[n] < Window =>
                               /\ times[stamps[n] % Window] = stamps[n]
                               /\ roots[stamps[n] % Window] = n
      BY DEF HistoryIsServed
    <2>1. QED
      BY DEF RingInv, HashesServed, RootsServed, Opened
  <1>4. QED
    BY <1>1, <1>2, <1>3, BlockTypeCorrect, PTL DEF Spec

----------------------------------------------------------------------------
(* The queue.                                                              *)

LEMMA WaitingFacts ==
  ASSUME RequestsTypeOK
  PROVE  /\ tail - head \in Nat /\ head \in Nat /\ tail \in Nat
         /\ tail <= Slots /\ Slots \in Nat
         /\ Waiting \in Seq(Request) /\ Len(Waiting) = tail - head
         /\ \A i \in 1 .. tail - head : Waiting[i] = queue[head + i - 1]
  <1>1. /\ tail - head \in Nat /\ head \in Nat /\ tail \in Nat
        /\ tail <= Slots /\ Slots \in Nat
    BY RequestsAssumption DEF RequestsTypeOK
  <1>2. \A i \in 1 .. tail - head : queue[head + i - 1] \in Request
    BY <1>1 DEF RequestsTypeOK
  <1>3. QED
    BY <1>1, <1>2 DEF Waiting

LEMMA AddMakes ==
  ASSUME RequestsTypeOK, RequestsTypeOK', NEW r \in Request, Add(r)
  PROVE  Fifo!Make(r)
  <1> DEFINE n == tail - head
  <1>1. /\ n \in Nat /\ head \in Nat /\ tail \in Nat /\ tail < Slots /\ Slots \in Nat
        /\ Waiting \in Seq(Request) /\ Len(Waiting) = n
        /\ \A i \in 1 .. n : Waiting[i] = queue[head + i - 1]
    BY WaitingFacts DEF Add
  <1>2. head' = head /\ tail' = tail + 1 /\ queue' = [queue EXCEPT ![tail] = r]
    BY DEF Add
  <1>3. /\ Waiting' = [i \in 1 .. n + 1 |-> queue'[head + i - 1]]
    BY <1>1, <1>2 DEF Waiting
  <1>4. ASSUME NEW i \in 1 .. n + 1
        PROVE  queue'[head + i - 1] = Append(Waiting, r)[i]
    <2>1. head + i - 1 \in 0 .. Slots - 1 /\ tail = head + n
      BY <1>1
    <2>2. DOMAIN queue = 0 .. Slots - 1
      BY DEF RequestsTypeOK
    <2>3. CASE i = n + 1
      BY <1>1, <1>2, <2>1, <2>2, <2>3
    <2>4. CASE i \in 1 .. n
      BY <1>1, <1>2, <2>1, <2>2, <2>4
    <2>5. QED
      BY <1>1, <2>3, <2>4
  <1>5. Append(Waiting, r) \in Seq(Request) /\ Len(Append(Waiting, r)) = n + 1
    BY <1>1
  <1>6. Waiting' = Append(Waiting, r)
    <2> DEFINE longer == Append(Waiting, r)
    <2>1. longer \in Seq(Request) /\ Len(longer) = n + 1
      BY <1>5
    <2> HIDE DEF longer
    <2>2. longer = [i \in 1 .. n + 1 |-> longer[i]]
      BY <2>1
    <2>3. \A i \in 1 .. n + 1 : queue'[head + i - 1] = longer[i]
      BY <1>4 DEF longer
    <2>4. Waiting' = longer
      BY <1>3, <2>2, <2>3
    <2>5. QED
      BY <2>4 DEF longer
  <1>7. QED
    BY <1>6 DEF Fifo!Make

LEMMA EndBlockTakes ==
  ASSUME RequestsTypeOK, RequestsTypeOK', EndBlock
  PROVE  Fifo!Take
  <1> DEFINE n == tail - head
             k == IF n < MaxPerBlock THEN n ELSE MaxPerBlock
  <1>1. /\ n \in Nat /\ head \in Nat /\ tail \in Nat /\ tail = head + n
        /\ Waiting \in Seq(Request) /\ Len(Waiting) = n
        /\ \A i \in 1 .. n : Waiting[i] = queue[head + i - 1]
        /\ MaxPerBlock \in Nat
    BY WaitingFacts, RequestsAssumption
  <1>2. k \in 0 .. n
    BY <1>1
  <1>3. queue' = queue /\ IF head + k = tail THEN head' = 0 /\ tail' = 0
                                             ELSE head' = head + k /\ tail' = tail
    BY <1>1 DEF EndBlock, Dequeue, Minus
  <1> HIDE DEF n, k
  <1>4. tail' - head' = n - k
    BY <1>1, <1>2, <1>3
  <1>5. Waiting' = [i \in 1 .. n - k |-> queue[head' + i - 1]]
    BY <1>3, <1>4 DEF Waiting
  <1>6. ASSUME NEW i \in 1 .. n - k
        PROVE  queue[head' + i - 1] = Waiting[k + i]
    <2>1. head' = head + k /\ k + i \in 1 .. n /\ head + (k + i) - 1 = head' + i - 1
      BY <1>1, <1>2, <1>3
    <2>2. QED
      BY <1>1, <2>1
  <1>7. SubSeq(Waiting, k + 1, n) = [i \in 1 .. n - k |-> Waiting[k + i]]
    BY <1>1, <1>2 DEF SubSeq
  <1>8. Waiting' = SubSeq(Waiting, k + 1, n)
    BY <1>5, <1>6, <1>7
  <1>9. QED
    BY <1>1, <1>8 DEF Fifo!Take, k
\* The predeploy's storage, with its slots used again from the first, is a
\* queue: for any bound of a block, any number of slots and any requests.
THEOREM QueueImplementsFifo == Spec => RequestsAreTakenInOrder
  <1>1. Init => Fifo!Init
    BY DEF Init, RequestsInit, Waiting, Fifo!Init
  <1>2. TypeOK /\ TypeOK' /\ [Next]_vars => [Fifo!Next]_Waiting
    <2> SUFFICES ASSUME TypeOK, TypeOK', [Next]_vars
                 PROVE  Fifo!Next \/ UNCHANGED Waiting
      BY DEF Fifo!Next
    <2>1. RequestsTypeOK /\ RequestsTypeOK'
      BY DEF TypeOK
    <2>2. CASE UNCHANGED queueVars
      BY <2>2 DEF queueVars, Waiting
    <2>3. CASE TxRequests
      <3>1. PICK q \in Request : Add(q)
        BY <2>3 DEF TxRequests
      <3>2. QED
        BY <2>1, <3>1, AddMakes DEF Fifo!Next
    <2>4. CASE PostBlock \/ PostBlockFails
      <3>1. EndBlock \/ UNCHANGED queueVars
        BY <2>4 DEF PostBlock, PostBlockFails
      <3>2. QED
        BY <2>1, <2>2, <3>1, EndBlockTakes DEF Fifo!Next
    <2>5. QED
      BY <2>2, <2>3, <2>4 DEF Next, PreBlock, PreBlockFails, TxStep, TxStepLimit, TxErrs,
         Over, vars
  <1>3. QED
    BY <1>1, <1>2, BlockTypeCorrect, PTL DEF Spec, RequestsAreTakenInOrder, Fifo!Spec

----------------------------------------------------------------------------
(* Ether.  Sums of balances are compared modulo W: what differs is a       *)
(* multiple of it.                                                         *)

Whole(x) == Multiple(x, W)

LEMMA WholeParts ==
  ASSUME NEW x \in Int
  PROVE  Whole((x % W) - x) /\ x % W \in Int
  BY SettleAssumption, MultipleRest DEF Whole

LEMMA WholeSum ==
  ASSUME NEW x \in Int, NEW y \in Int, Whole(x), Whole(y)
  PROVE  Whole(x + y) /\ Whole(x - y)
  BY SettleAssumption, MultipleSum DEF Whole

LEMMA WholeTimes ==
  ASSUME NEW x \in Int, NEW n \in Int, Whole(x)
  PROVE  Whole(n * x)
  BY SettleAssumption, MultipleTimes DEF Whole

LEMMA WholeSame ==
  ASSUME NEW x \in Int, NEW y \in Int, Whole(x - y)
  PROVE  x % W = y % W
  BY SettleAssumption, MultipleSame DEF Whole

LEMMA WholeZero == Whole(0)
  BY SettleAssumption, MultipleZero DEF Whole

Balances == Wrapped(Acc, W)

LEMMA BalancesSum ==
  ASSUME NEW b \in Balances
  PROVE  Total(b, Acc) \in Int /\ \A a \in Acc : b[a] \in Int
  BY SettleAssumption, WrappedSum DEF Balances

\* A balance that changes by x changes the sum by x.
LEMMA BalanceAdds ==
  ASSUME NEW b \in Balances, NEW a \in Acc, NEW x \in Int,
         NEW c, c = [b EXCEPT ![a] = (@ + x) % W]
  PROVE  c \in Balances /\ Whole(Total(c, Acc) - Total(b, Acc) - x)
  BY SettleAssumption, TotalWraps DEF Balances, Whole

\* All ether there is, before it is reduced.
Kept == Total(bal, Acc) + burned + owed + lost - minted

LEMMA KeptParts ==
  ASSUME SettleTypeOK
  PROVE  /\ bal \in Balances /\ Total(bal, Acc) \in Int /\ Kept \in Int
         /\ burned \in Int /\ owed \in Int /\ lost \in Int /\ minted \in Int
  <1>1. bal \in Balances
    BY DEF SettleTypeOK, Balances, Wrapped
  <1>2. Total(bal, Acc) \in Int
    BY <1>1, BalancesSum
  <1>3. burned \in Int /\ owed \in Int /\ lost \in Int /\ minted \in Int
    BY SettleAssumption DEF SettleTypeOK
  <1>4. QED
    BY <1>1, <1>2, <1>3 DEF Kept

\* What the transaction in hand has paid.
PaidInv ==
  phase \in {"exec", "settle"} =>
    /\ price = Effective(tx) /\ BaseFee <= tx.cap
    /\ Whole(owed - (price * tx.gas + tx.blob))

LEMMA ChargeKeeps ==
  ASSUME SettleTypeOK, SettleTypeOK', Charge
  PROVE  Whole(Kept' - Kept) /\ PaidInv'
  <1> DEFINE upfront == (Effective(tx) * tx.gas + tx.blob) % W
             x == 0 - upfront
  <1>1. /\ tx \in Tx /\ Effective(tx) \in Int /\ tx.gas \in Int /\ tx.blob \in Int
        /\ tx.by \in Acc /\ W \in Nat \ {0}
    <2>1. tx \in Tx /\ W \in Nat \ {0}
      BY SettleAssumption DEF SettleTypeOK
    <2>2. Effective(tx) \in 0 .. W - 1 /\ tx.gas \in Nat /\ tx.blob \in Nat /\ tx.by \in Acc
      BY <2>1, EffectiveType, TxFacts
    <2>3. QED
      BY <2>1, <2>2
  <1>2. Effective(tx) * tx.gas + tx.blob \in Int
    BY <1>1
  <1>3. upfront \in Int /\ Whole(upfront - (Effective(tx) * tx.gas + tx.blob))
    BY <1>2, WholeParts
  <1>4. /\ bal \in Balances /\ Total(bal, Acc) \in Int /\ Total(bal', Acc) \in Int
        /\ burned \in Int /\ lost \in Int /\ minted \in Int /\ owed = 0
    BY KeptParts, BalancesSum DEF SettleTypeOK, Balances, Wrapped, Charge
  <1>5. Whole(Total(bal', Acc) - Total(bal, Acc) - x)
    <2>1. bal' = [bal EXCEPT ![tx.by] = (@ - upfront) % W]
      BY DEF Charge
    <2>2. bal[tx.by] \in Int
      BY <1>1, <1>4, BalancesSum
    <2> HIDE DEF upfront
    <2>3. bal[tx.by] - upfront = bal[tx.by] + x /\ x \in Int
      BY <1>3, <2>2
    <2>4. bal' = [bal EXCEPT ![tx.by] = (@ + x) % W]
      BY <2>1, <2>3
    <2> HIDE DEF x
    <2>5. QED
      BY <1>1, <1>4, <2>3, <2>4, BalanceAdds
  <1>6. burned' = burned /\ minted' = minted /\ tx' = tx /\ price' = Effective(tx)
        /\ BaseFee <= tx.cap /\ phase = "auths"
    BY DEF Charge
  <1> DEFINE p == Total(bal, Acc)
             q == Total(bal', Acc)
  <1>7. p \in Int /\ q \in Int /\ Whole(q - p - x) /\ x = 0 - upfront
    BY <1>4, <1>5
  <1>8. Kept = p + burned + owed + lost - minted /\ Kept' = q + burned' + owed' + lost' - minted'
    BY DEF Kept
  <1>9. CASE Leave /\ lost' = (lost + upfront) % W /\ owed' = owed
    <2>1. lost + upfront \in Int
      BY <1>3, <1>4
    <2>2. lost' \in Int /\ Whole(lost' - (lost + upfront))
      BY <1>9, <2>1, WholeParts
    <2> HIDE DEF p, q, x, upfront
    <2>3. Kept' - Kept = (q - p - x) + (lost' - (lost + upfront))
      BY <1>3, <1>4, <1>6, <1>7, <1>8, <1>9, <2>2
    <2>4. x \in Int
      BY <1>3, <1>7
    <2>5. q - p - x \in Int /\ lost' - (lost + upfront) \in Int
      BY <1>4, <1>7, <2>1, <2>2, <2>4
    <2>6. Whole(Kept' - Kept)
      BY <1>7, <2>2, <2>3, <2>5, WholeSum
    <2>7. QED
      BY <1>9, <2>6 DEF Leave, PaidInv
  <1>10. CASE phase' = "exec" /\ owed' = upfront /\ lost' = lost
    <2>1. PaidInv'
      BY <1>3, <1>6, <1>10 DEF PaidInv, Effective, Lesser
    <2> HIDE DEF p, q, x, upfront
    <2>2. Kept' - Kept = q - p - x
      BY <1>3, <1>4, <1>6, <1>7, <1>8, <1>10
    <2>3. QED
      BY <1>7, <2>1, <2>2
  <1>11. QED
    BY <1>9, <1>10 DEF Charge

\* A transfer keeps the sum, from an account to itself as well.
LEMMA MovedKeeps ==
  ASSUME SettleTypeOK, NEW t \in Tx
  PROVE  Whole(Total(Moved(t), Acc) - Total(bal, Acc))
  <1> DEFINE x == 0 - t.eth
             paid == [bal EXCEPT ![t.by] = (@ - t.eth) % W]
  <1>1. t.by \in Acc /\ t.to \in Acc /\ t.eth \in Int /\ bal \in Balances
        /\ bal[t.by] \in Int
    <2> HIDE DEF x, paid
    <2>1. t.by \in Acc /\ t.to \in Acc /\ t.eth \in Int
      BY TxFacts
    <2>2. bal \in Balances
      BY KeptParts
    <2>3. bal[t.by] \in Int
      BY <2>1, <2>2, BalancesSum
    <2>4. QED
      BY <2>1, <2>2, <2>3
  <1>2. x \in Int /\ bal[t.by] - t.eth = bal[t.by] + x
    BY <1>1
  <1>3. paid = [bal EXCEPT ![t.by] = (@ + x) % W]
    BY <1>2
  <1>4. Moved(t) = [paid EXCEPT ![t.to] = (@ + t.eth) % W]
    BY DEF Moved
  <1>5. x = 0 - t.eth
    OBVIOUS
  <1> HIDE DEF x, paid
  <1>6. paid \in Balances /\ Whole(Total(paid, Acc) - Total(bal, Acc) - x)
    BY <1>1, <1>2, <1>3, BalanceAdds
  <1>7. Moved(t) \in Balances /\ Whole(Total(Moved(t), Acc) - Total(paid, Acc) - t.eth)
    BY <1>1, <1>4, <1>6, BalanceAdds
  <1> DEFINE p == Total(bal, Acc)
             q == Total(paid, Acc)
             r == Total(Moved(t), Acc)
  <1>8. /\ p \in Int /\ q \in Int /\ r \in Int
        /\ Whole(q - p - x) /\ Whole(r - q - t.eth)
    BY <1>1, <1>6, <1>7, BalancesSum
  <1> HIDE DEF p, q, r
  <1>9. q - p - x \in Int /\ r - q - t.eth \in Int
        /\ r - p = (q - p - x) + (r - q - t.eth)
    BY <1>1, <1>2, <1>5, <1>8
  <1>10. Whole(r - p)
    BY <1>8, <1>9, WholeSum
  <1>11. QED
    BY <1>10 DEF p, r

\* The tip is what the price leaves over the base fee.
LEMMA FeeSplits ==
  ASSUME SettleTypeOK, price = Effective(tx), BaseFee <= tx.cap
  PROVE  /\ PriorityFee \in Int /\ price \in Int /\ BaseFee \in Int
         /\ Whole(PriorityFee + BaseFee - price)
  <1>1. /\ W \in Nat \ {0} /\ BaseFee \in 0 .. W - 1
        /\ tx.cap \in 0 .. W - 1 /\ tx.prio \in 0 .. W - 1 /\ price \in 0 .. W - 1
    BY TxFacts, SettleAssumption DEF SettleTypeOK
  <1> DEFINE d == (price - BaseFee) % W
             e == (BaseFee + tx.prio) % W
  <1>2. d \in 0 .. W - 1 /\ Whole(d - (price - BaseFee))
    <2>1. price - BaseFee \in Int
      BY <1>1
    <2>2. QED
      BY <2>1, Reduced, WholeParts
  <1>3. e = IF BaseFee + tx.prio < W THEN BaseFee + tx.prio ELSE BaseFee + tx.prio - W
    BY <1>1
  <1>4. BaseFee <= price => d = price - BaseFee
    BY <1>1
  <1>5. BaseFee > price => d = price - BaseFee + W
    <2> SUFFICES ASSUME BaseFee > price PROVE d = price - BaseFee + W
      OBVIOUS
    <2>1. price - BaseFee + W \in 0 .. W - 1
      BY <1>1
    <2>2. (price - BaseFee + W) % W = (price - BaseFee) % W
      <3> DEFINE x == price - BaseFee + W
                 y == price - BaseFee
      <3>1. x \in Int /\ y \in Int
        BY <1>1
      <3>2. x - y = 1 * W
        BY <1>1
      <3> HIDE DEF x, y
      <3>3. Whole(x - y)
        BY <3>2 DEF Whole, Multiple
      <3>4. x % W = y % W
        BY <3>1, <3>3, WholeSame
      <3>5. QED
        BY <3>4 DEF x, y
    <2>3. (price - BaseFee + W) % W = price - BaseFee + W
      BY <1>1, <2>1
    <2>4. QED
      BY <2>2, <2>3
  <1>6. price = IF tx.legacy THEN tx.cap ELSE IF tx.cap < e THEN tx.cap ELSE e
    BY DEF Effective, Lesser
  <1>7. PriorityFee = IF tx.legacy THEN d ELSE IF tx.prio < d THEN tx.prio ELSE d
    BY DEF PriorityFee, Lesser
  <1> HIDE DEF d, e
  <1>8. PriorityFee = d
    BY <1>1, <1>2, <1>3, <1>4, <1>5, <1>6, <1>7
  <1>9. d + BaseFee - price = d - (price - BaseFee)
    BY <1>1, <1>2
  <1>10. QED
    BY <1>1, <1>2, <1>8, <1>9

LEMMA FinalizeKeeps ==
  ASSUME SettleTypeOK, SettleTypeOK', PaidInv, Finalize
  PROVE  Whole(Kept' - Kept)
  <1> DEFINE F == FinalGas
             returned == Greater(tx.gas - FinalGas, 0)
             over     == Greater(FinalGas - tx.gas, 0)
             back     == returned * price
             extra    == over * price
             full     == price * tx.gas
             tips     == FinalGas * PriorityFee
             base     == FinalGas * BaseFee
             paidBack == [bal EXCEPT ![tx.by] = (@ + returned * price) % W]
  <1>1. /\ tx.by \in Acc /\ tx.gas \in Int /\ tx.blob \in Int /\ Coinbase \in Acc
        /\ tx \in Tx
    <2>1. tx \in Tx /\ Coinbase \in Acc
      BY SettleAssumption DEF SettleTypeOK
    <2>2. QED
      BY <2>1, TxFacts
  <1>2. F \in Int
    BY FinalGasType
  <1>3. /\ price = Effective(tx) /\ BaseFee <= tx.cap
        /\ Whole(owed - (full + tx.blob))
    BY DEF PaidInv, Finalize
  <1>4. /\ PriorityFee \in Int /\ price \in Int /\ BaseFee \in Int
        /\ Whole(PriorityFee + BaseFee - price)
    BY <1>3, FeeSplits
  <1>5. /\ returned \in Int /\ over \in Int /\ returned - over = tx.gas - F
    BY <1>1, <1>2 DEF Greater
  <1>6. back \in Int /\ extra \in Int /\ full \in Int /\ tips \in Int /\ base \in Int
    BY <1>1, <1>2, <1>4, <1>5
  <1>7. Whole(F * (PriorityFee + BaseFee - price))
    BY <1>2, <1>4, WholeTimes
  <1>8. F * (PriorityFee + BaseFee - price) = tips + base - F * price /\ F * price \in Int
    BY <1>2, <1>4
  <1>9. back - extra = full - F * price
    <2> HIDE DEF F, returned, over
    <2>1. back - extra = (returned - over) * price
      BY <1>4, <1>5 DEF returned, over
    <2>2. (tx.gas - F) * price = full - F * price
      BY <1>1, <1>2, <1>4
    <2>3. QED
      BY <1>5, <2>1, <2>2
  <1>10. Whole(tips + base + back - extra - full)
    <2> HIDE DEF F, returned, over, back, extra, full, tips, base
    <2> DEFINE Fp == F * price
    <2>1. Fp \in Int /\ Whole(tips + base - Fp) /\ back - extra = full - Fp
      BY <1>7, <1>8, <1>9
    <2> HIDE DEF Fp
    <2>2. tips + base + back - extra - full = tips + base - Fp
      BY <1>6, <2>1
    <2>3. QED
      BY <2>1, <2>2
  <1>11. bal' = [paidBack EXCEPT ![Coinbase] = (@ + Tip) % W]
    BY DEF Finalize
  <1>12. paidBack = [bal EXCEPT ![tx.by] = (@ + back) % W]
    OBVIOUS
  <1>13. Tip \in Int /\ Whole(Tip - tips)
    BY <1>6, WholeParts DEF Tip
  <1>14. burned' \in Int /\ Whole(burned' - (burned + base + tx.blob)) /\ burned \in Int
    <2>1. burned' = (burned + base + tx.blob) % W
      BY DEF Finalize
    <2>2. burned + base + tx.blob \in Int /\ burned \in Int
      BY <1>1, <1>6, KeptParts
    <2>3. QED
      BY <2>1, <2>2, WholeParts
  <1>15. minted' \in Int /\ Whole(minted' - (minted + extra)) /\ minted \in Int
    <2>1. minted' = (minted + extra) % W
      BY DEF Finalize
    <2>2. minted + extra \in Int /\ minted \in Int
      BY <1>6, KeptParts
    <2>3. QED
      BY <2>1, <2>2, WholeParts
  <1>16. owed' = 0 /\ lost' = lost /\ owed \in Int /\ lost \in Int /\ bal \in Balances
    BY KeptParts DEF Finalize
  <1> HIDE DEF F, returned, over, back, extra, full, tips, base, paidBack
  <1>17. /\ paidBack \in Balances /\ Whole(Total(paidBack, Acc) - Total(bal, Acc) - back)
    BY <1>1, <1>6, <1>12, <1>16, BalanceAdds
  <1>18. bal' \in Balances /\ Whole(Total(bal', Acc) - Total(paidBack, Acc) - Tip)
    BY <1>1, <1>11, <1>13, <1>17, BalanceAdds
  <1> DEFINE p == Total(bal, Acc)
             q == Total(paidBack, Acc)
             r == Total(bal', Acc)
  <1>19. p \in Int /\ q \in Int /\ r \in Int
         /\ Whole(q - p - back) /\ Whole(r - q - Tip)
    BY <1>16, <1>17, <1>18, BalancesSum
  <1>20. Kept = p + burned + owed + lost - minted /\ Kept' = r + burned' + owed' + lost' - minted'
    BY DEF Kept
  <1> HIDE DEF p, q, r
  <1> DEFINE A == q - p - back
             B == r - q - Tip
             C == Tip - tips
             D == burned' - (burned + base + tx.blob)
             E == minted' - (minted + extra)
             G == owed - (full + tx.blob)
             H == tips + base + back - extra - full
  <1>21. /\ A \in Int /\ B \in Int /\ C \in Int /\ D \in Int /\ E \in Int /\ G \in Int
         /\ H \in Int
    BY <1>1, <1>6, <1>13, <1>14, <1>15, <1>16, <1>19
  <1>22. /\ Whole(A) /\ Whole(B) /\ Whole(C) /\ Whole(D) /\ Whole(E) /\ Whole(G)
         /\ Whole(H)
    BY <1>3, <1>10, <1>13, <1>14, <1>15, <1>19
  <1>23. Kept' - Kept = (((((A + B) + C) + D) - E) - G) + H
    BY <1>1, <1>6, <1>13, <1>14, <1>15, <1>16, <1>19, <1>20
  <1> HIDE DEF A, B, C, D, E, G, H
  <1>24. Whole(A + B) /\ A + B \in Int
    BY <1>21, <1>22, WholeSum
  <1>25. Whole((A + B) + C) /\ (A + B) + C \in Int
    BY <1>21, <1>22, <1>24, WholeSum
  <1>26. Whole(((A + B) + C) + D) /\ ((A + B) + C) + D \in Int
    BY <1>21, <1>22, <1>25, WholeSum
  <1>27. Whole((((A + B) + C) + D) - E) /\ (((A + B) + C) + D) - E \in Int
    BY <1>21, <1>22, <1>26, WholeSum
  <1>28. Whole(((((A + B) + C) + D) - E) - G) /\ ((((A + B) + C) + D) - E) - G \in Int
    BY <1>21, <1>22, <1>27, WholeSum
  <1>29. Whole((((((A + B) + C) + D) - E) - G) + H)
    BY <1>21, <1>22, <1>28, WholeSum
  <1>30. QED
    BY <1>23, <1>29

LEMMA StopKeeps ==
  ASSUME SettleTypeOK, SettleTypeOK', Stop
  PROVE  Whole(Kept' - Kept) /\ PaidInv'
  <1>1. /\ owed \in Int /\ lost \in Int /\ burned \in Int /\ minted \in Int
        /\ Total(bal, Acc) \in Int
    BY KeptParts
  <1>2. /\ bal' = bal \/ bal' = Moved(tx)
        /\ lost' = (lost + owed) % W /\ owed' = 0 /\ burned' = burned /\ minted' = minted
    BY DEF Stop
  <1>3. bal' \in Balances /\ Total(bal', Acc) \in Int
    BY BalancesSum DEF SettleTypeOK, Balances, Wrapped
  <1>4. Whole(Total(bal', Acc) - Total(bal, Acc))
    <2>1. CASE bal' = bal
      <3>1. Total(bal', Acc) - Total(bal, Acc) = 0
        BY <1>1, <2>1
      <3>2. QED
        BY <3>1, WholeZero
    <2>2. CASE bal' = Moved(tx)
      BY <2>2, MovedKeeps DEF SettleTypeOK
    <2>3. QED
      BY <1>2, <2>1, <2>2
  <1>5. lost' \in Int /\ Whole(lost' - (lost + owed))
    <2>1. lost + owed \in Int
      BY <1>1
    <2>2. QED
      BY <1>2, <2>1, WholeParts
  <1> DEFINE p == Total(bal, Acc)
             q == Total(bal', Acc)
  <1>6. Kept = p + burned + owed + lost - minted /\ Kept' = q + burned' + owed' + lost' - minted'
    BY DEF Kept
  <1>7. p \in Int /\ q \in Int /\ Whole(q - p)
    BY <1>1, <1>3, <1>4
  <1> HIDE DEF p, q
  <1>8. Kept' - Kept = (q - p) + (lost' - (lost + owed))
        /\ q - p \in Int /\ lost' - (lost + owed) \in Int
    BY <1>1, <1>2, <1>5, <1>6, <1>7
  <1>9. Whole(Kept' - Kept)
    BY <1>5, <1>7, <1>8, WholeSum
  <1>10. QED
    BY <1>9 DEF Stop, Leave, PaidInv

LEMMA SucceedKeeps ==
  ASSUME SettleTypeOK, SettleTypeOK', NEW s, NEW r, Succeed(s, r), PaidInv
  PROVE  Whole(Kept' - Kept) /\ PaidInv'
  <1>1. /\ owed \in Int /\ lost \in Int /\ burned \in Int /\ minted \in Int
        /\ Total(bal, Acc) \in Int
    BY KeptParts
  <1>2. /\ bal' = Moved(tx) /\ phase = "exec" /\ tx' = tx /\ price' = price
        /\ lost' = lost /\ owed' = owed /\ burned' = burned /\ minted' = minted
    BY DEF Succeed, ether
  <1>3. Whole(Total(bal', Acc) - Total(bal, Acc)) /\ Total(bal', Acc) \in Int
    BY <1>2, MovedKeeps, BalancesSum DEF SettleTypeOK, Balances, Wrapped
  <1>4. Kept' - Kept = Total(bal', Acc) - Total(bal, Acc)
    BY <1>1, <1>2, <1>3 DEF Kept
  <1>5. QED
    BY <1>2, <1>3, <1>4 DEF PaidInv, Effective, Lesser

\* A step that moves nothing.
LEMMA NothingKeeps ==
  ASSUME SettleTypeOK, UNCHANGED <<bal, ether>>
  PROVE  Whole(Kept' - Kept)
  <1>1. Kept \in Int /\ Kept' = Kept
    BY KeptParts DEF Kept, ether
  <1>2. Kept' - Kept = 0
    BY <1>1
  <1>3. QED
    BY <1>2, WholeZero

TheTx == <<phase, tx, owed, price>>

LEMMA WithdrawKeeps ==
  ASSUME SettleTypeOK, SettleTypeOK', credited \in 0 .. W - 1, NEW c \in Credit,
         Withdraw(c[1], c[2]), UNCHANGED ether
  PROVE  Whole(Kept' - Kept - (credited' - credited)) /\ credited' \in Int
  <1>1. c[1] \in Acc /\ c[2] \in Int /\ credited \in Int /\ bal \in Balances
    BY SettleAssumption, BlockAssumption, KeptParts
  <1>2. bal' = [bal EXCEPT ![c[1]] = (@ + c[2]) % W] /\ credited' = (credited + c[2]) % W
    BY DEF Withdraw
  <1> DEFINE p == Total(bal, Acc)
             q == Total(bal', Acc)
             v == c[2]
  <1>3. bal' \in Balances /\ Whole(q - p - v)
    BY <1>1, <1>2, BalanceAdds
  <1>4. p \in Int /\ q \in Int
    BY <1>1, <1>3, BalancesSum
  <1>5. credited' \in Int /\ Whole(credited' - (credited + v))
    <2>1. credited + v \in Int
      BY <1>1
    <2>2. QED
      BY <1>2, <2>1, WholeParts
  <1>6. Kept = p + burned + owed + lost - minted /\ Kept' = q + burned + owed + lost - minted
    BY DEF Kept, ether
  <1>7. /\ burned \in Int /\ owed \in Int /\ lost \in Int /\ minted \in Int /\ v \in Int
    BY <1>1, KeptParts
  <1> HIDE DEF p, q, v
  <1> DEFINE A == q - p - v
             B == credited' - (credited + v)
  <1>8. A \in Int /\ B \in Int /\ Whole(A) /\ Whole(B)
    BY <1>1, <1>3, <1>4, <1>5, <1>7
  <1>9. Kept' - Kept - (credited' - credited) = A - B
    BY <1>1, <1>4, <1>5, <1>6, <1>7
  <1> HIDE DEF A, B
  <1>10. QED
    BY <1>5, <1>8, <1>9, WholeSum

\* The inductive invariant: the ether there is, is the ether there was and what
\* withdrawals credited; and the transaction in hand has paid for its gas.
EtherInv ==
  Whole(Kept - (Total(Genesis.bal, Acc) + credited)) /\ PaidInv

LEMMA GenesisSum == Total(Genesis.bal, Acc) \in Int
  <1>1. Genesis.bal \in Balances
    BY SettleAssumption DEF Balances, Wrapped
  <1>2. QED
    BY <1>1, BalancesSum

\* A step that keeps the ether preserves the invariant.
LEMMA KeptStep ==
  ASSUME SettleTypeOK, SettleTypeOK', EtherInv, PaidInv',
         credited \in Int, credited' \in Int, Whole(Kept' - Kept - (credited' - credited))
  PROVE  EtherInv'
  <1> DEFINE g == Total(Genesis.bal, Acc)
  <1>1. Kept \in Int /\ g \in Int
    BY KeptParts, GenesisSum
  <1>2. Kept' \in Int
    <2>1. Total(bal', Acc) \in Int
      BY BalancesSum DEF SettleTypeOK, Balances, Wrapped
    <2>2. burned' \in Int /\ owed' \in Int /\ lost' \in Int /\ minted' \in Int
      BY SettleAssumption DEF SettleTypeOK
    <2>3. QED
      BY <2>1, <2>2 DEF Kept
  <1>3. Whole(Kept - (g + credited))
    BY DEF EtherInv
  <1> HIDE DEF g
  <1> DEFINE A == Kept - (g + credited)
             B == Kept' - Kept - (credited' - credited)
             C == Kept' - (g + credited')
  <1>4. A \in Int /\ B \in Int /\ Whole(A) /\ Whole(B) /\ C = A + B
    BY <1>1, <1>2, <1>3
  <1> HIDE DEF A, B
  <1>5. Whole(C)
    BY <1>4, WholeSum
  <1>6. QED
    BY <1>5 DEF EtherInv, g

LEMMA EtherStep ==
  ASSUME TypeOK, TypeOK', EtherInv, [Next]_vars
  PROVE  EtherInv'
  <1>1. /\ SettleTypeOK /\ SettleTypeOK' /\ PaidInv
        /\ credited \in Int /\ credited' \in Int /\ credited \in 0 .. W - 1
    BY SettleAssumption DEF TypeOK, EtherInv
  <1>2. CASE Whole(Kept' - Kept) /\ PaidInv' /\ credited' = credited
    <2>1. Kept' - Kept - (credited' - credited) = Kept' - Kept
      <3>1. Kept' - Kept \in Int /\ credited' - credited = 0
        <4>1. Kept \in Int /\ Kept' \in Int
          <5>1. Total(bal', Acc) \in Int
            BY <1>1, BalancesSum DEF SettleTypeOK, Balances, Wrapped
          <5>2. burned' \in Int /\ owed' \in Int /\ lost' \in Int /\ minted' \in Int
            BY <1>1, SettleAssumption DEF SettleTypeOK
          <5>3. QED
            BY <1>1, <5>1, <5>2, KeptParts DEF Kept
        <4>2. QED
          BY <1>1, <1>2, <4>1
      <3>2. QED
        BY <3>1
    <2>2. QED
      BY <1>1, <1>2, <2>1, KeptStep
  <1>3. CASE UNCHANGED <<bal, ether, TheTx, credited>>
    <2>1. PaidInv'
      BY <1>1, <1>3 DEF PaidInv, TheTx, Effective, Lesser
    <2>2. QED
      BY <1>1, <1>2, <1>3, <2>1, NothingKeeps
  <1>4. CASE UNCHANGED <<bal, ether, credited>> /\ phase' \in {"idle", "auths"}
    <2>1. PaidInv'
      BY <1>4 DEF PaidInv
    <2>2. QED
      BY <1>1, <1>2, <1>4, <2>1, NothingKeeps
  <1>5. CASE Charge /\ credited' = credited
    BY <1>1, <1>2, <1>5, ChargeKeeps
  <1>6. CASE Stop /\ credited' = credited
    BY <1>1, <1>2, <1>6, StopKeeps
  <1>7. ASSUME NEW s, NEW r, Succeed(s, r), credited' = credited
        PROVE  EtherInv'
    BY <1>1, <1>2, <1>7, SucceedKeeps
  <1>8. ASSUME NEW s, Fail(s), credited' = credited
        PROVE  EtherInv'
    <2>1. UNCHANGED <<bal, ether>> /\ PaidInv'
      BY <1>1, <1>8 DEF Fail, accounts, ether, PaidInv, Effective, Lesser
    <2>2. QED
      BY <1>1, <1>2, <1>8, <2>1, NothingKeeps
  <1>9. CASE Finalize /\ credited' = credited
    <2>1. PaidInv'
      BY <1>9 DEF Finalize, Leave, PaidInv
    <2>2. QED
      BY <1>1, <1>2, <1>9, <2>1, FinalizeKeeps
  <1>10. CASE PreBlock \/ PreBlockFails \/ UNCHANGED vars
    BY <1>3, <1>10 DEF PreBlock, PreBlockFails, vars, settleVars, accounts, TheTx, ether
  <1>11. CASE TxStep
    <2>1. ASSUME NEW t \in Tx, Begin(t)
          PROVE  EtherInv'
      BY <1>4, <1>11, <2>1 DEF TxStep, Begin, ether
    <2>2. CASE SkipTuple
      BY <1>3, <1>11, <2>2 DEF TxStep, SkipTuple, accounts, TheTx, ether
    <2>3. CASE ApplyTuple
      BY <1>3, <1>11, <2>3 DEF TxStep, ApplyTuple, TheTx, ether
    <2>4. QED
      BY <1>5, <1>7, <1>8, <1>9, <1>11, <2>1, <2>2, <2>3 DEF TxStep
  <1>12. CASE TxRequests
    BY <1>7, <1>12 DEF TxRequests
  <1>13. CASE TxStepLimit
    BY <1>6, <1>13 DEF TxStepLimit
  <1>14. CASE TxErrs
    <2>1. ASSUME NEW t \in Tx, Reject(t)
          PROVE  EtherInv'
      BY <1>4, <1>14, <2>1 DEF TxErrs, Reject, Leave, accounts, ether
    <2>2. CASE TupleFails
      BY <1>4, <1>14, <2>2 DEF TxErrs, TupleFails, Leave, ether
    <2>3. CASE PriceRefused
      BY <1>4, <1>14, <2>3 DEF TxErrs, PriceRefused, Leave, accounts, ether
    <2>4. QED
      BY <1>5, <1>6, <1>14, <2>1, <2>2, <2>3 DEF TxErrs
  <1>15. CASE PostBlock \/ PostBlockFails
    <2>1. UNCHANGED <<ether, TheTx>>
      BY <1>15 DEF PostBlock, PostBlockFails, beside, TheTx, ether
    <2>2. CASE UNCHANGED <<bal, credited, held>>
      BY <1>3, <2>1, <2>2
    <2>3. ASSUME NEW c \in Credit, Withdraw(c[1], c[2])
          PROVE  EtherInv'
      <3>1. PaidInv'
        BY <1>1, <2>1 DEF PaidInv, TheTx, Effective, Lesser, ether
      <3>2. QED
        BY <1>1, <2>1, <2>3, <3>1, WithdrawKeeps, KeptStep
    <2>4. QED
      BY <1>15, <2>2, <2>3 DEF PostBlock, PostBlockFails
  <1>16. QED
    BY <1>10, <1>11, <1>12, <1>13, <1>14, <1>15 DEF Next, Over

\* Ether is neither made nor lost (exe.rs intrinsic, finalized, transfer and
\* apply_withdrawals), whatever the fees, the balances and the errors.
THEOREM EtherConserved == Spec => []EtherAddsUp
  <1>1. Init => EtherInv
    <2> SUFFICES ASSUME Init PROVE EtherInv
      OBVIOUS
    <2>1. /\ bal = Genesis.bal /\ burned = 0 /\ owed = 0 /\ lost = 0 /\ minted = 0
          /\ credited = 0 /\ phase = "idle"
      BY DEF Init, SettleInit
    <2>2. Kept - (Total(Genesis.bal, Acc) + credited) = 0
      BY <2>1, GenesisSum DEF Kept
    <2>3. QED
      BY <2>1, <2>2, WholeZero DEF EtherInv, PaidInv
  <1>2. TypeOK /\ TypeOK' /\ EtherInv /\ [Next]_vars => EtherInv'
    BY EtherStep
  <1>3. TypeOK /\ EtherInv => EtherAddsUp
    <2> SUFFICES ASSUME TypeOK, EtherInv PROVE EtherAddsUp
      OBVIOUS
    <2> DEFINE g == Total(Genesis.bal, Acc)
               x == g + credited
    <2>1. Kept \in Int /\ x \in Int /\ Whole(Kept - x)
      BY KeptParts, GenesisSum, SettleAssumption DEF TypeOK, EtherInv
    <2> HIDE DEF x
    <2>2. Kept % W = x % W
      BY <2>1, WholeSame
    <2>3. Kept % W = Ether
      BY DEF Kept, Ether, Total
    <2>4. x = MapThenSumSet(LAMBDA a : Genesis.bal[a], Acc) + credited
      BY DEF x, Total
    <2>5. QED
      BY <2>2, <2>3, <2>4 DEF EtherAddsUp
  <1>4. QED
    BY <1>1, <1>2, <1>3, BlockTypeCorrect, PTL DEF Spec

----------------------------------------------------------------------------
(* The excess.                                                             *)

\* What the blocks from k on left beyond the target.
Sent(d, k) == Total(d, k .. Len(d))
Left(d, k) == Sent(d, k) - Target * (Len(d) - k + 1)

\* The inductive invariant: the excess is a bound of what they left, and the
\* least; before the predeploy is activated there is nothing.
ExcessInv ==
  /\ excess = Inhibitor => demand = <<>> /\ inBlock = 0
  /\ excess # Inhibitor =>
       /\ \A k \in 1 .. Len(demand) : Left(demand, k) <= excess
       /\ excess = 0 \/ \E k \in 1 .. Len(demand) : excess = Left(demand, k)

LEMMA SentType ==
  ASSUME NEW d \in Seq(Nat), NEW k \in 1 .. Len(d)
  PROVE  Total(d, k .. Len(d)) \in Int
  <1>1. IsFiniteSet(k .. Len(d))
    BY FS_Interval
  <1>2. \A i \in k .. Len(d) : d[i] \in Int
    OBVIOUS
  <1>3. QED
    BY <1>1, <1>2, TotalType

\* Another block.
LEMMA SentMore ==
  ASSUME NEW d \in Seq(Nat), NEW n \in Nat, NEW k \in 1 .. Len(d)
  PROVE  Total(Append(d, n), k .. Len(d) + 1) = Total(d, k .. Len(d)) + n
  <1> DEFINE e == Append(d, n)
             S == k .. Len(d)
             x == Len(d) + 1
  <1>1. /\ e[x] = n /\ \A i \in S : e[i] = d[i] /\ d[i] \in Int
    OBVIOUS
  <1>2. IsFiniteSet(S)
    BY FS_Interval
  <1>3. k .. Len(d) + 1 = S \cup {x} /\ x \notin S
    OBVIOUS
  <1>4. n \in Int
    OBVIOUS
  <1> HIDE DEF e, S, x
  <1>5. Total(d, S) = Total(e, S)
    BY <1>1, <1>2, TotalSame
  <1>6. Total(e, S \cup {x}) = Total(e, S) + e[x]
    <2>1. \A i \in S : e[i] \in Int
      BY <1>1
    <2>2. e[x] \in Int
      BY <1>1, <1>4
    <2>3. QED
      BY <1>2, <1>3, <2>1, <2>2, TotalAdd
  <1>7. QED
    BY <1>1, <1>3, <1>5, <1>6 DEF e, S

LEMMA SentLast ==
  ASSUME NEW d \in Seq(Nat), NEW n \in Nat
  PROVE  Total(Append(d, n), Len(d) + 1 .. Len(d) + 1) = n
  <1> DEFINE e == Append(d, n)
             x == Len(d) + 1
  <1>1. e[x] = n /\ x .. x = {x} /\ n \in Int
    OBVIOUS
  <1> HIDE DEF e, x
  <1>2. Total(e, {x}) = e[x] + Total(e, {x} \ {x})
    <2>1. IsFiniteSet({x})
      BY FS_Singleton
    <2>2. (\A i \in {x} : e[i] \in Int) /\ x \in {x}
      BY <1>1
    <2>3. QED
      BY <2>1, <2>2, TotalSplit
  <1>3. {x} \ {x} = {}
    OBVIOUS
  <1>4. Total(e, {x}) = n + 0
    BY <1>1, <1>2, <1>3, TotalEmpty
  <1>5. QED
    BY <1>1, <1>4 DEF e, x

LEMMA EndBlockExcess ==
  ASSUME TypeOK, ExcessInv, EndBlock, demand' = Append(demand, inBlock)
  PROVE  ExcessInv'
  <1> DEFINE old == IF excess = Inhibitor THEN 0 ELSE excess
             L == Len(demand)
             n == inBlock
  <1>1. /\ demand \in Seq(Nat) /\ n \in Nat /\ Target \in Nat /\ L \in Nat /\ old \in Nat
        /\ Inhibitor \notin Nat
    BY RequestsAssumption DEF TypeOK, RequestsTypeOK
  <1>2. /\ excess' = (IF old + n < Target THEN 0 ELSE old + n - Target)
        /\ inBlock' = 0
    <2>1. excess' = Minus(old + n, Target) /\ inBlock' = 0
      BY DEF EndBlock, NewExcess
    <2> HIDE DEF old, n
    <2>2. QED
      BY <1>1, <2>1 DEF Minus
  <1>3. excess' \in Nat /\ excess' # Inhibitor
    <2> HIDE DEF old, n
    <2>1. QED
      BY <1>1, <1>2
  <1>4. /\ \A k \in 1 .. L : Left(demand, k) <= old
        /\ old = 0 \/ \E k \in 1 .. L : old = Left(demand, k)
    <2>1. CASE excess = Inhibitor
      BY <2>1 DEF ExcessInv
    <2>2. CASE excess # Inhibitor
      BY <2>2 DEF ExcessInv
    <2>3. QED
      BY <2>1, <2>2
  <1>5. \A k \in 1 .. L : Sent(demand, k) \in Int /\ Left(demand, k) \in Int
    <2> SUFFICES ASSUME NEW k \in 1 .. L PROVE Sent(demand, k) \in Int /\ Left(demand, k) \in Int
      OBVIOUS
    <2>1. Sent(demand, k) \in Int
      BY <1>1, SentType DEF Sent
    <2>2. Target * (L - k + 1) \in Int
      BY <1>1
    <2>3. QED
      BY <2>1, <2>2 DEF Left
  <1>6. Len(demand') = L + 1
    BY <1>1
  <1>7. \A k \in 1 .. L : Left(demand', k) = Left(demand, k) + n - Target
    <2> SUFFICES ASSUME NEW k \in 1 .. L PROVE Left(demand', k) = Left(demand, k) + n - Target
      OBVIOUS
    <2>1. Sent(demand', k) = Sent(demand, k) + n
      BY <1>1, <1>6, SentMore DEF Sent
    <2>2. Left(demand', k) = Sent(demand', k) - Target * (L + 1 - k + 1)
      BY <1>6 DEF Left
    <2>3. Target * (L + 1 - k + 1) = Target * (L - k + 1) + Target /\ Target * (L - k + 1) \in Int
      BY <1>1
    <2>4. Left(demand, k) = Sent(demand, k) - Target * (L - k + 1) /\ Sent(demand, k) \in Int
      BY <1>5 DEF Left
    <2> DEFINE T == Target * (L - k + 1)
    <2>5. T \in Int /\ Target * (L + 1 - k + 1) = T + Target
      BY <2>3
    <2>6. Left(demand, k) = Sent(demand, k) - T
      BY <2>4
    <2> DEFINE U == Target * (L + 1 - k + 1)
    <2>7. Left(demand', k) = Sent(demand', k) - U /\ U = T + Target
      BY <2>2, <2>5
    <2> HIDE DEF T, U
    <2>8. QED
      BY <1>1, <2>1, <2>4, <2>5, <2>6, <2>7
  <1>8. Left(demand', L + 1) = n - Target
    <2>1. Sent(demand', L + 1) = n
      BY <1>1, <1>6, SentLast DEF Sent
    <2>2. Left(demand', L + 1) = Sent(demand', L + 1) - Target * (L + 1 - (L + 1) + 1)
      BY <1>6 DEF Left
    <2>3. Target * (L + 1 - (L + 1) + 1) = Target
      BY <1>1
    <2>4. QED
      BY <2>1, <2>2, <2>3
  <1> HIDE DEF old, L, n
  <1>9. \A k \in 1 .. L + 1 : k \in 1 .. L \/ k = L + 1
    BY <1>1
  <1>10. \A k \in 1 .. L + 1 : Left(demand', k) <= excess'
    <2> SUFFICES ASSUME NEW k \in 1 .. L + 1 PROVE Left(demand', k) <= excess'
      OBVIOUS
    <2>1. CASE k = L + 1
      <3>1. Left(demand', k) = n - Target
        BY <1>8, <2>1
      <3> QED BY <1>1, <1>2, <3>1
    <2>2. CASE k \in 1 .. L
      <3>1. /\ Left(demand', k) = Left(demand, k) + n - Target
            /\ Left(demand, k) \in Int /\ Left(demand, k) <= old
        BY <1>4, <1>5, <1>7, <2>2
      <3> QED BY <1>1, <1>2, <3>1
    <2>3. QED
      BY <1>9, <2>1, <2>2
  <1>11. excess' = 0 \/ \E k \in 1 .. L + 1 : excess' = Left(demand', k)
    <2>1. CASE old = 0
      <3>1. L + 1 \in 1 .. L + 1
        BY <1>1
      <3>2. excess' = 0 \/ excess' = Left(demand', L + 1)
        BY <1>1, <1>2, <1>8, <2>1
      <3>3. QED
        BY <3>1, <3>2
    <2>2. CASE old # 0
      <3>1. PICK k \in 1 .. L : old = Left(demand, k)
        BY <1>4, <2>2
      <3>2. k \in 1 .. L + 1
        BY <1>1
      <3>3. excess' = 0 \/ excess' = Left(demand', k)
        BY <1>1, <1>2, <1>7, <3>1
      <3>4. QED
        BY <3>2, <3>3
    <2>3. QED
      BY <2>1, <2>2
  <1>12. QED
    BY <1>3, <1>6, <1>10, <1>11 DEF ExcessInv

\* The fee of a request is computed from the largest backlog that any run of
\* blocks up to now has left (exe.rs process_request_queue): blocks below the
\* target pay it back, and never below zero.
THEOREM ExcessCorrect == Spec => []ExcessIsBacklog
  <1>1. Init => ExcessInv
    <2> SUFFICES ASSUME Init PROVE ExcessInv
      OBVIOUS
    <2>1. demand = <<>> /\ inBlock = 0 /\ excess \in {Inhibitor, 0} /\ Len(demand) = 0
      BY DEF Init, RequestsInit
    <2>2. QED
      BY <2>1 DEF ExcessInv
  <1>2. TypeOK /\ ExcessInv /\ [Next]_vars => ExcessInv'
    <2> SUFFICES ASSUME TypeOK, ExcessInv, [Next]_vars
                 PROVE  ExcessInv'
      OBVIOUS
    <2>1. CASE UNCHANGED <<queueVars, demand>>
      BY <2>1 DEF queueVars, ExcessInv, Left, Sent
    <2>2. CASE TxRequests
      <3>1. PICK q \in Request : Add(q)
        BY <2>2 DEF TxRequests
      <3>2. excess # Inhibitor /\ excess' = excess /\ demand' = demand
        BY <2>2, <3>1 DEF Add, TxRequests
      <3>3. QED
        BY <3>2 DEF ExcessInv, Left, Sent
    <2>3. CASE PostBlock \/ PostBlockFails
      BY <2>1, <2>3, EndBlockExcess DEF PostBlock, PostBlockFails
    <2>4. QED
      BY <2>1, <2>2, <2>3 DEF Next, PreBlock, PreBlockFails, TxStep, TxStepLimit, TxErrs,
         Over, vars
  <1>3. TypeOK /\ ExcessInv => ExcessIsBacklog
    <2> SUFFICES ASSUME TypeOK, ExcessInv, excess # Inhibitor
                 PROVE  excess = Max({0} \cup {Left(demand, k) : k \in DOMAIN demand})
      BY DEF ExcessIsBacklog, Left, Sent, Total
    <2> DEFINE D == DOMAIN demand
               S == {0} \cup {Left(demand, k) : k \in D}
    <2>1. excess \in Nat /\ D = 1 .. Len(demand) /\ demand \in Seq(Nat)
      BY DEF TypeOK, RequestsTypeOK
    <2>2. \A k \in D : Left(demand, k) \in Int /\ Left(demand, k) <= excess
      <3> SUFFICES ASSUME NEW k \in D PROVE Left(demand, k) \in Int /\ Left(demand, k) <= excess
        OBVIOUS
      <3>1. Sent(demand, k) \in Int
        BY <2>1, SentType DEF Sent
      <3>2. Target * (Len(demand) - k + 1) \in Int
        BY <2>1, RequestsAssumption
      <3>3. QED
        BY <2>1, <3>1, <3>2 DEF Left, ExcessInv
    <2>3. excess = 0 \/ \E k \in D : excess = Left(demand, k)
      BY <2>1 DEF ExcessInv
    <2> HIDE DEF D
    <2>4. excess \in S
      BY <2>3
    <2>5. \A y \in S : y \in Int /\ excess >= y
      BY <2>1, <2>2
    <2> HIDE DEF S
    <2>6. \A x \in S : (\A y \in S : x >= y) => x = excess
      BY <2>1, <2>4, <2>5
    <2>7. Max(S) = excess
      BY <2>4, <2>5, <2>6 DEF Max
    <2>8. QED
      BY <2>7 DEF S, D
  <1>4. QED
    BY <1>1, <1>2, <1>3, BlockTypeCorrect, PTL DEF Spec
=============================================================================
