----------------------------- MODULE GateProofs -----------------------------
(***************************************************************************)
(* GateQueue for any transactions, users, caps and requests: the queue     *)
(* passes its caps by less than the number of requests, and what leaves it *)
(* was accepted upstream or deleted by who may.                            *)
(***************************************************************************)
EXTENDS GateQueue, FiniteSetTheorems, SequenceTheorems, TLAPS

\* Requests that have counted the whole queue, and the rows of u, and have
\* found room.
Counted       == {r \in Req : At(r, "signer") \/ At(r, "insert")}
CountedFor(u) == {r \in Req : At(r, "insert") /\ From[Entry(r)] = u}

\* Past the cap, each row took the place of a request that had counted.
Fits(held, counted, cap) ==
  \/ Cardinality(held) < cap
  \/ Cardinality(held) + Cardinality(counted) <= cap + Cardinality(Req) - 1

QueueFits  == Fits(Held, Counted, MaxTotal)
SenderFits == \A u \in User : Fits(HeldFrom(u), CountedFor(u), MaxPerSender)

\* A request about to drop a row has had it accepted; one about to delete it
\* may.
Accepted == \A r \in Req : At(r, "drop") => <<Entry(r), req[r].chain>> \in sent
Allowed  == \A r \in Req : At(r, "delete") => req[r].who \in {Admin, From[Entry(r)]}

GateInv == TypeOK /\ QueueFits /\ SenderFits /\ Accepted /\ Allowed

----------------------------------------------------------------------------
(* Sets that grow and shrink under a cap.                                  *)

\* Fewer rows and fewer requests still fit.
LEMMA FewerFit ==
  ASSUME NEW H, NEW G \in SUBSET H, IsFiniteSet(H),
         NEW P \in SUBSET Req, NEW Q \in SUBSET P, NEW cap \in Nat,
         Fits(H, P, cap)
  PROVE  Fits(G, Q, cap)
<1>1. IsFiniteSet(Req) BY GateQueueAssumption
<1>2. IsFiniteSet(P) /\ IsFiniteSet(Q) /\ IsFiniteSet(G)
  BY <1>1, FS_Subset
<1>3. Cardinality(G) <= Cardinality(H) /\ Cardinality(Q) <= Cardinality(P)
  BY <1>2, FS_Subset
<1>4. /\ Cardinality(G) \in Nat /\ Cardinality(H) \in Nat
      /\ Cardinality(Q) \in Nat /\ Cardinality(P) \in Nat
      /\ Cardinality(Req) \in Nat
  BY <1>1, <1>2, FS_CardinalityType
<1> QED BY <1>3, <1>4 DEF Fits

\* A request that counted before gives way to the row it writes.
LEMMA OneMoreFits ==
  ASSUME NEW H, NEW t, NEW G \in SUBSET (H \cup {t}), IsFiniteSet(H),
         NEW P \in SUBSET Req, NEW r \in P, NEW Q \in SUBSET (P \ {r}),
         NEW cap \in Nat, Fits(H, P, cap)
  PROVE  Fits(G, Q, cap)
<1>1. IsFiniteSet(Req) BY GateQueueAssumption
<1>2. IsFiniteSet(P) /\ Cardinality(P) <= Cardinality(Req)
  BY <1>1, FS_Subset
<1>3. /\ IsFiniteSet(P \ {r}) /\ Cardinality(P \ {r}) = Cardinality(P) - 1
  BY <1>2, FS_RemoveElement
<1>4. IsFiniteSet(Q) /\ Cardinality(Q) <= Cardinality(P \ {r})
  BY <1>3, FS_Subset
<1>5. /\ IsFiniteSet(H \cup {t})
      /\ Cardinality(H \cup {t}) = IF t \in H THEN Cardinality(H) ELSE Cardinality(H) + 1
  BY FS_AddElement
<1>6. IsFiniteSet(G) /\ Cardinality(G) <= Cardinality(H \cup {t})
  BY <1>5, FS_Subset
<1>7. /\ Cardinality(G) \in Nat /\ Cardinality(H) \in Nat
      /\ Cardinality(Q) \in Nat /\ Cardinality(P) \in Nat
      /\ Cardinality(Req) \in Nat
  BY <1>1, <1>2, <1>4, <1>6, FS_CardinalityType
<1>8. Cardinality(G) <= Cardinality(H) + 1 BY <1>5, <1>6, <1>7
<1>9. Cardinality(Q) <= Cardinality(P) - 1 BY <1>3, <1>4
<1> QED BY <1>2, <1>7, <1>8, <1>9 DEF Fits

LEMMA HeldFinite ==
  /\ IsFiniteSet(Held) /\ Held \subseteq Tx
  /\ \A u : HeldFrom(u) \subseteq Held /\ IsFiniteSet(HeldFrom(u))
<1>1. Held \subseteq Tx /\ IsFiniteSet(Held)
  BY GateQueueAssumption, FS_Subset DEF Held
<1>2. \A u : HeldFrom(u) \subseteq Held BY DEF HeldFrom
<1> QED BY <1>1, <1>2, FS_Subset

----------------------------------------------------------------------------
(* The steps of a request.                                                 *)

\* What the end of an entry leaves of its request.
LEMMA NextEntryLeaves ==
  ASSUME TypeOK, NEW r \in Req, ~ At(r, "idle"), NextEntry(r) \/ Ends(r)
  PROVE  \E q \in Request : /\ req' = [req EXCEPT ![r] = q]
                            /\ q.step \in {"idle", "total"}
<1>1. req[r] \in Request /\ req[r].step # "idle" BY DEF TypeOK, At
<1>2. Idle \in Request /\ Idle.step = "idle" BY DEF Idle, Request
<1>3. CASE Ends(r) BY <1>2, <1>3 DEF Ends
<1>4. CASE ~ Ends(r)
  <2>1. /\ Len(req[r].what) # 1
        /\ req' = [req EXCEPT ![r].what = Tail(@), ![r].step = "total"]
    BY <1>4 DEF NextEntry
  <2>2. /\ req[r].what \in Seq(Tx) \ {<<>>} /\ req[r].chain \in Chain
        /\ req[r].who \in User
        /\ req[r] = [step |-> req[r].step, what |-> req[r].what,
                     chain |-> req[r].chain, who |-> req[r].who]
    BY <1>1 DEF Request, Idle
  <2>3. Tail(req[r].what) \in Seq(Tx) \ {<<>>}
    <3> DEFINE s == req[r].what
    <3>1. s \in Seq(Tx) /\ s # <<>> /\ Len(s) # 1 BY <2>1, <2>2
    <3> HIDE DEF s
    <3>2. Tail(s) \in Seq(Tx) /\ Len(Tail(s)) = Len(s) - 1 BY <3>1, HeadTailProperties
    <3>3. Len(s) \in Nat /\ Len(s) # 0 BY <3>1, LenProperties, EmptySeq
    <3>4. Tail(s) # <<>> BY <3>1, <3>2, <3>3, EmptySeq
    <3> QED BY <3>2, <3>4 DEF s
  <2> DEFINE w == Tail(req[r].what)
             q == [step |-> "total", what |-> w, chain |-> req[r].chain,
                   who |-> req[r].who]
  <2>4. q \in Request BY <2>2, <2>3 DEF Request
  <2>5. req' = [req EXCEPT ![r] = [[req[r] EXCEPT !.what = w] EXCEPT !.step = "total"]]
    BY <2>1 DEF TypeOK
  <2>6. [[req[r] EXCEPT !.what = w] EXCEPT !.step = "total"] = q
    <3> HIDE DEF w
    <3>1. [req[r] EXCEPT !.what = w] =
            [step |-> req[r].step, what |-> w, chain |-> req[r].chain, who |-> req[r].who]
      BY <2>2
    <3> DEFINE p == [step |-> req[r].step, what |-> w, chain |-> req[r].chain,
                     who |-> req[r].who]
    <3>2. [p EXCEPT !.step = "total"] = q OBVIOUS
    <3> QED BY <3>1, <3>2
  <2>7. req' = [req EXCEPT ![r] = q] BY <2>5, <2>6
  <2>8. q.step = "total" OBVIOUS
  <2> HIDE DEF q
  <2> QED BY <2>4, <2>7, <2>8
<1> QED BY <1>3, <1>4

\* A request that goes on keeps the rest.
LEMMA GoesLeaves ==
  ASSUME TypeOK, NEW r \in Req, ~ At(r, "idle"),
         NEW s \in {"total", "signer", "insert", "resolve", "send", "drop", "delete"},
         Goes(r, s)
  PROVE  \E q \in Request : /\ req' = [req EXCEPT ![r] = q] /\ q.step = s
                            /\ q.what = req[r].what /\ q.chain = req[r].chain
                            /\ q.who = req[r].who
<1>1. req[r] \in Request /\ req[r].step # "idle" BY DEF TypeOK, At
<1>2. /\ req[r].what \in Seq(Tx) \ {<<>>} /\ req[r].chain \in Chain
      /\ req[r].who \in User
      /\ req[r] = [step |-> req[r].step, what |-> req[r].what,
                   chain |-> req[r].chain, who |-> req[r].who]
  BY <1>1 DEF Request, Idle
<1> DEFINE q == [req[r] EXCEPT !.step = s]
<1>3. q = [step |-> s, what |-> req[r].what, chain |-> req[r].chain, who |-> req[r].who]
  BY <1>2
<1>4. q \in Request BY <1>2, <1>3 DEF Request
<1>5. req' = [req EXCEPT ![r] = q] BY DEF Goes, TypeOK
<1> QED BY <1>3, <1>4, <1>5

\* A request that is not about to count is counted with no other.
LEMMA LessCounted ==
  ASSUME TypeOK, NEW r \in Req, NEW q \in Request,
         req' = [req EXCEPT ![r] = q], q.step \notin {"signer", "insert"}
  PROVE  Counted' \subseteq Counted \ {r} /\ \A u : CountedFor(u)' \subseteq CountedFor(u) \ {r}
BY DEF TypeOK, Counted, CountedFor, At, Entry

\* A step that stores no row and counts no request keeps within the caps.
LEMMA QuietFits ==
  ASSUME GateInv, Held' \subseteq Held, \A u \in User : HeldFrom(u)' \subseteq HeldFrom(u),
         Counted' \subseteq Counted, \A u \in User : CountedFor(u)' \subseteq CountedFor(u)
  PROVE  QueueFits' /\ SenderFits'
<1>1. MaxTotal \in Nat /\ MaxPerSender \in Nat BY GateQueueAssumption
<1>2. Counted \subseteq Req /\ \A u \in User : CountedFor(u) \subseteq Req
  BY DEF Counted, CountedFor
<1>3. Fits(Held', Counted', MaxTotal)
  BY <1>1, <1>2, FewerFit, HeldFinite DEF GateInv, QueueFits
<1>4. ASSUME NEW u \in User PROVE Fits(HeldFrom(u)', CountedFor(u)', MaxPerSender)
  BY <1>1, <1>2, FewerFit, HeldFinite DEF GateInv, SenderFits
<1> QED BY <1>3, <1>4 DEF QueueFits, SenderFits, Fits

\* The row of t leaves, or nothing does.
LEMMA LessHeld ==
  ASSUME TypeOK, NEW t \in Tx, txs' = txs \/ txs' = [txs EXCEPT ![t] = NoChain]
  PROVE  Held' \subseteq Held /\ \A u \in User : HeldFrom(u)' \subseteq HeldFrom(u)
BY DEF TypeOK, Held, HeldFrom

\* The other requests stand where they stood.
LEMMA OthersStand ==
  ASSUME TypeOK, Accepted, Allowed, NEW r \in Req, NEW q \in Request,
         req' = [req EXCEPT ![r] = q], sent \subseteq sent',
         q.step = "drop" => <<Head(q.what), q.chain>> \in sent',
         q.step = "delete" => q.who \in {Admin, From[Head(q.what)]}
  PROVE  Accepted' /\ Allowed'
BY DEF TypeOK, Accepted, Allowed, At, Entry
----------------------------------------------------------------------------
(* Every step keeps the invariant.                                         *)

LEMMA GateInit == Init => GateInv
<1> SUFFICES ASSUME Init PROVE GateInv OBVIOUS
<1>1. TypeOK
  BY GateQueueAssumption DEF Init, TypeOK, Request
<1>2. Held = {} /\ \A u \in User : HeldFrom(u) = {}
  BY DEF Init, Held, HeldFrom
<1>3. Cardinality({}) = 0 BY FS_EmptySet
<1>4. QueueFits /\ SenderFits
  <2>1. 0 < MaxTotal /\ 0 < MaxPerSender BY GateQueueAssumption
  <2>2. Cardinality(Held) = 0 /\ \A u \in User : Cardinality(HeldFrom(u)) = 0
    BY <1>2, <1>3
  <2> QED BY <2>1, <2>2 DEF QueueFits, SenderFits, Fits
<1>5. Accepted /\ Allowed BY DEF Init, Accepted, Allowed, At, Idle
<1> QED BY <1>1, <1>4, <1>5 DEF GateInv

\* A step that ends its request, or goes on where nothing is counted, opened
\* or accepted, and stores no row.
LEMMA PlainStep ==
  ASSUME GateInv, NEW r \in Req, NEW q \in Request, NEW t \in Tx,
         req' = [req EXCEPT ![r] = q], q.step \notin {"signer", "insert"},
         txs' = txs \/ txs' = [txs EXCEPT ![t] = NoChain],
         sent \subseteq sent', sent' \in SUBSET (Tx \X Chain),
         q.step = "drop" => <<Head(q.what), q.chain>> \in sent',
         q.step = "delete" => q.who \in {Admin, From[Head(q.what)]}
  PROVE  GateInv'
<1>1. TypeOK' BY DEF GateInv, TypeOK
<1>2. Held' \subseteq Held /\ \A u \in User : HeldFrom(u)' \subseteq HeldFrom(u)
  BY LessHeld DEF GateInv
<1>3. Counted' \subseteq Counted /\ \A u \in User : CountedFor(u)' \subseteq CountedFor(u)
  BY LessCounted DEF GateInv
<1>4. QueueFits' /\ SenderFits' BY <1>2, <1>3, QuietFits
<1>5. Accepted' /\ Allowed' BY OthersStand DEF GateInv
<1> QED BY <1>1, <1>4, <1>5 DEF GateInv

\* The end of an entry or of a request.
LEMMA RefusedStep ==
  ASSUME GateInv, NEW r \in Req, ~ At(r, "idle"), NextEntry(r) \/ Ends(r),
         NEW t \in Tx, txs' = txs \/ txs' = [txs EXCEPT ![t] = NoChain],
         sent \subseteq sent', sent' \in SUBSET (Tx \X Chain)
  PROVE  GateInv'
<1>1. PICK q \in Request : /\ req' = [req EXCEPT ![r] = q]
                           /\ q.step \in {"idle", "total"}
  BY NextEntryLeaves DEF GateInv
<1> QED BY <1>1, PlainStep

\* What a request under way holds.
LEMMA EntryType ==
  ASSUME TypeOK, NEW r \in Req, ~ At(r, "idle")
  PROVE  Entry(r) \in Tx /\ req[r].chain \in Chain /\ req[r].who \in User
<1>1. req[r] \in Request /\ req[r].step # "idle" BY DEF TypeOK, At
<1>2. /\ req[r].what \in Seq(Tx) /\ req[r].what # <<>> /\ req[r].chain \in Chain
      /\ req[r].who \in User
  BY <1>1 DEF Request, Idle
<1>3. ASSUME NEW s \in Seq(Tx), s # <<>> PROVE Head(s) \in Tx
  BY <1>3
<1> QED BY <1>2, <1>3 DEF Entry

LEMMA PostKeeps ==
  ASSUME GateInv, NEW r \in Req, Post(r)
  PROVE  GateInv'
<1>1. PICK offer \in Offers :
        req' = [req EXCEPT ![r] = [step |-> "total", what |-> offer[1],
                                   chain |-> offer[2], who |-> Admin]]
  BY DEF Post
<1>2. offer[1] \in Seq(Tx) \ {<<>>} /\ offer[2] \in Chain
  BY <1>1, GateQueueAssumption
<1> DEFINE q == [step |-> "total", what |-> offer[1], chain |-> offer[2], who |-> Admin]
<1>3. q \in Request BY <1>2, GateQueueAssumption DEF Request
<1>4. q.step = "total" /\ req' = [req EXCEPT ![r] = q] BY <1>1
<1>5. txs' = txs /\ sent' = sent BY DEF Post
<1>6. Head(offer[1]) \in Tx
  <2>1. ASSUME NEW s \in Seq(Tx), s # <<>> PROVE Head(s) \in Tx
    BY <2>1
  <2> QED BY <1>2, <2>1
<1> HIDE DEF q
<1> QED BY <1>3, <1>4, <1>5, <1>6, PlainStep DEF GateInv, TypeOK

LEMMA CountTotalKeeps ==
  ASSUME GateInv, NEW r \in Req, CountTotal(r)
  PROVE  GateInv'
<1>1. /\ TypeOK /\ ~ At(r, "idle") /\ At(r, "total")
      /\ txs' = txs /\ sent' = sent /\ sent \in SUBSET (Tx \X Chain)
  BY DEF CountTotal, GateInv, TypeOK, At
<1>2. Entry(r) \in Tx BY <1>1, EntryType
<1>3. CASE NextEntry(r) BY <1>1, <1>2, <1>3, RefusedStep
<1>4. CASE Cardinality(Held) < MaxTotal /\ Goes(r, "signer")
  <2>1. PICK q \in Request : req' = [req EXCEPT ![r] = q] /\ q.step = "signer"
    BY <1>1, <1>4, GoesLeaves
  <2>2. TypeOK' BY <1>1, <2>1 DEF TypeOK
  <2>3. Held' = Held /\ \A u \in User : HeldFrom(u)' = HeldFrom(u)
    BY <1>1 DEF Held, HeldFrom
  <2>4. QueueFits' BY <1>4, <2>3 DEF QueueFits, Fits
  <2>5. \A u \in User : CountedFor(u)' \subseteq CountedFor(u) /\ CountedFor(u) \subseteq Req
    BY <1>1, <2>1 DEF TypeOK, CountedFor, At, Entry
  <2>6. ASSUME NEW u \in User PROVE Fits(HeldFrom(u)', CountedFor(u)', MaxPerSender)
    BY <2>3, <2>5, FewerFit, HeldFinite, GateQueueAssumption DEF GateInv, SenderFits
  <2>7. SenderFits' BY <2>6 DEF SenderFits, Fits
  <2>8. Accepted' /\ Allowed' BY <1>1, <2>1, OthersStand DEF GateInv
  <2> QED BY <2>2, <2>4, <2>7, <2>8 DEF GateInv
<1> QED BY <1>3, <1>4 DEF CountTotal

LEMMA CountForSignerKeeps ==
  ASSUME GateInv, NEW r \in Req, CountForSigner(r)
  PROVE  GateInv'
<1>1. /\ TypeOK /\ ~ At(r, "idle") /\ At(r, "signer")
      /\ txs' = txs /\ sent' = sent /\ sent \in SUBSET (Tx \X Chain)
  BY DEF CountForSigner, GateInv, TypeOK, At
<1>2. Entry(r) \in Tx BY <1>1, EntryType
<1>3. CASE NextEntry(r) BY <1>1, <1>2, <1>3, RefusedStep
<1>4. CASE Cardinality(HeldFrom(From[Entry(r)])) < MaxPerSender /\ Goes(r, "insert")
  <2>1. PICK q \in Request : /\ req' = [req EXCEPT ![r] = q] /\ q.step = "insert"
                             /\ q.what = req[r].what
    BY <1>1, <1>4, GoesLeaves
  <2>2. TypeOK' BY <1>1, <2>1 DEF TypeOK
  <2>3. Held' = Held /\ \A u \in User : HeldFrom(u)' = HeldFrom(u)
    BY <1>1 DEF Held, HeldFrom
  <2>4. Counted' \subseteq Counted /\ Counted \subseteq Req
    BY <1>1, <2>1 DEF TypeOK, Counted, At
  <2>5. Fits(Held', Counted', MaxTotal)
    BY <2>3, <2>4, FewerFit, HeldFinite, GateQueueAssumption DEF GateInv, QueueFits
  <2>6. QueueFits' BY <2>5 DEF QueueFits, Fits
  <2>7. ASSUME NEW u \in User PROVE Fits(HeldFrom(u)', CountedFor(u)', MaxPerSender)
    <3>1. CASE u = From[Entry(r)] BY <1>4, <2>3, <3>1 DEF Fits
    <3>2. CASE u # From[Entry(r)]
      <4>1. CountedFor(u)' \subseteq CountedFor(u) /\ CountedFor(u) \subseteq Req
        BY <1>1, <2>1, <3>2 DEF TypeOK, CountedFor, At, Entry
      <4> QED BY <2>3, <4>1, FewerFit, HeldFinite, GateQueueAssumption DEF GateInv, SenderFits
    <3> QED BY <3>1, <3>2
  <2>8. SenderFits' BY <2>7 DEF SenderFits, Fits
  <2>9. Accepted' /\ Allowed' BY <1>1, <2>1, OthersStand DEF GateInv
  <2> QED BY <2>2, <2>6, <2>8, <2>9 DEF GateInv
<1> QED BY <1>3, <1>4 DEF CountForSigner

LEMMA InsertKeeps ==
  ASSUME GateInv, NEW r \in Req, Insert(r)
  PROVE  GateInv'
<1>1. /\ TypeOK /\ ~ At(r, "idle") /\ At(r, "insert") /\ sent' = sent
      /\ txs' = Stored(Entry(r), req[r].chain) \/ txs' = txs
  BY DEF Insert, GateInv, TypeOK, At
<1>2. Entry(r) \in Tx /\ req[r].chain \in Chain BY <1>1, EntryType
<1>3. PICK q \in Request : req' = [req EXCEPT ![r] = q] /\ q.step \in {"idle", "total"}
  BY <1>1, NextEntryLeaves DEF Insert
<1>4. TypeOK' BY <1>1, <1>2, <1>3 DEF TypeOK, Stored
<1>5. Held' \subseteq Held \cup {Entry(r)}
  BY <1>1, <1>2 DEF TypeOK, Held, Stored
<1>6. Counted' \subseteq Counted \ {r} BY <1>1, <1>3, LessCounted
<1>7. r \in Counted /\ Counted \subseteq Req BY <1>1 DEF Counted
<1>8. Fits(Held', Counted', MaxTotal)
  BY <1>5, <1>6, <1>7, OneMoreFits, HeldFinite, GateQueueAssumption DEF GateInv, QueueFits
<1>9. QueueFits' BY <1>8 DEF QueueFits, Fits
<1>10. ASSUME NEW u \in User PROVE Fits(HeldFrom(u)', CountedFor(u)', MaxPerSender)
  <2>1. CASE u = From[Entry(r)]
    <3>1. /\ HeldFrom(u)' \in SUBSET (HeldFrom(u) \cup {Entry(r)})
          /\ CountedFor(u)' \in SUBSET (CountedFor(u) \ {r})
          /\ r \in CountedFor(u) /\ CountedFor(u) \in SUBSET Req
      <4>1. HeldFrom(u)' \in SUBSET (HeldFrom(u) \cup {Entry(r)})
        BY <1>1, <1>2 DEF GateInv, TypeOK, Held, HeldFrom, Stored
      <4>2. CountedFor(u)' \in SUBSET (CountedFor(u) \ {r})
        BY <1>1, <1>3 DEF GateInv, TypeOK, CountedFor, At, Entry
      <4>3. r \in CountedFor(u) /\ CountedFor(u) \in SUBSET Req
        BY <1>1, <2>1 DEF CountedFor
      <4> QED BY <4>1, <4>2, <4>3
    <3>2. IsFiniteSet(HeldFrom(u)) /\ Fits(HeldFrom(u), CountedFor(u), MaxPerSender)
      BY HeldFinite DEF GateInv, SenderFits
    <3>3. MaxPerSender \in Nat BY GateQueueAssumption
    <3> QED BY <3>1, <3>2, <3>3, OneMoreFits
  <2>2. CASE u # From[Entry(r)]
    <3>1. /\ HeldFrom(u)' \in SUBSET HeldFrom(u)
          /\ CountedFor(u)' \in SUBSET CountedFor(u) /\ CountedFor(u) \in SUBSET Req
      <4>1. HeldFrom(u)' \in SUBSET HeldFrom(u)
        BY <1>1, <1>2, <2>2 DEF GateInv, TypeOK, Held, HeldFrom, Stored
      <4>2. CountedFor(u)' \in SUBSET CountedFor(u) /\ CountedFor(u) \in SUBSET Req
        BY <1>1, <1>3 DEF GateInv, TypeOK, CountedFor, At, Entry
      <4> QED BY <4>1, <4>2
    <3>2. IsFiniteSet(HeldFrom(u)) /\ Fits(HeldFrom(u), CountedFor(u), MaxPerSender)
      BY HeldFinite DEF GateInv, SenderFits
    <3>3. MaxPerSender \in Nat BY GateQueueAssumption
    <3> QED BY <3>1, <3>2, <3>3, FewerFit
  <2> QED BY <2>1, <2>2
<1>11. SenderFits' BY <1>10 DEF SenderFits, Fits
<1>12. Accepted' /\ Allowed' BY <1>1, <1>3, OthersStand DEF GateInv
<1> QED BY <1>4, <1>9, <1>11, <1>12 DEF GateInv

\* SubmitOpen and DeleteOpen: the caller owns the row.
LEMMA OpenKeeps ==
  ASSUME GateInv, NEW r \in Req, SubmitOpen(r) \/ DeleteOpen(r)
  PROVE  GateInv'
<1>1. PICK t \in Tx, who \in User, s \in {"resolve", "delete"} :
        /\ Owned(who, t)
        /\ req' = [req EXCEPT ![r] = [step |-> s, what |-> <<t>>,
                                      chain |-> txs[t], who |-> who]]
  BY DEF SubmitOpen, DeleteOpen
<1>2. txs' = txs /\ sent' = sent BY DEF SubmitOpen, DeleteOpen
<1>3. txs[t] \in Chain BY <1>1 DEF Owned, Held, GateInv, TypeOK
<1>4. <<t>> \in Seq(Tx) /\ <<t>> # <<>> /\ Head(<<t>>) = t OBVIOUS
<1> DEFINE q == [step |-> s, what |-> <<t>>, chain |-> txs[t], who |-> who]
<1>5. q \in Request BY <1>1, <1>3, <1>4 DEF Request
<1>6. /\ q.step \in {"resolve", "delete"} /\ q.who \in {Admin, From[Head(q.what)]}
      /\ req' = [req EXCEPT ![r] = q]
  BY <1>1, <1>4 DEF Owned
<1> HIDE DEF q
<1> QED BY <1>2, <1>5, <1>6, PlainStep DEF GateInv, TypeOK

LEMMA ResolveKeeps ==
  ASSUME GateInv, NEW r \in Req, Resolve(r)
  PROVE  GateInv'
<1>1. /\ TypeOK /\ ~ At(r, "idle") /\ txs' = txs /\ sent' = sent
      /\ sent \in SUBSET (Tx \X Chain)
  BY DEF Resolve, GateInv, TypeOK, At
<1>2. Entry(r) \in Tx BY <1>1, EntryType
<1>3. CASE Ends(r) BY <1>1, <1>2, <1>3, RefusedStep
<1>4. CASE Goes(r, "send")
  <2>1. PICK q \in Request : req' = [req EXCEPT ![r] = q] /\ q.step = "send"
    BY <1>1, <1>4, GoesLeaves
  <2> QED BY <1>1, <1>2, <2>1, PlainStep
<1> QED BY <1>3, <1>4 DEF Resolve

LEMMA SendKeeps ==
  ASSUME GateInv, NEW r \in Req, Send(r)
  PROVE  GateInv'
<1>1. TypeOK /\ ~ At(r, "idle") /\ txs' = txs
  BY DEF Send, GateInv, TypeOK, At
<1>2. Entry(r) \in Tx /\ req[r].chain \in Chain BY <1>1, EntryType
<1>3. sent \subseteq sent' /\ sent' \in SUBSET (Tx \X Chain)
  BY <1>1, <1>2 DEF Send, TypeOK
<1>4. CASE Ends(r) BY <1>1, <1>2, <1>3, <1>4, RefusedStep
<1>5. CASE Goes(r, "drop") /\ sent' = sent \cup {<<Entry(r), req[r].chain>>}
  <2>1. PICK q \in Request : /\ req' = [req EXCEPT ![r] = q] /\ q.step = "drop"
                             /\ q.what = req[r].what /\ q.chain = req[r].chain
    BY <1>1, <1>5, GoesLeaves
  <2>2. <<Head(q.what), q.chain>> \in sent' BY <1>5, <2>1 DEF Entry
  <2> QED BY <1>1, <1>2, <1>3, <2>1, <2>2, PlainStep
<1> QED BY <1>4, <1>5 DEF Send

LEMMA DropKeeps ==
  ASSUME GateInv, NEW r \in Req, Drop(r)
  PROVE  GateInv'
<1>1. /\ TypeOK /\ ~ At(r, "idle") /\ Ends(r) /\ sent' = sent
      /\ sent \in SUBSET (Tx \X Chain)
      /\ txs' = txs \/ txs' = [txs EXCEPT ![Entry(r)] = NoChain]
  BY DEF Drop, GateInv, TypeOK, At
<1>2. Entry(r) \in Tx BY <1>1, EntryType
<1> QED BY <1>1, <1>2, RefusedStep

LEMMA HangUpKeeps ==
  ASSUME GateInv, NEW r \in Req, HangUp(r)
  PROVE  GateInv'
<1>1. /\ TypeOK /\ ~ At(r, "idle") /\ Ends(r) /\ txs' = txs /\ sent' = sent
      /\ sent \in SUBSET (Tx \X Chain)
  BY DEF HangUp, GateInv, TypeOK
<1>2. Entry(r) \in Tx BY <1>1, EntryType
<1> QED BY <1>1, <1>2, RefusedStep

LEMMA RestartKeeps ==
  ASSUME GateInv, Restart
  PROVE  GateInv'
<1>1. TypeOK' BY DEF Restart, GateInv, TypeOK, Request
<1>2. Held' = Held /\ \A u \in User : HeldFrom(u)' = HeldFrom(u)
  BY DEF Restart, Held, HeldFrom
<1>3. Counted' = {} /\ \A u \in User : CountedFor(u)' = {}
  BY DEF Restart, Counted, CountedFor, At, Idle
<1>4. QueueFits' /\ SenderFits' BY <1>2, <1>3, QuietFits
<1>5. Accepted' /\ Allowed' BY DEF Restart, Accepted, Allowed, At, Idle
<1> QED BY <1>1, <1>4, <1>5 DEF GateInv

LEMMA GateStep == GateInv /\ [Next]_vars => GateInv'
<1> SUFFICES ASSUME GateInv, [Next]_vars PROVE GateInv' OBVIOUS
<1>1. CASE UNCHANGED vars
  BY <1>1 DEF vars, GateInv, TypeOK, QueueFits, SenderFits, Fits, Held, HeldFrom,
              Counted, CountedFor, Accepted, Allowed, At, Entry
<1>2. CASE Restart BY <1>2, RestartKeeps
<1>3. ASSUME NEW r \in Req,
             \/ Post(r) \/ CountTotal(r) \/ CountForSigner(r) \/ Insert(r)
             \/ SubmitOpen(r) \/ Resolve(r) \/ Send(r) \/ DeleteOpen(r) \/ Drop(r)
             \/ HangUp(r)
      PROVE  GateInv'
  BY <1>3, PostKeeps, CountTotalKeeps, CountForSignerKeeps, InsertKeeps, OpenKeeps,
     ResolveKeeps, SendKeeps, DropKeeps, HangUpKeeps
<1> QED BY <1>1, <1>2, <1>3 DEF Next

----------------------------------------------------------------------------
LEMMA GateInvAlways == Spec => []GateInv
<1> QED BY GateInit, GateStep, PTL DEF Spec

\* Rows, requests and what was sent keep their types.
THEOREM QueueTypeCorrect == Spec => []TypeOK
<1>1. GateInv => TypeOK BY DEF GateInv
<1> QED BY <1>1, GateInvAlways, PTL

\* However many requests run side by side, the queue and each sender pass their
\* caps by less than the number of requests.
THEOREM OvershootCorrect == Spec => []OvershootIsBounded
<1>1. ASSUME NEW H, IsFiniteSet(H), NEW P \in SUBSET Req, NEW cap \in Nat, Fits(H, P, cap)
      PROVE  Overshoots(H, cap)
  <2>1. IsFiniteSet(Req) /\ IsFiniteSet(P) BY GateQueueAssumption, FS_Subset
  <2>2. /\ Cardinality(H) \in Nat /\ Cardinality(P) \in Nat /\ Cardinality(Req) \in Nat
    BY <1>1, <2>1, FS_CardinalityType
  <2> QED BY <1>1, <2>2 DEF Fits, Overshoots
<1>2. GateInv => OvershootIsBounded
  <2> SUFFICES ASSUME GateInv PROVE OvershootIsBounded OBVIOUS
  <2>1. Counted \subseteq Req /\ \A u \in User : CountedFor(u) \subseteq Req
    BY DEF Counted, CountedFor
  <2>2. Overshoots(Held, MaxTotal)
    BY <1>1, <2>1, HeldFinite, GateQueueAssumption DEF GateInv, QueueFits
  <2>3. \A u \in User : Overshoots(HeldFrom(u), MaxPerSender)
    BY <1>1, <2>1, HeldFinite, GateQueueAssumption DEF GateInv, SenderFits
  <2> QED BY <2>2, <2>3 DEF OvershootIsBounded
<1> QED BY <1>2, GateInvAlways, PTL

\* A step that takes a row away drops what was accepted, or deletes what its
\* caller may delete.
LEMMA LeavesRightly ==
  ASSUME GateInv, [Next]_vars, NEW t \in Tx, txs[t] # NoChain, txs'[t] = NoChain
  PROVE  \/ \E c \in Chain : <<t, c>> \in sent
         \/ \E r \in Req : /\ At(r, "delete") /\ Entry(r) = t
                         /\ req[r].who \in {Admin, From[t]}
<1>1. txs' # txs OBVIOUS
<1>2. ASSUME NEW r \in Req, Insert(r) PROVE FALSE
  BY <1>2 DEF Insert, Stored, GateInv, TypeOK
<1>3. PICK r \in Req : Drop(r)
  BY <1>1, <1>2 DEF Next, vars, Restart, Post, CountTotal, CountForSigner, SubmitOpen,
                    Resolve, Send, DeleteOpen, HangUp
<1>4. Entry(r) = t BY <1>1, <1>3 DEF Drop, GateInv, TypeOK
<1>5. CASE At(r, "delete") BY <1>4, <1>5 DEF GateInv, Allowed
<1>6. CASE At(r, "drop")
  <2>1. req[r].chain \in Chain BY <1>6, EntryType DEF GateInv, At
  <2> QED BY <1>4, <1>6, <2>1 DEF GateInv, Accepted
<1> QED BY <1>3, <1>5, <1>6 DEF Drop

\* Nothing leaves the queue that no upstream accepted and nobody who may
\* deleted.
THEOREM NothingVanishesCorrect == Spec => NothingVanishes
<1>1. GateInv /\ [Next]_vars =>
        [\A t \in Tx : txs[t] # NoChain /\ txs'[t] = NoChain =>
           \/ \E c \in Chain : <<t, c>> \in sent
           \/ \E r \in Req : /\ At(r, "delete") /\ Entry(r) = t
                           /\ req[r].who \in {Admin, From[t]}]_vars
  BY LeavesRightly
<1> QED BY <1>1, GateInvAlways, PTL DEF Spec, NothingVanishes
=============================================================================
