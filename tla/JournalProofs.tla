--------------------------- MODULE JournalProofs ---------------------------
(***************************************************************************)
(* Proofs about Journal for every set of accounts and keys, every chain    *)
(* and every bound.                                                        *)
(***************************************************************************)
EXTENDS Journal, FiniteSetTheorems, SequenceTheorems, WellFoundedInduction, TLAPS

----------------------------------------------------------------------------
(* Locations.                                                              *)

LEMMA LocFacts ==
  /\ TxLoc \cap BackedLoc = {}
  /\ SlotLoc \subseteq BackedLoc
  /\ BackedLoc \subseteq Loc /\ TxLoc \subseteq Loc
  /\ \A l \in Loc : l \in BackedLoc \/ l \in TxLoc
  /\ \A l \in Loc : l.acc \in Acc
  /\ \A a \in Acc : \A k \in AccountKind : Field(k, a) \in BackedLoc \ SlotLoc
  /\ \A a \in Acc : \A k \in MarkKind : Field(k, a) \in TxLoc
  /\ \A a \in Acc, k \in Key : /\ Cell("store", a, k) \in SlotLoc
                               /\ Cell("temp", a, k) \in TxLoc
                               /\ Cell("warmKey", a, k) \in TxLoc
  BY DEF Loc, BackedLoc, SlotLoc, TxLoc, AccountKind, MarkKind, Field, Cell

LEMMA FieldFacts ==
  /\ \A a \in Acc : \A k : Field(k, a).acc = a /\ Field(k, a).kind = k
  /\ \A a \in Acc, b \in Key : \A k : Cell(k, a, b).acc = a /\ Cell(k, a, b).kind = k
  /\ \A l \in BackedLoc : l \in SlotLoc \/ \E k \in AccountKind : l = Field(k, l.acc)
  /\ \A l \in SlotLoc : l.kind = "store"
  /\ \A l \in Loc : l.kind = "store" <=> l \in SlotLoc
  /\ \A l \in Loc : l.kind \in AccountKind <=> l \in BackedLoc \ SlotLoc
  BY DEF Loc, BackedLoc, SlotLoc, TxLoc, AccountKind, MarkKind, Field, Cell

----------------------------------------------------------------------------
(* Types.                                                                  *)

USE JournalAssumption

LEMMA SmallValues == 0 \in Val /\ 1 \in Val
  BY DEF Val

LEMMA EventTypes ==
  /\ \A l \in Loc, v \in Val : Wrote(l, v) \in Event
  /\ \A a \in Acc : CreatedEvent(a) \in Event
  /\ LogEvent \in Event
  /\ Reverted \in Event
  BY LocFacts DEF Event, Wrote, CreatedEvent, LogEvent, Reverted, Val, MarkKind

LEMMA ObserveType ==
  ASSUME TypeOK PROVE Observe(cur) \in [Loc -> Val]
  BY LocFacts DEF Observe, TypeOK

LEMMA FirstExists ==
  ASSUME NEW S, S \subseteq Nat, S # {}
  PROVE  First(S) \in S /\ \A j \in S : First(S) <= j
  <1> DEFINE R == {p \in Nat \X Nat : p[1] < p[2]}
  <1>1. IsWellFoundedOn(R, Nat)
    BY NatLessThanWellFounded DEF OpToRel
  <1> HIDE DEF R
  <1>2. PICK x \in S : \A y \in S : <<y, x>> \notin R
    BY <1>1, WFMin
  <1>3. ASSUME NEW y \in S PROVE x <= y
    <2>1. x \in Nat /\ y \in Nat /\ (y < x \/ x <= y)
      OBVIOUS
    <2>2. y < x => <<y, x>> \in R
      BY <2>1 DEF R
    <2>3. QED
      BY <1>2, <2>1, <2>2
  <1>4. QED
    BY <1>3 DEF First

LEMMA WriteType ==
  ASSUME TypeOK, NEW l \in Loc, NEW v \in Val, NEW p \in Val, cur[l] # Absent,
         Write(l, v, p)
  PROVE  TypeOK'
  <1>1. cur' \in [Loc -> Val \cup {Absent}] /\ \A m \in TxLoc : cur'[m] \in Val
    BY LocFacts DEF TypeOK, Write
  <1>2. \A m \in Loc : cur'[m] = Absent <=> cur[m] = Absent
    BY DEF TypeOK, Write
  <1>3. events' \in Seq(Event)
    <2>1. Wrote(l, p) \in Event
      BY EventTypes
    <2>2. QED
      BY <2>1 DEF TypeOK, Write, Emit
  <1>4. gaps' \subseteq Loc
    BY DEF TypeOK, Write, Emit
  <1>5. QED
    BY <1>1, <1>2, <1>3, <1>4, LocFacts DEF TypeOK, Write, Cached

LEMMA MergeType ==
  ASSUME TypeOK, NEW a \in Acc, Merge(a)
  PROVE  TypeOK'
  <1>1. \A l \in Loc : l \in EntryOf(a) /\ l.kind \in AccountKind
                         <=> l \in BackedLoc \ SlotLoc /\ l.acc = a
    BY LocFacts, FieldFacts DEF EntryOf
  <1>2. /\ cur' \in [Loc -> Val \cup {Absent}]
        /\ \A l \in Loc : cur'[l] = IF l \in BackedLoc \ SlotLoc /\ l.acc = a
                                    THEN Chain[l] ELSE cur[l]
    BY <1>1, LocFacts DEF Merge, TypeOK
  <1>3. /\ \A l \in TxLoc : cur'[l] \in Val
        /\ \A l \in SlotLoc : cur'[l] = cur[l]
    BY <1>2, LocFacts DEF TypeOK
  <1>4. \A b \in Acc, k \in AccountKind :
          cur'[Field(k, b)] = IF b = a THEN Chain[Field(k, b)] ELSE cur[Field(k, b)]
    BY <1>2, LocFacts, FieldFacts
  <1>5. \A b \in Acc : Cached(b)' <=> b = a \/ Cached(b)
    BY <1>4, LocFacts DEF Cached, AccountKind
  <1>6. \A b \in Acc, k \in AccountKind : cur'[Field(k, b)] = Absent <=> ~Cached(b)'
    BY <1>4, <1>5, LocFacts DEF TypeOK
  <1>7. \A l \in SlotLoc : /\ orig'[l] = Absent <=> cur'[l] = Absent
                           /\ cur'[l] # Absent => Cached(l.acc)'
    BY <1>3, <1>5, LocFacts DEF TypeOK, Merge
  <1>8. QED
    BY <1>2, <1>3, <1>6, <1>7 DEF TypeOK, Merge

LEMMA InitSlotType ==
  ASSUME TypeOK, NEW a \in Acc, NEW k \in Key, InitSlot(a, k)
  PROVE  TypeOK'
  <1> DEFINE m == Cell("store", a, k)
  <1>1. m \in SlotLoc /\ m.acc = a /\ Chain[m] \in Val
    BY LocFacts, FieldFacts
  <1>2. \A l \in Loc : l # m => cur'[l] = cur[l]
    BY DEF InitSlot, TypeOK
  <1>3. cur'[m] = Chain[m] /\ orig'[m] = Chain[m]
    BY <1>1, LocFacts DEF InitSlot, TypeOK
  <1>4. \A b \in Acc : Cached(b)' <=> Cached(b)
    BY <1>1, <1>2, LocFacts DEF Cached, AccountKind
  <1>5. \A b \in Acc, f \in AccountKind : cur'[Field(f, b)] = cur[Field(f, b)]
    BY <1>1, <1>2, LocFacts
  <1>6. \A l \in SlotLoc : /\ orig'[l] = Absent <=> cur'[l] = Absent
                           /\ cur'[l] # Absent => Cached(l.acc)'
    BY <1>1, <1>2, <1>3, <1>4, LocFacts DEF TypeOK, InitSlot
  <1>7. /\ cur' \in [Loc -> Val \cup {Absent}]
        /\ orig' \in [SlotLoc -> Val \cup {Absent}]
        /\ \A l \in TxLoc : cur'[l] \in Val
    BY <1>1, <1>2, LocFacts DEF TypeOK, InitSlot
  <1>8. QED
    BY <1>4, <1>5, <1>6, <1>7 DEF TypeOK, InitSlot

LEMMA CreateType ==
  ASSUME TypeOK, NEW a \in Acc, Create(a)
  PROVE  TypeOK'
  <1> DEFINE v  == cur[Field("value", a)]
             es == (<<Wrote(Field("nonce", a), 0)>>
                     \o (IF v = 0 THEN <<>> ELSE <<Wrote(Field("value", a), 0)>>))
                     \o <<CreatedEvent(a)>>
  <1>1. \A l \in Loc : l \in EntryOf(a) /\ l.kind = "store" <=> l \in SlotLoc /\ l.acc = a
    BY LocFacts, FieldFacts DEF EntryOf
  <1>2. \A l \in Loc : cur'[l] = CASE l = Field("created", a)      -> 1
                                   [] l = Field("nonce", a)        -> 1
                                   [] l \in SlotLoc /\ l.acc = a   -> Absent
                                   [] OTHER                        -> cur[l]
    BY <1>1 DEF Create
  <1>3. /\ Field("created", a) \in TxLoc /\ Field("nonce", a) \in BackedLoc \ SlotLoc
        /\ Field("created", a) \notin BackedLoc
    BY LocFacts DEF AccountKind, MarkKind
  <1>4. \A l \in SlotLoc : cur'[l] = IF l.acc = a THEN Absent ELSE cur[l]
    BY <1>2, <1>3, LocFacts
  <1>5. \A l \in TxLoc : cur'[l] = IF l = Field("created", a) THEN 1 ELSE cur[l]
    BY <1>2, <1>3, LocFacts
  <1>6. \A l \in BackedLoc \ SlotLoc : cur'[l] = IF l = Field("nonce", a) THEN 1 ELSE cur[l]
    BY <1>2, <1>3, LocFacts
  <1>7. \A b \in Acc : Cached(b)' <=> Cached(b)
    BY <1>6, LocFacts, FieldFacts DEF Cached, AccountKind
  <1>8. \A b \in Acc, f \in AccountKind : cur'[Field(f, b)] = Absent <=> ~Cached(b)'
    <2>1. \A l \in BackedLoc \ SlotLoc : cur'[l] = Absent <=> cur[l] = Absent
      BY <1>6, SmallValues DEF Create
    <2>2. QED
      BY <1>7, <2>1, LocFacts DEF TypeOK
  <1>9. \A l \in SlotLoc : /\ orig'[l] = Absent <=> cur'[l] = Absent
                           /\ cur'[l] # Absent => Cached(l.acc)'
    <2>1. \A l \in SlotLoc : /\ orig[l] = Absent <=> cur[l] = Absent
                             /\ cur[l] # Absent => Cached(l.acc)
      BY DEF TypeOK
    <2>2. \A l \in SlotLoc : orig'[l] = IF l.acc = a THEN Absent ELSE orig[l]
      BY DEF Create
    <2>3. \A l \in SlotLoc : l.acc \in Acc
      BY LocFacts
    <2>4. QED
      BY <1>4, <1>7, <2>1, <2>2, <2>3
  <1>10. cur' \in [Loc -> Val \cup {Absent}]
    <2>1. \A l \in Loc : cur[l] \in Val \cup {Absent}
      BY DEF TypeOK
    <2>2. \A l \in Loc : cur'[l] \in Val \cup {Absent}
      BY <1>4, <1>5, <1>6, <2>1, LocFacts, SmallValues
    <2>3. QED
      BY <2>2 DEF Create
  <1>11. orig' \in [SlotLoc -> Val \cup {Absent}] /\ \A l \in TxLoc : cur'[l] \in Val
    <2>1. orig \in [SlotLoc -> Val \cup {Absent}]
      BY DEF TypeOK
    <2>2. \A l \in TxLoc : cur[l] \in Val
      BY DEF TypeOK
    <2>3. orig' \in [SlotLoc -> Val \cup {Absent}]
      BY <2>1, SmallValues DEF Create
    <2>4. \A l \in TxLoc : cur'[l] \in Val
      BY <1>5, <2>2, SmallValues
    <2>5. QED
      BY <2>3, <2>4
  <1>12. es \in Seq(Event)
    <2>1. /\ Wrote(Field("nonce", a), 0) \in Event /\ Wrote(Field("value", a), 0) \in Event
          /\ CreatedEvent(a) \in Event
      BY EventTypes, SmallValues, LocFacts DEF AccountKind
    <2>2. QED
      BY <2>1
  <1>13. events' \in Seq(Event)
    BY <1>12 DEF TypeOK, Create, Emit
  <1>14. gaps' \subseteq Loc
    BY LocFacts DEF TypeOK, Create, Emit, EntryOf, MarkKind
  <1>15. QED
    BY <1>8, <1>9, <1>10, <1>11, <1>13, <1>14 DEF TypeOK, Create

LEMMA LogsSinceType ==
  ASSUME TypeOK, NEW cp \in Nat
  PROVE  Cardinality(LogsSince(cp)) \in Nat
  <1>1. Len(events) \in Int /\ LogsSince(cp) \subseteq 1 .. Len(events)
    BY DEF TypeOK, LogsSince, Since
  <1>2. IsFiniteSet(1 .. Len(events))
    BY <1>1, FS_Interval
  <1>3. QED
    BY <1>1, <1>2, FS_Subset, FS_CardinalityType

LEMMA UndoerFacts ==
  ASSUME TypeOK, NEW cp \in Nat, NEW l \in Loc, UndoersOf(cp, l) # {}
  PROVE  LET i == First(UndoersOf(cp, l)) IN
           /\ i \in 1 .. Len(events) /\ i > cp /\ events[i].loc = l
           /\ events[i].prev \in Val
           /\ \A j \in UndoersOf(cp, l) : i <= j
  <1> DEFINE i == First(UndoersOf(cp, l))
  <1>1. UndoersOf(cp, l) \subseteq Nat
    BY DEF TypeOK, UndoersOf, Since
  <1>2. i \in UndoersOf(cp, l) /\ \A j \in UndoersOf(cp, l) : i <= j
    BY <1>1, FirstExists
  <1>3. i \in 1 .. Len(events) /\ i > cp /\ events[i].loc = l
    BY <1>2 DEF TypeOK, UndoersOf, Since
  <1>4. events[i] \in Event
    BY <1>3 DEF TypeOK
  <1>5. QED
    BY <1>2, <1>3, <1>4 DEF Event

LEMMA RewoundType ==
  ASSUME TypeOK, NEW cp \in Nat
  PROVE  /\ Rewound(cp) \in [Loc -> Val \cup {Absent}]
         /\ \A l \in TxLoc : Rewound(cp)[l] \in Val
         /\ \A l \in BackedLoc : Rewound(cp)[l] = Absent
                                   <=> CreatedSince(cp, l.acc) \/ cur[l] = Absent
  <1>1. \A l \in Loc : Rewound(cp)[l] =
          IF l \in BackedLoc /\ CreatedSince(cp, l.acc) THEN Absent
          ELSE IF UndoersOf(cp, l) = {} \/ cur[l] = Absent THEN cur[l]
          ELSE events[First(UndoersOf(cp, l))].prev
    BY DEF Rewound
  <1>2. \A l \in Loc : UndoersOf(cp, l) # {} => events[First(UndoersOf(cp, l))].prev \in Val
    BY UndoerFacts
  <1>3. \A l \in Loc : cur[l] \in Val \cup {Absent}
    BY DEF TypeOK
  <1>4. \A l \in Loc : Rewound(cp)[l] \in Val \cup {Absent}
    BY <1>1, <1>2, <1>3
  <1>5. \A l \in TxLoc : Rewound(cp)[l] \in Val
    BY <1>1, <1>2, LocFacts DEF TypeOK
  <1>6. \A l \in BackedLoc : Rewound(cp)[l] = Absent
                               <=> CreatedSince(cp, l.acc) \/ cur[l] = Absent
    BY <1>1, <1>2, LocFacts
  <1>7. QED
    BY <1>4, <1>5, <1>6 DEF Rewound

LEMMA RevertType ==
  ASSUME TypeOK, RevertTo
  PROVE  TypeOK'
  <1> DEFINE n  == Len(frames)
             cp == frames[n].cp
  <1>1. n \in 1 .. Len(frames) /\ frames[n] \in Frame /\ cp \in Nat
    <2>1. frames \in Seq(Frame) /\ frames # <<>>
      BY DEF TypeOK, RevertTo
    <2>2. n \in 1 .. Len(frames) /\ frames[n] \in Frame
      BY <2>1
    <2>3. QED
      BY <2>2 DEF Frame
  <1>2. cur' = Rewound(cp)
    BY DEF RevertTo
  <1>3. \A b \in Acc : Cached(b)' <=> ~CreatedSince(cp, b) /\ Cached(b)
    BY <1>1, <1>2, RewoundType, LocFacts, FieldFacts DEF Cached, AccountKind
  <1>4. ASSUME NEW b \in Acc, NEW f \in AccountKind
        PROVE  cur'[Field(f, b)] = Absent <=> ~Cached(b)'
    <2>1. Field(f, b) \in BackedLoc /\ Field(f, b).acc = b
      BY LocFacts, FieldFacts
    <2>2. cur'[Field(f, b)] = Absent <=> CreatedSince(cp, b) \/ cur[Field(f, b)] = Absent
      BY <1>1, <1>2, <2>1, RewoundType
    <2>3. QED
      BY <1>3, <2>2 DEF TypeOK
  <1>5. \A l \in SlotLoc : orig'[l] = IF CreatedSince(cp, l.acc) THEN Absent ELSE orig[l]
    BY DEF RevertTo
  <1>6. \A l \in SlotLoc : /\ orig'[l] = Absent <=> cur'[l] = Absent
                           /\ cur'[l] # Absent => Cached(l.acc)'
    BY <1>1, <1>2, <1>3, <1>5, RewoundType, LocFacts DEF TypeOK
  <1>7. orig' \in [SlotLoc -> Val \cup {Absent}]
    BY DEF TypeOK, RevertTo
  <1>8. events' \in Seq(Event)
    <2>1. events' = [i \in 1 .. Len(events) |-> IF i \in Since(cp) THEN Reverted ELSE events[i]]
      BY DEF TypeOK, RevertTo
    <2>2. \A i \in 1 .. Len(events) : events'[i] \in Event
      BY <2>1, EventTypes DEF TypeOK
    <2>3. QED
      BY <2>1, <2>2 DEF TypeOK
  <1>9. logs' \in Seq(Nat)
    <2>1. Cardinality(LogsSince(cp)) \in Nat
      BY <1>1, LogsSinceType
    <2>2. logs' = SubSeq(logs, 1, Len(logs) - Cardinality(LogsSince(cp)))
      BY DEF RevertTo
    <2>3. QED
      BY <2>1, <2>2 DEF TypeOK
  <1>10. frames' \in Seq(Frame)
    BY <1>1 DEF TypeOK, RevertTo
  <1>11. QED
    BY <1>1, <1>2, <1>4, <1>6, <1>7, <1>8, <1>9, <1>10, RewoundType DEF TypeOK, RevertTo

LEMMA ApplyType ==
  ASSUME TypeOK, Apply
  PROVE  TypeOK'
  <1> DEFINE Gone(a) == Marked("destroyed", a)
  <1>1. \A l \in Loc : cur'[l] =
          IF ~Gone(l.acc) THEN cur[l]
          ELSE CASE l.kind = "store" -> Absent
                 [] l.kind \in AccountKind \cup {"created", "destroyed"} -> 0
                 [] OTHER -> cur[l]
    BY DEF Apply
  <1>2. \A l \in SlotLoc : cur'[l] = IF Gone(l.acc) THEN Absent ELSE cur[l]
    BY <1>1, LocFacts, FieldFacts
  <1>3. \A l \in BackedLoc \ SlotLoc : cur'[l] = IF Gone(l.acc) THEN 0 ELSE cur[l]
    BY <1>1, LocFacts, FieldFacts
  <1>4. \A l \in TxLoc : cur'[l] \in Val
    <2>1. \A l \in TxLoc : cur'[l] = 0 \/ cur'[l] = cur[l]
      BY <1>1, LocFacts, FieldFacts
    <2>2. QED
      BY <2>1, SmallValues DEF TypeOK
  <1>5. ASSUME NEW b \in Acc, NEW f \in AccountKind
        PROVE  cur'[Field(f, b)] = IF Gone(b) THEN 0 ELSE cur[Field(f, b)]
    <2>1. Field(f, b) \in BackedLoc \ SlotLoc /\ Field(f, b).acc = b
      BY LocFacts, FieldFacts
    <2>2. QED
      BY <1>3, <2>1
  <1>6. \A b \in Acc : Cached(b)' <=> Gone(b) \/ Cached(b)
    BY <1>5, SmallValues DEF Cached, AccountKind
  <1>7. \A b \in Acc, f \in AccountKind : cur'[Field(f, b)] = Absent <=> ~Cached(b)'
    BY <1>5, <1>6, SmallValues DEF TypeOK
  <1>8. \A l \in SlotLoc : orig'[l] = IF Gone(l.acc) THEN Absent ELSE orig[l]
    BY DEF Apply
  <1>9. \A l \in SlotLoc : /\ orig'[l] = Absent <=> cur'[l] = Absent
                           /\ cur'[l] # Absent => Cached(l.acc)'
    BY <1>2, <1>6, <1>8, LocFacts DEF TypeOK
  <1>10. cur' \in [Loc -> Val \cup {Absent}]
    <2>1. \A l \in Loc : cur[l] \in Val \cup {Absent}
      BY DEF TypeOK
    <2>2. \A l \in Loc : cur'[l] \in Val \cup {Absent}
      BY <1>2, <1>3, <1>4, <2>1, LocFacts, SmallValues
    <2>3. QED
      BY <2>2 DEF Apply
  <1>11. orig' \in [SlotLoc -> Val \cup {Absent}]
    BY DEF TypeOK, Apply
  <1>12. QED
    BY <1>4, <1>7, <1>9, <1>10, <1>11 DEF TypeOK, Apply

LEMMA EmptyType ==
  /\ Empty \in [Loc -> Val \cup {Absent}]
  /\ \A l \in BackedLoc : Empty[l] = Absent
  /\ \A l \in TxLoc : Empty[l] = 0
  /\ Observe(Empty) \in [Loc -> Val]
  BY LocFacts, SmallValues DEF Empty, Observe

LEMMA PurgeType ==
  ASSUME TypeOK, Purge
  PROVE  TypeOK'
  <1>1. \A b \in Acc, f \in AccountKind : cur'[Field(f, b)] = Absent
    BY EmptyType, LocFacts DEF Purge
  <1>2. \A b \in Acc : ~Cached(b)'
    BY <1>1 DEF Cached, AccountKind
  <1>3. events' \in Seq(Event) /\ logs' \in Seq(Nat) /\ frames' \in Seq(Frame)
    BY DEF Purge
  <1>4. past' \in Nat
    BY DEF Purge, TypeOK
  <1>5. cur' = Empty /\ base' = Observe(Empty) /\ gaps' = {} /\ applied' = FALSE
    BY DEF Purge
  <1>6. \A l \in SlotLoc : cur'[l] = Absent /\ orig'[l] = Absent
    BY EmptyType, LocFacts DEF Purge
  <1>7. orig' \in [SlotLoc -> Val \cup {Absent}]
    BY DEF Purge
  <1>8. \A l \in TxLoc : cur'[l] \in Val
    BY <1>5, EmptyType, SmallValues
  <1>9. QED
    BY <1>1, <1>2, <1>3, <1>4, <1>5, <1>6, <1>7, <1>8, EmptyType DEF TypeOK

LEMMA ResetType ==
  ASSUME TypeOK, Reset
  PROVE  TypeOK'
  <1> DEFINE kept == [l \in Loc |-> IF l \in BackedLoc THEN cur[l] ELSE 0]
  <1>1. /\ kept \in [Loc -> Val \cup {Absent}]
        /\ \A l \in BackedLoc : kept[l] = cur[l]
        /\ \A l \in TxLoc : kept[l] = 0
    BY LocFacts, SmallValues DEF TypeOK
  <1>2. Observe(kept) \in [Loc -> Val]
    BY <1>1, LocFacts, SmallValues DEF Observe
  <1>3. cur' = kept /\ base' = Observe(kept) /\ orig' = [l \in SlotLoc |-> cur[l]]
    BY DEF Reset
  <1> HIDE DEF kept
  <1>4. \A b \in Acc, f \in AccountKind : cur'[Field(f, b)] = cur[Field(f, b)]
    BY <1>1, <1>3, LocFacts
  <1>5. \A b \in Acc : Cached(b)' <=> Cached(b)
    BY <1>4 DEF Cached, AccountKind
  <1>6. orig' \in [SlotLoc -> Val \cup {Absent}]
    BY <1>3, LocFacts DEF TypeOK
  <1>7. events' \in Seq(Event) /\ logs' \in Seq(Nat) /\ frames' \in Seq(Frame)
    BY DEF Reset
  <1>8. past' \in Nat
    BY DEF Reset, TypeOK
  <1>9. \A l \in SlotLoc : /\ orig'[l] = Absent <=> cur'[l] = Absent
                           /\ cur'[l] # Absent => Cached(l.acc)'
    BY <1>1, <1>3, <1>5, LocFacts DEF TypeOK
  <1>10. \A l \in TxLoc : cur'[l] \in Val
    BY <1>1, <1>3, SmallValues
  <1>11. \A b \in Acc, f \in AccountKind : cur'[Field(f, b)] = Absent <=> ~Cached(b)'
    BY <1>4, <1>5 DEF TypeOK
  <1>12. gaps' \subseteq Loc /\ applied' \in BOOLEAN
    BY DEF Reset
  <1>13. QED
    BY <1>1, <1>2, <1>3, <1>6, <1>7, <1>8, <1>9, <1>10, <1>11, <1>12 DEF TypeOK

LEMMA InitType ==
  ASSUME Init
  PROVE  TypeOK
  <1>1. /\ cur \in [Loc -> Val \cup {Absent}]
        /\ \A l \in SlotLoc : cur[l] = Absent
        /\ \A l \in TxLoc : cur[l] \in Val
    <2>1. \A l \in SlotLoc : l.kind \notin AccountKind
      BY LocFacts, FieldFacts
    <2>2. \A l \in TxLoc : l.kind \notin AccountKind
      BY LocFacts, FieldFacts
    <2>3. \A l \in Loc : l.kind \in AccountKind => Chain[l] \in Val
      BY LocFacts, FieldFacts
    <2>4. QED
      BY <2>1, <2>2, <2>3, EmptyType, LocFacts, SmallValues DEF Init, Loaded
  <1>2. ASSUME NEW b \in Acc, NEW f \in AccountKind
        PROVE  cur[Field(f, b)] = Absent <=> b \notin Held
    <2>1. Field(f, b) \in BackedLoc /\ Field(f, b).acc = b /\ Field(f, b).kind = f
      BY LocFacts, FieldFacts
    <2>2. QED
      BY <2>1, EmptyType, LocFacts DEF Init, Loaded
  <1>3. \A b \in Acc, f \in AccountKind : cur[Field(f, b)] = Absent <=> ~Cached(b)
    BY <1>2 DEF Cached, AccountKind
  <1>4. base \in [Loc -> Val]
    BY <1>1, LocFacts DEF Init, Observe
  <1>5. events \in Seq(Event) /\ logs \in Seq(Nat) /\ frames \in Seq(Frame)
    BY DEF Init
  <1>6. QED
    BY <1>1, <1>3, <1>4, <1>5 DEF TypeOK, Init

LEMMA StepType ==
  ASSUME TypeOK, [Next]_vars
  PROVE  TypeOK'
  <1>1. ASSUME NEW a \in Acc, Merge(a) PROVE TypeOK'
    BY <1>1, MergeType
  <1>2. ASSUME NEW a \in Acc, IncNonce(a) PROVE TypeOK'
    <2> DEFINE m == Field("nonce", a)
    <2>1. m \in Loc /\ cur[m] # Absent /\ cur[m] \in Val
      BY <1>2, LocFacts DEF IncNonce, TypeOK, AccountKind
    <2>2. cur[m] + 1 \in Val
      BY <1>2, <2>1 DEF IncNonce, Val
    <2>3. QED
      BY <1>2, <2>1, <2>2, WriteType DEF IncNonce
  <1>3. ASSUME NEW a \in Acc, Create(a) PROVE TypeOK'
    BY <1>3, CreateType
  <1>4. ASSUME NEW a \in Acc, Destroy(a) PROVE TypeOK'
    <2>1. Field("destroyed", a) \in TxLoc
      BY LocFacts DEF MarkKind
    <2>2. Field("destroyed", a) \in Loc /\ cur[Field("destroyed", a)] # Absent
      BY <2>1, LocFacts DEF TypeOK
    <2>3. QED
      BY <1>4, <2>2, WriteType, SmallValues DEF Destroy
  <1>5. ASSUME NEW a \in Acc, NEW v \in Input["value"], SetValue(a, v) PROVE TypeOK'
    <2> DEFINE m == Field("value", a)
    <2>1. m \in Loc /\ cur[m] # Absent /\ cur[m] \in Val /\ v \in Val
      BY <1>5, LocFacts DEF SetValue, TypeOK, Cached, AccountKind
    <2>2. QED
      BY <1>5, <2>1, WriteType DEF SetValue
  <1>6. ASSUME NEW a \in Acc, NEW v \in Input["code"], SetCode(a, v) PROVE TypeOK'
    <2> DEFINE m == Field("code", a)
    <2>1. m \in Loc /\ cur[m] # Absent /\ v \in Val
      BY <1>6, LocFacts DEF SetCode, TypeOK, AccountKind
    <2>2. QED
      BY <1>6, <2>1, WriteType, SmallValues DEF SetCode
  <1>7. ASSUME NEW a \in Acc, NEW k \in Key, InitSlot(a, k) PROVE TypeOK'
    BY <1>7, InitSlotType
  <1>8. ASSUME NEW a \in Acc, NEW k \in Key, NEW v \in Input["store"], Put(a, k, v) PROVE TypeOK'
    <2> DEFINE m == Cell("store", a, k)
    <2>1. m \in Loc /\ cur[m] # Absent /\ cur[m] \in Val /\ v \in Val
      BY <1>8, LocFacts DEF Put, TypeOK
    <2>2. QED
      BY <1>8, <2>1, WriteType DEF Put
  <1>9. ASSUME NEW a \in Acc, NEW k \in Key, NEW v \in Input["temp"], TPut(a, k, v) PROVE TypeOK'
    <2> DEFINE m == Cell("temp", a, k)
    <2>1. m \in Loc /\ cur[m] # Absent /\ cur[m] \in Val /\ v \in Val
      BY LocFacts DEF TypeOK
    <2>2. QED
      BY <1>9, <2>1, WriteType DEF TPut
  <1>10. ASSUME NEW l \in Touched, Warm(l) PROVE TypeOK'
    <2>1. l \in Loc /\ cur[l] # Absent
      BY LocFacts DEF TypeOK
    <2>2. QED
      BY <1>10, <2>1, WriteType, SmallValues DEF Warm
  <1>11. ASSUME Log PROVE TypeOK'
    <2>1. events' \in Seq(Event) /\ logs' \in Seq(Nat)
      BY <1>11, EventTypes DEF TypeOK, Log, Emit
    <2>2. QED
      BY <1>11, <2>1 DEF TypeOK, Log, Emit, Cached
  <1>12. ASSUME Checkpoint PROVE TypeOK'
    <2>1. [cp |-> Len(events), snap |-> Observe(cur)] \in Frame
      BY ObserveType DEF TypeOK, Frame
    <2>2. frames' \in Seq(Frame)
      BY <1>12, <2>1 DEF TypeOK, Checkpoint
    <2>3. QED
      BY <1>12, <2>2 DEF TypeOK, Checkpoint, Cached
  <1>13. ASSUME Commit PROVE TypeOK'
    <2>1. frames' \in Seq(Frame)
      BY <1>13 DEF TypeOK, Commit
    <2>2. QED
      BY <1>13, <2>1 DEF TypeOK, Commit, Cached
  <1>14. ASSUME UNCHANGED vars PROVE TypeOK'
    BY <1>14 DEF TypeOK, vars, Cached
  <1>15. QED
    BY <1>1, <1>2, <1>3, <1>4, <1>5, <1>6, <1>7, <1>8, <1>9, <1>10, <1>11, <1>12,
       <1>13, <1>14, RevertType, ApplyType, ResetType, PurgeType DEF Next

\* Every reachable state of the cache is well typed: an entry is held whole or
\* not at all, and a slot is held with its original, through every revert.
THEOREM TypeCorrect == Spec => []TypeOK
  <1>1. Init => TypeOK
    BY InitType
  <1>2. TypeOK /\ [Next]_vars => TypeOK'
    BY StepType
  <1>3. QED
    BY <1>1, <1>2, PTL DEF Spec

----------------------------------------------------------------------------
(* The inductive invariant behind RewindRestores.                          *)

Undoes(i, l)  == i \in Since(0) /\ events[i].op \in {"write", "create"} /\ events[i].loc = l
Creates(i, a) == i \in Since(0) /\ events[i].op = "create" /\ events[i].loc = Field("created", a)

\* Between the checkpoint of f and event hi no entry of l's account was made.
NotMade(f, hi, l) ==
  l \in BackedLoc => \A i \in Nat : f.cp < i /\ i <= hi => ~Creates(i, l.acc)

FirstUndo(f, i, l) ==
  /\ f.cp < i /\ Undoes(i, l)
  /\ \A h \in Nat : f.cp < h /\ h < i => ~Undoes(h, l)

\* The events from f's checkpoint to hi lead back from a state that shows t at
\* l to what f saw there.
LeadsBack(f, hi, t, l) ==
  NotMade(f, hi, l) =>
    /\ (\A i \in Nat : f.cp < i /\ i <= hi => ~Undoes(i, l)) => t = f.snap[l]
    /\ \A i \in Nat : i <= hi /\ FirstUndo(f, i, l) => events[i].prev = f.snap[l]

\* Where an entry was made, or is gone, the chain still has what f saw.
ChainHas(f, l) ==
  l \in BackedLoc /\ (\/ \E i \in Nat : f.cp < i /\ Creates(i, l.acc)
                      \/ cur[l] = Absent /\ \E i \in Nat : f.cp < i /\ Undoes(i, l))
    => f.snap[l] = Chain[l]

\* Checkpoints are taken in order.
InOrder ==
  /\ \A k \in DOMAIN frames : frames[k].cp <= Len(events)
  /\ \A k, j \in DOMAIN frames : k < j => frames[k].cp <= frames[j].cp

\* The journal leads back from one checkpoint to each before it.
PairsLeadBack ==
  \A k, j \in DOMAIN frames : \A l \in Loc \ gaps :
    k < j => LeadsBack(frames[k], frames[j].cp, frames[j].snap[l], l)

\* And from now to each.
NowLeadsBack ==
  \A k \in DOMAIN frames : \A l \in Loc \ gaps :
    /\ LeadsBack(frames[k], Len(events), Observe(cur)[l], l)
    /\ ChainHas(frames[k], l)

JInv == InOrder /\ PairsLeadBack /\ NowLeadsBack

\* JInv says that a return to any open checkpoint restores.
LEMMA JInvRestores ==
  ASSUME TypeOK, JInv
  PROVE  RewindRestores
  <1> SUFFICES ASSUME NEW k \in DOMAIN frames, NEW l \in Loc \ gaps
               PROVE  Restores(k, l)
    BY DEF RewindRestores
  <1> DEFINE f == frames[k]
             r == Rewound(f.cp)
  <1>1. f \in Frame /\ f.cp \in Nat /\ f.snap[l] \in Val
    <2>1. f \in Frame
      BY DEF TypeOK
    <2>2. QED
      BY <2>1 DEF Frame
  <1>2. LeadsBack(f, Len(events), Observe(cur)[l], l) /\ ChainHas(f, l)
    BY DEF JInv, NowLeadsBack
  <1>3. Len(events) \in Nat /\ DOMAIN events = 1 .. Len(events)
    BY DEF TypeOK
  <1>4. \A i \in UndoersOf(f.cp, l) : i \in 1 .. Len(events) /\ f.cp < i /\ Undoes(i, l)
    BY <1>1, <1>3 DEF UndoersOf, Since, Undoes
  <1>5. \A i \in Nat : f.cp < i /\ Undoes(i, l) => i \in UndoersOf(f.cp, l)
    BY <1>1 DEF UndoersOf, Since, Undoes
  <1>6. /\ CreatedSince(f.cp, l.acc) <=> \E i \in Nat : f.cp < i /\ Creates(i, l.acc)
        /\ \A i \in Nat : Creates(i, l.acc) => i <= Len(events)
    BY <1>1, <1>3 DEF CreatedSince, Creates, Since
  <1>7. r[l] = IF l \in BackedLoc /\ CreatedSince(f.cp, l.acc) THEN Absent
               ELSE IF UndoersOf(f.cp, l) = {} \/ cur[l] = Absent THEN cur[l]
               ELSE events[First(UndoersOf(f.cp, l))].prev
    BY DEF Rewound
  <1>8. /\ Observe(r)[l] = IF l \in BackedLoc /\ r[l] = Absent THEN Chain[l] ELSE r[l]
        /\ Observe(cur)[l] = IF l \in BackedLoc /\ cur[l] = Absent THEN Chain[l] ELSE cur[l]
    BY DEF Observe
  <1> HIDE DEF f, r
  <1>9. CASE l \in BackedLoc /\ CreatedSince(f.cp, l.acc)
    BY <1>2, <1>6, <1>7, <1>8, <1>9 DEF ChainHas, Restores, f, r
  <1>10. CASE /\ ~(l \in BackedLoc /\ CreatedSince(f.cp, l.acc))
              /\ UndoersOf(f.cp, l) = {}
    <2>1. NotMade(f, Len(events), l)
      BY <1>6, <1>10 DEF NotMade
    <2>2. \A i \in Nat : f.cp < i /\ i <= Len(events) => ~Undoes(i, l)
      BY <1>5, <1>10
    <2>3. Observe(cur)[l] = f.snap[l]
      BY <1>2, <2>1, <2>2 DEF LeadsBack
    <2>4. QED
      BY <1>7, <1>8, <1>10, <2>3 DEF Restores, f, r
  <1>11. CASE /\ ~(l \in BackedLoc /\ CreatedSince(f.cp, l.acc))
              /\ UndoersOf(f.cp, l) # {} /\ cur[l] = Absent
    <2>1. l \in BackedLoc
      BY <1>11, LocFacts DEF TypeOK
    <2>2. \E i \in Nat : f.cp < i /\ Undoes(i, l)
      BY <1>3, <1>4, <1>11
    <2>3. QED
      BY <1>2, <1>7, <1>8, <1>11, <2>1, <2>2 DEF ChainHas, Restores, f, r
  <1>12. CASE /\ ~(l \in BackedLoc /\ CreatedSince(f.cp, l.acc))
              /\ UndoersOf(f.cp, l) # {} /\ cur[l] # Absent
    <2> DEFINE i == First(UndoersOf(f.cp, l))
    <2>1. UndoersOf(f.cp, l) \subseteq Nat
      BY <1>3, <1>4
    <2>2. i \in UndoersOf(f.cp, l) /\ \A j \in UndoersOf(f.cp, l) : i <= j
      BY <1>12, <2>1, FirstExists
    <2> HIDE DEF i
    <2>3. i \in Nat /\ i <= Len(events) /\ f.cp < i /\ Undoes(i, l)
      BY <1>3, <1>4, <2>2
    <2>4. \A h \in Nat : f.cp < h /\ h < i => ~Undoes(h, l)
      BY <1>5, <2>2, <2>3
    <2>5. NotMade(f, Len(events), l)
      BY <1>6, <1>12 DEF NotMade
    <2>6. events[i].prev = f.snap[l]
      BY <1>2, <2>3, <2>4, <2>5 DEF LeadsBack, FirstUndo
    <2>7. r[l] = f.snap[l]
      BY <1>7, <1>12, <2>6 DEF i
    <2>8. f.snap[l] \in Val
      BY <1>1 DEF f
    <2>9. QED
      BY <1>8, <2>7, <2>8 DEF Restores, f, r
  <1>13. QED
    BY <1>9, <1>10, <1>11, <1>12

\* What LeadsBack says of the events up to hi depends on nothing after hi.
LEMMA SamePast ==
  ASSUME NEW f \in Frame, NEW hi \in Nat, NEW l \in Loc, NEW t,
         \A i \in Nat : i <= hi => /\ Undoes(i, l)' <=> Undoes(i, l)
                                   /\ Creates(i, l.acc)' <=> Creates(i, l.acc)
                                   /\ Undoes(i, l) => events'[i] = events[i]
  PROVE  /\ NotMade(f, hi, l)' <=> NotMade(f, hi, l)
         /\ LeadsBack(f, hi, t, l) => LeadsBack(f, hi, t, l)'
  <1>1. NotMade(f, hi, l)' <=> NotMade(f, hi, l)
    BY DEF NotMade
  <1>2. \A i \in Nat : i <= hi => (FirstUndo(f, i, l)' <=> FirstUndo(f, i, l))
    BY DEF FirstUndo
  <1>3. \A i \in Nat : FirstUndo(f, i, l) => Undoes(i, l)
    BY DEF FirstUndo
  <1>4. QED
    BY <1>1, <1>2, <1>3 DEF LeadsBack

\* Nor on events that neither undo l nor make its entry.
LEMMA QuietTail ==
  ASSUME NEW f \in Frame, NEW hi \in Nat, NEW top \in Nat, hi <= top, NEW l \in Loc, NEW t,
         \A i \in Nat : hi < i => ~Undoes(i, l) /\ ~Creates(i, l.acc),
         f.cp <= hi,
         LeadsBack(f, hi, t, l)
  PROVE  LeadsBack(f, top, t, l)
  <1>1. f.cp \in Nat
    BY DEF Frame
  <1>2. NotMade(f, top, l) => NotMade(f, hi, l)
    BY <1>1 DEF NotMade
  <1>3. \A i \in Nat : i <= top /\ FirstUndo(f, i, l) => i <= hi
    BY DEF FirstUndo
  <1>4. QED
    BY <1>1, <1>2, <1>3 DEF LeadsBack

\* Appending es to the journal.
LEMMA AppendFacts ==
  ASSUME TypeOK, NEW es \in Seq(Event), events' = events \o es
  PROVE  /\ Len(events) \in Nat /\ Len(events') \in Nat
         /\ Len(events') = Len(events) + Len(es)
         /\ \A i \in Nat : \A l : i <= Len(events) => (Undoes(i, l)' <=> Undoes(i, l))
         /\ \A i \in Nat : \A l : i <= Len(events) => (Creates(i, l)' <=> Creates(i, l))
         /\ \A i \in Nat : \A l : Undoes(i, l) => events'[i] = events[i]
         /\ \A i \in Nat : \A l : Len(events) < i =>
              (Undoes(i, l)' <=> /\ i <= Len(events')
                                 /\ es[i - Len(events)].op \in {"write", "create"}
                                 /\ es[i - Len(events)].loc = l)
         /\ \A i \in Nat : \A l : Len(events) < i =>
              (Creates(i, l)' <=> /\ i <= Len(events')
                                  /\ es[i - Len(events)].op = "create"
                                  /\ es[i - Len(events)].loc = Field("created", l))
         /\ \A i \in Nat : Len(events) < i /\ i <= Len(events') =>
              events'[i] = es[i - Len(events)]
  <1>1. /\ events \in Seq(Event)
        /\ DOMAIN events = 1 .. Len(events) /\ DOMAIN events' = 1 .. Len(events')
        /\ Len(events) \in Nat /\ Len(events') = Len(events) + Len(es) /\ Len(es) \in Nat
    BY DEF TypeOK
  <1>2. \A i \in 1 .. Len(events) : events'[i] = events[i]
    BY <1>1
  <1>3. \A i \in Nat : Len(events) < i /\ i <= Len(events') =>
          events'[i] = es[i - Len(events)]
    BY <1>1
  <1>4. \A i, l : /\ Undoes(i, l)' <=> /\ i \in 1 .. Len(events')
                                       /\ events'[i].op \in {"write", "create"}
                                       /\ events'[i].loc = l
                  /\ Undoes(i, l) <=> /\ i \in 1 .. Len(events)
                                      /\ events[i].op \in {"write", "create"}
                                      /\ events[i].loc = l
    BY <1>1 DEF Undoes, Since
  <1>5. \A i, l : /\ Creates(i, l)' <=> /\ i \in 1 .. Len(events')
                                        /\ events'[i].op = "create"
                                        /\ events'[i].loc = Field("created", l)
                  /\ Creates(i, l) <=> /\ i \in 1 .. Len(events)
                                       /\ events[i].op = "create"
                                       /\ events[i].loc = Field("created", l)
    BY <1>1 DEF Creates, Since
  <1>6. \A i \in Nat : \A l : i <= Len(events) => (Undoes(i, l)' <=> Undoes(i, l))
    BY <1>1, <1>2, <1>4
  <1>7. \A i \in Nat : \A l : i <= Len(events) => (Creates(i, l)' <=> Creates(i, l))
    BY <1>1, <1>2, <1>5
  <1>8. \A i \in Nat : \A l : Undoes(i, l) => events'[i] = events[i]
    BY <1>1, <1>2, <1>4
  <1>9. \A i \in Nat : Len(events) < i => (i \in 1 .. Len(events') <=> i <= Len(events'))
    BY <1>1
  <1>10. ASSUME NEW i \in Nat, NEW l, Len(events) < i
         PROVE  Undoes(i, l)' <=> /\ i <= Len(events')
                                  /\ es[i - Len(events)].op \in {"write", "create"}
                                  /\ es[i - Len(events)].loc = l
    <2>1. CASE i <= Len(events')
      <3>1. events'[i] = es[i - Len(events)] /\ i \in 1 .. Len(events')
        BY <1>3, <1>9, <1>10, <2>1
      <3>2. QED
        BY <1>4, <2>1, <3>1
    <2>2. CASE ~(i <= Len(events'))
      BY <1>4, <1>9, <1>10, <2>2
    <2>3. QED
      BY <2>1, <2>2
  <1>11. ASSUME NEW i \in Nat, NEW l, Len(events) < i
         PROVE  Creates(i, l)' <=> /\ i <= Len(events')
                                   /\ es[i - Len(events)].op = "create"
                                   /\ es[i - Len(events)].loc = Field("created", l)
    <2>1. CASE i <= Len(events')
      <3>1. events'[i] = es[i - Len(events)] /\ i \in 1 .. Len(events')
        BY <1>3, <1>9, <1>11, <2>1
      <3>2. QED
        BY <1>5, <2>1, <3>1
    <2>2. CASE ~(i <= Len(events'))
      BY <1>5, <1>9, <1>11, <2>2
    <2>3. QED
      BY <2>1, <2>2
  <1>12. Len(events') \in Nat
    BY <1>1
  <1>13. QED
    BY <1>1, <1>3, <1>6, <1>7, <1>8, <1>10, <1>11, <1>12

\* One location through a step that emits: it leads back from u after the step
\* if it did from t before, provided that each new event on it recorded t.
LEMMA EmitLeadsBack ==
  ASSUME TypeOK, NEW es \in Seq(Event), events' = events \o es,
         NEW f \in Frame, f.cp <= Len(events), NEW l \in Loc, NEW t, NEW u,
         LeadsBack(f, Len(events), t, l),
         u = t \/ \E i \in Nat : Len(events) < i /\ i <= Len(events') /\ Undoes(i, l)',
         \A i \in Nat : Len(events) < i /\ Undoes(i, l)' => events'[i].prev = t
  PROVE  LeadsBack(f, Len(events), u, l)'
  <1>1. PICK n \in Nat, m \in Nat : n = Len(events) /\ m = Len(events') /\ n <= m
    BY AppendFacts
  <1>2. f.cp \in Nat /\ f.cp <= n
    BY <1>1 DEF Frame
  <1>3. \A i \in Nat : i <= n => (Undoes(i, l)' <=> Undoes(i, l))
    BY <1>1, AppendFacts
  <1>4. \A i \in Nat : i <= n => (Creates(i, l.acc)' <=> Creates(i, l.acc))
    BY <1>1, AppendFacts
  <1>5. \A i \in Nat : Undoes(i, l) => events'[i] = events[i]
    BY AppendFacts
  <1>6. LeadsBack(f, n, t, l)
    BY <1>1
  <1> SUFFICES ASSUME NotMade(f, m, l)'
               PROVE  /\ (\A i \in Nat : f.cp < i /\ i <= m => ~Undoes(i, l)') => u = f.snap[l]
                      /\ \A i \in Nat : i <= m /\ FirstUndo(f, i, l)' =>
                           events'[i].prev = f.snap[l]
    BY <1>1 DEF LeadsBack
  <1>7. NotMade(f, n, l)
    BY <1>1, <1>2, <1>4 DEF NotMade
  <1>8. (\A i \in Nat : f.cp < i /\ i <= n => ~Undoes(i, l)) => t = f.snap[l]
    BY <1>6, <1>7 DEF LeadsBack
  <1>9. (\A i \in Nat : f.cp < i /\ i <= m => ~Undoes(i, l)') => u = f.snap[l]
    <2> HAVE \A i \in Nat : f.cp < i /\ i <= m => ~Undoes(i, l)'
    <2>1. u = t
      BY <1>1, <1>2
    <2>2. \A i \in Nat : f.cp < i /\ i <= n => ~Undoes(i, l)
      BY <1>1, <1>3
    <2>3. QED
      BY <1>8, <2>1, <2>2
  <1>10. ASSUME NEW i \in Nat, i <= m, FirstUndo(f, i, l)' PROVE events'[i].prev = f.snap[l]
    <2>1. /\ f.cp < i /\ Undoes(i, l)'
          /\ \A h \in Nat : f.cp < h /\ h < i => ~Undoes(h, l)'
      BY <1>10 DEF FirstUndo
    <2>2. CASE i <= n
      <3>1. Undoes(i, l)
        BY <1>3, <2>1, <2>2
      <3>2. \A h \in Nat : f.cp < h /\ h < i => ~Undoes(h, l)
        BY <1>3, <2>1, <2>2
      <3>3. events[i].prev = f.snap[l]
        BY <1>6, <1>7, <2>1, <2>2, <3>1, <3>2 DEF LeadsBack, FirstUndo
      <3>4. QED
        BY <1>5, <3>1, <3>3
    <2>3. CASE n < i
      <3>1. events'[i].prev = t
        BY <1>1, <2>1, <2>3
      <3>2. \A h \in Nat : f.cp < h /\ h <= n => ~Undoes(h, l)
        BY <1>1, <1>3, <2>1, <2>3
      <3>3. QED
        BY <1>8, <3>1, <3>2
    <2>4. i <= n \/ n < i
      BY <1>1
    <2>5. QED
      BY <2>2, <2>3, <2>4
  <1>11. QED
    BY <1>9, <1>10

LEMMA EmitChainHas ==
  ASSUME TypeOK, NEW es \in Seq(Event), events' = events \o es,
         NEW f \in Frame, NEW l \in Loc, ChainHas(f, l),
         \A i \in Nat : Len(events) < i => ~Creates(i, l.acc)',
         cur'[l] = Absent =>
           cur[l] = Absent /\ \A i \in Nat : Len(events) < i => ~Undoes(i, l)'
  PROVE  ChainHas(f, l)'
  <1>1. \A i \in Nat : i <= Len(events) => (Undoes(i, l)' <=> Undoes(i, l))
    BY AppendFacts
  <1>2. \A i \in Nat : i <= Len(events) => (Creates(i, l.acc)' <=> Creates(i, l.acc))
    BY AppendFacts
  <1>3. Len(events) \in Nat
    BY AppendFacts
  <1>4. ASSUME NEW i \in Nat, Creates(i, l.acc)' PROVE Creates(i, l.acc)
    <2>1. i <= Len(events) \/ Len(events) < i
      BY <1>3
    <2>2. QED
      BY <1>2, <1>4, <2>1
  <1>5. cur'[l] = Absent => \A i \in Nat : Undoes(i, l)' => Undoes(i, l)
    BY <1>1, <1>3
  <1>6. QED
    BY <1>4, <1>5 DEF ChainHas

LEMMA FrameTypes ==
  ASSUME TypeOK, NEW k \in DOMAIN frames
  PROVE  frames[k] \in Frame /\ frames[k].cp \in Nat
  <1>1. frames[k] \in Frame
    BY DEF TypeOK
  <1>2. QED
    BY <1>1 DEF Frame

\* A step that only emits keeps what the journal says of two checkpoints.
LEMMA EmitKeepsPairs ==
  ASSUME TypeOK, JInv, NEW es \in Seq(Event), events' = events \o es,
         frames' = frames, gaps \subseteq gaps'
  PROVE  InOrder' /\ PairsLeadBack'
  <1>1. Len(events) \in Nat /\ Len(events') \in Nat /\ Len(events) <= Len(events')
    BY AppendFacts
  <1>2. InOrder'
    BY <1>1, FrameTypes DEF JInv, InOrder
  <1>3. ASSUME NEW k \in DOMAIN frames, NEW j \in DOMAIN frames, NEW l \in Loc \ gaps', k < j
        PROVE  LeadsBack(frames[k], frames[j].cp, frames[j].snap[l], l)'
    <2>1. LeadsBack(frames[k], frames[j].cp, frames[j].snap[l], l)
      BY <1>3 DEF JInv, PairsLeadBack
    <2>2. frames[j].cp <= Len(events)
      BY DEF JInv, InOrder
    <2>3. PICK f, hi, t :
            f \in Frame /\ hi \in Nat /\ f = frames[k] /\ hi = frames[j].cp /\ t = frames[j].snap[l]
      BY FrameTypes
    <2>4. \A i \in Nat : i <= hi => i <= Len(events)
      BY <1>1, <2>2, <2>3
    <2>5. \A i \in Nat : i <= hi => /\ Undoes(i, l)' <=> Undoes(i, l)
                                    /\ Creates(i, l.acc)' <=> Creates(i, l.acc)
                                    /\ Undoes(i, l) => events'[i] = events[i]
      BY <2>4, AppendFacts
    <2>6. LeadsBack(f, hi, t, l)'
      BY <2>1, <2>3, <2>5, SamePast
    <2>7. QED
      BY <2>3, <2>6
  <1>4. QED
    BY <1>2, <1>3 DEF PairsLeadBack

\* A step that touches neither the journal nor the checkpoints, and that no
\* reader can see, keeps all of it: the reads that fill the cache.
LEMMA QuietKeepsJInv ==
  ASSUME JInv, UNCHANGED <<events, frames, gaps>>,
         \A l \in Loc : Observe(cur)'[l] = Observe(cur)[l],
         \A l \in Loc : cur'[l] = Absent => cur[l] = Absent
  PROVE  JInv'
  <1>1. InOrder'
    BY DEF JInv, InOrder
  <1>2. \A i, l : (Undoes(i, l)' <=> Undoes(i, l)) /\ (Creates(i, l)' <=> Creates(i, l))
    BY DEF Undoes, Creates, Since
  <1>3. PairsLeadBack'
    BY <1>2 DEF JInv, PairsLeadBack, LeadsBack, NotMade, FirstUndo
  <1>4. ASSUME NEW k \in DOMAIN frames, NEW l \in Loc \ gaps
        PROVE  LeadsBack(frames[k], Len(events), Observe(cur)[l], l)' /\ ChainHas(frames[k], l)'
    <2>1. LeadsBack(frames[k], Len(events), Observe(cur)[l], l) /\ ChainHas(frames[k], l)
      BY DEF JInv, NowLeadsBack
    <2>2. LeadsBack(frames[k], Len(events), Observe(cur)[l], l)'
      BY <1>2, <2>1 DEF LeadsBack, NotMade, FirstUndo
    <2>3. ChainHas(frames[k], l)'
      BY <1>2, <2>1 DEF ChainHas
    <2>4. QED
      BY <2>2, <2>3
  <1>5. NowLeadsBack'
    BY <1>4 DEF NowLeadsBack
  <1>6. QED
    BY <1>1, <1>3, <1>5 DEF JInv

LEMMA NoFramesJInv ==
  /\ frames = <<>> => JInv
  /\ frames' = <<>> => JInv'
  <1>1. frames = <<>> => DOMAIN frames = {}
    OBVIOUS
  <1>2. frames' = <<>> => DOMAIN frames' = {}
    OBVIOUS
  <1>3. QED
    BY <1>1, <1>2 DEF JInv, InOrder, PairsLeadBack, NowLeadsBack

LEMMA WriteJInv ==
  ASSUME TypeOK, JInv, NEW w \in Loc, NEW v \in Val, NEW p \in Val,
         cur[w] # Absent, Write(w, v, p)
  PROVE  JInv'
  <1> DEFINE es == <<Wrote(w, p)>>
  <1>1. /\ es \in Seq(Event) /\ Len(es) = 1 /\ es[1] = Wrote(w, p)
        /\ events' = events \o es /\ frames' = frames
    BY EventTypes DEF Write, Emit
  <1>2. gaps \subseteq gaps' /\ (frames # <<>> /\ p # cur[w] => w \in gaps')
    BY DEF Write, Emit
  <1>3. InOrder' /\ PairsLeadBack'
    BY <1>1, <1>2, EmitKeepsPairs
  <1>4. Len(events) \in Nat /\ Len(events') = Len(events) + 1
    BY <1>1, AppendFacts
  <1>5. \A i \in Nat : \A l : Len(events) < i =>
          (Undoes(i, l)' <=> i = Len(events) + 1 /\ l = w)
    <2>1. \A i \in Nat : Len(events) < i /\ i <= Len(events') <=> i = Len(events) + 1
      BY <1>4
    <2>2. es[1].op = "write" /\ es[1].loc = w
      BY <1>1 DEF Wrote
    <2>3. \A i \in Nat : \A l : i = Len(events) + 1 => i - Len(events) = 1
      BY <1>4
    <2>4. \A i \in Nat : \A l : Len(events) < i =>
            (Undoes(i, l)' <=> /\ i <= Len(events')
                               /\ es[i - Len(events)].op \in {"write", "create"}
                               /\ es[i - Len(events)].loc = l)
      BY <1>1, AppendFacts
    <2> HIDE DEF es
    <2>5. QED
      BY <2>1, <2>2, <2>3, <2>4
  <1>6. \A i \in Nat : \A a : Len(events) < i => ~Creates(i, a)'
    <2>1. es[1].op = "write"
      BY <1>1 DEF Wrote
    <2>2. \A i \in Nat : Len(events) < i /\ i <= Len(events') => i - Len(events) = 1
      BY <1>4
    <2>3. \A i \in Nat : \A a : Len(events) < i =>
            (Creates(i, a)' <=> /\ i <= Len(events')
                                /\ es[i - Len(events)].op = "create"
                                /\ es[i - Len(events)].loc = Field("created", a))
      BY <1>1, AppendFacts
    <2> HIDE DEF es
    <2>4. QED
      BY <2>1, <2>2, <2>3
  <1>7. events'[Len(events) + 1].prev = p
    BY <1>1, <1>4 DEF Wrote
  <1>8. \A l \in Loc : l # w => Observe(cur)'[l] = Observe(cur)[l] /\ cur'[l] = cur[l]
    BY DEF Write, Observe, TypeOK
  <1>9. cur'[w] # Absent /\ Observe(cur)[w] = cur[w]
    BY DEF Write, Observe, TypeOK
  <1>10. ASSUME NEW k \in DOMAIN frames, NEW l \in Loc \ gaps'
         PROVE  LeadsBack(frames[k], Len(events), Observe(cur)[l], l)' /\ ChainHas(frames[k], l)'
    <2>1. LeadsBack(frames[k], Len(events), Observe(cur)[l], l) /\ ChainHas(frames[k], l)
      BY <1>2 DEF JInv, NowLeadsBack
    <2>2. frames # <<>> /\ frames[k].cp <= Len(events)
      BY DEF JInv, InOrder
    <2>3. PICK f, t, u :
            f \in Frame /\ f = frames[k] /\ t = Observe(cur)[l] /\ u = Observe(cur)'[l]
      BY FrameTypes
    <2>4. l = w => p = t
      BY <1>2, <1>9, <2>2, <2>3
    <2>5. u = t \/ \E i \in Nat : Len(events) < i /\ i <= Len(events') /\ Undoes(i, l)'
      <3>1. l # w => u = t
        BY <1>8, <2>3
      <3>2. PICK q \in Nat : q = Len(events) + 1
        BY <1>4
      <3>3. Len(events) < q /\ q <= Len(events')
        BY <1>4, <3>2
      <3>4. l = w => Undoes(q, l)'
        BY <1>5, <3>2, <3>3
      <3>5. QED
        BY <3>1, <3>3, <3>4
    <2>6. \A i \in Nat : Len(events) < i /\ Undoes(i, l)' => events'[i].prev = t
      BY <1>5, <1>7, <2>4
    <2>7. LeadsBack(f, Len(events), u, l)'
      BY <1>1, <2>1, <2>2, <2>3, <2>5, <2>6, EmitLeadsBack
    <2>8. cur'[l] = Absent => cur[l] = Absent /\ \A i \in Nat : Len(events) < i => ~Undoes(i, l)'
      BY <1>5, <1>8, <1>9
    <2>9. ChainHas(f, l)'
      BY <1>1, <1>6, <2>1, <2>3, <2>8, EmitChainHas
    <2>10. f = frames'[k] /\ u = Observe(cur)'[l]
      BY <1>1, <2>3
    <2>11. QED
      BY <2>7, <2>9, <2>10
  <1>11. NowLeadsBack'
    BY <1>1, <1>10 DEF NowLeadsBack
  <1>12. QED
    BY <1>3, <1>11 DEF JInv

LEMMA Pair ==
  ASSUME NEW x \in Event, NEW y \in Event
  PROVE  <<x>> \o <<y>> = <<x, y>>
  <1>1. <<x>> \o <<y>> \in Seq(Event) /\ <<x, y>> \in Seq(Event)
    OBVIOUS
  <1>2. Len(<<x>> \o <<y>>) = 2 /\ Len(<<x, y>>) = 2
    OBVIOUS
  <1>3. \A i \in 1 .. 2 : (<<x>> \o <<y>>)[i] = <<x, y>>[i]
    OBVIOUS
  <1>4. QED
    BY <1>1, <1>2, <1>3, SeqEqual

LEMMA Triples ==
  ASSUME NEW x \in Event, NEW y \in Event, NEW z \in Event
  PROVE  /\ (<<x>> \o <<>>) \o <<z>> = <<x, z>>
         /\ (<<x>> \o <<y>>) \o <<z>> = <<x, y, z>>
  <1>1. <<x>> \o <<>> = <<x>>
    OBVIOUS
  <1>2. <<x, y>> \o <<z>> = <<x, y, z>>
    <2>1. <<x, y>> \o <<z>> \in Seq(Event) /\ <<x, y, z>> \in Seq(Event)
      OBVIOUS
    <2>2. Len(<<x, y>> \o <<z>>) = 3 /\ Len(<<x, y, z>>) = 3
      OBVIOUS
    <2>3. \A i \in 1 .. 3 : (<<x, y>> \o <<z>>)[i] = <<x, y, z>>[i]
      OBVIOUS
    <2>4. QED
      BY <2>1, <2>2, <2>3, SeqEqual
  <1>3. QED
    BY <1>1, <1>2, Pair

LEMMA CreateJInv ==
  ASSUME TypeOK, JInv, NEW a \in Acc, Create(a)
  PROVE  JInv'
  <1> DEFINE v  == cur[Field("value", a)]
             es == (<<Wrote(Field("nonce", a), 0)>>
                     \o (IF v = 0 THEN <<>> ELSE <<Wrote(Field("value", a), 0)>>))
                     \o <<CreatedEvent(a)>>
             c  == Field("created", a)
             n  == Len(events)
  <1>1. /\ Wrote(Field("nonce", a), 0) \in Event /\ Wrote(Field("value", a), 0) \in Event
        /\ CreatedEvent(a) \in Event
    BY EventTypes, SmallValues, LocFacts DEF AccountKind
  <1>2. es \in Seq(Event) /\ events' = events \o es /\ frames' = frames /\ frames # <<>>
    BY <1>1 DEF Create, Emit
  <1>3. /\ Len(es) \in {2, 3} /\ es[Len(es)] = CreatedEvent(a)
        /\ \A i \in 1 .. Len(es) : es[i] \in {Wrote(Field("nonce", a), 0),
                                             Wrote(Field("value", a), 0), CreatedEvent(a)}
    <2>1. CASE v = 0
      <3>1. es = <<Wrote(Field("nonce", a), 0), CreatedEvent(a)>>
        BY <1>1, <2>1, Triples
      <3> HIDE DEF es
      <3>2. QED
        BY <3>1
    <2>2. CASE v # 0
      <3>1. es = <<Wrote(Field("nonce", a), 0), Wrote(Field("value", a), 0), CreatedEvent(a)>>
        BY <1>1, <2>2, Triples
      <3> HIDE DEF es
      <3>2. QED
        BY <3>1
    <2>3. QED
      BY <2>1, <2>2
  <1>4. /\ c \in TxLoc /\ c \in Loc /\ c \notin BackedLoc /\ c.acc = a
        /\ Field("nonce", a) \in BackedLoc /\ Field("nonce", a).acc = a
        /\ Field("value", a) \in BackedLoc /\ Field("value", a).acc = a
    BY LocFacts, FieldFacts DEF MarkKind, AccountKind
  <1>5. /\ gaps \subseteq gaps'
        /\ \A l \in BackedLoc : l.acc = a /\ l \notin gaps' =>
             \A k \in DOMAIN frames : frames[k].snap[l] = Chain[l]
        /\ c \notin gaps' => cur[c] = 0
    BY LocFacts DEF Create, Emit, EntryOf
  <1>6. /\ \A l \in Loc : cur'[l] = CASE l = c                      -> 1
                                     [] l = Field("nonce", a)       -> 1
                                     [] l \in EntryOf(a) /\ l.kind = "store" -> Absent
                                     [] OTHER                       -> cur[l]
        /\ cur[Field("nonce", a)] = 0 /\ Cached(a)
    BY DEF Create
  <1>7. \A l \in Loc : l.acc # a => cur'[l] = cur[l]
    BY <1>4, <1>6 DEF EntryOf
  <1>8. \A l \in TxLoc : l # c => cur'[l] = cur[l]
    BY <1>4, <1>6, LocFacts DEF EntryOf
  <1>9. n \in Nat /\ Len(events') \in Nat /\ Len(events') = n + Len(es)
    BY <1>2, AppendFacts
  <1> HIDE DEF es
  <1>10. InOrder' /\ PairsLeadBack'
    BY <1>2, <1>5, EmitKeepsPairs
  <1>11. \A i \in Nat : n < i /\ i <= Len(events') =>
           /\ events'[i] = es[i - n]
           /\ es[i - n] \in {Wrote(Field("nonce", a), 0), Wrote(Field("value", a), 0),
                             CreatedEvent(a)}
    <2>1. \A i \in Nat : n < i /\ i <= Len(events') => i - n \in 1 .. Len(es)
      BY <1>3, <1>9
    <2>2. QED
      BY <1>2, <1>3, <2>1, AppendFacts
  <1>12. \A i \in Nat : \A l : n < i /\ Undoes(i, l)' =>
           /\ i <= Len(events')
           /\ l = c \/ l = Field("nonce", a) \/ l = Field("value", a)
    <2>1. \A i \in Nat : \A l : n < i =>
            (Undoes(i, l)' => i <= Len(events') /\ es[i - n].loc = l)
      BY <1>2, AppendFacts
    <2>2. QED
      BY <1>11, <2>1 DEF Wrote, CreatedEvent
  <1>13. \A i \in Nat : n < i /\ i <= Len(events') => events'[i].prev = 0
    BY <1>11 DEF Wrote, CreatedEvent
  <1>14. \A i \in Nat, b \in Acc : n < i /\ Creates(i, b)' => b = a
    <2>1. \A i \in Nat : \A b : n < i =>
            (Creates(i, b)' => /\ i <= Len(events') /\ es[i - n].op = "create"
                               /\ es[i - n].loc = Field("created", b))
      BY <1>2, AppendFacts
    <2>2. ASSUME NEW i \in Nat, NEW b \in Acc, n < i, Creates(i, b)' PROVE b = a
      <3>1. es[i - n].op = "create" /\ es[i - n].loc = Field("created", b) /\ i <= Len(events')
        BY <2>1, <2>2
      <3>2. es[i - n] = CreatedEvent(a)
        BY <1>11, <2>2, <3>1 DEF Wrote
      <3>3. Field("created", b) = Field("created", a)
        BY <3>1, <3>2 DEF CreatedEvent
      <3>4. QED
        BY <3>3, FieldFacts
    <2>3. QED
      BY <2>2
  <1>15. PICK q \in Nat : n < q /\ q <= Len(events') /\ Undoes(q, c)' /\ Creates(q, a)'
    <2>1. PICK q \in Nat : q = n + Len(es) /\ n < q /\ q <= Len(events') /\ q - n = Len(es)
      BY <1>3, <1>9
    <2>2. es[q - n] = CreatedEvent(a)
      BY <1>3, <2>1
    <2>3. Undoes(q, c)' <=> /\ q <= Len(events') /\ es[q - n].op \in {"write", "create"}
                            /\ es[q - n].loc = c
      BY <1>2, <2>1, AppendFacts
    <2>4. Creates(q, a)' <=> /\ q <= Len(events') /\ es[q - n].op = "create"
                             /\ es[q - n].loc = Field("created", a)
      BY <1>2, <2>1, AppendFacts
    <2>5. Undoes(q, c)' /\ Creates(q, a)'
      BY <2>1, <2>2, <2>3, <2>4 DEF CreatedEvent
    <2>6. QED
      BY <2>1, <2>5
  <1>16. ASSUME NEW k \in DOMAIN frames, NEW l \in Loc \ gaps'
         PROVE  LeadsBack(frames[k], Len(events), Observe(cur)[l], l)' /\ ChainHas(frames[k], l)'
    <2>1. LeadsBack(frames[k], Len(events), Observe(cur)[l], l) /\ ChainHas(frames[k], l)
      BY <1>5 DEF JInv, NowLeadsBack
    <2>2. frames[k].cp <= n
      BY DEF JInv, InOrder
    <2>3. PICK f, t, u :
            f \in Frame /\ f = frames[k] /\ t = Observe(cur)[l] /\ u = Observe(cur)'[l]
      BY FrameTypes
    <2>4. f = frames'[k] /\ u = Observe(cur)'[l] /\ f.cp \in Nat
      BY <1>2, <2>3 DEF Frame
    <2>5. CASE l \in BackedLoc /\ l.acc = a
      <3>1. f.cp < q
        BY <1>9, <1>15, <2>2, <2>3, <2>4
      <3>2. ~NotMade(f, Len(events), l)'
        BY <1>15, <2>5, <3>1 DEF NotMade
      <3>3. f.snap[l] = Chain[l]
        BY <1>5, <2>3, <2>5
      <3>4. LeadsBack(f, Len(events), u, l)' /\ ChainHas(f, l)'
        BY <3>2, <3>3 DEF LeadsBack, ChainHas
      <3>5. QED
        BY <2>4, <3>4
    <2>6. CASE ~(l \in BackedLoc /\ l.acc = a)
      <3>1. l # Field("nonce", a) /\ l # Field("value", a)
        BY <1>4, <2>6
      <3>2. l # c => cur'[l] = cur[l]
        BY <1>7, <1>8, <2>6, LocFacts
      <3>3. l # c => u = t
        BY <2>3, <3>2 DEF Observe
      <3>4. l = c => t = 0
        <4>1. Observe(cur)[c] = cur[c]
          BY <1>4 DEF Observe
        <4>2. QED
          BY <1>5, <2>3, <4>1
      <3>5. u = t \/ \E i \in Nat : n < i /\ i <= Len(events') /\ Undoes(i, l)'
        BY <1>15, <3>3
      <3>6. \A i \in Nat : n < i /\ Undoes(i, l)' => events'[i].prev = t
        BY <1>12, <1>13, <3>1, <3>4
      <3>7. LeadsBack(f, Len(events), u, l)'
        BY <1>2, <2>1, <2>2, <2>3, <3>5, <3>6, EmitLeadsBack
      <3>8. CASE l \in BackedLoc
        <4>1. l.acc # a /\ l # c /\ l.acc \in Acc
          BY <1>4, <2>6, <3>8, LocFacts
        <4>2. \A i \in Nat : n < i => ~Creates(i, l.acc)'
          BY <1>14, <4>1
        <4>3. cur'[l] = Absent => cur[l] = Absent /\ \A i \in Nat : n < i => ~Undoes(i, l)'
          BY <1>12, <3>1, <3>2, <4>1
        <4>4. ChainHas(f, l)'
          BY <1>2, <2>1, <2>3, <4>2, <4>3, EmitChainHas
        <4>5. QED
          BY <2>4, <3>7, <4>4
      <3>9. CASE l \notin BackedLoc
        <4>1. ChainHas(f, l)'
          BY <3>9 DEF ChainHas
        <4>2. QED
          BY <2>4, <3>7, <4>1
      <3>10. QED
        BY <3>8, <3>9
    <2>7. QED
      BY <2>5, <2>6
  <1>17. NowLeadsBack'
    BY <1>2, <1>16 DEF NowLeadsBack
  <1>18. QED
    BY <1>10, <1>17 DEF JInv

LEMMA LogJInv ==
  ASSUME TypeOK, JInv, Log
  PROVE  JInv'
  <1> DEFINE es == <<LogEvent>>
  <1>1. /\ es \in Seq(Event) /\ Len(es) = 1 /\ es[1].op = "log"
        /\ events' = events \o es /\ frames' = frames /\ gaps' = gaps /\ cur' = cur
    BY EventTypes DEF Log, Emit, LogEvent
  <1> HIDE DEF es
  <1>2. InOrder' /\ PairsLeadBack'
    <2>1. /\ es \in Seq(Event) /\ events' = events \o es
          /\ frames' = frames /\ gaps \subseteq gaps'
      BY <1>1
    <2>2. QED
      BY <2>1, EmitKeepsPairs
  <1>3. Len(events) \in Nat /\ Len(events') = Len(events) + 1
    <2>1. es \in Seq(Event) /\ events' = events \o es /\ Len(es) = 1
      BY <1>1
    <2>2. Len(events) \in Nat /\ Len(events') = Len(events) + Len(es)
      BY <2>1, AppendFacts, Zenon
    <2>3. QED
      BY <2>1, <2>2
  <1>4. \A i \in Nat : Len(events) < i /\ i <= Len(events') => i - Len(events) = 1
    BY <1>3
  <1>5. \A i \in Nat : \A l : Len(events) < i => ~Undoes(i, l)'
    <2>1. \A i \in Nat : \A l : Len(events) < i =>
            (Undoes(i, l)' => /\ i <= Len(events')
                              /\ es[i - Len(events)].op \in {"write", "create"})
      BY <1>1, AppendFacts
    <2>2. QED
      BY <1>1, <1>4, <2>1
  <1>6. \A i \in Nat : \A a : Len(events) < i => ~Creates(i, a)'
    <2>1. \A i \in Nat : \A a : Len(events) < i =>
            (Creates(i, a)' => i <= Len(events') /\ es[i - Len(events)].op = "create")
      BY <1>1, AppendFacts
    <2>2. QED
      BY <1>1, <1>4, <2>1
  <1>7. ASSUME NEW k \in DOMAIN frames, NEW l \in Loc \ gaps
        PROVE  LeadsBack(frames[k], Len(events), Observe(cur)[l], l)' /\ ChainHas(frames[k], l)'
    <2>1. LeadsBack(frames[k], Len(events), Observe(cur)[l], l) /\ ChainHas(frames[k], l)
      BY DEF JInv, NowLeadsBack
    <2>2. frames[k].cp <= Len(events)
      BY DEF JInv, InOrder
    <2>3. PICK f, t : f \in Frame /\ f = frames[k] /\ t = Observe(cur)[l]
      BY FrameTypes
    <2>4. LeadsBack(f, Len(events), t, l)'
      BY <1>1, <1>5, <2>1, <2>2, <2>3, EmitLeadsBack
    <2>5. ChainHas(f, l)'
      BY <1>1, <1>5, <1>6, <2>1, <2>3, EmitChainHas
    <2>6. f = frames'[k] /\ t = Observe(cur)'[l]
      BY <1>1, <2>3
    <2>7. QED
      BY <2>4, <2>5, <2>6
  <1>8. NowLeadsBack'
    BY <1>1, <1>7 DEF NowLeadsBack
  <1>9. QED
    BY <1>2, <1>8 DEF JInv

LEMMA CheckpointJInv ==
  ASSUME TypeOK, JInv, Checkpoint
  PROVE  JInv'
  <1> DEFINE n == Len(frames)
             new == [cp |-> Len(events), snap |-> Observe(cur)]
  <1>1. /\ frames' = Append(frames, new) /\ DOMAIN frames = 1 .. n
        /\ DOMAIN frames' = 1 .. n + 1 /\ n \in Nat /\ Len(events) \in Nat
        /\ events' = events /\ gaps' = gaps /\ cur' = cur
    BY DEF Checkpoint, TypeOK
  <1>2. \A k \in 1 .. n + 1 : frames'[k] = IF k = n + 1 THEN new ELSE frames[k]
    BY <1>1 DEF TypeOK
  <1>3. \A i, l : (Undoes(i, l)' <=> Undoes(i, l)) /\ (Creates(i, l)' <=> Creates(i, l))
    BY <1>1 DEF Undoes, Creates, Since
  <1>4. new.cp = Len(events) /\ new.snap = Observe(cur)
    OBVIOUS
  <1> HIDE DEF new
  <1>5. InOrder'
    BY <1>1, <1>2, <1>4, FrameTypes DEF JInv, InOrder
  <1>6. ASSUME NEW f, NEW hi, NEW t, NEW l, LeadsBack(f, hi, t, l)
        PROVE  LeadsBack(f, hi, t, l)'
    BY <1>1, <1>3, <1>6 DEF LeadsBack, NotMade, FirstUndo
  <1>7. \A k \in 1 .. n : \A l \in Loc \ gaps :
           /\ LeadsBack(frames[k], Len(events), Observe(cur)[l], l)
           /\ ChainHas(frames[k], l)
    BY <1>1 DEF JInv, NowLeadsBack
  <1>8. ASSUME NEW k \in 1 .. n + 1, NEW j \in 1 .. n + 1, NEW l \in Loc \ gaps, k < j
        PROVE  LeadsBack(frames[k], frames[j].cp, frames[j].snap[l], l)'
    <2>1. k \in 1 .. n /\ frames'[k] = frames[k]
      BY <1>1, <1>2, <1>8
    <2>2. PICK f, hi, t : f = frames'[k] /\ hi = frames'[j].cp /\ t = frames'[j].snap[l]
      OBVIOUS
    <2>3. CASE j = n + 1
      <3>1. hi = Len(events) /\ t = Observe(cur)[l]
        BY <1>2, <1>4, <2>2, <2>3
      <3>2. LeadsBack(f, hi, t, l)
        BY <1>7, <2>1, <2>2, <3>1
      <3>3. QED
        BY <1>6, <2>2, <3>2
    <2>4. CASE j # n + 1
      <3>1. j \in 1 .. n /\ frames'[j] = frames[j]
        BY <1>1, <1>2, <2>4
      <3>2. LeadsBack(f, hi, t, l)
        BY <1>1, <1>8, <2>1, <2>2, <3>1 DEF JInv, PairsLeadBack
      <3>3. QED
        BY <1>6, <2>2, <3>2
    <2>5. QED
      BY <2>3, <2>4
  <1>9. ASSUME NEW k \in 1 .. n + 1, NEW l \in Loc \ gaps
        PROVE  LeadsBack(frames[k], Len(events), Observe(cur)[l], l)' /\ ChainHas(frames[k], l)'
    <2>1. PICK f, hi, t : f = frames'[k] /\ hi = Len(events) /\ t = Observe(cur)[l]
      OBVIOUS
    <2>2. CASE k = n + 1
      <3>1. f.cp = hi /\ f.snap[l] = t
        BY <1>2, <1>4, <2>1, <2>2
      <3>2. \A i, m : (Undoes(i, m) => i \in Nat /\ i <= Len(events))
                      /\ (Creates(i, m) => i \in Nat /\ i <= Len(events))
        BY <1>1 DEF Undoes, Creates, Since, TypeOK
      <3>3. \A i \in Nat : \A m : f.cp < i => ~Undoes(i, m)' /\ ~Creates(i, m)'
        BY <1>1, <1>3, <2>1, <3>1, <3>2
      <3>4. LeadsBack(f, hi, t, l)' /\ ChainHas(f, l)'
        BY <3>1, <3>3 DEF LeadsBack, FirstUndo, ChainHas
      <3>5. QED
        BY <1>1, <2>1, <3>4
    <2>3. CASE k # n + 1
      <3>1. k \in 1 .. n /\ frames'[k] = frames[k]
        BY <1>1, <1>2, <2>3
      <3>2. LeadsBack(f, hi, t, l) /\ ChainHas(f, l)
        BY <1>7, <2>1, <3>1
      <3>3. LeadsBack(f, hi, t, l)' /\ ChainHas(f, l)'
        BY <1>1, <1>3, <1>6, <3>2 DEF ChainHas
      <3>4. QED
        BY <1>1, <2>1, <3>3
    <2>4. QED
      BY <2>2, <2>3
  <1>10. PairsLeadBack'
    BY <1>1, <1>8 DEF PairsLeadBack
  <1>11. NowLeadsBack'
    BY <1>1, <1>9 DEF NowLeadsBack
  <1>12. QED
    BY <1>5, <1>10, <1>11 DEF JInv

LEMMA CommitJInv ==
  ASSUME TypeOK, JInv, Commit
  PROVE  JInv'
  <1> DEFINE n == Len(frames)
  <1>1. /\ DOMAIN frames = 1 .. n /\ n \in Nat /\ n # 0
        /\ DOMAIN frames' = 1 .. n - 1
        /\ \A k \in 1 .. n - 1 : frames'[k] = frames[k]
        /\ events' = events /\ gaps' = gaps /\ cur' = cur
    BY DEF Commit, TypeOK
  <1>2. \A i, l : (Undoes(i, l)' <=> Undoes(i, l)) /\ (Creates(i, l)' <=> Creates(i, l))
    BY <1>1 DEF Undoes, Creates, Since
  <1>3. \A k \in 1 .. n - 1 : k \in DOMAIN frames
    BY <1>1
  <1>4. InOrder'
    BY <1>1, <1>3 DEF JInv, InOrder
  <1>5. ASSUME NEW f, NEW hi, NEW t, NEW l
        PROVE  /\ LeadsBack(f, hi, t, l) => LeadsBack(f, hi, t, l)'
               /\ ChainHas(f, l) => ChainHas(f, l)'
    BY <1>1, <1>2 DEF LeadsBack, NotMade, FirstUndo, ChainHas
  <1>6. ASSUME NEW k \in 1 .. n - 1, NEW j \in 1 .. n - 1, NEW l \in Loc \ gaps, k < j
        PROVE  LeadsBack(frames[k], frames[j].cp, frames[j].snap[l], l)'
    <2>1. LeadsBack(frames[k], frames[j].cp, frames[j].snap[l], l)
      BY <1>3, <1>6 DEF JInv, PairsLeadBack
    <2>2. PICK f, hi, t : f = frames[k] /\ hi = frames[j].cp /\ t = frames[j].snap[l]
      OBVIOUS
    <2>3. f = frames'[k] /\ hi = frames'[j].cp /\ t = frames'[j].snap[l]
      BY <1>1, <2>2
    <2>4. QED
      BY <1>5, <2>1, <2>2, <2>3
  <1>7. ASSUME NEW k \in 1 .. n - 1, NEW l \in Loc \ gaps
        PROVE  LeadsBack(frames[k], Len(events), Observe(cur)[l], l)' /\ ChainHas(frames[k], l)'
    <2>1. LeadsBack(frames[k], Len(events), Observe(cur)[l], l) /\ ChainHas(frames[k], l)
      BY <1>3 DEF JInv, NowLeadsBack
    <2>2. PICK f, hi, t : f = frames[k] /\ hi = Len(events) /\ t = Observe(cur)[l]
      OBVIOUS
    <2>3. f = frames'[k] /\ hi = Len(events') /\ t = Observe(cur)'[l]
      BY <1>1, <2>2
    <2>4. QED
      BY <1>5, <2>1, <2>2, <2>3
  <1>8. PairsLeadBack' /\ NowLeadsBack'
    BY <1>1, <1>6, <1>7 DEF PairsLeadBack, NowLeadsBack
  <1>9. QED
    BY <1>4, <1>8 DEF JInv

LEMMA RevertJInv ==
  ASSUME TypeOK, JInv, RevertTo
  PROVE  JInv'
  <1>1. PICK n \in Nat : n = Len(frames)
    BY DEF TypeOK
  <1>2. /\ DOMAIN frames = 1 .. n /\ n # 0 /\ n \in DOMAIN frames
        /\ DOMAIN frames' = 1 .. n - 1
        /\ \A k \in 1 .. n - 1 : frames'[k] = frames[k] /\ k \in DOMAIN frames
        /\ gaps' = gaps
    BY <1>1 DEF RevertTo, TypeOK
  <1>3. PICK cp \in Nat : cp = frames[n].cp
    BY <1>2, FrameTypes
  <1>4. cur' = Rewound(cp) /\ cp <= Len(events)
    BY <1>1, <1>2, <1>3 DEF RevertTo, JInv, InOrder
  <1>5. /\ events' = [i \in DOMAIN events |-> IF i \in Since(cp) THEN Reverted ELSE events[i]]
        /\ DOMAIN events = 1 .. Len(events) /\ DOMAIN events' = 1 .. Len(events)
        /\ Len(events') = Len(events) /\ Len(events) \in Nat
    <2>1. events' = [i \in 1 .. Len(events) |-> IF i \in Since(cp) THEN Reverted ELSE events[i]]
      BY <1>1, <1>3 DEF RevertTo, TypeOK
    <2>2. DOMAIN events = 1 .. Len(events) /\ Len(events) \in Nat
      BY DEF TypeOK
    <2>3. Len(events') = Len(events)
      BY <2>1, <2>2
    <2>4. QED
      BY <2>1, <2>2, <2>3
  <1>6. \A i \in Nat : i <= cp => i \notin Since(cp)
    BY DEF Since
  <1>7. \A i \in 1 .. Len(events) : cp < i => events'[i] = Reverted
    BY <1>5 DEF Since
  <1>8. \A i \in 1 .. Len(events) : i <= cp => events'[i] = events[i]
    BY <1>5, <1>6
  <1>9. \A i, l : /\ (Undoes(i, l)' <=> /\ i \in 1 .. Len(events)
                                        /\ events'[i].op \in {"write", "create"}
                                        /\ events'[i].loc = l)
                  /\ (Undoes(i, l) <=> /\ i \in 1 .. Len(events)
                                       /\ events[i].op \in {"write", "create"}
                                       /\ events[i].loc = l)
    BY <1>5 DEF Undoes, Since
  <1>10. \A i, l : /\ (Creates(i, l)' <=> /\ i \in 1 .. Len(events)
                                          /\ events'[i].op = "create"
                                          /\ events'[i].loc = Field("created", l))
                   /\ (Creates(i, l) <=> /\ i \in 1 .. Len(events)
                                         /\ events[i].op = "create"
                                         /\ events[i].loc = Field("created", l))
    BY <1>5 DEF Creates, Since
  <1>11. \A i \in Nat : \A l : i <= cp => /\ Undoes(i, l)' <=> Undoes(i, l)
                                          /\ Creates(i, l)' <=> Creates(i, l)
                                          /\ Undoes(i, l) => events'[i] = events[i]
    BY <1>8, <1>9, <1>10
  <1>12. \A i \in Nat : \A l : cp < i => ~Undoes(i, l)' /\ ~Creates(i, l)'
    BY <1>7, <1>9, <1>10 DEF Reverted
  <1>13. InOrder'
    BY <1>2, <1>5 DEF JInv, InOrder
  <1>14. \A k \in 1 .. n : frames[k].cp <= cp
    BY <1>2, <1>3, FrameTypes DEF JInv, InOrder
  <1>15. ASSUME NEW k \in 1 .. n - 1, NEW j \in 1 .. n - 1, NEW l \in Loc \ gaps, k < j
         PROVE  LeadsBack(frames[k], frames[j].cp, frames[j].snap[l], l)'
    <2>1. LeadsBack(frames[k], frames[j].cp, frames[j].snap[l], l)
      BY <1>2, <1>15 DEF JInv, PairsLeadBack
    <2>2. PICK f, hi, t :
            /\ f \in Frame /\ hi \in Nat
            /\ f = frames[k] /\ hi = frames[j].cp /\ t = frames[j].snap[l]
      BY <1>2, FrameTypes
    <2>3. hi <= cp
      BY <1>14, <2>2
    <2>4. \A i \in Nat : i <= hi => i <= cp
      BY <2>2, <2>3
    <2>5. LeadsBack(f, hi, t, l)'
      BY <1>11, <2>1, <2>2, <2>4, SamePast
    <2>6. f = frames'[k] /\ hi = frames'[j].cp /\ t = frames'[j].snap[l]
      BY <1>2, <2>2
    <2>7. QED
      BY <2>5, <2>6
  <1>16. ASSUME NEW l \in Loc \ gaps
         PROVE  Observe(cur)'[l] = frames[n].snap[l]
    <2>1. Restores(n, l)
      BY <1>2, JInvRestores DEF RewindRestores
    <2>2. Observe(cur)' = Observe(Rewound(cp))
      BY <1>4 DEF Observe
    <2>3. QED
      BY <1>3, <2>1, <2>2 DEF Restores
  <1>17. ASSUME NEW k \in 1 .. n - 1, NEW l \in Loc \ gaps
         PROVE  LeadsBack(frames[k], Len(events), Observe(cur)[l], l)'
    <2>1. LeadsBack(frames[k], frames[n].cp, frames[n].snap[l], l)
      BY <1>2 DEF JInv, PairsLeadBack
    <2>2. PICK f, hi, t :
            f \in Frame /\ hi \in Nat /\ f = frames[k] /\ hi = Len(events) /\ t = frames[n].snap[l]
      BY <1>2, <1>5, FrameTypes
    <2>3. LeadsBack(f, cp, t, l)'
      BY <1>3, <1>11, <2>1, <2>2, SamePast
    <2>4. f.cp <= cp /\ f.cp \in Nat
      BY <1>2, <1>14, <2>2 DEF Frame
    <2>5. NotMade(f, hi, l)' => NotMade(f, cp, l)'
      BY <1>4, <2>2 DEF NotMade
    <2>6. \A i \in Nat : FirstUndo(f, i, l)' => i <= cp
      BY <1>12 DEF FirstUndo
    <2>7. \A i \in Nat : i <= cp => i <= hi
      BY <1>4, <2>2
    <2>8. LeadsBack(f, hi, t, l)'
      BY <2>3, <2>5, <2>6, <2>7 DEF LeadsBack
    <2>9. f = frames'[k] /\ hi = Len(events') /\ t = Observe(cur)'[l]
      BY <1>2, <1>5, <1>16, <2>2
    <2>10. QED
      BY <2>8, <2>9
  <1>18. ASSUME NEW k \in 1 .. n - 1, NEW l \in Loc \ gaps
         PROVE  ChainHas(frames[k], l)'
    <2>1. ChainHas(frames[k], l)
      BY <1>2 DEF JInv, NowLeadsBack
    <2>2. PICK f \in Frame : f = frames[k]
      BY <1>2, FrameTypes
    <2>3. f.cp <= cp /\ f.cp \in Nat
      BY <1>2, <1>14, <2>2 DEF Frame
    <2>4. \A i \in Nat : \A m : /\ Creates(i, m)' => Creates(i, m)
                                /\ Undoes(i, m)' => Undoes(i, m)
      BY <1>11, <1>12
    <2>5. l \in BackedLoc /\ cur'[l] = Absent =>
            cur[l] = Absent \/ \E i \in Nat : f.cp < i /\ Creates(i, l.acc)
      <3>1. l \in BackedLoc => (Rewound(cp)[l] = Absent
                                  <=> CreatedSince(cp, l.acc) \/ cur[l] = Absent)
        BY RewoundType
      <3>2. CreatedSince(cp, l.acc) => \E i \in Nat : cp < i /\ Creates(i, l.acc)
        BY <1>5 DEF CreatedSince, Creates, Since
      <3>3. \A i \in Nat : cp < i => f.cp < i
        BY <2>3
      <3>4. QED
        BY <1>4, <3>1, <3>2, <3>3
    <2>6. ChainHas(f, l)'
      BY <2>1, <2>2, <2>4, <2>5 DEF ChainHas
    <2>7. QED
      BY <1>2, <2>2, <2>6
  <1>19. PairsLeadBack' /\ NowLeadsBack'
    BY <1>2, <1>15, <1>17, <1>18 DEF PairsLeadBack, NowLeadsBack
  <1>20. QED
    BY <1>13, <1>19 DEF JInv

LEMMA StepJInv ==
  ASSUME TypeOK, JInv, [Next]_vars
  PROVE  JInv'
  <1>1. ASSUME NEW a \in Acc, Merge(a) PROVE JInv'
    <2>1. \A l \in Loc : l \in EntryOf(a) /\ l.kind \in AccountKind =>
                           l \in BackedLoc \ SlotLoc /\ cur[l] = Absent
      <3>1. \A k \in AccountKind : cur[Field(k, a)] = Absent
        BY <1>1 DEF Merge, TypeOK
      <3>2. QED
        BY <3>1, LocFacts, FieldFacts DEF EntryOf
    <2>2. \A l \in Loc : cur'[l] = IF l \in EntryOf(a) /\ l.kind \in AccountKind
                                   THEN Chain[l] ELSE cur[l]
      BY <1>1 DEF Merge
    <2>3. \A l \in Loc : Observe(cur)'[l] = Observe(cur)[l]
      BY <2>1, <2>2 DEF Observe
    <2>4. \A l \in Loc : cur'[l] = Absent => cur[l] = Absent
      BY <2>1, <2>2
    <2>5. QED
      BY <1>1, <2>3, <2>4, QuietKeepsJInv DEF Merge
  <1>2. ASSUME NEW a \in Acc, IncNonce(a) PROVE JInv'
    <2> DEFINE m == Field("nonce", a)
    <2>1. m \in Loc /\ cur[m] # Absent /\ cur[m] \in Val
      BY <1>2, LocFacts DEF IncNonce, TypeOK, AccountKind
    <2>2. cur[m] + 1 \in Val
      BY <1>2, <2>1 DEF IncNonce, Val
    <2>3. QED
      BY <1>2, <2>1, <2>2, WriteJInv DEF IncNonce
  <1>3. ASSUME NEW a \in Acc, Create(a) PROVE JInv'
    BY <1>3, CreateJInv
  <1>4. ASSUME NEW a \in Acc, Destroy(a) PROVE JInv'
    <2>1. Field("destroyed", a) \in TxLoc
      BY LocFacts DEF MarkKind
    <2>2. Field("destroyed", a) \in Loc /\ cur[Field("destroyed", a)] # Absent
      BY <2>1, LocFacts DEF TypeOK
    <2>3. QED
      BY <1>4, <2>2, WriteJInv, SmallValues DEF Destroy
  <1>5. ASSUME NEW a \in Acc, NEW v \in Input["value"], SetValue(a, v) PROVE JInv'
    <2> DEFINE m == Field("value", a)
    <2>1. m \in Loc /\ cur[m] # Absent /\ cur[m] \in Val /\ v \in Val
      BY <1>5, LocFacts DEF SetValue, TypeOK, Cached, AccountKind
    <2>2. QED
      BY <1>5, <2>1, WriteJInv DEF SetValue
  <1>6. ASSUME NEW a \in Acc, NEW v \in Input["code"], SetCode(a, v) PROVE JInv'
    <2> DEFINE m == Field("code", a)
    <2>1. m \in Loc /\ cur[m] # Absent /\ v \in Val
      BY <1>6, LocFacts DEF SetCode, TypeOK, AccountKind
    <2>2. QED
      BY <1>6, <2>1, WriteJInv, SmallValues DEF SetCode
  <1>7. ASSUME NEW a \in Acc, NEW k \in Key, InitSlot(a, k) PROVE JInv'
    <2> DEFINE m == Cell("store", a, k)
    <2>1. m \in SlotLoc /\ m \in BackedLoc /\ cur[m] = Absent /\ cur' = [cur EXCEPT ![m] = Chain[m]]
      BY <1>7, LocFacts DEF InitSlot
    <2>2. \A l \in Loc : cur'[l] = IF l = m THEN Chain[m] ELSE cur[l]
      BY <2>1 DEF TypeOK
    <2> HIDE DEF m
    <2>3. \A l \in Loc : Observe(cur)'[l] = Observe(cur)[l]
      BY <2>1, <2>2 DEF Observe
    <2>4. \A l \in Loc : cur'[l] = Absent => cur[l] = Absent
      BY <2>1, <2>2
    <2>5. QED
      BY <1>7, <2>3, <2>4, QuietKeepsJInv DEF InitSlot
  <1>8. ASSUME NEW a \in Acc, NEW k \in Key, NEW v \in Input["store"], Put(a, k, v) PROVE JInv'
    <2> DEFINE m == Cell("store", a, k)
    <2>1. m \in Loc /\ cur[m] # Absent /\ cur[m] \in Val /\ v \in Val
      BY <1>8, LocFacts DEF Put, TypeOK
    <2>2. QED
      BY <1>8, <2>1, WriteJInv DEF Put
  <1>9. ASSUME NEW a \in Acc, NEW k \in Key, NEW v \in Input["temp"], TPut(a, k, v) PROVE JInv'
    <2> DEFINE m == Cell("temp", a, k)
    <2>1. m \in Loc /\ cur[m] # Absent /\ cur[m] \in Val /\ v \in Val
      BY LocFacts DEF TypeOK
    <2>2. QED
      BY <1>9, <2>1, WriteJInv DEF TPut
  <1>10. ASSUME NEW l \in Touched, Warm(l) PROVE JInv'
    <2>1. l \in Loc /\ cur[l] # Absent
      BY LocFacts DEF TypeOK
    <2>2. QED
      BY <1>10, <2>1, WriteJInv, SmallValues DEF Warm
  <1>11. ASSUME Apply PROVE JInv'
    <2>1. frames' = <<>>
      BY <1>11 DEF Apply
    <2>2. QED
      BY <2>1, NoFramesJInv
  <1>12. ASSUME Reset \/ Purge PROVE JInv'
    <2>1. frames' = <<>>
      BY <1>12 DEF Reset, Purge
    <2>2. QED
      BY <2>1, NoFramesJInv
  <1>13. ASSUME UNCHANGED vars PROVE JInv'
    BY <1>13, QuietKeepsJInv DEF vars, Observe
  <1>14. QED
    BY <1>1, <1>2, <1>3, <1>4, <1>5, <1>6, <1>7, <1>8, <1>9, <1>10, <1>11, <1>12,
       <1>13, LogJInv, CheckpointJInv, CommitJInv, RevertJInv DEF Next

\* A return to any open checkpoint brings back the state seen there, at every
\* location no event overwrote unrecorded, for all accounts, keys, values,
\* depths of nesting and lengths of the journal.
THEOREM RewindCorrect == Spec => []RewindRestores
  <1>1. Init => TypeOK /\ JInv
    <2>1. Init => frames = <<>>
      BY DEF Init
    <2>2. QED
      BY <2>1, InitType, NoFramesJInv
  <1>2. TypeOK /\ JInv /\ [Next]_vars => (TypeOK /\ JInv)'
    BY StepType, StepJInv
  <1>3. TypeOK /\ JInv => RewindRestores
    BY JInvRestores
  <1>4. QED
    BY <1>1, <1>2, <1>3, PTL DEF Spec

----------------------------------------------------------------------------
(* What the marks of a transaction say about the accounts.  An account is  *)
(* created only where there was none, and no step but a revert or the      *)
(* deletion at the end makes an account blank again; so whatever was       *)
(* created, destroyed or overwritten unrecorded was blank when the         *)
(* transaction began, and so was every slot the chain is asked for again.  *)

\* The address a has neither nonce nor code in the state s.
Blank(s, a) == s[Field("nonce", a)] = 0 /\ s[Field("code", a)] = 0

\* What is blank in t was blank in s.
Grows(s, t) == \A a \in Acc : Blank(t, a) => Blank(s, a)

\* A blank address was not created in this transaction, and its storage is the
\* chain's.
Unused(s) ==
  \A a \in Acc : Blank(s, a) =>
    /\ s[Field("created", a)] = 0
    /\ \A k \in Key : s[Cell("store", a, k)] = Chain[Cell("store", a, k)]

\* A state of this transaction: what it created was blank when it began.
Sound(s) ==
  /\ Grows(base, s) /\ Unused(s)
  /\ \A a \in Acc : s[Field("created", a)] # 0 => Blank(base, a)

StatesSound ==
  /\ Grows(Chain, base) /\ Unused(base)
  /\ Sound(Observe(cur))
  /\ \A k \in DOMAIN frames : Sound(frames[k].snap) /\ Grows(frames[k].snap, Observe(cur))
  /\ \A k, j \in DOMAIN frames : k < j => Grows(frames[k].snap, frames[j].snap)
  /\ applied => frames = <<>>

\* The events of creations and self-destructions that were not reverted.
CreatesAt(i, a)  == events[i].op = "create" /\ events[i].loc = Field("created", a)
DestroysAt(i, a) == events[i].op = "write" /\ events[i].loc = Field("destroyed", a)

EventsFit ==
  \A i \in DOMAIN events, a \in Acc :
    /\ CreatesAt(i, a) => Blank(base, a)
    /\ DestroysAt(i, a) => events[i].prev = 0
    /\ events[i].op = "write" => events[i].loc # Field("created", a)
    /\ events[i].op = "create" => events[i].loc # Field("destroyed", a)

\* A mark of destruction has an event after any of the creation, so a revert
\* that takes the creation back takes the mark back too.
MarksHaveEvents ==
  \A a \in Acc : Marked("destroyed", a) =>
    /\ Marked("created", a)
    /\ \E j \in DOMAIN events :
         DestroysAt(j, a) /\ \A i \in DOMAIN events : CreatesAt(i, a) => i < j

\* A slot the cache does not hold was the chain's at the start as well.
SlotsKnown ==
  ~applied => \A l \in SlotLoc : /\ cur[l] = Absent => base[l] = Chain[l]
                                 /\ orig[l] # Absent => orig[l] = base[l]

\* The inductive invariant.
EntryInv ==
  StatesSound /\ GapsAreKnown /\ EventsFit /\ MarksHaveEvents /\ SlotsKnown

----------------------------------------------------------------------------
(* Locations of an account.                                                *)

LEMMA Kinds ==
  ASSUME NEW a \in Acc, NEW k \in Key
  PROVE  /\ Field("nonce", a) \in BackedLoc /\ Field("nonce", a).kind = "nonce"
         /\ Field("code", a) \in BackedLoc /\ Field("code", a).kind = "code"
         /\ Field("value", a) \in BackedLoc /\ Field("value", a).kind = "value"
         /\ Field("created", a) \in TxLoc /\ Field("created", a).kind = "created"
         /\ Field("destroyed", a) \in TxLoc /\ Field("destroyed", a).kind = "destroyed"
         /\ Cell("store", a, k) \in BackedLoc /\ Cell("store", a, k).kind = "store"
         /\ Field("nonce", a).acc = a /\ Field("code", a).acc = a
         /\ Field("value", a).acc = a /\ Field("created", a).acc = a
         /\ Field("destroyed", a).acc = a /\ Cell("store", a, k).acc = a
BY LocFacts, FieldFacts DEF AccountKind, MarkKind

LEMMA FieldKinds ==
  ASSUME NEW a \in Acc
  PROVE  /\ Field("nonce", a) \in BackedLoc /\ Field("nonce", a).kind = "nonce"
         /\ Field("code", a) \in BackedLoc /\ Field("code", a).kind = "code"
         /\ Field("value", a) \in BackedLoc /\ Field("value", a).kind = "value"
         /\ Field("created", a) \in TxLoc /\ Field("created", a).kind = "created"
         /\ Field("destroyed", a) \in TxLoc /\ Field("destroyed", a).kind = "destroyed"
         /\ Field("nonce", a).acc = a /\ Field("code", a).acc = a
         /\ Field("value", a).acc = a /\ Field("created", a).acc = a
         /\ Field("destroyed", a).acc = a
         /\ Field("nonce", a) \in Loc /\ Field("code", a) \in Loc
         /\ Field("created", a) \in Loc
BY LocFacts, FieldFacts DEF AccountKind, MarkKind

LEMMA SlotCell ==
  \A l \in SlotLoc : \E k \in Key : l = Cell("store", l.acc, k)
BY DEF SlotLoc, Cell

LEMMA GrowsOn ==
  ASSUME NEW s, NEW t, NEW u, Grows(s, t), Grows(t, u)
  PROVE  Grows(s, u)
BY DEF Grows

\* States that agree where no gap can be.
LEMMA SoundAlike ==
  ASSUME NEW s, NEW t, Sound(s),
         \A l \in Loc : l.kind \notin {"value", "destroyed"} => t[l] = s[l]
  PROVE  Sound(t) /\ Grows(s, t)
<1>1. \A a \in Acc : /\ t[Field("nonce", a)] = s[Field("nonce", a)]
                     /\ t[Field("code", a)] = s[Field("code", a)]
                     /\ t[Field("created", a)] = s[Field("created", a)]
  BY FieldKinds
<1>2. \A a \in Acc, k \in Key : t[Cell("store", a, k)] = s[Cell("store", a, k)]
  BY Kinds, LocFacts
<1>3. \A a \in Acc : Blank(t, a) <=> Blank(s, a)
  BY <1>1 DEF Blank
<1> QED BY <1>1, <1>2, <1>3 DEF Sound, Unused, Grows

\* A step that leaves the checkpoints and the start alone.
LEMMA StatesStep ==
  ASSUME StatesSound, frames' = frames, base' = base, applied' = applied,
         Grows(Observe(cur), Observe(cur)'), Unused(Observe(cur)'),
         \A a \in Acc : Observe(cur)'[Field("created", a)] # 0 => Blank(base, a)
  PROVE  StatesSound'
<1>1. Sound(Observe(cur))'
  <2>1. Grows(base, Observe(cur)')
    BY GrowsOn DEF StatesSound, Sound
  <2> QED BY <2>1 DEF Sound, Unused, Grows, Blank
<1>2. \A k \in DOMAIN frames : Grows(frames[k].snap, Observe(cur)')
  BY GrowsOn DEF StatesSound
<1>3. \A k \in DOMAIN frames : Sound(frames[k].snap)'
  BY DEF StatesSound, Sound, Unused, Grows, Blank
<1> QED BY <1>1, <1>2, <1>3 DEF StatesSound, Unused, Grows, Blank

\* A step after which everything looks the same.
LEMMA SameStates ==
  ASSUME StatesSound, UNCHANGED <<frames, base, applied>>,
         \A l \in Loc : Observe(cur)'[l] = Observe(cur)[l]
  PROVE  StatesSound'
<1>1. Sound(Observe(cur)) /\ \A l \in Loc : Observe(cur)'[l] = Observe(cur)[l]
  BY DEF StatesSound
<1>2. PICK s, t : s = Observe(cur) /\ t = Observe(cur)'
  OBVIOUS
<1>3. Sound(t) /\ Grows(s, t)
  BY <1>1, <1>2, SoundAlike
<1> QED BY <1>2, <1>3, StatesStep DEF Sound

----------------------------------------------------------------------------
(* Events.                                                                 *)

LEMMA Emitted ==
  ASSUME TypeOK, NEW es \in Seq(Event), events' = events \o es
  PROVE  /\ Len(events) \in Nat /\ DOMAIN events = 1 .. Len(events)
         /\ DOMAIN events' = 1 .. Len(events) + Len(es)
         /\ \A i \in DOMAIN events : i \in DOMAIN events' /\ events'[i] = events[i]
         /\ \A i \in DOMAIN events' \ DOMAIN events :
              /\ i > Len(events) /\ i - Len(events) \in 1 .. Len(es)
              /\ events'[i] = es[i - Len(events)]
<1>1. events \in Seq(Event)
  BY DEF TypeOK
<1> QED BY <1>1

\* New events that fit, and the marks, which do not change.
LEMMA EventsStep ==
  ASSUME TypeOK, EventsFit, base' = base,
         NEW es \in Seq(Event), events' = events \o es,
         \A n \in 1 .. Len(es), a \in Acc :
           /\ es[n].op = "create" /\ es[n].loc = Field("created", a) => Blank(base, a)
           /\ es[n].op = "write" /\ es[n].loc = Field("destroyed", a) => es[n].prev = 0
           /\ es[n].op = "write" => es[n].loc # Field("created", a)
           /\ es[n].op = "create" => es[n].loc # Field("destroyed", a)
  PROVE  EventsFit'
<1> SUFFICES ASSUME NEW i \in DOMAIN events', NEW a \in Acc
             PROVE  /\ CreatesAt(i, a)' => Blank(base, a)
                    /\ DestroysAt(i, a)' => events'[i].prev = 0
                    /\ events'[i].op = "write" => events'[i].loc # Field("created", a)
                    /\ events'[i].op = "create" => events'[i].loc # Field("destroyed", a)
  BY DEF EventsFit, Blank
<1>1. CASE i \in DOMAIN events
  BY <1>1, Emitted DEF EventsFit, CreatesAt, DestroysAt
<1>2. CASE i \notin DOMAIN events
  <2>1. PICK n \in 1 .. Len(es) : events'[i] = es[n]
    BY <1>2, Emitted
  <2> QED BY <2>1 DEF CreatesAt, DestroysAt
<1> QED BY <1>1, <1>2

LEMMA MarksStep ==
  ASSUME TypeOK, MarksHaveEvents, NEW es \in Seq(Event), events' = events \o es,
         \A n \in 1 .. Len(es) : es[n].op # "create",
         \A a \in Acc : /\ cur'[Field("created", a)] = cur[Field("created", a)]
                        /\ cur'[Field("destroyed", a)] = cur[Field("destroyed", a)]
  PROVE  MarksHaveEvents'
<1> SUFFICES ASSUME NEW a \in Acc, Marked("destroyed", a)'
             PROVE  /\ Marked("created", a)'
                    /\ \E j \in DOMAIN events' :
                         /\ DestroysAt(j, a)'
                         /\ \A i \in DOMAIN events' : CreatesAt(i, a)' => i < j
  BY DEF MarksHaveEvents
<1>1. Marked("destroyed", a) /\ (Marked("created", a) => Marked("created", a)')
  BY DEF Marked
<1>2. PICK j \in DOMAIN events :
        DestroysAt(j, a) /\ \A i \in DOMAIN events : CreatesAt(i, a) => i < j
  BY <1>1 DEF MarksHaveEvents
<1>3. j \in DOMAIN events' /\ DestroysAt(j, a)'
  BY <1>2, Emitted DEF DestroysAt
<1>4. ASSUME NEW i \in DOMAIN events', CreatesAt(i, a)' PROVE i < j
  <2>1. i \in DOMAIN events
    <3> SUFFICES ASSUME i \notin DOMAIN events PROVE FALSE
      OBVIOUS
    <3>1. PICK n \in 1 .. Len(es) : events'[i] = es[n]
      BY Emitted
    <3> QED BY <1>4, <3>1 DEF CreatesAt
  <2>2. CreatesAt(i, a)
    BY <1>4, <2>1, Emitted DEF CreatesAt
  <2> QED BY <1>2, <2>1, <2>2
<1> QED BY <1>1, <1>3, <1>4 DEF MarksHaveEvents
----------------------------------------------------------------------------
(* The actions.                                                            *)

\* Nothing is journaled and nothing looks different: a read filled the cache.
LEMMA FillEntry ==
  ASSUME TypeOK, EntryInv, UNCHANGED <<events, frames, base, gaps, applied>>,
         \A l \in Loc : Observe(cur)'[l] = Observe(cur)[l],
         \A l \in TxLoc : cur'[l] = cur[l],
         SlotsKnown'
  PROVE  EntryInv'
<1>1. StatesSound'
  BY SameStates DEF EntryInv
<1>2. GapsAreKnown'
  BY DEF EntryInv, GapsAreKnown
<1>3. EventsFit'
  BY DEF EntryInv, EventsFit, CreatesAt, DestroysAt, Blank
<1>4. \A a \in Acc : /\ Marked("destroyed", a)' <=> Marked("destroyed", a)
                     /\ Marked("created", a)' <=> Marked("created", a)
  BY FieldKinds DEF Marked
<1>5. MarksHaveEvents'
  BY <1>4 DEF EntryInv, MarksHaveEvents, CreatesAt, DestroysAt
<1> QED BY <1>1, <1>2, <1>3, <1>5 DEF EntryInv

LEMMA WriteSees ==
  ASSUME TypeOK, NEW w \in Loc, NEW v \in Val, NEW p \in Val, cur[w] # Absent, Write(w, v, p)
  PROVE  /\ \A l \in Loc : cur'[l] = IF l = w THEN v ELSE cur[l]
         /\ \A l \in Loc : Observe(cur)'[l] = IF l = w THEN v ELSE Observe(cur)[l]
         /\ Observe(cur)[w] = cur[w]
<1>1. \A l \in Loc : cur'[l] = IF l = w THEN v ELSE cur[l]
  BY DEF Write, TypeOK
<1>2. v # Absent
  BY JournalAssumption
<1> QED BY <1>1, <1>2 DEF Observe

\* A journaled write: it makes no address blank, and no blank address gets
\* storage; what it does not record is the mark of a created account.
LEMMA WriteEntry ==
  ASSUME TypeOK, EntryInv, NEW w \in Loc, NEW v \in Val, NEW p \in Val,
         cur[w] # Absent, Write(w, v, p),
         w.kind # "created",
         w.kind = "nonce" => v # 0,
         w.kind = "code" => v # 0 \/ Observe(cur)[Field("nonce", w.acc)] # 0,
         w.kind = "store" => ~Blank(Observe(cur), w.acc),
         p # cur[w] => w.kind = "destroyed" \/ frames = <<>>,
         w.kind = "destroyed" => p = 0 /\ Marked("created", w.acc)
  PROVE  EntryInv'
<1>1. PICK s, t : s = Observe(cur) /\ t = Observe(cur)'
  OBVIOUS
<1>2. \A l \in Loc : t[l] = IF l = w THEN v ELSE s[l]
  BY <1>1, WriteSees
<1>3. w.acc \in Acc /\ Sound(s)
  BY <1>1, LocFacts DEF EntryInv, StatesSound
<1>4. ASSUME NEW a \in Acc, Blank(t, a)
      PROVE  Blank(s, a)
  <2>1. t[Field("nonce", a)] = s[Field("nonce", a)]
    BY <1>2, <1>4, FieldKinds DEF Blank
  <2>2. t[Field("code", a)] = s[Field("code", a)]
    BY <1>1, <1>2, <1>4, <2>1, FieldKinds DEF Blank
  <2> QED BY <1>4, <2>1, <2>2 DEF Blank
<1>5. \A a \in Acc : t[Field("created", a)] = s[Field("created", a)]
  BY <1>2, FieldKinds
<1>6. ASSUME NEW a \in Acc, Blank(s, a), NEW k \in Key
      PROVE  t[Cell("store", a, k)] = s[Cell("store", a, k)]
  BY <1>1, <1>2, <1>6, Kinds, LocFacts
<1>7. Grows(s, t)
  BY <1>4 DEF Grows
<1>8. Unused(t)
  BY <1>3, <1>4, <1>5, <1>6 DEF Unused, Sound
<1>9. /\ frames' = frames /\ base' = base /\ applied' = applied /\ orig' = orig
      /\ Emit(<<Wrote(w, p)>>, IF p = cur[w] THEN {} ELSE {w})
  BY DEF Write
<1>10. StatesSound'
  <2>1. \A a \in Acc : t[Field("created", a)] # 0 => Blank(base, a)
    BY <1>3, <1>5 DEF Sound
  <2> QED BY <1>1, <1>7, <1>8, <1>9, <2>1, StatesStep DEF EntryInv
<1>11. GapsAreKnown'
  <2>1. ASSUME p # cur[w], frames # <<>>
        PROVE  w.kind = "destroyed" /\ Blank(base, w.acc)
    <3>1. w.kind = "destroyed" /\ Marked("created", w.acc)
      BY <2>1
    <3>2. cur[Field("created", w.acc)] = 1 /\ Field("created", w.acc) \in TxLoc
      BY <1>3, <3>1, FieldKinds DEF Marked
    <3>3. s[Field("created", w.acc)] = 1
      BY <1>1, <3>2, LocFacts DEF Observe
    <3> QED BY <1>3, <3>1, <3>3 DEF Sound
  <2>2. \/ gaps' = gaps
        \/ p # cur[w] /\ frames # <<>> /\ gaps' = gaps \cup {w}
    BY <1>9 DEF Emit
  <2> QED BY <1>9, <2>1, <2>2 DEF EntryInv, GapsAreKnown, Blank
<1>12. /\ <<Wrote(w, p)>> \in Seq(Event) /\ Len(<<Wrote(w, p)>>) = 1
       /\ events' = events \o <<Wrote(w, p)>>
       /\ <<Wrote(w, p)>>[1].op = "write" /\ <<Wrote(w, p)>>[1].loc = w
       /\ <<Wrote(w, p)>>[1].prev = p
  BY <1>9, EventTypes DEF Emit, Wrote
<1>13. EventsFit'
  <2>1. \A a \in Acc : /\ w # Field("created", a)
                       /\ w = Field("destroyed", a) => p = 0
    BY FieldKinds
  <2>2. PICK es : es = <<Wrote(w, p)>>
    OBVIOUS
  <2>3. \A n \in 1 .. Len(es) : n = 1
    BY <1>12, <2>2
  <2> QED BY <1>9, <1>12, <2>1, <2>2, <2>3, EventsStep DEF EntryInv
<1>14. MarksHaveEvents'
  <2> SUFFICES ASSUME NEW a \in Acc, Marked("destroyed", a)'
               PROVE  /\ Marked("created", a)'
                      /\ \E j \in DOMAIN events' :
                           /\ DestroysAt(j, a)'
                           /\ \A i \in DOMAIN events' : CreatesAt(i, a)' => i < j
    BY DEF MarksHaveEvents
  <2>1. PICK es : es = <<Wrote(w, p)>>
    OBVIOUS
  <2>2. /\ es \in Seq(Event) /\ Len(es) = 1 /\ es[1].op = "write" /\ es[1].loc = w
        /\ events' = events \o es
    BY <1>12, <2>1
  <2>3. /\ Len(events) \in Nat /\ DOMAIN events = 1 .. Len(events)
        /\ DOMAIN events' = 1 .. Len(events) + 1
        /\ \A i \in DOMAIN events : i \in DOMAIN events' /\ events'[i] = events[i]
        /\ \A i \in DOMAIN events' \ DOMAIN events :
             i = Len(events) + 1 /\ events'[i] = es[1]
    <3>1. \A i \in DOMAIN events' \ DOMAIN events :
            /\ i > Len(events) /\ i - Len(events) \in 1 .. Len(es)
            /\ events'[i] = es[i - Len(events)]
      BY <2>2, Emitted
    <3>2. /\ Len(events) \in Nat /\ DOMAIN events = 1 .. Len(events)
          /\ DOMAIN events' = 1 .. Len(events) + 1
          /\ \A i \in DOMAIN events : i \in DOMAIN events' /\ events'[i] = events[i]
      BY <2>2, Emitted
    <3>3. \A i \in DOMAIN events' : i \in Int
      BY <3>2
    <3>4. \A i \in DOMAIN events' \ DOMAIN events : i - Len(events) = 1 /\ i = Len(events) + 1
      BY <2>2, <3>1, <3>2, <3>3
    <3> QED BY <3>1, <3>2, <3>4
  <2>4. Len(events) + 1 \in DOMAIN events' /\ Len(events) + 1 \notin DOMAIN events
    BY <2>3
  <2>5. \A i \in DOMAIN events' : CreatesAt(i, a)' => i \in DOMAIN events /\ CreatesAt(i, a)
    BY <2>2, <2>3 DEF CreatesAt
  <2>6. Marked("created", a)' <=> Marked("created", a)
    BY WriteSees, FieldKinds DEF Marked
  <2>7. CASE w = Field("destroyed", a)
    <3>1. Marked("created", a)'
      BY <2>6, <2>7, FieldKinds
    <3>2. PICK j : j = Len(events) + 1
      OBVIOUS
    <3>3. j \in DOMAIN events' \ DOMAIN events
      BY <2>4, <3>2
    <3>4. DestroysAt(j, a)'
      BY <2>2, <2>3, <2>7, <3>3 DEF DestroysAt
    <3>5. \A i \in DOMAIN events' : CreatesAt(i, a)' => i < j
      BY <2>3, <2>5, <3>2
    <3> QED BY <3>1, <3>3, <3>4, <3>5
  <2>8. CASE w # Field("destroyed", a)
    <3>1. Marked("destroyed", a)
      BY <2>8, WriteSees, FieldKinds, LocFacts DEF Marked
    <3>2. PICK j \in DOMAIN events :
            DestroysAt(j, a) /\ \A i \in DOMAIN events : CreatesAt(i, a) => i < j
      BY <3>1 DEF EntryInv, MarksHaveEvents
    <3>3. j \in DOMAIN events' /\ DestroysAt(j, a)'
      BY <2>3, <3>2 DEF DestroysAt
    <3>4. Marked("created", a)'
      BY <2>6, <3>1 DEF EntryInv, MarksHaveEvents
    <3> QED BY <2>5, <3>2, <3>3, <3>4
  <2> QED BY <2>7, <2>8
<1>15. SlotsKnown'
  <2>1. \A l \in SlotLoc : cur'[l] = Absent => cur[l] = Absent
    BY WriteSees, LocFacts, JournalAssumption
  <2> QED BY <1>9, <2>1 DEF EntryInv, SlotsKnown
<1> QED BY <1>10, <1>11, <1>13, <1>14, <1>15 DEF EntryInv

\* The events of a create.
LEMMA CreateEvents ==
  ASSUME TypeOK, NEW a \in Acc, Create(a)
  PROVE  \E es \in Seq(Event) :
           /\ events' = events \o es
           /\ \A n \in 1 .. Len(es) :
                \/ es[n].op = "write" /\ es[n].loc = Field("nonce", a)
                \/ es[n].op = "write" /\ es[n].loc = Field("value", a)
                \/ es[n].op = "create" /\ es[n].loc = Field("created", a)
<1> DEFINE v  == cur[Field("value", a)]
           es == (<<Wrote(Field("nonce", a), 0)>>
                   \o (IF v = 0 THEN <<>> ELSE <<Wrote(Field("value", a), 0)>>))
                   \o <<CreatedEvent(a)>>
<1>1. /\ Wrote(Field("nonce", a), 0) \in Event /\ Wrote(Field("value", a), 0) \in Event
      /\ CreatedEvent(a) \in Event
  BY EventTypes, SmallValues, LocFacts DEF AccountKind
<1>2. \/ es = <<Wrote(Field("nonce", a), 0), CreatedEvent(a)>>
      \/ es = <<Wrote(Field("nonce", a), 0), Wrote(Field("value", a), 0), CreatedEvent(a)>>
  BY <1>1, Triples
<1>3. events' = events \o es
  BY DEF Create, Emit
<1>4. /\ \A l : Wrote(l, 0).op = "write" /\ Wrote(l, 0).loc = l
      /\ CreatedEvent(a).op = "create" /\ CreatedEvent(a).loc = Field("created", a)
  BY DEF Wrote, CreatedEvent
<1>5. es \in Seq(Event)
  BY <1>1, <1>2
<1>6. \A n \in 1 .. Len(es) : \/ es[n] = Wrote(Field("nonce", a), 0)
                             \/ es[n] = Wrote(Field("value", a), 0)
                             \/ es[n] = CreatedEvent(a)
  BY <1>2
<1> HIDE DEF es
<1>7. \A n \in 1 .. Len(es) :
        \/ es[n].op = "write" /\ es[n].loc = Field("nonce", a)
        \/ es[n].op = "write" /\ es[n].loc = Field("value", a)
        \/ es[n].op = "create" /\ es[n].loc = Field("created", a)
  BY <1>4, <1>6
<1> QED BY <1>3, <1>5, <1>7

\* A create replaces a blank entry.
LEMMA CreateEntry ==
  ASSUME TypeOK, EntryInv, NEW a \in Acc, Create(a)
  PROVE  EntryInv'
<1>1. PICK s, t : s = Observe(cur) /\ t = Observe(cur)'
  OBVIOUS
<1>2. cur[Field("nonce", a)] = 0 /\ cur[Field("code", a)] = 0 /\ frames # <<>> /\ ~applied
  BY DEF Create
<1>3. Blank(s, a)
  BY <1>1, <1>2, FieldKinds, JournalAssumption, SmallValues DEF Observe, Blank
<1>4. \A l \in Loc : cur'[l] = CASE l = Field("created", a)      -> 1
                                 [] l = Field("nonce", a)        -> 1
                                 [] l \in SlotLoc /\ l.acc = a   -> Absent
                                 [] OTHER                        -> cur[l]
  <2>1. \A l \in Loc : l \in EntryOf(a) /\ l.kind = "store" <=> l \in SlotLoc /\ l.acc = a
    BY LocFacts, FieldFacts DEF EntryOf
  <2> QED BY <2>1 DEF Create
<1>5. /\ t[Field("nonce", a)] = 1 /\ cur'[Field("created", a)] = 1
  <2>1. Field("created", a) \in Loc /\ Field("nonce", a) \in Loc
    BY FieldKinds
  <2>2. /\ Field("created", a) # Field("nonce", a)
        /\ Field("nonce", a) \notin SlotLoc /\ Field("created", a) \notin SlotLoc
    BY FieldKinds, FieldFacts
  <2>3. cur'[Field("created", a)] = 1
    BY <1>4, <2>1, <2>2
  <2>4. cur'[Field("nonce", a)] = 1
    BY <1>4, <2>1, <2>2
  <2> QED BY <1>1, <2>1, <2>3, <2>4, SmallValues, JournalAssumption DEF Observe
<1>6. \A l \in Loc : l.acc # a => cur'[l] = cur[l] /\ t[l] = s[l]
  <2>1. \A l \in Loc : l.acc # a => cur'[l] = cur[l]
    BY <1>4, FieldKinds
  <2> QED BY <1>1, <2>1 DEF Observe
<1>7. Sound(s) /\ Grows(Chain, base) /\ Blank(base, a) /\ Blank(Chain, a)
  BY <1>1, <1>3 DEF EntryInv, StatesSound, Sound, Grows
<1>8. \A b \in Acc : Blank(t, b) => b # a
  BY <1>5 DEF Blank
<1>9. \A b \in Acc : b # a => (Blank(t, b) <=> Blank(s, b))
  BY <1>6, FieldKinds DEF Blank
<1>10. \A b \in Acc, k \in Key : b # a => t[Cell("store", b, k)] = s[Cell("store", b, k)]
  BY <1>6, Kinds, LocFacts
<1>11. \A b \in Acc : b # a => t[Field("created", b)] = s[Field("created", b)]
  BY <1>6, FieldKinds
<1>12. /\ frames' = frames /\ base' = base /\ applied' = applied
  BY DEF Create
<1>13. StatesSound'
  <2>1. Grows(s, t)
    BY <1>8, <1>9 DEF Grows
  <2>2. Unused(t)
    BY <1>7, <1>8, <1>9, <1>10, <1>11 DEF Unused, Sound
  <2>3. \A b \in Acc : t[Field("created", b)] # 0 => Blank(base, b)
    BY <1>7, <1>11 DEF Sound
  <2> QED BY <1>1, <1>12, <2>1, <2>2, <2>3, StatesStep DEF EntryInv
<1>14. \A k \in DOMAIN frames : Blank(frames[k].snap, a) /\ Unused(frames[k].snap)
  BY <1>1, <1>3 DEF EntryInv, StatesSound, Sound, Grows
<1>15. ASSUME NEW r, Blank(r, a), Unused(r), NEW l \in EntryOf(a), l.kind # "value"
       PROVE  r[l] = Chain[l]
  <2>1. l \in BackedLoc /\ l.acc = a
    BY <1>15 DEF EntryOf
  <2>2. CASE l \in SlotLoc
    BY <1>15, <2>1, <2>2, SlotCell DEF Unused
  <2>3. CASE l \notin SlotLoc
    <3>1. l = Field("nonce", a) \/ l = Field("code", a)
      BY <1>15, <2>1, <2>3, FieldFacts DEF AccountKind
    <3> QED BY <1>7, <1>15, <3>1 DEF Blank
  <2> QED BY <2>2, <2>3
<1>16. GapsAreKnown'
  <2>1. gaps' \subseteq gaps \cup
          ({l \in EntryOf(a) : \/ s[l] # Chain[l]
                               \/ \E k \in DOMAIN frames : frames[k].snap[l] # Chain[l]}
             \cup {l \in {Field("created", a)} : cur[l] # 0})
    BY <1>1 DEF Create, Emit
  <2>2. cur[Field("created", a)] = 0
    <3>1. s[Field("created", a)] = 0
      BY <1>3, <1>7 DEF Sound, Unused
    <3> QED BY <1>1, <3>1, FieldKinds, LocFacts DEF Observe
  <2>3. ASSUME NEW l \in EntryOf(a),
               \/ s[l] # Chain[l]
               \/ \E k \in DOMAIN frames : frames[k].snap[l] # Chain[l]
        PROVE  l.kind = "value" /\ l.acc = a
    <3>1. l.acc = a
      BY DEF EntryOf
    <3>2. Unused(s)
      BY <1>7 DEF Sound
    <3>3. l.kind # "value" => s[l] = Chain[l]
      BY <1>3, <1>15, <3>2
    <3>4. \A k \in DOMAIN frames : l.kind # "value" => frames[k].snap[l] = Chain[l]
      BY <1>14, <1>15
    <3> QED BY <2>3, <3>1, <3>3, <3>4
  <2>4. \A l \in gaps' : l \in gaps \/ (l.kind = "value" /\ l.acc = a)
    BY <2>1, <2>2, <2>3
  <2> QED BY <1>7, <1>12, <2>4 DEF EntryInv, GapsAreKnown, Blank
<1>17. PICK es \in Seq(Event) :
         /\ events' = events \o es
         /\ \A n \in 1 .. Len(es) :
              \/ es[n].op = "write" /\ es[n].loc = Field("nonce", a)
              \/ es[n].op = "write" /\ es[n].loc = Field("value", a)
              \/ es[n].op = "create" /\ es[n].loc = Field("created", a)
  BY CreateEvents
<1>18. EventsFit'
  <2>1. \A n \in 1 .. Len(es), b \in Acc :
          /\ es[n].op = "create" /\ es[n].loc = Field("created", b) => b = a
          /\ es[n].op = "create" => es[n].loc # Field("destroyed", b)
          /\ es[n].op = "write" => /\ es[n].loc # Field("created", b)
                                   /\ es[n].loc # Field("destroyed", b)
    <3>1. \A b \in Acc : /\ Field("created", a) = Field("created", b) => b = a
                         /\ Field("created", a) # Field("destroyed", b)
                         /\ Field("nonce", a) \notin {Field("created", b), Field("destroyed", b)}
                         /\ Field("value", a) \notin {Field("created", b), Field("destroyed", b)}
      BY FieldKinds
    <3>2. \A n \in 1 .. Len(es) :
            /\ es[n].op = "create" => es[n].loc = Field("created", a)
            /\ es[n].op = "write" => es[n].loc \in {Field("nonce", a), Field("value", a)}
      BY <1>17
    <3> QED BY <3>1, <3>2
  <2> QED BY <1>7, <1>12, <1>17, <2>1, EventsStep DEF EntryInv
<1>19. MarksHaveEvents'
  <2> SUFFICES ASSUME NEW b \in Acc, Marked("destroyed", b)'
               PROVE  /\ Marked("created", b)'
                      /\ \E j \in DOMAIN events' :
                           /\ DestroysAt(j, b)'
                           /\ \A i \in DOMAIN events' : CreatesAt(i, b)' => i < j
    BY DEF MarksHaveEvents
  <2>1. Marked("destroyed", b)
    <3>1. cur'[Field("destroyed", b)] = cur[Field("destroyed", b)]
      BY <1>4, FieldKinds, LocFacts
    <3> QED BY <3>1 DEF Marked
  <2>2. PICK j \in DOMAIN events :
          /\ Marked("created", b) /\ DestroysAt(j, b)
          /\ \A i \in DOMAIN events : CreatesAt(i, b) => i < j
    BY <2>1 DEF EntryInv, MarksHaveEvents
  <2>3. b # a
    <3>1. s[Field("created", b)] = 1
      BY <1>1, <2>2, FieldKinds, LocFacts DEF Marked, Observe
    <3> QED BY <1>3, <1>7, <3>1 DEF Sound, Unused
  <2>4. Marked("created", b)'
    BY <1>6, <2>2, <2>3, FieldKinds DEF Marked
  <2>5. j \in DOMAIN events' /\ DestroysAt(j, b)'
    BY <1>17, <2>2, Emitted DEF DestroysAt
  <2>6. ASSUME NEW i \in DOMAIN events', CreatesAt(i, b)' PROVE i < j
    <3>1. i \in DOMAIN events
      <4> SUFFICES ASSUME i \notin DOMAIN events PROVE FALSE
        OBVIOUS
      <4>1. PICK n \in 1 .. Len(es) : events'[i] = es[n]
        BY <1>17, Emitted
      <4>2. es[n].op = "create" => es[n].loc = Field("created", a)
        BY <1>17
      <4> QED BY <2>3, <2>6, <4>1, <4>2, FieldKinds DEF CreatesAt
    <3>2. CreatesAt(i, b)
      BY <1>17, <2>6, <3>1, Emitted DEF CreatesAt
    <3> QED BY <2>2, <3>1, <3>2
  <2> QED BY <2>4, <2>5, <2>6
<1>20. SlotsKnown'
  <2>1. \A l \in SlotLoc : l \in Loc /\ l.acc \in Acc /\ (l.acc = a => base[l] = Chain[l])
    <3>1. Unused(base)
      BY DEF EntryInv, StatesSound
    <3> QED BY <1>7, <3>1, SlotCell, LocFacts DEF Unused
  <2>2. \A l \in SlotLoc : orig'[l] = IF l.acc = a THEN Absent ELSE orig[l]
    BY DEF Create
  <2> QED BY <1>2, <1>6, <1>12, <2>1, <2>2 DEF EntryInv, SlotsKnown
<1> QED BY <1>13, <1>16, <1>18, <1>19, <1>20 DEF EntryInv

LEMMA LogEntry ==
  ASSUME TypeOK, EntryInv, Log
  PROVE  EntryInv'
<1>1. UNCHANGED <<cur, orig, frames, base, gaps, applied>>
  BY DEF Log, Emit
<1>2. PICK es : es = <<LogEvent>>
  OBVIOUS
<1>3. /\ es \in Seq(Event) /\ events' = events \o es
      /\ \A n \in 1 .. Len(es) : es[n].op = "log"
  BY <1>2, EventTypes DEF Log, Emit, LogEvent
<1>4. EventsFit'
  BY <1>1, <1>3, EventsStep DEF EntryInv
<1>5. MarksHaveEvents'
  BY <1>1, <1>3, MarksStep DEF EntryInv
<1>6. StatesSound'
  BY <1>1, SameStates DEF EntryInv, Observe
<1>7. GapsAreKnown' /\ SlotsKnown'
  BY <1>1 DEF EntryInv, GapsAreKnown, SlotsKnown
<1> QED BY <1>4, <1>5, <1>6, <1>7 DEF EntryInv

LEMMA CheckpointEntry ==
  ASSUME TypeOK, EntryInv, Checkpoint
  PROVE  EntryInv'
<1>1. UNCHANGED <<cur, orig, events, base, gaps, applied>> /\ ~applied
  BY DEF Checkpoint
<1>2. PICK n, g : n = Len(frames) /\ g = [cp |-> Len(events), snap |-> Observe(cur)]
  OBVIOUS
<1>3. /\ n \in Nat /\ DOMAIN frames = 1 .. n /\ DOMAIN frames' = 1 .. n + 1
      /\ frames'[n + 1] = g /\ g.snap = Observe(cur)
      /\ \A k \in 1 .. n : frames'[k] = frames[k]
  BY <1>2 DEF TypeOK, Checkpoint
<1>4. \A k \in 1 .. n + 1 : k \in 1 .. n \/ k = n + 1
  BY <1>3
<1>5. Observe(cur)' = Observe(cur)
  BY <1>1 DEF Observe
<1>6. \A k \in DOMAIN frames' : /\ Sound(frames'[k].snap)
                                /\ Grows(frames'[k].snap, Observe(cur))
  BY <1>3, <1>4 DEF EntryInv, StatesSound, Grows
<1>7. ASSUME NEW k \in DOMAIN frames', NEW j \in DOMAIN frames', k < j
      PROVE  Grows(frames'[k].snap, frames'[j].snap)
  <2>1. k \in 1 .. n
    BY <1>3, <1>7
  <2> QED BY <1>3, <1>4, <1>7, <2>1 DEF EntryInv, StatesSound
<1>8. StatesSound'
  <2>1. Grows(Chain, base') /\ Unused(base') /\ Sound(Observe(cur)) /\ ~applied'
    BY <1>1 DEF EntryInv, StatesSound
  <2>2. Sound(Observe(cur))'
    BY <1>1, <1>5, <2>1 DEF Sound, Grows, Unused, Blank
  <2>3. \A k \in DOMAIN frames' : Sound(frames[k].snap)'
    BY <1>1, <1>6 DEF Sound, Grows, Unused, Blank
  <2> QED BY <1>5, <1>6, <1>7, <2>1, <2>2, <2>3 DEF StatesSound, Grows, Unused, Blank
<1>9. GapsAreKnown' /\ SlotsKnown'
  BY <1>1 DEF EntryInv, GapsAreKnown, SlotsKnown
<1>10. EventsFit' /\ MarksHaveEvents'
  BY <1>1 DEF EntryInv, EventsFit, MarksHaveEvents, CreatesAt, DestroysAt, Marked, Blank
<1> QED BY <1>8, <1>9, <1>10 DEF EntryInv

\* The frames below the innermost one.
LEMMA FrontFacts ==
  ASSUME TypeOK, frames # <<>>, frames' = SubSeq(frames, 1, Len(frames) - 1)
  PROVE  /\ Len(frames) \in DOMAIN frames /\ frames[Len(frames)] \in Frame
         /\ frames[Len(frames)].cp \in Nat
         /\ \A k \in DOMAIN frames' : /\ k \in DOMAIN frames /\ k < Len(frames)
                                      /\ frames'[k] = frames[k]
<1>1. frames \in Seq(Frame) /\ Len(frames) \in Nat /\ Len(frames) >= 1
  BY DEF TypeOK
<1>2. Len(frames) \in DOMAIN frames /\ frames[Len(frames)] \in Frame
  BY <1>1
<1>3. frames[Len(frames)].cp \in Nat
  BY <1>2 DEF Frame
<1>4. DOMAIN frames' = 1 .. Len(frames) - 1 /\ \A k \in 1 .. Len(frames) - 1 : frames'[k] = frames[k]
  <2>1. Len(frames) - 1 \in 0 .. Len(frames)
    BY <1>1
  <2> QED BY <1>1, <2>1
<1>5. \A k \in 1 .. Len(frames) - 1 : k \in DOMAIN frames /\ k < Len(frames)
  BY <1>1
<1> QED BY <1>2, <1>3, <1>4, <1>5

LEMMA CommitEntry ==
  ASSUME TypeOK, EntryInv, Commit
  PROVE  EntryInv'
<1>1. /\ UNCHANGED <<cur, orig, events, base, gaps, applied>>
      /\ \A k \in DOMAIN frames' : k \in DOMAIN frames /\ frames'[k] = frames[k]
      /\ ~applied
  BY FrontFacts DEF Commit, EntryInv, StatesSound
<1>2. Observe(cur)' = Observe(cur)
  BY <1>1 DEF Observe
<1>3. Sound(Observe(cur))'
  BY <1>1, <1>2 DEF EntryInv, StatesSound, Sound, Grows, Unused, Blank
<1>4. \A k \in DOMAIN frames' : Sound(frames[k].snap)'
  BY <1>1 DEF EntryInv, StatesSound, Sound, Grows, Unused, Blank
<1>5. /\ Grows(Chain, base') /\ Unused(base') /\ ~applied'
      /\ \A k \in DOMAIN frames' : Grows(frames'[k].snap, Observe(cur))
      /\ \A k, j \in DOMAIN frames' : k < j => Grows(frames'[k].snap, frames'[j].snap)
  BY <1>1 DEF EntryInv, StatesSound
<1>6. StatesSound'
  BY <1>2, <1>3, <1>4, <1>5 DEF StatesSound, Grows, Unused, Blank
<1>7. GapsAreKnown' /\ SlotsKnown'
  BY <1>1 DEF EntryInv, GapsAreKnown, SlotsKnown
<1>8. EventsFit' /\ MarksHaveEvents'
  BY <1>1 DEF EntryInv, EventsFit, MarksHaveEvents, CreatesAt, DestroysAt, Marked, Blank
<1> QED BY <1>6, <1>7, <1>8 DEF EntryInv

\* What a revert leaves looks as the checkpoint did, but for the gaps.
LEMMA RevertEntry ==
  ASSUME TypeOK, JInv, EntryInv, RevertTo
  PROVE  EntryInv'
<1>1. PICK n, cp : n = Len(frames) /\ cp = frames[n].cp
  OBVIOUS
<1>2. /\ n \in DOMAIN frames /\ cp \in Nat /\ ~applied
      /\ UNCHANGED <<base, gaps, applied>>
      /\ \A k \in DOMAIN frames' : /\ k \in DOMAIN frames /\ k < n /\ frames'[k] = frames[k]
  BY <1>1, FrontFacts DEF RevertTo, EntryInv, StatesSound
<1>3. /\ cur' = Rewound(cp)
      /\ orig' = [l \in SlotLoc |-> IF CreatedSince(cp, l.acc) THEN Absent ELSE orig[l]]
      /\ events' = [i \in DOMAIN events |-> IF i \in Since(cp) THEN Reverted ELSE events[i]]
  BY <1>1 DEF RevertTo
<1>4. PICK s, t : s = frames[n].snap /\ t = Observe(cur)'
  OBVIOUS
<1>5. \A l \in Loc : l.kind \notin {"value", "destroyed"} => t[l] = s[l]
  <2>1. RewindRestores
    BY JInvRestores
  <2>2. \A l \in gaps : l.kind \in {"value", "destroyed"}
    BY DEF EntryInv, GapsAreKnown
  <2>3. t = Observe(Rewound(cp))
    BY <1>3, <1>4 DEF Observe
  <2> QED BY <1>1, <1>2, <1>4, <2>1, <2>2, <2>3 DEF RewindRestores, Restores
<1>6. Sound(s) /\ Sound(t) /\ Grows(s, t)
  BY <1>2, <1>4, <1>5, SoundAlike DEF EntryInv, StatesSound
<1>7. \A k \in DOMAIN frames' : /\ Sound(frames'[k].snap) /\ Grows(frames'[k].snap, s)
                                /\ \A j \in DOMAIN frames' :
                                     k < j => Grows(frames'[k].snap, frames'[j].snap)
  BY <1>2, <1>4 DEF EntryInv, StatesSound
<1>8. \A k \in DOMAIN frames' : Grows(frames'[k].snap, t)
  BY <1>6, <1>7, GrowsOn
<1>9. StatesSound'
  <2>1. Sound(Observe(cur))'
    BY <1>2, <1>4, <1>6 DEF Sound, Grows, Unused, Blank
  <2>2. \A k \in DOMAIN frames' : Sound(frames[k].snap)'
    BY <1>2, <1>7 DEF Sound, Grows, Unused, Blank
  <2>3. Grows(Chain, base') /\ Unused(base') /\ ~applied'
    BY <1>2 DEF EntryInv, StatesSound
  <2> QED BY <1>4, <1>7, <1>8, <2>1, <2>2, <2>3 DEF StatesSound, Grows, Unused, Blank
<1>10. GapsAreKnown'
  BY <1>2 DEF EntryInv, GapsAreKnown
<1>11. /\ DOMAIN events' = DOMAIN events
       /\ \A i \in DOMAIN events : /\ i \in Since(cp) => events'[i].op = "reverted"
                                   /\ i \notin Since(cp) => events'[i] = events[i]
  BY <1>3 DEF Reverted
<1>12. EventsFit'
  BY <1>2, <1>11 DEF EntryInv, EventsFit, CreatesAt, DestroysAt, Blank
<1>13. \A l \in Loc : cur'[l] = IF l \in BackedLoc /\ CreatedSince(cp, l.acc) THEN Absent
                                ELSE IF UndoersOf(cp, l) = {} \/ cur[l] = Absent THEN cur[l]
                                ELSE events[First(UndoersOf(cp, l))].prev
  BY <1>3 DEF Rewound
<1>14. MarksHaveEvents'
  <2> SUFFICES ASSUME NEW a \in Acc, Marked("destroyed", a)'
               PROVE  /\ Marked("created", a)'
                      /\ \E j \in DOMAIN events' :
                           /\ DestroysAt(j, a)'
                           /\ \A i \in DOMAIN events' : CreatesAt(i, a)' => i < j
    BY DEF MarksHaveEvents
  <2>1. PICK d, c : d = Field("destroyed", a) /\ c = Field("created", a)
    OBVIOUS
  <2>2. d \in Loc /\ d \notin BackedLoc /\ c \in Loc /\ c \notin BackedLoc
    BY <2>1, FieldKinds, LocFacts
  <2>3. cur'[d] = 1
    BY <2>1 DEF Marked
  <2>4. UndoersOf(cp, d) = {}
    <3> SUFFICES ASSUME UndoersOf(cp, d) # {} PROVE FALSE
      OBVIOUS
    <3>1. PICK i : i = First(UndoersOf(cp, d)) /\ i \in UndoersOf(cp, d)
      <4>1. UndoersOf(cp, d) \subseteq Nat
        BY DEF TypeOK, UndoersOf, Since
      <4> QED BY <4>1, FirstExists
    <3>2. i \in DOMAIN events /\ events[i].op \in {"write", "create"} /\ events[i].loc = d
      BY <3>1 DEF UndoersOf, Since
    <3>3. events[i].prev = 0
      BY <2>1, <3>2 DEF EntryInv, EventsFit, DestroysAt
    <3>4. cur[d] # Absent
      BY <2>2, LocFacts, JournalAssumption DEF TypeOK
    <3> QED BY <1>13, <2>2, <2>3, <3>1, <3>3, <3>4
  <2>5. cur[d] = 1
    BY <1>13, <2>2, <2>3, <2>4
  <2>6. PICK j \in DOMAIN events : /\ Marked("created", a) /\ DestroysAt(j, a)
                                   /\ \A i \in DOMAIN events : CreatesAt(i, a) => i < j
    BY <2>1, <2>5 DEF EntryInv, MarksHaveEvents, Marked
  <2>7. j \notin Since(cp)
    BY <2>1, <2>4, <2>6 DEF UndoersOf, DestroysAt
  <2>8. \A i \in Since(cp) : ~CreatesAt(i, a)
    <3> SUFFICES ASSUME NEW i \in Since(cp), CreatesAt(i, a) PROVE FALSE
      OBVIOUS
    <3>1. i \in DOMAIN events /\ i > cp /\ i < j
      BY <2>6 DEF Since
    <3>2. j \in Nat /\ i \in Nat
      BY <2>6, <3>1 DEF TypeOK
    <3>3. j > cp
      BY <1>2, <3>1, <3>2
    <3> QED BY <2>6, <2>7, <3>3 DEF Since
  <2>9. UndoersOf(cp, c) = {}
    BY <2>1, <2>8 DEF EntryInv, EventsFit, UndoersOf, Since, CreatesAt
  <2>10. Marked("created", a)'
    BY <1>13, <2>1, <2>2, <2>6, <2>9 DEF Marked
  <2>11. DestroysAt(j, a)' /\ j \in DOMAIN events'
    BY <1>11, <2>6, <2>7 DEF DestroysAt
  <2>12. ASSUME NEW i \in DOMAIN events', CreatesAt(i, a)' PROVE i < j
    <3>1. i \in DOMAIN events /\ i \notin Since(cp)
      BY <1>11, <2>12 DEF CreatesAt
    <3>2. CreatesAt(i, a)
      BY <1>11, <2>12, <3>1 DEF CreatesAt
    <3> QED BY <2>6, <3>1, <3>2
  <2> QED BY <2>10, <2>11, <2>12
<1>15. SlotsKnown'
  <2>1. ASSUME NEW l \in SlotLoc PROVE /\ cur'[l] = Absent => base[l] = Chain[l]
                                       /\ orig'[l] # Absent => orig'[l] = orig[l]
    <3>1. l \in BackedLoc /\ l \in Loc /\ l.acc \in Acc
      BY LocFacts
    <3>2. cur'[l] = Absent <=> CreatedSince(cp, l.acc) \/ cur[l] = Absent
      BY <1>2, <1>3, <3>1, RewoundType
    <3>3. ASSUME CreatedSince(cp, l.acc) PROVE base[l] = Chain[l]
      <4>1. Blank(base, l.acc)
        BY <3>1, <3>3 DEF CreatedSince, Since, EntryInv, EventsFit, CreatesAt
      <4> QED BY <3>1, <4>1, SlotCell DEF EntryInv, StatesSound, Unused
    <3>4. orig'[l] # Absent => orig'[l] = orig[l]
      BY <1>3
    <3> QED BY <1>2, <3>2, <3>3, <3>4 DEF EntryInv, SlotsKnown
  <2> QED BY <1>2, <2>1 DEF EntryInv, SlotsKnown
<1> QED BY <1>9, <1>10, <1>12, <1>14, <1>15 DEF EntryInv

\* The deletion: what it makes blank was blank at the start.
LEMMA ApplyEntry ==
  ASSUME TypeOK, EntryInv, Apply
  PROVE  EntryInv'
<1>1. PICK s, t : s = Observe(cur) /\ t = Observe(cur)'
  OBVIOUS
<1>2. /\ frames = <<>> /\ frames' = <<>> /\ applied' = TRUE
      /\ UNCHANGED <<events, base, gaps>>
  BY DEF Apply
<1>3. ASSUME NEW a \in Acc, ~Marked("destroyed", a), NEW l \in Loc, l.acc = a
      PROVE  cur'[l] = cur[l] /\ t[l] = s[l]
  <2>1. cur'[l] = cur[l]
    BY <1>3 DEF Apply
  <2> QED BY <1>1, <2>1 DEF Observe
<1>4. ASSUME NEW a \in Acc, Marked("destroyed", a)
      PROVE  /\ cur'[Field("created", a)] = 0 /\ cur'[Field("destroyed", a)] = 0
             /\ t[Field("created", a)] = 0
             /\ \A k \in Key : t[Cell("store", a, k)] = Chain[Cell("store", a, k)]
  <2>1. \A l \in Loc : l.acc = a /\ l.kind \in {"created", "destroyed"} => cur'[l] = 0
    BY <1>4 DEF Apply, AccountKind
  <2>2. cur'[Field("created", a)] = 0 /\ cur'[Field("destroyed", a)] = 0
    BY <2>1, FieldKinds, LocFacts
  <2>3. t[Field("created", a)] = 0
    BY <1>1, <2>2, FieldKinds, LocFacts DEF Observe
  <2>4. \A l \in Loc : l.acc = a /\ l.kind = "store" => cur'[l] = Absent
    BY <1>4 DEF Apply, AccountKind
  <2>5. \A k \in Key : t[Cell("store", a, k)] = Chain[Cell("store", a, k)]
    BY <1>1, <2>4, Kinds, LocFacts DEF Observe
  <2> QED BY <2>2, <2>3, <2>5
<1>5. Sound(s) /\ \A a \in Acc : Marked("destroyed", a) => Blank(base, a)
  <2>1. Sound(s)
    BY <1>1 DEF EntryInv, StatesSound
  <2>2. ASSUME NEW a \in Acc, Marked("destroyed", a) PROVE Blank(base, a)
    <3>1. cur[Field("created", a)] = 1
      BY <2>2 DEF EntryInv, MarksHaveEvents, Marked
    <3>2. s[Field("created", a)] = 1
      BY <1>1, <3>1, FieldKinds, LocFacts DEF Observe
    <3> QED BY <2>1, <3>2 DEF Sound
  <2> QED BY <2>1, <2>2
<1>6. ASSUME NEW a \in Acc, ~Marked("destroyed", a)
      PROVE  /\ Blank(t, a) <=> Blank(s, a)
             /\ t[Field("created", a)] = s[Field("created", a)]
             /\ \A k \in Key : t[Cell("store", a, k)] = s[Cell("store", a, k)]
  <2>1. /\ t[Field("nonce", a)] = s[Field("nonce", a)]
        /\ t[Field("code", a)] = s[Field("code", a)]
        /\ t[Field("created", a)] = s[Field("created", a)]
    BY <1>3, <1>6, FieldKinds
  <2>2. \A k \in Key : t[Cell("store", a, k)] = s[Cell("store", a, k)]
    BY <1>3, <1>6, Kinds, LocFacts
  <2> QED BY <2>1, <2>2 DEF Blank
<1>7. Sound(t)
  <2>1. Grows(base, t)
    BY <1>5, <1>6 DEF Sound, Grows
  <2>2. Unused(t)
    BY <1>4, <1>5, <1>6 DEF Sound, Unused
  <2>3. \A a \in Acc : t[Field("created", a)] # 0 => Blank(base, a)
    BY <1>4, <1>5, <1>6 DEF Sound
  <2> QED BY <2>1, <2>2, <2>3 DEF Sound
<1>8. StatesSound'
  <2>1. Sound(Observe(cur))'
    BY <1>1, <1>2, <1>7 DEF Sound, Grows, Unused, Blank
  <2>2. DOMAIN frames' = {}
    BY <1>2
  <2>3. Grows(Chain, base') /\ Unused(base')
    BY <1>2 DEF EntryInv, StatesSound
  <2> QED BY <1>2, <2>1, <2>2, <2>3 DEF StatesSound, Grows, Unused, Blank
<1>9. GapsAreKnown' /\ EventsFit' /\ SlotsKnown'
  BY <1>2 DEF EntryInv, GapsAreKnown, EventsFit, SlotsKnown, CreatesAt, DestroysAt, Blank
<1>10. MarksHaveEvents'
  <2> SUFFICES ASSUME NEW a \in Acc, Marked("destroyed", a)'
               PROVE  /\ Marked("created", a)'
                      /\ \E j \in DOMAIN events' :
                           /\ DestroysAt(j, a)'
                           /\ \A i \in DOMAIN events' : CreatesAt(i, a)' => i < j
    BY DEF MarksHaveEvents
  <2>1. ~Marked("destroyed", a)
    <3> SUFFICES ASSUME Marked("destroyed", a) PROVE FALSE
      BY <1>3, FieldKinds, LocFacts DEF Marked
    <3> QED BY <1>4 DEF Marked
  <2>2. Marked("destroyed", a)
    BY <1>3, <2>1, FieldKinds, LocFacts DEF Marked
  <2> QED BY <2>1, <2>2
<1> QED BY <1>8, <1>9, <1>10 DEF EntryInv

\* The start of a transaction, with the marks cleared.
Starts ==
  /\ base = Observe(cur) /\ frames = <<>> /\ events = <<>> /\ gaps = {} /\ ~applied
  /\ \A l \in TxLoc : cur[l] = 0
  /\ \A l \in SlotLoc : orig[l] = Absent \/ orig[l] = cur[l]
  /\ Grows(Chain, base) /\ Unused(base)

LEMMA StartsEntry == TypeOK /\ Starts => EntryInv
<1> SUFFICES ASSUME TypeOK, Starts PROVE EntryInv
  OBVIOUS
<1>1. DOMAIN frames = {} /\ DOMAIN events = {}
  BY DEF Starts
<1>2. \A a \in Acc : /\ cur[Field("created", a)] = 0 /\ cur[Field("destroyed", a)] = 0
                     /\ Observe(cur)[Field("created", a)] = 0
  BY FieldKinds, LocFacts DEF Starts, Observe
<1>3. StatesSound
  BY <1>1, <1>2 DEF Starts, StatesSound, Sound, Grows
<1>4. GapsAreKnown /\ EventsFit /\ MarksHaveEvents
  BY <1>1, <1>2 DEF Starts, GapsAreKnown, EventsFit, MarksHaveEvents, Marked
<1>5. SlotsKnown
  <2>1. \A l \in SlotLoc : /\ l \in BackedLoc /\ l \in Loc
    BY LocFacts
  <2>2. \A l \in SlotLoc : base[l] = IF cur[l] = Absent THEN Chain[l] ELSE cur[l]
    BY <2>1 DEF Starts, Observe
  <2> QED BY <2>2 DEF Starts, SlotsKnown
<1> QED BY <1>3, <1>4, <1>5 DEF EntryInv

LEMMA InitEntry == Init => EntryInv
<1> SUFFICES ASSUME Init PROVE EntryInv
  OBVIOUS
<1>1. TypeOK
  BY InitType
<1>2. \A l \in BackedLoc : Observe(cur)[l] = Chain[l]
  <2>1. \A l \in BackedLoc : cur[l] = Chain[l] \/ cur[l] = Absent
    BY LocFacts, EmptyType DEF Init, Loaded
  <2> QED BY <2>1, LocFacts DEF Observe
<1>3. \A l \in TxLoc : cur[l] = 0
  BY LocFacts, FieldFacts, EmptyType DEF Init, Loaded
<1>4. Grows(Chain, base) /\ Unused(base)
  <2>1. \A a \in Acc : Blank(base, a) => Blank(Chain, a)
    BY <1>2, FieldKinds DEF Init, Blank
  <2>2. \A a \in Acc : base[Field("created", a)] = 0
    <3>1. \A a \in Acc : Observe(cur)[Field("created", a)] = cur[Field("created", a)]
      BY FieldKinds, LocFacts DEF Observe
    <3> QED BY <1>3, <3>1, FieldKinds DEF Init
  <2>3. \A a \in Acc, k \in Key : base[Cell("store", a, k)] = Chain[Cell("store", a, k)]
    BY <1>2, Kinds DEF Init
  <2> QED BY <2>1, <2>2, <2>3 DEF Grows, Unused
<1>5. Starts
  BY <1>3, <1>4 DEF Starts, Init
<1> QED BY <1>1, <1>5, StartsEntry

LEMMA ResetEntry ==
  ASSUME TypeOK, EntryInv, Reset
  PROVE  Starts'
<1> DEFINE kept == [l \in Loc |-> IF l \in BackedLoc THEN cur[l] ELSE 0]
<1>1. /\ cur' = kept /\ base' = Observe(kept) /\ orig' = [l \in SlotLoc |-> cur[l]]
      /\ frames' = <<>> /\ events' = <<>> /\ gaps' = {} /\ applied' = FALSE
  BY DEF Reset
<1>2. \A l \in BackedLoc : kept[l] = cur[l] /\ Observe(kept)[l] = Observe(cur)[l]
  BY LocFacts DEF Observe
<1>3. \A l \in TxLoc : kept[l] = 0 /\ Observe(kept)[l] = 0
  BY LocFacts DEF Observe
<1> HIDE DEF kept
<1>4. PICK s, t : s = Observe(cur) /\ t = Observe(kept)
  OBVIOUS
<1>5. \A a \in Acc : Blank(t, a) <=> Blank(s, a)
  BY <1>2, <1>4, FieldKinds DEF Blank
<1>6. Grows(Chain, s) /\ Unused(s)
  BY <1>4, GrowsOn DEF EntryInv, StatesSound, Sound
<1>7. Grows(Chain, t)
  BY <1>5, <1>6 DEF Grows
<1>8. Unused(t)
  <2>1. \A a \in Acc : t[Field("created", a)] = 0
    BY <1>3, <1>4, FieldKinds
  <2>2. \A a \in Acc, k \in Key : t[Cell("store", a, k)] = s[Cell("store", a, k)]
    BY <1>2, <1>4, Kinds
  <2> QED BY <1>5, <1>6, <2>1, <2>2 DEF Unused
<1>9. base' = Observe(cur)'
  BY <1>1 DEF Observe
<1>10. \A l \in SlotLoc : orig'[l] = cur'[l]
  BY <1>1, <1>2, LocFacts
<1> QED BY <1>1, <1>3, <1>4, <1>7, <1>8, <1>9, <1>10 DEF Starts, Grows, Unused, Blank

LEMMA PurgeEntry ==
  ASSUME TypeOK, Purge
  PROVE  Starts'
<1>1. /\ cur' = Empty /\ base' = Observe(Empty) /\ orig' = [l \in SlotLoc |-> Absent]
      /\ frames' = <<>> /\ events' = <<>> /\ gaps' = {} /\ applied' = FALSE
  BY DEF Purge
<1>2. \A l \in BackedLoc : Observe(Empty)[l] = Chain[l]
  BY LocFacts, EmptyType DEF Observe
<1>3. \A l \in TxLoc : Empty[l] = 0 /\ Observe(Empty)[l] = 0
  BY LocFacts DEF Observe, Empty
<1>4. PICK t : t = Observe(Empty)
  OBVIOUS
<1>5. \A a \in Acc : Blank(t, a) <=> Blank(Chain, a)
  BY <1>2, <1>4, FieldKinds DEF Blank
<1>6. Grows(Chain, t)
  BY <1>5 DEF Grows
<1>7. Unused(t)
  BY <1>2, <1>3, <1>4, FieldKinds, Kinds DEF Unused
<1>8. base' = Observe(cur)'
  BY <1>1 DEF Observe
<1> QED BY <1>1, <1>3, <1>4, <1>6, <1>7, <1>8 DEF Starts, Grows, Unused, Blank

----------------------------------------------------------------------------
(* The logs.                                                               *)

\* An upward closed part of an interval is its end.
LEMMA EndOfInterval ==
  ASSUME NEW n \in Nat, NEW P, P \subseteq 1 .. n,
         \A i \in P : \A j \in 1 .. n : i <= j => j \in P
  PROVE  /\ IsFiniteSet(P) /\ Cardinality(P) \in 0 .. n
         /\ \A i \in 1 .. n : i \in P <=> i > n - Cardinality(P)
<1>1. CASE P = {}
  BY <1>1, FS_EmptySet
<1>2. CASE P # {}
  <2>1. PICK m \in P : \A j \in P : m <= j
    <3>1. P \subseteq Nat
      OBVIOUS
    <3> QED BY <1>2, <3>1, FirstExists
  <2>2. m \in 1 .. n
    BY <2>1
  <2>3. P = m .. n
    <3>1. \A i \in 1 .. n : i \in P <=> m <= i
      BY <2>1, <2>2
    <3>2. \A i : i \in m .. n <=> i \in 1 .. n /\ m <= i
      BY <2>2
    <3>3. \A i : i \in P <=> i \in m .. n
      BY <3>1, <3>2
    <3> QED BY <3>3
  <2>4. IsFiniteSet(m .. n) /\ Cardinality(m .. n) = n - m + 1
    BY <2>2, FS_Interval
  <2>5. Cardinality(P) = n - m + 1
    BY <2>3, <2>4
  <2> QED BY <2>2, <2>3, <2>4, <2>5
<1> QED BY <1>1, <1>2

LEMMA NoLogs ==
  ASSUME logs = <<>>, events = <<>>
  PROVE  LogsAreLive
<1>1. DOMAIN logs = {} /\ DOMAIN events = {}
  OBVIOUS
<1> QED BY <1>1 DEF LogsAreLive, LogsSince, Since

\* A step that emits no log.
LEMMA OtherLogs ==
  ASSUME TypeOK, LogsAreLive, logs' = logs,
         NEW es \in Seq(Event), events' = events \o es,
         \A n \in 1 .. Len(es) : es[n].op # "log"
  PROVE  LogsAreLive'
<1>1. LogsSince(0)' = LogsSince(0)
  <2>1. \A i \in DOMAIN events' : events'[i].op = "log" <=> i \in DOMAIN events /\ events[i].op = "log"
    BY Emitted
  <2>2. DOMAIN events \subseteq DOMAIN events'
    BY Emitted
  <2> QED BY <2>1, <2>2 DEF LogsSince, Since
<1> QED BY <1>1 DEF LogsAreLive

LEMMA WriteLogs ==
  ASSUME TypeOK, LogsAreLive, NEW w \in Loc, NEW v, NEW p \in Val, Write(w, v, p)
  PROVE  LogsAreLive'
<1>1. PICK es : es = <<Wrote(w, p)>>
  OBVIOUS
<1>2. /\ es \in Seq(Event) /\ events' = events \o es /\ logs' = logs
      /\ \A n \in 1 .. Len(es) : es[n].op # "log"
  BY <1>1, EventTypes DEF Write, Emit, Wrote
<1> QED BY <1>2, OtherLogs

LEMMA LogLogs ==
  ASSUME TypeOK, LogsAreLive, Log
  PROVE  LogsAreLive'
<1>1. PICK n, m : n = Len(events) /\ m = Len(logs)
  OBVIOUS
<1>2. /\ n \in Nat /\ DOMAIN events = 1 .. n /\ DOMAIN events' = 1 .. n + 1
      /\ events'[n + 1].op = "log" /\ \A i \in 1 .. n : events'[i] = events[i]
  BY <1>1 DEF TypeOK, Log, Emit, LogEvent
<1>3. /\ m \in Nat /\ DOMAIN logs = 1 .. m /\ DOMAIN logs' = 1 .. m + 1
      /\ logs'[m + 1] = n + 1 /\ \A i \in 1 .. m : logs'[i] = logs[i]
  BY <1>1 DEF TypeOK, Log
<1>4. \A i \in 1 .. n + 1 : i \in 1 .. n \/ i = n + 1
  BY <1>2
<1>5. \A i \in 1 .. m + 1 : i \in 1 .. m \/ i = m + 1
  BY <1>3
<1>6. LogsSince(0)' = LogsSince(0) \cup {n + 1}
  <2>1. \A i \in 1 .. n + 1 : i > 0
    BY <1>2
  <2> QED BY <1>2, <1>4, <2>1 DEF LogsSince, Since
<1>7. {logs'[i] : i \in DOMAIN logs'} = {logs[i] : i \in DOMAIN logs} \cup {n + 1}
  <2>1. \A x : (\E i \in 1 .. m + 1 : x = logs'[i]) <=> (\E i \in 1 .. m : x = logs[i]) \/ x = n + 1
    BY <1>3, <1>5
  <2> QED BY <1>3, <2>1
<1>8. ASSUME NEW i \in DOMAIN logs', NEW j \in DOMAIN logs', i < j
      PROVE  logs'[i] < logs'[j]
  <2>1. i \in 1 .. m
    BY <1>3, <1>8
  <2>2. logs[i] \in 1 .. n
    BY <1>2, <1>3, <2>1 DEF LogsAreLive, LogsSince, Since
  <2>3. CASE j \in 1 .. m
    BY <1>3, <1>8, <2>1, <2>3 DEF LogsAreLive
  <2>4. CASE j = m + 1
    BY <1>2, <1>3, <2>1, <2>2, <2>4
  <2> QED BY <1>3, <1>5, <2>3, <2>4
<1> QED BY <1>6, <1>7, <1>8 DEF LogsAreLive

\* The last of the logs, as many as live log events are undone, are those of
\* the events undone.
LEMMA RevertLogs ==
  ASSUME TypeOK, LogsAreLive, RevertTo
  PROVE  LogsAreLive'
<1>1. PICK cp : cp = frames[Len(frames)].cp
  OBVIOUS
<1>2. PICK n : n = Len(logs)
  OBVIOUS
<1>3. cp \in Nat
  BY <1>1, FrontFacts DEF RevertTo
<1>4. n \in Nat /\ DOMAIN logs = 1 .. n /\ logs \in Seq(Nat)
  BY <1>2 DEF TypeOK
<1> DEFINE K == LogsSince(cp)
           P == {i \in 1 .. n : logs[i] > cp}
<1>5. logs' = SubSeq(logs, 1, n - Cardinality(K))
  BY <1>1, <1>2 DEF RevertTo
<1>6. events' = [i \in DOMAIN events |-> IF i \in Since(cp) THEN Reverted ELSE events[i]]
  BY <1>1 DEF RevertTo
<1>7. \A i \in 1 .. n : logs[i] \in Nat
  BY <1>4
<1>8. \A i, j \in 1 .. n : i < j => logs[i] < logs[j]
  BY <1>4 DEF LogsAreLive
<1>9. {logs[i] : i \in 1 .. n} = LogsSince(0)
  BY <1>4 DEF LogsAreLive
<1>10. \A x : x \in K <=> x \in LogsSince(0) /\ x > cp
  BY <1>3 DEF TypeOK, LogsSince, Since
<1>11. /\ IsFiniteSet(P) /\ Cardinality(P) \in 0 .. n
       /\ \A i \in 1 .. n : i \in P <=> i > n - Cardinality(P)
  <2>1. \A i \in P : \A j \in 1 .. n : i <= j => j \in P
    <3> SUFFICES ASSUME NEW i \in P, NEW j \in 1 .. n, i <= j PROVE logs[j] > cp
      OBVIOUS
    <3>1. i = j \/ i < j
      BY <1>4
    <3>2. logs[i] <= logs[j]
      BY <1>7, <1>8, <3>1
    <3> QED BY <1>3, <1>7, <3>2
  <2>2. P \subseteq 1 .. n
    OBVIOUS
  <2> HIDE DEF P
  <2> QED BY <1>4, <2>1, <2>2, EndOfInterval
<1>12. Cardinality(K) = Cardinality(P)
  <2> DEFINE f == [i \in P |-> logs[i]]
  <2>1. f \in [P -> K]
    BY <1>9, <1>10
  <2>2. \A i, j \in P : f[i] = f[j] => i = j
    <3> SUFFICES ASSUME NEW i \in P, NEW j \in P, logs[i] = logs[j] PROVE i = j
      OBVIOUS
    <3>1. i < j \/ j < i \/ i = j
      OBVIOUS
    <3> QED BY <1>7, <1>8, <3>1
  <2>3. \A x \in K : \E i \in P : f[i] = x
    BY <1>9, <1>10
  <2>4. f \in Bijection(P, K)
    BY <2>1, <2>2, <2>3 DEF Bijection, Injection, IsInjective, Surjection
  <2>5. ExistsBijection(P, K)
    BY <2>4 DEF ExistsBijection
  <2> QED BY <1>11, <2>5, FS_Bijection
<1>13. PICK m \in 0 .. n : /\ m = n - Cardinality(P)
                           /\ \A i \in 1 .. n : i <= m <=> logs[i] <= cp
  <2>1. \A i \in 1 .. n : ~(logs[i] > cp) <=> logs[i] <= cp
    BY <1>3, <1>7
  <2>2. PICK c \in 0 .. n : c = Cardinality(P)
    BY <1>11
  <2>3. PICK m \in 0 .. n : m = n - c
    <3>1. n - c \in 0 .. n
      BY <1>4, <2>2
    <3> QED BY <3>1
  <2>4. \A i \in 1 .. n : i \in P <=> i > n - c
    BY <1>11, <2>2
  <2>5. \A i \in 1 .. n : i \in P <=> logs[i] > cp
    OBVIOUS
  <2>6. \A i \in 1 .. n : i <= m <=> ~(i > n - c)
    BY <1>4, <2>2, <2>3
  <2> HIDE DEF P
  <2>7. \A i \in 1 .. n : i <= m <=> logs[i] <= cp
    BY <2>1, <2>4, <2>5, <2>6
  <2> QED BY <2>2, <2>3, <2>7
<1> HIDE DEF K, P
<1>14. DOMAIN logs' = 1 .. m /\ \A i \in 1 .. m : logs'[i] = logs[i] /\ i \in 1 .. n
  BY <1>4, <1>5, <1>12, <1>13
<1>15. \A x : x \in LogsSince(0)' <=> x \in LogsSince(0) /\ ~(x > cp)
  <2>1. DOMAIN events' = DOMAIN events
    BY <1>6
  <2>2. \A i \in DOMAIN events : events'[i].op = "log" <=> events[i].op = "log" /\ ~(i > cp)
    BY <1>6 DEF Since, Reverted
  <2> QED BY <2>1, <2>2 DEF LogsSince, Since
<1>16. \A x : x \in {logs'[i] : i \in DOMAIN logs'} <=> \E i \in 1 .. n : i <= m /\ x = logs[i]
  <2>1. \A i \in 1 .. n : i <= m => i \in 1 .. m
    BY <1>13
  <2>2. \A i \in 1 .. m : i <= m
    BY <1>13
  <2> QED BY <1>14, <2>1, <2>2
<1>17. {logs'[i] : i \in DOMAIN logs'} = LogsSince(0)'
  <2>1. \A i \in 1 .. n : i <= m <=> ~(logs[i] > cp)
    BY <1>3, <1>7, <1>13
  <2> QED BY <1>9, <1>15, <1>16, <2>1
<1>18. \A i, j \in DOMAIN logs' : i < j => logs'[i] < logs'[j]
  BY <1>8, <1>14
<1> QED BY <1>17, <1>18 DEF LogsAreLive

----------------------------------------------------------------------------
(* Every step.                                                             *)

LEMMA RunsCodeEntry ==
  ASSUME TypeOK, EntryInv, NEW a \in Acc, Cached(a), RunsCode(a)
  PROVE  ~Blank(Observe(cur), a)
<1>1. PICK s : s = Observe(cur)
  OBVIOUS
<1>2. cur[Field("code", a)] # Absent
  BY DEF TypeOK, AccountKind
<1>3. s[Field("code", a)] = cur[Field("code", a)] /\ s[Field("created", a)] = cur[Field("created", a)]
  BY <1>1, <1>2, FieldKinds, LocFacts DEF Observe
<1>4. Unused(s)
  BY <1>1 DEF EntryInv, StatesSound, Sound
<1> QED BY <1>1, <1>3, <1>4 DEF RunsCode, Marked, Blank, Unused

LEMMA StepEntry ==
  ASSUME TypeOK, JInv, EntryInv, LogsAreLive, [Next]_vars
  PROVE  EntryInv' /\ LogsAreLive'
<1>1. ASSUME NEW a \in Acc, Merge(a) PROVE EntryInv' /\ LogsAreLive'
  <2>1. \A l \in Loc : l \in EntryOf(a) /\ l.kind \in AccountKind =>
                         l \in BackedLoc \ SlotLoc /\ cur[l] = Absent
    <3>1. \A k \in AccountKind : cur[Field(k, a)] = Absent
      BY <1>1 DEF Merge, TypeOK
    <3> QED BY <3>1, LocFacts, FieldFacts DEF EntryOf
  <2>2. \A l \in Loc : cur'[l] = IF l \in EntryOf(a) /\ l.kind \in AccountKind
                                 THEN Chain[l] ELSE cur[l]
    BY <1>1 DEF Merge
  <2>3. \A l \in Loc : Observe(cur)'[l] = Observe(cur)[l]
    BY <2>1, <2>2 DEF Observe
  <2>4. (\A l \in TxLoc : cur'[l] = cur[l]) /\ (\A l \in SlotLoc : cur'[l] = cur[l])
    BY <2>1, <2>2, LocFacts
  <2>5. SlotsKnown'
    BY <1>1, <2>4 DEF EntryInv, SlotsKnown, Merge
  <2>6. UNCHANGED <<events, frames, base, gaps, applied, logs>>
    BY <1>1 DEF Merge
  <2> QED BY <2>3, <2>4, <2>5, <2>6, FillEntry DEF LogsAreLive, LogsSince, Since
<1>2. ASSUME NEW a \in Acc, IncNonce(a) PROVE EntryInv' /\ LogsAreLive'
  <2>1. PICK w, v : w = Field("nonce", a) /\ v = cur[w] + 1
    OBVIOUS
  <2>2. w \in Loc /\ cur[w] # Absent /\ cur[w] \in Val /\ w.kind = "nonce"
    BY <1>2, <2>1, FieldKinds, LocFacts DEF IncNonce, TypeOK, AccountKind
  <2>3. v \in Val /\ v # 0
    BY <1>2, <2>1, <2>2, JournalAssumption DEF IncNonce, Val
  <2>4. Write(w, v, cur[w])
    BY <1>2, <2>1 DEF IncNonce
  <2> QED BY <2>2, <2>3, <2>4, WriteEntry, WriteLogs
<1>3. ASSUME NEW a \in Acc, Create(a) PROVE EntryInv' /\ LogsAreLive'
  <2>1. PICK es \in Seq(Event) :
          /\ events' = events \o es
          /\ \A n \in 1 .. Len(es) : es[n].op # "log"
    BY <1>3, CreateEvents
  <2> QED BY <1>3, <2>1, CreateEntry, OtherLogs DEF Create
<1>4. ASSUME NEW a \in Acc, Destroy(a) PROVE EntryInv' /\ LogsAreLive'
  <2>1. PICK w : w = Field("destroyed", a)
    OBVIOUS
  <2>2. w \in Loc /\ w.kind = "destroyed" /\ w.acc = a /\ cur[w] # Absent
    BY <2>1, FieldKinds, LocFacts, JournalAssumption DEF TypeOK
  <2> QED BY <1>4, <2>1, <2>2, SmallValues, WriteEntry, WriteLogs DEF Destroy
<1>5. ASSUME NEW a \in Acc, NEW v \in Input["value"], SetValue(a, v)
      PROVE EntryInv' /\ LogsAreLive'
  <2>1. PICK w : w = Field("value", a)
    OBVIOUS
  <2>2. w \in Loc /\ w.kind = "value" /\ cur[w] # Absent /\ cur[w] \in Val
    BY <1>5, <2>1, FieldKinds, LocFacts DEF SetValue, TypeOK, Cached
  <2>3. v \in Val
    BY JournalAssumption
  <2> QED BY <1>5, <2>1, <2>2, <2>3, WriteEntry, WriteLogs DEF SetValue
<1>6. ASSUME NEW a \in Acc, NEW v \in Input["code"], SetCode(a, v)
      PROVE EntryInv' /\ LogsAreLive'
  <2>1. PICK w : w = Field("code", a)
    OBVIOUS
  <2>2. w \in Loc /\ w.kind = "code" /\ w.acc = a /\ cur[w] # Absent
    BY <1>6, <2>1, FieldKinds, LocFacts DEF SetCode, TypeOK, AccountKind
  <2>3. v \in Val
    BY JournalAssumption
  <2>4. v # 0 \/ Observe(cur)[Field("nonce", a)] # 0
    <3>1. cur[Field("nonce", a)] # Absent
      BY <1>6, FieldKinds DEF SetCode, TypeOK, AccountKind
    <3>2. Observe(cur)[Field("nonce", a)] = cur[Field("nonce", a)]
      BY <3>1, FieldKinds DEF Observe
    <3> QED BY <1>6, <3>2 DEF SetCode
  <2>5. 0 # cur[w] => frames = <<>>
    BY <1>6, <2>1 DEF SetCode
  <2>6. Write(w, v, 0)
    BY <1>6, <2>1 DEF SetCode
  <2> QED BY <2>2, <2>3, <2>4, <2>5, <2>6, SmallValues, WriteEntry, WriteLogs
<1>7. ASSUME NEW a \in Acc, NEW k \in Key, InitSlot(a, k) PROVE EntryInv' /\ LogsAreLive'
  <2>1. PICK m : m = Cell("store", a, k)
    OBVIOUS
  <2>2. m \in SlotLoc /\ m \in BackedLoc /\ m \in Loc
    BY <2>1, LocFacts
  <2>3. /\ cur[m] = Absent /\ ~applied
        /\ \A l \in Loc : cur'[l] = IF l = m THEN Chain[m] ELSE cur[l]
        /\ \A l \in SlotLoc : orig'[l] = IF l = m THEN Chain[m] ELSE orig[l]
    BY <1>7, <2>1, <2>2 DEF InitSlot, TypeOK
  <2>4. \A l \in Loc : Observe(cur)'[l] = Observe(cur)[l]
    BY <2>2, <2>3 DEF Observe
  <2>5. \A l \in TxLoc : cur'[l] = cur[l]
    BY <2>2, <2>3, LocFacts
  <2>6. UNCHANGED <<events, frames, base, gaps, applied, logs>>
    BY <1>7 DEF InitSlot
  <2>7. base[m] = Chain[m]
    BY <2>2, <2>3 DEF EntryInv, SlotsKnown
  <2>8. Chain[m] # Absent
    BY <2>2, JournalAssumption
  <2>9. SlotsKnown'
    BY <2>3, <2>6, <2>7, <2>8, LocFacts DEF EntryInv, SlotsKnown
  <2> QED BY <2>4, <2>5, <2>6, <2>9, FillEntry DEF LogsAreLive, LogsSince, Since
<1>8. ASSUME NEW a \in Acc, NEW k \in Key, NEW v \in Input["store"], Put(a, k, v)
      PROVE EntryInv' /\ LogsAreLive'
  <2>1. PICK w : w = Cell("store", a, k)
    OBVIOUS
  <2>2. /\ w \in Loc /\ w \in SlotLoc /\ w.kind = "store" /\ w.acc = a
        /\ cur[w] # Absent /\ cur[w] \in Val
    BY <1>8, <2>1, Kinds, LocFacts DEF Put, TypeOK
  <2>3. v \in Val
    BY JournalAssumption
  <2>4. Cached(a) /\ RunsCode(a)
    BY <1>8, <2>2 DEF Put, TypeOK
  <2>5. ~Blank(Observe(cur), a)
    BY <2>4, RunsCodeEntry
  <2> QED BY <1>8, <2>1, <2>2, <2>3, <2>5, WriteEntry, WriteLogs DEF Put
<1>9. ASSUME NEW a \in Acc, NEW k \in Key, NEW v \in Input["temp"], TPut(a, k, v)
      PROVE EntryInv' /\ LogsAreLive'
  <2>1. PICK w : w = Cell("temp", a, k)
    OBVIOUS
  <2>2. /\ w \in Loc /\ w.kind = "temp" /\ cur[w] # Absent /\ cur[w] \in Val
    BY <2>1, LocFacts, FieldFacts, JournalAssumption DEF TypeOK
  <2>3. v \in Val
    BY JournalAssumption
  <2> QED BY <1>9, <2>1, <2>2, <2>3, WriteEntry, WriteLogs DEF TPut
<1>10. ASSUME NEW l \in Touched, Warm(l) PROVE EntryInv' /\ LogsAreLive'
  <2>1. l \in Loc /\ cur[l] # Absent
    BY LocFacts, JournalAssumption DEF TypeOK
  <2> QED BY <1>10, <2>1, SmallValues, WriteEntry, WriteLogs DEF Warm
<1>11. ASSUME Log PROVE EntryInv' /\ LogsAreLive'
  BY <1>11, LogEntry, LogLogs
<1>12. ASSUME Checkpoint PROVE EntryInv' /\ LogsAreLive'
  BY <1>12, CheckpointEntry DEF Checkpoint, LogsAreLive, LogsSince, Since
<1>13. ASSUME Commit PROVE EntryInv' /\ LogsAreLive'
  BY <1>13, CommitEntry DEF Commit, LogsAreLive, LogsSince, Since
<1>14. ASSUME RevertTo PROVE EntryInv' /\ LogsAreLive'
  BY <1>14, RevertEntry, RevertLogs
<1>15. ASSUME Apply PROVE EntryInv' /\ LogsAreLive'
  BY <1>15, ApplyEntry DEF Apply, LogsAreLive, LogsSince, Since
<1>16. ASSUME Reset \/ Purge PROVE EntryInv' /\ LogsAreLive'
  <2>1. Starts'
    BY <1>16, ResetEntry, PurgeEntry
  <2>2. TypeOK'
    BY StepType
  <2>3. EntryInv'
    BY <2>1, <2>2, StartsEntry, PTL
  <2>4. logs' = <<>> /\ events' = <<>>
    BY <1>16 DEF Reset, Purge
  <2>5. DOMAIN logs' = {} /\ DOMAIN events' = {}
    BY <2>4
  <2> QED BY <2>3, <2>5 DEF LogsAreLive, LogsSince, Since
<1>17. ASSUME UNCHANGED vars PROVE EntryInv' /\ LogsAreLive'
  <2>1. EntryInv'
    <3>1. SlotsKnown'
      BY <1>17 DEF vars, EntryInv, SlotsKnown
    <3> QED BY <1>17, <3>1, FillEntry DEF vars, Observe
  <2> QED BY <1>17, <2>1 DEF vars, LogsAreLive, LogsSince, Since
<1> QED BY <1>1, <1>2, <1>3, <1>4, <1>5, <1>6, <1>7, <1>8, <1>9, <1>10, <1>11, <1>12,
           <1>13, <1>14, <1>15, <1>16, <1>17 DEF Next

LEMMA EntryInvGives ==
  ASSUME TypeOK, EntryInv
  PROVE  OriginalIsTxStart /\ DestroyedWereCreated
<1>1. OriginalIsTxStart
  BY DEF EntryInv, SlotsKnown, OriginalIsTxStart
<1>2. ASSUME NEW a \in Acc, Marked("destroyed", a)
      PROVE  Marked("created", a) /\ Blank(base, a)
  <2>1. cur[Field("created", a)] = 1
    BY <1>2 DEF EntryInv, MarksHaveEvents, Marked
  <2>2. Observe(cur)[Field("created", a)] = 1
    BY <2>1, FieldKinds, LocFacts DEF Observe
  <2> QED BY <2>1, <2>2 DEF EntryInv, StatesSound, Sound, Marked
<1> QED BY <1>1, <1>2 DEF DestroyedWereCreated, Blank

LEMMA EntryAlways == Spec => [](TypeOK /\ EntryInv /\ LogsAreLive)
<1>1. Init => TypeOK /\ JInv /\ EntryInv /\ LogsAreLive
  <2>1. Init => LogsAreLive
    BY NoLogs DEF Init
  <2>2. Init => JInv
    BY NoFramesJInv DEF Init
  <2> QED BY <2>1, <2>2, InitType, InitEntry
<1>2. TypeOK /\ JInv /\ EntryInv /\ LogsAreLive /\ [Next]_vars
        => (TypeOK /\ JInv /\ EntryInv /\ LogsAreLive)'
  BY StepType, StepJInv, StepEntry
<1> QED BY <1>1, <1>2, PTL DEF Spec

\* The journal leaves unrecorded only balances and marks of addresses that had
\* neither nonce nor code when the transaction began (cache.rs create, destroy).
THEOREM GapsCorrect == Spec => []GapsAreKnown
<1>1. EntryInv => GapsAreKnown
  BY DEF EntryInv
<1> QED BY <1>1, EntryAlways, PTL

\* revert_to, which counts the live log events it undoes and cuts as many logs
\* off the end, always cuts exactly the logs of the frames that failed.
THEOREM LogsCorrect == Spec => []LogsAreLive
BY EntryAlways, PTL

\* SSTORE is charged from the value a slot had when the transaction began,
\* also where the entry was dropped in between and asked for again (cache.rs
\* create, revert_to and init).
THEOREM OriginalCorrect == Spec => []OriginalIsTxStart
<1>1. TypeOK /\ EntryInv => OriginalIsTxStart
  BY EntryInvGives
<1> QED BY <1>1, EntryAlways, PTL

\* apply deletes only accounts that this transaction created and that were
\* blank before it, whatever frames were reverted (cache.rs destroy, apply).
THEOREM DestroyedCorrect == Spec => []DestroyedWereCreated
<1>1. TypeOK /\ EntryInv => DestroyedWereCreated
  BY EntryInvGives
<1> QED BY <1>1, EntryAlways, PTL
=============================================================================
