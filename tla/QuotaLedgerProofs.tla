-------------------------- MODULE QuotaLedgerProofs --------------------------
(***************************************************************************)
(* Proofs about QuotaLedger, for any number of writers, levels, revisions  *)
(* and slots.                                                              *)
(***************************************************************************)
EXTENDS QuotaLedger, FiniteSetTheorems, SequenceTheorems, TLAPS

-----------------------------------------------------------------------------
(* Totals.                                                                 *)

\* The disjoint union Total counts.
Units(f) == UNION {{i} \X (1..f[i]) : i \in DOMAIN f}

\* A total of byte counts over a finite index set is a natural number.
LEMMA TotalType ==
    ASSUME NEW S, IsFiniteSet(S), NEW f \in [S -> Bytes]
    PROVE  IsFiniteSet(Units(f)) /\ Total(f) \in Nat
<1>1. IsFiniteSet(1..MaxU64)
  BY FS_Interval, QuotaAssumption
<1>2. IsFiniteSet(S \X (1..MaxU64))
  BY <1>1, FS_Product
<1>3. Units(f) \in SUBSET (S \X (1..MaxU64))
  <2> SUFFICES ASSUME NEW u \in Units(f) PROVE u \in S \X (1..MaxU64)
    OBVIOUS
  <2>1. PICK i \in S : u \in {i} \X (1..f[i])
    BY DEF Units
  <2>2. f[i] \in 0..MaxU64
    BY DEF Bytes
  <2>3. 1..f[i] \subseteq 1..MaxU64
    BY <2>2, QuotaAssumption
  <2> QED
    BY <2>1, <2>3
<1>4. IsFiniteSet(Units(f))
  BY <1>2, <1>3, FS_Subset
<1> QED
  BY <1>4, FS_CardinalityType DEF Total, Units

\* A family that is zero at one index, and its copy that has b bytes there.
LEMMA TotalAdd ==
    ASSUME NEW S, IsFiniteSet(S), NEW f \in [S -> Bytes], NEW g \in [S -> Bytes],
           NEW w \in S, f[w] = 0, \A v \in S \ {w} : f[v] = g[v]
    PROVE  Total(g) = Total(f) + g[w]
<1> DEFINE New == {w} \X (1..g[w])
<1>1. g[w] \in Nat
  BY QuotaAssumption DEF Bytes
<1>2. IsFiniteSet(New) /\ Cardinality(New) = g[w]
  <2>1. IsFiniteSet({w}) /\ Cardinality({w}) = 1
    BY FS_Singleton
  <2>2. IsFiniteSet(1..g[w]) /\ Cardinality(1..g[w]) = g[w]
    BY <1>1, FS_Interval
  <2>3. Cardinality(New) = Cardinality({w}) * Cardinality(1..g[w])
    BY <2>1, <2>2, FS_Product
  <2> QED
    BY <1>1, <2>1, <2>2, <2>3, FS_Product
<1>3. Units(g) = Units(f) \cup New
  <2>1. ASSUME NEW u \in Units(g) PROVE u \in Units(f) \cup New
    <3>1. PICK i \in S : u \in {i} \X (1..g[i])
      BY DEF Units
    <3>2. CASE i = w
      BY <3>1, <3>2
    <3>3. CASE i # w
      BY <3>1, <3>3 DEF Units
    <3> QED
      BY <3>2, <3>3
  <2>2. ASSUME NEW u \in Units(f) PROVE u \in Units(g)
    <3>1. PICK i \in S : u \in {i} \X (1..f[i])
      BY DEF Units
    <3>2. i # w
      BY <3>1
    <3> QED
      BY <3>1, <3>2 DEF Units
  <2>3. New \subseteq Units(g)
    BY DEF Units
  <2> QED
    BY <2>1, <2>2, <2>3
<1>4. Units(f) \cap New = {}
  <2> SUFFICES ASSUME NEW u \in Units(f), u \in New PROVE FALSE
    OBVIOUS
  <2>1. PICK i \in S : u \in {i} \X (1..f[i])
    BY DEF Units
  <2>2. i = w
    BY <2>1
  <2> QED
    BY <2>1, <2>2
<1>5. IsFiniteSet(Units(f)) /\ Cardinality(Units(f)) \in Nat
  BY TotalType, FS_CardinalityType
<1>6. Cardinality(Units(g)) = Cardinality(Units(f)) + Cardinality(New) - Cardinality({})
  BY <1>2, <1>3, <1>4, <1>5, FS_Union
<1> QED
  BY <1>1, <1>2, <1>5, <1>6, FS_EmptySet DEF Total, Units

\* A family of zeros.
LEMMA TotalZero ==
    ASSUME NEW S, NEW f \in [S -> {0}]
    PROVE  Total(f) = 0
<1>1. Units(f) = {}
  BY DEF Units
<1> QED
  BY <1>1, FS_EmptySet DEF Total, Units

-----------------------------------------------------------------------------
(* Counters.                                                               *)

SlotSet == [end : Nat, bytes : Bytes]

\* A saturating sum of u64 values is one (u64::saturating_add).
LEMMA SatAddType ==
    ASSUME NEW a \in Bytes, NEW b \in Bytes
    PROVE  SatAdd(a, b) \in Bytes
BY QuotaAssumption DEF SatAdd, Bytes

\* A saturating difference is a u64 value (u64::saturating_sub).
LEMMA SatSubType ==
    ASSUME NEW a \in Bytes, NEW b \in Nat
    PROVE  SatSub(a, b) \in Bytes
BY QuotaAssumption DEF SatSub, Bytes

\* A counter starts typed, with nothing in flight (Counter::new).
LEMMA NewCounterType ==
    ASSUME NEW q \in QuotaSpecs
    PROVE  NewCounter(q) \in Counter /\ NewCounter(q).in_flight = 0
<1>1. <<>> \in Seq(SlotSet)
  BY EmptySeq
<1> QED
  BY <1>1, QuotaAssumption DEF NewCounter, Counter, QuotaSpecs, SlotSet, Bytes

\* The covered slots are a prefix of the queue (Counter::observe).
LEMMA CoveredSlotsType ==
    ASSUME NEW slots \in Seq(SlotSet), NEW covered
    PROVE  CoveredSlots(slots, covered) \in 0..Len(slots)
<1> DEFINE C == {i \in DOMAIN slots : \A j \in 1..i : slots[j].end <= covered}
<1>1. Len(slots) \in Nat /\ DOMAIN slots = 1..Len(slots)
  BY LenProperties
<1>2. IsFiniteSet(DOMAIN slots) /\ Cardinality(DOMAIN slots) = Len(slots)
  BY <1>1, FS_Interval
<1>3. C \in SUBSET (DOMAIN slots)
  OBVIOUS
<1>4. IsFiniteSet(C) /\ Cardinality(C) <= Len(slots)
  BY <1>2, <1>3, FS_Subset
<1>5. Cardinality(C) \in Nat
  BY <1>4, FS_CardinalityType
<1> QED
  BY <1>1, <1>4, <1>5 DEF CoveredSlots

\* Observing a collection yields a counter that has the same bytes in flight, and the newer
\* of the two collections.
LEMMA ObserveProperties ==
    ASSUME NEW c \in Counter, NEW q \in QuotaSpecs
    PROVE  /\ Observe(c, q) \in Counter
           /\ Observe(c, q).in_flight = c.in_flight
           /\ Observe(c, q).collected_at >= c.collected_at
           /\ Observe(c, q).collected_at >= q.collected_at
           /\ Observe(c, q).collected_at \in {c.collected_at, q.collected_at}
<1> DEFINE n == CoveredSlots(c.settled, FloorSecond(q.collected_at))
           dropped == [i \in 1..n |-> c.settled[i].bytes]
           rest == SubSeq(c.settled, n + 1, Len(c.settled))
<1>0. c.collected_at \in Time /\ q.collected_at \in Time /\ Time \subseteq Int
  BY QuotaAssumption DEF Counter, QuotaSpecs, Time
<1>1. c.settled \in Seq(SlotSet) /\ q.used_bytes \in Bytes /\ c.settled_bytes \in Bytes
  BY DEF Counter, QuotaSpecs, SlotSet
<1>2. n \in 0..Len(c.settled) /\ Len(c.settled) \in Nat
  BY <1>1, CoveredSlotsType, LenProperties
<1>3. \A i \in 1..Len(c.settled) : c.settled[i] \in SlotSet
  BY <1>1, ElementOfSeq
<1>4. rest \in Seq(SlotSet)
  <2> HIDE DEF n
  <2>1. \A i \in n + 1 .. Len(c.settled) : c.settled[i] \in SlotSet
    BY <1>2, <1>3
  <2> QED
    BY <1>2, <2>1, SubSeqProperties
<1>5. dropped \in [1..n -> Bytes]
  <2> HIDE DEF n
  <2> QED
    BY <1>2, <1>3 DEF SlotSet
<1>6. Total(dropped) \in Nat
  <2> HIDE DEF n, dropped
  <2>1. IsFiniteSet(1..n)
    BY <1>2, FS_Interval
  <2> QED
    BY <1>5, <2>1, TotalType
<1>7. SatSub(c.settled_bytes, Total(dropped)) \in Bytes
  BY <1>1, <1>6, SatSubType
<1>8. CASE q.collected_at <= c.collected_at
  BY <1>0, <1>8 DEF Observe
<1>9. CASE ~(q.collected_at <= c.collected_at)
  <2>1. Observe(c, q) = [c EXCEPT !.collected_at = q.collected_at,
                                  !.used_bytes = q.used_bytes,
                                  !.settled = rest,
                                  !.settled_bytes = SatSub(@, Total(dropped))]
    BY <1>9 DEF Observe
  <2> HIDE DEF n, dropped, rest
  <2>2. [c EXCEPT !.collected_at = q.collected_at, !.used_bytes = q.used_bytes,
                  !.settled = rest, !.settled_bytes = SatSub(@, Total(dropped))] \in Counter
    BY <1>0, <1>1, <1>4, <1>7 DEF Counter, SlotSet
  <2>3. /\ Observe(c, q).in_flight = c.in_flight
        /\ Observe(c, q).collected_at = q.collected_at
    BY <2>1 DEF Counter
  <2> QED
    BY <1>0, <1>9, <2>1, <2>2, <2>3
<1> QED
  BY <1>8, <1>9

\* Adding a completed write, merging at the cap, gives a queue of slots (Counter::settle).
LEMMA AddToSlotsType ==
    ASSUME NEW slots \in Seq(SlotSet), NEW end \in Nat, NEW b \in Bytes
    PROVE  AddToSlots(slots, end, b) \in Seq(SlotSet)
<1> DEFINE n == Len(slots)
           longer == Append(slots, [end |-> end, bytes |-> b])
           fuller == [slots EXCEPT ![n].bytes = SatAdd(@, b)]
           grown == IF n > 0 /\ slots[n].end >= end THEN fuller ELSE longer
           merged == [Tail(grown) EXCEPT ![1].bytes = SatAdd(@, grown[1].bytes)]
<1>1. n \in Nat /\ \A i \in 1..n : slots[i] \in SlotSet
  BY LenProperties, ElementOfSeq
<1>2. longer \in Seq(SlotSet)
  BY DEF SlotSet
<1>3. ASSUME n > 0 PROVE fuller \in Seq(SlotSet)
  <2>1. slots[n] \in SlotSet
    BY <1>1, <1>3
  <2>2. [slots[n] EXCEPT !.bytes = SatAdd(@, b)] \in SlotSet
    BY <2>1, SatAddType DEF SlotSet
  <2>3. fuller = [slots EXCEPT ![n] = [slots[n] EXCEPT !.bytes = SatAdd(@, b)]]
    OBVIOUS
  <2> QED
    BY <1>1, <1>3, <2>2, <2>3, ExceptSeq
<1>4. grown \in Seq(SlotSet)
  BY <1>2, <1>3
<1>5. ASSUME Len(grown) > MaxSettledSlots PROVE merged \in Seq(SlotSet)
  <2> HIDE DEF grown
  <2>1. Len(grown) \in Nat /\ Len(grown) > 1 /\ grown # <<>>
    BY <1>4, <1>5, QuotaAssumption, LenProperties, EmptySeq
  <2>2. Tail(grown) \in Seq(SlotSet) /\ Len(Tail(grown)) = Len(grown) - 1
    BY <1>4, <2>1, HeadTailProperties
  <2>3. Tail(grown)[1] \in SlotSet /\ grown[1] \in SlotSet
    BY <1>4, <2>1, <2>2, ElementOfSeq
  <2>4. [Tail(grown)[1] EXCEPT !.bytes = SatAdd(@, grown[1].bytes)] \in SlotSet
    BY <2>3, SatAddType DEF SlotSet
  <2> DEFINE first == [Tail(grown)[1] EXCEPT !.bytes = SatAdd(@, grown[1].bytes)]
  <2>5. merged = [Tail(grown) EXCEPT ![1] = first]
    OBVIOUS
  <2>6. 1 \in 1..Len(Tail(grown))
    BY <2>1, <2>2
  <2> HIDE DEF merged, first
  <2>7. [Tail(grown) EXCEPT ![1] = first] \in Seq(SlotSet)
    BY <2>2, <2>4, <2>6, ExceptSeq DEF first
  <2> QED
    BY <2>5, <2>7
<1> QED
  BY <1>4, <1>5 DEF AddToSlots

\* A completion time is rounded to a whole second.
LEMMA CeilSecondType ==
    ASSUME NEW t \in Nat
    PROVE  CeilSecond(t) \in Nat
<1>1. t + TicksPerSecond - 1 \in Nat /\ TicksPerSecond \in Nat \ {0}
  BY QuotaAssumption
<1> QED
  BY <1>1 DEF CeilSecond

\* Settling yields a counter with the write's bytes out of flight and the same basis.
LEMMA SettleProperties ==
    ASSUME NEW c \in Counter, NEW b \in Bytes, NEW committed \in BOOLEAN, NEW at \in Nat
    PROVE  /\ Settle(c, b, committed, at) \in Counter
           /\ Settle(c, b, committed, at).in_flight = SatSub(c.in_flight, b)
           /\ Settle(c, b, committed, at).collected_at = c.collected_at
<1>1. c.settled \in Seq(SlotSet) /\ c.settled_bytes \in Bytes /\ c.in_flight \in Bytes
  BY DEF Counter, SlotSet
<1>2. b \in Nat
  BY QuotaAssumption DEF Bytes
<1>3. SatSub(c.in_flight, b) \in Bytes /\ SatAdd(c.settled_bytes, b) \in Bytes
  BY <1>1, <1>2, SatAddType, SatSubType
<1>4. AddToSlots(c.settled, CeilSecond(at), b) \in Seq(SlotSet)
  BY <1>1, CeilSecondType, AddToSlotsType
<1> QED
  BY <1>3, <1>4 DEF Settle, Counter, SlotSet

-----------------------------------------------------------------------------
(* The ledger's map.                                                       *)

LedgerType(cs) == DOMAIN cs \subseteq Scopes /\ \A s \in DOMAIN cs : cs[s] \in Counter

InFlightOf(cs, s) == IF s \in DOMAIN cs THEN cs[s].in_flight ELSE 0

Table(g) == tables[g] \in [Scopes -> QuotaSpecs]

\* A sweep never touches a byte in flight: it only drops counters that hold none.
LEMMA SweepProperties ==
    ASSUME LedgerType(counters), NEW g, Table(g)
    PROVE  /\ LedgerType(Sweep(g))
           /\ \A s \in Scopes : InFlightOf(Sweep(g), s) = InFlightOf(counters, s)
           /\ \A s \in DOMAIN Sweep(g) :
                 /\ s \in DOMAIN counters
                 /\ Sweep(g)[s].collected_at >= counters[s].collected_at
<1>0. \A s \in DOMAIN counters : counters[s].collected_at \in Int /\ counters[s].in_flight \in Nat
  BY QuotaAssumption DEF LedgerType, Counter, Time, Bytes
<1>1. CASE g <= swept
  BY <1>0, <1>1 DEF Sweep
<1>2. CASE ~(g <= swept)
  <2> DEFINE Brought(s) == IF Limited(g, s) THEN Observe(counters[s], tables[g][s])
                                            ELSE counters[s]
             kept == {s \in DOMAIN counters :
                        /\ Limited(g, s) \/ counters[s].in_flight > 0
                        /\ ~IsEmpty(Brought(s))}
  <2>1. Sweep(g) = [s \in kept |-> Brought(s)]
    BY <1>2 DEF Sweep
  <2>2. ASSUME NEW s \in DOMAIN counters
        PROVE  /\ Brought(s) \in Counter
               /\ Brought(s).in_flight = counters[s].in_flight
               /\ Brought(s).collected_at >= counters[s].collected_at
    <3>1. counters[s] \in Counter /\ tables[g][s] \in QuotaSpecs
      BY DEF LedgerType, Table
    <3> QED
      BY <1>0, <3>1, ObserveProperties
  <2> HIDE DEF Brought
  <2>3. ASSUME NEW s \in DOMAIN counters, s \notin kept
        PROVE  counters[s].in_flight = 0
    BY <1>0, <2>2, <2>3 DEF IsEmpty
  <2> HIDE DEF kept
  <2>4. kept \subseteq DOMAIN counters
    BY DEF kept
  <2> QED
    BY <2>1, <2>2, <2>3, <2>4 DEF LedgerType, InFlightOf
<1> QED
  BY <1>1, <1>2

\* Looking a level up for admission keeps what is in flight and never an older basis (admit).
LEMMA EntryProperties ==
    ASSUME NEW cs, LedgerType(cs), NEW g, Table(g), NEW s \in Scopes
    PROVE  /\ Entry(cs, g, s) \in Counter
           /\ Entry(cs, g, s).in_flight = InFlightOf(cs, s)
           /\ s \in DOMAIN cs => Entry(cs, g, s).collected_at >= cs[s].collected_at
           /\ Entry(cs, g, s).collected_at >= tables[g][s].collected_at
<1> DEFINE c == IF s \in DOMAIN cs THEN cs[s] ELSE NewCounter(tables[g][s])
<1>1. tables[g][s] \in QuotaSpecs
  BY DEF Table
<1>2. c \in Counter /\ c.in_flight = InFlightOf(cs, s)
  BY <1>1, NewCounterType DEF LedgerType, InFlightOf
<1>3. Entry(cs, g, s) = Observe(c, tables[g][s])
  BY DEF Entry
<1> HIDE DEF c
<1>4. /\ Entry(cs, g, s) \in Counter
      /\ Entry(cs, g, s).in_flight = InFlightOf(cs, s)
      /\ Entry(cs, g, s).collected_at >= c.collected_at
      /\ Entry(cs, g, s).collected_at >= tables[g][s].collected_at
  BY <1>1, <1>2, <1>3, ObserveProperties
<1> QED
  BY <1>4 DEF c

\* Entering counters for several levels changes nothing in flight (admit).
LEMMA EnteredProperties ==
    ASSUME NEW cs, LedgerType(cs), NEW g, Table(g), NEW levels \in SUBSET Scopes
    PROVE  /\ LedgerType(Entered(cs, g, levels))
           /\ \A s \in Scopes : InFlightOf(Entered(cs, g, levels), s) = InFlightOf(cs, s)
<1>1. \A s \in levels : /\ Entry(cs, g, s) \in Counter
                        /\ Entry(cs, g, s).in_flight = InFlightOf(cs, s)
  BY EntryProperties
<1> QED
  BY <1>1 DEF Entered, LedgerType, InFlightOf

\* Reserving adds the bytes at the levels of the write and nowhere else (admit).
LEMMA InFlightProperties ==
    ASSUME NEW cs, LedgerType(cs), NEW levels \in SUBSET DOMAIN cs, NEW b \in Bytes
    PROVE  /\ LedgerType(InFlight(cs, levels, b))
           /\ DOMAIN InFlight(cs, levels, b) = DOMAIN cs
           /\ \A s \in levels : InFlightOf(InFlight(cs, levels, b), s) = SatAdd(InFlightOf(cs, s), b)
           /\ \A s \in Scopes \ levels : InFlightOf(InFlight(cs, levels, b), s) = InFlightOf(cs, s)
           /\ \A s \in DOMAIN cs :
                 InFlight(cs, levels, b)[s].collected_at = cs[s].collected_at
<1>1. ASSUME NEW s \in DOMAIN cs
      PROVE  /\ [cs[s] EXCEPT !.in_flight = SatAdd(@, b)] \in Counter
             /\ [cs[s] EXCEPT !.in_flight = SatAdd(@, b)].in_flight = SatAdd(cs[s].in_flight, b)
             /\ [cs[s] EXCEPT !.in_flight = SatAdd(@, b)].collected_at = cs[s].collected_at
  <2>1. cs[s] \in Counter /\ cs[s].in_flight \in Bytes
    BY DEF LedgerType, Counter
  <2>2. SatAdd(cs[s].in_flight, b) \in Bytes
    BY <2>1, SatAddType
  <2> QED
    BY <2>1, <2>2 DEF Counter
<1> QED
  BY <1>1 DEF InFlight, LedgerType, InFlightOf

\* Settling removes no counter and keeps the types (QuotaLedger::settle).
LEMMA SettleAllProperties ==
    ASSUME LedgerType(counters), NEW levels \in SUBSET Scopes, NEW b \in Bytes,
           NEW committed \in BOOLEAN, NEW at \in Nat
    PROVE  /\ LedgerType(SettleAll(levels, b, committed, at))
           /\ DOMAIN SettleAll(levels, b, committed, at) = DOMAIN counters
           /\ \A s \in DOMAIN counters :
                 SettleAll(levels, b, committed, at)[s].collected_at = counters[s].collected_at
<1>1. \A s \in DOMAIN counters :
         /\ Settle(counters[s], b, committed, at) \in Counter
         /\ Settle(counters[s], b, committed, at).in_flight = SatSub(counters[s].in_flight, b)
         /\ Settle(counters[s], b, committed, at).collected_at = counters[s].collected_at
  BY SettleProperties DEF LedgerType
<1> QED
  BY <1>1 DEF SettleAll, LedgerType

\* Settling takes the bytes off exactly the levels of the reservation (QuotaLedger::settle).
LEMMA SettleAllInFlight ==
    ASSUME LedgerType(counters), NEW levels \in SUBSET Scopes, NEW b \in Bytes,
           NEW committed \in BOOLEAN, NEW at \in Nat, NEW s \in Scopes
    PROVE  InFlightOf(SettleAll(levels, b, committed, at), s)
              = IF s \in levels THEN SatSub(InFlightOf(counters, s), b)
                                ELSE InFlightOf(counters, s)
<1>1. ASSUME s \in DOMAIN counters
      PROVE  Settle(counters[s], b, committed, at).in_flight = SatSub(counters[s].in_flight, b)
  BY <1>1, SettleProperties DEF LedgerType
<1>2. SatSub(0, b) = 0
  BY QuotaAssumption DEF SatSub, Bytes
<1> QED
  BY <1>1, <1>2 DEF SettleAll, InFlightOf

-----------------------------------------------------------------------------
(* Type correctness and exact in-flight accounting.                        *)

\* The levels of a target are among the levels counted.
LEMMA LevelsInScopes ==
    ASSUME NEW t \in Targets
    PROVE  /\ Levels(t) \subseteq Scopes
           /\ \A i \in 1..3 : ScopesOf(t)[i] \in Levels(t)
BY DEF Scopes, Levels

\* An idle request is typed.
LEMMA IdleType == Idle \in WriterType /\ AnyTarget \in Targets
<1>1. AnyTarget \in Targets
  BY QuotaAssumption DEF AnyTarget
<1> QED
  BY <1>1, QuotaAssumption DEF Idle, WriterType, Bytes

\* What a request pinned, in a state of the right type.
LEMMA PinnedFacts ==
    ASSUME TypeOK, NEW w \in Writers, writer[w].phase = "pinned"
    PROVE  /\ writer[w].gen \in 1..Len(tables)
           /\ writer[w].target \in Targets
           /\ Table(writer[w].gen)
           /\ Applicable(writer[w].gen, writer[w].target) \in SUBSET Scopes
           /\ \A cs, b : Reached(cs, writer[w].gen, writer[w].target, b) \in SUBSET Scopes
<1>1. writer[w].gen \in 1..Len(tables) /\ writer[w].target \in Targets
  BY DEF TypeOK, WriterType
<1>2. Table(writer[w].gen)
  BY <1>1, ElementOfSeq DEF TypeOK, Table
<1>3. Levels(writer[w].target) \subseteq Scopes
  BY <1>1, LevelsInScopes
<1> QED
  BY <1>1, <1>2, <1>3, LevelsInScopes DEF Applicable, Reached

\* The bytes held in flight at a level, writer by writer.
HeldAt(s) == [w \in Writers |-> HeldBy(w, s)]

\* What each request holds at a level is a family of byte counts.
LEMMA HeldAtType ==
    ASSUME TypeOK, NEW s
    PROVE  HeldAt(s) \in [Writers -> Bytes]
<1>1. \A w \in Writers : writer[w].bytes \in Bytes
  BY DEF TypeOK, WriterType
<1> QED
  BY <1>1, QuotaAssumption DEF HeldAt, HeldBy, Bytes

\* The first settle of a reservation takes exactly its own bytes out of flight; a later one
\* changes nothing.
LEMMA SettleStep ==
    ASSUME TypeOK, InFlightExact, NEW w \in Writers, Reserved(w),
           NEW committed \in BOOLEAN, NEW k \in StepBacks,
           SettleReservation(w, committed, k),
           NEW r \in WriterType, r.phase # "reserved" \/ r.settled,
           writer' = [writer EXCEPT ![w] = r]
    PROVE  LedgerType(counters') /\ InFlightExact'
<1> DEFINE b == writer[w].bytes
           held == writer[w].held
           at == now - k
<1>0. /\ LedgerType(counters) /\ b \in Bytes /\ held \in SUBSET Scopes
      /\ writer[w].settled \in BOOLEAN /\ at \in Nat
  BY QuotaAssumption DEF TypeOK, LedgerType, WriterType, StepBacks, Time
<1>1. writer'[w] = r /\ \A v \in Writers \ {w} : writer'[v] = writer[v]
  BY DEF TypeOK
<1>2. \A s : HeldBy(w, s)' = 0 /\ \A v \in Writers \ {w} : HeldBy(v, s)' = HeldBy(v, s)
  BY <1>1 DEF HeldBy, Reserved
<1>3. CASE writer[w].settled
  <2>1. counters' = counters
    BY <1>3 DEF SettleReservation
  <2>2. \A s : HeldBy(w, s) = 0
    BY <1>3 DEF HeldBy
  <2>3. \A s : HeldAt(s)' = HeldAt(s)
    BY <1>2, <2>2 DEF HeldAt
  <2> QED
    BY <1>0, <2>1, <2>3 DEF InFlightExact, HeldAt
<1>4. CASE ~writer[w].settled
  <2>1. counters' = SettleAll(held, b, committed, at)
    BY <1>4 DEF SettleReservation
  <2> HIDE DEF b, held, at
  <2>2. LedgerType(counters')
    BY <1>0, <2>1, SettleAllProperties
  <2>3. ASSUME NEW s \in Scopes
        PROVE  Total(HeldAt(s)') = InFlightOf(counters', s)
    <3> DEFINE after == HeldAt(s)'
               before == HeldAt(s)
    <3>1. before \in [Writers -> Bytes] /\ before[w] = IF s \in held THEN b ELSE 0
      BY <1>4, HeldAtType DEF HeldAt, HeldBy, held, b
    <3>2. /\ after = [v \in Writers |-> IF v = w THEN 0 ELSE before[v]]
          /\ after \in [Writers -> Bytes] /\ after[w] = 0
          /\ \A v \in Writers \ {w} : after[v] = before[v]
      BY <1>2, <3>1, QuotaAssumption DEF HeldAt, Bytes
    <3> HIDE DEF after, before
    <3>3. Total(before) = Total(after) + before[w]
      BY <3>1, <3>2, TotalAdd, QuotaAssumption
    <3>4. Total(after) \in Nat
      BY <3>2, TotalType, QuotaAssumption
    <3>5. Total(before) = InFlightOf(counters, s)
      BY DEF InFlightExact, InFlightOf, before, HeldAt
    <3>6. InFlightOf(counters', s) = IF s \in held THEN SatSub(InFlightOf(counters, s), b)
                                                   ELSE InFlightOf(counters, s)
      BY <1>0, <2>1, SettleAllInFlight
    <3>7. b \in Nat
      BY <1>0, QuotaAssumption DEF Bytes
    <3>8. Total(after) = InFlightOf(counters', s)
      BY <3>1, <3>3, <3>4, <3>5, <3>6, <3>7 DEF SatSub
    <3> QED
      BY <3>8 DEF after
  <2>4. InFlightExact'
    BY <2>3 DEF InFlightExact, InFlightOf, HeldAt
  <2> QED
    BY <2>2, <2>4
<1> QED
  BY <1>0, <1>3, <1>4

\* A level with room takes the bytes without saturating: the check just passed bounds them.
LEMMA RoomMeansNoSaturation ==
    ASSUME NEW cs, LedgerType(cs), NEW g, Table(g), NEW s \in Scopes, NEW b \in Bytes,
           Limited(g, s), ~Exceeds(cs, g, s, b)
    PROVE  SatAdd(InFlightOf(cs, s), b) = InFlightOf(cs, s) + b
<1> DEFINE e == Entry(cs, g, s)
<1>1. e \in Counter /\ e.in_flight = InFlightOf(cs, s)
  BY EntryProperties
<1>2. e.used_bytes \in 0..MaxU64 /\ e.in_flight \in 0..MaxU64 /\ e.settled_bytes \in 0..MaxU64
  BY <1>1 DEF Counter, Bytes
<1>3. ~(SatAdd(SatAdd(e.used_bytes, SatAdd(e.in_flight, e.settled_bytes)), b)
           > tables[g][s].limit_bytes)
  BY DEF Exceeds, Counted
<1>4. tables[g][s].limit_bytes \in 0..(MaxU64 - 1) \/ tables[g][s].limit_bytes = 0
  BY QuotaAssumption DEF Table, QuotaSpecs
<1>5. b \in 0..MaxU64 /\ MaxU64 \in Nat /\ MaxU64 > 0
  <2>1. PICK l : l \in Limits
    BY QuotaAssumption
  <2>2. l \in 0..(MaxU64 - 1)
    BY <2>1, QuotaAssumption
  <2> QED
    BY <2>2, QuotaAssumption DEF Bytes
<1> HIDE DEF e
<1>6. SatAdd(e.in_flight, b) = e.in_flight + b
  BY <1>2, <1>3, <1>4, <1>5 DEF SatAdd
<1> QED
  BY <1>1, <1>6

\* Admission adds exactly the write's bytes at every limited level of its target.
LEMMA ReserveStep ==
    ASSUME TypeOK, InFlightExact, NEW w \in Writers, NEW b \in Sizes, Reserve(w, b)
    PROVE  LedgerType(counters') /\ InFlightExact'
<1> DEFINE g == writer[w].gen
           t == writer[w].target
           levels == Applicable(g, t)
           cs == Sweep(g)
           entered == Entered(cs, g, levels)
<1>0. /\ LedgerType(counters) /\ b \in Bytes /\ writer[w].phase = "pinned"
      /\ counters' = InFlight(entered, levels, b)
      /\ writer' = [writer EXCEPT ![w] = [Idle EXCEPT !.phase = "reserved", !.gen = g,
                                             !.target = t, !.held = levels, !.bytes = b]]
      /\ \A s \in levels : Limited(g, s) /\ ~Exceeds(cs, g, s, b)
  BY QuotaAssumption DEF TypeOK, LedgerType, Reserve, Admitting, AllReadable, HasRoom
<1>1. Table(g) /\ levels \in SUBSET Scopes
  BY <1>0, PinnedFacts
<1>2. \A s : /\ HeldBy(w, s) = 0
             /\ HeldBy(w, s)' = IF s \in levels THEN b ELSE 0
             /\ \A v \in Writers \ {w} : HeldBy(v, s)' = HeldBy(v, s)
  BY <1>0 DEF HeldBy, Reserved, TypeOK, Idle
<1> HIDE DEF g, t, levels
<1>3. LedgerType(cs) /\ \A s \in Scopes : InFlightOf(cs, s) = InFlightOf(counters, s)
  BY <1>0, <1>1, SweepProperties
<1> HIDE DEF cs
<1>4. /\ LedgerType(entered) /\ levels \in SUBSET DOMAIN entered
      /\ \A s \in Scopes : InFlightOf(entered, s) = InFlightOf(cs, s)
  <2>1. LedgerType(entered) /\ \A s \in Scopes : InFlightOf(entered, s) = InFlightOf(cs, s)
    BY <1>1, <1>3, EnteredProperties
  <2>2. DOMAIN entered = DOMAIN cs \cup levels
    BY DEF Entered
  <2> HIDE DEF entered
  <2> QED
    BY <2>1, <2>2
<1> HIDE DEF entered
<1>5. /\ LedgerType(counters')
      /\ \A s \in levels : InFlightOf(counters', s) = SatAdd(InFlightOf(entered, s), b)
      /\ \A s \in Scopes \ levels : InFlightOf(counters', s) = InFlightOf(entered, s)
  BY <1>0, <1>4, InFlightProperties
<1>6. ASSUME NEW s \in Scopes
      PROVE  Total(HeldAt(s)') = InFlightOf(counters', s)
  <2> DEFINE after == HeldAt(s)'
             before == HeldAt(s)
  <2>1. before \in [Writers -> Bytes] /\ before[w] = 0
    BY <1>2, HeldAtType DEF HeldAt
  <2>2. /\ after = [v \in Writers |-> IF v = w THEN IF s \in levels THEN b ELSE 0
                                               ELSE before[v]]
    BY <1>2 DEF HeldAt
  <2> HIDE DEF after, before
  <2>3. /\ after \in [Writers -> Bytes]
        /\ after[w] = IF s \in levels THEN b ELSE 0
        /\ \A v \in Writers \ {w} : before[v] = after[v]
    BY <1>0, <2>1, <2>2, QuotaAssumption DEF Bytes
  <2>4. Total(after) = Total(before) + after[w]
    BY <2>1, <2>3, TotalAdd, QuotaAssumption
  <2>5. Total(before) \in Nat
    BY <2>1, TotalType, QuotaAssumption
  <2>6. Total(before) = InFlightOf(counters, s)
    BY DEF InFlightExact, InFlightOf, before, HeldAt
  <2>7. CASE s \in levels
    <3>1. SatAdd(InFlightOf(cs, s), b) = InFlightOf(cs, s) + b
      BY <1>0, <1>1, <1>3, <2>7, RoomMeansNoSaturation
    <3> QED
      BY <1>3, <1>4, <1>5, <2>3, <2>4, <2>6, <2>7, <3>1 DEF after
  <2>8. CASE s \notin levels
    BY <1>3, <1>4, <1>5, <2>3, <2>4, <2>5, <2>6, <2>8 DEF after
  <2> QED
    BY <2>7, <2>8
<1>7. InFlightExact'
  BY <1>6 DEF InFlightExact, InFlightOf, HeldAt
<1> QED
  BY <1>5, <1>7

\* A step that changes neither what is held nor what is in flight.
LEMMA SameHeld ==
    ASSUME InFlightExact,
           \A s \in Scopes : InFlightOf(counters', s) = InFlightOf(counters, s),
           \A s \in Scopes, v \in Writers : HeldBy(v, s)' = HeldBy(v, s)
    PROVE  InFlightExact'
<1>1. \A s \in Scopes : HeldAt(s)' = HeldAt(s)
  BY DEF HeldAt
<1> QED
  BY <1>1 DEF InFlightExact, InFlightOf, HeldAt

Inv == TypeOK /\ InFlightExact

\* What a step may do to the parts of the state TypeOK speaks of, when it leaves the
\* environment alone.
LEMMA LedgerStepType ==
    ASSUME TypeOK, UNCHANGED environment, LedgerType(counters'), swept' \in 0..MaxGen,
           writer' \in [Writers -> WriterType],
           \A w \in Writers :
              writer'[w].phase = "pinned" => writer'[w].gen \in 1..Len(tables)
    PROVE  TypeOK'
BY DEF TypeOK, environment, LedgerType

\* The ledger starts in the invariant: no counter, no reservation.
LEMMA InitInv == Init => Inv
<1> SUFFICES ASSUME Init PROVE Inv
  OBVIOUS
<1>1. DOMAIN counters = {}
  BY DEF Init
<1>2. writer \in [Writers -> WriterType] /\ \A w \in Writers : writer[w] = Idle
  BY IdleType DEF Init
<1>3. tables \in Seq([Scopes -> QuotaSpecs]) /\ Len(tables) = 1
  <2>1. PICK kind \in [Quotaed -> SpecKinds], limit \in [Quotaed -> Limits] :
          tables = << [s \in Scopes |->
                          IF s \in Quotaed /\ kind[s] = "limit"
                          THEN QuotaSpec("limit", limit[s], 0, 0)
                          ELSE QuotaSpec(IF s \in Quotaed THEN kind[s] ELSE "absent", 0, 0, 0)] >>
    BY DEF Init
  <2>2. \A s \in Quotaed : kind[s] \in Kinds /\ limit[s] \in Limits
    BY QuotaAssumption
  <2>3. 0 \in Bytes /\ 0 \in Time
    BY QuotaAssumption DEF Bytes, Time
  <2> QED
    BY <2>1, <2>2, <2>3 DEF QuotaSpec, QuotaSpecs, Kinds
<1>4. TypeOK
  <2>1. now \in Time /\ stored \in [Scopes -> Bytes] /\ swept \in 0..MaxGen
    BY QuotaAssumption DEF Init, Time, Bytes
  <2>2. collected \in [at : Time, used : [Scopes -> Bytes]]
    BY QuotaAssumption DEF Init, Time, Bytes
  <2>3. Len(tables) \in 1..MaxGen
    BY <1>3, QuotaAssumption
  <2> QED
    BY <1>1, <1>2, <1>3, <2>1, <2>2, <2>3 DEF TypeOK, Idle
<1>5. \A s \in Scopes : [w \in Writers |-> HeldBy(w, s)] \in [Writers -> {0}]
  BY <1>2 DEF HeldBy, Reserved, Idle
<1>6. InFlightExact
  BY <1>1, <1>5, TotalZero DEF InFlightExact
<1> QED
  BY <1>4, <1>6 DEF Inv

\* The steps of the clock, the collector, the control plane and the backend.
LEMMA EnvironmentStep ==
    ASSUME Inv,
           \/ Tick
           \/ \E at \in Time : Collect(at)
           \/ \E kind \in [Quotaed -> SpecKinds], limit \in [Quotaed -> Limits] :
                 Publish(kind, limit)
    PROVE  Inv'
<1> USE DEF Inv
<1>0. UNCHANGED ledger /\ UNCHANGED writer
  BY DEF Tick, Collect, Publish
<1>1. InFlightExact'
  BY <1>0, SameHeld DEF ledger, InFlightOf, HeldBy, Reserved
<1>2. CASE Tick
  <2>1. now' \in Time
    BY <1>2, QuotaAssumption DEF Tick, TypeOK, Time
  <2> QED
    BY <1>0, <1>1, <1>2, <2>1 DEF TypeOK, Tick, ledger
<1>3. ASSUME NEW at \in Time, Collect(at) PROVE Inv'
  BY <1>0, <1>1, <1>3 DEF TypeOK, Collect, ledger
<1>4. ASSUME NEW kind \in [Quotaed -> SpecKinds], NEW limit \in [Quotaed -> Limits],
             Publish(kind, limit)
      PROVE  Inv'
  <2> DEFINE table == [s \in Scopes |->
              IF s \in Quotaed /\ kind[s] = "limit"
              THEN QuotaSpec("limit", limit[s], collected.used[s], collected.at)
              ELSE QuotaSpec(IF s \in Quotaed THEN kind[s] ELSE "absent", 0, 0, 0)]
  <2>1. \A s \in Quotaed : kind[s] \in Kinds /\ limit[s] \in Limits
    BY QuotaAssumption
  <2>2. 0 \in Bytes /\ 0 \in Time
    BY QuotaAssumption DEF Bytes, Time
  <2>3. table \in [Scopes -> QuotaSpecs]
    BY <2>1, <2>2 DEF QuotaSpec, QuotaSpecs, Kinds, TypeOK
  <2>4. tables' = Append(tables, table) /\ Len(tables) < MaxGen
    BY <1>4 DEF Publish
  <2> HIDE DEF table
  <2>5. tables' \in Seq([Scopes -> QuotaSpecs]) /\ Len(tables') = Len(tables) + 1
    BY <2>3, <2>4 DEF TypeOK
  <2>6. Len(tables') \in 1..MaxGen
    BY <2>4, <2>5, QuotaAssumption DEF TypeOK
  <2>7. \A w \in Writers :
           writer'[w].phase = "pinned" => writer'[w].gen \in 1..Len(tables')
    BY <1>0, <2>5, <2>6 DEF TypeOK
  <2> QED
    BY <1>0, <1>1, <1>4, <2>5, <2>6, <2>7 DEF TypeOK, Publish, ledger
<1> QED
  BY <1>2, <1>3, <1>4

\* A step that changes only flags of one writer's reservation.
LEMMA FlagStep ==
    ASSUME TypeOK, InFlightExact, NEW w \in Writers, NEW r \in WriterType,
           writer' = [writer EXCEPT ![w] = r], UNCHANGED ledger, UNCHANGED tables,
           r.phase = writer[w].phase, r.gen = writer[w].gen, r.settled = writer[w].settled,
           r.held = writer[w].held, r.bytes = writer[w].bytes
    PROVE  /\ writer' \in [Writers -> WriterType]
           /\ \A v \in Writers : writer'[v].phase = "pinned" => writer'[v].gen \in 1..Len(tables)
           /\ LedgerType(counters') /\ swept' \in 0..MaxGen
           /\ InFlightExact'
<1>1. writer \in [Writers -> WriterType]
  BY DEF TypeOK
<1>2. \A v \in Writers : writer'[v] = IF v = w THEN r ELSE writer[v]
  BY <1>1
<1>3. \A s \in Scopes, v \in Writers : HeldBy(v, s)' = HeldBy(v, s)
  BY <1>2 DEF HeldBy, Reserved
<1>4. \A s \in Scopes : InFlightOf(counters', s) = InFlightOf(counters, s)
  BY DEF ledger
<1>5. InFlightExact'
  BY <1>3, <1>4, SameHeld
<1>6. writer' \in [Writers -> WriterType]
  BY <1>1
<1>7. \A v \in Writers : writer'[v].phase = "pinned" => writer'[v].gen \in 1..Len(tables)
  BY <1>2 DEF TypeOK
<1> QED
  BY <1>5, <1>6, <1>7 DEF TypeOK, LedgerType, ledger

\* The backend storing a write leaves the ledger as it is.
LEMMA BackendStoresStep ==
    ASSUME Inv, NEW w \in Writers, BackendStores(w)
    PROVE  Inv'
<1> USE DEF Inv
<1> DEFINE r == [writer[w] EXCEPT !.landed = TRUE]
<1>0. writer[w] \in WriterType
  BY DEF TypeOK
<1>1. /\ writer' = [writer EXCEPT ![w] = r]
      /\ UNCHANGED <<now, collected, tables, ledger>>
      /\ \A s \in Levels(writer[w].target) : stored[s] + writer[w].bytes <= MaxU64
      /\ stored' = [s \in Scopes |-> IF s \in Levels(writer[w].target)
                                     THEN stored[s] + writer[w].bytes ELSE stored[s]]
  BY DEF BackendStores
<1>2. /\ r \in WriterType /\ r.phase = writer[w].phase /\ r.gen = writer[w].gen
      /\ r.settled = writer[w].settled /\ r.held = writer[w].held /\ r.bytes = writer[w].bytes
  BY <1>0 DEF WriterType
<1> HIDE DEF r
<1>3. /\ writer' \in [Writers -> WriterType]
      /\ \A v \in Writers : writer'[v].phase = "pinned" => writer'[v].gen \in 1..Len(tables)
      /\ LedgerType(counters') /\ swept' \in 0..MaxGen /\ InFlightExact'
  BY <1>1, <1>2, FlagStep
<1>4. stored' \in [Scopes -> Bytes]
  <2>1. \A s \in Scopes : stored[s] \in 0..MaxU64
    BY DEF TypeOK, Bytes
  <2>2. writer[w].bytes \in 0..MaxU64
    BY DEF TypeOK, WriterType, Bytes
  <2> QED
    BY <1>1, <2>1, <2>2, QuotaAssumption DEF Bytes
<1> QED
  BY <1>1, <1>3, <1>4 DEF TypeOK, LedgerType

\* A writer that holds nothing takes another state that holds nothing.
LEMMA IdleStep ==
    ASSUME TypeOK, InFlightExact, NEW w \in Writers, ~Reserved(w),
           NEW r \in WriterType, r.phase # "reserved",
           r.phase = "pinned" => r.gen \in 1..Len(tables),
           writer' = [writer EXCEPT ![w] = r],
           \A s \in Scopes : InFlightOf(counters', s) = InFlightOf(counters, s)
    PROVE  /\ writer' \in [Writers -> WriterType]
           /\ \A v \in Writers : writer'[v].phase = "pinned" => writer'[v].gen \in 1..Len(tables)
           /\ InFlightExact'
<1>1. writer \in [Writers -> WriterType]
  BY DEF TypeOK
<1>2. \A v \in Writers : writer'[v] = IF v = w THEN r ELSE writer[v]
  BY <1>1
<1>3. \A s \in Scopes, v \in Writers : HeldBy(v, s)' = HeldBy(v, s)
  BY <1>2 DEF HeldBy, Reserved
<1>4. InFlightExact'
  BY <1>3, SameHeld
<1>5. writer' \in [Writers -> WriterType]
  BY <1>1
<1> QED
  BY <1>2, <1>4, <1>5 DEF TypeOK

\* The steps of a request up to its admission.
LEMMA RequestStep ==
    ASSUME Inv, NEW w \in Writers,
           \/ \E t \in Targets : Pin(w, t)
           \/ Abandon(w)
           \/ \E sized \in BOOLEAN : AdmitWithoutLedger(w, sized)
           \/ Forget(w)
    PROVE  Inv'
<1> USE DEF Inv
<1>0. UNCHANGED environment /\ UNCHANGED ledger
  BY DEF Pin, Abandon, AdmitWithoutLedger, Forget
<1>1. ~Reserved(w)
  BY DEF Pin, Abandon, AdmitWithoutLedger, Forget, Reserved, Admitting
<1>2. PICK r \in WriterType : /\ writer' = [writer EXCEPT ![w] = r] /\ r.phase # "reserved"
                              /\ r.phase = "pinned" => r.gen \in 1..Len(tables)
  <2>1. CASE writer' = [writer EXCEPT ![w] = Idle]
    BY <2>1, IdleType DEF Idle
  <2>2. ASSUME NEW t \in Targets, Pin(w, t)
        PROVE  \E r \in WriterType : /\ writer' = [writer EXCEPT ![w] = r] /\ r.phase # "reserved"
                                     /\ r.phase = "pinned" => r.gen \in 1..Len(tables)
    <3> DEFINE r == [Idle EXCEPT !.phase = "pinned", !.target = t, !.gen = Len(tables)]
    <3>1. Len(tables) \in 1..Len(tables) /\ Len(tables) \in 0..MaxGen
      BY QuotaAssumption DEF TypeOK
    <3>2. r \in WriterType /\ r.phase = "pinned" /\ r.gen = Len(tables)
      BY <3>1, IdleType DEF WriterType, Idle
    <3>3. writer' = [writer EXCEPT ![w] = r]
      BY <2>2 DEF Pin
    <3> QED
      BY <3>1, <3>2, <3>3
  <2> QED
    BY <2>1, <2>2 DEF Abandon, AdmitWithoutLedger, Forget
<1>3. \A s \in Scopes : InFlightOf(counters', s) = InFlightOf(counters, s)
  BY <1>0 DEF ledger
<1>4. LedgerType(counters') /\ swept' \in 0..MaxGen
  BY <1>0 DEF TypeOK, LedgerType, ledger
<1> QED
  BY <1>0, <1>1, <1>2, <1>3, <1>4, IdleStep, LedgerStepType

\* An admission, granted or refused, preserves the invariant (QuotaLedger::admit).
LEMMA AdmitStep ==
    ASSUME Inv, NEW w \in Writers, NEW b \in Sizes, Reserve(w, b) \/ RefuseExceeded(w, b)
    PROVE  Inv'
<1> USE DEF Inv
<1> DEFINE g == writer[w].gen
           t == writer[w].target
<1>1. /\ UNCHANGED environment /\ writer[w].phase = "pinned"
      /\ swept' = IF g > swept THEN g ELSE swept
  BY DEF Reserve, RefuseExceeded, Admitting
<1>2. /\ Table(g) /\ g \in 0..MaxGen /\ t \in Targets /\ LedgerType(counters)
      /\ Applicable(g, t) \in SUBSET Scopes
      /\ \A cs, x : Reached(cs, g, t, x) \in SUBSET Scopes
  BY <1>1, PinnedFacts DEF TypeOK, WriterType, LedgerType
<1>3. swept' \in 0..MaxGen
  BY <1>1, <1>2 DEF TypeOK
<1>4. CASE Reserve(w, b)
  <2> DEFINE r == [Idle EXCEPT !.phase = "reserved", !.gen = g, !.target = t,
                               !.held = Applicable(g, t), !.bytes = b]
  <2>1. LedgerType(counters') /\ InFlightExact'
    BY <1>4, ReserveStep
  <2>2. b \in Bytes
    BY QuotaAssumption
  <2>3. r \in WriterType /\ r.phase = "reserved"
    BY <1>2, <2>2, IdleType DEF WriterType, Idle
  <2>4. writer' = [writer EXCEPT ![w] = r]
    BY <1>4 DEF Reserve
  <2> HIDE DEF r
  <2>5. /\ writer' \in [Writers -> WriterType]
        /\ \A v \in Writers : writer'[v].phase = "pinned" => writer'[v].gen \in 1..Len(tables)
    BY <2>3, <2>4 DEF TypeOK
  <2> QED
    BY <1>1, <1>3, <2>1, <2>5, LedgerStepType
<1>5. CASE RefuseExceeded(w, b)
  <2> DEFINE cs == Sweep(g)
             levels == Reached(cs, g, t, b)
  <2>1. LedgerType(cs) /\ \A s \in Scopes : InFlightOf(cs, s) = InFlightOf(counters, s)
    BY <1>2, SweepProperties
  <2>2. counters' = Entered(cs, g, levels) /\ writer' = [writer EXCEPT ![w] = Idle]
    BY <1>5 DEF RefuseExceeded
  <2>3. levels \in SUBSET Scopes
    BY <1>2
  <2> HIDE DEF cs, levels, g, t
  <2>4. LedgerType(counters') /\ \A s \in Scopes : InFlightOf(counters', s) = InFlightOf(cs, s)
    BY <1>2, <2>1, <2>2, <2>3, EnteredProperties
  <2>5. \A s \in Scopes : InFlightOf(counters', s) = InFlightOf(counters, s)
    BY <2>1, <2>4
  <2>6. ~Reserved(w) /\ Idle.phase # "reserved" /\ Idle.phase # "pinned"
    BY <1>1 DEF Reserved, Idle
  <2>7. /\ writer' \in [Writers -> WriterType]
        /\ \A v \in Writers : writer'[v].phase = "pinned" => writer'[v].gen \in 1..Len(tables)
        /\ InFlightExact'
    BY <2>2, <2>5, <2>6, IdleType, IdleStep
  <2> QED
    BY <1>1, <1>3, <2>4, <2>7, LedgerStepType
<1> QED
  BY <1>4, <1>5

\* Dispatch and the polls of the client body.
LEMMA BodyStep ==
    ASSUME Inv, NEW w \in Writers,
           \/ \E tracked \in Tracking : Dispatch(w, tracked)
           \/ \E len \in 1..MaxU64 : PollFrame(w, len)
           \/ PollEnd(w)
           \/ PollError(w)
    PROVE  Inv'
<1> USE DEF Inv
<1>0. UNCHANGED environment /\ UNCHANGED ledger /\ UNCHANGED tables
  BY DEF Dispatch, PollFrame, PollEnd, PollError, environment
<1>1. writer[w] \in WriterType
  BY DEF TypeOK
<1> DEFINE Keeps(r) ==
      /\ r \in WriterType /\ writer' = [writer EXCEPT ![w] = r]
      /\ r.phase = writer[w].phase /\ r.gen = writer[w].gen /\ r.settled = writer[w].settled
      /\ r.held = writer[w].held /\ r.bytes = writer[w].bytes
<1>2. ASSUME NEW tracked \in Tracking, Dispatch(w, tracked) PROVE \E r : Keeps(r)
  <2> DEFINE r == [writer[w] EXCEPT !.dispatched = TRUE, !.tracked = tracked]
  <2>1. writer' = [writer EXCEPT ![w] = r]
    BY <1>2 DEF Dispatch
  <2>2. tracked \in BOOLEAN
    BY QuotaAssumption
  <2>3. Keeps(r)
    BY <1>1, <2>1, <2>2 DEF WriterType
  <2> QED
    BY <2>3
<1>3. ASSUME NEW len \in 1..MaxU64, PollFrame(w, len) PROVE \E r : Keeps(r)
  <2> DEFINE more == writer[w].delivered + len
             r == [writer[w] EXCEPT !.delivered = more, !.failed = more > writer[w].bytes]
  <2>1. writer' = [writer EXCEPT ![w] = r]
    BY <1>3 DEF PollFrame
  <2>2. more \in Nat /\ (more > writer[w].bytes) \in BOOLEAN
    BY <1>1, QuotaAssumption DEF WriterType
  <2> HIDE DEF more
  <2>3. Keeps(r)
    BY <1>1, <2>1, <2>2 DEF WriterType
  <2> QED
    BY <2>3
<1>4. ASSUME PollEnd(w) PROVE \E r : Keeps(r)
  <2>1. Keeps([writer[w] EXCEPT !.ended = TRUE])
    BY <1>1, <1>4 DEF PollEnd, WriterType
  <2> QED
    BY <2>1
<1>5. ASSUME PollError(w) PROVE \E r : Keeps(r)
  <2>1. Keeps([writer[w] EXCEPT !.failed = TRUE])
    BY <1>1, <1>5 DEF PollError, WriterType
  <2> QED
    BY <2>1
<1>6. PICK r : Keeps(r)
  BY <1>2, <1>3, <1>4, <1>5
<1>7. /\ writer' \in [Writers -> WriterType]
      /\ \A v \in Writers : writer'[v].phase = "pinned" => writer'[v].gen \in 1..Len(tables)
      /\ LedgerType(counters') /\ swept' \in 0..MaxGen /\ InFlightExact'
  BY <1>0, <1>6, FlagStep
<1> QED
  BY <1>0, <1>7, LedgerStepType

\* A step that settles a reservation, whatever the answer was.
LEMMA SettledStep ==
    ASSUME Inv, NEW w \in Writers, UNCHANGED environment, UNCHANGED swept, Reserved(w),
           \E committed \in BOOLEAN, k \in StepBacks : SettleReservation(w, committed, k),
           NEW r \in WriterType, r.phase # "reserved" \/ r.settled, r.phase # "pinned",
           writer' = [writer EXCEPT ![w] = r]
    PROVE  Inv'
<1> USE DEF Inv
<1>1. PICK committed \in BOOLEAN, k \in StepBacks : SettleReservation(w, committed, k)
  OBVIOUS
<1>2. LedgerType(counters') /\ InFlightExact'
  BY <1>1, SettleStep
<1>3. /\ writer' \in [Writers -> WriterType]
      /\ \A v \in Writers : writer'[v].phase = "pinned" => writer'[v].gen \in 1..Len(tables)
  BY DEF TypeOK
<1>4. swept' \in 0..MaxGen
  BY DEF TypeOK
<1> QED
  BY <1>2, <1>3, <1>4, LedgerStepType

\* The steps that settle a reservation.
LEMMA AnswerStep ==
    ASSUME Inv, NEW w \in Writers,
           \/ ReleaseUndispatched(w)
           \/ AnswerOk(w)
           \/ AnswerRefused(w)
           \/ AnswerUnknown(w)
           \/ Drop(w)
    PROVE  Inv'
<1> USE DEF Inv
<1>0. UNCHANGED environment /\ UNCHANGED swept /\ Reserved(w)
  BY DEF ReleaseUndispatched, AnswerOk, AnswerRefused, AnswerUnknown, Drop, InBackendCall
<1>1. writer[w] \in WriterType /\ 0 \in StepBacks /\ writer[w].phase = "reserved"
  BY <1>0, QuotaAssumption DEF TypeOK, StepBacks, Time, Reserved
<1>2. MayHaveBeenStored(writer[w]) \in BOOLEAN
  BY <1>1 DEF MayHaveBeenStored, WriterType
<1>3. \E committed \in BOOLEAN, k \in StepBacks : SettleReservation(w, committed, k)
  BY <1>1, <1>2 DEF ReleaseUndispatched, AnswerOk, AnswerRefused, AnswerUnknown, Drop
<1>4. \A a \in {"none", "ok", "refused", "unknown"}, p \in {"reserved", "gone"} :
         LET r == [writer[w] EXCEPT !.phase = p, !.settled = TRUE, !.answer = a]
         IN  r \in WriterType /\ r.settled /\ r.phase # "pinned"
  BY <1>1 DEF WriterType
<1>5. Idle \in WriterType /\ Idle.phase = "idle"
  BY IdleType DEF Idle
<1>6. PICK r \in WriterType : /\ r.phase # "reserved" \/ r.settled
                              /\ r.phase # "pinned"
                              /\ writer' = [writer EXCEPT ![w] = r]
  <2> DEFINE Settled(a, p) == [writer[w] EXCEPT !.phase = p, !.settled = TRUE, !.answer = a]
  <2>1. CASE ReleaseUndispatched(w)
    <3>1. writer' = [writer EXCEPT ![w] = Settled(writer[w].answer, "reserved")]
      BY <1>1, <2>1 DEF ReleaseUndispatched, WriterType, TypeOK
    <3>2. writer[w].answer \in {"none", "ok", "refused", "unknown"}
      BY <1>1 DEF WriterType
    <3> QED
      BY <1>4, <3>1, <3>2
  <2>2. CASE AnswerOk(w)
    <3>1. writer' = [writer EXCEPT ![w] = [@ EXCEPT !.settled = TRUE, !.answer = "ok"]]
      BY <2>2 DEF AnswerOk
    <3>2. writer' = [writer EXCEPT ![w] = Settled("ok", "reserved")]
      BY <1>1, <3>1 DEF WriterType
    <3> QED
      BY <1>4, <3>2
  <2>3. CASE AnswerRefused(w)
    <3>1. writer' = [writer EXCEPT ![w] = [@ EXCEPT !.settled = TRUE, !.answer = "refused"]]
      BY <2>3 DEF AnswerRefused
    <3>2. writer' = [writer EXCEPT ![w] = Settled("refused", "reserved")]
      BY <1>1, <3>1 DEF WriterType
    <3> QED
      BY <1>4, <3>2
  <2>4. CASE AnswerUnknown(w)
    <3>1. writer' = [writer EXCEPT ![w] = [@ EXCEPT !.settled = TRUE, !.answer = "unknown"]]
      BY <2>4 DEF AnswerUnknown
    <3>2. writer' = [writer EXCEPT ![w] = Settled("unknown", "reserved")]
      BY <1>1, <3>1 DEF WriterType
    <3> QED
      BY <1>4, <3>2
  <2>5. CASE Drop(w)
    <3>1. \/ writer' = [writer EXCEPT ![w] = Settled("unknown", "gone")]
          \/ writer' = [writer EXCEPT ![w] = Idle]
      BY <1>1, <2>5 DEF Drop, TypeOK
    <3> QED
      BY <1>4, <1>5, <3>1
  <2> QED
    BY <2>1, <2>2, <2>3, <2>4, <2>5
<1> QED
  BY <1>0, <1>3, <1>6, SettledStep

\* Every step of the system preserves the invariant.
LEMMA NextInv == Inv /\ [Next]_vars => Inv'
<1> SUFFICES ASSUME Inv, [Next]_vars PROVE Inv'
  OBVIOUS
<1>1. CASE UNCHANGED vars
  <2>1. TypeOK'
    BY <1>1 DEF Inv, vars, TypeOK
  <2>2. \A s \in Scopes, v \in Writers : HeldBy(v, s)' = HeldBy(v, s)
    BY <1>1 DEF vars, HeldBy, Reserved
  <2>3. InFlightExact'
    BY <1>1, <2>2, SameHeld DEF Inv, vars
  <2> QED
    BY <2>1, <2>3 DEF Inv
<1>2. CASE Tick \/ (\E at \in Time : Collect(at))
           \/ (\E kind \in [Quotaed -> SpecKinds], limit \in [Quotaed -> Limits] :
                  Publish(kind, limit))
  BY <1>2, EnvironmentStep
<1>3. ASSUME NEW w \in Writers, BackendStores(w) PROVE Inv'
  BY <1>3, BackendStoresStep
<1>4. ASSUME NEW w \in Writers,
             \/ \E t \in Targets : Pin(w, t)
             \/ Abandon(w)
             \/ \E sized \in BOOLEAN : AdmitWithoutLedger(w, sized)
             \/ Forget(w)
      PROVE  Inv'
  BY <1>4, RequestStep
<1>5. ASSUME NEW w \in Writers, NEW b \in Sizes, Reserve(w, b) \/ RefuseExceeded(w, b)
      PROVE  Inv'
  BY <1>5, AdmitStep
<1>6. ASSUME NEW w \in Writers,
             \/ \E tracked \in Tracking : Dispatch(w, tracked)
             \/ \E len \in 1..MaxU64 : PollFrame(w, len)
             \/ PollEnd(w)
             \/ PollError(w)
      PROVE  Inv'
  BY <1>6, BodyStep
<1>7. ASSUME NEW w \in Writers,
             \/ ReleaseUndispatched(w)
             \/ AnswerOk(w)
             \/ AnswerRefused(w)
             \/ AnswerUnknown(w)
             \/ Drop(w)
      PROVE  Inv'
  BY <1>7, AnswerStep
<1> QED
  BY <1>1, <1>2, <1>3, <1>4, <1>5, <1>6, <1>7 DEF Next

\* The state of the ledger always has its type: counters stay within u64, a pinned revision
\* exists (src/src/quota.rs, LedgerState and QuotaReservation).
THEOREM TypeCorrect == Spec => []TypeOK
<1>1. Inv => TypeOK
  BY DEF Inv
<1> QED
  BY <1>1, InitInv, NextInv, PTL DEF Spec

\* For any number of writers, levels, revisions and slots: what a level counts as in flight is
\* exactly the sum of the admitted, unsettled writes, so admit, settle, Drop and sweep never
\* lose, leak or double-release a byte (src/src/quota.rs, admit, settle and sweep).
THEOREM InFlightIsExact == Spec => []InFlightExact
<1>1. Inv => InFlightExact
  BY DEF Inv
<1> QED
  BY <1>1, InitInv, NextInv, PTL DEF Spec

=============================================================================
