------------------------ MODULE DerivedTablesProofs ------------------------
(***************************************************************************)
(* Proofs about DerivedTables for every .dat, bitstream, chipdb and record, *)
(* any inventory of port bits, any PLL sites and any number of changes.    *)
(***************************************************************************)
EXTENDS DerivedTables, FiniteSetTheorems, TLAPS

------------------------------------------------------------------------------
(* Numbers in ascending order. *)

\* A number's place in a finite set of numbers: from 1, ascending, and every place is taken.
LEMMA RankFacts ==
  ASSUME NEW S \in SUBSET Int, IsFiniteSet(S)
  PROVE  /\ \A s \in S : Rank(S, s) \in 1..Cardinality(S)
         /\ \A s, t \in S : s < t => Rank(S, s) < Rank(S, t)
         /\ \A k \in 1..Cardinality(S) : \E s \in S : Rank(S, s) = k
  <1> DEFINE upto(s) == {t \in S : t <= s}
             n == Cardinality(S)
  <1>0. n \in Nat
    BY FS_CardinalityType
  <1>1. \A s \in S : IsFiniteSet(upto(s)) /\ Cardinality(upto(s)) \in Nat /\ Cardinality(upto(s)) <= n
    <2> SUFFICES ASSUME NEW s \in S
                 PROVE  IsFiniteSet(upto(s)) /\ Cardinality(upto(s)) \in Nat /\ Cardinality(upto(s)) <= n
      OBVIOUS
    <2>1. upto(s) \in SUBSET S
      OBVIOUS
    <2>2. QED
      BY <2>1, FS_Subset, FS_CardinalityType
  <1>2. \A s \in S : Rank(S, s) \in 1..n
    <2> SUFFICES ASSUME NEW s \in S PROVE Rank(S, s) \in 1..n
      OBVIOUS
    <2>1. s \in upto(s)
      OBVIOUS
    <2>2. Cardinality(upto(s)) # 0
      BY <2>1, <1>1, FS_EmptySet
    <2>3. Rank(S, s) = Cardinality(upto(s))
      BY DEF Rank
    <2>4. QED
      BY <1>0, <1>1, <2>2, <2>3
  <1>3. \A s, t \in S : s < t => Rank(S, s) < Rank(S, t)
    <2> SUFFICES ASSUME NEW s \in S, NEW t \in S, s < t PROVE Rank(S, s) < Rank(S, t)
      OBVIOUS
    <2>0. \A r \in S : r \in Int
      OBVIOUS
    <2>1. upto(s) \in SUBSET upto(t) /\ t \in upto(t) /\ t \notin upto(s)
      <3>1. \A r \in S : r <= s => r <= t
        BY <2>0
      <3>2. t <= t /\ ~(t <= s)
        BY <2>0
      <3>3. QED
        BY <3>1, <3>2
    <2>2. Cardinality(upto(s)) <= Cardinality(upto(t)) /\ Cardinality(upto(s)) # Cardinality(upto(t))
      BY <1>1, <2>1, FS_Subset
    <2>3. Rank(S, s) = Cardinality(upto(s)) /\ Rank(S, t) = Cardinality(upto(t))
      BY DEF Rank
    <2>4. QED
      BY <1>1, <2>2, <2>3
  <1>4. \A k \in 1..n : \E s \in S : Rank(S, s) = k
    <2> DEFINE f == [s \in S |-> Rank(S, s)]
    <2>1. f \in [S -> 1..n]
      BY <1>2
    <2>2. \A s, t \in S : f[s] = f[t] => s = t
      BY <1>2, <1>3
    <2>3. f \in Injection(S, 1..n)
      BY <2>1, <2>2 DEF Injection, IsInjective
    <2>4. IsFiniteSet(1..n) /\ Cardinality(1..n) = n
      BY <1>0, FS_Interval
    <2>5. f \in Surjection(S, 1..n)
      BY <2>3, <2>4, FS_Injection
    <2>6. QED
      BY <2>5 DEF Surjection
  <1>5. QED
    BY <1>2, <1>3, <1>4

\* A finite set of numbers in order: each number at its place.
LEMMA InOrderFacts ==
  ASSUME NEW S \in SUBSET Int, IsFiniteSet(S)
  PROVE  /\ DOMAIN InOrder(S) = 1..Cardinality(S)
         /\ \A k \in 1..Cardinality(S) : InOrder(S)[k] \in S /\ Rank(S, InOrder(S)[k]) = k
         /\ \A s \in S : InOrder(S)[Rank(S, s)] = s
  <1>1. \A k \in 1..Cardinality(S) : InOrder(S)[k] \in S /\ Rank(S, InOrder(S)[k]) = k
    <2> SUFFICES ASSUME NEW k \in 1..Cardinality(S)
                 PROVE  InOrder(S)[k] \in S /\ Rank(S, InOrder(S)[k]) = k
      OBVIOUS
    <2>1. InOrder(S)[k] = CHOOSE s \in S : Rank(S, s) = k
      BY DEF InOrder
    <2>2. \E s \in S : Rank(S, s) = k
      BY RankFacts
    <2>3. QED
      BY <2>1, <2>2
  <1>2. \A s, t \in S : Rank(S, s) = Rank(S, t) => s = t
    BY RankFacts
  <1>3. \A s \in S : Rank(S, s) \in 1..Cardinality(S)
    BY RankFacts
  <1>4. QED
    BY <1>1, <1>2, <1>3 DEF InOrder

------------------------------------------------------------------------------
(* The wire map. *)

\* The input bits are finitely many.
LEMMA BitsAreCounted == IsFiniteSet(DOMAIN InBits) /\ Cardinality(DOMAIN InBits) = Len(InBits)
  <1> DEFINE n == Len(InBits)
  <1>1. n \in Nat /\ DOMAIN InBits = 1..n
    BY InventoryAssumption
  <1>2. 1 \in Int /\ n \in Int
    BY <1>1
  <1> HIDE DEF n
  <1>3. IsFiniteSet(1..n) /\ Cardinality(1..n) = IF 1 > n THEN 0 ELSE n - 1 + 1
    BY <1>2, FS_Interval
  <1>4. Cardinality(1..n) = n
    BY <1>1, <1>3
  <1>5. QED
    BY <1>1, <1>3, <1>4 DEF n

\* The driven slots are listed in order, one for each input bit; a pool holds those at
\* dedicated positions that are on its line.
LEMMA DrivenFacts ==
  ASSUME NEW outs, Len(outs) \in Nat, Resolvable(outs)
  PROVE  /\ DrivenSlots(outs) \in SUBSET Int /\ IsFiniteSet(DrivenSlots(outs))
         /\ \A i \in DOMAIN InBits : Driven(outs)[i] \in DrivenSlots(outs)
         /\ \A i, j \in DOMAIN InBits : Driven(outs)[i] = Driven(outs)[j] => i = j
         /\ Cardinality(DrivenSlots(outs)) = Len(InBits)
  <1> DEFINE D == DrivenSlots(outs)
  <1>1. D \in SUBSET (0..Len(outs) - 1) /\ D \in SUBSET Int
    BY DEF DrivenSlots
  <1>2. IsFiniteSet(D)
    <2> DEFINE top == Len(outs) - 1
    <2>1. top \in Int /\ 0 \in Int
      OBVIOUS
    <2> HIDE DEF top
    <2>2. IsFiniteSet(0..top)
      BY <2>1, FS_Interval
    <2>3. QED
      BY <1>1, <2>2, FS_Subset DEF top
  <1>3. Cardinality(D) = Len(InBits)
    BY DEF Resolvable
  <1>4. DOMAIN InBits = 1..Cardinality(D)
    BY <1>3, InventoryAssumption
  <1> HIDE DEF D
  <1>5. \A k \in 1..Cardinality(D) : InOrder(D)[k] \in D /\ Rank(D, InOrder(D)[k]) = k
    BY <1>1, <1>2, InOrderFacts
  <1>6. Driven(outs) = InOrder(D)
    BY DEF Driven, D
  <1>7. QED
    BY <1>1, <1>2, <1>3, <1>4, <1>5, <1>6 DEF D

\* A pool of a line: as many slots as the line has ports, each of a record on the line.
LEMMA PoolFacts ==
  ASSUME NEW outs, Len(outs) \in Nat, Resolvable(outs), NEW line \in {"LSR", "CLK"}
  PROVE  /\ \A i \in OnLine(line) : Pool(outs, line)[Rank(OnLine(line), i)] \in PoolSlots(outs, line)
         /\ \A i, j \in OnLine(line) :
              Pool(outs, line)[Rank(OnLine(line), i)] = Pool(outs, line)[Rank(OnLine(line), j)] => i = j
         /\ \A s \in PoolSlots(outs, line) :
              /\ s \in DrivenSlots(outs) /\ ClassOf(outs[s + 1]) = line
              /\ \E j \in Dedicated : s = Driven(outs)[j]
  <1> DEFINE B == OnLine(line)
             P == PoolSlots(outs, line)
  <1>1. \A s \in P : /\ s \in DrivenSlots(outs) /\ ClassOf(outs[s + 1]) = line
                     /\ \E j \in Dedicated : s = Driven(outs)[j]
    BY DrivenFacts DEF PoolSlots, Dedicated
  <1>2. P \in SUBSET Int /\ IsFiniteSet(P)
    <2>1. P \in SUBSET DrivenSlots(outs)
      BY <1>1
    <2>2. QED
      BY <2>1, DrivenFacts, FS_Subset
  <1>3. B \in SUBSET Int /\ IsFiniteSet(B)
    <2>1. B \in SUBSET (1..Len(InBits))
      BY InventoryAssumption DEF OnLine
    <2>2. QED
      BY <2>1, BitsAreCounted, InventoryAssumption, FS_Subset
  <1>4. Cardinality(P) = Cardinality(B)
    BY InventoryAssumption DEF Resolvable
  <1>5. Pool(outs, line) = InOrder(P)
    BY DEF Pool
  <1> HIDE DEF B, P
  <1>6. /\ \A i \in B : Rank(B, i) \in 1..Cardinality(P)
        /\ \A i, j \in B : Rank(B, i) = Rank(B, j) => i = j
    BY <1>3, <1>4, RankFacts
  <1>7. \A k \in 1..Cardinality(P) : InOrder(P)[k] \in P /\ Rank(P, InOrder(P)[k]) = k
    BY <1>2, InOrderFacts
  <1>8. \A i \in B : InOrder(P)[Rank(B, i)] \in P
    BY <1>6, <1>7
  <1>9. \A i, j \in B : InOrder(P)[Rank(B, i)] = InOrder(P)[Rank(B, j)] => i = j
    BY <1>6, <1>7
  <1>10. QED
    BY <1>1, <1>5, <1>8, <1>9 DEF B, P

\* The input slots are a one-to-one correspondence between the input bits and the driven
\* slots, and a dedicated port's is of a record on its line (input_records).
LEMMA InputSlotsFacts ==
  ASSUME NEW outs, Len(outs) \in Nat, Resolvable(outs)
  PROVE  /\ \A i \in DOMAIN InBits : InputSlots(outs)[i] \in DrivenSlots(outs)
         /\ \A i \in DOMAIN InBits : Line(InBits[i]) # None =>
              ClassOf(outs[InputSlots(outs)[i] + 1]) = Line(InBits[i])
         /\ \A i, j \in DOMAIN InBits : InputSlots(outs)[i] = InputSlots(outs)[j] => i = j
         /\ \A s \in DrivenSlots(outs) : \E i \in DOMAIN InBits : InputSlots(outs)[i] = s
  <1> DEFINE slot(i) == InputSlots(outs)[i]
             D == DrivenSlots(outs)
  <1>1. \A i \in DOMAIN InBits : Line(InBits[i]) # None => Line(InBits[i]) \in {"LSR", "CLK"}
    BY DEF Line
  <1>2. \A i \in DOMAIN InBits : i \in OnLine(Line(InBits[i])) /\ (i \in Dedicated <=> Line(InBits[i]) # None)
    BY DEF OnLine, Dedicated
  <1>3. \A i \in DOMAIN InBits : Line(InBits[i]) = None => slot(i) = Driven(outs)[i]
    BY DEF InputSlots
  <1>4. \A i \in DOMAIN InBits : Line(InBits[i]) # None =>
          slot(i) = Pool(outs, Line(InBits[i]))[Rank(OnLine(Line(InBits[i])), i)]
    BY DEF InputSlots
  <1>5. \A i \in DOMAIN InBits : Line(InBits[i]) # None => slot(i) \in PoolSlots(outs, Line(InBits[i]))
    <2> SUFFICES ASSUME NEW i \in DOMAIN InBits, Line(InBits[i]) # None
                 PROVE  slot(i) \in PoolSlots(outs, Line(InBits[i]))
      OBVIOUS
    <2> DEFINE line == Line(InBits[i])
    <2>1. line \in {"LSR", "CLK"} /\ i \in OnLine(line)
      BY <1>1, <1>2
    <2>2. slot(i) = Pool(outs, line)[Rank(OnLine(line), i)]
      BY <1>4
    <2> HIDE DEF line
    <2>3. Pool(outs, line)[Rank(OnLine(line), i)] \in PoolSlots(outs, line)
      BY <2>1, PoolFacts
    <2>4. QED
      BY <2>2, <2>3 DEF line
  <1>6. \A line \in {"LSR", "CLK"} : \A s \in PoolSlots(outs, line) :
          /\ s \in D /\ ClassOf(outs[s + 1]) = line
          /\ \E j \in Dedicated : s = Driven(outs)[j]
    BY PoolFacts
  <1> HIDE DEF slot
  <1>7. \A i \in DOMAIN InBits : slot(i) \in D
    BY <1>1, <1>3, <1>5, <1>6, DrivenFacts
  <1>8. \A i \in DOMAIN InBits : Line(InBits[i]) # None => ClassOf(outs[slot(i) + 1]) = Line(InBits[i])
    BY <1>1, <1>5, <1>6
  <1>9. ASSUME NEW i \in DOMAIN InBits, NEW j \in DOMAIN InBits, slot(i) = slot(j) PROVE i = j
    <2>1. CASE Line(InBits[i]) = None /\ Line(InBits[j]) = None
      BY <1>3, <1>9, <2>1, DrivenFacts
    <2>2. ASSUME NEW k \in DOMAIN InBits, NEW l \in DOMAIN InBits,
                 Line(InBits[k]) = None, Line(InBits[l]) # None
          PROVE  slot(k) # slot(l)
      <3>1. PICK d \in Dedicated : slot(l) = Driven(outs)[d]
        BY <1>1, <1>5, <1>6, <2>2
      <3>2. k # d /\ d \in DOMAIN InBits
        BY <1>2, <2>2 DEF Dedicated
      <3>3. slot(k) = Driven(outs)[k]
        BY <1>3, <2>2
      <3>4. QED
        BY <3>1, <3>2, <3>3, DrivenFacts
    <2>3. CASE Line(InBits[i]) # None /\ Line(InBits[j]) # None
      <3> DEFINE line == Line(InBits[i])
      <3>1. Line(InBits[j]) = line
        BY <1>8, <1>9, <2>3
      <3>2. line \in {"LSR", "CLK"} /\ i \in OnLine(line) /\ j \in OnLine(line)
        BY <1>1, <1>2, <2>3, <3>1
      <3>3. slot(i) = Pool(outs, line)[Rank(OnLine(line), i)]
        BY <1>4, <2>3
      <3>4. slot(j) = Pool(outs, line)[Rank(OnLine(line), j)]
        BY <1>4, <2>3, <3>1
      <3> HIDE DEF line
      <3>5. Pool(outs, line)[Rank(OnLine(line), i)] = Pool(outs, line)[Rank(OnLine(line), j)]
        BY <1>9, <3>3, <3>4
      <3>6. QED
        BY <3>2, <3>5, PoolFacts
    <2>4. QED
      BY <1>9, <2>1, <2>2, <2>3
  <1>10. \A s \in D : \E i \in DOMAIN InBits : slot(i) = s
    <2> DEFINE f == [i \in DOMAIN InBits |-> slot(i)]
    <2>1. f \in [DOMAIN InBits -> D] /\ \A i, j \in DOMAIN InBits : f[i] = f[j] => i = j
      BY <1>7, <1>9
    <2>2. f \in Injection(DOMAIN InBits, D)
      BY <2>1 DEF Injection, IsInjective
    <2>3. IsFiniteSet(D) /\ Cardinality(D) = Len(InBits)
      BY DrivenFacts
    <2>4. Cardinality(DOMAIN InBits) = Len(InBits)
      BY BitsAreCounted
    <2>5. f \in Surjection(DOMAIN InBits, D)
      BY <2>2, <2>3, <2>4, FS_Injection
    <2>6. QED
      BY <2>5 DEF Surjection
  <1>11. QED
    BY <1>7, <1>8, <1>9, <1>10 DEF slot

\* The run from the first to the last driven slot holds every driven one (derive:
\* driven[0] and driven[-1]).
LEMMA RunHoldsTheDriven ==
  ASSUME NEW outs, Len(outs) \in Nat, Resolvable(outs)
  PROVE  /\ FirstIn(outs) \in Nat /\ LastIn(outs) \in Int
         /\ \A s \in DrivenSlots(outs) : FirstIn(outs) <= s /\ s <= LastIn(outs)
  <1> DEFINE D == DrivenSlots(outs)
  <1>1. D \in SUBSET Int /\ IsFiniteSet(D) /\ D \in SUBSET Nat
    BY DrivenFacts DEF DrivenSlots
  <1>2. CASE D = {}
    BY <1>2 DEF FirstIn, LastIn
  <1>3. CASE D # {}
    <2> DEFINE n == Cardinality(D)
    <2>1. n \in Nat /\ n # 0
      BY <1>1, <1>3, FS_CardinalityType, FS_EmptySet
    <2> HIDE DEF n, D
    <2>2. /\ \A s \in D : Rank(D, s) \in 1..n
          /\ \A s, t \in D : s < t => Rank(D, s) < Rank(D, t)
          /\ \A k \in 1..n : \E s \in D : Rank(D, s) = k
      BY <1>1, RankFacts DEF n
    <2>3. PICK low \in D : Rank(D, low) = 1
      BY <2>1, <2>2
    <2>4. PICK high \in D : Rank(D, high) = n
      BY <2>1, <2>2
    <2>5. \A s \in D : low <= s /\ s <= high
      <3> SUFFICES ASSUME NEW s \in D PROVE ~(s < low) /\ ~(high < s)
        BY <1>1
      <3>1. Rank(D, s) \in 1..n
        BY <2>2
      <3>2. QED
        BY <2>1, <2>2, <2>3, <2>4, <3>1
    <2>6. FirstIn(outs) = CHOOSE x \in D : \A y \in D : x <= y
      BY <1>3 DEF FirstIn, Min, D
    <2>7. LastIn(outs) = CHOOSE x \in D : \A y \in D : x >= y
      BY <1>3 DEF LastIn, Max, D
    <2>8. FirstIn(outs) \in D /\ \A y \in D : FirstIn(outs) <= y
      BY <2>5, <2>6
    <2>9. LastIn(outs) \in D /\ \A y \in D : LastIn(outs) >= y
      <3>1. \A y \in D : high >= y
        BY <1>1, <2>5
      <3>2. QED
        BY <2>7, <3>1
    <2>10. QED
      BY <1>1, <2>8, <2>9 DEF D
  <1>4. QED
    BY <1>2, <1>3

\* An output's slot is in the table, no two outputs have the same, and one in
\* Ae350SocOuts is not driven (output_records).
LEMMA OutputSlotFacts ==
  ASSUME NEW ins, NEW outs, Len(ins) \in Nat, Len(outs) \in Nat, Resolvable(outs)
  PROVE  /\ \A b \in Nat : LET slot == OutputSlot(ins, outs, b) IN
              \/ slot = NoSlot
              \/ slot = <<"Outs", b>> /\ b < Len(outs) /\ b \notin DrivenSlots(outs)
              \/ /\ slot = <<"Ins", b - FirstIn(outs)>>
                 /\ 0 <= b - FirstIn(outs) /\ b - FirstIn(outs) < Len(ins)
         /\ \A b, c \in Nat : OutputSlot(ins, outs, b) = OutputSlot(ins, outs, c)
              /\ OutputSlot(ins, outs, b) # NoSlot => b = c
  <1> DEFINE first == FirstIn(outs)
             last == LastIn(outs)
             slot(b) == OutputSlot(ins, outs, b)
  <1>1. first \in Nat /\ last \in Int /\ \A s \in DrivenSlots(outs) : first <= s /\ s <= last
    BY RunHoldsTheDriven
  <1>2. \A b \in Nat :
          \/ slot(b) = NoSlot
          \/ slot(b) = <<"Outs", b>> /\ b < Len(outs) /\ (b < first \/ b > last)
          \/ slot(b) = <<"Ins", b - first>> /\ b >= first /\ b - first < Len(ins)
    <2> SUFFICES ASSUME NEW b \in Nat
                 PROVE  \/ slot(b) = NoSlot
                        \/ slot(b) = <<"Outs", b>> /\ b < Len(outs) /\ (b < first \/ b > last)
                        \/ slot(b) = <<"Ins", b - first>> /\ b >= first /\ b - first < Len(ins)
      OBVIOUS
    <2>0. first \in Int /\ last \in Int /\ b \in Int
      BY <1>1
    <2> HIDE DEF first, last
    <2>1. CASE b >= Len(outs)
      BY <2>1, <2>0 DEF OutputSlot
    <2>2. CASE b < Len(outs) /\ b < first
      BY <2>2, <2>0 DEF OutputSlot, first
    <2>3. CASE b < Len(outs) /\ b >= first
      <3>1. slot(b) = IF b - first < Len(ins) THEN <<"Ins", b - first>>
                      ELSE IF b <= last THEN NoSlot ELSE <<"Outs", b>>
        BY <2>3, <2>0 DEF OutputSlot, first, last
      <3>2. QED
        BY <3>1, <2>3, <2>0
    <2>4. QED
      BY <2>1, <2>2, <2>3, <2>0
  <1> HIDE DEF first, last, slot
  <1>3. \A b \in Nat : (b < first \/ b > last) => b \notin DrivenSlots(outs)
    BY <1>1
  <1>4. \A b, c \in Nat : slot(b) = slot(c) /\ slot(b) # NoSlot => b = c
    <2> SUFFICES ASSUME NEW b \in Nat, NEW c \in Nat, slot(b) = slot(c), slot(b) # NoSlot PROVE b = c
      OBVIOUS
    <2>1. /\ slot(b) = <<"Outs", b>> \/ slot(b) = <<"Ins", b - first>>
          /\ slot(c) = <<"Outs", c>> \/ slot(c) = <<"Ins", c - first>>
      BY <1>2
    <2>2. "Outs" # "Ins"
      OBVIOUS
    <2>3. QED
      BY <1>1, <2>1, <2>2
  <1>5. QED
    BY <1>1, <1>2, <1>3, <1>4 DEF first, last, slot

\* The map's entries: the input bits at their slots, the output bits at theirs.
LEMMA WireMapEntries ==
  ASSUME NEW d
  PROVE  /\ DOMAIN WireMap(d).inputs = DOMAIN InBits /\ DOMAIN WireMap(d).outputs = DOMAIN OutBits
         /\ \A i \in DOMAIN InBits :
              WireMap(d).inputs[i] = Entry(d, InBits[i], <<"Outs", InputSlots(d.outs)[i]>>)
         /\ \A i \in DOMAIN OutBits :
              WireMap(d).outputs[i] = Entry(d, OutBits[i], OutputSlot(d.ins, d.outs, i - 1))
  BY DEF WireMap

\* What an entry says of its slot's record.
LEMMA EntryFacts ==
  ASSUME NEW d, NEW port, NEW slot
  PROVE  /\ Entry(d, port, slot).port = port /\ Entry(d, port, slot).slot = slot
         /\ Entry(d, port, slot).tap = Tap(RecordAt(d.ins, d.outs, slot))
         /\ Entry(d, port, slot).reason = Reason(RecordAt(d.ins, d.outs, slot))
  BY DEF Entry

\* A slot of Ae350SocOuts is looked up there.
LEMMA RecordFacts ==
  ASSUME NEW ins, NEW outs, NEW n, NEW slot, slot = <<"Outs", n>>
  PROVE  slot[1] = "Outs" /\ slot[2] = n /\ slot # NoSlot /\ RecordAt(ins, outs, slot) = outs[n + 1]
  BY DEF RecordAt, NoSlot

\* A record that binds has its wire's class in its tap.
LEMMA TapFacts ==
  ASSUME NEW rec
  PROVE  /\ Tap(rec) # NoTap <=> Live(rec)
         /\ Live(rec) => WireClass[Tap(rec)[3]] = ClassOf(rec)
         /\ Live(rec) <=> Reason(rec) = None
  BY DEF Tap, NoTap, ClassOf, Live

\* The map of a .dat that resolves is one to one (see MapIsOneToOne).
LEMMA WireMapIsOneToOne ==
  ASSUME NEW d, Len(d.ins) \in Nat, Len(d.outs) \in Nat, DOMAIN d.outs = 1..Len(d.outs),
         Resolvable(d.outs)
  PROVE  LET map == WireMap(d) IN
         /\ \A s \in DOMAIN d.outs : DrivesTheBlock(d.outs[s]) =>
              \E e \in Range(map.inputs) : e.slot = <<"Outs", s - 1>>
         /\ \A e \in Range(map.inputs) : Line(e.port) # None => WireClass[e.tap[3]] = Line(e.port)
         /\ \A e, o \in Entries(map) : e.slot = o.slot /\ e.slot # NoSlot => e.port = o.port
         /\ \A e \in Range(map.outputs) :
              e.slot # NoSlot /\ e.tap # NoTap =>
                (e.slot[1] = "Outs" => WireClass[e.tap[3]] \in BlockDriven)
  <1> DEFINE map == WireMap(d)
             D == DrivenSlots(d.outs)
             in(i) == InputSlots(d.outs)[i]
             out(b) == OutputSlot(d.ins, d.outs, b)
  <1>1. /\ \A i \in DOMAIN InBits : in(i) \in D
        /\ \A i \in DOMAIN InBits : Line(InBits[i]) # None => ClassOf(d.outs[in(i) + 1]) = Line(InBits[i])
        /\ \A i, j \in DOMAIN InBits : in(i) = in(j) => i = j
        /\ \A s \in D : \E i \in DOMAIN InBits : in(i) = s
    BY InputSlotsFacts
  <1>2. /\ \A b \in Nat :
              \/ out(b) = NoSlot
              \/ out(b) = <<"Outs", b>> /\ b < Len(d.outs) /\ b \notin D
              \/ \E n : out(b) = <<"Ins", n>>
        /\ \A b, c \in Nat : out(b) = out(c) /\ out(b) # NoSlot => b = c
    BY OutputSlotFacts
  <1>3. \A e \in Range(map.inputs) : \E i \in DOMAIN InBits :
          /\ e.port = InBits[i] /\ e.slot[1] = "Outs" /\ e.slot[2] = in(i)
          /\ e.tap = Tap(d.outs[in(i) + 1])
    <2> SUFFICES ASSUME NEW i \in DOMAIN InBits
                 PROVE  /\ map.inputs[i].port = InBits[i]
                        /\ map.inputs[i].slot[1] = "Outs" /\ map.inputs[i].slot[2] = in(i)
                        /\ map.inputs[i].tap = Tap(d.outs[in(i) + 1])
      <3>1. \A e \in Range(map.inputs) : \E i \in DOMAIN InBits : e = map.inputs[i]
        BY WireMapEntries DEF Range
      <3> HIDE DEF map, in
      <3>2. QED
        BY <3>1
    <2> DEFINE slot == <<"Outs", in(i)>>
    <2>1. map.inputs[i] = Entry(d, InBits[i], slot)
      BY WireMapEntries
    <2>2. slot[1] = "Outs" /\ slot[2] = in(i) /\ RecordAt(d.ins, d.outs, slot) = d.outs[in(i) + 1]
      BY DEF RecordAt, NoSlot
    <2> HIDE DEF slot
    <2>3. QED
      BY <2>1, <2>2, EntryFacts
  <1>4. \A e \in Range(map.outputs) : \E i \in DOMAIN OutBits :
          /\ e.port = OutBits[i] /\ e.slot = out(i - 1) /\ i - 1 \in Nat
          /\ e.tap = Tap(RecordAt(d.ins, d.outs, out(i - 1)))
    <2> SUFFICES ASSUME NEW i \in DOMAIN OutBits
                 PROVE  /\ map.outputs[i].port = OutBits[i] /\ map.outputs[i].slot = out(i - 1) /\ i - 1 \in Nat
                        /\ map.outputs[i].tap = Tap(RecordAt(d.ins, d.outs, out(i - 1)))
      BY WireMapEntries DEF Range
    <2>1. map.outputs[i] = Entry(d, OutBits[i], out(i - 1))
      BY WireMapEntries
    <2>2. i - 1 \in Nat
      BY InventoryAssumption
    <2>3. QED
      BY <2>1, <2>2, EntryFacts
  <1>5. \A s \in D : s \in Nat /\ s + 1 \in DOMAIN d.outs /\ DrivesTheBlock(d.outs[s + 1])
    BY DEF DrivenSlots
  <1>6. \A s \in DOMAIN d.outs : DrivesTheBlock(d.outs[s]) => s - 1 \in D
    BY DEF DrivenSlots
  <1>7. \A s \in D : \E e \in Range(map.inputs) : e.slot = <<"Outs", s>>
    <2> SUFFICES ASSUME NEW i \in DOMAIN InBits
                 PROVE  \E e \in Range(map.inputs) : e.slot = <<"Outs", in(i)>>
      BY <1>1
    <2> DEFINE slot == <<"Outs", in(i)>>
    <2>0. map.inputs[i] = Entry(d, InBits[i], slot)
      BY WireMapEntries
    <2> HIDE DEF slot
    <2>1. map.inputs[i].slot = slot
      BY <2>0, EntryFacts
    <2>2. map.inputs[i] \in Range(map.inputs)
      BY WireMapEntries DEF Range
    <2>3. QED
      BY <2>1, <2>2 DEF slot
  <1> HIDE DEF map, in, out, D
  <1>8. ASSUME NEW e \in Range(map.inputs), Line(e.port) # None PROVE WireClass[e.tap[3]] = Line(e.port)
    <2>1. PICK i \in DOMAIN InBits : e.port = InBits[i] /\ e.tap = Tap(d.outs[in(i) + 1])
      BY <1>3
    <2>2. Live(d.outs[in(i) + 1]) /\ ClassOf(d.outs[in(i) + 1]) = Line(e.port)
      BY <1>1, <1>5, <1>8, <2>1 DEF DrivesTheBlock
    <2>3. QED
      BY <2>1, <2>2, TapFacts
  <1>9. ASSUME NEW e \in Entries(map), NEW o \in Entries(map), e.slot = o.slot, e.slot # NoSlot
        PROVE  e.port = o.port
    <2>1. CASE e \in Range(map.inputs) /\ o \in Range(map.inputs)
      <3>1. PICK i \in DOMAIN InBits : e.port = InBits[i] /\ e.slot[2] = in(i)
        BY <1>3, <2>1
      <3>2. PICK j \in DOMAIN InBits : o.port = InBits[j] /\ o.slot[2] = in(j)
        BY <1>3, <2>1
      <3>3. in(i) = in(j)
        BY <1>9, <3>1, <3>2
      <3>4. QED
        BY <1>1, <3>1, <3>2, <3>3
    <2>2. CASE e \in Range(map.outputs) /\ o \in Range(map.outputs)
      <3>1. PICK i \in DOMAIN OutBits : e.port = OutBits[i] /\ e.slot = out(i - 1) /\ i - 1 \in Nat
        BY <1>4, <2>2
      <3>2. PICK j \in DOMAIN OutBits : o.port = OutBits[j] /\ o.slot = out(j - 1) /\ j - 1 \in Nat
        BY <1>4, <2>2
      <3>3. i - 1 = j - 1
        BY <1>2, <1>9, <3>1, <3>2
      <3>4. i = j
        BY <3>3, InventoryAssumption
      <3>5. QED
        BY <3>1, <3>2, <3>4
    <2>3. ASSUME NEW f \in Range(map.inputs), NEW g \in Range(map.outputs), g.slot # NoSlot
          PROVE  f.slot # g.slot
      <3>1. PICK i \in DOMAIN InBits : f.slot[1] = "Outs" /\ f.slot[2] = in(i) /\ in(i) \in D
        BY <1>1, <1>3
      <3>2. PICK j \in DOMAIN OutBits : g.slot = out(j - 1) /\ j - 1 \in Nat
        BY <1>4
      <3>3. \/ g.slot = <<"Outs", j - 1>> /\ j - 1 \notin D
            \/ \E n : g.slot = <<"Ins", n>>
        BY <1>2, <2>3, <3>2
      <3>4. QED
        BY <3>1, <3>3
    <2>4. QED
      BY <1>9, <2>1, <2>2, <2>3 DEF Entries
  <1>10. ASSUME NEW e \in Range(map.outputs), e.slot # NoSlot, e.tap # NoTap, e.slot[1] = "Outs"
         PROVE  WireClass[e.tap[3]] \in BlockDriven
    <2>1. PICK i \in DOMAIN OutBits : /\ e.slot = out(i - 1) /\ i - 1 \in Nat
                                      /\ e.tap = Tap(RecordAt(d.ins, d.outs, out(i - 1)))
      BY <1>4
    <2>2. e.slot = <<"Outs", i - 1>> /\ i - 1 < Len(d.outs) /\ i - 1 \notin D
      BY <1>2, <1>10, <2>1
    <2>3. e.tap = Tap(d.outs[i])
      <3>1. RecordAt(d.ins, d.outs, e.slot) = d.outs[(i - 1) + 1]
        BY <2>2, RecordFacts
      <3>2. (i - 1) + 1 = i
        BY InventoryAssumption
      <3>3. QED
        BY <2>1, <2>2, <3>1, <3>2
    <2>4. i \in DOMAIN d.outs /\ ~DrivesTheBlock(d.outs[i])
      BY <1>6, <2>1, <2>2, InventoryAssumption
    <2>5. Live(d.outs[i])
      BY <1>10, <2>3, TapFacts
    <2>6. ClassOf(d.outs[i]) \in BlockDriven
      BY <2>4, <2>5 DEF DrivesTheBlock
    <2>7. QED
      BY <2>3, <2>5, <2>6, TapFacts
  <1>11. \A s \in DOMAIN d.outs : DrivesTheBlock(d.outs[s]) =>
           \E e \in Range(map.inputs) : e.slot = <<"Outs", s - 1>>
    BY <1>6, <1>7
  <1>12. QED
    BY <1>8, <1>9, <1>10, <1>11 DEF map

------------------------------------------------------------------------------
(* The chipdb and the port map. *)

\* What the entries of a map have in common: a bit each, its slot's record's tap, and a
\* slot that is in its table.
LEMMA EntriesFacts ==
  ASSUME NEW d \in Dats, Resolvable(d.outs)
  PROVE  /\ \A e \in Entries(WireMap(d)) :
              /\ e.port \in Bits
              /\ e.tap = Tap(RecordAt(d.ins, d.outs, e.slot))
              /\ e.reason # None <=> e.tap = NoTap
              /\ e.slot # NoSlot => e.slot[2] < Len(IF e.slot[1] = "Ins" THEN d.ins ELSE d.outs)
         /\ \A e, o \in Entries(WireMap(d)) : e.port = o.port => e = o
  <1> DEFINE map == WireMap(d)
             slotIn(i) == <<"Outs", InputSlots(d.outs)[i]>>
             slotOut(i) == OutputSlot(d.ins, d.outs, i - 1)
  <1>0. Len(d.ins) \in Nat /\ Len(d.outs) \in Nat
    BY DatsAssumption
  <1>1. \A e \in Range(map.inputs) : \E i \in DOMAIN InBits : e = Entry(d, InBits[i], slotIn(i))
    BY WireMapEntries DEF Range
  <1>2. \A e \in Range(map.outputs) : \E i \in DOMAIN OutBits : e = Entry(d, OutBits[i], slotOut(i))
    BY WireMapEntries DEF Range
  <1>3. \A i \in DOMAIN InBits :
          slotIn(i) # NoSlot => slotIn(i)[2] < Len(IF slotIn(i)[1] = "Ins" THEN d.ins ELSE d.outs)
    <2> SUFFICES ASSUME NEW i \in DOMAIN InBits
                 PROVE  slotIn(i)[2] < Len(IF slotIn(i)[1] = "Ins" THEN d.ins ELSE d.outs)
      OBVIOUS
    <2>1. InputSlots(d.outs)[i] \in DrivenSlots(d.outs)
      BY <1>0, InputSlotsFacts
    <2>2. InputSlots(d.outs)[i] < Len(d.outs)
      BY <1>0, <2>1 DEF DrivenSlots
    <2>3. slotIn(i)[1] = "Outs" /\ slotIn(i)[2] = InputSlots(d.outs)[i]
      OBVIOUS
    <2>4. QED
      BY <2>2, <2>3
  <1>4. \A i \in DOMAIN OutBits :
          slotOut(i) # NoSlot => slotOut(i)[2] < Len(IF slotOut(i)[1] = "Ins" THEN d.ins ELSE d.outs)
    <2> SUFFICES ASSUME NEW i \in DOMAIN OutBits, slotOut(i) # NoSlot
                 PROVE  slotOut(i)[2] < Len(IF slotOut(i)[1] = "Ins" THEN d.ins ELSE d.outs)
      OBVIOUS
    <2>1. i - 1 \in Nat
      BY InventoryAssumption
    <2>2. \/ slotOut(i) = <<"Outs", i - 1>> /\ i - 1 < Len(d.outs)
          \/ slotOut(i) = <<"Ins", (i - 1) - FirstIn(d.outs)>> /\ (i - 1) - FirstIn(d.outs) < Len(d.ins)
      BY <1>0, <2>1, OutputSlotFacts
    <2>3. "Outs" # "Ins"
      OBVIOUS
    <2>4. CASE slotOut(i) = <<"Outs", i - 1>> /\ i - 1 < Len(d.outs)
      <3>1. slotOut(i)[1] = "Outs" /\ slotOut(i)[2] = i - 1
        BY <2>4
      <3>2. QED
        BY <2>4, <3>1
    <2>5. CASE slotOut(i) = <<"Ins", (i - 1) - FirstIn(d.outs)>> /\ (i - 1) - FirstIn(d.outs) < Len(d.ins)
      <3>1. slotOut(i)[1] = "Ins" /\ slotOut(i)[2] = (i - 1) - FirstIn(d.outs)
        BY <2>5
      <3>2. QED
        BY <2>5, <3>1
    <2>6. QED
      BY <2>2, <2>4, <2>5
  <1> HIDE DEF slotIn, slotOut
  <1>5. \A e \in Entries(map) :
          /\ e.tap = Tap(RecordAt(d.ins, d.outs, e.slot))
          /\ e.slot # NoSlot => e.slot[2] < Len(IF e.slot[1] = "Ins" THEN d.ins ELSE d.outs)
          /\ e.reason = Reason(RecordAt(d.ins, d.outs, e.slot))
    BY <1>1, <1>2, <1>3, <1>4, EntryFacts DEF Entries
  <1>6. \A e \in Entries(map) : e.reason # None <=> e.tap = NoTap
    BY <1>5, TapFacts
  <1>7. \A e \in Entries(map) : e.port \in Bits
    BY <1>1, <1>2, EntryFacts DEF Entries, Bits, Range
  <1>8. \A e, o \in Entries(map) : e.port = o.port => e = o
    BY <1>1, <1>2, EntryFacts, InventoryAssumption DEF Entries
  <1>9. QED
    BY <1>5, <1>6, <1>7, <1>8

\* The router finds each bit but CORE_CLK at its entry's tap (live_portmap).
LEMMA BoundResolves ==
  ASSUME NEW d \in DOMAIN WireMapOf, NEW hop,
         DOMAIN hop.nodes \intersect (Wires \union {Alias[p] : p \in Bits}) = {},
         NEW e \in Entries(WireMap(d)), e.port # CoreClk
  PROVE  Resolve(ChipdbOf(d, hop), Bound(e)) = e.tap
  <1> DEFINE chip == ChipdbOf(d, hop)
             map == WireMap(d)
  <1>1. d \in Dats /\ Resolvable(d.outs) /\ WireMapOf[d] = map
    BY DEF WireMapOf
  <1>2. /\ \A x \in Entries(map) : x.port \in Bits
        /\ \A x, y \in Entries(map) : x.port = y.port => x = y
    BY <1>1, EntriesFacts
  <1>3. /\ DOMAIN chip.nodes = DOMAIN hop.nodes \union {Alias[x.port] : x \in Away(map)}
        /\ \A n \in {Alias[x.port] : x \in Away(map)} : n \notin DOMAIN hop.nodes =>
             chip.nodes[n] = {At(n), (CHOOSE x \in Away(map) : Alias[x.port] = n).tap}
    BY <1>1 DEF ChipdbOf
  <1>4. Away(map) \subseteq Entries(map)
    BY DEF Away
  <1>5. CASE e.tap = NoTap
    BY <1>5 DEF Bound, Resolve
  <1>6. ASSUME e.tap # NoTap
        PROVE  e.tap[3] \in Wires /\ e.tap = <<e.tap[1], e.tap[2], e.tap[3]>>
    <2>1. PICK rec : e.tap = Tap(rec)
      BY <1>1, EntriesFacts
    <2>2. Live(rec)
      BY <1>6, <2>1, TapFacts
    <2>3. rec[3] \in DOMAIN WireNames
      BY <2>2 DEF Live, Reason, None
    <2>4. e.tap = <<rec[1] - 1, rec[2] - 1, WireNames[rec[3]]>>
      BY <2>1, <2>2 DEF Tap
    <2>5. QED
      BY <2>3, <2>4 DEF Wires, Range
  <1>7. CASE e.tap # NoTap /\ <<e.tap[1], e.tap[2]>> = Anchor
    <2> DEFINE value == e.tap[3]
    <2>1. Bound(e) = value
      BY <1>7 DEF Bound
    <2>2. value \in Wires
      BY <1>6, <1>7
    <2>3. value # Unmapped
      BY <2>2, AliasAssumption
    <2>4. value \notin DOMAIN chip.nodes
      BY <1>2, <1>3, <1>4, <2>2, AliasAssumption
    <2> HIDE DEF value, chip
    <2>5. Resolve(chip, value) = <<Anchor[1], Anchor[2], value>>
      BY <2>3, <2>4 DEF Resolve
    <2>6. Anchor[1] = e.tap[1] /\ Anchor[2] = e.tap[2]
      BY <1>7
    <2>7. e.tap = <<Anchor[1], Anchor[2], value>>
      BY <1>6, <1>7, <2>6 DEF value
    <2>8. QED
      BY <2>1, <2>5, <2>7 DEF chip
  <1>8. CASE e.tap # NoTap /\ <<e.tap[1], e.tap[2]>> # Anchor
    <2> DEFINE value == Alias[e.port]
    <2>1. Bound(e) = value
      BY <1>8 DEF Bound
    <2>2. e \in Away(map)
      BY <1>8 DEF Away
    <2>3. value \notin Wires /\ value # Unmapped /\ value \notin DOMAIN hop.nodes
      BY <1>2, AliasAssumption
    <2>4. \A x \in Away(map) : Alias[x.port] = value <=> x = e
      BY <1>2, <1>4, <2>2, AliasAssumption
    <2>5. value \in DOMAIN chip.nodes
      BY <1>3, <2>2
    <2>6. chip.nodes[value] = {At(value), (CHOOSE x \in Away(map) : Alias[x.port] = value).tap}
      BY <1>3, <2>2, <2>3
    <2> HIDE DEF value, chip
    <2>7. (CHOOSE x \in Away(map) : Alias[x.port] = value) = e
      BY <2>2, <2>4
    <2>8. chip.nodes[value] = {At(value), e.tap}
      BY <2>6, <2>7
    <2>9. At(value)[3] = value
      BY DEF At
    <2>10. e.tap[3] # value
      BY <1>6, <1>8, <2>3
    <2>11. Elsewhere(chip, value) = {e.tap}
      BY <2>8, <2>9, <2>10 DEF Elsewhere
    <2>12. Resolve(chip, value) = CHOOSE loc \in Elsewhere(chip, value) : TRUE
      BY <2>3, <2>5 DEF Resolve
    <2>13. QED
      BY <2>1, <2>11, <2>12 DEF chip
  <1>9. QED
    BY <1>5, <1>7, <1>8

\* The map of each half, by the names that the chipdb and the port map have for it.
LEMMA HalfFacts ==
  ASSUME NEW d \in DOMAIN WireMapOf, NEW hop, NEW half \in Halves
  PROVE  LET entries == EntriesOf(WireMap(d), half)
             chip == ChipdbOf(d, hop)
         IN  /\ Range(entries) \subseteq Entries(WireMap(d))
             /\ DOMAIN chip[half] = {e.port : e \in Range(entries)}
             /\ \A p \in DOMAIN chip[half] : p # CoreClk =>
                  chip[half][p] = Bound(CHOOSE e \in Range(entries) : e.port = p)
  <1> DEFINE map == WireMap(d)
             bound(entries) ==
               [p \in {e.port : e \in Range(entries)} |->
                  IF p = CoreClk THEN hop.wire ELSE Bound(CHOOSE e \in Range(entries) : e.port = p)]
  <1>1. WireMapOf[d] = map
    BY DEF WireMapOf
  <1>2. /\ ChipdbOf(d, hop)["inputs"] = bound(map.inputs)
        /\ ChipdbOf(d, hop)["outputs"] = bound(map.outputs)
    BY <1>1 DEF ChipdbOf
  <1>3. ChipdbOf(d, hop)[half] = bound(EntriesOf(map, half))
    <2>1. CASE half = "inputs"
      <3>1. EntriesOf(map, half) = map.inputs
        BY <2>1 DEF EntriesOf
      <3> HIDE DEF bound, map
      <3>2. QED
        BY <1>2, <2>1, <3>1
    <2>2. CASE half = "outputs"
      <3>1. EntriesOf(map, half) = map.outputs
        BY <2>2 DEF EntriesOf
      <3> HIDE DEF bound, map
      <3>2. QED
        BY <1>2, <2>2, <3>1
    <2>3. QED
      BY <2>1, <2>2 DEF Halves
  <1>4. Range(EntriesOf(map, half)) \subseteq Entries(map)
    BY DEF EntriesOf, Entries
  <1> DEFINE entries == EntriesOf(map, half)
  <1> HIDE DEF map, entries
  <1>5. DOMAIN bound(entries) = {e.port : e \in Range(entries)}
    OBVIOUS
  <1>6. \A p \in DOMAIN bound(entries) : p # CoreClk =>
          bound(entries)[p] = Bound(CHOOSE e \in Range(entries) : e.port = p)
    OBVIOUS
  <1> HIDE DEF bound
  <1>7. QED
    BY <1>3, <1>4, <1>5, <1>6 DEF map, entries

\* Each row but CORE_CLK's has the tap of the record that its slot names, which is in its
\* table (build over a chipdb that is built from the .dat of the wire map).
LEMMA RowNamesItsTap ==
  ASSUME NEW d \in DOMAIN WireMapOf, NEW hop, NEW roles,
         DOMAIN hop.nodes \intersect (Wires \union {Alias[p] : p \in Bits}) = {},
         NEW half \in Halves, NEW port \in DOMAIN ChipdbOf(d, hop)[half], port # CoreClk
  PROVE  LET r == Row(ChipdbOf(d, hop), roles, WireMap(d), half, port)
         IN  /\ r.slot # NoSlot => r.slot[2] < Len(IF r.slot[1] = "Ins" THEN d.ins ELSE d.outs)
             /\ r.tap = Tap(RecordAt(d.ins, d.outs, r.slot))
  <1> DEFINE chip == ChipdbOf(d, hop)
             map == WireMap(d)
             entries == EntriesOf(map, half)
             r == Row(chip, roles, map, half, port)
  <1>1. d \in Dats /\ Resolvable(d.outs)
    BY DEF WireMapOf
  <1>2. PICK e \in Range(entries) : e.port = port
    BY HalfFacts
  <1>3. e \in Entries(map) /\ \A o \in Range(entries) : o.port = port => o = e
    BY <1>1, <1>2, HalfFacts, EntriesFacts
  <1>4. chip[half][port] = Bound(CHOOSE o \in Range(entries) : o.port = port)
    BY HalfFacts
  <1>5. r.tap = Resolve(chip, chip[half][port]) /\ r.slot = EntryOf(map, half, port).slot
    BY DEF Row
  <1>6. EntryOf(map, half, port).slot = entries[CHOOSE i \in DOMAIN entries : entries[i].port = port].slot
    BY DEF EntryOf
  <1> HIDE DEF entries, map, r, chip
  <1>7. (CHOOSE o \in Range(entries) : o.port = port) = e
    BY <1>2, <1>3
  <1>8. entries[CHOOSE i \in DOMAIN entries : entries[i].port = port] = e
    <2>1. \E i \in DOMAIN entries : entries[i].port = port
      BY <1>2 DEF Range
    <2>2. \A i \in DOMAIN entries : entries[i].port = port => entries[i] = e
      BY <1>3 DEF Range
    <2>3. QED
      BY <2>1, <2>2
  <1>9. r.slot = e.slot
    BY <1>5, <1>6, <1>8
  <1>10. chip[half][port] = Bound(e)
    BY <1>4, <1>7
  <1>11. Resolve(chip, Bound(e)) = e.tap
    BY <1>2, <1>3, BoundResolves DEF chip, map
  <1>12. r.tap = e.tap
    BY <1>5, <1>10, <1>11
  <1>13. /\ e.tap = Tap(RecordAt(d.ins, d.outs, e.slot))
         /\ e.slot # NoSlot => e.slot[2] < Len(IF e.slot[1] = "Ins" THEN d.ins ELSE d.outs)
    BY <1>1, <1>3, EntriesFacts DEF map
  <1>14. QED
    BY <1>9, <1>12, <1>13 DEF r, chip, map

\* The bits that the chipdb lists as unmapped are those the map gives a reason for.
LEMMA UnmappedAreUnbound ==
  ASSUME NEW d \in DOMAIN WireMapOf, NEW hop
  PROVE  ChipdbOf(d, hop).unmapped = {e.port : e \in {f \in Entries(WireMap(d)) : f.reason # None}}
  <1>1. d \in Dats /\ Resolvable(d.outs) /\ WireMapOf[d] = WireMap(d)
    BY DEF WireMapOf
  <1>2. ChipdbOf(d, hop).unmapped = {e.port : e \in {f \in Entries(WireMap(d)) : f.tap = NoTap}}
    BY <1>1 DEF ChipdbOf
  <1>3. {f \in Entries(WireMap(d)) : f.tap = NoTap} = {f \in Entries(WireMap(d)) : f.reason # None}
    BY <1>1, EntriesFacts
  <1>4. QED
    BY <1>2, <1>3

\* A settled bit's wire is used in its direction and not in the other (build: expected).
LEMMA SettledRow ==
  ASSUME NEW chip, NEW stream, NEW map, NEW half \in Halves, NEW port,
         ~Row(chip, Fixture(stream), map, half, port).provisional,
         Row(chip, Fixture(stream), map, half, port).tap # NoTap,
         Fabric(Row(chip, Fixture(stream), map, half, port).tap[3])
  PROVE  LET tap == Row(chip, Fixture(stream), map, half, port).tap
             tile == Merged(stream.ae350[<<tap[1], tap[2]>>])
         IN  /\ tap[3] \in DOMAIN tile <=> half = "inputs"
             /\ tap[3] \in Range(tile) <=> half = "outputs"
  <1> DEFINE tap == Row(chip, Fixture(stream), map, half, port).tap
             roles == Fixture(stream)
             at == <<tap[1], tap[2]>>
             seen == Evidence(tap, roles)
  <1>1. tap = Resolve(chip, chip[half][port])
    BY DEF Row
  <1>2. seen \in {Unmapped, Expected[half], "not-a-fabric-tap"}
    BY <1>1 DEF Row
  <1>3. \/ half = "inputs" /\ Expected[half] = "pip-destination"
        \/ half = "outputs" /\ Expected[half] = "pip-source"
    BY DEF Halves, Expected
  <1>4. Fabric(tap[3])
    OBVIOUS
  <1>5. /\ at \notin DOMAIN roles => seen = "no-pip-in-tile"
        /\ at \in DOMAIN roles =>
             seen = IF tap[3] \in roles[at].dest
                      THEN IF tap[3] \in roles[at].src THEN "both" ELSE "pip-destination"
                      ELSE IF tap[3] \in roles[at].src THEN "pip-source" ELSE "wire-not-in-any-pip"
    BY <1>4 DEF Evidence
  <1> HIDE DEF tap, roles, at, seen
  <1>6. /\ at \in DOMAIN roles
        /\ tap[3] \in roles[at].dest <=> half = "inputs"
        /\ tap[3] \in roles[at].src <=> half = "outputs"
    BY <1>2, <1>3, <1>5 DEF Unmapped
  <1>7. roles[at] = IF at \in DOMAIN Roles(stream.ae350) THEN Roles(stream.ae350)[at] ELSE [dest |-> {}, src |-> {}]
    BY <1>6 DEF roles, Fixture
  <1>8. at \in DOMAIN Roles(stream.ae350)
    BY <1>3, <1>6, <1>7
  <1>9. roles[at] = [dest |-> {w \in DOMAIN Merged(stream.ae350[at]) : Fabric(w)},
                     src  |-> {w \in Range(Merged(stream.ae350[at])) : Fabric(w)}]
    BY <1>7, <1>8 DEF Roles
  <1>10. /\ tap[3] \in DOMAIN Merged(stream.ae350[at]) <=> half = "inputs"
         /\ tap[3] \in Range(Merged(stream.ae350[at])) <=> half = "outputs"
    BY <1>4, <1>6, <1>9 DEF tap
  <1>11. QED
    BY <1>10 DEF at, tap

------------------------------------------------------------------------------
(* What is current. *)

\* The chipdb was built from a .dat that resolves, with the hop of a first state.
ChipdbIsBuilt == \E d \in DOMAIN WireMapOf, s \in Starts : db = ChipdbOf(d, s.hop)

\* What passed --check has the text that its inputs give as they are now, and the facts
\* are those of this chipdb.
CheckedIsCurrent ==
  /\ "wires" \in checked => Resolvable(dat.outs) /\ wireFile = WireMapOf[dat]
  /\ "roles" \in checked => roleFile = Fixture(fs)
  /\ "ports" \in checked => portFile = PortMap(db, roleFile, wireFile)

FactsAreOfThisChipdb == facts # -1 => facts = Satisfied(db, packer, record)

CurInv == dat \in Dats /\ ChipdbIsBuilt /\ CheckedIsCurrent /\ FactsAreOfThisChipdb

\* A chipdb names what it was built from.
LEMMA ChipdbNamesItsDat ==
  ASSUME NEW d, NEW hop
  PROVE  ChipdbOf(d, hop).builtFrom = d /\ ChipdbOf(d, hop).hop = hop
  BY DEF ChipdbOf

\* The first chipdb is built from a .dat that resolves; nothing is checked.
LEMMA CurInvInit == Init => CurInv
  <1> SUFFICES ASSUME Init PROVE CurInv
    OBVIOUS
  <1>1. PICK s \in Starts : dat = s.dat /\ db = ChipdbOf(s.dat, s.hop)
    BY DEF Init
  <1>2. s.dat \in DOMAIN WireMapOf
    BY <1>1, StartsAssumption
  <1>3. dat \in Dats
    BY <1>1, <1>2 DEF WireMapOf
  <1>4. ChipdbIsBuilt
    BY <1>1, <1>2 DEF ChipdbIsBuilt
  <1>5. QED
    BY <1>3, <1>4 DEF Init, CurInv, CheckedIsCurrent, FactsAreOfThisChipdb

\* A step that leaves nothing checked, or nothing checked anew over files and inputs as
\* they were, and the facts with the chipdb they are of, keeps CurInv.
LEMMA CurInvFrame ==
  ASSUME CurInv, dat' \in Dats, UNCHANGED <<packer, record>>,
         \/ checked' = {}
         \/ checked' \subseteq checked /\ UNCHANGED <<dat, fs, db, files>>,
         UNCHANGED db,
         facts' \in {-1, facts, Satisfied(db, packer, record)}
  PROVE  CurInv'
  <1>1. UNCHANGED <<db, packer, record>>
    OBVIOUS
  <1>2. ChipdbIsBuilt'
    BY <1>1 DEF CurInv, ChipdbIsBuilt
  <1>3. Satisfied(db, packer, record)' = Satisfied(db, packer, record)
    BY <1>1 DEF Satisfied, BelExists, CoreClkNonroutable, HopIsFixed, SharesNode, FuseSet, Reconciled
  <1>4. FactsAreOfThisChipdb'
    BY <1>3 DEF CurInv, FactsAreOfThisChipdb
  <1>5. CheckedIsCurrent'
    <2>1. CASE checked' = {}
      BY <2>1 DEF CheckedIsCurrent
    <2>2. CASE checked' \subseteq checked /\ UNCHANGED <<dat, fs, db, files>>
      <3>1. UNCHANGED <<dat, fs, db, wireFile, roleFile, portFile>>
        BY <2>2 DEF files
      <3>2. CheckedIsCurrent
        BY DEF CurInv
      <3>3. QED
        BY <2>2, <3>1, <3>2 DEF CheckedIsCurrent
    <2>3. QED
      BY <2>1, <2>2
  <1>6. QED
    BY <1>2, <1>4, <1>5 DEF CurInv

\* A passed --check adds its tool, whose artefact is then current.
LEMMA PassKeepsCurInv ==
  ASSUME CurInv, NEW tool, Passes(tool),
         tool = "wires" => Resolvable(dat.outs) /\ wireFile = WireMapOf[dat],
         tool = "roles" => roleFile = Fixture(fs),
         tool = "ports" => portFile = PortMap(db, roleFile, wireFile)
  PROVE  CurInv'
  <1>1. /\ checked' = checked \union {tool}
        /\ UNCHANGED <<dat, fs, db, packer, record, wireFile, roleFile, portFile, facts>>
    BY DEF Passes, inputs, files
  <1>2. ChipdbIsBuilt'
    BY <1>1 DEF CurInv, ChipdbIsBuilt
  <1>3. Satisfied(db, packer, record)' = Satisfied(db, packer, record)
    BY <1>1 DEF Satisfied, BelExists, CoreClkNonroutable, HopIsFixed, SharesNode, FuseSet, Reconciled
  <1>4. FactsAreOfThisChipdb'
    BY <1>1, <1>3 DEF CurInv, FactsAreOfThisChipdb
  <1>5. CheckedIsCurrent'
    BY <1>1 DEF CurInv, CheckedIsCurrent
  <1>6. QED
    BY <1>1, <1>2, <1>4, <1>5 DEF CurInv

\* Every step keeps CurInv: a change from outside and a rewrite leave nothing checked, a
\* new chipdb has no facts yet, and a --check passes only over what it derives now.
LEMMA CurInvStep == CurInv /\ [Next]_vars => CurInv'
  <1> SUFFICES ASSUME CurInv, [Next]_vars PROVE CurInv'
    OBVIOUS
  <1>0. dat \in Dats
    BY DEF CurInv
  <1>1. CASE InstallIde
    BY <1>1, CurInvFrame DEF InstallIde, Changed
  <1>2. CASE BuildChipdb
    <2>1. PICK d \in DOMAIN WireMapOf, s \in Starts : db = ChipdbOf(d, s.hop)
      BY DEF CurInv, ChipdbIsBuilt
    <2>2. db' = ChipdbOf(dat, s.hop)
      BY <1>2, <2>1, ChipdbNamesItsDat DEF BuildChipdb
    <2>3. dat \in DOMAIN WireMapOf
      BY <1>0, <1>2 DEF BuildChipdb, WireMapOf
    <2>4. ChipdbIsBuilt'
      BY <2>2, <2>3 DEF ChipdbIsBuilt
    <2>5. dat' = dat /\ checked' = {} /\ facts' = -1
      BY <1>2 DEF BuildChipdb, Changed
    <2>6. QED
      BY <1>0, <2>4, <2>5 DEF CurInv, CheckedIsCurrent, FactsAreOfThisChipdb
  <1>3. CASE RunVendor
    BY <1>0, <1>3, CurInvFrame DEF RunVendor, Changed
  <1>4. CASE DeriveWireMap
    BY <1>0, <1>4, CurInvFrame DEF DeriveWireMap, Rewrites, inputs
  <1>5. CASE CheckWireMap
    BY <1>5, PassKeepsCurInv DEF CheckWireMap, Current
  <1>6. CASE DerivePipRoles
    BY <1>0, <1>6, CurInvFrame DEF DerivePipRoles, Rewrites, inputs
  <1>7. CASE CheckPipRoles
    BY <1>7, PassKeepsCurInv DEF CheckPipRoles, Current
  <1>8. CASE DerivePortMap
    BY <1>0, <1>8, CurInvFrame DEF DerivePortMap, Rewrites, inputs
  <1>9. CASE CheckPortMap
    BY <1>9, PassKeepsCurInv DEF CheckPortMap, Current
  <1>10. CASE CheckAE350
    <2>1. UNCHANGED <<dat, fs, db, packer, record, files, checked>>
      BY <1>10 DEF CheckAE350, inputs
    <2>2. facts' = Satisfied(db, packer, record)
      BY <1>10 DEF CheckAE350
    <2>3. QED
      BY <1>0, <2>1, <2>2, CurInvFrame
  <1>11. CASE UNCHANGED vars
    BY <1>0, <1>11, CurInvFrame DEF vars, inputs
  <1>12. QED
    BY <1>1, <1>2, <1>3, <1>4, <1>5, <1>6, <1>7, <1>8, <1>9, <1>10, <1>11 DEF Next

\* CurInv holds in every reachable state.
LEMMA AlwaysCurrent == Spec => []CurInv
  <1>1. CurInv /\ [Next]_vars => CurInv'
    BY CurInvStep
  <1>2. QED
    BY CurInvInit, <1>1, PTL DEF Spec

------------------------------------------------------------------------------
(* The four properties. *)

\* A wire map that passed --check is the map of this .dat, which resolves; and the map of
\* any .dat that resolves is one to one (derive, input_records, output_records).
THEOREM MapIsAlwaysOneToOne == Spec => []MapIsOneToOne
  <1>1. CurInv => MapIsOneToOne
    <2> SUFFICES ASSUME CurInv, "wires" \in checked PROVE MapIsOneToOne
      BY DEF MapIsOneToOne
    <2>1. dat \in Dats /\ Resolvable(dat.outs) /\ wireFile = WireMapOf[dat]
      BY DEF CurInv, CheckedIsCurrent
    <2>2. wireFile = WireMap(dat)
      BY <2>1 DEF WireMapOf
    <2>3. Len(dat.ins) \in Nat /\ Len(dat.outs) \in Nat /\ DOMAIN dat.outs = 1..Len(dat.outs)
      BY <2>1, DatsAssumption
    <2> DEFINE map == WireMap(dat)
    <2>4. /\ \A s \in DOMAIN dat.outs : DrivesTheBlock(dat.outs[s]) =>
               \E e \in Range(map.inputs) : e.slot = <<"Outs", s - 1>>
          /\ \A e \in Range(map.inputs) : Line(e.port) # None => WireClass[e.tap[3]] = Line(e.port)
          /\ \A e, o \in Entries(map) : e.slot = o.slot /\ e.slot # NoSlot => e.port = o.port
          /\ \A e \in Range(map.outputs) :
               e.slot # NoSlot /\ e.tap # NoTap =>
                 (e.slot[1] = "Outs" => WireClass[e.tap[3]] \in BlockDriven)
      BY <2>1, <2>3, WireMapIsOneToOne
    <2>5. map = wireFile
      BY <2>2
    <2> HIDE DEF map
    <2>6. QED
      BY <2>4, <2>5 DEF MapIsOneToOne
  <1>2. QED
    BY <1>1, AlwaysCurrent, PTL

\* What the port map calls settled is used by the vendor's bitstream in the bit's direction
\* and not in the other, whatever the bitstream and the chipdb (build).
THEOREM SettledIsAlwaysRouted == Spec => []SettledIsRouted
  <1>1. CurInv => SettledIsRouted
    <2> SUFFICES ASSUME CurInv, {"roles", "ports"} \subseteq checked,
                        NEW half \in Halves, NEW r \in portFile.bits[half],
                        ~r.provisional, r.tap # NoTap, Fabric(r.tap[3])
                 PROVE  LET tile == Merged(fs.ae350[<<r.tap[1], r.tap[2]>>])
                        IN  /\ r.tap[3] \in DOMAIN tile <=> half = "inputs"
                            /\ r.tap[3] \in Range(tile) <=> half = "outputs"
      BY DEF SettledIsRouted
    <2>1. portFile = PortMap(db, Fixture(fs), wireFile)
      BY DEF CurInv, CheckedIsCurrent
    <2>2. PICK port \in DOMAIN db[half] : r = Row(db, Fixture(fs), wireFile, half, port)
      BY <2>1 DEF PortMap
    <2>3. QED
      BY <2>2, SettledRow
  <1>2. QED
    BY <1>1, AlwaysCurrent, PTL

\* Over a chipdb that is built from the .dat of the wire map, each row but CORE_CLK's has the
\* tap of the record its slot names, and the unmapped list is exact (build, live_portmap).
THEOREM SlotsAlwaysNameTheirTaps == Spec => []SlotsNameTheirTaps
  <1>1. CurInv => SlotsNameTheirTaps
    <2> SUFFICES ASSUME CurInv, {"wires", "ports"} \subseteq checked, db.builtFrom = dat
                 PROVE  SlotsNameTheirTaps
      BY DEF SlotsNameTheirTaps
    <2>1. PICK d \in DOMAIN WireMapOf, s \in Starts : db = ChipdbOf(d, s.hop)
      BY DEF CurInv, ChipdbIsBuilt
    <2>2. d = dat
      BY <2>1, ChipdbNamesItsDat
    <2>3. wireFile = WireMap(dat) /\ portFile = PortMap(db, roleFile, wireFile)
      BY DEF CurInv, CheckedIsCurrent, WireMapOf
    <2>4. DOMAIN s.hop.nodes \intersect (Wires \union {Alias[p] : p \in Bits}) = {}
      BY StartsAssumption
    <2>5. ASSUME NEW half \in Halves, NEW r \in portFile.bits[half], r.port # CoreClk
          PROVE  /\ r.slot # NoSlot => r.slot[2] < Len(IF r.slot[1] = "Ins" THEN dat.ins ELSE dat.outs)
                 /\ r.tap = Tap(RecordAt(dat.ins, dat.outs, r.slot))
      <3>1. PICK port \in DOMAIN db[half] : r = Row(db, roleFile, WireMap(dat), half, port)
        BY <2>3 DEF PortMap
      <3>2. port # CoreClk
        BY <2>5, <3>1 DEF Row
      <3>3. QED
        BY <2>1, <2>2, <2>4, <3>1, <3>2, RowNamesItsTap
    <2>6. portFile.unmapped = {e.port : e \in {f \in Entries(wireFile) : f.reason # None}}
      <3>1. portFile.unmapped = db.unmapped
        BY <2>3 DEF PortMap
      <3>2. QED
        BY <2>1, <2>2, <2>3, <3>1, UnmappedAreUnbound
    <2>7. QED
      BY <2>5, <2>6 DEF SlotsNameTheirTaps
  <1>2. QED
    BY <1>1, AlwaysCurrent, PTL

\* Four facts are all of them.
LEMMA FourFacts ==
  ASSUME NEW d, NEW p, NEW r, Satisfied(d, p, r) = 4
  PROVE  CoreClkNonroutable(d)
  <1> DEFINE all == <<BelExists(d), CoreClkNonroutable(d), FuseSet(p), Reconciled(d, r)>>
             held == {i \in 1..4 : all[i]}
  <1>1. IsFiniteSet(1..4) /\ Cardinality(1..4) = 4
    <2> DEFINE n == 4
    <2>1. n \in Int /\ 1 \in Int /\ n = 4
      OBVIOUS
    <2> HIDE DEF n
    <2>2. IsFiniteSet(1..n) /\ Cardinality(1..n) = IF 1 > n THEN 0 ELSE n - 1 + 1
      BY <2>1, FS_Interval
    <2>3. QED
      BY <2>1, <2>2
  <1>2. Cardinality(held) = 4
    BY DEF Satisfied
  <1>3. 1..4 = held
    <2>1. held \in SUBSET (1..4)
      OBVIOUS
    <2> HIDE DEF held
    <2>2. QED
      BY <1>1, <1>2, <2>1, FS_Subset
  <1>4. all[2]
    BY <1>3
  <1>5. QED
    BY <1>4

\* As many pips as sites, and an alias of its own for each site: the pips are the sites'.
LEMMA PipsAreTheSites ==
  ASSUME NEW d, IsFiniteSet(DOMAIN d.hop.pips), CoreClkNonroutable(d),
         \A s, t \in DOMAIN d.hop.sources : d.hop.sources[s].alias = d.hop.sources[t].alias => s = t
  PROVE  DOMAIN d.hop.pips = {d.hop.sources[s].alias : s \in DOMAIN d.hop.sources}
  <1> DEFINE pips == DOMAIN d.hop.pips
             alias(s) == d.hop.sources[s].alias
             f == [s \in PllSites |-> alias(s)]
  <1>1. \A s \in DOMAIN d.hop.sources : alias(s) \in pips
    BY DEF CoreClkNonroutable, HopIsFixed
  <1>2. PllSites \subseteq DOMAIN d.hop.sources
    BY DEF CoreClkNonroutable
  <1>3. f \in Injection(PllSites, pips)
    BY <1>1, <1>2 DEF Injection, IsInjective
  <1>4. Cardinality(PllSites) = Cardinality(pips)
    BY DEF CoreClkNonroutable
  <1>5. f \in Surjection(PllSites, pips)
    BY <1>3, <1>4, FS_Injection
  <1>6. \A a \in pips : \E s \in PllSites : a = alias(s)
    BY <1>5 DEF Surjection
  <1>7. QED
    BY <1>1, <1>2, <1>6

\* When all four facts hold, whatever drives CORE_CLK is a hop from a PLL that costs no fuse,
\* for any number of sites (_ae350_core_clk_nonroutable).
THEOREM CoreClkIsAlwaysFixed == Spec => []CoreClkIsFixed
  <1>1. CurInv => CoreClkIsFixed
    <2> DEFINE sources == db.hop.sources
    <2> SUFFICES ASSUME CurInv, facts = 4,
                        \A s, t \in DOMAIN sources : sources[s].alias = sources[t].alias => s = t
                 PROVE  /\ DOMAIN db.hop.pips = {sources[s].alias : s \in DOMAIN sources}
                        /\ \A a \in DOMAIN db.hop.pips : db.hop.pips[a] = 0
                        /\ db.inputs[CoreClk] = db.hop.wire
      BY DEF CoreClkIsFixed
    <2>1. CoreClkNonroutable(db)
      BY FourFacts DEF CurInv, FactsAreOfThisChipdb
    <2>2. IsFiniteSet(DOMAIN db.hop.pips)
      <3>1. PICK d \in DOMAIN WireMapOf, s \in Starts : db = ChipdbOf(d, s.hop)
        BY DEF CurInv, ChipdbIsBuilt
      <3>2. QED
        BY <3>1, ChipdbNamesItsDat, StartsAssumption
    <2>3. DOMAIN db.hop.pips = {sources[s].alias : s \in DOMAIN sources}
      BY <2>1, <2>2, PipsAreTheSites
    <2>4. \A s \in DOMAIN sources : db.hop.pips[sources[s].alias] = 0
      BY <2>1 DEF CoreClkNonroutable, HopIsFixed
    <2>5. db.inputs[CoreClk] = db.hop.wire
      BY <2>1 DEF CoreClkNonroutable
    <2>6. QED
      BY <2>3, <2>4, <2>5
  <1>2. QED
    BY <1>1, AlwaysCurrent, PTL
==============================================================================
