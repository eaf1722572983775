--------------------------- MODULE AE350WireMap ---------------------------
(***************************************************************************)
(* tools/derive_ae350_wire_map.py: which record of the vendor's two tables *)
(* binds each port bit of the hard block, and to which fabric wire.        *)
(* Bits and slots count from 0 as in the artefact.                         *)
(***************************************************************************)
EXTENDS Integers, Sequences, SequencesExt, FiniteSets, FiniteSetsExt

CONSTANTS
  WireNames,    \* wire index -> name, for the indices this device has
  WireClass,    \* wire name -> its letters
  GridRows, GridCols,
  InPorts, OutPorts,        \* port-inventory.json: <<name, width>> in order
  ClockPorts, ResetPorts,
  Measured,     \* the taps the vendor's bitstream was seen to use
  Footprint     \* the die columns of the block

ABSENT == 65535
None == "none"
NoTap == <<>>
NoSlot == <<>>
NoRecord == <<>>
BlockDriven == {"Q", "F", "OF"}

\* A bus becomes one bit per index, LSB first.
PortBits(ports) ==
  FlattenSeq([i \in DOMAIN ports |->
    IF ports[i][2] = 1 THEN <<<<ports[i][1], None>>>>
    ELSE [k \in 1..ports[i][2] |-> <<ports[i][1], ToString(k - 1)>>]])

\* Why a record binds no wire, or None.
Reason(rec) ==
  CASE rec = NoRecord -> "no-record"
    [] rec # NoRecord /\ \E i \in 1..3 : rec[i] \in {ABSENT, -1} -> "unbound"
    [] rec # NoRecord /\ \A i \in 1..3 : rec[i] \notin {ABSENT, -1} ->
         IF rec[1] - 1 \notin 0..GridRows - 1 \/ rec[2] - 1 \notin 0..GridCols - 1
           THEN "off-grid"
           ELSE IF rec[3] \in DOMAIN WireNames THEN None ELSE "unknown-wire-index"

Live(rec) == Reason(rec) = None
Tap(rec) == IF Live(rec) THEN <<rec[1] - 1, rec[2] - 1, WireNames[rec[3]]>> ELSE NoTap
ClassOf(rec) == WireClass[WireNames[rec[3]]]
DrivesTheBlock(rec) == Live(rec) /\ ClassOf(rec) \notin BlockDriven

\* The slots of the records the fabric drives.
DrivenSlots(outs) == {s \in 0..Len(outs) - 1 : DrivesTheBlock(outs[s + 1])}

\* A set of numbers in ascending order, by each one's place in it.
Rank(S, s) == Cardinality({t \in S : t <= s})
InOrder(S) == [k \in 1..Cardinality(S) |-> CHOOSE s \in S : Rank(S, s) = k]

Driven(outs) == InOrder(DrivenSlots(outs))

------------------------------------------------------------------------------
(* input_records *)

InBits == PortBits(InPorts)
OutBits == PortBits(OutPorts)
Line(bit) == IF bit[1] \in ResetPorts THEN "LSR" ELSE IF bit[1] \in ClockPorts THEN "CLK" ELSE None
OnLine(line) == {i \in DOMAIN InBits : Line(InBits[i]) = line}
Dedicated == DOMAIN InBits \ OnLine(None)

\* Each bit is listed once; a reset and a clock port have one bit each.
ASSUME InventoryAssumption ==
  /\ Len(InBits) \in Nat /\ DOMAIN InBits = 1..Len(InBits)
  /\ Len(OutBits) \in Nat /\ DOMAIN OutBits = 1..Len(OutBits)
  /\ \A i, j \in DOMAIN InBits : InBits[i] = InBits[j] => i = j
  /\ \A i, j \in DOMAIN OutBits : OutBits[i] = OutBits[j] => i = j
  /\ \A i \in DOMAIN InBits, j \in DOMAIN OutBits : InBits[i] # OutBits[j]
  /\ Cardinality(OnLine("LSR")) = Cardinality(ResetPorts)
  /\ Cardinality(OnLine("CLK")) = Cardinality(ClockPorts)

\* The driven slots at the dedicated positions whose records are on a line.
PoolSlots(outs, line) ==
  {Driven(outs)[i] : i \in {j \in Dedicated : ClassOf(outs[Driven(outs)[j] + 1]) = line}}
Pool(outs, line) == InOrder(PoolSlots(outs, line))

Resolvable(outs) ==
  /\ Cardinality(DrivenSlots(outs)) = Len(InBits)
  /\ Cardinality(PoolSlots(outs, "LSR")) = Cardinality(ResetPorts)
  /\ Cardinality(PoolSlots(outs, "CLK")) = Cardinality(ClockPorts)

\* Mutant of InputSlots: the first of a pool, which nobody takes out.
InputSlotsUnpopped(outs) ==
  [i \in DOMAIN InBits |->
     IF Line(InBits[i]) = None THEN Driven(outs)[i] ELSE Pool(outs, Line(InBits[i]))[1]]

\* Slot by slot, but a dedicated port takes the next of its line's pool.
InputSlots(outs) ==
  [i \in DOMAIN InBits |->
     LET line == Line(InBits[i])
     IN  IF line = None THEN Driven(outs)[i] ELSE Pool(outs, line)[Rank(OnLine(line), i)]]

------------------------------------------------------------------------------
(* output_records *)

\* The input run's first and last slot.
FirstIn(outs) == IF DrivenSlots(outs) = {} THEN 0 ELSE Min(DrivenSlots(outs))
LastIn(outs) == IF DrivenSlots(outs) = {} THEN -1 ELSE Max(DrivenSlots(outs))

\* Below and above the input run from Outs, in between from the start of Ins.
OutputSlot(ins, outs, bit) ==
  LET first == FirstIn(outs)
  IN  CASE bit >= Len(outs) -> NoSlot
        [] bit < Len(outs) /\ bit < first -> <<"Outs", bit>>
        [] bit < Len(outs) /\ bit >= first ->
             IF bit - first < Len(ins) THEN <<"Ins", bit - first>>
             ELSE IF bit <= LastIn(outs) THEN NoSlot ELSE <<"Outs", bit>>

RecordAt(ins, outs, slot) ==
  IF slot = NoSlot THEN NoRecord
  ELSE IF slot[1] = "Ins" THEN ins[slot[2] + 1] ELSE outs[slot[2] + 1]

------------------------------------------------------------------------------
(* The artefact. *)

Entry(dat, port, slot) ==
  LET rec == RecordAt(dat.ins, dat.outs, slot)
  IN  [port |-> port, slot |-> slot, tap |-> Tap(rec),
       provenance |-> IF ~Live(rec) THEN "UNBOUND"
                      ELSE IF Tap(rec) \in Measured THEN "MEASURED" ELSE "DAT-DERIVED",
       reason |-> Reason(rec)]

\* How many bits are bound, how many of them were measured or lie outside the
\* block, and how many slots each table has, live or not.
Summary(entries, tables) ==
  LET of(P(_)) == Cardinality({i \in DOMAIN entries : P(entries[i])})
  IN  [bound |-> of(LAMBDA e : e.tap # NoTap),
       measured |-> of(LAMBDA e : e.provenance = "MEASURED"),
       outside |-> of(LAMBDA e : e.tap # NoTap /\ e.tap[2] \notin Footprint),
       slots |-> [k \in DOMAIN tables |-> Len(tables[k])],
       live |-> [k \in DOMAIN tables |-> Len(SelectSeq(tables[k], Live))]]

\* derive; the whole map of a .dat whose inputs are resolvable.
WireMap(dat) ==
  LET slots   == InputSlots(dat.outs)
      inputs  == [i \in DOMAIN InBits |-> Entry(dat, InBits[i], <<"Outs", slots[i]>>)]
      outputs == [i \in DOMAIN OutBits |->
                    Entry(dat, OutBits[i], OutputSlot(dat.ins, dat.outs, i - 1))]
  IN  [inputs |-> inputs, outputs |-> outputs,
       run |-> <<FirstIn(dat.outs), LastIn(dat.outs)>>,
       summary |-> [inputs |-> Summary(inputs, <<dat.outs>>),
                    outputs |-> Summary(outputs, <<dat.ins, dat.outs>>)]]
=============================================================================
