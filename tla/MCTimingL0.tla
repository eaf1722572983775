------------------------------ MODULE MCTimingL0 ------------------------------
(***************************************************************************)
(* TimingL0 over small tables: a required group with two arcs, one with a   *)
(* pair of names that normalise to one, a supporting group of scalars; SDFs *)
(* of up to two arcs, delays on both sides of each limit.                   *)
(***************************************************************************)
EXTENDS TimingL0, SequencesExt

Pin(name, bracket) == [name |-> name, bracket |-> bracket]

MCClassGroups ==
  [cfu |-> [lut |-> TRUE, bram |-> TRUE, fanout |-> FALSE],
   pll |-> [pll |-> FALSE], io |-> [io |-> FALSE]]
MCClassCells == [pll |-> {"PLL"}, io |-> {"IBUF"}]

Emits(group, key, cell, from, to, kind) ==
  [group |-> group, key |-> key, cell |-> cell, from |-> from, to |-> to, kind |-> kind]
MCEmission ==
  {Emits("lut", "a", "LUT", Pin("I0", FALSE), Pin("F", FALSE), "comb"),
   Emits("lut", "b", "LUT", Pin("I1", FALSE), Pin("F", FALSE), "setup_hold"),
   Emits("bram", "c", "RAM", Pin("CLK", FALSE), Pin("DO0", FALSE), "clock_out"),
   Emits("bram", "d", "RAM", Pin("CLK", FALSE), Pin("DO0", TRUE), "clock_out")}

Entry(grade, group, key, delays) ==
  [grade |-> grade, group |-> group, key |-> key, delays |-> delays]
Fanout == {Entry("C1/I0", "fanout", "n", {}), Entry("C2/I1", "fanout", "n", {})}
Lut(c1) == {Entry("C2/I1", "lut", "a", {80, 88}), Entry("C1/I0", "lut", "a", c1),
            Entry("C1/I0", "lut", "b", {110})}
Bram == {Entry("C2/I1", "bram", "c", {88}), Entry("C1/I0", "bram", "c", {110}),
         Entry("C2/I1", "bram", "d", {8}), Entry("C1/I0", "bram", "d", {10})}
Whole == Fanout \union Lut({100, 110}) \union Bram

\* Whole tables, a required group missing or of scalars, one grade, none, and
\* ratios on and beyond the band's limits.
Tables ==
  {Whole, Bram, Fanout \union Lut({110}), {e \in Whole : e.grade = "C2/I1"}, {},
   Whole \union {Entry("C1/I0", "io", "x", {12}), Entry("C2/I1", "io", "x", {0})},
   Bram \union {Entry("C1/I0", "lut", "a", {}), Entry("C2/I1", "lut", "a", {})}}
  \union {Bram \union Lut({c1}) : c1 \in {108, 109, 111, 112}}

Path(cell, from, to, triples) ==
  [cell |-> cell, from |-> from, to |-> to, triples |-> triples]
Paths ==
  {Path("LUT", Pin("I0", FALSE), Pin("F", FALSE), t) :
     t \in {{}, {Missing}, {110}, {Missing, 100}, {99}, {130}}}
  \union {Path("RAM", Pin("CLK", FALSE), Pin("DO0", b), {11}) : b \in BOOLEAN}
  \union {Path("PLL", Pin("CLKIN", FALSE), Pin("CLKOUT0", TRUE), {n}) : n \in {0, 7}}
  \union {Path("IBUF", Pin("I", FALSE), Pin("O", FALSE), {5})}

Asks(cls, grade, sdf, condition, nextpnr, scale, paths, timing) ==
  [cls |-> cls, grade |-> grade, sdf |-> sdf, condition |-> condition,
   nextpnr |-> nextpnr, scale |-> scale, paths |-> paths, timing |-> timing]

MCJobs ==
  {Asks(cls, grade, TRUE, TRUE, TRUE, 1, paths, Whole) :
     cls \in {"cfu", "pll", "io", "dsp", "all"}, grade \in {"C1/I0", "typo"},
     paths \in BoundedSeq(Paths, 2)}
  \union {Asks("cfu", "C2/I1", TRUE, condition, nextpnr, scale, <<p>>, Whole) :
     condition \in BOOLEAN, nextpnr \in BOOLEAN, scale \in {1, 10}, p \in Paths}
  \union {Asks(cls, "C1/I0", FALSE, FALSE, nextpnr, 1, <<>>, timing) :
     cls \in {"cfu", "pll", "io", "dsp", "all"}, nextpnr \in BOOLEAN, timing \in Tables}
==============================================================================
