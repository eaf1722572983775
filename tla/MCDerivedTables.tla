-------------------------- MODULE MCDerivedTables --------------------------
(***************************************************************************)
(* DerivedTables over a block of five input and seven output bits on a     *)
(* grid of two rows: tables whose runs are head, input run and tail.       *)
(***************************************************************************)
EXTENDS DerivedTables

MCWireNames == <<"A0", "B0", "LSR0", "CLK0", "CLK1", "F0", "Q0", "OF0", "N1">>
MCWireClass ==
  [w \in {"A0", "B0", "LSR0", "CLK0", "CLK1", "F0", "Q0", "OF0", "N1"} |->
     CASE w = "A0" -> "A" [] w = "B0" -> "B" [] w = "LSR0" -> "LSR" [] w \in {"CLK0", "CLK1"} -> "CLK"
       [] w = "F0" -> "F" [] w = "Q0" -> "Q" [] w = "OF0" -> "OF" [] w = "N1" -> "N"]

MCInPorts == <<<<"POR_N", 1>>, <<"DATA", 2>>, <<"CORE_CLK", 1>>, <<"DDR_CLK", 1>>>>
MCOutPorts == <<<<"ACK", 1>>, <<"ADDR", 6>>>>
MCCoreClk == <<"CORE_CLK", None>>
MCAnchor == <<0, 1>>
MCAlias == [p \in {MCCoreClk} \union
                  {<<n, None>> : n \in {"POR_N", "DDR_CLK", "ACK"}} \union
                  {<<"DATA", i>> : i \in {"0", "1"}} \union
                  {<<"ADDR", i>> : i \in {"0", "1", "2", "3", "4", "5"}} |-> "SOC_" \o p[1] \o p[2]]

Gone == <<ABSENT, ABSENT, ABSENT>>
Wire(row, col, w) == <<row + 1, col + 1, CHOOSE i \in DOMAIN MCWireNames : MCWireNames[i] = w>>

\* A head, the inputs with reset and clocks in another order than the ports', a gap
\* that Ins fills but for two slots, a tail.
Run == <<Wire(0, 0, "CLK0"), Wire(0, 0, "A0"), Wire(0, 1, "B0"), Wire(0, 1, "CLK1"), Wire(0, 0, "LSR0")>>
Plain == [outs |-> <<Wire(0, 0, "F0")>> \o Run \o <<Wire(0, 1, "Q0")>>,
          ins |-> <<Wire(0, 1, "F0"), Wire(0, 0, "Q0"), Gone>>]

\* Another IDE: a gap in the run, an unknown and an off-grid wire, an output on a wire
\* that the fabric drives; an Ins that is longer than the run; a run that has no reset
\* line; one input too many.
Holed == [outs |-> <<Wire(0, 0, "OF0")>> \o SubSeq(Run, 1, 2) \o <<Gone>> \o SubSeq(Run, 3, 5),
          ins |-> <<Wire(0, 1, "A0"), <<1, 1, 99>>, <<1, 9, 6>>>>]
Long == [outs |-> Plain.outs, ins |-> [i \in 1..6 |-> Wire(0, 0, IF i = 1 THEN "Q0" ELSE "OF0")]]
Unresolved == [Plain EXCEPT !.outs[6] = Wire(0, 0, "A0")]
TooMany == [Plain EXCEPT !.outs[7] = Wire(0, 1, "A0")]

MCDats == {Plain, Holed, Long, Unresolved, TooMany}
MCMeasured == {<<0, 0, "F0">>, <<0, 0, "LSR0">>}
MCPrevious == [inputs |-> 1 :> <<0, 0, "A0">>, outputs |-> (1 :> <<0, 0, "F0">> @@ 9 :> <<0, 1, "Q0">>)]

Tile(pips, clockPips) == [pips |-> pips, clockPips |-> clockPips]
Empty == <<>>

\* A block whose taps are used as they should be; one whose wires turn up on both
\* sides and whose clock pip hides a pip, with a tile that only the baseline has.
Used ==
   [ae350 |-> (<<0, 0>> :> Tile("A0" :> "F0" @@ "LSR0" :> "N1", "CLK0" :> "N1") @@
               <<0, 1>> :> Tile("B0" :> "Q0" @@ "N1" :> "F0", Empty) @@
               <<1, 0>> :> Tile("B0" :> "A0", Empty)),
    baseline |-> Empty]
MCBitstreams ==
  {Used,
   [ae350 |-> (<<0, 0>> :> Tile("A0" :> "F0" @@ "F0" :> "A0" @@ "CLK0" :> "Q0", "CLK0" :> "N1")),
    baseline |-> <<0, 1>> :> Tile("B0" :> "Q0", Empty)]}

Sites == ("L" :> [alias |-> "HOP_L", pll |-> <<1, 0, "N1">>] @@ "R" :> [alias |-> "HOP_R", pll |-> <<1, 1, "N1">>])
Joins(alias, pll) == {<<0, 1, alias>>, pll}
Hop == [wire |-> "ECORE", sources |-> Sites, pips |-> "HOP_L" :> 0 @@ "HOP_R" :> 0,
        nodes |-> "PL" :> Joins("HOP_L", <<1, 0, "N1">>) @@ "PR" :> Joins("HOP_R", <<1, 1, "N1">>)]

\* A third source, a hop with fuses, a site missing, a node missing, the fabric tap on
\* one node with the wire, an ambiguous node, both sites on one alias, no edge.
MCHops ==
  {Hop, [Hop EXCEPT !.pips = @ @@ "SPARE" :> 3], [Hop EXCEPT !.pips["HOP_R"] = 2],
   [Hop EXCEPT !.sources = "L" :> Sites["L"]], [Hop EXCEPT !.nodes = "PL" :> Hop.nodes["PL"]],
   [Hop EXCEPT !.nodes = @ @@ "FT" :> Joins("ECORE", <<0, 0, "CLK0">>)],
   [Hop EXCEPT !.nodes = @ @@ "ECORE" :> {<<0, 1, "ECORE">>}],
   [Hop EXCEPT !.sources["R"] = Sites["L"], !.pips = "HOP_L" :> 0 @@ "SPARE" :> 1],
   [Hop EXCEPT !.sources = Empty, !.pips = Empty]}

MCFabricTap == <<0, 0, "CLK0">>

\* A record that holds; covered wires that exceed the tables' entries.
Record == [verdict |-> <<3, 12>>, tables |-> <<2, 2, 4>>]
Start(d, bits, hop) == [dat |-> d, fs |-> bits, hop |-> hop, packer |-> "some", record |-> Record]

\* Each .dat and bitstream over the plain hop, each other hop over one of them, and
\* each way the packer or the record fails.
MCStarts ==
  {Start(d, bits, Hop) : d \in {Plain, Holed}, bits \in MCBitstreams}
    \union {Start(Plain, Used, hop) : hop \in MCHops}
    \union {[Start(Plain, Used, Hop) EXCEPT !.packer = "raises"],
            [Start(Plain, Used, Hop) EXCEPT !.record.verdict[1] = 5]}
=============================================================================
