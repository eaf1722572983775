------------------------------ MODULE PinHclk ------------------------------
(***************************************************************************)
(* tools/derive_pin_hclk_138c.py: which cell, bank and IOLOGIC each ball   *)
(* of the package has, and the HCLK block nearest to it.  A device is what *)
(* one IDE install ships: the pinout in the order of the site names, the   *)
(* .dat's bank table, the tile types and their shortval tables.            *)
(***************************************************************************)
EXTENDS Integers, Sequences, SequencesExt, FiniteSetsExt

CONSTANTS
  Rows, Cols,
  HclkBlocks,       \* [idx, row, col, side]
  DdrBanks,
  NoIologicTypes,   \* the corner tiles
  MeasuredBlock     \* ball -> the block and lane a bitstream showed

NoBlock == -1
Unmeasured == "not-pin-determined"

SiteCell(site) ==
  CASE site.side = "T" -> <<0, site.number - 1>>
    [] site.side = "B" -> <<Rows - 1, site.number - 1>>
    [] site.side = "L" -> <<site.number - 1, 0>>
    [] site.side = "R" -> <<site.number - 1, Cols - 1>>

Named(site) == site.side \in {"T", "B", "L", "R"}
OnDie(cell) == cell \in (0..Rows - 1) \X (0..Cols - 1)

\* Along the bottom edge the columns count, along the others the rows.
Distance(side, cell, block) ==
  LET apart(m, n) == IF m < n THEN n - m ELSE m - n
  IN  IF side = "B" THEN apart(cell[2], block.col) ELSE apart(cell[1], block.row)

\* Of two blocks at the same distance, the one with the lower index.
Nearest(side, cell) ==
  LET on == {b \in HclkBlocks : b.side = side}
      near == {b \in on : \A o \in on : Distance(side, cell, b) <= Distance(side, cell, o)}
  IN  IF on = {} THEN NoBlock ELSE Min({b.idx : b \in near})

HasIologic(dev, cell, half) ==
  LET type == dev.type[cell]
  IN  type \notin NoIologicTypes /\ (IF half = "A" THEN 21 ELSE 22) \in dev.shortval[type]

PinRow(dev, pin) ==
  LET cell == SiteCell(pin.site)
      measured == pin.ball \in DOMAIN MeasuredBlock
  IN  [ball |-> pin.ball, site |-> pin.site, cell |-> cell, half |-> pin.half, bank |-> pin.bank,
       iologic |-> HasIologic(dev, cell, pin.half),
       block |-> IF measured THEN MeasuredBlock[pin.ball] ELSE Unmeasured,
       nearest |-> Nearest(pin.site.side, cell),
       clock |-> pin.clock, ddr |-> pin.bank \in DdrBanks]

\* What derive raises on: a partnumber of no package, a name that is no site, a site
\* off the die, a bank that the .dat gives otherwise; and a clock ball on an edge
\* without a block, which the corroboration looks up.
PinsDerivable(dev) ==
  /\ dev.known
  /\ \A i \in DOMAIN dev.pins :
       LET pin == dev.pins[i]
       IN  /\ Named(pin.site) /\ OnDie(SiteCell(pin.site))
           /\ dev.bank[<<pin.site, pin.half>>] = pin.bank
           /\ pin.clock => Nearest(pin.site.side, SiteCell(pin.site)) # NoBlock

\* Each bank's block is its first pin's; a pin that has another splits the bank.
Corroboration(pins) ==
  LET banks == {pins[i].bank : i \in DOMAIN pins}
      first == [b \in banks |-> pins[Min({i \in DOMAIN pins : pins[i].bank = b})].nearest]
      clocks == {i \in DOMAIN pins : pins[i].clock}
      reach(i) == Distance(pins[i].site.side, pins[i].cell,
                           CHOOSE b \in HclkBlocks : b.idx = pins[i].nearest)
  IN  [bankToBlock |-> first,
       split |-> {pins[i].bank : i \in {j \in DOMAIN pins : first[pins[j].bank] # pins[j].nearest}},
       furthest |-> IF clocks = {} THEN {} ELSE {Max({reach(i) : i \in clocks})},
       clockBalls |-> Cardinality(clocks)]

PinTable(dev) ==
  LET pins == [i \in DOMAIN dev.pins |-> PinRow(dev, dev.pins[i])]
  IN  [pins |-> pins,
       clockSites |-> SelectSeq(pins, LAMBDA p : p.clock),
       corroboration |-> Corroboration(pins)]
=============================================================================
