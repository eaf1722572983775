------------------------------ MODULE DdrAudit ------------------------------
(***************************************************************************)
(* evidence/oddr-iddr/audit_oddr_iddr_attrs.py: two designs, each with two *)
(* DDR gearboxes, through the vendor tool; the cell of each primitive,     *)
(* found by its ball, against what the packer emits for it.                *)
(***************************************************************************)
EXTENDS Integers, Sequences, FiniteSets, Functions, TLC

CONSTANTS
  Plan,         \* step -> primitive -> ball
  ClkBall, ResetBall, DinA, DinB, DoutA, DoutB,
  LogicTable    \* <<type, half>> -> entries [pairs, fuses], where there is one

Outputs(step) == step = "oddr-pair"

\* The design's ports, and the pad each primitive is wired to.
Ports(step) ==
  [clk |-> ClkBall, resetn |-> ResetBall, dout_a |-> DoutA, dout_b |-> DoutB] @@
    (IF Outputs(step) THEN [din |-> DinA] ELSE [din_a |-> DinA, din_b |-> DinB])

PadOf == [ODDR |-> "dout_a", ODDRC |-> "dout_b", IDDR |-> "din_a", IDDRC |-> "din_b"]

\* apicula_attrvals reaches the packer's handlers with the plain sibling's mode.
Packed == [ODDR |-> "ODDRX1", ODDRC |-> "ODDRX1", IDDR |-> "IDDRX1", IDDRC |-> "IDDRX1"]

------------------------------------------------------------------------------
(* Fuses. *)

Region(cell) == UNION {e.fuses : e \in LogicTable[<<cell.type, cell.idx>>]}

PairsOf(attrs) == {<<a, attrs[a]>> : a \in DOMAIN attrs}

\* A pair the table does not carry contributes nothing.
FuseBits(cell, attrs) ==
  UNION {e.fuses : e \in {f \in LogicTable[<<cell.type, cell.idx>>] : f.pairs \subseteq PairsOf(attrs)}}

\* vendor_attrvals: the realised cells whose tile type has a table.
VendorCells(fs) ==
  {[tile |-> c.tile, idx |-> c.idx, type |-> c.type, mode |-> c.mode,
    attrs |-> c.attrs, bits |-> c.tileBits \intersect Region(c)] :
     c \in {d \in fs : <<d.type, d.idx>> \in DOMAIN LogicTable}}

------------------------------------------------------------------------------
(* The gap table. *)

Direction(attr, vendor, apicula) ==
  CASE attr \notin DOMAIN apicula -> "vendor_only"
    [] attr \notin DOMAIN vendor -> "apicula_only"
    [] attr \in DOMAIN vendor /\ attr \in DOMAIN apicula ->
         IF vendor[attr] = apicula[attr] THEN "agree" ELSE "value_differs"

\* How many fuses the value moves: the packer's, or the vendor's where it is alone.
GapRows(primitive, cell, apicula) ==
  LET probe(a) == IF a \in DOMAIN apicula THEN apicula[a] ELSE cell.attrs[a]
  IN  {[primitive |-> primitive, attr |-> a, tile |-> cell.tile,
        direction |-> Direction(a, cell.attrs, apicula),
        bits |-> Cardinality(FuseBits(cell, [b \in {a} |-> probe(a)]))] :
         a \in DOMAIN cell.attrs \union DOMAIN apicula}

\* Two fuse sets of one cell, as the over-emission guard compares them.
Delta(primitive, cell, apicula) ==
  LET mine == FuseBits(cell, apicula)
  IN  [primitive |-> primitive, tile |-> cell.tile, idx |-> cell.idx,
       vendor |-> cell.bits, apicula |-> mine,
       over |-> mine \ cell.bits, missing |-> cell.bits \ mine]

------------------------------------------------------------------------------
(* ball_to_cell and match_vendor_cells, over the pins of the pin table. *)

BallToCell(pins) ==
  [b \in {pins[i].ball : i \in DOMAIN pins} |->
     LET pin == pins[CHOOSE i \in DOMAIN pins : pins[i].ball = b]
     IN  [tile |-> pin.cell, idx |-> pin.half]]

\* A ball that the table lacks ends the audit.
BallsKnown(step, pins) == Range(Plan[step]) \subseteq DOMAIN BallToCell(pins)

\* Mutant of Matched: by the decoded MODE flag.
MatchedByMode(step, cells, pins) ==
  {m \in (DOMAIN Plan[step]) \X cells : m[2].mode = m[1]}

Matched(step, cells, pins) ==
  {m \in (DOMAIN Plan[step]) \X cells :
     LET site == BallToCell(pins)[Plan[step][m[1]]]
     IN  m[2].tile = site.tile /\ m[2].idx = site.idx}

Found(step, fs, pins, packer) ==
  LET pairs == Matched(step, VendorCells(fs), pins)
  IN  [deltas |-> {Delta(m[1], m[2], packer[m[1]]) : m \in pairs},
       rows |-> UNION {GapRows(m[1], m[2], packer[m[1]]) : m \in pairs}]
=============================================================================
