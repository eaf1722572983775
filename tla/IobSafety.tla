----------------------------- MODULE IobSafety -----------------------------
(***************************************************************************)
(* tools/derive_iob_safety_138c.py: the vendor's and the open flow's       *)
(* bitstream of one placement, decoded site by site, and where the open    *)
(* one differs in a way that counts.  A bitmap gives each tile that is not *)
(* blank the set of its fuses; a table is a set of [attr, val, fuses].     *)
(***************************************************************************)
EXTENDS Integers, Sequences, FiniteSets

CONSTANTS
  IoSites,      \* [cell, name] of every IOB half and bank
  IobTable,     \* <<cell, name>> -> an IOB table, where the tile type has one
  BankEntries,  \* cell -> the entries of its BANK group, each with its bank
  FuseOffset,   \* cell -> how far the fuses of its IOBB are, where not in it
  BankOf,       \* cell -> its bank, where it has one
  SafetyAttrs, RequiredOnUsed, UnusedPairs, DriveAttrs

IsBank(site) == site.name \notin {"IOBA", "IOBB"}

Offset(site) ==
  IF site.name = "IOBB" /\ site.cell \in DOMAIN FuseOffset THEN FuseOffset[site.cell] ELSE <<0, 0>>
Shifted(site) == <<site.cell[1] + Offset(site)[1], site.cell[2] + Offset(site)[2]>>

\* decode_iob and fuse_cell each have the offset of the B half.
DecodeCell(site) == Shifted(site)

\* Mutant of FuseCell: the half's own tile.
FuseCellUnshifted(site) == site.cell

FuseCell(site) == Shifted(site)

\* The table a site is decoded with: of all BANK entries, those of its bank.
Table(site) ==
  LET cell == DecodeCell(site)
  IN  IF IsBank(site)
        THEN {e \in UNION {BankEntries[c] : c \in {cell} \intersect DOMAIN BankEntries} : e.bank = site.name}
        ELSE IF <<cell, site.name>> \in DOMAIN IobTable THEN IobTable[<<cell, site.name>>] ELSE {}

\* parse_attrvals: of the values whose fuses are all set, the one with most of them.
Parsed(tile, table) ==
  LET lit == {e \in table : e.fuses \subseteq tile}
      most(a) == CHOOSE e \in lit : /\ e.attr = a
                                    /\ \A o \in lit : o.attr = a => Cardinality(o.fuses) <= Cardinality(e.fuses)
  IN  [a \in {e.attr : e \in lit} |-> most(a).val]

\* Nothing where there is no table or the tile is blank.
Decode(bitmap, site) ==
  IF DecodeCell(site) \in DOMAIN bitmap /\ Table(site) # {}
    THEN Parsed(bitmap[DecodeCell(site)], Table(site)) ELSE <<>>

------------------------------------------------------------------------------
(* The pin states of the placement, a set of [cell, half, type]. *)

PinState(type) ==
  CASE type \in {"LVDS_OBUF", "MIPI_OBUF"} -> "diff_pair"
    [] type \in {"OBUF", "TBUF"} -> "used_output"
    [] type = "IOBUF" -> "used_inout"
    [] OTHER -> "used_input"

UsedSites(placed) == {[cell |-> p.cell, name |-> p.half] : p \in placed}
UsedBanks(placed) == {BankOf[c] : c \in {p.cell : p \in placed} \intersect DOMAIN BankOf}

StateOf(placed, site) ==
  IF IsBank(site) THEN (IF site.name \in UsedBanks(placed) THEN "used_bank" ELSE "unused_bank")
  ELSE IF site \in UsedSites(placed)
         THEN PinState((CHOOSE p \in placed : p.cell = site.cell /\ p.half = site.name).type)
         ELSE "unused"

------------------------------------------------------------------------------
(* The comparison of one site. *)

\* Both tiles are there and the open one has no fuse of its own.
NoFuseOfItsOwn(vendor, open, site) ==
  LET cell == FuseCell(site)
  IN  /\ cell \in DOMAIN vendor /\ cell \in DOMAIN open
      /\ open[cell] \subseteq vendor[cell]

Kind(attr, seen, opened, alias) ==
  LET same == attr \in DOMAIN seen /\ attr \in DOMAIN opened /\ seen[attr] = opened[attr]
  IN  CASE same -> "equal"
        [] attr \notin DOMAIN opened -> "vendor_only"
        [] attr \in DOMAIN opened /\ ~same ->
             IF alias THEN "decode_alias"
             ELSE IF attr \in DOMAIN seen THEN "value_diff" ELSE "open_only"

\* [state, attr, kind] of each attribute that either side decodes.
Classified(vendor, open, placed, site) ==
  LET seen == Decode(vendor, site)
      opened == Decode(open, site)
  IN  {[site |-> site, state |-> StateOf(placed, site), attr |-> a,
        kind |-> Kind(a, seen, opened, NoFuseOfItsOwn(vendor, open, site))] :
         a \in DOMAIN seen \union DOMAIN opened}

\* A value that differs counts for a safety attribute only; a required one counts
\* when the vendor sets it and the open flow does not.
Violations(vendor, open, placed) ==
  LET all == UNION {Classified(vendor, open, placed, s) : s \in IoSites}
  IN  {c \in all : c.kind = "open_only" \/ (c.kind = "value_diff" /\ c.attr \in SafetyAttrs)}
      \union
      {[c EXCEPT !.kind = "unset_on_used"] :
         c \in {d \in all : d.kind = "vendor_only" /\ d.attr \in RequiredOnUsed
                            /\ d.state \notin {"unused", "unused_bank"}}}

------------------------------------------------------------------------------
(* The unused pins' drive. *)

AttrvalFuses(table, pairs) == UNION {e.fuses : e \in {f \in table : <<f.attr, f.val>> \in pairs}}

UnusedSites(placed) == {s \in IoSites : ~IsBank(s)} \ UsedSites(placed)

\* The bits of an unused pin's defaults that the open flow alone sets: those only
\* a drive value can program, and the others.
DriveBits(vendor, open, site) ==
  LET cell == FuseCell(site)
      full == AttrvalFuses(Table(site), UnusedPairs)
      undriven == AttrvalFuses(Table(site), {p \in UnusedPairs : p[1] \notin DriveAttrs})
      own == (full \intersect open[cell]) \ vendor[cell]
  IN  [drive |-> own \ undriven, other |-> own \intersect undriven]

Driven(vendor, placed) == {s \in UnusedSites(placed) : FuseCell(s) \in DOMAIN vendor /\ Table(s) # {}}

\* A tile that the vendor uses and the open flow leaves blank is looked up all the
\* same.
Raises(vendor, open, placed) == \E s \in Driven(vendor, placed) : FuseCell(s) \notin DOMAIN open

\* One design's row of the report.
DesignRow(vendor, open, placed) ==
  LET bits == {[site |-> s, bits |-> DriveBits(vendor, open, s)] : s \in Driven(vendor, placed)}
      violations == Violations(vendor, open, placed)
  IN  [used |-> Cardinality(UsedSites(placed)), violations |-> violations,
       classes |-> (UNION {Classified(vendor, open, placed, s) : s \in IoSites}) \ violations,
       driveSites |-> Cardinality({b \in bits : b.bits.drive # {}}),
       other |-> UNION {b.bits.other : b \in bits}]
=============================================================================
