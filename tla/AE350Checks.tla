---------------------------- MODULE AE350Checks ----------------------------
(***************************************************************************)
(* tools/check_criteria.py --ae350: four facts about the hard block, read  *)
(* from a chipdb, the packer and two recorded documents.                   *)
(***************************************************************************)
EXTENDS AE350PortMap

CONSTANTS
  PllSites,     \* the PLL sites the clock hop was measured from
  FabricTap,    \* CORE_CLK's tap in the .dat, which must not be bound
  CoreClk       \* the port bit

ASSUME SitesAssumption == IsFiniteSet(PllSites)

BelExists(db) == DOMAIN db.inputs # {} /\ DOMAIN db.outputs # {}

\* A node joins two locations.
SharesNode(db, one, other) == \E n \in DOMAIN db.nodes : {one, other} \subseteq db.nodes[n]

At(wire) == <<Anchor[1], Anchor[2], wire>>

\* A chipdb without the edge has no sources.  The hop of one site: a pip into the port's
\* wire that costs no fuse, from an alias on one node with the PLL's output.
HopIsFixed(db, site) ==
  LET source == db.hop.sources[site]
  IN  /\ source.alias \in DOMAIN db.hop.pips
      /\ db.hop.pips[source.alias] = 0
      /\ SharesNode(db, At(source.alias), source.pll)

\* Mutant of CoreClkNonroutable: the number of the wire's sources is not held
\* against the sites.
CoreClkNonroutableAny(db) ==
  /\ CoreClk \in DOMAIN db.inputs /\ db.inputs[CoreClk] = db.hop.wire
  /\ PllSites \subseteq DOMAIN db.hop.sources
  /\ \A site \in DOMAIN db.hop.sources : HopIsFixed(db, site)
  /\ ~SharesNode(db, At(db.hop.wire), FabricTap)

CoreClkNonroutable(db) ==
  /\ CoreClk \in DOMAIN db.inputs /\ db.inputs[CoreClk] = db.hop.wire
  /\ PllSites \subseteq DOMAIN db.hop.sources
  /\ \A site \in DOMAIN db.hop.sources : HopIsFixed(db, site)
  /\ ~SharesNode(db, At(db.hop.wire), FabricTap)
  /\ Cardinality(DOMAIN db.hop.pips) = Cardinality(PllSites)

\* Any list of fuses will do; the packer must be there and must not raise.
FuseSet(packer) == packer \in {"none", "some"}

\* The verdict line's total is the chipdb's number of bits, its covered wires are
\* no more than the entries of the two tables.
Reconciled(db, record) ==
  /\ record.verdict # <<>>
  /\ record.verdict[2] = Cardinality(DOMAIN db.inputs) + Cardinality(DOMAIN db.outputs)
  /\ record.tables # <<>>
  /\ record.tables[3] = record.tables[1] + record.tables[2]
  /\ record.verdict[1] <= record.tables[3]

\* How many of the four facts hold.
Satisfied(db, packer, record) ==
  Cardinality({i \in 1..4 : <<BelExists(db), CoreClkNonroutable(db), FuseSet(packer),
                              Reconciled(db, record)>>[i]})
=============================================================================
