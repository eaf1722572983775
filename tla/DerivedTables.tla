--------------------------- MODULE DerivedTables ---------------------------
(***************************************************************************)
(* The three derived artefacts of the AE350 block and --ae350, beside the  *)
(* vendor's files, a chipdb that is built by another program, and people:  *)
(* each tool is started by hand and rewrites its artefact or, with --check, *)
(* compares it.                                                            *)
(***************************************************************************)
EXTENDS AE350Checks

CONSTANTS
  Dats,         \* the .dat's two tables, per IDE
  Bitstreams,   \* what the two banked runs' bitstreams decode to
  Starts,       \* a .dat, a bitstream, a chipdb's clock hop, a packer, a record
  MaxChanges,   \* bound on changes from outside
  NoFile, Torn

VARIABLES
  dat, fs, db, packer, record,      \* what the tools read
  wireFile, roleFile, portFile,     \* wire-map, pip-roles, portmap-reconciled
  checked,      \* the tools whose --check passed with nothing changed since
  facts,        \* what --ae350 last printed of this chipdb, or -1
  changes

inputs == <<dat, fs, db, packer, record>>
files == <<wireFile, roleFile, portFile>>
vars == <<inputs, files, checked, facts, changes>>

IsDoc(file) == file \notin {NoFile, Torn}

------------------------------------------------------------------------------
(* The chipdb that apycula builds: each tap in the anchor cell by its name,  *)
(* any other by an alias whose node joins the two cells; CORE_CLK on its own *)
(* wire.                                                                     *)

Bound(entry) ==
  IF entry.tap = NoTap THEN Unmapped
  ELSE IF <<entry.tap[1], entry.tap[2]>> = Anchor THEN entry.tap[3] ELSE Alias[entry.port]

\* Each derivation depends on one .dat only.
WireMapOf == [d \in {e \in Dats : Resolvable(e.outs)} |-> WireMap(d)]

Entries(map) == Range(map.inputs) \union Range(map.outputs)

\* The bits, CORE_CLK's apart, whose taps are in another cell.
Away(map) ==
  {e \in Entries(map) : e.tap # NoTap /\ e.port # CoreClk /\ <<e.tap[1], e.tap[2]>> # Anchor}

ChipdbOf(d, hop) ==
  LET map == WireMapOf[d]
      half(entries) ==
        [p \in {e.port : e \in Range(entries)} |->
           IF p = CoreClk THEN hop.wire ELSE Bound(CHOOSE e \in Range(entries) : e.port = p)]
      node(a) == {At(a), (CHOOSE e \in Away(map) : Alias[e.port] = a).tap}
  IN  [inputs |-> half(map.inputs), outputs |-> half(map.outputs),
       unmapped |-> {e.port : e \in {f \in Entries(map) : f.tap = NoTap}},
       nodes |-> [n \in DOMAIN hop.nodes \union {Alias[e.port] : e \in Away(map)} |->
                    IF n \in DOMAIN hop.nodes THEN hop.nodes[n] ELSE node(n)],
       hop |-> hop, builtFrom |-> d]

Bits == Range(InBits) \union Range(OutBits)
Wires == Range(WireNames)

\* A .dat's tables are lists.  A bit has an alias of its own, which names no wire; the
\* marker of an unmapped bit is neither.
ASSUME DatsAssumption ==
  \A d \in Dats : /\ Len(d.ins) \in Nat /\ DOMAIN d.ins = 1..Len(d.ins)
                  /\ Len(d.outs) \in Nat /\ DOMAIN d.outs = 1..Len(d.outs)

ASSUME AliasAssumption ==
  /\ \A p, q \in Bits : Alias[p] = Alias[q] => p = q
  /\ \A p \in Bits : Alias[p] \notin Wires \union {Unmapped}
  /\ Unmapped \notin Wires

\* The first chipdb is built from a .dat that resolves; the hop's wire has finitely many
\* pips, and its nodes are named after none of the block's taps.
ASSUME StartsAssumption ==
  \A s \in Starts :
    /\ s.dat \in DOMAIN WireMapOf
    /\ IsFiniteSet(DOMAIN s.hop.pips)
    /\ DOMAIN s.hop.nodes \intersect (Wires \union {Alias[p] : p \in Bits}) = {}

------------------------------------------------------------------------------
Init ==
  /\ \E start \in Starts :
       /\ dat = start.dat /\ fs = start.fs /\ db = ChipdbOf(start.dat, start.hop)
       /\ packer = start.packer /\ record = start.record
  /\ wireFile = NoFile /\ roleFile = NoFile /\ portFile = NoFile
  /\ checked = {} /\ facts = -1 /\ changes = 0

Changed == changes < MaxChanges /\ changes' = changes + 1 /\ checked' = {}

InstallIde ==
  /\ Changed
  /\ dat' \in Dats \ {dat}
  /\ UNCHANGED <<fs, db, packer, record, files, facts>>

BuildChipdb ==
  /\ Changed
  /\ Resolvable(dat.outs) /\ db.builtFrom # dat
  /\ db' = ChipdbOf(dat, db.hop)
  /\ facts' = -1
  /\ UNCHANGED <<dat, fs, packer, record, files>>

RunVendor ==
  /\ Changed
  /\ fs' \in Bitstreams \ {fs}
  /\ UNCHANGED <<dat, db, packer, record, files, facts>>

------------------------------------------------------------------------------
(* The tools. *)

\* main without --check: a kill leaves part of the text.
Written(file, doc) == file' \in {doc, Torn}

Rewrites == checked' = {} /\ UNCHANGED <<inputs, facts, changes>>

\* Mutant of Current: the artefact is there.
CurrentIfThere(file, doc) == IsDoc(file)

\* --check: the artefact has the text that this run derives.
Current(file, doc) == IsDoc(file) /\ file = doc

Passes(tool) ==
  /\ checked' = checked \union {tool}
  /\ UNCHANGED <<inputs, files, facts, changes>>

DeriveWireMap ==
  /\ Resolvable(dat.outs)
  /\ Written(wireFile, WireMapOf[dat])
  /\ UNCHANGED <<roleFile, portFile>> /\ Rewrites

CheckWireMap == Resolvable(dat.outs) /\ Current(wireFile, WireMapOf[dat]) /\ Passes("wires")

DerivePipRoles ==
  /\ Written(roleFile, Fixture(fs))
  /\ UNCHANGED <<wireFile, portFile>> /\ Rewrites

CheckPipRoles == Current(roleFile, Fixture(fs)) /\ Passes("roles")

\* build reads the chipdb and the two other artefacts, as they are on disk.
Buildable == IsDoc(roleFile) /\ IsDoc(wireFile) /\ Derivable(db, wireFile)

DerivePortMap ==
  /\ Buildable
  /\ Written(portFile, PortMap(db, roleFile, wireFile))
  /\ UNCHANGED <<wireFile, roleFile>> /\ Rewrites

CheckPortMap == Buildable /\ Current(portFile, PortMap(db, roleFile, wireFile)) /\ Passes("ports")

CheckAE350 ==
  /\ facts' = Satisfied(db, packer, record)
  /\ UNCHANGED <<inputs, files, checked, changes>>

Next == \/ InstallIde \/ BuildChipdb \/ RunVendor
        \/ DeriveWireMap \/ CheckWireMap \/ DerivePipRoles \/ CheckPipRoles
        \/ DerivePortMap \/ CheckPortMap \/ CheckAE350

Spec == Init /\ [][Next]_vars

------------------------------------------------------------------------------
(* Properties. *)

\* A wire map that passes --check gives each record the fabric drives to one input,
\* resets on LSR lines and clocks on CLK lines, gives no slot to two bits, and
\* binds an output from Ae350SocOuts to a wire that only the block drives.
MapIsOneToOne ==
  "wires" \in checked =>
    /\ \A s \in DOMAIN dat.outs : DrivesTheBlock(dat.outs[s]) =>
         \E e \in Range(wireFile.inputs) : e.slot = <<"Outs", s - 1>>
    /\ \A e \in Range(wireFile.inputs) : Line(e.port) # None => WireClass[e.tap[3]] = Line(e.port)
    /\ \A e, o \in Entries(wireFile) : e.slot = o.slot /\ e.slot # NoSlot => e.port = o.port
    /\ \A e \in Range(wireFile.outputs) :
         e.slot # NoSlot /\ e.tap # NoTap =>
           (e.slot[1] = "Outs" => WireClass[e.tap[3]] \in BlockDriven)

\* With both checked, a bit the port map calls settled is on a wire that the vendor's
\* bitstream uses in that bit's direction and not in the other, so no wire is
\* a settled input and a settled output.
SettledIsRouted ==
  {"roles", "ports"} \subseteq checked =>
    \A half \in Halves : \A r \in portFile.bits[half] :
      ~r.provisional /\ r.tap # NoTap =>
        (Fabric(r.tap[3]) =>
           LET tile == Merged(fs.ae350[<<r.tap[1], r.tap[2]>>])
           IN  /\ r.tap[3] \in DOMAIN tile <=> half = "inputs"
               /\ r.tap[3] \in Range(tile) <=> half = "outputs")

\* With both checked and the chipdb built from this .dat, each row but CORE_CLK's has
\* the tap of the very record that its slot names, and what is listed as
\* unmapped are the bits no record binds.
SlotsNameTheirTaps ==
  {"wires", "ports"} \subseteq checked /\ db.builtFrom = dat =>
    /\ \A half \in Halves : \A r \in portFile.bits[half] :
         r.port # CoreClk =>
           /\ r.slot # NoSlot => r.slot[2] < Len(IF r.slot[1] = "Ins" THEN dat.ins ELSE dat.outs)
           /\ r.tap = Tap(RecordAt(dat.ins, dat.outs, r.slot))
    /\ portFile.unmapped = {e.port : e \in {f \in Entries(wireFile) : f.reason # None}}

\* When all four facts hold and every PLL site has an alias of its own, whatever drives
\* CORE_CLK is a hop from a PLL that costs no fuse.
CoreClkIsFixed ==
  facts = 4 =>
    LET sources == db.hop.sources
        own == \A s, t \in DOMAIN sources : sources[s].alias = sources[t].alias => s = t
    IN  own => /\ DOMAIN db.hop.pips = {sources[s].alias : s \in DOMAIN sources}
               /\ \A a \in DOMAIN db.hop.pips : db.hop.pips[a] = 0
               /\ db.inputs[CoreClk] = db.hop.wire
=============================================================================
