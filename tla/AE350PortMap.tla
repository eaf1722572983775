--------------------------- MODULE AE350PortMap ---------------------------
(***************************************************************************)
(* tools/derive_ae350_pip_roles.py, which decodes the role each tap wire   *)
(* plays in the vendor's routing, and                                      *)
(* tools/derive_ae350_portmap_reconciled.py, which holds the port map of   *)
(* the chipdb against it and against the wire map on disk.                 *)
(***************************************************************************)
EXTENDS AE350WireMap

CONSTANTS
  Anchor,       \* the block's cell
  Alias,        \* port bit -> the node alias of a tap in another cell
  Previous      \* git's earlier map: half -> bit position -> tap, where bound

Unmapped == "unmapped"
TapClasses == {"A", "B", "C", "D", "F", "Q", "OF", "CE", "CLK", "LSR"}
Fabric(w) == w \in DOMAIN WireClass /\ WireClass[w] \in TapClasses

------------------------------------------------------------------------------
(* derive_ae350_pip_roles: a bitstream gives each tile two maps from a pip's *)
(* destination to its source.                                                *)

\* A clock pip replaces the pip with its destination.
Merged(tile) == tile.clockPips @@ tile.pips

Roles(bitstream) ==
  [t \in {u \in DOMAIN bitstream : u[1] = 0} |->
     [dest |-> {w \in DOMAIN Merged(bitstream[t]) : Fabric(w)},
      src  |-> {w \in Range(Merged(bitstream[t])) : Fabric(w)}]]

\* A tile that only the baseline has is there, without roles of the block's run.
Fixture(fs) ==
  LET ae350 == Roles(fs.ae350)
      baseline == Roles(fs.baseline)
  IN  [t \in DOMAIN ae350 \union DOMAIN baseline |->
         IF t \in DOMAIN ae350 THEN ae350[t] ELSE [dest |-> {}, src |-> {}]]

------------------------------------------------------------------------------
(* live_portmap: the taps as the router sees them. *)

Elsewhere(db, value) == {loc \in db.nodes[value] : loc[3] # value}

Ambiguous(db, value) == value \in DOMAIN db.nodes /\ Cardinality(Elsewhere(db, value)) # 1

Resolve(db, value) ==
  CASE value = Unmapped -> NoTap
    [] value # Unmapped /\ value \notin DOMAIN db.nodes -> <<Anchor[1], Anchor[2], value>>
    [] value # Unmapped /\ value \in DOMAIN db.nodes ->
         CHOOSE loc \in Elsewhere(db, value) : TRUE

------------------------------------------------------------------------------
(* build *)

\* Mutant of Evidence: a wire that is both counts as a destination.
EvidenceByFirst(tap, roles) ==
  LET tile == <<tap[1], tap[2]>>
  IN  CASE ~Fabric(tap[3]) -> "not-a-fabric-tap"
        [] Fabric(tap[3]) /\ tile \notin DOMAIN roles -> "no-pip-in-tile"
        [] Fabric(tap[3]) /\ tile \in DOMAIN roles ->
             IF tap[3] \in roles[tile].dest THEN "pip-destination"
             ELSE IF tap[3] \in roles[tile].src THEN "pip-source" ELSE "wire-not-in-any-pip"

Evidence(tap, roles) ==
  LET tile == <<tap[1], tap[2]>>
  IN  CASE ~Fabric(tap[3]) -> "not-a-fabric-tap"
        [] Fabric(tap[3]) /\ tile \notin DOMAIN roles -> "no-pip-in-tile"
        [] Fabric(tap[3]) /\ tile \in DOMAIN roles ->
             IF tap[3] \in roles[tile].dest
               THEN IF tap[3] \in roles[tile].src THEN "both" ELSE "pip-destination"
               ELSE IF tap[3] \in roles[tile].src THEN "pip-source" ELSE "wire-not-in-any-pip"

Halves == {"inputs", "outputs"}
Expected == [inputs |-> "pip-destination", outputs |-> "pip-source"]

EntriesOf(map, half) == IF half = "inputs" THEN map.inputs ELSE map.outputs
PortsOf(map, half) == {e.port : e \in Range(EntriesOf(map, half))}

\* Where a port stands in the wire map.
EntryOf(map, half, port) ==
  LET entries == EntriesOf(map, half)
      bit == CHOOSE i \in DOMAIN entries : entries[i].port = port
  IN  [bit |-> bit, slot |-> entries[bit].slot]

Row(db, roles, map, half, port) ==
  LET tap  == Resolve(db, db[half][port])
      seen == IF tap = NoTap THEN Unmapped ELSE Evidence(tap, roles)
      entry == EntryOf(map, half, port)
  IN  [bit |-> entry.bit, slot |-> entry.slot, port |-> port, tap |-> tap, evidence |-> seen,
       provisional |-> seen \notin {Unmapped, Expected[half], "not-a-fabric-tap"}]

\* What stops the derivation: a node with two taps, a port the wire map lacks.
Derivable(db, map) ==
  /\ \A half \in Halves : \A port \in DOMAIN db[half] :
       ~Ambiguous(db, db[half][port]) /\ port \in PortsOf(map, half)
  /\ \A port \in db.unmapped :
       port \in PortsOf(map, IF port \in DOMAIN db.inputs THEN "inputs" ELSE "outputs")

\* The bits bound in one generation only, and those whose tap moved.
Delta(rows, old) ==
  LET now == {r \in rows : r.tap # NoTap}
  IN  [nowOnly |-> {r.bit : r \in now} \ DOMAIN old,
       beforeOnly |-> DOMAIN old \ {r.bit : r \in now},
       moved |-> {r.bit : r \in {q \in now : q.bit \in DOMAIN old /\ old[q.bit] # q.tap}}]

\* How often the fixture's routing uses a class in each role.
ClassUse(roles) ==
  LET uses(w, role) == {t \in DOMAIN roles : w \in roles[t][role]}
      wires(c) == {w \in DOMAIN WireClass : WireClass[w] = c}
  IN  [c \in TapClasses |->
         [role \in {"dest", "src"} |->
            Cardinality(UNION {uses(w, role) \X {w} : w \in wires(c)})]]

PortMap(db, roles, map) ==
  LET rows == [half \in Halves |-> {Row(db, roles, map, half, port) : port \in DOMAIN db[half]}]
  IN  [bits |-> rows,
       unmapped |-> db.unmapped,
       delta |-> [half \in Halves |-> Delta(rows[half], Previous[half])],
       classes |-> ClassUse(roles)]
=============================================================================
