----------------------------- MODULE FuseTools -----------------------------
(***************************************************************************)
(* The tools that hold the packer's fuses against the vendor's, run by     *)
(* hand beside an IDE and a packer that change: the pin table, the         *)
(* dual-purpose pins' re-diff, the repack with the IOB safety report, and  *)
(* the DDR audit, which reads the pin table.                               *)
(***************************************************************************)
EXTENDS PinHclk, IobSafety, DdrAudit

CONSTANTS
  Installs,     \* what an IDE install ships (PinHclk)
  Packers,      \* [dual, open, fails, ddr]: what a packer and its chipdb emit
  Points,       \* the options in order, then the composite
  OptionsOf,    \* point -> the options it sets
  Refused,
  DualVendor,   \* point -> the vendor's fuses, measured once
  Designs,      \* the stored runs in order: [placed, vendor]
  MaxRuns, MaxChanges,      \* bounds on tool runs and changes
  NoFile, Torn, Idle

VARIABLES
  install, packer,
  pinFile,
  dualFile, allFile,    \* each point's record, and _all.json
  job,                  \* the re-diff that runs: [at, seen, steady], or Idle
  stored, repacked,     \* each design's top.fs and top-repack.fs
  report,
  ddrFs, audit,         \* the audit's bitstreams and its files
  done,                 \* the tools whose last run succeeded with nothing changed since
  runs, changes

dualVars == <<dualFile, allFile, job>>
safetyVars == <<stored, repacked, report>>
auditVars == <<ddrFs, audit>>
vars == <<install, packer, pinFile, dualVars, safetyVars, auditVars, done, runs, changes>>

Steps == DOMAIN Plan

\* The options and the stored runs are listed; a packer that packs leaves a file.
ASSUME ListsAssumption ==
  /\ Len(Points) \in Nat /\ DOMAIN Points = 1..Len(Points)
  /\ Len(Designs) \in Nat /\ DOMAIN Designs = 1..Len(Designs)

ASSUME PackersAssumption == \A p \in Packers : \A i \in DOMAIN Designs : p.open[i] # NoFile

------------------------------------------------------------------------------
(* The vendor tool: a primitive's cell is where its pad is; the flag that    *)
(* unpack gives a plain one is its C sibling's.                              *)

PadBall(p, step) == Ports(step)[PadOf[p]]

\* Each primitive has a pad of its own, on the ball that the plan names (the audit's
\* PLAN and its ports); an install lists a ball once, and a step's pads are in
\* different halves or cells.
ASSUME PlanAssumption ==
  /\ \A s, t \in Steps : s # t => DOMAIN Plan[s] \intersect DOMAIN Plan[t] = {}
  /\ \A s \in Steps : \A p, q \in DOMAIN Plan[s] : Plan[s][p] = Plan[s][q] => p = q
  /\ \A s \in Steps : \A p \in DOMAIN Plan[s] : PadBall(p, s) = Plan[s][p]

ASSUME InstallsAssumption ==
  \A ide \in Installs : \A i, j \in DOMAIN ide.pins :
    /\ ide.pins[i].ball = ide.pins[j].ball => i = j
    /\ \A s \in Steps :
         /\ {ide.pins[i].ball, ide.pins[j].ball} \subseteq Range(Plan[s])
         /\ SiteCell(ide.pins[i].site) = SiteCell(ide.pins[j].site)
         /\ ide.pins[i].half = ide.pins[j].half
         => i = j

Placeable(ide, step) == {PadBall(p, step) : p \in DOMAIN Plan[step]} \subseteq {q.ball : q \in Range(ide.pins)}

Realised(ide, step) ==
  LET pin(p) == CHOOSE q \in Range(ide.pins) : q.ball = PadBall(p, step)
  IN  {[tile |-> SiteCell(pin(p).site), idx |-> pin(p).half, type |-> "io",
        mode |-> IF Outputs(step) THEN "ODDRC" ELSE "IDDRC",
        attrs |-> ide.attrs[p], tileBits |-> ide.fuses[p], made |-> p] :
         p \in {q \in DOMAIN Plan[step] : Placeable(ide, step)}}

------------------------------------------------------------------------------
(* rediff_dualpin *)

Emitted(p, point) == IF point \in Refused THEN {} ELSE p.dual[OptionsOf[point]]

Rediffed(file, p, point) ==
  LET mine == Emitted(p, point)
      theirs == file.vendor
  IN  [vendor |-> theirs, packer |-> mine,
       symdiff |-> (mine \ theirs) \union (theirs \ mine),
       vendorOnly |-> theirs \ mine, packerOnly |-> mine \ theirs,
       verdict |-> IF point \in Refused THEN "refused" ELSE IF mine \ theirs # {} THEN "diff" ELSE "ok"]

\* The records and the stored runs that an earlier packer left.
Banked(p, point) == Rediffed([vendor |-> DualVendor[point]], p, point)

Init ==
  /\ install \in Installs /\ packer \in Packers
  /\ pinFile = NoFile
  /\ dualFile = [p \in Range(Points) |-> Banked(packer, p)] /\ allFile = dualFile /\ job = Idle
  /\ stored = [i \in DOMAIN Designs |-> IF i \in packer.fails THEN NoFile ELSE packer.open[i]]
  /\ repacked = [i \in DOMAIN Designs |-> NoFile] /\ report = NoFile
  /\ ddrFs = [s \in Steps |-> NoFile] /\ audit = [deltas |-> NoFile, rows |-> NoFile, ok |-> {}]
  /\ done = {} /\ runs = 0 /\ changes = 0

Changed ==
  /\ changes < MaxChanges /\ changes' = changes + 1 /\ done' = {}
  /\ UNCHANGED <<pinFile, dualFile, allFile, safetyVars, auditVars, runs>>

InstallIde == install' \in Installs \ {install} /\ Changed /\ UNCHANGED <<packer, job>>

\* A re-diff that runs reads the chipdb once per point.
ChangePacker ==
  /\ packer' \in Packers \ {packer}
  /\ job' = IF job = Idle THEN Idle ELSE [job EXCEPT !.steady = FALSE]
  /\ Changed /\ UNCHANGED install

Started == runs < MaxRuns /\ runs' = runs + 1 /\ UNCHANGED <<install, packer, changes>>

\* With --write; without it a run changes nothing.
RediffStart ==
  /\ job = Idle /\ job' = [at |-> 1, seen |-> <<>>, steady |-> TRUE]
  /\ done' = done \ {"dual"}
  /\ Started /\ UNCHANGED <<pinFile, dualFile, allFile, safetyVars, auditVars>>

Rediffing == job # Idle /\ UNCHANGED <<install, packer, pinFile, safetyVars, auditVars, runs, changes>>

\* Mutant of PointFile: only a record whose verdict changes is written.
PointFileIfChanged(point, record) ==
  IF record.verdict # dualFile[point].verdict THEN record ELSE dualFile[point]

PointFile(point, record) == record

RediffPoint ==
  /\ Rediffing /\ job.at <= Len(Points) /\ dualFile[Points[job.at]] # Torn
  /\ LET point == Points[job.at]
         record == Rediffed(dualFile[point], packer, point)
     IN  /\ dualFile' = [dualFile EXCEPT ![point] = PointFile(point, record)]
         /\ job' = [job EXCEPT !.at = @ + 1,
                               !.seen = [p \in DOMAIN @ \union {point} |-> IF p = point THEN record ELSE @[p]]]
  /\ UNCHANGED <<allFile, done>>

RediffEnd ==
  /\ Rediffing /\ job.at = Len(Points) + 1
  /\ allFile' = job.seen /\ job' = Idle
  /\ done' = IF job.steady THEN done \union {"dual"} ELSE done
  /\ UNCHANGED dualFile

\* A kill, which may come while a file is being written; a torn record stops every
\* later run where it is read.
RediffDies ==
  /\ Rediffing /\ job' = Idle
  /\ \/ UNCHANGED <<dualFile, allFile>>
     \/ /\ job.at <= Len(Points) /\ UNCHANGED allFile
        /\ dualFile' = [dualFile EXCEPT ![Points[job.at]] = Torn]
     \/ job.at > Len(Points) /\ allFile' = Torn /\ UNCHANGED dualFile
  /\ UNCHANGED done

------------------------------------------------------------------------------
(* repack_open_fs and derive_iob_safety_138c *)

\* Mutant of RepackPasses: a pack that fails is counted but does not count.
RepackPassesAnyway(verify, made) == ~verify \/ made = stored

\* The exit status over the designs' files: nothing failed and, to verify, each is
\* the stored one.
RepackPasses(verify, made) ==
  /\ packer.fails = {}
  /\ verify => made = stored

\* Design by design until the end or a kill; a pack that fails leaves the file that
\* was there.
Repack ==
  /\ Started
  /\ \E upto \in 0..Len(Designs), verify \in BOOLEAN :
       /\ repacked' = [i \in DOMAIN Designs |->
                         IF i <= upto /\ i \notin packer.fails THEN packer.open[i] ELSE repacked[i]]
       /\ done' = (done \ {"safety", "repack"}) \union
                  (IF upto = Len(Designs) /\ RepackPasses(verify, repacked') THEN {"repack"} ELSE {})
  /\ UNCHANGED <<pinFile, dualVars, stored, report, auditVars>>

OpenFs(name) == IF name = "top.fs" THEN stored ELSE repacked
Pairs(name) == {i \in DOMAIN Designs : OpenFs(name)[i] # NoFile}

\* One report over every run that has the file; a design that raises ends the run
\* before anything is written.
DeriveSafety ==
  /\ Started
  /\ \E name \in {"top.fs", "top-repack.fs"} :
       /\ \A i \in Pairs(name) : ~Raises(Designs[i].vendor, OpenFs(name)[i], Designs[i].placed)
       /\ report' = [name |-> name,
                     rows |-> [i \in Pairs(name) |->
                                 DesignRow(Designs[i].vendor, OpenFs(name)[i], Designs[i].placed)]]
  /\ done' = done \union {"safety"}
  /\ UNCHANGED <<pinFile, dualVars, stored, repacked, auditVars>>

------------------------------------------------------------------------------
(* derive_pin_hclk_138c and the audit *)

DerivePins ==
  /\ Started /\ PinsDerivable(install)
  /\ pinFile' \in {PinTable(install), Torn}
  /\ done' = done \ {"pins", "audit"}
  /\ UNCHANGED <<dualVars, safetyVars, auditVars>>

CheckPins ==
  /\ Started /\ PinsDerivable(install) /\ pinFile \notin {NoFile, Torn} /\ pinFile = PinTable(install)
  /\ done' = done \union {"pins"}
  /\ UNCHANGED <<pinFile, dualVars, safetyVars, auditVars>>

\* What an audit of the steps that are ok leaves: a step whose ball the table lacks ends
\* the run.  The delta and gap files are written only when there is something to
\* write, the record of the runs otherwise.
AuditFiles(ok) ==
  LET found == [s \in ok |-> Found(s, ddrFs'[s], pinFile.pins, packer.ddr)]
      deltas == UNION {found[s].deltas : s \in ok}
      rows == UNION {found[s].rows : s \in ok}
  IN  IF \A s \in ok : BallsKnown(s, pinFile.pins)
        THEN /\ audit' = [deltas |-> IF deltas = {} THEN audit.deltas ELSE deltas,
                          rows |-> IF rows = {} THEN audit.rows ELSE rows, ok |-> ok]
             /\ done' = IF deltas = {} THEN done \ {"audit"} ELSE done \union {"audit"}
        ELSE done' = done \ {"audit"} /\ UNCHANGED audit

\* The steps run one after the other, through the vendor tool or, decode-only, on the
\* bitstream that is there; a step may fail.
Audit ==
  /\ Started /\ pinFile \notin {NoFile, Torn}
  /\ \E only \in SUBSET Steps, oracle \in BOOLEAN, failed \in SUBSET Steps :
       /\ only # {} /\ failed \subseteq only
       /\ IF oracle THEN \A s \in only \ failed : Placeable(install, s) ELSE failed = {}
       /\ ddrFs' = [s \in Steps |-> IF oracle /\ s \in only \ failed THEN Realised(install, s) ELSE ddrFs[s]]
       /\ AuditFiles({s \in only \ failed : ddrFs'[s] # NoFile})
  /\ UNCHANGED <<pinFile, dualVars, safetyVars>>

Next ==
  \/ InstallIde \/ ChangePacker
  \/ RediffStart \/ RediffPoint \/ RediffEnd \/ RediffDies
  \/ Repack \/ DeriveSafety
  \/ DerivePins \/ CheckPins \/ Audit

Spec == Init /\ [][Next]_vars

------------------------------------------------------------------------------
(* Properties. *)

\* After a re-diff that ended with nothing changed since it began, each point's file
\* and its entry in _all.json hold what the present packer emits and the verdict on it,
\* whatever an earlier run that died left behind.
DualFilesAreCurrent ==
  "dual" \in done =>
    \A p \in Range(Points) \ Refused :
      /\ dualFile[p] = allFile[p]
      /\ dualFile[p].packer = packer.dual[OptionsOf[p]] /\ dualFile[p].vendor = DualVendor[p]
      /\ dualFile[p].verdict = "ok" <=> packer.dual[OptionsOf[p]] \subseteq DualVendor[p]

\* After a repack that exits 0 and a safety report on its files, the report covers
\* every stored run, the present packer packs each of them, and the violations are
\* those of its fuses and not of an earlier file's.
ReportIsOfThisPacker ==
  {"repack", "safety"} \subseteq done /\ report.name = "top-repack.fs" =>
    /\ DOMAIN report.rows = DOMAIN Designs
    /\ \A i \in DOMAIN Designs :
         i \notin packer.fails /\ report.rows[i].violations = Violations(Designs[i].vendor, packer.open[i], Designs[i].placed)

\* A design without violations: where the tile that carries a site's fuses has one
\* that only the open flow sets, no attribute is decoded that the vendor lacks and
\* no safety attribute otherwise than the vendor's; and a used site keeps
\* the IO_TYPE that the vendor gives it.
CleanIsSafe ==
  "safety" \in done =>
    \A i \in DOMAIN report.rows : report.rows[i].violations = {} =>
      \A site \in IoSites :
        LET open == OpenFs(report.name)[i]
            ours == Decode(open, site)
            theirs == Decode(Designs[i].vendor, site)
            set(bitmap) == IF Shifted(site) \in DOMAIN bitmap THEN bitmap[Shifted(site)] ELSE {}
        IN  /\ ~(set(open) \subseteq set(Designs[i].vendor)) =>
                 /\ DOMAIN ours \subseteq DOMAIN theirs
                 /\ \A a \in DOMAIN ours \intersect SafetyAttrs : ours[a] = theirs[a]
            /\ StateOf(Designs[i].placed, site) \notin {"unused", "unused_bank"} =>
                 RequiredOnUsed \intersect DOMAIN theirs \subseteq DOMAIN ours

\* With the pin table checked and a step's bitstream made with this install, each delta
\* of the step is of the cell in which the vendor tool realised that very primitive.
AuditedCellIsTheBalls ==
  {"pins", "audit"} \subseteq done =>
    \A s \in Steps : ddrFs[s] = Realised(install, s) =>
      \A d \in audit.deltas : \A p \in DOMAIN Plan[s] : d.primitive = p =>
        \E c \in Realised(install, s) :
          /\ c.made = p /\ c.tile = d.tile /\ c.idx = d.idx
          /\ d.vendor = c.tileBits \intersect Region(c)
=============================================================================
