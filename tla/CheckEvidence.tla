---------------------------- MODULE CheckEvidence ----------------------------
(***************************************************************************)
(* tools/check_evidence.py over a tree that is written to meanwhile.  It   *)
(* reads the table and the mask's hash, walks the primitives in scope one  *)
(* after the other, looks at each of their rows and its artefacts, then    *)
(* lists every runs.jsonl and reads each a second time.                    *)
(***************************************************************************)
EXTENDS EvidenceTree

CONSTANT Scopes  \* what --slug and --exclude-slug may select: sets of slugs

ASSUME ScopesAssumption == Scopes \subseteq SUBSET Slugs

VARIABLES
  ePc,       \* where the checker is
  eScope,    \* the slugs in scope
  eTable,    \* the table it read
  eTodo,     \* the positions in it that it has not walked yet
  eMask,     \* the mask it expects
  eLines,    \* the lines of the present primitive's slug
  eRows,     \* the positions of its rows that it has not judged yet
  eFiles,    \* the positions in SlugNames of the files it has not swept yet
  eFindings, \* what it has found: the kind and the id or slug
  eCounts,   \* rows that were looked at, pending primitives
  eStart,    \* the tree it started from (history)
  eGrown     \* the tree has only grown since (history)

eVars == <<ePc, eScope, eTable, eTodo, eMask, eLines, eRows, eFiles, eFindings, eCounts>>
eHist == <<eStart, eGrown>>

FindingKinds == {"blocked", "torn", "blank", "schema", "verdict", "mask",
                 "residual", "paths", "artefact", "line", "empty"}

ETypeOK ==
  /\ ePc \in {"idle", "walk", "judge", "sweep", "passed", "failed"}
  /\ eScope \subseteq Slugs
  /\ eTable \in Seq(TableRow) /\ eTodo \subseteq DOMAIN eTable
  /\ \A i \in eTodo : eTable[i].slug \in eScope
  /\ ePc = "judge" => eTodo # {}
  /\ eMask \in 0..NMasks
  /\ eLines \in Seq(Line) /\ eRows \subseteq DOMAIN eLines
  /\ eFiles \subseteq DOMAIN SlugNames
  /\ eFindings \subseteq FindingKinds \X (Prims \cup Slugs)
  /\ eCounts \in [rows : Nat, pending : Nat]
  /\ eStart \in [table : Seq(TableRow), runs : [Slugs -> Seq(Line)], hasRuns : SUBSET Slugs,
                 mask : 0..NMasks, vendorFs : SUBSET Runs, openFs : [Runs -> 0..NBuilds]]
  /\ eGrown \in BOOLEAN

-----------------------------------------------------------------------------
(* The rules for one row and one line. *)

\* Only a plain run row passes validate_row.
RunRowValid(l) == l.form = "run" /\ SchemaValid(l.row)

\* The mask is an input of a comparison: a row without one may lack it.
MaskFits(l, expected) ==
  (expected # 0 /\ (l.row.verdict \in {"ok", "diff"} \/ l.mask # 0)) => l.mask = expected

\* Mutant of RowFindings: an artefact only has to be there.
RowFindingsUnhashed(l, expected, vendor, open) ==
  IF ~RunRowValid(l) THEN {"schema"}
  ELSE {k \in {"verdict", "mask", "residual", "paths", "artefact"} :
          CASE k = "verdict"  -> ~VerdictFits(l.row)
            [] k = "mask"     -> ~MaskFits(l, expected)
            [] k = "residual" -> l.row.found.residual \notin {"none", "listed"}
            [] k = "paths"    -> ~l.paths
            [] k = "artefact" -> ~ArtefactsExist(l.row, vendor, open)}

\* What the walk finds in a row.
RowFindings(l, expected, vendor, open) ==
  IF ~RunRowValid(l) THEN {"schema"}
  ELSE {k \in {"verdict", "mask", "residual", "paths", "artefact"} :
          CASE k = "verdict"  -> ~VerdictFits(l.row)
            [] k = "mask"     -> ~MaskFits(l, expected)
            [] k = "residual" -> l.row.found.residual \notin {"none", "listed"}
            [] k = "paths"    -> ~l.paths
            [] k = "artefact" -> ~ArtefactsResolve(l.row, vendor, open)}

\* What the sweep holds a line to: the schema of its kind.
LineValid(l, s) ==
  \/ l.form \in Bookkeeping
  \/ RunRowValid(l)
  \/ l.form = "additive" /\ s \in Calibration /\ SchemaValid(l.row)

Matching(lines, p) == {i \in DOMAIN lines : lines[i].prim = p}

HasTorn(lines) == \E i \in DOMAIN lines : lines[i].form = "torn"

-----------------------------------------------------------------------------
(* The checker. *)

EInit ==
  /\ ePc = "idle" /\ eScope = {} /\ eTable = <<>> /\ eTodo = {} /\ eMask = 0
  /\ eLines = <<>> /\ eRows = {} /\ eFiles = {} /\ eFindings = {}
  /\ eCounts = [rows |-> 0, pending |-> 0]
  /\ eStart = [table |-> <<>>, runs |-> runs, hasRuns |-> {}, mask |-> 0,
               vendorFs |-> {}, openFs |-> openFs]
  /\ eGrown = TRUE

\* The table and the mask are read; a row without an evidence column is none.
StartEvidence(scope) ==
  /\ ePc = "idle"
  /\ ePc' = "walk"
  /\ eScope' = scope
  /\ eTable' = table
  /\ eTodo' = {i \in DOMAIN table : table[i].slug \in scope}
  /\ eMask' = mask
  /\ eStart' = [table |-> table, runs |-> runs, hasRuns |-> hasRuns, mask |-> mask,
                vendorFs |-> vendorFs, openFs |-> openFs]
  /\ eGrown' = TRUE
  /\ UNCHANGED <<eLines, eRows, eFiles, eFindings, eCounts>>

Primitive == eTable[First(eTodo)]

Walked == eTodo' = eTodo \ {First(eTodo)}

Status(t) == IF t.blocked THEN {<<"blocked", t.id>>} ELSE {}

\* One primitive.  Without a runs.jsonl it is pending; one that cannot be read
\* or has no row of it is a finding; else its rows are judged.
Pending ==
  /\ ePc = "walk" /\ eTodo # {} /\ Primitive.slug \notin hasRuns
  /\ eCounts' = [eCounts EXCEPT !.pending = @ + 1]
  /\ eFindings' = eFindings \cup Status(Primitive)
  /\ Walked
  /\ UNCHANGED <<ePc, eScope, eTable, eMask, eLines, eRows, eFiles, eHist>>

Unreadable ==
  /\ ePc = "walk" /\ eTodo # {} /\ Primitive.slug \in hasRuns
  /\ LET lines == runs[Primitive.slug]
         kind  == IF HasTorn(lines) THEN "torn" ELSE "blank"
     IN  /\ HasTorn(lines) \/ Matching(lines, Primitive.id) = {}
         /\ eFindings' = eFindings \cup Status(Primitive) \cup {<<kind, Primitive.id>>}
  /\ Walked
  /\ UNCHANGED <<ePc, eScope, eTable, eMask, eLines, eRows, eFiles, eCounts, eHist>>

ReadRows ==
  /\ ePc = "walk" /\ eTodo # {} /\ Primitive.slug \in hasRuns
  /\ LET lines == runs[Primitive.slug]
     IN  /\ ~HasTorn(lines) /\ Matching(lines, Primitive.id) # {}
         /\ eLines' = lines
         /\ eRows' = Matching(lines, Primitive.id)
  /\ eFindings' = eFindings \cup Status(Primitive)
  /\ ePc' = "judge"
  /\ UNCHANGED <<eScope, eTable, eTodo, eMask, eFiles, eCounts, eHist>>

\* One row of it; the artefacts are those on disk now.
JudgeRow ==
  /\ ePc = "judge" /\ eRows # {}
  /\ LET found == RowFindings(eLines[First(eRows)], eMask, vendorFs, openFs)
     IN  /\ eFindings' = eFindings \cup {<<k, Primitive.id>> : k \in found}
         /\ eCounts' = IF "schema" \in found THEN eCounts
                       ELSE [eCounts EXCEPT !.rows = @ + 1]
  /\ eRows' = eRows \ {First(eRows)}
  /\ UNCHANGED <<ePc, eScope, eTable, eTodo, eMask, eLines, eFiles, eHist>>

RowsJudged ==
  /\ ePc = "judge" /\ eRows = {}
  /\ Walked
  /\ ePc' = "walk"
  /\ UNCHANGED <<eScope, eTable, eMask, eLines, eRows, eFiles, eFindings, eCounts, eHist>>

\* discover_runs_files: every runs.jsonl there is now, in path order.
Discover ==
  /\ ePc = "walk" /\ eTodo = {}
  /\ eFiles' = {i \in DOMAIN SlugNames : SlugNames[i] \in hasRuns \cap eScope}
  /\ ePc' = "sweep"
  /\ UNCHANGED <<eScope, eTable, eTodo, eMask, eLines, eRows, eFindings, eCounts, eHist>>

\* Mutant of SweepFindings: an empty file is in order.
SweepFindingsOfLines(lines, s) ==
  IF \E i \in DOMAIN lines : ~LineValid(lines[i], s) THEN {<<"line", s>>} ELSE {}

\* A file without one valid line is a finding of its own.
SweepFindings(lines, s) ==
  LET bad == {i \in DOMAIN lines : ~LineValid(lines[i], s)}
  IN  (IF bad # {} THEN {<<"line", s>>} ELSE {}) \cup
      (IF bad = DOMAIN lines THEN {<<"empty", s>>} ELSE {})

SweepFile ==
  /\ ePc = "sweep" /\ eFiles # {}
  /\ LET s == SlugNames[First(eFiles)]
     IN  eFindings' = eFindings \cup SweepFindings(runs[s], s)
  /\ eFiles' = eFiles \ {First(eFiles)}
  /\ UNCHANGED <<ePc, eScope, eTable, eTodo, eMask, eLines, eRows, eCounts, eHist>>

EndEvidence ==
  /\ ePc = "sweep" /\ eFiles = {}
  /\ ePc' = IF eFindings = {} THEN "passed" ELSE "failed"
  /\ UNCHANGED <<eScope, eTable, eTodo, eMask, eLines, eRows, eFiles, eFindings, eCounts,
                 eHist>>

EvidenceStep ==
  \/ Pending \/ Unreadable \/ ReadRows \/ JudgeRow \/ RowsJudged
  \/ Discover \/ SweepFile \/ EndEvidence
=============================================================================
