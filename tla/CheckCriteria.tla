---------------------------- MODULE CheckCriteria ----------------------------
(***************************************************************************)
(* tools/check_criteria.py over a tree that is written to meanwhile.  It   *)
(* reads the table, loads every slug's rows, asks of each table row in     *)
(* scope whether some evidence row satisfies it, and of each criterion the *)
(* phase report marks REACHED whether a slug that claims it has rows.      *)
(* --ae350, which reads none of these, is not part of this module.         *)
(***************************************************************************)
EXTENDS EvidenceTree

CONSTANT CriteriaOptions  \* the command lines

\* --rows (with Given), --phase, --phase-report and --enable-clause-d.  A report
\* that is named is the one of phase `report`.
Option == [given : BOOLEAN, rows : SUBSET Prims, phase : Phases \cup {None},
           report : Phases \cup {None}, clauseD : BOOLEAN]

ASSUME OptionsAssumption == CriteriaOptions \subseteq Option

VARIABLES
  cPc,       \* where the checker is
  cOpts,     \* its options
  cTable,    \* the table it read
  cListing,  \* the positions in SlugNames of the slugs it has not loaded yet
  cRows,     \* per slug, the rows it loaded
  cTargets,  \* the positions of the table rows it has not evaluated yet
  cMet,      \* how many table rows are satisfied
  cUnmet,    \* those that are not
  cReport,   \* the phase whose report it reads, or None
  cReached,  \* the criteria marked REACHED
  cBacked, cUnlinked, cUnbacked, \* what it makes of them
  cStart,    \* the tree it started from (history)
  cGrown     \* the tree has only grown since (history)

cResult == <<cMet, cUnmet, cReport, cReached, cBacked, cUnlinked, cUnbacked>>
cVars == <<cPc, cOpts, cTable, cListing, cRows, cTargets, cResult>>
cHist == <<cStart, cGrown>>

CTypeOK ==
  /\ cPc \in {"idle", "load", "evaluate", "claims", "end", "passed", "failed"}
  /\ cOpts \in Option
  /\ cTable \in Seq(TableRow) /\ cListing \subseteq DOMAIN SlugNames
  /\ cRows \in [Slugs -> SUBSET {l \in Line : l.form # "torn"}]
  /\ cTargets \subseteq DOMAIN cTable /\ cUnmet \subseteq DOMAIN cTable
  /\ cPc = "idle" => cTargets = {} /\ cUnmet = {}
  /\ cMet \in Nat
  /\ cReport \in Phases \cup {None}
  /\ cReached \subseteq Criteria /\ cBacked \subseteq Criteria
  /\ cUnlinked \subseteq Criteria /\ cUnbacked \subseteq Criteria
  /\ cStart \in [table : Seq(TableRow), runs : [Slugs -> Seq(Line)],
                 claims : [Slugs -> SUBSET Criteria], reached : [Phases -> SUBSET Criteria],
                 hasReport : SUBSET Phases, mask : 0..NMasks]
  /\ cGrown \in BOOLEAN

-----------------------------------------------------------------------------
(* One table row. *)

\* evaluate_row's loop: what one evidence row does for a declared status.  A
\* refusal is accepted whatever the row's kind; an ok row needs a decode check
\* (clause c), and the gate marker where clause (d) is enforced.
SatisfiedBy(l, declared, clauseD) ==
  /\ Satisfies(l.row, declared)
  /\ l.row.verdict = "ok" =>
       /\ l.form # "undecoded"
       /\ clauseD => l.gated

\* The primitive's rows in its own slug, or, if there are none, anywhere.
RowsFor(rows, t) ==
  LET of(s) == {l \in rows[s] : l.prim = t.id}
      own   == IF t.slug \in Slugs THEN of(t.slug) ELSE {}
  IN  IF own # {} THEN own ELSE UNION {of(s) : s \in Slugs}

\* Clause (e): a runs.jsonl or summary.md with text in it, or any row at all.
Populated(rows, t) ==
  \/ t.slug \in summaries
  \/ t.slug \in hasRuns /\ runs[t.slug] # <<>>
  \/ RowsFor(rows, t) # {}

\* Mutant of Met: no row of the primitive may fail.
MetByAll(rows, t, clauseD) ==
  /\ RowsFor(rows, t) # {}
  /\ \A l \in RowsFor(rows, t) : SatisfiedBy(l, t.declared, clauseD)

Met(rows, t, clauseD) ==
  /\ RowsFor(rows, t) # {}
  /\ Populated(rows, t)
  /\ \E l \in RowsFor(rows, t) : SatisfiedBy(l, t.declared, clauseD)

-----------------------------------------------------------------------------
(* The scope. *)

Unscoped(o) == ~o.given /\ o.phase = None

\* by_id: of rows with the same id the last one stands for the id.
LastOf(tbl, id) ==
  {i \in DOMAIN tbl : tbl[i].id = id /\ \A j \in DOMAIN tbl : tbl[j].id = id => j <= i}

\* An id that is not in the table selects nothing.
Selected(tbl, o) ==
  {i \in DOMAIN tbl :
     \/ Unscoped(o)
     \/ o.given /\ \E id \in o.rows : i \in LastOf(tbl, id)
     \/ o.phase # None /\ tbl[i].phase = o.phase}

\* The report that a run with these options reads: the one named, else the
\* phase's, if there is one.
ReportOf(o) ==
  IF Unscoped(o) THEN None
  ELSE IF o.report # None THEN o.report
  ELSE IF o.phase \in hasReport THEN o.phase ELSE None

-----------------------------------------------------------------------------
(* The checker. *)

NoRows == [s \in Slugs |-> {}]

CInit ==
  /\ cPc = "idle"
  /\ cOpts = [given |-> FALSE, rows |-> {}, phase |-> None, report |-> None, clauseD |-> FALSE]
  /\ cTable = <<>> /\ cListing = {} /\ cRows = NoRows /\ cTargets = {}
  /\ cMet = 0 /\ cUnmet = {}
  /\ cReport = None /\ cReached = {} /\ cBacked = {} /\ cUnlinked = {} /\ cUnbacked = {}
  /\ cStart = [table |-> <<>>, runs |-> runs, claims |-> claims, reached |-> reached,
               hasReport |-> {}, mask |-> 0]
  /\ cGrown = TRUE

\* The table and the list of evidence directories are read.
StartCriteria(o) ==
  /\ cPc = "idle"
  /\ cPc' = "load"
  /\ cOpts' = o
  /\ cTable' = table
  /\ cListing' = {i \in DOMAIN SlugNames : SlugNames[i] \in summaries \cup hasRuns}
  /\ cStart' = [table |-> table, runs |-> runs, claims |-> claims, reached |-> reached,
                hasReport |-> hasReport, mask |-> mask]
  /\ cGrown' = TRUE
  /\ UNCHANGED <<cRows, cTargets, cResult>>

\* Mutant of JsonLines: half a line is kept.
AllLinesOf(lines) == RangeOf(lines)

\* A line that is not JSON is passed over.
JsonLines(lines) == {l \in RangeOf(lines) : l.form # "torn"}

LoadSlug ==
  /\ cPc = "load" /\ cListing # {}
  /\ LET s == SlugNames[First(cListing)]
     IN  cRows' = [cRows EXCEPT ![s] = JsonLines(runs[s])]
  /\ cListing' = cListing \ {First(cListing)}
  /\ UNCHANGED <<cPc, cOpts, cTable, cTargets, cResult, cHist>>

Resolve ==
  /\ cPc = "load" /\ cListing = {}
  /\ cTargets' = Selected(cTable, cOpts)
  /\ cPc' = "evaluate"
  /\ UNCHANGED <<cOpts, cTable, cListing, cRows, cResult, cHist>>

EvaluateRow ==
  /\ cPc = "evaluate" /\ cTargets # {}
  /\ LET i == First(cTargets)
         t == cTable[i]
     IN  /\ IF Met(cRows, t, cOpts.clauseD)
            THEN cMet' = cMet + 1 /\ UNCHANGED cUnmet
            ELSE cUnmet' = cUnmet \cup {i} /\ UNCHANGED cMet
         /\ cTargets' = cTargets \ {i}
  /\ UNCHANGED <<cPc, cOpts, cTable, cListing, cRows, cReport, cReached, cBacked,
                 cUnlinked, cUnbacked, cHist>>

\* phase_report_path and parse_phase_report.
ReadReport ==
  /\ cPc = "evaluate" /\ cTargets = {}
  /\ cReport' = ReportOf(cOpts)
  /\ cReached' = IF cReport' \in hasReport THEN reached[cReport'] ELSE {}
  /\ cPc' = IF cReport' = None THEN "end" ELSE "claims"
  /\ UNCHANGED <<cOpts, cTable, cListing, cRows, cTargets, cMet, cUnmet,
                 cBacked, cUnlinked, cUnbacked, cHist>>

\* Mutant of Claiming: a slug without rows is not looked at.
ClaimingWithRows(c) == {s \in Slugs : c \in claims[s] /\ cRows[s] # {}}

\* slug_claims reads the markdown now; the rows are those loaded before.
Claiming(c) == {s \in Slugs : c \in claims[s]}

ReadClaims ==
  /\ cPc = "claims"
  /\ cUnlinked' = {c \in cReached : Claiming(c) = {}}
  /\ cBacked' = {c \in cReached : \E s \in Claiming(c) : cRows[s] # {}}
  /\ cUnbacked' = cReached \ (cUnlinked' \cup cBacked')
  /\ cPc' = "end"
  /\ UNCHANGED <<cOpts, cTable, cListing, cRows, cTargets, cMet, cUnmet,
                 cReport, cReached, cHist>>

\* Mutant of Counted: a criterion nobody claims does not count.
CountedWithRows == cMet + Cardinality(cBacked)

\* CRITERIA ok: <Counted>/<Examined>
Counted == cMet + Cardinality(cBacked) + Cardinality(cUnlinked)

Examined == cMet + Cardinality(cUnmet) + Cardinality(cReached)

EndCriteria ==
  /\ cPc = "end"
  /\ cPc' = IF Unscoped(cOpts) \/ (Examined # 0 /\ cUnmet = {} /\ cUnbacked = {})
            THEN "passed" ELSE "failed"
  /\ UNCHANGED <<cOpts, cTable, cListing, cRows, cTargets, cResult, cHist>>

CriteriaStep ==
  LoadSlug \/ Resolve \/ EvaluateRow \/ ReadReport \/ ReadClaims \/ EndCriteria
=============================================================================
