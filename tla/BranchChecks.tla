---------------------------- MODULE BranchChecks ----------------------------
(***************************************************************************)
(* The last two checks of `make gate GATE_SCOPE=branch`: check_evidence.py *)
(* over the whole tree and then, if it passes, check_criteria.py for the   *)
(* phase; or either checker with options of its own, started by hand.      *)
(* Others write to the tree at any time.                                   *)
(***************************************************************************)
EXTENDS CheckEvidence, CheckCriteria

CONSTANTS
  Trees,      \* the trees a check may start from, with how many writes follow
  GatePhase   \* the phase make passes

InitialTrees ==
  [table : Seq(TableRow), summaries : SUBSET Slugs, claims : [Slugs -> SUBSET Criteria],
   runs : [Slugs -> Seq(Line)], hasRuns : SUBSET Slugs,
   reached : [Phases -> SUBSET Criteria], hasReport : SUBSET Phases,
   mask : 0..NMasks, vendorFs : SUBSET Runs, openFs : [Runs -> 0..NBuilds], writes : Nat]

ASSUME TreesAssumption ==
  /\ Trees \subseteq InitialTrees
  /\ \A t \in Trees : \A s \in Slugs \ t.hasRuns : t.runs[s] = <<>>
ASSUME GatePhaseAssumption == GatePhase \in Phases

VARIABLE
  gate        \* make's checks: off, evidence, criteria, green or red

vars == <<tree, eVars, eHist, cVars, cHist, gate>>

WholeTree == Slugs

GateOptions == [given |-> FALSE, rows |-> {}, phase |-> GatePhase, report |-> None,
                clauseD |-> FALSE]

TreeInit ==
  \E t \in Trees :
    /\ table = t.table /\ summaries = t.summaries /\ claims = t.claims
    /\ runs = t.runs /\ hasRuns = t.hasRuns
    /\ reached = t.reached /\ hasReport = t.hasReport
    /\ mask = t.mask /\ vendorFs = t.vendorFs /\ openFs = t.openFs
    /\ writing = [s \in Slugs |-> {}]
    /\ writes = t.writes

Init == TreeInit /\ EInit /\ CInit /\ gate = "off"

-----------------------------------------------------------------------------
(* make, which stops at the first check that fails. *)

MakeEvidence ==
  /\ gate = "off" /\ cPc = "idle"
  /\ StartEvidence(WholeTree)
  /\ gate' = "evidence"
  /\ UNCHANGED <<tree, cVars, cHist>>

\* Mutant of MakeCriteria: the first check's exit code is not looked at.
MakeCriteriaAnyway ==
  /\ gate = "evidence" /\ ePc \in {"passed", "failed"}
  /\ StartCriteria(GateOptions)
  /\ gate' = "criteria"
  /\ UNCHANGED <<tree, eVars, eHist>>

MakeCriteria ==
  /\ gate = "evidence" /\ ePc = "passed"
  /\ StartCriteria(GateOptions)
  /\ gate' = "criteria"
  /\ UNCHANGED <<tree, eVars, eHist>>

MakeEnds ==
  \/ /\ gate = "evidence" /\ ePc = "failed"
     /\ gate' = "red"
     /\ UNCHANGED <<tree, eVars, eHist, cVars, cHist>>
  \/ /\ gate = "criteria" /\ cPc \in {"passed", "failed"}
     /\ gate' = IF cPc = "passed" THEN "green" ELSE "red"
     /\ UNCHANGED <<tree, eVars, eHist, cVars, cHist>>

\* One checker by hand.
EvidenceByHand ==
  /\ gate = "off" /\ cPc = "idle"
  /\ \E scope \in Scopes : StartEvidence(scope)
  /\ UNCHANGED <<tree, cVars, cHist, gate>>

CriteriaByHand ==
  /\ gate = "off" /\ ePc = "idle"
  /\ \E o \in CriteriaOptions : StartCriteria(o)
  /\ UNCHANGED <<tree, eVars, eHist, gate>>

-----------------------------------------------------------------------------
(* The rest of the world writes while a checker is at work. *)

Working(p) == p \notin {"idle", "passed", "failed"}

Busy == Working(ePc) \/ Working(cPc) \/ gate \in {"evidence", "criteria"}

TreeGrows ==
  /\ Busy
  /\ Grow
  /\ UNCHANGED <<eVars, eHist, cVars, cHist, gate>>

TreeIsRevised ==
  /\ Busy
  /\ Revise
  /\ eGrown' = FALSE /\ cGrown' = FALSE
  /\ UNCHANGED <<eVars, eStart, cVars, cStart, gate>>

Checks ==
  \/ EvidenceStep /\ UNCHANGED <<tree, cVars, cHist, gate>>
  \/ CriteriaStep /\ UNCHANGED <<tree, eVars, eHist, gate>>
  \/ MakeEvidence \/ MakeCriteria \/ MakeEnds
  \/ EvidenceByHand \/ CriteriaByHand

Next == Checks \/ TreeGrows \/ TreeIsRevised

Spec == Init /\ [][Next]_vars

-----------------------------------------------------------------------------
(* Properties. *)

TypeOK ==
  /\ TreeTypeOK
  /\ ETypeOK
  /\ CTypeOK
  /\ gate \in {"off", "evidence", "criteria", "green", "red"}

\* The rows that files hold: their whole lines.
RowsIn(files) == [s \in Slugs |-> {l \in RangeOf(files[s]) : l.form # "torn"}]

OwnRows(files, t) ==
  IF t.slug \in Slugs THEN {l \in RowsIn(files)[t.slug] : l.prim = t.id} ELSE {}

\* What the docstring promises of a row that passes, on the disk at the start.
AdmittedAtStart(l) ==
  /\ l.form = "run" /\ l.paths
  /\ Admissible(l.row, eStart.vendorFs, eStart.openFs)
  /\ MaskFits(l, eStart.mask)

\* A pass of check_evidence.py vouches for every row of a primitive in scope
\* that stood in the tree when it began, although files grow under its two
\* readings and artefacts are deleted (check, tools/check_evidence.py:490-637).
EvidenceVouches ==
  (ePc = "passed" /\ eGrown) =>
    \A t \in RangeOf(eStart.table) : t.slug \in eScope =>
      ~t.blocked /\ \A l \in OwnRows(eStart.runs, t) : AdmittedAtStart(l)

\* When nothing is written meanwhile it passes exactly the trees that its
\* docstring admits (tools/check_evidence.py:50-79): in scope no blocked row,
\* no bad or empty file, and of each primitive with a file some rows, all
\* admissible.
QuietEvidenceIsExact ==
  ( /\ ePc \in {"passed", "failed"} /\ eGrown
    /\ eStart = [table |-> table, runs |-> runs, hasRuns |-> hasRuns, mask |-> mask,
                  vendorFs |-> vendorFs, openFs |-> openFs] ) =>
  ( ePc = "passed" <=>
      /\ \A s \in eScope \cap hasRuns :
           runs[s] # <<>> /\ \A l \in RangeOf(runs[s]) : LineValid(l, s)
      /\ \A t \in RangeOf(table) : t.slug \in eScope =>
           /\ ~t.blocked
           /\ t.slug \in hasRuns =>
                OwnRows(runs, t) # {} /\ \A l \in OwnRows(runs, t) : AdmittedAtStart(l) )

\* A scoped pass of check_criteria.py holds at its end as well: rows that were
\* appended while it read do not undo a primitive that has rows of its own
\* (evaluate_row, tools/check_criteria.py:302-372).  One that is satisfied by
\* another slug's rows can be undone by the first row of its own slug.
CriteriaVouches ==
  (cPc = "passed" /\ ~Unscoped(cOpts) /\ cGrown) =>
    \A i \in Selected(cStart.table, cOpts) :
      LET t == cStart.table[i]
      IN  (OwnRows(cStart.runs, t) # {} \/ OwnRows(runs, t) = {}) =>
            Met(RowsIn(runs), t, cOpts.clauseD)

\* A criterion that was REACHED, and claimed by some slug, when a passing run
\* began is backed: a slug that claims it has a row (check_phase_report,
\* tools/check_criteria.py:496-540).
ReachedIsBacked ==
  (cPc = "passed" /\ ~Unscoped(cOpts) /\ cGrown) =>
    \A n \in Phases :
      (n = cOpts.report \/ (cOpts.report = None /\ n = cOpts.phase)) =>
        \A c \in IF n \in cStart.hasReport THEN cStart.reached[n] ELSE {} :
          (\E s \in Slugs : c \in cStart.claims[s]) =>
             \E s \in Slugs : c \in claims[s] /\ RowsIn(runs)[s] # {}

\* The two numbers of the CRITERIA line are equal, and not zero, exactly when a
\* scoped run passes (main, tools/check_criteria.py:890-912).
CountsAgree ==
  (cPc \in {"passed", "failed"} /\ ~Unscoped(cOpts)) =>
    (cPc = "passed" <=> Counted = Examined /\ Examined > 0)

\* A green gate: each primitive of the phase is satisfied by a row that is
\* admissible or was appended after the first check began, unless its slug had
\* no row of it by then (Makefile:45-50: the second check runs after the first).
GreenIsAdmitted ==
  (gate = "green" /\ eGrown) =>
    \A t \in RangeOf(table) :
      (t.phase = GatePhase /\ OwnRows(eStart.runs, t) # {}) =>
        \E l \in OwnRows(runs, t) :
          /\ SatisfiedBy(l, t.declared, FALSE)
          /\ l \in OwnRows(eStart.runs, t) => AdmittedAtStart(l)

=============================================================================
