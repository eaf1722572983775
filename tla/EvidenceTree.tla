---------------------------- MODULE EvidenceTree ----------------------------
(***************************************************************************)
(* What tools/check_evidence.py and tools/check_criteria.py read: the      *)
(* table of primitives, the evidence directories with their runs.jsonl and *)
(* markdown, the phase reports, the artefacts on disk and the don't-care   *)
(* mask.  A gate runs the two checkers detached and for a while, so people *)
(* and tools write to the same tree meanwhile; each write is an action.    *)
(***************************************************************************)
EXTENDS EvidenceRow, Sequences, FiniteSets

CONSTANTS
  SlugNames,   \* the names of the evidence directories, in sorted order
  Calibration, \* the slugs whose rows may carry additional fields
  Prims,       \* the primitives' ids
  Phases,      \* the phases a table row or a report may belong to
  Criteria,    \* the criteria a phase report lists
  None,        \* an absent slug or phase
  NMasks,      \* how many versions of the mask there are
  Lines,       \* the lines writers append
  Edits        \* the changes to a table row: its status and whether it is blocked

Slugs == {SlugNames[i] : i \in DOMAIN SlugNames}

(***************************************************************************)
(* A line of a runs.jsonl.  Its form says what the schema makes of it: a   *)
(* run row, one with additional fields, one that breaks the schema, or     *)
(* text that is not JSON (a line that is being written, or whose writer    *)
(* was killed).  A row without decode_check ("undecoded") and one that     *)
(* lacks only diff_count ("undiffed") are bookkeeping rows.                *)
(***************************************************************************)
Line == [form  : {"run", "additive", "undecoded", "undiffed", "broken", "torn"},
         prim  : Prims,
         row   : Row,
         mask  : 0..NMasks,   \* the mask the comparison was made with, or 0
         paths : BOOLEAN,     \* artefact_pruned_paths, if any, is a list of paths
         gated : BOOLEAN]     \* the notes carry GATE:PASS

\* row_kind: a run row carries both a diff_count and a decode_check.
Bookkeeping == {"undecoded", "undiffed"}

\* A row of spec-primitives.md.
TableRow == [id : Prims, slug : Slugs \cup {None}, phase : Phases \cup {None},
             declared : Declared, blocked : BOOLEAN]

ASSUME SlugNamesAssumption ==
  /\ SlugNames \in Seq(Slugs)
  /\ \A i, j \in DOMAIN SlugNames : SlugNames[i] = SlugNames[j] => i = j
ASSUME CalibrationAssumption == Calibration \subseteq Slugs
ASSUME NoneAssumption == None \notin Slugs \cup Phases
ASSUME CriteriaAssumption == IsFiniteSet(Criteria)
ASSUME NMasksAssumption == NMasks \in Nat
ASSUME EditsAssumption == Edits \subseteq Declared \X BOOLEAN
ASSUME LinesAssumption == Lines \subseteq {l \in Line : l.form # "torn"}

VARIABLES
  table,     \* the rows of spec-primitives.md
  summaries, \* the directories with a summary.md
  claims,    \* per slug, the criteria its markdown names
  runs,      \* per slug, the lines of its runs.jsonl
  hasRuns,   \* the directories with a runs.jsonl
  reached,   \* per phase, the criteria its report marks REACHED
  hasReport, \* the phases with a phase-report.md
  mask,      \* the version of the checked-in mask, 0 where there is none
  vendorFs,  \* the runs whose vendor bitstream is on disk
  openFs,    \* per run, the build that made the bitstream on disk, or 0
  writing,   \* per slug, the line somebody is in the middle of appending
  writes     \* bound: how many writes to the tree are still to come

content == <<table, summaries, claims, runs, hasRuns, reached, hasReport, mask,
             vendorFs, openFs>>
tree == <<content, writing, writes>>

RangeOf(s) == {s[i] : i \in DOMAIN s}

\* The least of a set of positions.
First(is) == CHOOSE i \in is : \A j \in is : i <= j

TreeTypeOK ==
  /\ table \in Seq(TableRow)
  /\ summaries \subseteq Slugs /\ hasRuns \subseteq Slugs
  /\ claims \in [Slugs -> SUBSET Criteria]
  /\ runs \in [Slugs -> Seq(Line)]
  /\ \A s \in Slugs \ hasRuns : runs[s] = <<>>
  /\ reached \in [Phases -> SUBSET Criteria] /\ hasReport \subseteq Phases
  /\ mask \in 0..NMasks
  /\ vendorFs \subseteq Runs /\ openFs \in [Runs -> 0..NBuilds]
  /\ writing \in [Slugs -> SUBSET Lines]
  /\ \A s \in Slugs : writing[s] # {} =>
       /\ \E l \in Lines : writing[s] = {l}
       /\ s \in hasRuns /\ runs[s] # <<>> /\ runs[s][Len(runs[s])].form = "torn"
  /\ writes \in Nat

-----------------------------------------------------------------------------
(* The writers. *)

Write(what) == writes > 0 /\ writes' = writes - 1 /\ what

\* append_row: the directory and the file are made on the first row.  The line
\* reaches the file in two parts; a writer that is killed leaves the first.  The
\* next line is one of its own if the remainder has its newline; if not, it is
\* lost in the remainder and changes nothing here.
BeginAppend(s, l) ==
  /\ writing[s] = {}
  /\ runs' = [runs EXCEPT ![s] = Append(@, [l EXCEPT !.form = "torn"])]
  /\ hasRuns' = hasRuns \cup {s}
  /\ writing' = [writing EXCEPT ![s] = {l}]
  /\ UNCHANGED <<table, summaries, claims, reached, hasReport, mask, vendorFs, openFs>>

EndAppend(s) ==
  \E l \in writing[s] :
    /\ runs' = [runs EXCEPT ![s] = [@ EXCEPT ![Len(@)] = l]]
    /\ writing' = [writing EXCEPT ![s] = {}]
    /\ UNCHANGED <<table, summaries, claims, hasRuns, reached, hasReport, mask,
                   vendorFs, openFs, writes>>

KillWriter(s) ==
  /\ writing[s] # {}
  /\ writing' = [writing EXCEPT ![s] = {}]
  /\ UNCHANGED <<content, writes>>

\* A tool opens the file with "w"; what it writes are appends.
Truncate(s) ==
  /\ s \in hasRuns /\ writing[s] = {}
  /\ runs' = [runs EXCEPT ![s] = <<>>]
  /\ UNCHANGED <<table, summaries, claims, hasRuns, reached, hasReport, mask,
                 vendorFs, openFs, writing>>

\* A directory is prepared, or its markdown names further criteria.
WriteSummary(s, cs) ==
  /\ summaries' = summaries \cup {s}
  /\ claims' = [claims EXCEPT ![s] = @ \cup cs]
  /\ UNCHANGED <<table, runs, hasRuns, reached, hasReport, mask, vendorFs, openFs, writing>>

WriteReport(n, cs) ==
  /\ hasReport' = hasReport \cup {n}
  /\ reached' = [reached EXCEPT ![n] = @ \cup cs]
  /\ UNCHANGED <<table, summaries, claims, runs, hasRuns, mask, vendorFs, openFs, writing>>

\* Somebody edits the status or the Done cell of a row.
EditTable(i, declared, blocked) ==
  /\ table' = [table EXCEPT ![i] = [@ EXCEPT !.declared = declared, !.blocked = blocked]]
  /\ UNCHANGED <<summaries, claims, runs, hasRuns, reached, hasReport, mask,
                 vendorFs, openFs, writing>>

ChangeMask(v) ==
  /\ mask' = v
  /\ UNCHANGED <<table, summaries, claims, runs, hasRuns, reached, hasReport,
                 vendorFs, openFs, writing>>

\* A design is deleted from the datastore.
DeleteArtefacts(r) ==
  /\ vendorFs' = vendorFs \ {r}
  /\ openFs' = [openFs EXCEPT ![r] = 0]
  /\ UNCHANGED <<table, summaries, claims, runs, hasRuns, reached, hasReport, mask, writing>>

\* Writes that only add to the tree or delete artefacts, and those that take
\* back what a reader may have seen.
Grow ==
  \/ \E s \in Slugs : EndAppend(s)
  \/ \E s \in Slugs : KillWriter(s)
  \/ \E s \in Slugs : \E l \in Lines : Write(BeginAppend(s, l))
  \/ \E s \in Slugs : \E cs \in SUBSET Criteria : Write(WriteSummary(s, cs))
  \/ \E n \in Phases : \E cs \in SUBSET Criteria : Write(WriteReport(n, cs))
  \/ \E r \in Runs : Write(DeleteArtefacts(r))

Revise ==
  \/ \E s \in Slugs : Write(Truncate(s))
  \/ \E i \in DOMAIN table : \E e \in Edits : Write(EditTable(i, e[1], e[2]))
  \/ \E v \in 0..NMasks : Write(ChangeMask(v))
=============================================================================
