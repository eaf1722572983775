--------------------------- MODULE EvidenceStore ---------------------------
(***************************************************************************)
(* The life of a batch's evidence rows.  The harness leaves a batch file   *)
(* (evidence/_runs/<batch>.rows.jsonl); five tools read, repair and        *)
(* publish it, each a separate script that somebody starts by hand:        *)
(*                                                                         *)
(*   promote          evidence/clkdiv/promote_rows.py                      *)
(*   merge            evidence/plla/merge_sweep_rows.py                    *)
(*   recompare        evidence/oddr-iddr/recompare_rows.py                 *)
(*   redo             tools/redo_open_half.py, over the batch file         *)
(*   rederive-batch,                                                       *)
(*   rederive-slug    tools/rederive_verdicts.py over either file          *)
(*                                                                         *)
(* Nothing locks the two files.  A tool reads a whole file, works in       *)
(* memory, and then appends to a file or opens it with "w" and writes it   *)
(* anew; another tool can run, and either can be killed, in between.       *)
(***************************************************************************)
EXTENDS EvidenceRow, Sequences, FiniteSets

CONSTANTS
  Procs,         \* the tools that can run at once
  Batches,       \* the batches: which runs, and how each builds and compares
  MaxWork,       \* bound: a start counts as often as the batch has runs
  RecompareLevels, \* the --level values recompare is given
  RedoLevels,    \* those redo is given; "own" where it is given none
  Torn           \* a line that is not valid JSON

\* Building a run's open half and comparing the two bitstreams: it may fail,
\* or the open flow may refuse the design.
Outcomes == [ends : {"compared", "fails", "refuses"}, found : Measure]

ASSUME RunsAssumption == IsFiniteSet(Runs)
ASSUME BatchesAssumption ==
  Batches \subseteq [runs : SUBSET Runs, truth : [Runs -> [Builds -> Outcomes]]]
ASSUME MaxWorkAssumption == MaxWork \in Nat
ASSUME LevelsAssumption ==
  RecompareLevels \subseteq Levels /\ RedoLevels \subseteq Levels \cup {"own"}
ASSUME TornAssumption == Torn \notin Row

Files == {"batch", "slug"}
Tools == {"promote", "merge", "recompare", "redo", "rederive-batch", "rederive-slug"}

VARIABLES
  batch,     \* the runs of the batch
  truth,     \* truth[run][build]: what building and comparing the run gives
  toolchain, \* the installed toolchain
  vendorFs,  \* the runs whose vendor bitstream is on disk
  openFs,    \* per run, the build that made the bitstream on disk, or 0
  file,      \* the lines of the batch file and of the slug's runs.jsonl
  pc, tool, skip, level, \* per process: where it is, its tool, its options
  known,     \* merge: the run ids it found in the slug
  todo,      \* the rows it has read and not treated yet
  out,       \* the rows it will write
  work,      \* the work of the tools started so far
  compared,  \* per run, every outcome a comparison gave (history)
  published, \* the runs that reached the slug (history)
  promoted,  \* a promotion was started (history)
  clean      \* no two tools overlapped and none was killed (history)

disk  == <<batch, truth, toolchain, vendorFs, openFs>>
procs == <<pc, tool, skip, level, known, todo, out>>
hist  == <<compared, published, promoted, clean>>
vars  == <<disk, file, procs, work, hist>>

RangeOf(s) == {s[i] : i \in 1..Len(s)}
RunsIn(s)  == {r.run : r \in RangeOf(s) \ {Torn}}

-----------------------------------------------------------------------------
(* The batch: what the harness wrote for the first build, with its present *)
(* comparison or with the two older ones, which measured no over-emission. *)

WrittenRow(r, m, verdict) ==
  [run |-> r, build |-> 1, bits |-> IF verdict \in {"ok", "diff"} THEN 1 ELSE 0, vendor |-> TRUE,
   verdict |-> verdict, level |-> "E1", found |-> m,
   note |-> IF verdict = "refused" THEN "text" ELSE "none"]

OldVerdict(m) == IF m.sets \/ m.residual # "none" THEN "diff" ELSE "ok"
SetsVerdict(m) == IF m.sets THEN "diff" ELSE "ok"

HarnessRows(r, outcome) ==
  LET found   == outcome.found
      old     == [found EXCEPT !.over = "unmeasured"]
      summary == [old EXCEPT !.residual = IF @ = "none" THEN @ ELSE "summary"]
  IN  CASE outcome.ends = "fails"   -> {WrittenRow(r, NoMeasure, "aborted")}
        [] outcome.ends = "refuses" -> {WrittenRow(r, NoMeasure, "refused")}
        [] outcome.ends = "compared" ->
             {WrittenRow(r, found, Verdict(found)), WrittenRow(r, old, OldVerdict(old)),
              WrittenRow(r, summary, SetsVerdict(summary))}

FirstBuilt(r) == r \in batch /\ truth[r][1].ends = "compared"

Init ==
  /\ \E b \in Batches : batch = b.runs /\ truth = b.truth
  /\ toolchain = 1
  /\ vendorFs = batch
  /\ openFs = [r \in Runs |-> IF FirstBuilt(r) THEN 1 ELSE 0]
  /\ \E rows \in [1..Cardinality(batch) -> UNION {HarnessRows(r, truth[r][1]) : r \in batch}] :
       /\ RunsIn(rows) = batch
       /\ file = [f \in Files |-> IF f = "batch" THEN rows ELSE <<>>]
  /\ pc = [p \in Procs |-> "idle"]
  /\ tool = [p \in Procs |-> "none"]
  /\ skip = [p \in Procs |-> FALSE]
  /\ level = [p \in Procs |-> "own"]
  /\ known = [p \in Procs |-> {}]
  /\ todo = [p \in Procs |-> <<>>]
  /\ out = [p \in Procs |-> <<>>]
  /\ work = 0
  /\ compared = [r \in Runs |-> IF FirstBuilt(r) THEN {truth[r][1].found} ELSE {}]
  /\ published = {}
  /\ promoted = FALSE
  /\ clean = TRUE

-----------------------------------------------------------------------------
(* A tool starts, reads and ends. *)

Source(t) == IF t = "rederive-slug" THEN "slug" ELSE "batch"
Target(t) == IF t \in {"redo", "rederive-batch"} THEN "batch" ELSE "slug"

\* The options a tool takes: --skip-missing-vendor and --level.
Options(t) ==
  CASE t = "redo"      -> BOOLEAN \X RedoLevels
    [] t = "recompare" -> {FALSE} \X RecompareLevels
    [] OTHER           -> {<<FALSE, "own">>}

Goto(p, l) == pc' = [pc EXCEPT ![p] = l]

\* The process ends; what it held is gone.
End(p) ==
  /\ Goto(p, "idle")
  /\ skip' = [skip EXCEPT ![p] = FALSE]
  /\ level' = [level EXCEPT ![p] = "own"]
  /\ known' = [known EXCEPT ![p] = {}]
  /\ todo' = [todo EXCEPT ![p] = <<>>]
  /\ out' = [out EXCEPT ![p] = <<>>]
  /\ tool' = [tool EXCEPT ![p] = "none"]

\* An uncaught exception or SystemExit: nothing more is written.
Die(p) ==
  /\ End(p)
  /\ UNCHANGED <<disk, file, work, hist>>

Start(p, t) ==
  /\ pc[p] = "idle"
  /\ work < MaxWork
  /\ work' = work + Cardinality(batch)
  /\ Goto(p, IF t = "merge" THEN "readIds" ELSE "read")
  /\ tool' = [tool EXCEPT ![p] = t]
  /\ \E opt \in Options(t) :
       /\ skip' = [skip EXCEPT ![p] = opt[1]]
       /\ level' = [level EXCEPT ![p] = opt[2]]
  /\ promoted' = (promoted \/ t = "promote")
  /\ clean' = (clean /\ \A q \in Procs : pc[q] = "idle")
  /\ UNCHANGED <<disk, file, known, todo, out, compared, published>>

Readable(f) == Torn \notin RangeOf(file[f])

\* json.loads raises at a line that is not JSON.
ReadFails(p) ==
  /\ \/ pc[p] = "readIds" /\ ~Readable("slug")
     \/ pc[p] = "read" /\ ~Readable(Source(tool[p]))
  /\ Die(p)

\* merge: the run ids that are in runs.jsonl already.
ReadIds(p) ==
  /\ pc[p] = "readIds" /\ Readable("slug")
  /\ known' = [known EXCEPT ![p] = RunsIn(file["slug"])]
  /\ Goto(p, "read")
  /\ UNCHANGED <<disk, file, tool, skip, level, todo, out, work, hist>>

Rederives(p) == tool[p] \in {"rederive-batch", "rederive-slug"}

ReadRows(p) ==
  /\ pc[p] = "read" /\ ~Rederives(p) /\ Readable("batch")
  /\ todo' = [todo EXCEPT ![p] = file["batch"]]
  /\ Goto(p, "rows")
  /\ UNCHANGED <<disk, file, tool, skip, level, known, out, work, hist>>

\* Mutant of RederivedFile: only the rows that changed are written.
RederivedChanges(rows) ==
  SelectSeq([i \in 1..Len(rows) |-> Rederived(rows[i])], LAMBDA r : r.verdict = "diff")

RederivedFile(rows) == [i \in 1..Len(rows) |-> Rederived(rows[i])]

\* rederive leaves a file alone in which no verdict changes.
ReadAndRederive(p) ==
  LET rows == file[Source(tool[p])]
  IN  /\ pc[p] = "read" /\ Rederives(p) /\ Readable(Source(tool[p]))
      /\ IF RederivedFile(rows) = rows
         THEN End(p)
         ELSE /\ out' = [out EXCEPT ![p] = RederivedFile(rows)]
              /\ Goto(p, "write")
              /\ UNCHANGED <<tool, skip, level, known, todo>>
      /\ UNCHANGED <<disk, file, work, hist>>

-----------------------------------------------------------------------------
(* Row by row. *)

Keep(p, row) ==
  /\ out' = [out EXCEPT ![p] = Append(@, row)]
  /\ todo' = [todo EXCEPT ![p] = Tail(@)]

\* Mutant of IsNew: merge does not look at the ids that are there.
AnyIsNew(p, row) == TRUE

\* merge: a run id that is there is skipped, and a row that goes in is noted.
IsNew(p, row) == row.run \notin known[p]

MergeRow(p) ==
  /\ pc[p] = "rows" /\ tool[p] = "merge" /\ todo[p] # <<>>
  /\ IF IsNew(p, Head(todo[p]))
     THEN Keep(p, Noted(Head(todo[p])))
     ELSE todo' = [todo EXCEPT ![p] = Tail(@)] /\ UNCHANGED out
  /\ UNCHANGED <<disk, file, pc, tool, skip, level, known, work, hist>>

\* "a" puts the text after whatever is there: a line that a killed writer
\* left without its newline swallows the first row.
Appended(f, rows) ==
  {f \o rows} \cup
  (IF f # <<>> /\ f[Len(f)] = Torn /\ rows # <<>> THEN {f \o Tail(rows)} ELSE {})

\* promote publishes each row as it goes, opening runs.jsonl anew each time.
PromoteRow(p) ==
  /\ pc[p] = "rows" /\ tool[p] = "promote" /\ todo[p] # <<>>
  /\ LET row == Promoted(Head(todo[p]), vendorFs, openFs)
     IN  /\ SchemaValid(row)
         /\ \E f \in Appended(file["slug"], <<row>>) :
              /\ file' = [file EXCEPT !["slug"] = f]
              /\ published' = published \cup {row.run}
  /\ todo' = [todo EXCEPT ![p] = Tail(@)]
  /\ UNCHANGED <<disk, pc, tool, skip, level, known, out, work, compared, promoted, clean>>

\* A row that breaks the schema ends it; the rows before are published.
PromoteDies(p) ==
  /\ pc[p] = "rows" /\ tool[p] = "promote" /\ todo[p] # <<>>
  /\ ~SchemaValid(Promoted(Head(todo[p]), vendorFs, openFs))
  /\ Die(p)

\* What comparing the run's two bitstreams gives now.  A bitstream that is
\* not there raises.
Comparable(r) == r \in vendorFs /\ openFs[r] # 0
Compared(r)   == truth[r][openFs[r]].found

Recorded(r) == compared' = [compared EXCEPT ![r] = @ \cup {Compared(r)}]

Built(row) == row.verdict \notin {"aborted", "refused"}

RecompareKeeps(p) ==
  /\ pc[p] = "rows" /\ tool[p] = "recompare" /\ todo[p] # <<>>
  /\ ~Built(Head(todo[p]))
  /\ Keep(p, Head(todo[p]))
  /\ UNCHANGED <<disk, file, pc, tool, skip, level, known, work, hist>>

\* The row keeps everything that it says of the build it is of.
RecompareRow(p) ==
  LET row == Head(todo[p])
      now == Compared(row.run)
  IN  /\ pc[p] = "rows" /\ tool[p] = "recompare" /\ todo[p] # <<>>
      /\ Built(row) /\ Comparable(row.run)
      /\ Keep(p, [row EXCEPT !.verdict = Verdict(now), !.level = level[p], !.found = now])
      /\ Recorded(row.run)
      /\ UNCHANGED <<disk, file, pc, tool, skip, level, known, work, published, promoted, clean>>

RecompareDies(p) ==
  /\ pc[p] = "rows" /\ tool[p] = "recompare" /\ todo[p] # <<>>
  /\ Built(Head(todo[p])) /\ ~Comparable(Head(todo[p]).run)
  /\ Die(p)

VendorOnDisk(row) == row.vendor /\ row.run \in vendorFs

\* redo without the vendor's half: the row stays, or the whole tool stops.
RedoSkips(p) ==
  /\ pc[p] = "rows" /\ tool[p] = "redo" /\ todo[p] # <<>>
  /\ ~VendorOnDisk(Head(todo[p])) /\ skip[p]
  /\ Keep(p, Head(todo[p]))
  /\ UNCHANGED <<disk, file, pc, tool, skip, level, known, work, hist>>

RedoStops(p) ==
  /\ pc[p] = "rows" /\ tool[p] = "redo" /\ todo[p] # <<>>
  /\ ~VendorOnDisk(Head(todo[p])) /\ ~skip[p]
  /\ Die(p)

\* Mutant of LevelOf: the row's own level is not the default.
LevelGiven(p, row) == level[p]

LevelOf(p, row) == IF level[p] = "own" THEN row.level ELSE level[p]

\* The row of a build that has no verdict of its own yet.
Rebuilt(p, row) ==
  [row EXCEPT !.verdict = "aborted", !.build = toolchain, !.level = LevelOf(p, row)]

\* redo builds the open half with the installed toolchain.
RedoBuilds(p) ==
  LET row == Head(todo[p])
  IN  /\ pc[p] = "rows" /\ tool[p] = "redo" /\ todo[p] # <<>>
      /\ VendorOnDisk(row)
      /\ truth[row.run][toolchain].ends = "compared"
      /\ openFs' = [openFs EXCEPT ![row.run] = toolchain]
      /\ todo' = [todo EXCEPT ![p] = <<[Rebuilt(p, row) EXCEPT !.bits = toolchain]>> \o Tail(@)]
      /\ Goto(p, "compare")
      /\ UNCHANGED <<batch, truth, toolchain, vendorFs, file, tool, skip, level, known, out,
                     work, hist>>

\* A build that fails leaves the earlier bitstream where it is, and the row
\* its old comparison.
RedoBuildFails(p) ==
  LET row == Head(todo[p])
      ends == truth[row.run][toolchain].ends
  IN  /\ pc[p] = "rows" /\ tool[p] = "redo" /\ todo[p] # <<>>
      /\ VendorOnDisk(row)
      /\ ends # "compared"
      /\ Keep(p, [Rebuilt(p, row) EXCEPT !.bits = 0, !.note = "text",
                                         !.verdict = IF ends = "refuses" THEN "refused" ELSE @])
      /\ UNCHANGED <<disk, file, pc, tool, skip, level, known, work, hist>>

RedoCompares(p) ==
  LET row == Head(todo[p])
      now == Compared(row.run)
  IN  /\ pc[p] = "compare" /\ Comparable(row.run)
      /\ Keep(p, [row EXCEPT !.verdict = Verdict(now), !.found = now])
      /\ Recorded(row.run)
      /\ Goto(p, "rows")
      /\ UNCHANGED <<disk, file, tool, skip, level, known, work, published, promoted, clean>>

RedoDies(p) ==
  /\ pc[p] = "compare" /\ ~Comparable(Head(todo[p]).run)
  /\ Die(p)

RowsDone(p) ==
  /\ pc[p] = "rows" /\ todo[p] = <<>>
  /\ IF tool[p] = "promote"
     THEN End(p)
     ELSE /\ Goto(p, "write")
          /\ UNCHANGED <<tool, skip, level, known, todo, out>>
  /\ UNCHANGED <<disk, file, work, hist>>

-----------------------------------------------------------------------------
(* Writing. *)

\* merge: one append of all its rows.
MergeWrites(p) ==
  /\ pc[p] = "write" /\ tool[p] = "merge"
  /\ \E f \in Appended(file["slug"], out[p]) : file' = [file EXCEPT !["slug"] = f]
  /\ published' = published \cup RunsIn(out[p])
  /\ End(p)
  /\ UNCHANGED <<disk, work, compared, promoted, clean>>

\* The other tools only report unless they are given --write.
Report(p) ==
  /\ pc[p] = "write" /\ tool[p] # "merge"
  /\ End(p)
  /\ UNCHANGED <<disk, file, work, hist>>

\* open(path, "w").
Truncate(p) ==
  /\ pc[p] = "write" /\ tool[p] # "merge"
  /\ file' = [file EXCEPT ![Target(tool[p])] = <<>>]
  /\ Goto(p, "flush")
  /\ UNCHANGED <<disk, tool, skip, level, known, todo, out, work, hist>>

\* The text goes to offset 0, over whatever was written since: lines beyond
\* its length survive, the first of them perhaps in part.
Overlaid(rows, f) ==
  IF rows = <<>> THEN {f}
  ELSE {rows} \cup
       {rows \o SubSeq(f, k, Len(f)) : k \in 2..Len(f)} \cup
       {rows \o <<Torn>> \o SubSeq(f, k + 1, Len(f)) : k \in 1..Len(f)}

Flush(p) ==
  /\ pc[p] = "flush"
  /\ \E f \in Overlaid(out[p], file[Target(tool[p])]) :
       file' = [file EXCEPT ![Target(tool[p])] = f]
  /\ published' = IF Target(tool[p]) = "slug" THEN published \cup RunsIn(out[p]) ELSE published
  /\ End(p)
  /\ UNCHANGED <<disk, work, compared, promoted, clean>>

\* A killed tool leaves a file it was writing with some first part of the
\* rows, and perhaps of a line.
Prefixes(rows) == {SubSeq(rows, 1, k) : k \in 0..Len(rows)}
Cut(rows) == Prefixes(rows) \cup {Append(s, Torn) : s \in Prefixes(rows) \ {rows}}

LeftBy(p) ==
  LET f == file[Target(tool[p])]
  IN  CASE pc[p] = "flush" -> UNION {Overlaid(w, f) : w \in Cut(out[p])}
        [] pc[p] = "write" /\ tool[p] = "merge" -> UNION {Appended(f, w) : w \in Cut(out[p])}
        [] pc[p] = "rows" /\ tool[p] = "promote" -> {f, Append(f, Torn)}
        [] OTHER -> {f}

Kill(p) ==
  /\ pc[p] # "idle"
  /\ \E f \in LeftBy(p) : file' = [file EXCEPT ![Target(tool[p])] = f]
  /\ End(p)
  /\ clean' = FALSE
  /\ UNCHANGED <<disk, work, compared, published, promoted>>

-----------------------------------------------------------------------------
(* The rest of the datastore. *)

InstallToolchain ==
  /\ toolchain < NBuilds
  /\ toolchain' = toolchain + 1
  /\ UNCHANGED <<batch, truth, vendorFs, openFs, file, procs, work, hist>>

\* The design directories are deleted when the disk is full.
DeleteVendor(r) ==
  /\ r \in vendorFs
  /\ vendorFs' = vendorFs \ {r}
  /\ UNCHANGED <<batch, truth, toolchain, openFs, file, procs, work, hist>>

DeleteOpen(r) ==
  /\ openFs[r] # 0
  /\ openFs' = [openFs EXCEPT ![r] = 0]
  /\ UNCHANGED <<batch, truth, toolchain, vendorFs, file, procs, work, hist>>

-----------------------------------------------------------------------------
Step(p) ==
  \/ \E t \in Tools : Start(p, t)
  \/ ReadFails(p) \/ ReadIds(p) \/ ReadRows(p) \/ ReadAndRederive(p)
  \/ MergeRow(p) \/ PromoteRow(p) \/ PromoteDies(p)
  \/ RecompareKeeps(p) \/ RecompareRow(p) \/ RecompareDies(p)
  \/ RedoSkips(p) \/ RedoStops(p)
  \/ RedoBuilds(p) \/ RedoBuildFails(p) \/ RedoCompares(p) \/ RedoDies(p)
  \/ RowsDone(p)
  \/ MergeWrites(p) \/ Report(p) \/ Truncate(p) \/ Flush(p)
  \/ Kill(p)

Next ==
  \/ \E p \in Procs : Step(p)
  \/ InstallToolchain
  \/ \E r \in Runs : DeleteVendor(r) \/ DeleteOpen(r)

Spec == Init /\ [][Next]_vars

-----------------------------------------------------------------------------
(* Properties. *)

Lines == Row \cup {Torn}

TypeOK ==
  /\ batch \subseteq Runs
  /\ truth \in [Runs -> [Builds -> Outcomes]]
  /\ toolchain \in Builds
  /\ vendorFs \subseteq Runs
  /\ openFs \in [Runs -> 0..NBuilds]
  /\ file \in [Files -> Seq(Lines)]
  /\ pc \in [Procs -> {"idle", "readIds", "read", "rows", "compare", "write", "flush"}]
  /\ tool \in [Procs -> Tools \cup {"none"}]
  /\ skip \in [Procs -> BOOLEAN]
  /\ level \in [Procs -> Levels \cup {"own"}]
  /\ known \in [Procs -> SUBSET Runs]
  /\ todo \in [Procs -> Seq(Row)]
  /\ out \in [Procs -> Seq(Row)]
  /\ work \in Nat
  /\ compared \in [Runs -> SUBSET Measure]
  /\ published \subseteq Runs
  /\ promoted \in BOOLEAN
  /\ clean \in BOOLEAN

RowsOf(f) == RangeOf(file[f]) \ {Torn}
Slug == RowsOf("slug")

Judged(r) == r.verdict \in {"ok", "diff"}

\* The row says of its comparison what the comparison gave, though it may not
\* know of over-emission and may have its residual in another form.
SameTerms(m, found) ==
  /\ found.sets = m.sets
  /\ found.decode = m.decode
  /\ (found.residual = "none") <=> (m.residual = "none")
  /\ found.over \in {m.over, "unmeasured"}

Measured(r) == Judged(r) => \E m \in compared[r.run] : SameTerms(m, r.found)

\* An ok or a diff is the result of a comparison that was made: no order of
\* the tools, no failed rebuild and no killed writer turns a row that stopped
\* at its build into a verdict on two bitstreams.
VerdictsAreMeasured == \A f \in Files : \A r \in RowsOf(f) : Measured(r)

\* check_evidence accepts a row's artefact hashes only while they name what is
\* on disk.  So a published verdict it admits, on a row that names its
\* bitstream, is the one that bitstream gets: never that of another build,
\* whatever was rebuilt, compared, deleted or overwritten in between.
AdmittedIsOfItsBitstream ==
  \A r \in Slug :
    Judged(r) /\ r.bits # 0 /\ Admissible(r, vendorFs, openFs)
      => SameTerms(truth[r.run][r.bits].found, r.found)

EvidencePasses ==
  /\ file["slug"] # <<>>
  /\ Torn \notin RangeOf(file["slug"])
  /\ \A r \in Slug : Admissible(r, vendorFs, openFs)

CriteriaPass(declared) == \E r \in Slug : Satisfies(r, declared)

\* A primitive that both checkers let close was measured: one of its rows had
\* clean sets and a matching decode in a comparison that was made, or, where
\* it is declared refused, the open flow did refuse it.
DoneIsEarned ==
  \A declared \in Declared :
    EvidencePasses /\ CriteriaPass(declared) =>
      \E r \in Slug :
        \/ \E m \in compared[r.run] : ~m.sets /\ m.decode = "ok"
        \/ declared = "refused" /\ \E b \in Builds : truth[r.run][b].ends = "refuses"

Quiet == clean /\ \A p \in Procs : pc[p] = "idle"

\* Tools that run one after the other and to their end lose no run: the batch
\* keeps all of its rows, and what was published stays published, though two
\* of them rewrite a whole file from what they read of another.
NothingLost == Quiet => RunsIn(file["batch"]) = batch /\ published \subseteq RunsIn(file["slug"])

\* merge skips a run id that is there already, so without a promotion no run
\* is in the slug twice, however often the batch is merged or recompared.
MergedOnce ==
  Quiet /\ ~promoted =>
    \A i, j \in 1..Len(file["slug"]) :
      file["slug"][i].run = file["slug"][j].run => i = j
=============================================================================
