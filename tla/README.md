# Verification of the gw5ast-138c open toolchain's gate and evidence tooling

This directory models the part of the repository that decides whether the
project's own results can be trusted: the detached landing gate with its
watchdog and reader, the tools that turn measured runs into published evidence
and check it, and those that derive tables from vendor data and hold the
packer's fuses and timing against the vendor's.  The modules are TLA+,
model-checked with TLC on small instances and proved with TLAPS for every value
of their constants.

Contents: [inventory](#inventory), [modules](#modules), [runs](#runs),
[bounds](#bounds), [fairness](#fairness), [proofs](#proofs),
[findings](#findings), [limits](#limits), [plan](#plan).

## Inventory

The repository is the bookkeeping side of a reverse-engineering project.  The
fuzz harness, the place-and-route tools and the vendor IDE are other
repositories; what is here is the gate that guards a landing, the evidence tree
and the scripts around it.

### Landing gate (`.githooks/pre-push`, `Makefile`, `tools/gate_watchdog.sh`)

- *State*: four files per marker id under `evidence/_gates`
  (`<id>.result`, `.pid`, `.log`, `.watchdog.log`) and the process table.
  An id is `<repo>-<ref>-<sha of HEAD>`.
- *Operations*: the hook looks at the pushed refs, removes and truncates the
  files of the id, and spawns a shell around `make gate GATE_SCOPE=branch` and
  a watchdog, both detached.  The shell writes its pid, runs make, writes
  PASS or FAIL and appends `BATCH_COMPLETE`.  The watchdog polls for the pid,
  then watches pid and log until it can write one terminal line.
- *Interaction*: only through those files and `kill -0`.
- *Hard behaviour*: two pushes of one HEAD share an id and its files; any
  process may be killed between two file operations; `echo X > f` is an open
  and a later write; pids are reused; the disk may not be writable; `stat`
  differs between systems.
- *Correct when*: a verdict on disk was earned by the checks that make ran; it
  is final; `BATCH_COMPLETE` follows it; the watchdog says COMPLETE and DEAD of
  what happened only, once, and always says something; every gate that is not
  killed is judged.

### Gate status reader (`tools/gate_status.py`)

- *State*: none of its own; the dict that one scan builds.
- *Operations*: three directory listings (results, pidfiles, logs), one `open`
  per file, then only the newest marker of a repository counts.
- *Hard behaviour*: it races hooks and gates without a lock; order is by file
  time; a pid it knows may be reused or not yet written.
- *Correct when*: PASS and FAIL lines are earned, a settled directory is
  reported exactly, a red newest marker and a silent gate turn the exit code, and
  a scan dies of a missing result only where two pushes share an id.

### Evidence store (`evidence/clkdiv/promote_rows.py`, `evidence/plla/merge_sweep_rows.py`, `evidence/oddr-iddr/recompare_rows.py`, `tools/redo_open_half.py`, `tools/rederive_verdicts.py`)

- *State*: a batch file (`evidence/_runs/<batch>.rows.jsonl`), the slug's
  `runs.jsonl`, and the datastore with the vendor's and the open flow's
  bitstreams.
- *Operations*: promote publishes rows one append at a time; merge appends the
  runs that the slug lacks; recompare writes the slug anew from the batch and
  the bitstreams on disk; redo rebuilds the open half and rewrites the batch
  file; rederive reads verdicts off the fields and rewrites either file.
- *Hard behaviour*: each is a script started by hand; nothing locks the files;
  a rewrite is `open(path, "w")` followed by a write at some later moment; a
  killed tool leaves half a file or half a line; a bitstream may be rebuilt or
  deleted between a build and its comparison, or after publication.
- *Correct when*: a verdict in either file is that of a comparison that was
  made; what is admitted is of the bitstream the row names; nothing is lost or
  published twice by tools that run one after the other.

### Evidence checker and exit criteria (`tools/check_evidence.py`, `tools/check_criteria.py`)

- *State*: none that lasts; they read the primitive table, the evidence tree, the
  artefacts, the mask and the phase report, one after the other, and exit 0 or 1.
- *Operations*: schema, verdict, mask, residual and artefact checks per row;
  blank and pending primitives; a sweep over every `runs.jsonl`; DONE-STD per
  primitive; every REACHED criterion backed by rows; the AE350 facts.
- *Hard behaviour*: the gate runs them detached, so the tree changes under
  them: a file is read twice, a line is half written, artefacts are deleted,
  rows are loaded before the report that they are to back; what one accepts the
  other may not see (a malformed line, a row of another slug); vacuous passes.
- *Correct when*: a pass says something of every row that was there, and still
  does at the end of the run; a green gate rests on admissible rows.

### Timing comparison (`tools/check_timing_l0.py`)

- *State*: none that lasts; the SDF of one grade, or the timing tables of all.
- *Operations*: band mode pairs each arc with what nextpnr installs, and
  compares, lists or skips it; inventory mode takes group after group of the
  tables and asks for a ratio between grades.
- *Hard behaviour*: the policy for an arc without a model depends on the class,
  but the mode takes several classes; a delay may be 0; names are normalised; a
  ratio may have nothing to stand on.
- *Correct when*: no arc that deviates escapes, an arc without a model is listed
  (or, of a zero-delay class, held against 0 ns), and a required group has a delay
  in some grade, whichever, with a ratio between the grades somewhere.

### AE350 tables (`tools/derive_ae350_wire_map.py`, `derive_ae350_pip_roles.py`, `derive_ae350_portmap_reconciled.py`, `tools/check_criteria.py --ae350`)

- *State*: three artefacts; beside them the vendor's `.dat`, two bitstreams, and
  a chipdb that another program builds.
- *Operations*: each tool derives its artefact, or with `--check` compares it;
  `--ae350` asks four facts of a chipdb and two documents.
- *Hard behaviour*: the third artefact joins the other two with the chipdb, each
  as old as it happens to be; a write that is cut short leaves half a text;
  which record binds a clock or a reset is decided by the class of its wire.
- *Correct when*: what passes `--check` binds each bit to one record, a settled
  bit is one the vendor's routing uses in its direction, and nothing but the
  fuseless hops drives the core clock.

### Fuse tools (`tools/rediff_dualpin.py`, `tools/repack_open_fs.py`, `tools/derive_iob_safety_138c.py`, `tools/derive_pin_hclk_138c.py`, `evidence/oddr-iddr/audit_oddr_iddr_attrs.py`)

- *State*: a record per dual-purpose pin and their collection, a repacked
  bitstream per stored run, the safety report, the pin table, the audit's
  bitstreams and its three files.
- *Operations*: the re-diff recomputes the packer's half of each record; the
  repack rebuilds the open bitstreams, which the safety report decodes beside
  the vendor's; the audit finds primitives by their balls in the pin table.
- *Hard behaviour*: a packer changes between two tools and while one runs; a run
  dies between two files; a pack that fails leaves the old file; a B half has
  its fuses in another tile; a smaller set of fuses decodes to another value.
- *Correct when*: after a run that ended well every file is the present
  packer's, a clean report means what it says of the fuses, and the audit looks
  at the cell that the primitive is in.

### Fuse attribution and anchors (`tools/attribute_*.py`, `tools/anchor_adc_tables_138c.py`, `tools/derive_iologic_ttyps_138c.py`, `tools/derive_ae350_band_bits.py`)

Set differences of vendor tables or bitstreams, run once.

### Probes, preflight, helpers (`evidence/*/run_probe.py`, `probe_*.py`, `tools/p3_preflight.py`, `tools/paths.py`)

Sequential scripts: one vendor run or one environment check after the other.

## Modules

| module | models | stands on |
| --- | --- | --- |
| `LandingGate` | hook, gate shell with make, watchdog, machine | |
| `GateContract` | what a detached gate promises, without files | |
| `LandingGateImpl` | that the former implements the latter | `LandingGate`, `GateContract` |
| `GateStatus` | one scan racing `LandingGate` | `LandingGate` |
| `EvidenceRow` | a row and what each tool and checker makes of it | |
| `EvidenceStore` | five tools over two files and a datastore | `EvidenceRow` |
| `EvidenceTree` | what the checkers read and who writes to it meanwhile | `EvidenceRow` |
| `CheckEvidence`, `CheckCriteria` | one checker each, step by step | `EvidenceTree` |
| `BranchChecks` | make's last two checks, or either by hand, over a changing tree | `CheckEvidence`, `CheckCriteria` |
| `TimingL0` | both modes of the timing comparison, arc by arc | |
| `AE350WireMap`, `AE350PortMap`, `AE350Checks` | the derivations of the AE350 tables and the four facts, as operators | each on the one before |
| `DerivedTables` | the tools on them, their artefacts and what changes outside | `AE350Checks` |
| `PinHclk`, `IobSafety`, `DdrAudit` | the pin table, the decode of IO sites, the audit's matching and deltas, as operators | |
| `FuseTools` | these tools, the re-diff and the repack over their files | `PinHclk`, `IobSafety`, `DdrAudit` |
| `LandingGateProofs`, `LandingGateImplProofs`, `GateStatusProofs`, `EvidenceStoreProofs`, `BranchChecksProofs`, `TimingL0Proofs`, `FuseToolsProofs`, `DerivedTablesProofs` | theorems | the module they name |
| `MC*` | instances for TLC | the module they name |

### LandingGate

A push `p` stands for one invocation of the hook, the gate it spawns, that
gate's pid and the watchdog armed for it; `hookPc`, `gatePc` and `wdPc` say
where each is in its script.  One action is one file operation or system call:
`RemoveResult` and `RemovePidfile` are the two unlinks of one `rm -f`;
`OpenResult` and `WriteResult` the two halves of `echo PASS > file`; a file has
the name of the gate that created its inode, so that a writer whose file was
unlinked writes into nothing.  `RunCheck` runs the next of the Makefile's
checks, which passes or not; make's exit code picks the verdict.  `Watch` is
one turn of the watchdog's loop, where a GNU `stat` ends the shell.  The
environment kills gates and watchdogs (`KillGate`, `KillWatchdog`), gives a
dead gate's pid away (`ReusePid`, `FreePid`) and lets time pass (`Tick`).

`GateContract` has, per push, a run (`none`, `running`, `finished`, `lost`, with
at most one verdict) and a report.  `LandingGateImpl` reads both off the files
and the process table and states `KeepsContractFairly == Contract!FairSpec`
for pushes with ids of their own: no step of a script takes back a verdict,
finishes before it or reports what did not happen, and under the scripts'
fairness each gate gets as far as the contract says.

### GateStatus

`StartScan`, `ListPidfiles` and `ListLogs` are the three globs, `ReadResult`,
`ReadPidfileOf` and `ReadLog` one file each, `Judge` the pure rest
(`_mark_superseded`, exit code).  A result that is gone by the time it is opened
is an uncaught exception.  `redBefore` and `overBefore` are history.

### EvidenceRow

A row keeps the terms a verdict turns on (set differences, residual and its
form, over-emission, decode check), the level, whether and how it is noted, the
toolchain and the bitstream it names.  `Rederived`, `Promoted`, `VerdictFits`,
`Admissible` and `Satisfies` are pure functions of rows, translated from the
tools; `Verdict` is the harness's, as the tools rely on it.

### EvidenceStore

`Procs` tools run at once.  A tool starts with its options (`Start`), reads a
file (`ReadIds`, `ReadRows`, `ReadAndRederive`; a line that is not JSON raises,
`ReadFails`), treats one row per step and writes: `PromoteRow` and `MergeWrites`
append, the others `Truncate` and later `Flush`, or only report without
`--write`.  A row that breaks the schema ends promote with the rows before it
published (`PromoteDies`).  Python buffers a small file to its close, so the text of two writers
may lie on one another (`Overlaid`), an append may meet half a line (`Appended`)
and a kill leaves some first part (`LeftBy`).  `truth` says for each run and
toolchain how the build ends and what the comparison gives; `compared` records
what comparisons were made.  `InstallToolchain`, `DeleteVendor` and `DeleteOpen`
are the datastore's own changes.

### EvidenceTree, CheckEvidence, CheckCriteria, BranchChecks

`EvidenceTree` has the table, per slug a `runs.jsonl` of lines, the criteria its
markdown claims, the phase reports, the mask and the artefacts on disk.  A line
has a form: what the schema makes of it.  A row that lacks a decode check or a
diff count is bookkeeping for `check_evidence.py`, which asks less of it;
`check_criteria.py` accepts a refusal of any kind, and an ok row unless it is the
decode check that is missing (`SatisfiedBy`).  `BeginAppend` and `EndAppend` are the
two halves of an append, with a torn line in between that `KillWriter` leaves
for good.  `Grow` has the writes that add to the tree or delete artefacts,
`Revise` those that take back what a reader may have seen: a rewrite, an edit of
the table, another mask.

`CheckEvidence` follows `check`: `StartEvidence` reads table and mask, then each
primitive in scope is `Pending`, `Unreadable` (a torn line, or no row of it) or
has its rows read (`ReadRows`) and judged one by one (`JudgeRow`, with the
artefacts on disk at that moment); `Discover` and `SweepFile` are
`check_runs_files`.  `CheckCriteria` follows `main`: `StartCriteria` reads the
table and lists the directories, `LoadSlug` loads one file, `Resolve` selects,
`EvaluateRow` asks of one table row whether some evidence row satisfies it,
`ReadReport` and `ReadClaims` are `check_phase_report`, which counts the rows
loaded before.  Both keep the tree they started from (`eStart`, `cStart`) and
whether it has only grown since (`eGrown`, `cGrown`) as history, for the
properties alone.

`BranchChecks` runs the second after a pass of the first (`MakeEvidence`,
`MakeCriteria`, `MakeEnds`), or either with options of its own.  Each property
has preconditions, and each of those is needed: without "the tree has only
grown" a rewrite between two readings defeats every check; without "has rows of
its own, or has none now" the first own row of a slug takes away the rows of
other slugs that satisfied its primitive.

### TimingL0

`StartBand` and `StartInventory` are the two modes with their options.  In band
mode `SkipArc`, `ListArc` and `CompareArc` treat one arc of the SDF each, by
`InClass`, `ZeroModelled` and `OutOfBand`; in inventory mode `TakeGroup` treats
one group; `EndBand` and `EndInventory` are the report and the exit code.
Delays are integers, a deviation is compared by multiplication.  An arc of
exactly 10% goes either way, since the code compares floats.

### AE350 tables

`WireMap` is `derive` over the two tables of a `.dat`: `InputSlots` and
`OutputSlot` pick the records, `Tap` and `Reason` say what one binds.  `Fixture`
and `PortMap` are the two other `build`s.  In `DerivedTables` a tool's main is
one step whose write may be torn (`Written`), a `--check` that passes puts the
tool into `checked`, and every change of an input or of a file takes it out
again.  `ChipdbOf` is how apycula binds a port to a tap, as the port map reads
it; a chipdb built from another `.dat` and one with a wrong clock hop are both
there.  The wire map's own derivation says nothing of direction; `Evidence`
does, which is why `SettledIsRouted` needs both checks.

### Fuse tools

A bitmap maps each tile that is not blank to its set of fuses.  `Parsed` is
apicula's `parse_attrvals` as the report uses it: of the values whose fuses are
all set, the one with most of them.  `RediffStart`, `RediffPoint`, `RediffEnd`
are the loop of `rediff --write`, file by file, and `RediffDies` its end at any
point, possibly in the middle of a file; the packer may change between two
points since the chipdb is loaded for each.  `Repack` treats the runs up to
where it is killed; `DeriveSafety` writes one report or, when a lookup raises,
none; `Audit` runs any of the two designs through the vendor tool or takes the
bitstream that is there.  `done` holds the tools whose last run succeeded with
nothing changed since; the properties speak of those.

## Runs

| run | question | result |
| --- | --- | --- |
| `gate_shared` | two pushes share the marker files: are verdicts earned, terminal lines single, DEAD pids gone? | yes |
| `gate_distinct` | pushes with own ids, scheduled fairly: does each step keep `GateContract`, is a verdict final? | yes |
| `gate_faults` | one fair push with kills, pid reuse and a bad disk: types, is the watchdog truthful, is every gate judged, does every watchdog conclude? | yes, where `stat` is BSD's |
| `gate_gnu` | does every watchdog conclude with GNU's `stat`? | no |
| `status_race` | one scan racing two gates of one HEAD or of a fork: what is reported, when does it die of a missing result? | earned, seen, exact when settled; dies only of a shared id |
| `status_order` | one scan while time passes: are the newest red and the silent gate reported? | yes |
| `store_tools` | two evidence tools at once, with rebuilds, deletions and kills; is a run lost or published twice where none overlap? | verdicts measured, admitted rows of their bitstream; no |
| `branch_checks` | what do a pass of either checker, their quiet verdict, their numbers and a green gate say of a tree that others write to? | as the properties state |
| `timing` | what do an exit 0 and the counts of either mode say of the arcs and groups? | as the properties state |
| `timing_union` | does `--classes all` fail on a PLL arc with a delay? | no |
| `derived_tables` | what do passed `--check`s say of three artefacts that are derived at different times, and four facts of the chipdb's clock hop? | as the properties state |
| `fuse_tools` | what do runs that ended well say of their files while the packer and the IDE change? | as the properties state |

A property that holds says something only where a plausible bug would break it:
next to the definitions stand their mutants (`BranchOfPipe`, `LogStatusUnread`,
`RederivedUnguarded`, ...), at least one for each property, under each of which TLC
finds the property violated in the same run.  No other definition uses them.

## Bounds

- *Pushes*: two.  A hazard of the gate is between one gate and its reader, or
  between two that share an id; a third adds no kind of file conflict.  Two is
  also enough for a newer and an older marker.
- *Checks*: three, the Makefile's, where one push is checked; one where two are,
  since a check only decides between PASS and FAIL.
- *PidPolls*: 2 or 1 in place of 20: "saw it", "gave up" and "gave up between
  two looks" all happen.  *StallTicks* 0 or 1, *MaxTime* up to 3: log ages on
  both sides of the limit.
- *Runs* of a batch: one with three tools in all, two with two (`MaxWork` counts
  a start as often as the batch has runs).  Three starts reach redo, kill,
  recompare, publish in every order.  Rows are rebuilt at their own level or at
  E0, which the schema refuses without a note, so that a promotion may end at one.
- *NBuilds*: two toolchains, so that a row may name an earlier build.
- *Batches*: outcomes that tell the tools apart: a decode mismatch that a new
  toolchain repairs, a refusal that becomes a failed build beside it; a build that
  fails, or is refused, after a comparison; a residue after a refusal.
- *Trees*: two slugs, two primitives (so that a primitive has rows in its own
  slug, in another, in both), one run's artefacts, one phase and one criterion.
  Every kind of line occurs in trees nobody writes to; those that matter under
  writes in trees with one write; a first row in a slug, a torn line and one
  after it in trees with two (`StillTrees`, `WrittenTrees`, `TwiceWritten`;
  `writes` counts down).  A hazard of a checker lies between two of its own
  readings, so one write, or one and its end, already falls between any two.
- *Arcs and groups*: SDFs of up to two arcs and tables of two grades; the modes
  treat one at a time and only the counts and the exit code join them.
- *AE350 block*: five input bits (two clocks, a reset, a bus) and seven output
  bits, so that head, input run, gap and tail of the output map all occur; five
  `.dat`s, of which two are not resolvable; nine clock hops.  Two changes:
  another `.dat` and the chipdb built from it.
- *Fuse tools*: three runs, which is a derivation, its check and a use, or a
  repack with each of two packers and a report; one change; four packers and
  five installs, two of them not derivable; two designs; two options, a refused
  one and a composite.
- *Symmetry*: pushes of equal requests and processes are interchangeable; used
  only where safety alone is checked.

The proofs remove all of these bounds for the properties they state.

## Fairness

`LandingGate!Fairness` is weak fairness of each spawned script: the operating
system keeps scheduling a process that can run, and pytest and the two checkers
terminate.  Nothing is assumed of new pushes, kills, pid reuse or time.  The
evidence tools and the derivations are started by hand, and each checker is a
loop over a finite list: only the gate's modules state fairness and liveness.
`CHECK_DEADLOCK` is off in runs that end: a settled gate, a finished checker, or
the bound on tool runs.

## Proofs

Every invariant and every action property that a passing run checks is also a
theorem, for every value of the constants that the assumptions allow; liveness is
TLC's alone.  The proofs are one module per component.

`LandingGateProofs`, from the assumptions on names, bounds, refs, requests and
environment only:

- `TypeInv` strengthens `TypeOK` with how far the gate's script got
  (`GateProgress`: no verdict before make ended, fewer checks than there are
  while it runs), that the watchdog's `break` leaves a poll (`PollsLeft`) and
  what the hook has spawned by each step (`HookOrder`).
- `ResultsAreEarned` adds that a verdict once chosen is never changed and that
  whatever stands in a result file has an author of that id.
- `SoleInv`: the four files of a gate with an id of its own are touched by
  nobody else (`Private` lists what they hold at each point of the scripts).
  `MarkersFollowResults`, `WatchdogsAreTruthful` and `VerdictsAreFinal` follow.
- `WatchInv`: a watched pid belongs to a gate that was started; a watchdog
  that is still at work has written no terminal line.
  `TerminalLinesAreSingle` and `DeadPidsAreGone` hold for shared ids as well.

`LandingGateImplProofs` is the refinement, step by step: `ScriptsKeepTheContract`
says that with an id of its own for each push every step of hook, gate, make and
watchdog is one of `GateContract`'s or a stutter, under the mapping of
`LandingGateImpl`.  `SoleInv` then speaks of every push that spawns
(`DistinctIds`), and `ShapeInv` gives the mapped run and report at each point of
the scripts; `StartsAt`, `PublishesAt`, `FinishesAt`, `LosesAt`, `ReportsAt` and
`RestsAt` are what a step can be at the push that takes it.  The run checks the
contract with its fairness (`KeepsContractFairly`), which is beyond the prover.

`GateStatusProofs` proves all six invariants of the reader beside any number of
gates, over `GateInv`, what is proved of the scripts alone.  Each argument
follows one fact from the start of the scan through its three listings: a red
verdict stays and is read before the pidfiles are (`RedInv`); a gate that died
without a result is not listed, then known by its pid, then DEAD (`DeadInv`, with
`DiskInv`: no log is ever removed and only pids that may be reused are); a verdict on
disk is read before the logs are and kept when they are (`VerdictInv`); a silent
gate keeps the log time that makes it late (`SilentInv`); and if nothing runs,
what the scan has collected so far is what is on disk (`SnapInv`).  A result that
goes away was a started gate's (`ResultIsStarted`) and was taken by a hook whose own
gate is not started, hence by a second push of the id (`MissingIsShared`).

`EvidenceStoreProofs` proves, for every finite set of runs, batch, number of
tools and toolchains, `TypeCorrect`, `VerdictsMeasured`, `AdmittedCorrect` and
`DoneCorrect`.  The inductive invariant is about rows wherever they are, on disk
or in a tool's memory.  A *good* row has a verdict that some comparison gave;
and if it names a bitstream, that verdict is the bitstream's, or the
bitstream is not on disk and never will be again, because the installed toolchain is
a later one.  The second half is what makes the invariant inductive: recompare
does give a row the verdict of another build, but only when the named bitstream
was overwritten by a later build, so `check_evidence`'s hash comparison rejects
it from then on.  Kills and overlapping writes only mix good lines and torn ones.

`NoRunIsLost` and `MergesOnce` are about tools that do not overlap.  `ToolInv` says
which steps a tool takes at all; `CleanInv` that, as long as nothing has overlapped
or been killed, each file that is not just being rewritten is whole (the batch: all of its runs,
once each; the slug: what was published, once each without a promotion), and that what
the one tool at work has done and has still to do (`Held`) is, together, fit for the
file it writes.  The emptied file between `open(.., "w")` and the write is the
state the invariant has to except.

`BranchChecksProofs` proves all seven invariants of the checkers for every tree,
table, command line and number of writes.

- `GrowKeeps` is the reason why they hold: a tree that grows keeps its whole
  lines, its table and its mask, and an artefact stays or goes but is never
  another.  `FirstIsLeast` says that the position a loop takes next is one.
- `EInv`: while the tree has only grown, the rows of the start are among those
  of now (`EKept`); as long as there is no finding, each primitive that was
  walked is vouched for, and each start row of the one at hand is admitted or
  among the rows still to be judged (`WalkedVouched`, `HandVouched`).  The
  property speaks of the end alone, so the loop's progress has to be part of the
  invariant.
- `CInv`: the rows that were loaded lie between those of the start and those of
  now, slug by slug, and each selected table row is unmet, still to be evaluated
  or satisfied by a loaded row.
- `GInv`: the second check starts from a tree that has kept the table and the
  rows of the first (`Handover`); with the two it gives `GreenIsAdmitted`.

- `NInv`: the criteria of the report are on exactly one of three lists once it was
  read, and the verdict is what the lists and the unmet primitives say; with
  finitely many criteria the two numbers agree (`CountsAreTheVerdict`).
- `RInv`: claims and rows that were read are still there in a tree that only grew
  (`ReachedCriteriaAreBacked`).
- `QInv`: in a tree that is still, the findings are empty exactly as long as what
  has been walked, judged and swept is held to the docstring, so that an exit 0
  is equivalent to it at the end (`QuietEvidenceExact`).

`TimingL0Proofs` proves the three properties for any SDF and any timing
tables.  `BandInv` says where each arc that the loop has passed is, that
an unmapped one has no model and that a compared one that is no exception agrees
with its model; `InventoryInv` that a required group without a delay is among the
failures; `RunInv` that one command line runs at a time.  `JobsAssumption`: an SDF
is a list of arcs with finitely many integer delays.

`FuseToolsProofs` proves the four properties for any designs, packers, installs,
points and number of runs.

- `SafetyInv`: a report marked current was made from the files of its name, and a
  repack that passed left every run's present fuses.  `CleanReportsAreSafe` is then
  a fact about `Violations` alone.
- `DualInv`: the records never lose the vendor's fuses, and while the packer stays
  the same the re-diff that runs has brought every point below its place up to
  date.  A kill ends `job`, so nothing is claimed of what it leaves.
- `AuditInv`: each delta in the file was found in a step's bitstream over the pin
  table that is there.  That it is of the primitive it names needs that each
  primitive is on a ball of its own, each ball in one row and each cell on one of
  the plan's balls (`PlanAssumption`, `InstallsAssumption`): the audit names them by
  ball, and the device's pin lists have them so.

`DerivedTablesProofs` proves the four properties of the AE350 tables.

- `Rank` and `InOrder` write the tools' in-order lists without recursion.
  `RankFacts` says that ranks count from 1 without gap or repetition (an injection
  of a finite set into one of its size is onto), `PoolFacts` and `InputSlotsFacts`
  that popping the pools is one to one, `OutputSlotFacts` that no output has an
  input's slot.  `WireMapIsOneToOne` puts them together for every `.dat`.
- `BoundResolves`: what apycula binds a port to, the router resolves to the tap it
  was made from; directly in the anchor cell, through alias and node elsewhere.
  It needs that aliases differ and are no wires (`AliasAssumption`) and that the
  clock hop's nodes are none of the block's (`StartsAssumption`).
- `CurInv`: what passed `--check` has the text that the present inputs give, every
  chipdb was built from a `.dat` that resolves, and the four facts are of this
  chipdb.  Each property is then one of the lemmas about the derivations.
- `CoreClkIsAlwaysFixed` counts: as many pips as sites and an alias of its own for
  each site leave no pip that is not a site's.

The assumptions are named where the constants are declared, and TLC evaluates
each of them: the bit inventory lists a bit once and the reset and clock ports are
one bit wide (`InventoryAssumption`, as `port-inventory.json` has them), lists are
lists (`ListsAssumption`, `DatsAssumption`), criteria and PLL sites are finitely
many (`CriteriaAssumption`, `SitesAssumption`), a packer makes a file of each design
(`PackersAssumption`; what it fails on is its `fails`).

Left to TLC, since the provers cannot state or find them: `EveryGateIsJudged`,
`WatchdogsConclude` and the fairness in `KeepsContractFairly`, which are liveness;
and the two runs that expect a violation.

## Findings

- `tools/gate_watchdog.sh:29`: with GNU `stat` the watchdog dies at its first
  look at a running gate and writes no terminal line (`gate_gnu`).
- `tools/check_timing_l0.py:386`: under `--classes all` a PLL arc with a delay is
  listed as unmapped and the run passes, though the module promises to fail
  loudly (`timing_union`).

Seen while modelling, and without a run of their own: a gate that finishes between
two listings of `tools/gate_status.py` is reported DEAD although its result is on
disk, until the next scan (line 109); with an evidence directory
that cannot be written the hook ends with an error and git refuses the push it
promises never to block (`.githooks/pre-push:69`); a diff whose only term is
over-emission is rejected though it names its term
(`tools/check_evidence.py:577`); an id of `--rows` that is in no table is passed
over (`tools/check_criteria.py:779`); the reconciliation's covered count is to
agree with the tables' own, but is only held below it
(`tools/check_criteria.py:719`); `rediff_dualpin.py` exits 0 also while a point
carries a diff, which its main says it does not (lines 117 and 125), and
truncates the only copy of a vendor measurement before it writes it back (line
106); the IOB report passes over a value that is no safety attribute's although
the open flow set a fuse of its own for it (`derive_iob_safety_138c.py:272`), and
ends with a KeyError where the open flow leaves a tile blank (line 340); an audit
without deltas leaves an earlier `fuse-delta.json` beside its new records
(`audit_oddr_iddr_attrs.py:542`); `evidence/clkdiv/promote_rows.py:140` drops a measured
`fuses_over_emitted`; a primitive closes on another slug's rows while its own
directory is empty, so clause (e) of DONE-STD never fails
(`tools/check_criteria.py:265`); and the docstring of `check_criteria.py` still
calls a scoped 0/0 an exit 0 (line 51), which the code makes a failure.

## Limits

- *Gate status*: `OverIsReported` needs the pid on disk of a gate that left no result, and
  `FailureIsReported` that the scan found no newer marker of the repository: a gate killed before its pid is written is RUNNING until its log is old,
  and an older gate that finishes late hides a newer red one.
- *Landing gate*: one read of the result with its modification time is atomic;
  each poll may meet either `stat` when `GnuStat` has both; a killed shell's
  make is not followed further (its output could still reach the log); commits
  are not modelled, an id names HEAD.
- *Evidence store*: one batch and one slug; writes are cut at rows, with one
  torn line for whatever part of a row was written; the mask and clause (d) are
  constant; sweep expansion, labels and notes' wording are left out, and so are
  `--prune`, an `open_fs` that is a string, and merge's exit at an unknown point.
  Toolchains only get newer: `AdmittedIsOfItsBitstream` rests on it.
- *The checkers*: a file is read in one step; lines that are JSON but no object
  (at which both end with an exception), pruned artefacts, nested `runs.jsonl`
  files, markdown cells and the report's wording are left out.  The whole-tree checks of `BranchChecks` are one of make's three
  checks each; `LandingGate` has their exit codes only.
- *Timing comparison*: minima, medians and the emission gaps that are only
  printed are left out.
- *Derivations*: hashes, notes and layout of the artefacts are left out; a file
  is read in one step; two runs of one tool do not overlap.  The vendor tool, the
  chipdb's builder and the packer are parameters or external definitions.
- *Not modelled*: the harness and the vendor tools (other repositories; what
  these scripts expect of them is an external definition), probes, generators
  and preflight (sequential I/O without state of their own), fuse attribution
  and anchors (one-off set differences).

## Plan

1. `LandingGate`, `GateContract`, `LandingGateImpl`, `GateStatus`: modelled, and all
   that is safety proved.
2. `EvidenceRow`, `EvidenceStore`: modelled and proved.  Left: an abstract store
   (the set of published runs with their measured verdicts) that tools without
   overlap implement, from `CleanInv`.
3. `EvidenceTree`, `CheckEvidence`, `CheckCriteria`, `BranchChecks`: modelled and
   proved.
4. `TimingL0`: modelled and proved.
5. The AE350 tables and the fuse tools: modelled and proved.  Left: action
   properties of the tools' files (who may rewrite what) from the same invariants.
6. Composition of 2 and 3: a phase that closes on rows a tool is rewriting.
