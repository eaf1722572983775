---------------------------- MODULE EvidenceRow ----------------------------
(***************************************************************************)
(* What one line of an evidence file says, and what the tools of the       *)
(* repository make of it: the verdict tools/rederive_verdicts.py reads off *)
(* it, the row evidence/clkdiv/promote_rows.py publishes for it, whether   *)
(* tools/check_evidence.py admits it and whether it satisfies              *)
(* tools/check_criteria.py.                                                *)
(*                                                                         *)
(* A row keeps the terms its verdict turns on and the two artefacts that   *)
(* tie it to the disk.  Builds of the open flow are numbered in the order  *)
(* their toolchains are installed; 0 stands for "no bitstream".            *)
(***************************************************************************)
EXTENDS Naturals

CONSTANTS
  Runs,     \* the run ids of a batch
  NBuilds   \* how many toolchains the open flow is built with

ASSUME NBuildsAssumption == NBuilds \in Nat \ {0}

Builds   == 1..NBuilds
Verdicts == {"ok", "diff", "aborted", "refused"}
Levels   == {"E0", "E1", "E2"}

(***************************************************************************)
(* A comparison of the two bitstreams: does a cell, attribute or           *)
(* connection differ (sets), which form has the residual                   *)
(* (unexplained_bits: none, a bare or a justified list, or the older       *)
(* {tile: count} summary), what is known of over-emission                  *)
(* (fuses_over_emitted, a field that rows may lack) and the decode check.  *)
(***************************************************************************)
Measure == [sets     : BOOLEAN,
            residual : {"none", "bare", "listed", "summary"},
            over     : {"unmeasured", "none", "some"},
            decode   : {"ok", "mismatch", "na"}]

NoMeasure == [sets |-> FALSE, residual |-> "none", over |-> "unmeasured",
              decode |-> "na"]

Row == [run     : Runs,
        build   : Builds,           \* the toolchain the row names
        bits    : 0..NBuilds,       \* the bitstream its open_fs entry names
        vendor  : BOOLEAN,          \* it has a vendor_fs entry
        verdict : Verdicts,
        level   : Levels,
        found   : Measure,
        note    : {"none", "text", "measurement"}]

-----------------------------------------------------------------------------
(* The verdicts. *)

\* What the harness's comparison concludes today.
Verdict(m) ==
  IF m.sets \/ m.residual # "none" \/ m.over = "some" \/ m.decode = "mismatch"
  THEN "diff" ELSE "ok"

Noted(r) == [r EXCEPT !.note = IF @ = "none" THEN "text" ELSE @]

\* Only a list is a residual this tool can judge: a summary counts as none.
Contradicted(m) ==
  m.sets \/ m.residual \in {"bare", "listed"} \/ m.over = "some" \/ m.decode = "mismatch"

\* Mutant of Rederived: a row that stopped at its build is judged as well.
RederivedUnguarded(r) == [r EXCEPT !.verdict = IF Contradicted(r.found) THEN "diff" ELSE "ok"]

Rederived(r) ==
  IF r.verdict = "ok" /\ Contradicted(r.found)
  THEN Noted([r EXCEPT !.verdict = "diff"])
  ELSE r

-----------------------------------------------------------------------------
(* Publication. *)

\* justify: whatever the residual's form, every entry gets a reason.
Justified(m) == [m EXCEPT !.residual = IF @ = "none" THEN "none" ELSE "listed"]

\* Only the schema's required fields are kept, and over-emission is not one.
RequiredFields(m) == [m EXCEPT !.over = "unmeasured"]

\* vendorFs are the runs whose vendor bitstream is on disk, openFs gives the
\* build whose bitstream is.  An entry whose file is gone is dropped, and noted.
Promoted(r, vendorFs, openFs) ==
  LET noVendor == r.vendor /\ r.run \notin vendorFs
      noBits   == r.bits # 0 /\ openFs[r.run] = 0
      row      == [r EXCEPT !.found  = RequiredFields(Justified(@)),
                            !.vendor = @ /\ ~noVendor,
                            !.bits   = IF noBits THEN 0 ELSE @]
  IN  IF noVendor \/ noBits THEN Noted(row) ELSE row

-----------------------------------------------------------------------------
(* check_evidence. *)

\* validate_row: an E0 row carries a note.
SchemaValid(r) == r.level = "E0" => r.note # "none"

VerdictFits(r) ==
  /\ r.verdict = "ok" => ~r.found.sets
  /\ r.verdict = "diff" =>
       r.found.sets \/ r.found.residual # "none" \/ r.found.decode # "ok"

\* Mutant of ArtefactsResolve: the file is looked for, its hash is not compared.
ArtefactsExist(r, vendorFs, openFs) ==
  (r.vendor => r.run \in vendorFs) /\ (r.bits # 0 => openFs[r.run] # 0)

\* A path that does not resolve, or whose hash is another file's, is a finding.
ArtefactsResolve(r, vendorFs, openFs) ==
  /\ r.vendor => r.run \in vendorFs
  /\ r.bits # 0 => openFs[r.run] = r.bits

Admissible(r, vendorFs, openFs) ==
  /\ SchemaValid(r)
  /\ VerdictFits(r)
  /\ r.found.residual \in {"none", "listed"}
  /\ ArtefactsResolve(r, vendorFs, openFs)

-----------------------------------------------------------------------------
(* check_criteria, with clause (d) deferred as it is before phase 7. *)

Declared == {"none", "refused"} \cup Levels

LevelRank == [E0 |-> 0, E1 |-> 1, E2 |-> 2]

LevelsAtOrAbove(l) == {k \in Levels : LevelRank[k] >= LevelRank[l]}

\* Mutant of DecodeOk: any check that ran is good enough.
DecodeRan(r) == r.found.decode # "na" \/ r.note = "measurement"

\* "n/a" on both checks counts only where the row says why.
DecodeOk(r) ==
  \/ r.found.decode = "ok"
  \/ r.found.decode = "na" /\ r.note = "measurement"

\* One row of the slug satisfies a primitive declared at `declared`.
Satisfies(r, declared) ==
  \/ /\ r.verdict = "refused"
     /\ declared = "refused"
     /\ r.note # "none"
  \/ /\ r.verdict = "ok"
     /\ declared \in Levels => r.level \in LevelsAtOrAbove(declared)
     /\ r.level = "E0" => r.note # "none"
     /\ DecodeOk(r)
=============================================================================
