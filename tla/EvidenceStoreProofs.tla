------------------------ MODULE EvidenceStoreProofs ------------------------
(***************************************************************************)
(* That the published verdicts are measured, and of the bitstream that     *)
(* their rows name, for every batch, any number of tools and toolchains.   *)
(***************************************************************************)
EXTENDS EvidenceStore, SequenceTheorems, FiniteSetTheorems, TLAPS

-----------------------------------------------------------------------------
(* The inductive invariant. *)

\* What is true of every row in a file or in a tool's memory.  A verdict is of
\* the bitstream the row names, or that bitstream is not on disk and cannot
\* come back: the installed toolchain is a later one.
Good(r) ==
  /\ Measured(r)
  /\ r.verdict = "refused" => \E b \in Builds : truth[r.run][b].ends = "refuses"
  /\ r.note # "measurement"
  /\ r.bits # 0 =>
       /\ r.bits <= toolchain
       /\ openFs[r.run] = 0 \/ openFs[r.run] >= r.bits
       /\ Judged(r) => \/ SameTerms(truth[r.run][r.bits].found, r.found)
                       \/ r.bits < toolchain /\ openFs[r.run] # r.bits

GoodRows == {r \in Row : Good(r)}
GoodLines == GoodRows \cup {Torn}

RowInv ==
  /\ file \in [Files -> Seq(GoodLines)]
  /\ todo \in [Procs -> Seq(GoodRows)]
  /\ out \in [Procs -> Seq(GoodRows)]

DiskInv ==
  /\ batch \subseteq Runs
  /\ truth \in [Runs -> [Builds -> Outcomes]]
  /\ toolchain \in Builds
  /\ vendorFs \subseteq Runs
  /\ openFs \in [Runs -> 0..NBuilds]
  /\ \A r \in Runs : openFs[r] <= toolchain

ProcInv ==
  /\ pc \in [Procs -> {"idle", "readIds", "read", "rows", "compare", "write", "flush"}]
  /\ tool \in [Procs -> Tools \cup {"none"}]
  /\ skip \in [Procs -> BOOLEAN]
  /\ level \in [Procs -> Levels \cup {"own"}]
  /\ known \in [Procs -> SUBSET Runs]
  /\ \A p \in Procs : tool[p] = "recompare" => level[p] \in Levels
  /\ \A p \in Procs : pc[p] = "compare" => todo[p] # <<>>

HistInv ==
  /\ work \in Nat
  /\ compared \in [Runs -> SUBSET Measure]
  /\ published \subseteq Runs
  /\ promoted \in BOOLEAN
  /\ clean \in BOOLEAN

Inv == DiskInv /\ ProcInv /\ HistInv /\ RowInv

-----------------------------------------------------------------------------
(* Sequences. *)

\* A function to sequences stays one, over a larger set, when one is replaced.
LEMMA Replaced ==
  ASSUME NEW P, NEW S, NEW T, S \subseteq T, NEW f \in [P -> Seq(S)],
         NEW p, NEW x \in Seq(T)
  PROVE  [f EXCEPT ![p] = x] \in [P -> Seq(T)]
  BY SeqMonotonic

\* It stays one over a larger set when nothing is replaced.
LEMMA Widened ==
  ASSUME NEW P, NEW S, NEW T, S \subseteq T, NEW f \in [P -> Seq(S)]
  PROVE  f \in [P -> Seq(T)]
  BY SeqMonotonic

\* What is left of a sequence from some line on is a sequence of its lines.
LEMMA Suffix ==
  ASSUME NEW S, NEW s \in Seq(S), NEW k \in Nat, k >= 1
  PROVE  SubSeq(s, k, Len(s)) \in Seq(S)
<1>1. \A i \in k..Len(s) : s[i] \in S
  BY ElementOfSeq, LenProperties
<1>2. QED
  BY <1>1, SubSeqProperties, LenProperties

\* The first lines of a sequence are a sequence of its lines.
LEMMA Prefix ==
  ASSUME NEW S, NEW s \in Seq(S), NEW k \in 0..Len(s)
  PROVE  SubSeq(s, 1, k) \in Seq(S)
<1>1. \A i \in 1..k : s[i] \in S
  BY ElementOfSeq, LenProperties
<1>2. QED
  BY <1>1, SubSeqProperties, LenProperties

\* Appending lines to a file leaves a file of such lines.
LEMMA AppendedLines ==
  ASSUME NEW S, NEW f \in Seq(S), NEW rows \in Seq(S), NEW g \in Appended(f, rows)
  PROVE  g \in Seq(S)
<1>1. f \o rows \in Seq(S)
  BY ConcatProperties
<1>2. rows # <<>> => f \o Tail(rows) \in Seq(S)
  BY ConcatProperties, HeadTailProperties
<1>3. QED
  BY <1>1, <1>2 DEF Appended

\* Writing over a file leaves a file of lines of the two, some perhaps cut.
LEMMA OverlaidLines ==
  ASSUME NEW S, Torn \in S, NEW f \in Seq(S), NEW rows \in Seq(S), NEW g \in Overlaid(rows, f)
  PROVE  g \in Seq(S)
<1>1. <<Torn>> \in Seq(S)
  OBVIOUS
<1>2. \A k \in 1..Len(f) : SubSeq(f, k, Len(f)) \in Seq(S) /\ SubSeq(f, k + 1, Len(f)) \in Seq(S)
  BY Suffix, LenProperties
<1>3. \A k \in 2..Len(f) : rows \o SubSeq(f, k, Len(f)) \in Seq(S)
  BY <1>2, ConcatProperties, LenProperties
<1>4. \A k \in 1..Len(f) : rows \o <<Torn>> \o SubSeq(f, k + 1, Len(f)) \in Seq(S)
  <2> TAKE k \in 1..Len(f)
  <2>1. rows \o <<Torn>> \in Seq(S)
    BY <1>1, ConcatProperties
  <2>2. QED
    BY <2>1, <1>2, ConcatProperties
<1>5. QED
  BY <1>3, <1>4 DEF Overlaid

\* What a killed writer got to write of its rows.
LEMMA CutLines ==
  ASSUME NEW S, Torn \in S, NEW rows \in Seq(S), NEW w \in Cut(rows)
  PROVE  w \in Seq(S)
<1>1. \A s \in Prefixes(rows) : s \in Seq(S)
  BY Prefix DEF Prefixes
<1>2. \A s \in Prefixes(rows) : Append(s, Torn) \in Seq(S)
  BY <1>1, AppendProperties
<1>3. QED
  BY <1>1, <1>2 DEF Cut

-----------------------------------------------------------------------------
(* Rows. *)

\* A good row stays good while the outcomes are what they are, comparisons are
\* added, toolchains get later and a bitstream is deleted or made anew.
LEMMA GoodStays ==
  ASSUME DiskInv, HistInv, truth' = truth, toolchain' \in Nat, toolchain' >= toolchain,
         \A r \in Runs : compared[r] \subseteq compared'[r],
         \A r \in Runs : openFs'[r] \in {openFs[r], 0, toolchain}
  PROVE  GoodRows \subseteq GoodRows'
<1> SUFFICES ASSUME NEW r \in Row, Good(r) PROVE Good(r)'
  BY DEF GoodRows
<1>1. r.run \in Runs /\ r.bits \in Nat
  BY NBuildsAssumption DEF Row
<1>2. toolchain \in Nat /\ openFs[r.run] \in Nat
  BY <1>1, NBuildsAssumption DEF DiskInv, Builds
<1>3. Measured(r)'
  BY <1>1 DEF Good, Measured
<1>4. ASSUME r.bits # 0
      PROVE  /\ r.bits <= toolchain'
             /\ openFs'[r.run] = 0 \/ openFs'[r.run] >= r.bits
             /\ Judged(r) => \/ SameTerms(truth'[r.run][r.bits].found, r.found)
                             \/ r.bits < toolchain' /\ openFs'[r.run] # r.bits
  <2>1. /\ r.bits <= toolchain
        /\ openFs[r.run] = 0 \/ openFs[r.run] >= r.bits
        /\ Judged(r) => \/ SameTerms(truth[r.run][r.bits].found, r.found)
                        \/ r.bits < toolchain /\ openFs[r.run] # r.bits
    BY <1>4 DEF Good
  <2>2. openFs'[r.run] \in {openFs[r.run], 0, toolchain}
    BY <1>1
  <2>3. r.bits <= toolchain' /\ (openFs'[r.run] = 0 \/ openFs'[r.run] >= r.bits)
    BY <1>1, <1>2, <2>1, <2>2
  <2>4. r.bits < toolchain /\ openFs[r.run] # r.bits
          => r.bits < toolchain' /\ openFs'[r.run] # r.bits
    BY <1>1, <1>2, <1>4, <2>2
  <2>5. QED
    BY <2>1, <2>3, <2>4
<1>5. QED
  BY <1>3, <1>4 DEF Good

\* Where neither the disk nor the comparisons change, nor does what is good.
LEMMA GoodKept ==
  ASSUME UNCHANGED <<truth, toolchain, openFs, compared>>
  PROVE  GoodRows' = GoodRows
BY DEF GoodRows, Good, Measured

\* A promoted row is as good as the row that it is made of.
LEMMA PromotedIsGood ==
  ASSUME NEW r \in GoodRows
  PROVE  Promoted(r, vendorFs, openFs) \in GoodRows /\ Promoted(r, vendorFs, openFs).run \in Runs
<1> DEFINE q == Promoted(r, vendorFs, openFs)
<1>1. r \in Row /\ Good(r)
  BY DEF GoodRows
<1>2. /\ r.run \in Runs /\ r.found \in Measure /\ r.bits \in 0..NBuilds
      /\ r.note \in {"none", "text", "measurement"} /\ r.vendor \in BOOLEAN
  BY <1>1 DEF Row
<1>3. /\ q \in Row
      /\ q.run = r.run /\ q.verdict = r.verdict
      /\ q.found = RequiredFields(Justified(r.found))
      /\ q.bits \in {0, r.bits} /\ q.note \in {r.note, "text"}
  <2>1. RequiredFields(Justified(r.found)) \in Measure
    BY <1>2 DEF RequiredFields, Justified, Measure
  <2>2. 0 \in 0..NBuilds
    BY NBuildsAssumption
  <2>3. QED
    BY <1>1, <1>2, <2>1, <2>2 DEF Promoted, Noted, Row
<1>4. \A m : SameTerms(m, r.found) => SameTerms(m, q.found)
  BY <1>2, <1>3 DEF SameTerms, RequiredFields, Justified, Measure
<1>5. Good(q)
  BY <1>1, <1>3, <1>4 DEF Good, Measured, Judged
<1>6. QED
  BY <1>2, <1>3, <1>5 DEF GoodRows

\* Neither a note nor a verdict read off its own fields makes a row worse.
LEMMA NotedIsGood ==
  ASSUME NEW r \in GoodRows
  PROVE  Noted(r) \in GoodRows
<1>1. r \in Row /\ Good(r)
  BY DEF GoodRows
<1>2. /\ Noted(r) \in Row /\ Noted(r).run = r.run /\ Noted(r).verdict = r.verdict
      /\ Noted(r).found = r.found /\ Noted(r).bits = r.bits /\ Noted(r).note \in {r.note, "text"}
  BY <1>1 DEF Noted, Row
<1>3. Good(Noted(r))
  BY <1>1, <1>2 DEF Good, Measured, Judged
<1>4. QED
  BY <1>2, <1>3 DEF GoodRows

\* A diff in place of an ok is a verdict on the same comparison.
LEMMA RederivedIsGood ==
  ASSUME NEW r \in GoodRows
  PROVE  Rederived(r) \in GoodRows
<1>1. CASE r.verdict = "ok" /\ Contradicted(r.found)
  <2> DEFINE q == [r EXCEPT !.verdict = "diff"]
  <2>1. r \in Row /\ Good(r)
    BY DEF GoodRows
  <2>2. /\ q \in Row /\ q.run = r.run /\ q.verdict = "diff"
        /\ q.found = r.found /\ q.bits = r.bits /\ q.note = r.note
    BY <2>1 DEF Row, Verdicts
  <2>3. Good(q)
    BY <1>1, <2>1, <2>2 DEF Good, Measured, Judged
  <2>4. q \in GoodRows
    BY <2>2, <2>3 DEF GoodRows
  <2>5. Noted(q) \in GoodRows
    BY <2>4, NotedIsGood
  <2>6. QED
    BY <1>1, <2>5 DEF Rederived
<1>2. CASE ~(r.verdict = "ok" /\ Contradicted(r.found))
  BY <1>2 DEF Rederived
<1>3. QED
  BY <1>1, <1>2

\* Every row of a good sequence is good, the first and the rest too.
LEMMA HeadIsGood ==
  ASSUME NEW p \in Procs, RowInv, todo[p] # <<>>
  PROVE  /\ Head(todo[p]) \in GoodRows /\ Head(todo[p]) \in Row /\ Head(todo[p]).run \in Runs
         /\ Tail(todo[p]) \in Seq(GoodRows)
<1>1. todo[p] \in Seq(GoodRows)
  BY DEF RowInv
<1>2. Head(todo[p]) \in GoodRows /\ Tail(todo[p]) \in Seq(GoodRows)
  BY <1>1, HeadTailProperties
<1>3. QED
  BY <1>2 DEF GoodRows, Row

\* A row set to what comparing its bitstreams gives now is good once that
\* comparison counts, whichever build's bitstream it found.
LEMMA ComparedIsGood ==
  ASSUME DiskInv, HistInv, NEW r \in Row, Good(r), Comparable(r.run), Recorded(r.run),
         NEW l \in Levels, UNCHANGED <<truth, toolchain, openFs>>
  PROVE  [r EXCEPT !.verdict = Verdict(Compared(r.run)), !.level = l,
                   !.found = Compared(r.run)] \in GoodRows'
<1> DEFINE now == Compared(r.run)
<1> SUFFICES ASSUME NEW q, q = [r EXCEPT !.verdict = Verdict(now), !.level = l, !.found = now]
             PROVE  q \in GoodRows'
  OBVIOUS
<1>1. r.run \in Runs /\ r.bits \in 0..NBuilds
  BY DEF Row
<1>2. openFs[r.run] \in Builds /\ openFs[r.run] <= toolchain /\ toolchain \in Nat /\ r.bits \in Nat
  BY <1>1, NBuildsAssumption DEF DiskInv, Comparable, Builds
<1>3. now \in Measure
  <2>1. truth[r.run][openFs[r.run]] \in Outcomes
    BY <1>1, <1>2 DEF DiskInv
  <2>2. QED
    BY <2>1 DEF Compared, Outcomes
<1>4. /\ q \in Row /\ q.run = r.run /\ q.verdict \in {"ok", "diff"} /\ q.found = now
      /\ q.bits = r.bits /\ q.note = r.note
  BY <1>3 DEF Row, Verdict, Verdicts
<1>5. SameTerms(now, now)
  BY DEF SameTerms
<1>6. now \in compared'[r.run]
  BY <1>1 DEF Recorded, HistInv
<1>7. ASSUME q.bits # 0
      PROVE  /\ q.bits <= toolchain
             /\ openFs[q.run] = 0 \/ openFs[q.run] >= q.bits
             /\ \/ SameTerms(truth[q.run][q.bits].found, q.found)
                \/ q.bits < toolchain /\ openFs[q.run] # q.bits
  <2>1. r.bits <= toolchain /\ openFs[r.run] >= r.bits
    BY <1>2, <1>4, <1>7 DEF Good, Builds, Comparable
  <2>2. CASE openFs[r.run] = r.bits
    BY <1>4, <1>5, <2>1, <2>2 DEF Compared
  <2>3. CASE openFs[r.run] # r.bits
    BY <1>2, <1>4, <2>1, <2>3, NBuildsAssumption DEF Builds
  <2>4. QED
    BY <2>2, <2>3
<1>8. Good(q)'
  BY <1>4, <1>5, <1>6, <1>7 DEF Good, Measured, Judged
<1>9. QED
  BY <1>4, <1>8 DEF GoodRows

-----------------------------------------------------------------------------
(* Steps. *)

\* A step after which files and memories hold rows that were good before keeps
\* the invariant on rows, if good rows stay good.
LEMMA RowsCarried ==
  ASSUME GoodRows \subseteq GoodRows', file' \in [Files -> Seq(GoodLines)],
         todo' \in [Procs -> Seq(GoodRows)], out' \in [Procs -> Seq(GoodRows)]
  PROVE  RowInv'
<1>1. GoodLines \subseteq GoodLines'
  BY DEF GoodLines
<1>2. /\ file' \in [Files -> Seq(GoodLines')]
      /\ todo' \in [Procs -> Seq(GoodRows')]
      /\ out' \in [Procs -> Seq(GoodRows')]
  BY <1>1, Widened
<1>3. QED
  BY <1>2 DEF RowInv

\* A process that ends leaves the processes in order and holds no rows.
LEMMA EndKeeps ==
  ASSUME ProcInv, RowInv, NEW p \in Procs, End(p)
  PROVE  ProcInv' /\ todo' \in [Procs -> Seq(GoodRows)] /\ out' \in [Procs -> Seq(GoodRows)]
<1>1. <<>> \in Seq(GoodRows)
  OBVIOUS
<1>2. /\ pc' = [pc EXCEPT ![p] = "idle"] /\ tool' = [tool EXCEPT ![p] = "none"]
      /\ skip' = [skip EXCEPT ![p] = FALSE] /\ level' = [level EXCEPT ![p] = "own"]
      /\ known' = [known EXCEPT ![p] = {}]
      /\ todo' = [todo EXCEPT ![p] = <<>>] /\ out' = [out EXCEPT ![p] = <<>>]
  BY DEF End, Goto
<1>3. todo' \in [Procs -> Seq(GoodRows)] /\ out' \in [Procs -> Seq(GoodRows)]
  BY <1>1, <1>2 DEF RowInv
<1>4. \A q \in Procs : tool'[q] = "recompare" => level'[q] \in Levels
  BY <1>2 DEF ProcInv
<1>5. \A q \in Procs : pc'[q] = "compare" => todo'[q] # <<>>
  BY <1>2 DEF ProcInv, RowInv
<1>6. QED
  BY <1>2, <1>3, <1>4, <1>5 DEF ProcInv

\* A step that leaves the datastore and the comparisons alone.
LEMMA DiskKept ==
  ASSUME Inv, UNCHANGED disk, UNCHANGED compared
  PROVE  DiskInv' /\ GoodRows' = GoodRows
<1>1. DiskInv'
  BY DEF Inv, DiskInv, disk
<1>2. QED
  BY <1>1, GoodKept DEF disk

\* A tool that dies writes nothing.
LEMMA DieKeeps ==
  ASSUME Inv, NEW p \in Procs, Die(p)
  PROVE  Inv'
<1>1. DiskInv' /\ GoodRows' = GoodRows
  BY DiskKept DEF Die, hist
<1>2. ProcInv' /\ todo' \in [Procs -> Seq(GoodRows)] /\ out' \in [Procs -> Seq(GoodRows)]
  BY EndKeeps DEF Die, Inv
<1>3. RowInv'
  BY <1>1, <1>2, RowsCarried DEF Die, Inv, RowInv
<1>4. QED
  BY <1>1, <1>2, <1>3 DEF Inv, HistInv, Die, hist

\* A tool starts with options of its own kind: recompare always has a level.
LEMMA StartKeeps ==
  ASSUME Inv, NEW p \in Procs, NEW t \in Tools, Start(p, t)
  PROVE  Inv'
<1>1. DiskInv' /\ GoodRows' = GoodRows
  BY DiskKept DEF Start
<1>2. RowInv'
  BY <1>1, RowsCarried DEF Start, Inv, RowInv
<1>3. PICK opt \in Options(t) : /\ skip' = [skip EXCEPT ![p] = opt[1]]
                               /\ level' = [level EXCEPT ![p] = opt[2]]
  BY DEF Start
<1>4. opt[1] \in BOOLEAN /\ opt[2] \in Levels \cup {"own"} /\ (t = "recompare" => opt[2] \in Levels)
  <2>1. CASE t = "redo"
    BY <2>1, LevelsAssumption DEF Options
  <2>2. CASE t = "recompare"
    BY <2>2, LevelsAssumption DEF Options
  <2>3. CASE t \notin {"redo", "recompare"}
    <3>1. Options(t) = {<<FALSE, "own">>}
      BY <2>3 DEF Options
    <3>2. opt = <<FALSE, "own">>
      BY <3>1
    <3>3. QED
      BY <2>3, <3>2
  <2>4. QED
    BY <2>1, <2>2, <2>3
<1>5. /\ pc' = [pc EXCEPT ![p] = IF t = "merge" THEN "readIds" ELSE "read"]
      /\ tool' = [tool EXCEPT ![p] = t] /\ UNCHANGED <<known, todo>>
  BY DEF Start, Goto
<1>6. ProcInv'
  <2>1. \A q \in Procs : tool'[q] = "recompare" => level'[q] \in Levels
    BY <1>3, <1>4, <1>5 DEF Inv, ProcInv
  <2>2. \A q \in Procs : pc'[q] = "compare" => todo'[q] # <<>>
    BY <1>5 DEF Inv, ProcInv
  <2>3. QED
    BY <1>3, <1>4, <1>5, <2>1, <2>2 DEF Inv, ProcInv
<1>7. Cardinality(batch) \in Nat
  BY RunsAssumption, FS_Subset, FS_CardinalityType DEF Inv, DiskInv
<1>8. HistInv'
  BY <1>7 DEF Inv, HistInv, Start
<1>9. QED
  BY <1>1, <1>2, <1>6, <1>8 DEF Inv

\* The ids that merge reads are run ids.
LEMMA ReadIdsKeeps ==
  ASSUME Inv, NEW p \in Procs, ReadIds(p)
  PROVE  Inv'
<1>1. DiskInv' /\ GoodRows' = GoodRows
  BY DiskKept DEF ReadIds, hist
<1>2. RowInv'
  BY <1>1, RowsCarried DEF ReadIds, Inv, RowInv
<1>3. RunsIn(file["slug"]) \subseteq Runs
  <2>1. file["slug"] \in Seq(GoodLines)
    BY DEF Inv, RowInv, Files
  <2>2. \A i \in 1..Len(file["slug"]) : file["slug"][i] \in GoodLines
    BY <2>1, ElementOfSeq
  <2>3. QED
    BY <2>2 DEF RunsIn, RangeOf, GoodLines, GoodRows, Row
<1>4. ProcInv'
  BY <1>3 DEF ReadIds, Goto, Inv, ProcInv
<1>5. QED
  BY <1>1, <1>2, <1>4 DEF Inv, HistInv, ReadIds, hist

\* A file that can be read has rows on all of its lines.
LEMMA ReadableRows ==
  ASSUME RowInv, NEW f \in Files, Readable(f)
  PROVE  file[f] \in Seq(GoodRows)
<1>1. file[f] \in Seq(GoodLines)
  BY DEF RowInv
<1>2. \A i \in 1..Len(file[f]) : file[f][i] \in GoodRows
  BY <1>1, ElementOfSeq DEF Readable, RangeOf, GoodLines
<1>3. Len(file[f]) \in Nat /\ file[f] = [i \in 1..Len(file[f]) |-> file[f][i]]
  BY <1>1, LenProperties
<1>4. QED
  BY <1>2, <1>3

\* The rows that a tool reads are as good as the file.
LEMMA ReadRowsKeeps ==
  ASSUME Inv, NEW p \in Procs, ReadRows(p)
  PROVE  Inv'
<1>1. DiskInv' /\ GoodRows' = GoodRows
  BY DiskKept DEF ReadRows, hist
<1>2. file["batch"] \in Seq(GoodRows)
  BY ReadableRows DEF ReadRows, Inv, Files
<1>3. todo' \in [Procs -> Seq(GoodRows)]
  BY <1>2, Replaced DEF ReadRows, Inv, RowInv
<1>4. RowInv'
  BY <1>1, <1>3, RowsCarried DEF ReadRows, Inv, RowInv
<1>5. \A q \in Procs : pc'[q] = "compare" => todo'[q] # <<>>
  BY DEF ReadRows, Goto, Inv, ProcInv, RowInv
<1>6. ProcInv'
  BY <1>5 DEF ReadRows, Goto, Inv, ProcInv
<1>7. QED
  BY <1>1, <1>4, <1>6 DEF Inv, HistInv, ReadRows, hist

\* rederive_verdicts.py makes good rows of good rows, or writes nothing.
LEMMA ReadAndRederiveKeeps ==
  ASSUME Inv, NEW p \in Procs, ReadAndRederive(p)
  PROVE  Inv'
<1> DEFINE rows == file[Source(tool[p])]
<1>1. DiskInv' /\ GoodRows' = GoodRows
  BY DiskKept DEF ReadAndRederive, hist
<1>2. CASE RederivedFile(rows) = rows
  <2>1. End(p) /\ UNCHANGED <<file, work, hist>>
    BY <1>2 DEF ReadAndRederive
  <2>2. ProcInv' /\ todo' \in [Procs -> Seq(GoodRows)] /\ out' \in [Procs -> Seq(GoodRows)]
    BY <2>1, EndKeeps DEF Inv
  <2>3. RowInv'
    BY <1>1, <2>1, <2>2, RowsCarried DEF Inv, RowInv
  <2>4. QED
    BY <1>1, <2>1, <2>2, <2>3 DEF Inv, HistInv, hist
<1>3. CASE RederivedFile(rows) # rows
  <2>1. /\ out' = [out EXCEPT ![p] = RederivedFile(rows)] /\ Goto(p, "write")
        /\ UNCHANGED <<tool, skip, level, known, todo, file, work, hist>>
    BY <1>3 DEF ReadAndRederive
  <2>2. rows \in Seq(GoodRows)
    BY ReadableRows DEF ReadAndRederive, Inv, Files, Source
  <2>3. RederivedFile(rows) \in Seq(GoodRows)
    <3>1. \A i \in 1..Len(rows) : Rederived(rows[i]) \in GoodRows
      BY <2>2, ElementOfSeq, RederivedIsGood
    <3>2. Len(rows) \in Nat
      BY <2>2, LenProperties
    <3>3. QED
      BY <3>1, <3>2 DEF RederivedFile
  <2>4. out' \in [Procs -> Seq(GoodRows)]
    BY <2>1, <2>3, Replaced DEF Inv, RowInv
  <2>5. RowInv'
    BY <1>1, <2>1, <2>4, RowsCarried DEF Inv, RowInv
  <2>6. ProcInv'
    BY <2>1 DEF Goto, Inv, ProcInv
  <2>7. QED
    BY <1>1, <2>1, <2>5, <2>6 DEF Inv, HistInv, hist
<1>4. QED
  BY <1>2, <1>3

\* One row goes from what is left to what will be written.
LEMMA KeepGood ==
  ASSUME RowInv, NEW p \in Procs, todo[p] # <<>>, NEW row \in GoodRows, Keep(p, row)
  PROVE  todo' \in [Procs -> Seq(GoodRows)] /\ out' \in [Procs -> Seq(GoodRows)]
<1>1. Append(out[p], row) \in Seq(GoodRows)
  BY AppendProperties DEF RowInv
<1>2. Tail(todo[p]) \in Seq(GoodRows)
  BY HeadIsGood
<1>3. QED
  BY <1>1, <1>2, Replaced DEF Keep, RowInv

\* The steps that take a row over as it is, or noted, or skip it.
LEMMA KeepSteps ==
  ASSUME Inv, NEW p \in Procs, RecompareKeeps(p) \/ RedoSkips(p) \/ MergeRow(p)
  PROVE  Inv'
<1> DEFINE row == Head(todo[p])
<1>1. /\ pc[p] = "rows" /\ todo[p] # <<>>
      /\ UNCHANGED <<disk, file, pc, tool, skip, level, known, work, hist>>
  BY DEF RecompareKeeps, RedoSkips, MergeRow
<1>2. DiskInv' /\ GoodRows' = GoodRows
  BY <1>1, DiskKept DEF hist
<1>3. row \in GoodRows /\ Noted(row) \in GoodRows /\ Tail(todo[p]) \in Seq(GoodRows)
  BY <1>1, HeadIsGood, NotedIsGood DEF Inv
<1>4. todo' \in [Procs -> Seq(GoodRows)] /\ out' \in [Procs -> Seq(GoodRows)]
  <2>1. CASE Keep(p, row)
    BY <1>1, <1>3, <2>1, KeepGood DEF Inv
  <2>2. CASE Keep(p, Noted(row))
    BY <1>1, <1>3, <2>2, KeepGood DEF Inv
  <2>3. CASE todo' = [todo EXCEPT ![p] = Tail(@)] /\ UNCHANGED out
    BY <1>3, <2>3, Replaced DEF Inv, RowInv
  <2>4. QED
    BY <2>1, <2>2, <2>3 DEF RecompareKeeps, RedoSkips, MergeRow
<1>5. RowInv'
  BY <1>1, <1>2, <1>4, RowsCarried DEF Inv, RowInv
<1>6. \A q \in Procs : pc'[q] = "compare" => todo'[q] # <<>>
  BY <1>1 DEF RecompareKeeps, RedoSkips, MergeRow, Keep, Inv, ProcInv, RowInv
<1>7. ProcInv'
  BY <1>1, <1>6 DEF Inv, ProcInv
<1>8. QED
  BY <1>1, <1>2, <1>5, <1>7 DEF Inv, HistInv, hist

\* promote_rows.py publishes a good row, whatever was deleted meanwhile.
LEMMA PromoteRowKeeps ==
  ASSUME Inv, NEW p \in Procs, PromoteRow(p)
  PROVE  Inv'
<1> DEFINE row == Promoted(Head(todo[p]), vendorFs, openFs)
<1>1. DiskInv' /\ GoodRows' = GoodRows
  BY DiskKept DEF PromoteRow
<1>2. Head(todo[p]) \in GoodRows /\ Tail(todo[p]) \in Seq(GoodRows)
  BY HeadIsGood DEF PromoteRow, Inv
<1>3. row \in GoodRows /\ row.run \in Runs
  BY <1>2, PromotedIsGood
<1>4. PICK f \in Appended(file["slug"], <<row>>) :
        file' = [file EXCEPT !["slug"] = f] /\ published' = published \cup {row.run}
  BY DEF PromoteRow
<1>5. f \in Seq(GoodLines)
  <2>1. <<row>> \in Seq(GoodLines)
    BY <1>3 DEF GoodLines
  <2>2. file["slug"] \in Seq(GoodLines)
    BY DEF Inv, RowInv, Files
  <2>3. QED
    BY <2>1, <2>2, AppendedLines
<1>6. file' \in [Files -> Seq(GoodLines)]
  BY <1>4, <1>5, Replaced DEF Inv, RowInv
<1>7. todo' \in [Procs -> Seq(GoodRows)]
  BY <1>2, Replaced DEF PromoteRow, Inv, RowInv
<1>8. RowInv'
  BY <1>1, <1>6, <1>7, RowsCarried DEF PromoteRow, Inv, RowInv
<1>9. \A q \in Procs : pc'[q] = "compare" => todo'[q] # <<>>
  BY DEF PromoteRow, Inv, ProcInv, RowInv
<1>10. ProcInv'
  BY <1>9 DEF PromoteRow, Inv, ProcInv
<1>11. HistInv'
  BY <1>3, <1>4 DEF PromoteRow, Inv, HistInv
<1>12. QED
  BY <1>1, <1>8, <1>10, <1>11 DEF Inv

\* A comparison is one more outcome that was seen.
LEMMA RecordedKeeps ==
  ASSUME DiskInv, HistInv, NEW r \in Runs, Comparable(r), Recorded(r)
  PROVE  /\ compared' \in [Runs -> SUBSET Measure]
         /\ \A q \in Runs : compared[q] \subseteq compared'[q]
<1>1. openFs[r] \in Builds
  BY NBuildsAssumption DEF DiskInv, Comparable, Builds
<1>2. truth[r][openFs[r]] \in Outcomes
  BY <1>1 DEF DiskInv
<1>3. Compared(r) \in Measure
  BY <1>2 DEF Compared, Outcomes
<1>4. QED
  BY <1>3 DEF Recorded, HistInv

\* Both tools that compare leave the datastore alone.
LEMMA CompareGrows ==
  ASSUME Inv, NEW r \in Runs, Comparable(r), Recorded(r), UNCHANGED disk
  PROVE  DiskInv' /\ GoodRows \subseteq GoodRows'
<1>1. DiskInv'
  BY DEF Inv, DiskInv, disk
<1>2. toolchain \in Nat
  BY NBuildsAssumption DEF Inv, DiskInv, Builds
<1>3. \A q \in Runs : compared[q] \subseteq compared'[q]
  BY RecordedKeeps DEF Inv
<1>4. QED
  BY <1>1, <1>2, <1>3, GoodStays DEF Inv, disk

\* recompare_rows.py gives a row the verdict on the bitstreams it finds.
LEMMA RecompareRowKeeps ==
  ASSUME Inv, NEW p \in Procs, RecompareRow(p)
  PROVE  Inv'
<1> DEFINE row == Head(todo[p])
           new == [row EXCEPT !.verdict = Verdict(Compared(row.run)), !.level = level[p],
                              !.found = Compared(row.run)]
<1>1. /\ pc[p] = "rows" /\ tool[p] = "recompare" /\ todo[p] # <<>> /\ Comparable(row.run)
      /\ Keep(p, new) /\ Recorded(row.run)
      /\ UNCHANGED <<disk, file, pc, tool, skip, level, known, work, published, promoted, clean>>
  BY DEF RecompareRow
<1>2. /\ row \in GoodRows /\ row \in Row /\ row.run \in Runs /\ Good(row)
      /\ Tail(todo[p]) \in Seq(GoodRows)
  BY <1>1, HeadIsGood DEF Inv, GoodRows
<1>3. DiskInv' /\ GoodRows \subseteq GoodRows'
  BY <1>1, <1>2, CompareGrows
<1>4. level[p] \in Levels
  BY <1>1 DEF Inv, ProcInv
<1>5. new \in GoodRows'
  BY <1>1, <1>2, <1>4, ComparedIsGood DEF Inv, disk
<1>6. out' \in [Procs -> Seq(GoodRows')]
  <2>1. out[p] \in Seq(GoodRows')
    BY <1>3, SeqMonotonic DEF Inv, RowInv
  <2>2. Append(out[p], new) \in Seq(GoodRows')
    BY <1>5, <2>1, AppendProperties
  <2>3. QED
    BY <1>1, <1>3, <2>2, Replaced DEF Keep, Inv, RowInv
<1>7. todo' \in [Procs -> Seq(GoodRows')]
  <2>1. Tail(todo[p]) \in Seq(GoodRows')
    BY <1>2, <1>3, SeqMonotonic
  <2>2. QED
    BY <1>1, <1>3, <2>1, Replaced DEF Keep, Inv, RowInv
<1>8. file' \in [Files -> Seq(GoodLines')]
  <2>1. GoodLines \subseteq GoodLines'
    BY <1>3 DEF GoodLines
  <2>2. QED
    BY <1>1, <2>1, Widened DEF Inv, RowInv
<1>9. \A q \in Procs : pc'[q] = "compare" => todo'[q] # <<>>
  BY <1>1 DEF Keep, Inv, ProcInv, RowInv
<1>10. ProcInv'
  BY <1>1, <1>9 DEF Inv, ProcInv
<1>11. HistInv'
  BY <1>1, <1>2, RecordedKeeps DEF Inv, HistInv
<1>12. QED
  BY <1>3, <1>6, <1>7, <1>8, <1>10, <1>11 DEF Inv, RowInv

\* So does redo_open_half.py after its build, whoever rebuilt since.
LEMMA RedoComparesKeeps ==
  ASSUME Inv, NEW p \in Procs, RedoCompares(p)
  PROVE  Inv'
<1> DEFINE row == Head(todo[p])
           new == [row EXCEPT !.verdict = Verdict(Compared(row.run)),
                              !.found = Compared(row.run)]
<1>1. /\ pc[p] = "compare" /\ Comparable(row.run)
      /\ Keep(p, new) /\ Recorded(row.run) /\ Goto(p, "rows")
      /\ UNCHANGED <<disk, file, tool, skip, level, known, work, published, promoted, clean>>
  BY DEF RedoCompares
<1>2. todo[p] # <<>>
  BY <1>1 DEF Inv, ProcInv
<1>3. /\ row \in GoodRows /\ row \in Row /\ row.run \in Runs /\ Good(row)
      /\ Tail(todo[p]) \in Seq(GoodRows)
  BY <1>2, HeadIsGood DEF Inv, GoodRows
<1>4. DiskInv' /\ GoodRows \subseteq GoodRows'
  BY <1>1, <1>3, CompareGrows
<1>5. new \in GoodRows'
  <2>1. row.level \in Levels
    BY <1>3 DEF Row
  <2>2. new = [row EXCEPT !.verdict = Verdict(Compared(row.run)), !.level = row.level,
                          !.found = Compared(row.run)]
    BY <1>3 DEF Row
  <2>3. QED
    BY <1>1, <1>3, <2>1, <2>2, ComparedIsGood DEF Inv, disk
<1>6. out' \in [Procs -> Seq(GoodRows')]
  <2>1. out[p] \in Seq(GoodRows')
    BY <1>4, SeqMonotonic DEF Inv, RowInv
  <2>2. Append(out[p], new) \in Seq(GoodRows')
    BY <1>5, <2>1, AppendProperties
  <2>3. QED
    BY <1>1, <1>4, <2>2, Replaced DEF Keep, Inv, RowInv
<1>7. todo' \in [Procs -> Seq(GoodRows')]
  <2>1. Tail(todo[p]) \in Seq(GoodRows')
    BY <1>3, <1>4, SeqMonotonic
  <2>2. QED
    BY <1>1, <1>4, <2>1, Replaced DEF Keep, Inv, RowInv
<1>8. file' \in [Files -> Seq(GoodLines')]
  <2>1. GoodLines \subseteq GoodLines'
    BY <1>4 DEF GoodLines
  <2>2. QED
    BY <1>1, <2>1, Widened DEF Inv, RowInv
<1>9. \A q \in Procs : pc'[q] = "compare" => todo'[q] # <<>>
  BY <1>1 DEF Keep, Goto, Inv, ProcInv, RowInv
<1>10. ProcInv'
  BY <1>1, <1>9 DEF Goto, Inv, ProcInv
<1>11. HistInv'
  BY <1>1, <1>3, RecordedKeeps DEF Inv, HistInv
<1>12. QED
  BY <1>4, <1>6, <1>7, <1>8, <1>10, <1>11 DEF Inv, RowInv

\* A level given on the command line or the row's own.
LEMMA LevelOfIsLevel ==
  ASSUME ProcInv, NEW p \in Procs, NEW r \in Row
  PROVE  LevelOf(p, r) \in Levels
BY DEF LevelOf, ProcInv, Row

\* A row of a new build claims nothing of the comparison yet, and names a
\* bitstream that only a later build can replace.
LEMMA RedoBuildsKeeps ==
  ASSUME Inv, NEW p \in Procs, RedoBuilds(p)
  PROVE  Inv'
<1> DEFINE row == Head(todo[p])
<1> SUFFICES ASSUME NEW new, new = [Rebuilt(p, row) EXCEPT !.bits = toolchain]
             PROVE  Inv'
  OBVIOUS
<1>1. /\ pc[p] = "rows" /\ todo[p] # <<>>
      /\ openFs' = [openFs EXCEPT ![row.run] = toolchain]
      /\ todo' = [todo EXCEPT ![p] = <<new>> \o Tail(@)]
      /\ pc' = [pc EXCEPT ![p] = "compare"]
      /\ UNCHANGED <<batch, truth, toolchain, vendorFs, file, tool, skip, level, known, out,
                     work, hist>>
  BY DEF RedoBuilds, Goto
<1>2. /\ row \in GoodRows /\ row \in Row /\ row.run \in Runs /\ Good(row)
      /\ Tail(todo[p]) \in Seq(GoodRows)
  BY <1>1, HeadIsGood DEF Inv, GoodRows
<1>3. toolchain \in Builds /\ toolchain \in Nat /\ toolchain \in 0..NBuilds
  BY NBuildsAssumption DEF Inv, DiskInv, Builds
<1>4. DiskInv'
  BY <1>1, <1>2, <1>3 DEF Inv, DiskInv
<1>5. GoodRows \subseteq GoodRows'
  <2>1. \A r \in Runs : openFs'[r] \in {openFs[r], 0, toolchain}
    BY <1>1 DEF Inv, DiskInv
  <2>2. QED
    BY <1>1, <1>3, <2>1, GoodStays DEF Inv, hist
<1>6. LevelOf(p, row) \in Levels
  BY <1>2, LevelOfIsLevel DEF Inv
<1>7. /\ new \in Row /\ new.run = row.run /\ new.verdict = "aborted"
      /\ new.bits = toolchain /\ new.note = row.note
  BY <1>2, <1>3, <1>6 DEF Rebuilt, Row, Verdicts
<1>8. openFs'[new.run] = toolchain
  BY <1>1, <1>2, <1>7 DEF Inv, DiskInv
<1>9. Good(new)'
  BY <1>1, <1>2, <1>3, <1>7, <1>8 DEF Good, Measured, Judged
<1>10. new \in GoodRows'
  BY <1>7, <1>9 DEF GoodRows
<1>11. <<new>> \o Tail(todo[p]) \in Seq(GoodRows') /\ <<new>> \o Tail(todo[p]) # <<>>
  <2>1. Tail(todo[p]) \in Seq(GoodRows')
    BY <1>2, <1>5, SeqMonotonic
  <2>2. <<new>> \in Seq(GoodRows') /\ Len(<<new>>) = 1
    BY <1>10
  <2>3. Len(<<new>> \o Tail(todo[p])) = 1 + Len(Tail(todo[p]))
    BY <2>1, <2>2, ConcatProperties
  <2>4. QED
    BY <2>1, <2>2, <2>3, ConcatProperties, LenProperties, EmptySeq
<1>12. todo' \in [Procs -> Seq(GoodRows')]
  BY <1>1, <1>5, <1>11, Replaced DEF Inv, RowInv
<1>13. out' \in [Procs -> Seq(GoodRows')]
  BY <1>1, <1>5, Widened DEF Inv, RowInv
<1>14. file' \in [Files -> Seq(GoodLines')]
  <2>1. GoodLines \subseteq GoodLines'
    BY <1>5 DEF GoodLines
  <2>2. QED
    BY <1>1, <2>1, Widened DEF Inv, RowInv
<1>15. \A q \in Procs : pc'[q] = "compare" => todo'[q] # <<>>
  BY <1>1, <1>11 DEF Inv, ProcInv, RowInv
<1>16. ProcInv'
  BY <1>1, <1>15 DEF Inv, ProcInv
<1>17. QED
  BY <1>1, <1>4, <1>12, <1>13, <1>14, <1>16 DEF Inv, RowInv, HistInv, hist

\* A row whose build failed claims nothing, or that the flow refused it.
LEMMA RedoBuildFailsKeeps ==
  ASSUME Inv, NEW p \in Procs, RedoBuildFails(p)
  PROVE  Inv'
<1> DEFINE row == Head(todo[p])
           ends == truth[row.run][toolchain].ends
<1> SUFFICES ASSUME NEW new,
                    new = [Rebuilt(p, row) EXCEPT
                             !.bits = 0, !.note = "text",
                             !.verdict = IF ends = "refuses" THEN "refused" ELSE @]
             PROVE  Inv'
  OBVIOUS
<1>1. /\ pc[p] = "rows" /\ todo[p] # <<>> /\ Keep(p, new)
      /\ UNCHANGED <<disk, file, pc, tool, skip, level, known, work, hist>>
  BY DEF RedoBuildFails
<1>2. row \in GoodRows /\ row \in Row /\ row.run \in Runs /\ Good(row)
  BY <1>1, HeadIsGood DEF Inv, GoodRows
<1>3. DiskInv' /\ GoodRows' = GoodRows
  BY <1>1, DiskKept DEF hist
<1>4. toolchain \in Builds /\ 0 \in 0..NBuilds
  BY NBuildsAssumption DEF Inv, DiskInv
<1>5. LevelOf(p, row) \in Levels
  BY <1>2, LevelOfIsLevel DEF Inv
<1>6. /\ new \in Row /\ new.run = row.run /\ new.bits = 0 /\ new.note = "text"
      /\ new.verdict = IF ends = "refuses" THEN "refused" ELSE "aborted"
  BY <1>2, <1>4, <1>5 DEF Rebuilt, Row, Verdicts
<1>7. Good(new)
  <2>1. Measured(new)
    BY <1>6 DEF Measured, Judged
  <2>2. new.verdict = "refused" => \E b \in Builds : truth[new.run][b].ends = "refuses"
    <3>1. new.verdict = "refused" => truth[new.run][toolchain].ends = "refuses"
      BY <1>6
    <3>2. QED
      BY <1>4, <3>1
  <2>3. QED
    BY <1>6, <2>1, <2>2 DEF Good
<1>8. new \in GoodRows
  BY <1>6, <1>7 DEF GoodRows
<1>9. todo' \in [Procs -> Seq(GoodRows)] /\ out' \in [Procs -> Seq(GoodRows)]
  BY <1>1, <1>8, KeepGood DEF Inv
<1>10. RowInv'
  BY <1>1, <1>3, <1>9, RowsCarried DEF Inv, RowInv
<1>11. \A q \in Procs : pc'[q] = "compare" => todo'[q] # <<>>
  BY <1>1 DEF Keep, Inv, ProcInv, RowInv
<1>12. ProcInv'
  BY <1>1, <1>11 DEF Inv, ProcInv
<1>13. QED
  BY <1>1, <1>3, <1>10, <1>12 DEF Inv, HistInv, hist

\* A tool that has treated its rows holds on to them, or ends.
LEMMA RowsDoneKeeps ==
  ASSUME Inv, NEW p \in Procs, RowsDone(p)
  PROVE  Inv'
<1>1. DiskInv' /\ GoodRows' = GoodRows /\ UNCHANGED <<file, work, hist>>
  BY DiskKept DEF RowsDone, hist
<1>2. ProcInv' /\ todo' \in [Procs -> Seq(GoodRows)] /\ out' \in [Procs -> Seq(GoodRows)]
  <2>1. CASE End(p)
    BY <2>1, EndKeeps DEF Inv
  <2>2. CASE Goto(p, "write") /\ UNCHANGED <<tool, skip, level, known, todo, out>>
    BY <2>2 DEF Goto, Inv, ProcInv, RowInv
  <2>3. QED
    BY <2>1, <2>2 DEF RowsDone
<1>3. RowInv'
  BY <1>1, <1>2, RowsCarried DEF Inv, RowInv
<1>4. QED
  BY <1>1, <1>2, <1>3 DEF Inv, HistInv, hist

\* The runs of good rows are runs.
LEMMA RunsOfRows ==
  ASSUME NEW rows \in Seq(GoodRows)
  PROVE  RunsIn(rows) \subseteq Runs
<1>1. \A i \in 1..Len(rows) : rows[i] \in GoodRows
  BY ElementOfSeq
<1>2. QED
  BY <1>1 DEF RunsIn, RangeOf, GoodRows, Row

\* Good rows are good lines.
LEMMA RowsAreLines ==
  ASSUME NEW rows \in Seq(GoodRows)
  PROVE  rows \in Seq(GoodLines)
BY SeqMonotonic DEF GoodLines

\* A tool ends and leaves good lines in a file, and nothing else.
LEMMA WritesAndEnds ==
  ASSUME Inv, NEW p \in Procs, End(p), NEW n \in Files, NEW f \in Seq(GoodLines),
         file' = [file EXCEPT ![n] = f], UNCHANGED <<disk, work, compared, promoted>>,
         published' \subseteq Runs, clean' \in BOOLEAN
  PROVE  Inv'
<1>1. DiskInv' /\ GoodRows' = GoodRows
  BY DiskKept
<1>2. ProcInv' /\ todo' \in [Procs -> Seq(GoodRows)] /\ out' \in [Procs -> Seq(GoodRows)]
  BY EndKeeps DEF Inv
<1>3. file' \in [Files -> Seq(GoodLines)]
  BY Replaced DEF Inv, RowInv
<1>4. RowInv'
  BY <1>1, <1>2, <1>3, RowsCarried
<1>5. QED
  BY <1>1, <1>2, <1>4 DEF Inv, HistInv

\* merge_sweep_rows.py appends good rows, whole or without a swallowed first.
LEMMA MergeWritesKeeps ==
  ASSUME Inv, NEW p \in Procs, MergeWrites(p)
  PROVE  Inv'
<1>1. out[p] \in Seq(GoodRows) /\ file["slug"] \in Seq(GoodLines) /\ "slug" \in Files
  BY DEF Inv, RowInv, Files
<1>2. PICK f \in Appended(file["slug"], out[p]) : file' = [file EXCEPT !["slug"] = f]
  BY DEF MergeWrites
<1>3. f \in Seq(GoodLines)
  BY <1>1, <1>2, RowsAreLines, AppendedLines
<1>4. published' \subseteq Runs
  BY <1>1, RunsOfRows DEF MergeWrites, Inv, HistInv
<1>5. QED
  BY <1>1, <1>2, <1>3, <1>4, WritesAndEnds DEF MergeWrites, Inv, HistInv

\* A tool that only reports leaves everything as it is.
LEMMA ReportKeeps ==
  ASSUME Inv, NEW p \in Procs, Report(p)
  PROVE  Inv'
<1>1. Die(p)
  BY DEF Report, Die
<1>2. QED
  BY <1>1, DieKeeps

\* The target of a tool is one of the two files.
LEMMA TargetIsFile ==
  ASSUME NEW t
  PROVE  Target(t) \in Files
BY DEF Target, Files

\* An empty file has only good lines.
LEMMA TruncateKeeps ==
  ASSUME Inv, NEW p \in Procs, Truncate(p)
  PROVE  Inv'
<1>1. DiskInv' /\ GoodRows' = GoodRows
  BY DiskKept DEF Truncate, hist
<1>2. file' \in [Files -> Seq(GoodLines)]
  <2>1. <<>> \in Seq(GoodLines)
    OBVIOUS
  <2>2. QED
    BY <2>1, Replaced DEF Truncate, Inv, RowInv
<1>3. RowInv'
  BY <1>1, <1>2, RowsCarried DEF Truncate, Inv, RowInv
<1>4. ProcInv'
  BY DEF Truncate, Goto, Inv, ProcInv
<1>5. QED
  BY <1>1, <1>3, <1>4 DEF Inv, HistInv, Truncate, hist

\* A file is rewritten with good rows and what outlived them of good lines.
LEMMA FlushKeeps ==
  ASSUME Inv, NEW p \in Procs, Flush(p)
  PROVE  Inv'
<1> DEFINE n == Target(tool[p])
<1>1. n \in Files
  BY TargetIsFile
<1>2. out[p] \in Seq(GoodRows) /\ out[p] \in Seq(GoodLines) /\ file[n] \in Seq(GoodLines)
  BY <1>1, RowsAreLines DEF Inv, RowInv
<1>3. PICK f \in Overlaid(out[p], file[n]) : file' = [file EXCEPT ![n] = f]
  BY DEF Flush
<1>4. f \in Seq(GoodLines)
  <2>1. Torn \in GoodLines
    BY DEF GoodLines
  <2>2. QED
    BY <1>2, <1>3, <2>1, OverlaidLines
<1>5. published' \subseteq Runs
  BY <1>2, RunsOfRows DEF Flush, Inv, HistInv
<1>6. QED
  BY <1>1, <1>3, <1>4, <1>5, WritesAndEnds DEF Flush, Inv, HistInv

\* What a killed tool leaves in its file are good lines, the last one torn.
LEMMA KillKeeps ==
  ASSUME Inv, NEW p \in Procs, Kill(p)
  PROVE  Inv'
<1> DEFINE n == Target(tool[p])
<1>1. n \in Files
  BY TargetIsFile
<1>2. out[p] \in Seq(GoodLines) /\ file[n] \in Seq(GoodLines)
  BY <1>1, RowsAreLines DEF Inv, RowInv
<1>3. PICK f \in LeftBy(p) : file' = [file EXCEPT ![n] = f]
  BY DEF Kill
<1>4. Torn \in GoodLines
  BY DEF GoodLines
<1>5. \A w \in Cut(out[p]) : w \in Seq(GoodLines)
  BY <1>2, <1>4, CutLines
<1>6. f \in Seq(GoodLines)
  <2>1. \A w \in Cut(out[p]) : \A g \in Overlaid(w, file[n]) : g \in Seq(GoodLines)
    BY <1>2, <1>4, <1>5, OverlaidLines
  <2>2. \A w \in Cut(out[p]) : \A g \in Appended(file[n], w) : g \in Seq(GoodLines)
    BY <1>2, <1>5, AppendedLines
  <2>3. Append(file[n], Torn) \in Seq(GoodLines)
    BY <1>2, <1>4, AppendProperties
  <2>4. CASE pc[p] = "flush"
    BY <1>3, <2>1, <2>4 DEF LeftBy
  <2>5. CASE pc[p] = "write" /\ tool[p] = "merge"
    BY <1>3, <2>2, <2>5 DEF LeftBy
  <2>6. CASE pc[p] = "rows" /\ tool[p] = "promote"
    BY <1>2, <1>3, <2>3, <2>6 DEF LeftBy
  <2>7. CASE /\ pc[p] # "flush"
             /\ ~(pc[p] = "write" /\ tool[p] = "merge")
             /\ ~(pc[p] = "rows" /\ tool[p] = "promote")
    <3>1. LeftBy(p) = {file[n]}
      BY <2>7 DEF LeftBy
    <3>2. QED
      BY <1>2, <1>3, <3>1
  <2>8. QED
    BY <2>4, <2>5, <2>6, <2>7
<1>7. QED
  BY <1>1, <1>3, <1>6, WritesAndEnds DEF Kill, Inv, HistInv

\* A later toolchain, or a file that is deleted, makes no row worse.
LEMMA DatastoreKeeps ==
  ASSUME Inv, InstallToolchain \/ \E r \in Runs : DeleteVendor(r) \/ DeleteOpen(r)
  PROVE  Inv'
<1>1. /\ truth' = truth /\ toolchain' \in Nat /\ toolchain' >= toolchain
      /\ UNCHANGED <<batch, file, procs, work, hist>>
  BY NBuildsAssumption DEF InstallToolchain, DeleteVendor, DeleteOpen, Inv, DiskInv, Builds
<1>2. \A r \in Runs : openFs'[r] \in {openFs[r], 0, toolchain}
  BY DEF InstallToolchain, DeleteVendor, DeleteOpen, Inv, DiskInv
<1>3. GoodRows \subseteq GoodRows'
  BY <1>1, <1>2, GoodStays DEF Inv, hist
<1>4. DiskInv'
  <2>1. CASE InstallToolchain
    BY <2>1, NBuildsAssumption DEF InstallToolchain, Inv, DiskInv, Builds
  <2>2. ASSUME NEW r \in Runs, DeleteVendor(r) PROVE DiskInv'
    BY <2>2 DEF DeleteVendor, Inv, DiskInv
  <2>3. ASSUME NEW r \in Runs, DeleteOpen(r) PROVE DiskInv'
    BY <2>3, NBuildsAssumption DEF DeleteOpen, Inv, DiskInv, Builds
  <2>4. QED
    BY <2>1, <2>2, <2>3
<1>5. RowInv'
  BY <1>1, <1>3, RowsCarried DEF procs, Inv, RowInv
<1>6. QED
  BY <1>1, <1>4, <1>5 DEF Inv, ProcInv, HistInv, procs, hist

-----------------------------------------------------------------------------
(* The initial states. *)

\* A row the harness wrote is of the comparison that it made.
LEMMA WrittenIsGood ==
  ASSUME DiskInv, toolchain = 1, NEW r \in batch,
         \A q \in Runs : FirstBuilt(q) => truth[q][1].found \in compared[q],
         openFs = [q \in Runs |-> IF FirstBuilt(q) THEN 1 ELSE 0],
         NEW row \in HarnessRows(r, truth[r][1])
  PROVE  row \in GoodRows
<1> DEFINE outcome == truth[r][1]
           found == outcome.found
           old == [found EXCEPT !.over = "unmeasured"]
           summary == [old EXCEPT !.residual = IF @ = "none" THEN @ ELSE "summary"]
<1>1. r \in Runs /\ 1 \in Builds /\ 1 \in 0..NBuilds /\ 0 \in 0..NBuilds
  BY NBuildsAssumption DEF DiskInv, Builds
<1>2. outcome \in Outcomes
  BY <1>1 DEF DiskInv
<1>3. found \in Measure /\ outcome.ends \in {"compared", "fails", "refuses"}
  BY <1>2 DEF Outcomes
<1>4. ASSUME NEW m \in Measure, NEW v \in Verdicts, row = WrittenRow(r, m, v)
      PROVE  /\ row \in Row /\ row.run = r /\ row.verdict = v /\ row.found = m
             /\ row.bits = (IF v \in {"ok", "diff"} THEN 1 ELSE 0) /\ row.note # "measurement"
  BY <1>1, <1>4 DEF WrittenRow, Row, Levels
<1>5. CASE outcome.ends = "fails"
  <2>1. row = WrittenRow(r, NoMeasure, "aborted")
    BY <1>5 DEF HarnessRows
  <2>2. row \in Row /\ row.run = r /\ row.verdict = "aborted" /\ row.bits = 0 /\ row.note # "measurement"
    BY <2>1, <1>4 DEF NoMeasure, Measure, Verdicts
  <2>3. QED
    BY <2>2 DEF GoodRows, Good, Measured, Judged
<1>6. CASE outcome.ends = "refuses"
  <2>1. row = WrittenRow(r, NoMeasure, "refused")
    BY <1>6 DEF HarnessRows
  <2>2. row \in Row /\ row.run = r /\ row.verdict = "refused" /\ row.bits = 0 /\ row.note # "measurement"
    BY <2>1, <1>4 DEF NoMeasure, Measure, Verdicts
  <2>3. QED
    BY <1>1, <1>6, <2>2 DEF GoodRows, Good, Measured, Judged
<1>7. CASE outcome.ends = "compared"
  <2>1. old \in Measure /\ summary \in Measure
    BY <1>3 DEF Measure
  <2>2. SameTerms(found, found) /\ SameTerms(found, old) /\ SameTerms(found, summary)
    BY <1>3 DEF SameTerms, Measure
  <2>3. /\ {Verdict(found), OldVerdict(old), SetsVerdict(summary)} \subseteq {"ok", "diff"}
        /\ {"ok", "diff"} \subseteq Verdicts
    BY DEF Verdict, OldVerdict, SetsVerdict, Verdicts
  <2>4. row \in {WrittenRow(r, found, Verdict(found)), WrittenRow(r, old, OldVerdict(old)),
                 WrittenRow(r, summary, SetsVerdict(summary))}
    BY <1>7 DEF HarnessRows
  <2>5. PICK m \in {found, old, summary}, v \in {"ok", "diff"} : row = WrittenRow(r, m, v)
    BY <2>3, <2>4
  <2>6. /\ row \in Row /\ row.run = r /\ row.verdict = v /\ row.found = m /\ row.bits = 1
        /\ row.note # "measurement"
    BY <1>3, <1>4, <2>1, <2>3, <2>5
  <2>7. SameTerms(found, row.found)
    BY <2>2, <2>5, <2>6
  <2>8. found \in compared[r] /\ openFs[r] = 1
    BY <1>1, <1>7 DEF FirstBuilt
  <2>9. Good(row)
    BY <2>5, <2>6, <2>7, <2>8 DEF Good, Measured, Judged
  <2>10. QED
    BY <2>6, <2>9 DEF GoodRows
<1>8. QED
  BY <1>3, <1>5, <1>6, <1>7

\* The invariant holds when the harness has written a batch.
LEMMA InitInv ==
  ASSUME Init
  PROVE  Inv
<1>1. batch \subseteq Runs /\ truth \in [Runs -> [Builds -> Outcomes]]
  BY BatchesAssumption DEF Init
<1>2. DiskInv
  BY <1>1, NBuildsAssumption DEF Init, DiskInv, Builds
<1>3. ProcInv
  BY DEF Init, ProcInv
<1>4. \A r \in Runs : FirstBuilt(r) => truth[r][1].found \in Measure
  <2>1. 1 \in Builds
    BY NBuildsAssumption DEF Builds
  <2>2. QED
    BY <1>1, <2>1 DEF Outcomes
<1>5. HistInv
  BY <1>4 DEF Init, HistInv
<1>6. \A r \in batch : HarnessRows(r, truth[r][1]) \subseteq GoodRows
  <2>1. \A q \in Runs : FirstBuilt(q) => truth[q][1].found \in compared[q]
    BY DEF Init
  <2>2. QED
    BY <1>2, <2>1, WrittenIsGood DEF Init
<1>7. Cardinality(batch) \in Nat
  BY <1>1, RunsAssumption, FS_Subset, FS_CardinalityType
<1>8. PICK rows \in [1..Cardinality(batch) -> UNION {HarnessRows(r, truth[r][1]) : r \in batch}] :
        file = [f \in Files |-> IF f = "batch" THEN rows ELSE <<>>]
  BY DEF Init
<1>9. \A i \in 1..Cardinality(batch) : rows[i] \in GoodLines
  <2>1. UNION {HarnessRows(r, truth[r][1]) : r \in batch} \subseteq GoodRows
    BY <1>6
  <2>2. QED
    BY <2>1 DEF GoodLines
<1>10. rows \in Seq(GoodLines)
  <2>1. rows \in [1..Cardinality(batch) -> GoodLines]
    BY <1>9
  <2>2. QED
    BY <1>7, <2>1
<1>11. file \in [Files -> Seq(GoodLines)]
  <2>1. <<>> \in Seq(GoodLines)
    OBVIOUS
  <2>2. QED
    BY <1>8, <1>10, <2>1
<1>12. RowInv
  BY <1>11 DEF Init, RowInv
<1>13. QED
  BY <1>2, <1>3, <1>5, <1>12 DEF Inv

-----------------------------------------------------------------------------
(* The theorems. *)

\* Every step of a tool keeps the invariant.
LEMMA StepKeeps ==
  ASSUME Inv, NEW p \in Procs, Step(p)
  PROVE  Inv'
<1>1. ASSUME NEW t \in Tools, Start(p, t) PROVE Inv'
  BY <1>1, StartKeeps
<1>2. CASE ReadFails(p) \/ PromoteDies(p) \/ RecompareDies(p) \/ RedoStops(p) \/ RedoDies(p)
  <2>1. Die(p)
    BY <1>2 DEF ReadFails, PromoteDies, RecompareDies, RedoStops, RedoDies
  <2>2. QED
    BY <2>1, DieKeeps
<1>3. CASE ReadIds(p)
  BY <1>3, ReadIdsKeeps
<1>4. CASE ReadRows(p)
  BY <1>4, ReadRowsKeeps
<1>5. CASE ReadAndRederive(p)
  BY <1>5, ReadAndRederiveKeeps
<1>6. CASE RecompareKeeps(p) \/ RedoSkips(p) \/ MergeRow(p)
  BY <1>6, KeepSteps
<1>7. CASE PromoteRow(p)
  BY <1>7, PromoteRowKeeps
<1>8. CASE RecompareRow(p)
  BY <1>8, RecompareRowKeeps
<1>9. CASE RedoBuilds(p)
  BY <1>9, RedoBuildsKeeps
<1>10. CASE RedoBuildFails(p)
  BY <1>10, RedoBuildFailsKeeps
<1>11. CASE RedoCompares(p)
  BY <1>11, RedoComparesKeeps
<1>12. CASE RowsDone(p)
  BY <1>12, RowsDoneKeeps
<1>13. CASE MergeWrites(p)
  BY <1>13, MergeWritesKeeps
<1>14. CASE Report(p)
  BY <1>14, ReportKeeps
<1>15. CASE Truncate(p)
  BY <1>15, TruncateKeeps
<1>16. CASE Flush(p)
  BY <1>16, FlushKeeps
<1>17. CASE Kill(p)
  BY <1>17, KillKeeps
<1>18. QED
  BY <1>1, <1>2, <1>3, <1>4, <1>5, <1>6, <1>7, <1>8, <1>9, <1>10, <1>11, <1>12, <1>13, <1>14,
     <1>15, <1>16, <1>17 DEF Step

\* Where nothing changes the invariant stays.
LEMMA StutterKeeps ==
  ASSUME Inv, UNCHANGED vars
  PROVE  Inv'
<1>1. DiskInv' /\ GoodRows' = GoodRows
  BY DiskKept DEF vars, hist
<1>2. RowInv'
  BY <1>1, RowsCarried DEF vars, procs, Inv, RowInv
<1>3. QED
  BY <1>1, <1>2 DEF Inv, ProcInv, HistInv, vars, procs, hist

\* The invariant holds always.
LEMMA InvHolds == Spec => []Inv
<1>1. Inv /\ [Next]_vars => Inv'
  <2> SUFFICES ASSUME Inv, [Next]_vars PROVE Inv'
    OBVIOUS
  <2>1. ASSUME NEW p \in Procs, Step(p) PROVE Inv'
    BY <2>1, StepKeeps
  <2>2. CASE InstallToolchain \/ \E r \in Runs : DeleteVendor(r) \/ DeleteOpen(r)
    BY <2>2, DatastoreKeeps
  <2>3. CASE UNCHANGED vars
    BY <2>3, StutterKeeps
  <2>4. QED
    BY <2>1, <2>2, <2>3 DEF Next
<1>2. QED
  BY <1>1, InitInv, PTL DEF Spec

\* The rows of a file are good.
LEMMA FileRows ==
  ASSUME Inv, NEW f \in Files, NEW r \in RowsOf(f)
  PROVE  r \in Row /\ Good(r)
<1>1. file[f] \in Seq(GoodLines)
  BY DEF Inv, RowInv
<1>2. \A i \in 1..Len(file[f]) : file[f][i] \in GoodLines
  BY <1>1, ElementOfSeq
<1>3. QED
  BY <1>2 DEF RowsOf, RangeOf, GoodLines, GoodRows

\* Every variable keeps its type: in particular a level or a verdict that a
\* tool writes is one of the schema's, whichever options it was started with.
THEOREM TypeCorrect == Spec => []TypeOK
<1>1. Inv => TypeOK
  <2> SUFFICES ASSUME Inv PROVE TypeOK
    OBVIOUS
  <2>1. GoodRows \subseteq Row /\ GoodLines \subseteq Lines
    BY DEF GoodRows, GoodLines, Lines
  <2>2. /\ file \in [Files -> Seq(Lines)]
        /\ todo \in [Procs -> Seq(Row)] /\ out \in [Procs -> Seq(Row)]
    BY <2>1, Widened DEF Inv, RowInv
  <2>3. QED
    BY <2>2 DEF TypeOK, Inv, DiskInv, ProcInv, HistInv
<1>2. QED
  BY <1>1, InvHolds, PTL

\* No order of the tools, no failed rebuild and no killed writer makes a
\* verdict of a row that stopped at its build: every ok and every diff in
\* either file is what some comparison of that run's bitstreams gave.
THEOREM VerdictsMeasured == Spec => []VerdictsAreMeasured
<1>1. Inv => VerdictsAreMeasured
  BY FileRows DEF VerdictsAreMeasured, Good
<1>2. QED
  BY <1>1, InvHolds, PTL

\* What check_evidence.py admits is of the bitstream that the row names.  A
\* row can hold another build's verdict (recompare_rows.py after a redo that
\* was not written), but then the bitstream it names is gone for good.
THEOREM AdmittedCorrect == Spec => []AdmittedIsOfItsBitstream
<1>1. Inv => AdmittedIsOfItsBitstream
  <2> SUFFICES ASSUME Inv, NEW r \in Slug, Judged(r), r.bits # 0,
                      Admissible(r, vendorFs, openFs)
               PROVE  SameTerms(truth[r.run][r.bits].found, r.found)
    BY DEF AdmittedIsOfItsBitstream
  <2>1. Good(r)
    BY FileRows DEF Slug, Files
  <2>2. openFs[r.run] = r.bits
    BY DEF Admissible, ArtefactsResolve
  <2>3. QED
    BY <2>1, <2>2 DEF Good
<1>2. QED
  BY <1>1, InvHolds, PTL

\* A primitive that check_evidence.py and check_criteria.py both let close was
\* measured to have equal sets and a matching decode, or was refused.
THEOREM DoneCorrect == Spec => []DoneIsEarned
<1>1. Inv => DoneIsEarned
  <2> SUFFICES ASSUME Inv, NEW declared \in Declared, EvidencePasses, NEW r \in Slug,
                      Satisfies(r, declared)
               PROVE  \/ \E m \in compared[r.run] : ~m.sets /\ m.decode = "ok"
                      \/ declared = "refused"
                           /\ \E b \in Builds : truth[r.run][b].ends = "refuses"
    BY DEF DoneIsEarned, CriteriaPass
  <2>1. Good(r)
    BY FileRows DEF Slug, Files
  <2>2. CASE r.verdict = "refused" /\ declared = "refused"
    BY <2>1, <2>2 DEF Good
  <2>3. CASE r.verdict = "ok" /\ DecodeOk(r)
    <3>1. ~r.found.sets
      BY <2>3 DEF EvidencePasses, Admissible, VerdictFits
    <3>2. r.found.decode = "ok"
      BY <2>1, <2>3 DEF DecodeOk, Good
    <3>3. PICK m \in compared[r.run] : SameTerms(m, r.found)
      BY <2>1, <2>3 DEF Good, Measured, Judged
    <3>4. QED
      BY <3>1, <3>2, <3>3 DEF SameTerms
  <2>4. QED
    BY <2>2, <2>3 DEF Satisfies
<1>2. QED
  BY <1>1, InvHolds, PTL
-----------------------------------------------------------------------------
(* No run is lost, and none is merged twice. *)

Distinct(s) == \A i, j \in 1..Len(s) : s[i].run = s[j].run => i = j

\* Row for row two sequences are of the same runs.
SameRuns(s, t) == Len(s) = Len(t) /\ \A i \in 1..Len(s) : s[i].run = t[i].run

\* The runs of rows none of which is torn.
LEMMA RunsOfPlainRows ==
  ASSUME NEW s \in Seq(Row)
  PROVE  /\ RunsIn(s) = {s[i].run : i \in 1..Len(s)}
         /\ Torn \notin RangeOf(s)
<1>1. \A i \in 1..Len(s) : s[i] \in Row /\ s[i] # Torn
  BY TornAssumption
<1>2. QED
  BY <1>1 DEF RunsIn, RangeOf

\* What is said here of the runs of a sequence depends on its runs alone.
LEMMA SameRunsKeep ==
  ASSUME NEW s \in Seq(Row), NEW t \in Seq(Row), SameRuns(s, t)
  PROVE  RunsIn(t) = RunsIn(s) /\ (Distinct(s) => Distinct(t))
<1>1. RunsIn(t) = RunsIn(s)
  <2>1. /\ RunsIn(s) = {s[i].run : i \in 1..Len(s)}
        /\ RunsIn(t) = {t[i].run : i \in 1..Len(t)}
    BY RunsOfPlainRows
  <2>2. Len(t) = Len(s) /\ \A i \in 1..Len(s) : s[i].run = t[i].run
    BY DEF SameRuns
  <2>3. QED
    BY <2>1, <2>2
<1>2. Distinct(s) => Distinct(t)
  BY DEF SameRuns, Distinct
<1>3. QED
  BY <1>1, <1>2

\* The rows of two sequences one after the other.
LEMMA JoinedRuns ==
  ASSUME NEW s \in Seq(Row), NEW t \in Seq(Row)
  PROVE  /\ s \o t \in Seq(Row)
         /\ RunsIn(s \o t) = RunsIn(s) \cup RunsIn(t)
         /\ Distinct(s) /\ Distinct(t) /\ RunsIn(s) \cap RunsIn(t) = {} => Distinct(s \o t)
         /\ Distinct(s \o t) => Distinct(s) /\ Distinct(t)
         /\ Distinct(s \o t) => RunsIn(s) \cap RunsIn(t) = {}
<1> DEFINE m == Len(s)
           n == Len(t)
           u == s \o t
<1>1. /\ u \in Seq(Row) /\ m \in Nat /\ n \in Nat /\ Len(u) = m + n
      /\ \A i \in 1..m : u[i] = s[i]
      /\ \A i \in 1..n : u[m + i] = t[i]
      /\ \A i \in (m + 1)..(m + n) : u[i] = t[i - m]
  OBVIOUS
<1>2. /\ RunsIn(s) = {s[i].run : i \in 1..m}
      /\ RunsIn(t) = {t[i].run : i \in 1..n}
      /\ RunsIn(u) = {u[i].run : i \in 1..(m + n)}
  BY <1>1, RunsOfPlainRows
<1> HIDE DEF u
<1>3. RunsIn(u) = RunsIn(s) \cup RunsIn(t)
  <2>1. ASSUME NEW i \in 1..(m + n) PROVE u[i].run \in RunsIn(s) \cup RunsIn(t)
    <3>1. CASE i \in 1..m
      BY <1>1, <1>2, <3>1
    <3>2. CASE i \in (m + 1)..(m + n)
      <4>1. i - m \in 1..n /\ u[i] = t[i - m]
        BY <1>1, <3>2
      <4>2. QED
        BY <1>2, <4>1
    <3>3. QED
      BY <1>1, <3>1, <3>2
  <2>2. ASSUME NEW i \in 1..m PROVE s[i].run \in RunsIn(u)
    BY <1>1, <1>2
  <2>3. ASSUME NEW i \in 1..n PROVE t[i].run \in RunsIn(u)
    <3>1. m + i \in 1..(m + n) /\ u[m + i] = t[i]
      BY <1>1
    <3>2. QED
      BY <1>2, <3>1
  <2>4. QED
    BY <1>2, <2>1, <2>2, <2>3
<1>4. ASSUME Distinct(s), Distinct(t), RunsIn(s) \cap RunsIn(t) = {} PROVE Distinct(u)
  <2> SUFFICES ASSUME NEW i \in 1..(m + n), NEW j \in 1..(m + n), u[i].run = u[j].run PROVE i = j
    BY <1>1 DEF Distinct
  <2>1. CASE i \in 1..m /\ j \in 1..m
    BY <1>1, <1>4, <2>1 DEF Distinct
  <2>2. CASE i \in (m + 1)..(m + n) /\ j \in (m + 1)..(m + n)
    <3>1. i - m \in 1..n /\ j - m \in 1..n /\ u[i] = t[i - m] /\ u[j] = t[j - m]
      BY <1>1, <2>2
    <3>2. i - m = j - m
      BY <1>4, <3>1 DEF Distinct
    <3>3. QED
      BY <1>1, <3>2
  <2>3. ASSUME NEW k \in 1..m, NEW l \in (m + 1)..(m + n) PROVE u[k].run # u[l].run
    <3>1. l - m \in 1..n /\ u[k] = s[k] /\ u[l] = t[l - m]
      BY <1>1
    <3>2. QED
      BY <1>2, <1>4, <3>1
  <2>4. QED
    BY <1>1, <2>1, <2>2, <2>3
<1>5. ASSUME Distinct(u) PROVE Distinct(s) /\ Distinct(t)
  <2>1. Distinct(s)
    BY <1>1, <1>5 DEF Distinct
  <2>2. ASSUME NEW i \in 1..n, NEW j \in 1..n, t[i].run = t[j].run PROVE i = j
    <3>1. m + i \in 1..(m + n) /\ m + j \in 1..(m + n) /\ u[m + i].run = u[m + j].run
      BY <1>1, <2>2
    <3>2. m + i = m + j
      BY <1>1, <1>5, <3>1 DEF Distinct
    <3>3. QED
      BY <1>1, <3>2
  <2>3. QED
    BY <2>1, <2>2 DEF Distinct
<1>6. ASSUME Distinct(u) PROVE RunsIn(s) \cap RunsIn(t) = {}
  <2>1. ASSUME NEW i \in 1..m, NEW j \in 1..n, s[i].run = t[j].run PROVE FALSE
    <3>1. /\ i \in 1..(m + n) /\ m + j \in 1..(m + n) /\ u[i].run = u[m + j].run
      BY <1>1, <2>1
    <3>2. i = m + j
      BY <1>1, <1>6, <3>1 DEF Distinct
    <3>3. QED
      BY <1>1, <3>2
  <2>2. QED
    BY <1>2, <2>1
<1>7. QED
  BY <1>1, <1>3, <1>4, <1>5, <1>6 DEF u

\* One row.
LEMMA OneRun ==
  ASSUME NEW row \in Row
  PROVE  <<row>> \in Seq(Row) /\ RunsIn(<<row>>) = {row.run} /\ Distinct(<<row>>)
<1>1. <<row>> \in Seq(Row) /\ Len(<<row>>) = 1 /\ <<row>>[1] = row
  OBVIOUS
<1>2. RunsIn(<<row>>) = {row.run}
  <2>1. RunsIn(<<row>>) = {<<row>>[i].run : i \in 1..Len(<<row>>)}
    BY <1>1, RunsOfPlainRows
  <2>2. 1..Len(<<row>>) = {1}
    BY <1>1
  <2>3. QED
    BY <1>1, <2>1, <2>2
<1>3. QED
  BY <1>1, <1>2 DEF Distinct

\* A tool moves on by one row: it takes it over, with the same run, or leaves it out.
LEMMA MovedOn ==
  ASSUME NEW s \in Seq(Row), NEW t \in Seq(Row), t # <<>>, NEW row \in Row,
         row.run = Head(t).run
  PROVE  /\ Tail(t) \in Seq(Row) /\ Head(t) \in Row
         /\ RunsIn(t) = {row.run} \cup RunsIn(Tail(t))
         /\ Distinct(t) => row.run \notin RunsIn(Tail(t)) /\ Distinct(Tail(t))
         /\ SameRuns(t, <<row>> \o Tail(t))
         /\ Append(s, row) \o Tail(t) = s \o (<<row>> \o Tail(t))
<1>1. /\ Tail(t) \in Seq(Row) /\ Head(t) \in Row /\ <<Head(t)>> \in Seq(Row)
      /\ t = <<Head(t)>> \o Tail(t) /\ Len(t) \in Nat /\ Len(t) > 0 /\ Len(Tail(t)) = Len(t) - 1
  OBVIOUS
<1>2. RunsIn(<<Head(t)>>) = {row.run}
  BY <1>1, OneRun
<1>3. /\ RunsIn(t) = {row.run} \cup RunsIn(Tail(t))
      /\ Distinct(t) => row.run \notin RunsIn(Tail(t)) /\ Distinct(Tail(t))
  <2> DEFINE h == <<Head(t)>>
             r == Tail(t)
  <2>1. /\ RunsIn(h \o r) = RunsIn(h) \cup RunsIn(r)
        /\ Distinct(h \o r) => Distinct(r) /\ RunsIn(h) \cap RunsIn(r) = {}
    BY <1>1, JoinedRuns
  <2>2. t = h \o r /\ RunsIn(h) = {row.run}
    BY <1>1, <1>2
  <2> HIDE DEF h, r
  <2>3. /\ RunsIn(t) = {row.run} \cup RunsIn(r)
        /\ Distinct(t) => row.run \notin RunsIn(r) /\ Distinct(r)
    BY <2>1, <2>2
  <2>4. QED
    BY <2>3 DEF r
<1>4. SameRuns(t, <<row>> \o Tail(t))
  <2>1. Len(<<row>> \o Tail(t)) = Len(t)
    BY <1>1
  <2>2. ASSUME NEW i \in 1..Len(t) PROVE t[i].run = (<<row>> \o Tail(t))[i].run
    BY <1>1
  <2>3. QED
    BY <2>1, <2>2 DEF SameRuns
<1>5. Append(s, row) \o Tail(t) = s \o (<<row>> \o Tail(t))
  <2>1. Append(s, row) = s \o <<row>>
    OBVIOUS
  <2>2. <<row>> \in Seq(Row)
    OBVIOUS
  <2>3. QED
    BY <1>1, <2>1, <2>2
<1>6. QED
  BY <1>1, <1>3, <1>4, <1>5

\* Rows of the same runs after the same rows.
LEMMA SameRunsJoined ==
  ASSUME NEW s \in Seq(Row), NEW t \in Seq(Row), NEW u \in Seq(Row), SameRuns(t, u)
  PROVE  SameRuns(s \o t, s \o u)
<1>1. Len(s) \in Nat /\ Len(t) \in Nat /\ Len(u) = Len(t)
  BY DEF SameRuns
<1>2. Len(s \o t) = Len(s) + Len(t) /\ Len(s \o u) = Len(s) + Len(t)
  BY <1>1
<1>3. ASSUME NEW i \in 1..(Len(s) + Len(t)) PROVE (s \o t)[i].run = (s \o u)[i].run
  <2>1. CASE i \in 1..Len(s)
    BY <2>1
  <2>2. CASE i \in (Len(s) + 1)..(Len(s) + Len(t))
    <3>1. (s \o t)[i] = t[i - Len(s)] /\ (s \o u)[i] = u[i - Len(s)] /\ i - Len(s) \in 1..Len(t)
      BY <1>1, <2>2
    <3>2. QED
      BY <3>1 DEF SameRuns
  <2>3. QED
    BY <1>1, <2>1, <2>2
<1>4. QED
  BY <1>2, <1>3 DEF SameRuns

\* How many positions a sequence has.
LEMMA PositionsAreFinite ==
  ASSUME NEW n \in Nat
  PROVE  IsFiniteSet(1..n) /\ Cardinality(1..n) = n
<1>1. IsFiniteSet(1..n) /\ Cardinality(1..n) = IF 1 > n THEN 0 ELSE n - 1 + 1
  BY FS_Interval
<1>2. QED
  BY <1>1

\* As many rows as there are runs, of all the runs: one row of each.
LEMMA OneRowEach ==
  ASSUME NEW B, IsFiniteSet(B), NEW rows \in Seq(Row), Len(rows) = Cardinality(B),
         RunsIn(rows) = B
  PROVE  Distinct(rows)
<1> DEFINE n == Len(rows)
           f == [i \in 1..n |-> rows[i].run]
<1>1. n \in Nat /\ B = {rows[i].run : i \in 1..n}
  BY RunsOfPlainRows
<1>2. f \in [1..n -> B]
  BY <1>1
<1>3. \A r \in B : \E i \in 1..n : f[i] = r
  BY <1>1
<1>4. f \in Surjection(1..n, B)
  BY <1>2, <1>3 DEF Surjection
<1>5. IsFiniteSet(1..n) /\ Cardinality(1..n) = n
  BY <1>1, PositionsAreFinite
<1>6. f \in Injection(1..n, B)
  BY <1>4, <1>5, FS_Surjection
<1>7. QED
  BY <1>6 DEF Injection, IsInjective, Distinct

-----------------------------------------------------------------------------
(* What a tool has in hand at each of its steps. *)

Ordered(p) ==
  /\ pc[p] # "idle" => tool[p] \in Tools
  /\ pc[p] = "readIds" => tool[p] = "merge"
  /\ pc[p] \in {"rows", "compare"} => ~Rederives(p)
  /\ pc[p] = "compare" => tool[p] = "redo"
  /\ pc[p] = "write" => tool[p] # "promote"
  /\ pc[p] = "flush" => tool[p] \notin {"promote", "merge"}
  /\ pc[p] \in {"idle", "readIds", "read"} \/ tool[p] = "promote" => out[p] = <<>>
  /\ pc[p] \in {"idle", "readIds", "read", "write", "flush"} => todo[p] = <<>>
  /\ tool[p] = "promote" => promoted

ToolInv == \A p \in Procs : Ordered(p)

\* A tool that ends has nothing in hand.
LEMMA EndIsOrdered ==
  ASSUME Inv, NEW p \in Procs, End(p)
  PROVE  /\ Ordered(p)' /\ pc'[p] = "idle"
         /\ \A q \in Procs \ {p} : /\ pc'[q] = pc[q] /\ tool'[q] = tool[q]
                                   /\ todo'[q] = todo[q] /\ out'[q] = out[q]
<1>1. /\ pc \in [Procs -> {"idle", "readIds", "read", "rows", "compare", "write", "flush"}]
      /\ tool \in [Procs -> Tools \cup {"none"}]
      /\ todo \in [Procs -> Seq(GoodRows)] /\ out \in [Procs -> Seq(GoodRows)]
  BY DEF Inv, ProcInv, RowInv
<1>2. /\ pc' = [pc EXCEPT ![p] = "idle"] /\ tool' = [tool EXCEPT ![p] = "none"]
      /\ todo' = [todo EXCEPT ![p] = <<>>] /\ out' = [out EXCEPT ![p] = <<>>]
  BY DEF End, Goto
<1>3. QED
  BY <1>1, <1>2 DEF Ordered, Tools

\* Nothing that one tool does moves another, and each tool keeps its own order.
LEMMA OrderedStep ==
  ASSUME Inv, ToolInv, NEW p \in Procs, Step(p)
  PROVE  /\ Ordered(p)' /\ (promoted => promoted')
         /\ \A q \in Procs \ {p} : /\ pc'[q] = pc[q] /\ tool'[q] = tool[q]
                                   /\ todo'[q] = todo[q] /\ out'[q] = out[q]
<1>1. /\ pc \in [Procs -> {"idle", "readIds", "read", "rows", "compare", "write", "flush"}]
      /\ tool \in [Procs -> Tools \cup {"none"}]
      /\ todo \in [Procs -> Seq(GoodRows)] /\ out \in [Procs -> Seq(GoodRows)]
      /\ Ordered(p)
  BY DEF Inv, ProcInv, RowInv, ToolInv
<1> DEFINE Goal == /\ Ordered(p)' /\ (promoted => promoted')
                   /\ \A q \in Procs \ {p} : /\ pc'[q] = pc[q] /\ tool'[q] = tool[q]
                                             /\ todo'[q] = todo[q] /\ out'[q] = out[q]
<1>2. ASSUME End(p), promoted' = promoted PROVE Goal
  BY <1>2, EndIsOrdered
<1>3. CASE ReadFails(p) \/ PromoteDies(p) \/ RecompareDies(p) \/ RedoStops(p) \/ RedoDies(p) \/ Report(p)
             \/ MergeWrites(p) \/ Flush(p) \/ Kill(p)
  BY <1>2, <1>3 DEF ReadFails, PromoteDies, RecompareDies, RedoStops, RedoDies, Report, MergeWrites, Flush, Kill,
     Die, hist
<1>4. ASSUME NEW t \in Tools, Start(p, t) PROVE Goal
  <2>1. /\ pc' = [pc EXCEPT ![p] = IF t = "merge" THEN "readIds" ELSE "read"]
        /\ tool' = [tool EXCEPT ![p] = t] /\ UNCHANGED <<todo, out>>
        /\ promoted' = (promoted \/ t = "promote") /\ pc[p] = "idle"
    BY <1>4 DEF Start, Goto
  <2>2. QED
    BY <1>1, <2>1 DEF Ordered, Rederives
<1>5. CASE ReadIds(p)
  <2>1. /\ pc' = [pc EXCEPT ![p] = "read"] /\ UNCHANGED <<tool, todo, out, promoted>>
        /\ pc[p] = "readIds"
    BY <1>5 DEF ReadIds, Goto, hist
  <2>2. QED
    BY <1>1, <2>1 DEF Ordered
<1>6. CASE ReadRows(p)
  <2>1. /\ pc' = [pc EXCEPT ![p] = "rows"] /\ todo' = [todo EXCEPT ![p] = file["batch"]]
        /\ UNCHANGED <<tool, out, promoted>> /\ pc[p] = "read" /\ ~Rederives(p)
    BY <1>6 DEF ReadRows, Goto, hist
  <2>2. QED
    BY <1>1, <2>1 DEF Ordered, Rederives
<1>7. CASE ReadAndRederive(p)
  <2>1. promoted' = promoted /\ pc[p] = "read" /\ Rederives(p)
    BY <1>7 DEF ReadAndRederive, hist
  <2>2. CASE End(p)
    BY <1>2, <2>1, <2>2
  <2>3. CASE ~End(p)
    <3>1. PICK rows : out' = [out EXCEPT ![p] = rows]
      BY <1>7, <2>3 DEF ReadAndRederive
    <3>2. pc' = [pc EXCEPT ![p] = "write"] /\ UNCHANGED <<tool, todo>>
      BY <1>7, <2>3 DEF ReadAndRederive, Goto
    <3>3. QED
      BY <1>1, <2>1, <3>1, <3>2 DEF Ordered, Rederives
  <2>4. QED
    BY <2>2, <2>3
<1>8. CASE MergeRow(p) \/ RecompareKeeps(p) \/ RecompareRow(p) \/ RedoSkips(p) \/ RedoBuildFails(p)
  <2>1. /\ UNCHANGED <<pc, tool, promoted>> /\ pc[p] = "rows" /\ tool[p] # "promote"
        /\ todo' = [todo EXCEPT ![p] = Tail(@)]
    BY <1>8 DEF MergeRow, RecompareKeeps, RecompareRow, RedoSkips, RedoBuildFails, Keep, hist
  <2>2. PICK row : out' = [out EXCEPT ![p] = Append(@, row)] \/ out' = out
    BY <1>8 DEF MergeRow, RecompareKeeps, RecompareRow, RedoSkips, RedoBuildFails, Keep
  <2>3. QED
    BY <1>1, <2>1, <2>2 DEF Ordered, Rederives
<1>9. CASE PromoteRow(p)
  <2>1. /\ UNCHANGED <<pc, tool, out, promoted>> /\ pc[p] = "rows"
        /\ todo' = [todo EXCEPT ![p] = Tail(@)]
    BY <1>9 DEF PromoteRow
  <2>2. QED
    BY <1>1, <2>1 DEF Ordered, Rederives
<1>10. CASE RedoBuilds(p)
  <2>1. /\ pc' = [pc EXCEPT ![p] = "compare"] /\ UNCHANGED <<tool, out, promoted>>
        /\ tool[p] = "redo" /\ \E rows : todo' = [todo EXCEPT ![p] = rows]
    BY <1>10 DEF RedoBuilds, Goto, hist
  <2>2. QED
    BY <1>1, <2>1 DEF Ordered, Rederives
<1>11. CASE RedoCompares(p)
  <2>1. /\ pc' = [pc EXCEPT ![p] = "rows"] /\ UNCHANGED <<tool, promoted>> /\ pc[p] = "compare"
        /\ todo' = [todo EXCEPT ![p] = Tail(@)] /\ \E row : out' = [out EXCEPT ![p] = Append(@, row)]
    BY <1>11 DEF RedoCompares, Goto, Keep
  <2>2. QED
    BY <1>1, <2>1 DEF Ordered, Rederives
<1>12. CASE RowsDone(p)
  <2>1. promoted' = promoted /\ pc[p] = "rows" /\ todo[p] = <<>>
    BY <1>12 DEF RowsDone, hist
  <2>2. CASE tool[p] = "promote"
    BY <1>2, <1>12, <2>1, <2>2 DEF RowsDone
  <2>3. CASE tool[p] # "promote"
    <3>1. pc' = [pc EXCEPT ![p] = "write"] /\ UNCHANGED <<tool, todo, out>>
      BY <1>12, <2>3 DEF RowsDone, Goto
    <3>2. QED
      BY <1>1, <2>1, <2>3, <3>1 DEF Ordered, Rederives
  <2>4. QED
    BY <2>2, <2>3
<1>13. CASE Truncate(p)
  <2>1. /\ pc' = [pc EXCEPT ![p] = "flush"] /\ UNCHANGED <<tool, todo, out, promoted>>
        /\ pc[p] = "write" /\ tool[p] # "merge"
    BY <1>13 DEF Truncate, Goto, hist
  <2>2. QED
    BY <1>1, <2>1 DEF Ordered, Rederives
<1>14. QED
  BY <1>3, <1>4, <1>5, <1>6, <1>7, <1>8, <1>9, <1>10, <1>11, <1>12, <1>13 DEF Step

\* Every step keeps the order of every tool.
LEMMA ToolInvHolds == Spec => []ToolInv
<1>1. Init => ToolInv
  BY DEF Init, ToolInv, Ordered, Rederives
<1>2. Inv /\ ToolInv /\ [Next]_vars => ToolInv'
  <2> SUFFICES ASSUME Inv, ToolInv, [Next]_vars PROVE ToolInv'
    OBVIOUS
  <2>1. ASSUME NEW p \in Procs, Step(p) PROVE ToolInv'
    <3>1. ASSUME NEW q \in Procs, q # p PROVE Ordered(q)'
      BY <2>1, <3>1, OrderedStep DEF ToolInv, Ordered, Rederives
    <3>2. QED
      BY <2>1, <3>1, OrderedStep DEF ToolInv
  <2>2. CASE InstallToolchain \/ (\E r \in Runs : DeleteVendor(r) \/ DeleteOpen(r)) \/ UNCHANGED vars
    <3>1. UNCHANGED <<procs, promoted>>
      BY <2>2 DEF InstallToolchain, DeleteVendor, DeleteOpen, vars, hist
    <3>2. QED
      BY <3>1 DEF procs, ToolInv, Ordered, Rederives
  <2>3. QED
    BY <2>1, <2>2 DEF Next
<1>3. QED
  BY <1>1, <1>2, InvHolds, PTL DEF Spec

-----------------------------------------------------------------------------
(* Tools that run one after the other. *)

\* All of the batch's runs once each; the published ones at least; some once each.
Whole(s)   == RunsIn(s) = batch /\ Distinct(s)
Covers(s)  == published \subseteq RunsIn(s) /\ RunsIn(s) \subseteq batch /\ (~promoted => Distinct(s))
Partial(s) == RunsIn(s) \subseteq batch /\ Distinct(s)

\* The rows a tool has in hand, those it is done with first.
Held(p) == out[p] \o todo[p]

Rewrites(p, f) == pc[p] = "flush" /\ Target(tool[p]) = f

FileGood(f) == IF f = "batch" THEN Whole(file[f]) ELSE Covers(file[f])

\* What a tool that is not overlapped has in hand suits the file that it will write.
Working(p) ==
  /\ pc[p] \in {"rows", "compare", "write", "flush"} =>
       /\ tool[p] \in {"recompare", "redo", "rederive-batch"} => Whole(Held(p))
       /\ tool[p] = "rederive-slug" => Covers(Held(p))
       /\ tool[p] \in {"merge", "promote"} => Partial(Held(p))
  /\ tool[p] = "merge" =>
       /\ pc[p] \in {"read", "rows", "write"} => known[p] = RunsIn(file["slug"])
       /\ pc[p] \in {"rows", "write"} => RunsIn(out[p]) \cap known[p] = {}
  /\ pc[p] = "flush" => file[Target(tool[p])] = <<>>

CleanInv ==
  clean => /\ \A p, q \in Procs : pc[p] # "idle" /\ pc[q] # "idle" => p = q
           /\ file \in [Files -> Seq(Row)]
           /\ published \subseteq batch
           /\ \A f \in Files : (\A p \in Procs : ~Rewrites(p, f)) => FileGood(f)
           /\ \A p \in Procs : Working(p)

\* What CleanInv says of a step of a tool that nothing overlaps.
Before(p) ==
  /\ clean
  /\ \A q \in Procs \ {p} : pc[q] = "idle"
  /\ file \in [Files -> Seq(Row)]
  /\ published \subseteq batch
  /\ \A f \in Files : ~Rewrites(p, f) => FileGood(f)
  /\ Working(p)
  /\ Ordered(p)
  /\ out[p] \in Seq(Row) /\ todo[p] \in Seq(Row)

After(p) ==
  /\ file' \in [Files -> Seq(Row)]
  /\ published' \subseteq batch'
  /\ \A f \in Files : ~Rewrites(p, f)' => FileGood(f)'
  /\ Working(p)'

\* A tool that is not overlapped, and is not killed in this step, meets CleanInv.
LEMMA BeforeStep ==
  ASSUME Inv, ToolInv, CleanInv, NEW p \in Procs, Step(p), clean'
  PROVE  Before(p)
<1>1. clean /\ (pc[p] = "idle" => \A q \in Procs : pc[q] = "idle")
  BY DEF Step, Start, ReadFails, ReadIds, ReadRows, ReadAndRederive, MergeRow, PromoteRow,
     PromoteDies, RecompareKeeps, RecompareRow, RecompareDies, RedoSkips, RedoStops, RedoBuilds, RedoBuildFails,
     RedoCompares, RedoDies, RowsDone, MergeWrites, Report, Truncate, Flush, Kill, Die, hist
<1>2. \A q \in Procs \ {p} : pc[q] = "idle"
  BY <1>1 DEF CleanInv
<1>3. \A f \in Files : ~Rewrites(p, f) => FileGood(f)
  BY <1>1, <1>2 DEF CleanInv, Rewrites
<1>4. out[p] \in Seq(Row) /\ todo[p] \in Seq(Row)
  <2>1. GoodRows \subseteq Row
    BY DEF GoodRows
  <2>2. out[p] \in Seq(GoodRows) /\ todo[p] \in Seq(GoodRows)
    BY DEF Inv, RowInv
  <2>3. QED
    BY <2>1, <2>2, SeqMonotonic
<1>5. QED
  BY <1>1, <1>2, <1>3, <1>4 DEF CleanInv, ToolInv, Before

\* A step of such a tool says nothing of the others, which are idle.
LEMMA AfterStep ==
  ASSUME Inv, ToolInv, CleanInv, NEW p \in Procs, Step(p), clean', Before(p), After(p)
  PROVE  CleanInv'
<1>1. \A q \in Procs \ {p} : pc'[q] = "idle"
  BY OrderedStep DEF Before
<1>2. \A q \in Procs \ {p} : Working(q)'
  BY <1>1 DEF Working
<1>3. ASSUME NEW f \in Files, \A q \in Procs : ~Rewrites(q, f)' PROVE FileGood(f)'
  BY <1>3 DEF After
<1>4. \A q \in Procs : Working(q)'
  BY <1>2 DEF After
<1>5. \A q, r \in Procs : pc'[q] # "idle" /\ pc'[r] # "idle" => q = r
  BY <1>1
<1>6. file' \in [Files -> Seq(Row)] /\ published' \subseteq batch'
  BY DEF After
<1>7. QED
  BY <1>3, <1>4, <1>5, <1>6 DEF CleanInv

\* A file that is not written stays as it is, and so does what is said of it.
LEMMA FilesKept ==
  ASSUME NEW p \in Procs, Before(p), UNCHANGED <<file, batch, published>>,
         promoted => promoted', \A f \in Files : ~Rewrites(p, f)
  PROVE  /\ file' \in [Files -> Seq(Row)]
         /\ published' \subseteq batch'
         /\ \A f \in Files : FileGood(f)'
  BY DEF Before, FileGood, Whole, Covers, Distinct, RunsIn, RangeOf

\* The tool has ended and wrote nothing.
LEMMA EndedUnwritten ==
  ASSUME Inv, NEW p \in Procs, Before(p), End(p), pc[p] # "flush",
         UNCHANGED <<file, batch, published, promoted>>
  PROVE  After(p)
<1>1. pc'[p] = "idle" /\ tool'[p] = "none"
  BY DEF End, Goto, Inv, ProcInv
<1>2. Working(p)'
  BY <1>1 DEF Working
<1>3. QED
  BY <1>2, FilesKept DEF After, Rewrites

\* The tool takes a row over under the same run.
LEMMA HeldRuns ==
  ASSUME Inv, NEW p \in Procs, Before(p), todo[p] # <<>>, NEW row \in Row,
         row.run = Head(todo[p]).run,
         \/ Keep(p, row)
         \/ todo' = [todo EXCEPT ![p] = <<row>> \o Tail(@)] /\ out' = out
  PROVE  /\ Held(p)' \in Seq(Row)
         /\ RunsIn(Held(p)') = RunsIn(Held(p))
         /\ Distinct(Held(p)) => Distinct(Held(p)')
<1> DEFINE s == out[p]
           t == todo[p]
           u == <<row>> \o Tail(t)
<1>1. s \in Seq(Row) /\ t \in Seq(Row) /\ u \in Seq(Row) /\ s \o t \in Seq(Row) /\ s \o u \in Seq(Row)
  BY MovedOn, OneRun, JoinedRuns DEF Before
<1>2. SameRuns(t, u) /\ Append(s, row) \o Tail(t) = s \o u
  <2>1. t # <<>> /\ row.run = Head(t).run
    OBVIOUS
  <2> HIDE DEF s, t
  <2>2. QED
    BY <1>1, <2>1, MovedOn, Zenon
<1>3. SameRuns(s \o t, s \o u)
  BY <1>1, <1>2, SameRunsJoined
<1>4. Held(p)' = s \o u
  <2>1. out \in [Procs -> Seq(GoodRows)] /\ todo \in [Procs -> Seq(GoodRows)]
    BY DEF Inv, RowInv
  <2>2. CASE Keep(p, row)
    <3>1. out'[p] = Append(s, row) /\ todo'[p] = Tail(t)
      BY <2>1, <2>2 DEF Keep
    <3>2. QED
      BY <1>2, <3>1 DEF Held
  <2>3. CASE todo' = [todo EXCEPT ![p] = <<row>> \o Tail(@)] /\ out' = out
    BY <2>1, <2>3 DEF Held
  <2>4. QED
    BY <2>2, <2>3
<1>5. QED
  BY <1>1, <1>3, <1>4, SameRunsKeep DEF Held

\* What a tool has in hand are rows, so one that it puts there is a row.
LEMMA KeptIsRow ==
  ASSUME Inv, Inv', NEW p \in Procs, NEW row,
         \/ Keep(p, row)
         \/ todo' = [todo EXCEPT ![p] = <<row>> \o Tail(@)] /\ todo[p] # <<>>
  PROVE  row \in Row
<1>1. /\ out \in [Procs -> Seq(GoodRows)] /\ todo \in [Procs -> Seq(GoodRows)]
      /\ out' \in [Procs -> Seq(GoodRows')] /\ todo' \in [Procs -> Seq(GoodRows')]
  BY DEF Inv, RowInv
<1>2. GoodRows' \subseteq Row
  BY DEF GoodRows, Row, Builds
<1>3. CASE Keep(p, row)
  <2>1. out'[p] = Append(out[p], row) /\ Len(out[p]) \in Nat
    BY <1>1, <1>3 DEF Keep
  <2>2. Len(out'[p]) = Len(out[p]) + 1 /\ out'[p][Len(out[p]) + 1] = row
    BY <1>1, <2>1
  <2>3. out'[p][Len(out[p]) + 1] \in GoodRows'
    BY <1>1, <2>1, <2>2, ElementOfSeq
  <2>4. QED
    BY <1>2, <2>2, <2>3
<1>4. CASE todo' = [todo EXCEPT ![p] = <<row>> \o Tail(@)] /\ todo[p] # <<>>
  <2>1. todo'[p] = <<row>> \o Tail(todo[p]) /\ Tail(todo[p]) \in Seq(GoodRows)
    BY <1>1, <1>4
  <2>2. Len(todo'[p]) \in Nat \ {0} /\ todo'[p][1] = row
    BY <2>1
  <2>3. todo'[p][1] \in GoodRows'
    BY <1>1, <2>2, ElementOfSeq
  <2>4. QED
    BY <1>2, <2>2, <2>3
<1>5. QED
  BY <1>3, <1>4

\* A row is left out.
LEMMA LeftOut ==
  ASSUME NEW s \in Seq(Row), NEW t \in Seq(Row), t # <<>>
  PROVE  /\ s \o Tail(t) \in Seq(Row)
         /\ RunsIn(s \o Tail(t)) \subseteq RunsIn(s \o t)
         /\ Distinct(s \o t) => Distinct(s \o Tail(t))
         /\ Head(t).run \in RunsIn(s \o t)
<1>1. /\ Tail(t) \in Seq(Row) /\ Head(t) \in Row /\ RunsIn(t) = {Head(t).run} \cup RunsIn(Tail(t))
      /\ Distinct(t) => Distinct(Tail(t))
  BY HeadTailProperties, MovedOn
<1>2. /\ RunsIn(s \o t) = RunsIn(s) \cup RunsIn(t)
      /\ Distinct(s \o t) => Distinct(s) /\ Distinct(t) /\ RunsIn(s) \cap RunsIn(t) = {}
  BY JoinedRuns
<1> DEFINE r == Tail(t)
<1>3. /\ s \o r \in Seq(Row) /\ RunsIn(s \o r) = RunsIn(s) \cup RunsIn(r)
      /\ Distinct(s) /\ Distinct(r) /\ RunsIn(s) \cap RunsIn(r) = {} => Distinct(s \o r)
  BY <1>1, JoinedRuns
<1>4. QED
  BY <1>1, <1>2, <1>3

\* A file without a torn line is appended to as it should be.
LEMMA PlainlyAppended ==
  ASSUME NEW f \in Seq(Row), NEW rows \in Seq(Row), NEW g \in Appended(f, rows)
  PROVE  g = f \o rows
<1>1. ~(f # <<>> /\ f[Len(f)] = Torn)
  <2>1. f # <<>> => Len(f) \in 1..Len(f)
    OBVIOUS
  <2>2. f # <<>> => f[Len(f)] \in Row
    BY <2>1
  <2>3. QED
    BY <2>2, TornAssumption
<1>2. QED
  BY <1>1 DEF Appended

\* What is written over an empty file is all that is in it.
LEMMA PlainlyOverlaid ==
  ASSUME NEW rows, NEW g \in Overlaid(rows, <<>>)
  PROVE  g = rows
<1>1. Len(<<>>) = 0 /\ 2..0 = {} /\ 1..0 = {}
  OBVIOUS
<1>2. QED
  BY <1>1 DEF Overlaid

\* What is said of a tool's rows after a step, when they are known.
LEMMA HeldAfter ==
  ASSUME NEW p \in Procs, NEW s, Held(p)' = s, UNCHANGED batch
  PROVE  /\ RunsIn(s) = batch /\ Distinct(s) => Whole(Held(p))'
         /\ RunsIn(s) \subseteq batch /\ Distinct(s) => Partial(Held(p))'
         /\ UNCHANGED <<published, promoted>> /\ Covers(s) => Covers(Held(p))'
<1>1. RunsIn(Held(p))' = RunsIn(s)
  BY DEF RunsIn, RangeOf
<1>2. Distinct(s) => Distinct(Held(p))'
  BY DEF Distinct
<1>3. QED
  BY <1>1, <1>2 DEF Whole, Partial, Covers

-----------------------------------------------------------------------------
(* Step by step. *)

\* Nobody overlapped the tools that start now.
LEMMA StartSafe ==
  ASSUME Inv, NEW p \in Procs, NEW t \in Tools, Start(p, t), Before(p)
  PROVE  After(p)
<1>1. /\ UNCHANGED <<file, batch, published>> /\ (promoted => promoted')
      /\ pc[p] = "idle"
      /\ pc'[p] = (IF t = "merge" THEN "readIds" ELSE "read") /\ tool'[p] = t
  BY DEF Start, Goto, disk, Inv, ProcInv
<1>2. Working(p)'
  BY <1>1 DEF Working
<1>3. QED
  BY <1>1, <1>2, FilesKept DEF After, Rewrites

\* merge knows what is in the slug.
LEMMA ReadIdsSafe ==
  ASSUME Inv, NEW p \in Procs, ReadIds(p), Before(p)
  PROVE  After(p)
<1>1. /\ UNCHANGED <<file, batch, published, promoted>> /\ pc[p] = "readIds" /\ pc'[p] = "read"
      /\ known'[p] = RunsIn(file["slug"])
  BY DEF ReadIds, Goto, disk, hist, Inv, ProcInv
<1>2. Working(p)'
  BY <1>1 DEF Working, RunsIn, RangeOf
<1>3. QED
  BY <1>1, <1>2, FilesKept DEF After, Rewrites

\* A tool that reads the batch has all of it in hand.
LEMMA ReadRowsSafe ==
  ASSUME Inv, NEW p \in Procs, ReadRows(p), Before(p)
  PROVE  After(p)
<1>1. /\ UNCHANGED <<file, batch, published, promoted>> /\ pc[p] = "read" /\ pc'[p] = "rows"
      /\ UNCHANGED <<tool, known, out>> /\ todo'[p] = file["batch"] /\ ~Rederives(p)
  BY DEF ReadRows, Goto, disk, hist, Inv, ProcInv, RowInv
<1>2. out[p] = <<>> /\ Whole(file["batch"]) /\ file["batch"] \in Seq(Row)
  BY <1>1 DEF Before, Ordered, FileGood, Files, Rewrites
<1>3. Held(p)' = file["batch"]
  BY <1>1, <1>2, ConcatEmptySeq DEF Held
<1>4. Whole(Held(p))' /\ Partial(Held(p))'
  BY <1>1, <1>2, <1>3 DEF Whole, Partial, Distinct, RunsIn, RangeOf
<1>5. RunsIn(out[p])' = {}
  BY <1>1, <1>2 DEF RunsIn, RangeOf
<1>6. tool[p] = "merge" => known'[p] = RunsIn(file["slug"])'
  BY <1>1 DEF Before, Working, RunsIn, RangeOf
<1>7. Working(p)'
  BY <1>1, <1>4, <1>5, <1>6 DEF Working, Rederives
<1>8. QED
  BY <1>1, <1>7, FilesKept DEF After, Rewrites

\* rederive_verdicts.py writes as many rows as it read, of the same runs.
LEMMA ReadAndRederiveSafe ==
  ASSUME Inv, Inv', NEW p \in Procs, ReadAndRederive(p), Before(p)
  PROVE  After(p)
<1> DEFINE src == Source(tool[p])
           rows == file[src]
           new == RederivedFile(rows)
<1>1. /\ UNCHANGED <<file, batch, published, promoted>> /\ pc[p] = "read" /\ Rederives(p)
  BY DEF ReadAndRederive, disk, hist
<1>2. CASE End(p)
  BY <1>1, <1>2, EndedUnwritten
<1>3. CASE ~End(p)
  <2>1. pc'[p] = "write" /\ UNCHANGED <<tool, todo>> /\ out'[p] = new
    BY <1>3 DEF ReadAndRederive, Goto, Inv, ProcInv, RowInv
  <2>2. src \in Files /\ rows \in Seq(Row) /\ todo[p] = <<>> /\ FileGood(src)
    BY <1>1 DEF Before, Ordered, Source, Files, Rewrites
  <2>3. new \in Seq(Row)
    <3>1. GoodRows' \subseteq Row
      BY DEF GoodRows, Row, Builds
    <3>2. new \in Seq(GoodRows')
      BY <2>1 DEF Inv, RowInv
    <3>3. QED
      BY <3>1, <3>2, SeqMonotonic
  <2>4. SameRuns(rows, new)
    <3>1. /\ Len(new) = Len(rows)
          /\ \A i \in 1..Len(rows) : new[i] = Rederived(rows[i]) /\ rows[i] \in Row
      BY <2>2 DEF RederivedFile
    <3>2. \A r \in Row : Rederived(r).run = r.run
      BY DEF Rederived, Noted, Row
    <3>3. QED
      BY <3>1, <3>2 DEF SameRuns
  <2>5. RunsIn(new) = RunsIn(rows) /\ (Distinct(rows) => Distinct(new))
    BY <2>2, <2>3, <2>4, SameRunsKeep
  <2>6. Held(p)' = new
    BY <2>1, <2>2, <2>3, ConcatEmptySeq DEF Held
  <2> HIDE DEF new
  <2>7. ASSUME tool[p] = "rederive-batch" PROVE Whole(Held(p))'
    <3>1. RunsIn(rows) = batch /\ Distinct(rows)
      BY <2>2, <2>7 DEF FileGood, Source, Whole
    <3>2. QED
      BY <1>1, <2>5, <2>6, <3>1, HeldAfter
  <2>8. ASSUME tool[p] = "rederive-slug" PROVE Covers(Held(p))'
    <3>1. Covers(rows)
      BY <2>2, <2>8 DEF FileGood, Source
    <3>2. Covers(new)
      BY <2>5, <3>1 DEF Covers
    <3>3. QED
      BY <1>1, <2>6, <3>2, HeldAfter
  <2>9. Working(p)'
    BY <1>1, <2>1, <2>7, <2>8 DEF Working, Rederives
  <2>10. QED
    BY <1>1, <2>1, <2>9, FilesKept DEF After, Rewrites
<1>4. QED
  BY <1>2, <1>3

\* A tool that writes the batch anew has one row of each run in hand, whatever it makes of a row.
LEMMA RowKept ==
  ASSUME Inv, Inv', NEW p \in Procs, Before(p), todo[p] # <<>>, NEW row,
         row.run = Head(todo[p]).run,
         \/ Keep(p, row)
         \/ todo' = [todo EXCEPT ![p] = <<row>> \o Tail(@)] /\ out' = out,
         tool[p] \in {"recompare", "redo"}, pc[p] \in {"rows", "compare"},
         pc'[p] \in {"rows", "compare"}, UNCHANGED <<tool, file, batch, published, promoted>>
  PROVE  After(p)
<1>1. row \in Row
  BY KeptIsRow
<1>2. /\ RunsIn(Held(p)') = RunsIn(Held(p))
      /\ Distinct(Held(p)) => Distinct(Held(p)')
  BY <1>1, HeldRuns
<1>3. Whole(Held(p))
  BY DEF Before, Working
<1>4. Whole(Held(p))'
  <2> DEFINE s == Held(p)'
  <2>1. RunsIn(s) = batch /\ Distinct(s)
    BY <1>2, <1>3 DEF Whole
  <2>2. Held(p)' = s
    OBVIOUS
  <2> HIDE DEF s
  <2>3. QED
    BY <2>1, <2>2, HeldAfter
<1>5. Working(p)'
  BY <1>4 DEF Working
<1>6. QED
  BY <1>5, FilesKept DEF After, Rewrites

\* What a tool changes of a row is never its run.
LEMMA HeadIsRow ==
  ASSUME NEW p \in Procs, Before(p), todo[p] # <<>>
  PROVE  Head(todo[p]) \in Row
BY HeadTailProperties DEF Before

\* recompare_rows.py keeps the rows of runs that were not built.
LEMMA RecompareKeepsSafe ==
  ASSUME Inv, Inv', NEW p \in Procs, RecompareKeeps(p), Before(p)
  PROVE  After(p)
BY RowKept DEF RecompareKeeps, disk, hist

\* It puts the new comparison into the row of the run.
LEMMA RecompareRowSafe ==
  ASSUME Inv, Inv', NEW p \in Procs, RecompareRow(p), Before(p)
  PROVE  After(p)
<1> DEFINE row == Head(todo[p])
           now == Compared(row.run)
           new == [row EXCEPT !.verdict = Verdict(now), !.level = level[p], !.found = now]
<1>1. Keep(p, new) /\ pc[p] = "rows" /\ tool[p] = "recompare" /\ todo[p] # <<>>
  BY DEF RecompareRow
<1>2. UNCHANGED <<pc, tool, file, batch, published, promoted>>
  BY DEF RecompareRow, disk
<1>3. new.run = row.run
  BY <1>1, HeadIsRow DEF Row
<1> HIDE DEF new
<1>4. QED
  BY <1>1, <1>2, <1>3, RowKept

\* redo_open_half.py --skip-missing-vendor keeps the row.
LEMMA RedoSkipsSafe ==
  ASSUME Inv, Inv', NEW p \in Procs, RedoSkips(p), Before(p)
  PROVE  After(p)
BY RowKept DEF RedoSkips, disk, hist

\* A build that fails is noted in the row.
LEMMA RedoBuildFailsSafe ==
  ASSUME Inv, Inv', NEW p \in Procs, RedoBuildFails(p), Before(p)
  PROVE  After(p)
<1> DEFINE row  == Head(todo[p])
           ends == truth[row.run][toolchain].ends
           new  == [Rebuilt(p, row) EXCEPT !.bits = 0, !.note = "text",
                                           !.verdict = IF ends = "refuses" THEN "refused" ELSE @]
<1>1. Keep(p, new) /\ pc[p] = "rows" /\ tool[p] = "redo" /\ todo[p] # <<>>
  BY DEF RedoBuildFails
<1>2. UNCHANGED <<pc, tool, file, batch, published, promoted>>
  BY DEF RedoBuildFails, disk, hist
<1>3. new.run = row.run
  BY <1>1, HeadIsRow DEF Row, Rebuilt
<1> HIDE DEF new
<1>4. QED
  BY <1>1, <1>2, <1>3, RowKept

\* A build that succeeds leaves the row at the head of those to be treated.
LEMMA RedoBuildsSafe ==
  ASSUME Inv, Inv', NEW p \in Procs, RedoBuilds(p), Before(p)
  PROVE  After(p)
<1> DEFINE row == Head(todo[p])
           new == [Rebuilt(p, row) EXCEPT !.bits = toolchain]
<1>1. /\ todo' = [todo EXCEPT ![p] = <<new>> \o Tail(@)] /\ out' = out
      /\ pc[p] = "rows" /\ tool[p] = "redo" /\ todo[p] # <<>> /\ pc'[p] = "compare"
  BY DEF RedoBuilds, Goto, Inv, ProcInv
<1>2. UNCHANGED <<tool, file, batch, published, promoted>>
  BY DEF RedoBuilds, hist
<1>3. new.run = row.run
  BY <1>1, HeadIsRow DEF Row, Rebuilt
<1> HIDE DEF new
<1>4. QED
  BY <1>1, <1>2, <1>3, RowKept

\* The comparison of what was built goes into the row.
LEMMA RedoComparesSafe ==
  ASSUME Inv, Inv', NEW p \in Procs, RedoCompares(p), Before(p)
  PROVE  After(p)
<1> DEFINE row == Head(todo[p])
           now == Compared(row.run)
           new == [row EXCEPT !.verdict = Verdict(now), !.found = now]
<1>1. /\ Keep(p, new) /\ pc[p] = "compare" /\ pc'[p] = "rows"
      /\ tool[p] = "redo" /\ todo[p] # <<>>
  BY DEF RedoCompares, Goto, Inv, ProcInv, Before, Ordered
<1>2. UNCHANGED <<tool, file, batch, published, promoted>>
  BY DEF RedoCompares, disk
<1>3. new.run = row.run
  BY <1>1, HeadIsRow DEF Row
<1> HIDE DEF new
<1>4. QED
  BY <1>1, <1>2, <1>3, RowKept

\* merge_sweep_rows.py takes the rows of the runs that the slug has not.
LEMMA MergeRowSafe ==
  ASSUME Inv, Inv', NEW p \in Procs, MergeRow(p), Before(p)
  PROVE  After(p)
<1> DEFINE row == Head(todo[p])
<1>1. /\ UNCHANGED <<pc, tool, known, file, batch, published, promoted>>
      /\ pc[p] = "rows" /\ tool[p] = "merge" /\ todo[p] # <<>>
  BY DEF MergeRow, disk, hist
<1>2. /\ Partial(Held(p)) /\ known[p] = RunsIn(file["slug"]) /\ RunsIn(out[p]) \cap known[p] = {}
      /\ row \in Row /\ out[p] \in Seq(Row) /\ todo[p] \in Seq(Row)
  BY <1>1, HeadIsRow DEF Before, Working
<1>3. /\ todo \in [Procs -> Seq(GoodRows)] /\ out \in [Procs -> Seq(GoodRows)]
  BY DEF Inv, RowInv
<1>4. ASSUME Partial(Held(p))', RunsIn(out[p])' \cap known[p] = {} PROVE After(p)
  <2>1. known'[p] = RunsIn(file["slug"])'
    BY <1>1, <1>2 DEF RunsIn, RangeOf
  <2>2. Working(p)'
    BY <1>1, <1>4, <2>1 DEF Working
  <2>3. QED
    BY <1>1, <2>2, FilesKept DEF After, Rewrites
<1>5. CASE IsNew(p, row)
  <2> DEFINE new == Noted(row)
             s == Held(p)'
             kept == Append(out[p], new)
  <2>1. Keep(p, new)
    BY <1>5 DEF MergeRow
  <2>2. new \in Row /\ new.run = row.run
    <3>1. new.run = row.run
      BY <1>2 DEF Noted, Row
    <3>2. QED
      BY <2>1, <3>1, KeptIsRow
  <2> HIDE DEF new
  <2>3. RunsIn(s) = RunsIn(Held(p)) /\ (Distinct(Held(p)) => Distinct(s))
    BY <1>1, <2>1, <2>2, HeldRuns
  <2>4. Held(p)' = s
    OBVIOUS
  <2> HIDE DEF s
  <2>5. Partial(Held(p))'
    BY <1>1, <1>2, <2>3, <2>4, HeldAfter DEF Partial
  <2>6. out'[p] = kept
    BY <1>3, <2>1 DEF Keep
  <2>7. RunsIn(kept) = RunsIn(out[p]) \cup {row.run}
    <3>1. kept = out[p] \o <<new>>
      BY <1>2
    <3>2. <<new>> \in Seq(Row) /\ RunsIn(<<new>>) = {row.run}
      BY <2>2, OneRun
    <3> HIDE DEF kept, row
    <3>3. QED
      BY <1>2, <3>1, <3>2, JoinedRuns
  <2>8. RunsIn(out[p])' = RunsIn(kept)
    BY <2>6 DEF RunsIn, RangeOf
  <2> HIDE DEF kept
  <2>9. QED
    BY <1>2, <1>4, <1>5, <2>5, <2>7, <2>8 DEF IsNew
<1>6. CASE ~IsNew(p, row)
  <2> DEFINE s == out[p] \o Tail(todo[p])
  <2>1. todo'[p] = Tail(todo[p]) /\ out' = out
    BY <1>3, <1>6 DEF MergeRow
  <2>2. RunsIn(s) \subseteq RunsIn(Held(p)) /\ (Distinct(Held(p)) => Distinct(s))
    BY <1>1, <1>2, LeftOut DEF Held
  <2>3. Held(p)' = s
    BY <2>1 DEF Held
  <2> HIDE DEF s
  <2>4. Partial(Held(p))'
    BY <1>1, <1>2, <2>2, <2>3, HeldAfter DEF Partial
  <2>5. RunsIn(out[p])' = RunsIn(out[p])
    BY <2>1 DEF RunsIn, RangeOf
  <2>6. QED
    BY <1>2, <1>4, <2>4, <2>5
<1>7. QED
  BY <1>5, <1>6

\* What is added to the slug covers what is published with it.
LEMMA SlugGrows ==
  ASSUME NEW p \in Procs, Before(p), pc[p] # "flush", NEW rows \in Seq(Row),
         RunsIn(rows) \subseteq batch, NEW f \in Appended(file["slug"], rows),
         file' = [file EXCEPT !["slug"] = f], published' = published \cup RunsIn(rows),
         UNCHANGED <<batch, promoted>>,
         ~promoted => Distinct(rows) /\ RunsIn(rows) \cap RunsIn(file["slug"]) = {}
  PROVE  /\ file' \in [Files -> Seq(Row)]
         /\ published' \subseteq batch'
         /\ \A g \in Files : FileGood(g)'
<1> DEFINE s == file["slug"]
<1>1. /\ file \in [Files -> Seq(Row)] /\ s \in Seq(Row) /\ published \subseteq batch
      /\ Covers(s) /\ Whole(file["batch"])
  BY DEF Before, Files, FileGood, Rewrites
<1>2. f = s \o rows
  BY <1>1, PlainlyAppended
<1>3. /\ f \in Seq(Row) /\ RunsIn(f) = RunsIn(s) \cup RunsIn(rows)
      /\ Distinct(s) /\ Distinct(rows) /\ RunsIn(s) \cap RunsIn(rows) = {} => Distinct(f)
  <2> HIDE DEF s
  <2>1. QED
    BY <1>1, <1>2, JoinedRuns
<1>4. file'["slug"] = f /\ file'["batch"] = file["batch"] /\ file' \in [Files -> Seq(Row)]
  BY <1>1, <1>3 DEF Files
<1>5. Whole(file["batch"])'
  BY <1>1, <1>4 DEF Whole, Distinct, RunsIn, RangeOf
<1>6. published' \subseteq RunsIn(f) /\ RunsIn(f) \subseteq batch /\ (~promoted => Distinct(f))
  <2>1. published \subseteq RunsIn(s) /\ RunsIn(s) \subseteq batch /\ (~promoted => Distinct(s))
    BY <1>1 DEF Covers
  <2> HIDE DEF s
  <2>2. ~promoted => Distinct(rows) /\ RunsIn(s) \cap RunsIn(rows) = {}
    BY DEF s
  <2>3. QED
    BY <1>3, <2>1, <2>2
<1>7. Covers(file["slug"])'
  <2>1. RunsIn(file["slug"])' = RunsIn(f) /\ (Distinct(f) => Distinct(file["slug"])')
    BY <1>4 DEF RunsIn, RangeOf, Distinct
  <2>2. QED
    BY <1>6, <2>1 DEF Covers
<1>8. published' \subseteq batch'
  BY <1>6
<1>9. QED
  BY <1>4, <1>5, <1>7, <1>8 DEF FileGood, Files

\* promote_rows.py changes a row's fields, not its run.
LEMMA PromotedIsRow ==
  ASSUME NEW r \in Row, NEW v \in SUBSET Runs, NEW o \in [Runs -> 0..NBuilds]
  PROVE  Promoted(r, v, o) \in Row /\ Promoted(r, v, o).run = r.run
<1>1. RequiredFields(Justified(r.found)) \in Measure
  BY DEF Row, RequiredFields, Justified, Measure
<1>2. 0 \in 0..NBuilds
  BY NBuildsAssumption
<1>3. QED
  BY <1>1, <1>2 DEF Promoted, Noted, Row

\* promote_rows.py publishes runs of the batch only.
LEMMA PromoteRowSafe ==
  ASSUME Inv, Inv', NEW p \in Procs, PromoteRow(p), Before(p)
  PROVE  After(p)
<1> DEFINE head == Head(todo[p])
           row  == Promoted(head, vendorFs, openFs)
<1>1. /\ UNCHANGED <<pc, tool, out, batch, promoted>> /\ pc[p] = "rows" /\ tool[p] = "promote"
      /\ todo[p] # <<>> /\ todo' = [todo EXCEPT ![p] = Tail(@)]
  BY DEF PromoteRow, disk
<1>2. /\ Partial(Held(p)) /\ out[p] = <<>> /\ promoted
      /\ head \in Row /\ out[p] \in Seq(Row) /\ todo[p] \in Seq(Row)
  BY <1>1, HeadIsRow DEF Before, Working, Ordered
<1>3. row \in Row /\ row.run = head.run
  BY <1>2, PromotedIsRow DEF Inv, DiskInv
<1>4. PICK f \in Appended(file["slug"], <<row>>) :
        /\ file' = [file EXCEPT !["slug"] = f]
        /\ published' = published \cup {row.run}
  BY DEF PromoteRow
<1> DEFINE s == out[p] \o Tail(todo[p])
<1>5. /\ RunsIn(s) \subseteq RunsIn(Held(p)) /\ (Distinct(Held(p)) => Distinct(s))
      /\ head.run \in RunsIn(Held(p))
  BY <1>1, <1>2, LeftOut DEF Held
<1>6. Held(p)' = s
  <2>1. todo \in [Procs -> Seq(GoodRows)]
    BY DEF Inv, RowInv
  <2>2. QED
    BY <1>1, <2>1 DEF Held
<1> HIDE DEF s, row
<1>7. Partial(Held(p))'
  BY <1>1, <1>2, <1>5, <1>6, HeldAfter DEF Partial
<1>8. Working(p)'
  BY <1>1, <1>7 DEF Working
<1>9. /\ file' \in [Files -> Seq(Row)] /\ published' \subseteq batch'
      /\ \A g \in Files : FileGood(g)'
  <2>1. <<row>> \in Seq(Row) /\ RunsIn(<<row>>) = {row.run}
    BY <1>3, OneRun
  <2>2. RunsIn(<<row>>) \subseteq batch
    BY <1>2, <1>3, <1>5, <2>1 DEF Partial
  <2> DEFINE rows == <<row>>
  <2>3. /\ rows \in Seq(Row) /\ RunsIn(rows) \subseteq batch /\ f \in Appended(file["slug"], rows)
        /\ published' = published \cup RunsIn(rows)
    BY <1>4, <2>1, <2>2
  <2> HIDE DEF rows
  <2>4. QED
    BY <1>1, <1>2, <1>4, <2>3, SlugGrows
<1>10. QED
  BY <1>8, <1>9 DEF After

\* At the end of its rows a tool goes on to write them, or has written them.
LEMMA RowsDoneSafe ==
  ASSUME Inv, NEW p \in Procs, RowsDone(p), Before(p)
  PROVE  After(p)
<1>1. /\ UNCHANGED <<file, batch, published, promoted>> /\ pc[p] = "rows" /\ todo[p] = <<>>
  BY DEF RowsDone, disk, hist
<1>2. CASE tool[p] = "promote"
  BY <1>1, <1>2, EndedUnwritten DEF RowsDone
<1>3. CASE tool[p] # "promote"
  <2>1. UNCHANGED <<tool, known, todo, out>> /\ pc'[p] = "write"
    BY <1>3 DEF RowsDone, Goto, Inv, ProcInv
  <2>2. Held(p)' = Held(p)
    BY <2>1 DEF Held
  <2>3. /\ Whole(Held(p)) => Whole(Held(p))'
        /\ Partial(Held(p)) => Partial(Held(p))'
        /\ Covers(Held(p)) => Covers(Held(p))'
    BY <1>1, <2>2, HeldAfter DEF Whole, Partial
  <2>4. RunsIn(file["slug"])' = RunsIn(file["slug"]) /\ RunsIn(out[p])' = RunsIn(out[p])
    BY <1>1, <2>1 DEF RunsIn, RangeOf
  <2>5. Working(p)'
    BY <1>1, <2>1, <2>3, <2>4 DEF Before, Working
  <2>6. QED
    BY <1>1, <2>1, <2>5, FilesKept DEF After, Rewrites
<1>4. QED
  BY <1>2, <1>3

\* A tool that stops, or only reports, has written nothing.
LEMMA EndsSafe ==
  ASSUME Inv, NEW p \in Procs, Before(p),
         ReadFails(p) \/ PromoteDies(p) \/ RecompareDies(p) \/ RedoStops(p) \/ RedoDies(p) \/ Report(p)
  PROVE  After(p)
BY EndedUnwritten DEF ReadFails, PromoteDies, RecompareDies, RedoStops, RedoDies, Report, Die, disk, hist

\* A tool that writes has nothing left to treat.
LEMMA HeldToWrite ==
  ASSUME NEW p \in Procs, Before(p), pc[p] \in {"write", "flush"}
  PROVE  Held(p) = out[p]
<1>1. todo[p] = <<>> /\ out[p] \in Seq(Row)
  BY DEF Before, Ordered
<1>2. QED
  BY <1>1, ConcatEmptySeq DEF Held

\* merge_sweep_rows.py adds runs that the slug has not.
LEMMA MergeWritesSafe ==
  ASSUME Inv, NEW p \in Procs, MergeWrites(p), Before(p)
  PROVE  After(p)
<1>1. /\ pc[p] = "write" /\ tool[p] = "merge" /\ pc'[p] = "idle" /\ tool'[p] = "none"
      /\ UNCHANGED <<batch, promoted>> /\ published' = published \cup RunsIn(out[p])
  BY DEF MergeWrites, End, Goto, disk, Inv, ProcInv
<1>2. PICK f \in Appended(file["slug"], out[p]) : file' = [file EXCEPT !["slug"] = f]
  BY DEF MergeWrites
<1>3. Partial(out[p]) /\ RunsIn(out[p]) \cap RunsIn(file["slug"]) = {} /\ out[p] \in Seq(Row)
  BY <1>1, HeldToWrite DEF Before, Working
<1>4. /\ file' \in [Files -> Seq(Row)] /\ published' \subseteq batch'
      /\ \A g \in Files : FileGood(g)'
  BY <1>1, <1>2, <1>3, SlugGrows DEF Partial
<1>5. QED
  BY <1>1, <1>4 DEF After, Working

\* A file that is opened with "w" is empty, and the tool holds what was in it.
LEMMA TruncateSafe ==
  ASSUME Inv, NEW p \in Procs, Truncate(p), Before(p)
  PROVE  After(p)
<1>1. /\ pc[p] = "write" /\ tool[p] # "merge" /\ pc'[p] = "flush"
      /\ UNCHANGED <<batch, published, promoted, tool, known, todo, out>>
      /\ file' = [file EXCEPT ![Target(tool[p])] = <<>>]
  BY DEF Truncate, Goto, disk, hist, Inv, ProcInv
<1>2. /\ file \in [Files -> Seq(Row)] /\ Target(tool[p]) \in Files /\ <<>> \in Seq(Row)
      /\ \A g \in Files : FileGood(g)
  BY <1>1 DEF Before, Target, Files, Rewrites
<1>3. /\ file' \in [Files -> Seq(Row)] /\ file'[Target(tool[p])] = <<>>
      /\ \A g \in Files : g # Target(tool[p]) => file'[g] = file[g]
  BY <1>1, <1>2
<1>4. ASSUME NEW g \in Files, ~Rewrites(p, g)' PROVE FileGood(g)'
  <2>1. g # Target(tool[p])
    BY <1>1, <1>4 DEF Rewrites
  <2>2. file'[g] = file[g] /\ FileGood(g)
    BY <1>2, <1>3, <2>1
  <2>3. QED
    BY <1>1, <2>2 DEF FileGood, Whole, Covers, Distinct, RunsIn, RangeOf
<1>5. Held(p)' = Held(p)
  BY <1>1 DEF Held
<1>6. /\ Whole(Held(p)) => Whole(Held(p))'
      /\ Covers(Held(p)) => Covers(Held(p))'
  BY <1>1, <1>5, HeldAfter DEF Whole
<1>7. Working(p)'
  BY <1>1, <1>3, <1>6 DEF Before, Working, Ordered
<1>8. published' \subseteq batch'
  BY <1>1 DEF Before
<1>9. QED
  BY <1>3, <1>4, <1>7, <1>8 DEF After

\* What the tool held is now in the file.
LEMMA FlushSafe ==
  ASSUME Inv, NEW p \in Procs, Flush(p), Before(p)
  PROVE  After(p)
<1> DEFINE target == Target(tool[p])
           rows   == out[p]
<1>1. /\ pc[p] = "flush" /\ pc'[p] = "idle" /\ tool'[p] = "none" /\ UNCHANGED <<batch, promoted>>
      /\ published' = IF target = "slug" THEN published \cup RunsIn(rows) ELSE published
  BY DEF Flush, End, Goto, disk, Inv, ProcInv
<1>2. PICK f \in Overlaid(rows, file[target]) : file' = [file EXCEPT ![target] = f]
  BY DEF Flush
<1>3. file[target] = <<>>
  BY <1>1 DEF Before, Working
<1>4. f = rows
  BY <1>3, PlainlyOverlaid
<1>5. target \in Files /\ file \in [Files -> Seq(Row)] /\ rows \in Seq(Row)
  BY DEF Before, Target, Files
<1>6. /\ file' \in [Files -> Seq(Row)] /\ file'[target] = rows
      /\ \A g \in Files : g # target => file'[g] = file[g]
  BY <1>2, <1>4, <1>5
<1>7. published \subseteq batch
  BY DEF Before
<1>8. target = "batch" => Whole(rows)
  BY <1>1, HeldToWrite DEF Before, Working, Target, Ordered
<1>9. target = "slug" => Covers(rows)
  <2>1. target = "slug" => Whole(rows) \/ Covers(rows)
    BY <1>1, HeldToWrite DEF Before, Working, Target, Ordered, Tools
  <2>2. QED
    BY <1>7, <2>1 DEF Whole, Covers
<1> HIDE DEF rows
<1>10. \A g \in Files : g # target => FileGood(g)
  BY DEF Before, Rewrites
<1> HIDE DEF target
<1>11. published' \subseteq batch'
  BY <1>1, <1>7, <1>9 DEF Covers
<1>12. FileGood("batch")'
  <2>1. Whole(file'["batch"])
    BY <1>6, <1>8, <1>10 DEF Files, FileGood
  <2>2. QED
    BY <1>1, <2>1 DEF FileGood, Whole, Distinct, RunsIn, RangeOf
<1>13. FileGood("slug")'
  <2> DEFINE s == file'["slug"]
  <2>1. published' \subseteq RunsIn(s) /\ RunsIn(s) \subseteq batch /\ (~promoted => Distinct(s))
    <3>1. CASE target = "slug"
      BY <1>1, <1>6, <1>9, <3>1 DEF Covers
    <3>2. CASE target # "slug"
      BY <1>1, <1>6, <1>10, <3>2 DEF Covers, Files, FileGood
    <3>3. QED
      BY <3>1, <3>2
  <2>2. RunsIn(file["slug"])' = RunsIn(s) /\ (Distinct(s) => Distinct(file["slug"])')
    BY DEF RunsIn, RangeOf, Distinct
  <2> HIDE DEF s
  <2>3. QED
    BY <1>1, <2>1, <2>2 DEF FileGood, Covers
<1>14. QED
  BY <1>1, <1>6, <1>11, <1>12, <1>13 DEF After, Working, Files

\* A tool that is not overlapped and not killed does nothing that CleanInv rules out.
LEMMA StepSafe ==
  ASSUME Inv, Inv', ToolInv, CleanInv, NEW p \in Procs, Step(p), clean'
  PROVE  CleanInv'
<1>1. Before(p)
  BY BeforeStep
<1>2. ~Kill(p)
  BY DEF Kill
<1>3. After(p)
  BY <1>1, <1>2, StartSafe, ReadIdsSafe, ReadRowsSafe, ReadAndRederiveSafe, MergeRowSafe,
     PromoteRowSafe, RecompareKeepsSafe, RecompareRowSafe, RedoSkipsSafe, RedoBuildsSafe,
     RedoBuildFailsSafe, RedoComparesSafe, RowsDoneSafe, EndsSafe, MergeWritesSafe, TruncateSafe,
     FlushSafe DEF Step
<1>4. QED
  BY <1>1, <1>3, AfterStep

\* The harness has written one row for each run of the batch.
LEMMA InitIsClean ==
  ASSUME Init, Inv
  PROVE  CleanInv
<1>1. PICK rows \in [1..Cardinality(batch) -> UNION {HarnessRows(r, truth[r][1]) : r \in batch}] :
        RunsIn(rows) = batch /\ file = [f \in Files |-> IF f = "batch" THEN rows ELSE <<>>]
  BY DEF Init
<1>2. Cardinality(batch) \in Nat /\ IsFiniteSet(batch)
  BY RunsAssumption, FS_Subset, FS_CardinalityType DEF Inv, DiskInv
<1>3. UNION {HarnessRows(r, truth[r][1]) : r \in batch} \subseteq Row
  <2>1. \A q \in Runs : FirstBuilt(q) => truth[q][1].found \in compared[q]
    BY DEF Init
  <2>2. \A r \in batch : HarnessRows(r, truth[r][1]) \subseteq GoodRows
    <3>1. DiskInv /\ toolchain = 1 /\ openFs = [q \in Runs |-> IF FirstBuilt(q) THEN 1 ELSE 0]
      BY DEF Inv, Init
    <3>2. QED
      BY <2>1, <3>1, WrittenIsGood
  <2>3. GoodRows \subseteq Row
    BY DEF GoodRows
  <2>4. QED
    BY <2>2, <2>3
<1>4. rows \in [1..Cardinality(batch) -> Row]
  BY <1>3
<1>5. rows \in Seq(Row) /\ Len(rows) = Cardinality(batch)
  BY <1>2, <1>4
<1>6. Whole(rows)
  BY <1>1, <1>2, <1>5, OneRowEach DEF Whole
<1>7. published = {} /\ \A p \in Procs : pc[p] = "idle" /\ tool[p] = "none"
  BY DEF Init
<1>8. Covers(<<>>)
  BY <1>7 DEF Covers, Distinct, RunsIn, RangeOf
<1>9. file \in [Files -> Seq(Row)] /\ file["batch"] = rows /\ file["slug"] = <<>>
  <2>1. <<>> \in Seq(Row)
    OBVIOUS
  <2>2. QED
    BY <1>1, <1>5, <2>1 DEF Files
<1>10. \A f \in Files : FileGood(f)
  BY <1>6, <1>8, <1>9 DEF FileGood, Files
<1>11. \A p \in Procs : Working(p)
  BY <1>7 DEF Working
<1>12. QED
  BY <1>7, <1>9, <1>10, <1>11 DEF CleanInv

\* The rest of the datastore has no rows, and a step that is none of a tool's keeps them.
LEMMA DatastoreSafe ==
  ASSUME CleanInv,
         \/ InstallToolchain \/ (\E r \in Runs : DeleteVendor(r) \/ DeleteOpen(r))
         \/ UNCHANGED vars
  PROVE  CleanInv'
<1>1. UNCHANGED <<file, procs, batch, published, promoted, clean>>
  BY DEF InstallToolchain, DeleteVendor, DeleteOpen, vars, hist, disk
<1>2. UNCHANGED <<pc, tool, known, todo, out>>
  BY <1>1 DEF procs
<1>3. \A f \in Files : FileGood(f)' = FileGood(f)
  BY <1>1 DEF FileGood, Whole, Covers, Distinct, RunsIn, RangeOf
<1>4. \A p \in Procs : \A f : Rewrites(p, f)' = Rewrites(p, f)
  BY <1>2 DEF Rewrites
<1>5. ASSUME NEW p \in Procs, Working(p) PROVE Working(p)'
  <2>1. Held(p)' = Held(p)
    BY <1>2 DEF Held
  <2>2. /\ Whole(Held(p)) => Whole(Held(p))'
        /\ Partial(Held(p)) => Partial(Held(p))'
        /\ Covers(Held(p)) => Covers(Held(p))'
    BY <1>1, <2>1, HeldAfter DEF Whole, Partial
  <2>3. RunsIn(file["slug"])' = RunsIn(file["slug"]) /\ RunsIn(out[p])' = RunsIn(out[p])
    BY <1>1, <1>2 DEF RunsIn, RangeOf
  <2>4. QED
    BY <1>1, <1>2, <1>5, <2>2, <2>3 DEF Working
<1>6. QED
  BY <1>1, <1>2, <1>3, <1>4, <1>5 DEF CleanInv

\* While no two tools overlap and none is killed, each has in hand what its file is to be.
LEMMA CleanInvHolds == Spec => []CleanInv
<1>1. Init /\ Inv => CleanInv
  BY InitIsClean
<1>2. Inv /\ Inv' /\ ToolInv /\ CleanInv /\ [Next]_vars => CleanInv'
  <2> SUFFICES ASSUME Inv, Inv', ToolInv, CleanInv, [Next]_vars PROVE CleanInv'
    OBVIOUS
  <2>1. CASE \E p \in Procs : Step(p)
    <3>1. CASE clean'
      BY <2>1, <3>1, StepSafe
    <3>2. CASE ~clean'
      BY <3>2 DEF CleanInv
    <3>3. QED
      BY <3>1, <3>2
  <2>2. CASE ~\E p \in Procs : Step(p)
    BY <2>2, DatastoreSafe DEF Next
  <2>3. QED
    BY <2>1, <2>2
<1>3. QED
  BY <1>1, <1>2, InvHolds, ToolInvHolds, PTL DEF Spec

\* Tools that run one after the other and to their end lose no run, whatever
\* their number and order: the batch file keeps every run of the batch, and the
\* slug every run that was ever published, though recompare_rows.py and
\* rederive_verdicts.py rewrite it whole from what they read before.
THEOREM NoRunIsLost == Spec => []NothingLost
<1>1. CleanInv => NothingLost
  BY DEF CleanInv, NothingLost, Quiet, FileGood, Files, Rewrites, Whole, Covers
<1>2. QED
  BY <1>1, CleanInvHolds, PTL

\* merge_sweep_rows.py skips a run id that is there: without promote_rows.py no
\* run is in the slug twice, however often the batch is merged or recompared.
THEOREM MergesOnce == Spec => []MergedOnce
<1>1. CleanInv => MergedOnce
  BY DEF CleanInv, MergedOnce, Quiet, FileGood, Files, Rewrites, Covers, Distinct
<1>2. QED
  BY <1>1, CleanInvHolds, PTL

=============================================================================
