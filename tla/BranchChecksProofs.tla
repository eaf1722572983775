------------------------- MODULE BranchChecksProofs -------------------------
(***************************************************************************)
(* That a pass of the two checkers, and a green gate, vouch for the rows   *)
(* in the tree, and that the verdicts are exact where they should be, for  *)
(* every tree, table, scope and number of writes.                          *)
(***************************************************************************)
EXTENDS BranchChecks, SequenceTheorems, FiniteSetTheorems, WellFoundedInduction, TLAPS

-----------------------------------------------------------------------------
(* Positions. *)

\* Of finitely many numbers there is a least one, and First chooses it.
LEMMA FirstIsLeast ==
  ASSUME NEW T, T \subseteq Nat, IsFiniteSet(T), T # {}
  PROVE  First(T) \in T /\ \A j \in T : First(T) <= j
<1> DEFINE below(i) == {j \in T : j < i}
           family   == {X \in SUBSET T : \E i \in T : X = below(i)}
<1>1. PICK i0 \in T : TRUE
  OBVIOUS
<1>2. below(i0) \in family
  OBVIOUS
<1>3. FiniteSubsetsOf(T) = SUBSET T
  BY FS_FiniteSubsetsOfFinite
<1>4. IsWellFoundedOn(StrictSubsetOrdering(T), SUBSET T)
  BY <1>3, FS_StrictSubsetOrderingWellFounded
<1>5. PICK X \in family : \A Y \in family : <<Y, X>> \notin StrictSubsetOrdering(T)
  <2>1. family \subseteq SUBSET T /\ family # {}
    BY <1>2
  <2> HIDE DEF family
  <2>2. QED
    BY <1>4, <2>1, WFMin
<1>6. PICK i \in T : X = below(i)
  OBVIOUS
<1>7. \A j \in T : i <= j
  <2> SUFFICES ASSUME NEW j \in T, ~(i <= j)
               PROVE  FALSE
    OBVIOUS
  <2>1. j < i
    OBVIOUS
  <2>2. below(j) \in family
    OBVIOUS
  <2>3. below(j) \subseteq X /\ below(j) # X
    <3>1. j \in X /\ j \notin below(j)
      BY <1>6, <2>1
    <3>2. \A k \in T : k < j => k < i
      BY <2>1
    <3>3. QED
      BY <1>6, <3>1, <3>2
  <2>4. QED
    BY <1>5, <2>2, <2>3 DEF StrictSubsetOrdering
<1>8. QED
  BY <1>7 DEF First

\* A position of a sequence that is left to be treated.
LEMMA FirstOfSeq ==
  ASSUME NEW S, NEW s \in Seq(S), NEW T, T \subseteq DOMAIN s, T # {}
  PROVE  /\ First(T) \in T
         /\ First(T) \in 1..Len(s)
         /\ s[First(T)] \in S
<1>1. DOMAIN s = 1..Len(s) /\ Len(s) \in Nat
  BY LenProperties
<1>2. IsFiniteSet(T)
  <2>1. IsFiniteSet(1..Len(s))
    BY <1>1, FS_Interval
  <2>2. T \in SUBSET (1..Len(s))
    BY <1>1
  <2>3. QED
    BY <2>1, <2>2, FS_Subset
<1>3. First(T) \in T
  BY <1>1, <1>2, FirstIsLeast
<1>4. QED
  BY <1>1, <1>3, ElementOfSeq

-----------------------------------------------------------------------------
(* Types. *)

\* The first state has the types it should have.
LEMMA InitTypes == Init => TypeOK
<1> SUFFICES ASSUME Init PROVE TypeOK
  OBVIOUS
<1>1. TreeTypeOK
  <2>1. PICK t \in Trees :
           /\ table = t.table /\ summaries = t.summaries /\ claims = t.claims
           /\ runs = t.runs /\ hasRuns = t.hasRuns
           /\ reached = t.reached /\ hasReport = t.hasReport
           /\ mask = t.mask /\ vendorFs = t.vendorFs /\ openFs = t.openFs
           /\ writing = [s \in Slugs |-> {}]
           /\ writes = t.writes
    BY DEF Init, TreeInit
  <2>2. t \in InitialTrees /\ \A s \in Slugs \ t.hasRuns : t.runs[s] = <<>>
    BY TreesAssumption
  <2>3. QED
    BY <2>1, <2>2 DEF TreeTypeOK, InitialTrees
<1>2. ETypeOK
  <2>1. <<>> \in Seq(TableRow) /\ <<>> \in Seq(Line)
    OBVIOUS
  <2>2. DOMAIN (<<>>) = {}
    OBVIOUS
  <2>3. QED
    BY <1>1, <2>1, <2>2, NMasksAssumption DEF Init, EInit, ETypeOK, TreeTypeOK
<1>3. CTypeOK
  <2>1. <<>> \in Seq(TableRow)
    OBVIOUS
  <2>2. cOpts \in Option
    BY DEF Init, CInit, Option
  <2>3. QED
    BY <1>1, <2>1, <2>2, NMasksAssumption DEF Init, CInit, CTypeOK, NoRows, TreeTypeOK
<1>4. QED
  BY <1>1, <1>2, <1>3 DEF TypeOK, Init

\* Replacing the last line of a file, or adding one, leaves a file.
LEMMA Files ==
  ASSUME NEW s \in Slugs, runs \in [Slugs -> Seq(Line)], NEW l \in Line
  PROVE  /\ [runs EXCEPT ![s] = Append(@, l)] \in [Slugs -> Seq(Line)]
         /\ [runs EXCEPT ![s] = [@ EXCEPT ![Len(@)] = l]] \in [Slugs -> Seq(Line)]
         /\ Append(runs[s], l) # <<>>
         /\ Len(Append(runs[s], l)) = Len(runs[s]) + 1
         /\ Append(runs[s], l)[Len(runs[s]) + 1] = l
<1>1. runs[s] \in Seq(Line) /\ Len(runs[s]) \in Nat
  BY LenProperties
<1>2. Append(runs[s], l) \in Seq(Line)
  BY <1>1, AppendProperties
<1>3. [runs[s] EXCEPT ![Len(runs[s])] = l] \in Seq(Line)
  <2>1. CASE Len(runs[s]) = 0
    <3>1. runs[s] = <<>>
      BY <1>1, <2>1, EmptySeq
    <3>2. [runs[s] EXCEPT ![Len(runs[s])] = l] = runs[s]
      BY <3>1, <2>1
    <3>3. QED
      BY <1>1, <3>2
  <2>2. CASE Len(runs[s]) # 0
    BY <1>1, <2>2, ExceptSeq, LenProperties
  <2>3. QED
    BY <2>1, <2>2
<1>4. QED
  BY <1>1, <1>2, <1>3, AppendProperties

\* Half a line is a line.
LEMMA HalfLine ==
  ASSUME NEW l \in Lines
  PROVE  l \in Line /\ l.form # "torn" /\ [l EXCEPT !.form = "torn"] \in Line
         /\ [l EXCEPT !.form = "torn"].form = "torn"
  BY LinesAssumption DEF Line

\* Writes that add to the tree leave it a tree.
LEMMA GrowTypes == TreeTypeOK /\ Grow => TreeTypeOK'
<1> SUFFICES ASSUME TreeTypeOK, Grow PROVE TreeTypeOK'
  OBVIOUS
<1> USE DEF TreeTypeOK
<1>1. ASSUME NEW s \in Slugs, EndAppend(s) PROVE TreeTypeOK'
  <2>1. PICK l \in writing[s] :
          /\ runs' = [runs EXCEPT ![s] = [@ EXCEPT ![Len(@)] = l]]
          /\ writing' = [writing EXCEPT ![s] = {}]
          /\ UNCHANGED <<table, summaries, claims, hasRuns, reached, hasReport, mask,
                         vendorFs, openFs, writes>>
    BY <1>1 DEF EndAppend
  <2>2. l \in Line /\ s \in hasRuns
    BY HalfLine
  <2>3. runs' \in [Slugs -> Seq(Line)]
    BY <2>1, <2>2, Files
  <2>4. \A r \in Slugs \ {s} : runs'[r] = runs[r] /\ writing'[r] = writing[r]
    BY <2>1
  <2>5. writing'[s] = {} /\ writing' \in [Slugs -> SUBSET Lines]
    BY <2>1
  <2>6. QED
    BY <2>1, <2>2, <2>3, <2>4, <2>5
<1>2. ASSUME NEW s \in Slugs, KillWriter(s) PROVE TreeTypeOK'
  BY <1>2 DEF KillWriter, content
<1>3. ASSUME NEW s \in Slugs, NEW l \in Lines, Write(BeginAppend(s, l)) PROVE TreeTypeOK'
  <2> DEFINE half == [l EXCEPT !.form = "torn"]
  <2>1. half \in Line /\ half.form = "torn"
    BY HalfLine
  <2>2. /\ runs' = [runs EXCEPT ![s] = Append(@, half)]
        /\ hasRuns' = hasRuns \cup {s}
        /\ writing' = [writing EXCEPT ![s] = {l}]
        /\ writes' \in Nat
        /\ UNCHANGED <<table, summaries, claims, reached, hasReport, mask, vendorFs, openFs>>
    BY <1>3 DEF Write, BeginAppend
  <2> HIDE DEF half
  <2>3. /\ runs' \in [Slugs -> Seq(Line)]
        /\ runs'[s] # <<>> /\ Len(runs'[s]) = Len(runs[s]) + 1
        /\ runs'[s][Len(runs[s]) + 1] = half
    BY <2>1, <2>2, Files
  <2>4. \A r \in Slugs \ {s} : runs'[r] = runs[r] /\ writing'[r] = writing[r]
    BY <2>2
  <2>5. writing'[s] = {l} /\ writing' \in [Slugs -> SUBSET Lines]
    BY <2>2
  <2>6. QED
    BY <2>1, <2>2, <2>3, <2>4, <2>5
<1>4. ASSUME NEW s \in Slugs, NEW cs \in SUBSET Criteria, Write(WriteSummary(s, cs))
      PROVE  TreeTypeOK'
  BY <1>4 DEF Write, WriteSummary
<1>5. ASSUME NEW n \in Phases, NEW cs \in SUBSET Criteria, Write(WriteReport(n, cs))
      PROVE  TreeTypeOK'
  BY <1>5 DEF Write, WriteReport
<1>6. ASSUME NEW r \in Runs, Write(DeleteArtefacts(r)) PROVE TreeTypeOK'
  BY <1>6, NBuildsAssumption DEF Write, DeleteArtefacts
<1>7. QED
  BY <1>1, <1>2, <1>3, <1>4, <1>5, <1>6 DEF Grow

\* So do those that take something back.
LEMMA ReviseTypes == TreeTypeOK /\ Revise => TreeTypeOK'
<1> SUFFICES ASSUME TreeTypeOK, Revise PROVE TreeTypeOK'
  OBVIOUS
<1> USE DEF TreeTypeOK
<1>1. ASSUME NEW s \in Slugs, Write(Truncate(s)) PROVE TreeTypeOK'
  <2>1. /\ s \in hasRuns /\ writing[s] = {}
        /\ runs' = [runs EXCEPT ![s] = <<>>]
        /\ writes' \in Nat
        /\ UNCHANGED <<table, summaries, claims, hasRuns, reached, hasReport, mask,
                       vendorFs, openFs, writing>>
    BY <1>1 DEF Write, Truncate
  <2>2. runs' \in [Slugs -> Seq(Line)]
    BY <2>1
  <2>3. \A r \in Slugs \ {s} : runs'[r] = runs[r]
    BY <2>1
  <2>4. QED
    BY <2>1, <2>2, <2>3
<1>2. ASSUME NEW i \in DOMAIN table, NEW e \in Edits, Write(EditTable(i, e[1], e[2]))
      PROVE  TreeTypeOK'
  <2>1. e[1] \in Declared /\ e[2] \in BOOLEAN
    BY EditsAssumption
  <2>2. /\ table' = [table EXCEPT ![i] = [@ EXCEPT !.declared = e[1], !.blocked = e[2]]]
        /\ writes' \in Nat
        /\ UNCHANGED <<summaries, claims, runs, hasRuns, reached, hasReport, mask,
                       vendorFs, openFs, writing>>
    BY <1>2 DEF Write, EditTable
  <2>3. i \in 1..Len(table) /\ table[i] \in TableRow
    BY LenProperties, ElementOfSeq
  <2>4. [table[i] EXCEPT !.declared = e[1], !.blocked = e[2]] \in TableRow
    BY <2>1, <2>3 DEF TableRow
  <2>5. table' \in Seq(TableRow)
    BY <2>2, <2>3, <2>4, ExceptSeq
  <2>6. QED
    BY <2>2, <2>5
<1>3. ASSUME NEW v \in 0..NMasks, Write(ChangeMask(v)) PROVE TreeTypeOK'
  BY <1>3 DEF Write, ChangeMask
<1>4. QED
  BY <1>1, <1>2, <1>3 DEF Revise

-----------------------------------------------------------------------------
(* Types: the checkers. *)

\* What the walk and the sweep find are findings.
LEMMA FindingTypes ==
  ASSUME ETypeOK, TreeTypeOK, NEW id \in Prims \cup Slugs, NEW S, S \subseteq FindingKinds
  PROVE  eFindings \cup {<<k, id>> : k \in S} \subseteq FindingKinds \X (Prims \cup Slugs)
  BY DEF ETypeOK

\* The primitive at hand is one of the table in scope.
LEMMA PrimitiveType ==
  ASSUME ETypeOK, eTodo # {}
  PROVE  /\ First(eTodo) \in eTodo
         /\ Primitive \in TableRow
         /\ Primitive.id \in Prims /\ Primitive.slug \in eScope /\ Primitive.slug \in Slugs
<1>1. First(eTodo) \in eTodo /\ Primitive \in TableRow
  BY FirstOfSeq DEF ETypeOK, Primitive
<1>2. QED
  BY <1>1 DEF ETypeOK, Primitive, TableRow

\* Whatever check_evidence does keeps its types.
LEMMA EvidenceTypes ==
  ASSUME TreeTypeOK, ETypeOK, EvidenceStep
  PROVE  ETypeOK'
<1> DEFINE Findings == FindingKinds \X (Prims \cup Slugs)
<1>s. ASSUME eTodo # {} PROVE Status(Primitive) \subseteq Findings
  BY <1>s, PrimitiveType DEF Status, FindingKinds
<1>c. eCounts \in [rows : Nat, pending : Nat]
  BY DEF ETypeOK
<1>1. CASE Pending
  <2>1. eFindings' \subseteq Findings
    BY <1>1, <1>s DEF Pending, ETypeOK
  <2>2. eCounts' \in [rows : Nat, pending : Nat]
    <3>1. eCounts' = [eCounts EXCEPT !.pending = @ + 1]
      BY <1>1 DEF Pending
    <3>2. QED
      BY <1>c, <3>1
  <2>3. QED
    BY <1>1, <2>1, <2>2 DEF Pending, Walked, ETypeOK, eHist
<1>2. CASE Unreadable
  <2>1. eFindings' \subseteq Findings
    BY <1>2, <1>s, PrimitiveType DEF Unreadable, ETypeOK, FindingKinds
  <2>2. QED
    BY <1>2, <2>1 DEF Unreadable, Walked, ETypeOK, eHist
<1>3. CASE ReadRows
  <2>1. eFindings' \subseteq Findings
    BY <1>3, <1>s DEF ReadRows, ETypeOK
  <2>2. eLines' \in Seq(Line) /\ eRows' \subseteq DOMAIN eLines'
    BY <1>3, PrimitiveType DEF ReadRows, Matching, TreeTypeOK
  <2>3. QED
    BY <1>3, <2>1, <2>2 DEF ReadRows, ETypeOK, eHist
<1>4. CASE JudgeRow
  <2> DEFINE found == RowFindings(eLines[First(eRows)], eMask, vendorFs, openFs)
  <2>1. found \subseteq FindingKinds
    BY DEF RowFindings, FindingKinds
  <2>2. eTodo # {}
    BY <1>4 DEF JudgeRow, ETypeOK
  <2>3. eFindings' \subseteq Findings
    <3> HIDE DEF found
    <3>1. eFindings' = eFindings \cup {<<k, Primitive.id>> : k \in found}
      BY <1>4 DEF JudgeRow, found
    <3>2. QED
      BY <2>1, <2>2, <3>1, PrimitiveType, FindingTypes
  <2>4. eCounts' \in [rows : Nat, pending : Nat]
    <3>1. eCounts' = eCounts \/ eCounts' = [eCounts EXCEPT !.rows = @ + 1]
      BY <1>4 DEF JudgeRow
    <3>2. QED
      BY <1>c, <3>1
  <2>5. QED
    BY <1>4, <2>3, <2>4 DEF JudgeRow, ETypeOK, eHist
<1>5. CASE RowsJudged
  BY <1>5 DEF RowsJudged, Walked, ETypeOK, eHist
<1>6. CASE Discover
  BY <1>6 DEF Discover, ETypeOK, eHist
<1>7. CASE SweepFile
  <2>1. SlugNames[First(eFiles)] \in Slugs
    BY <1>7, FirstOfSeq, SlugNamesAssumption DEF SweepFile, ETypeOK
  <2>2. eFindings' \subseteq Findings
    BY <1>7, <2>1 DEF SweepFile, SweepFindings, FindingKinds, ETypeOK
  <2>3. QED
    BY <1>7, <2>2 DEF SweepFile, ETypeOK, eHist
<1>8. CASE EndEvidence
  BY <1>8 DEF EndEvidence, ETypeOK, eHist
<1>9. QED
  BY <1>1, <1>2, <1>3, <1>4, <1>5, <1>6, <1>7, <1>8 DEF EvidenceStep

\* Whatever check_criteria does keeps its types.
LEMMA CriteriaTypes ==
  ASSUME TreeTypeOK, CTypeOK, CriteriaStep
  PROVE  CTypeOK'
<1>1. CASE LoadSlug
  <2>1. SlugNames[First(cListing)] \in Slugs
    BY <1>1, FirstOfSeq, SlugNamesAssumption DEF LoadSlug, CTypeOK
  <2>2. JsonLines(runs[SlugNames[First(cListing)]]) \subseteq {l \in Line : l.form # "torn"}
    <3>1. runs[SlugNames[First(cListing)]] \in Seq(Line)
      BY <2>1 DEF TreeTypeOK
    <3>2. RangeOf(runs[SlugNames[First(cListing)]]) \subseteq Line
      BY <3>1, ElementOfSeq, LenProperties DEF RangeOf
    <3>3. QED
      BY <3>2 DEF JsonLines
  <2>3. cRows' \in [Slugs -> SUBSET {l \in Line : l.form # "torn"}]
    BY <1>1, <2>1, <2>2 DEF LoadSlug, CTypeOK
  <2>4. QED
    BY <1>1, <2>3 DEF LoadSlug, CTypeOK, cResult, cHist
<1>2. CASE Resolve
  BY <1>2 DEF Resolve, Selected, CTypeOK, cResult, cHist
<1>3. CASE EvaluateRow
  <2>1. First(cTargets) \in cTargets
    BY <1>3, FirstOfSeq DEF EvaluateRow, CTypeOK
  <2>2. cMet' \in Nat /\ cUnmet' \subseteq DOMAIN cTable
    BY <1>3, <2>1 DEF EvaluateRow, CTypeOK
  <2>3. QED
    BY <1>3, <2>2 DEF EvaluateRow, CTypeOK, cHist
<1>4. CASE ReadReport
  <2>1. ReportOf(cOpts) \in Phases \cup {None}
    BY DEF ReportOf, CTypeOK, Option, TreeTypeOK
  <2>2. cReached' \subseteq Criteria
    BY <1>4 DEF ReadReport, TreeTypeOK
  <2>3. QED
    BY <1>4, <2>1, <2>2 DEF ReadReport, CTypeOK, cHist
<1>5. CASE ReadClaims
  BY <1>5 DEF ReadClaims, CTypeOK, cHist
<1>6. CASE EndCriteria
  BY <1>6 DEF EndCriteria, CTypeOK, cResult, cHist
<1>7. QED
  BY <1>1, <1>2, <1>3, <1>4, <1>5, <1>6 DEF CriteriaStep

\* A checker that starts reads a tree.
LEMMA StartTypes ==
  ASSUME TypeOK
  PROVE  /\ \A scope \in SUBSET Slugs : StartEvidence(scope) => ETypeOK'
         /\ \A o \in Option : StartCriteria(o) => CTypeOK'
<1> USE DEF TypeOK
<1>1. ASSUME NEW scope \in SUBSET Slugs, StartEvidence(scope) PROVE ETypeOK'
  <2>1. eStart' \in [table : Seq(TableRow), runs : [Slugs -> Seq(Line)], hasRuns : SUBSET Slugs,
                     mask : 0..NMasks, vendorFs : SUBSET Runs, openFs : [Runs -> 0..NBuilds]]
    BY <1>1 DEF StartEvidence, TreeTypeOK
  <2>2. eTable' \in Seq(TableRow) /\ eTodo' \subseteq DOMAIN eTable'
        /\ \A i \in eTodo' : eTable'[i].slug \in scope
    BY <1>1 DEF StartEvidence, TreeTypeOK
  <2>3. QED
    BY <1>1, <2>1, <2>2 DEF StartEvidence, ETypeOK, TreeTypeOK
<1>2. ASSUME NEW o \in Option, StartCriteria(o) PROVE CTypeOK'
  <2>1. cStart' \in [table : Seq(TableRow), runs : [Slugs -> Seq(Line)],
                     claims : [Slugs -> SUBSET Criteria],
                     reached : [Phases -> SUBSET Criteria],
                     hasReport : SUBSET Phases, mask : 0..NMasks]
    BY <1>2 DEF StartCriteria, TreeTypeOK
  <2>2. cTable' \in Seq(TableRow) /\ cListing' \subseteq DOMAIN SlugNames
    BY <1>2 DEF StartCriteria, TreeTypeOK
  <2>3. cTargets' = {} /\ cUnmet' = {} /\ cPc' = "load"
    BY <1>2 DEF StartCriteria, CTypeOK, cResult
  <2>4. QED
    BY <1>2, <2>1, <2>2, <2>3 DEF StartCriteria, CTypeOK, cResult
<1>3. QED
  BY <1>1, <1>2

\* Every step keeps the types.
LEMMA NextTypes == TypeOK /\ [Next]_vars => TypeOK'
<1> SUFFICES ASSUME TypeOK, [Next]_vars PROVE TypeOK'
  OBVIOUS
<1>0. TreeTypeOK /\ ETypeOK /\ CTypeOK
  BY DEF TypeOK
<1>t. ASSUME UNCHANGED tree PROVE TreeTypeOK'
  BY <1>0, <1>t DEF tree, content, TreeTypeOK
<1>e. ASSUME UNCHANGED <<eVars, eHist>> PROVE ETypeOK'
  BY <1>0, <1>e DEF eVars, eHist, ETypeOK
<1>c. ASSUME UNCHANGED <<cVars, cHist>> PROVE CTypeOK'
  BY <1>0, <1>c DEF cVars, cResult, cHist, CTypeOK
<1>o. GateOptions \in Option
  BY GatePhaseAssumption DEF GateOptions, Option
<1>1. CASE EvidenceStep /\ UNCHANGED <<tree, cVars, cHist, gate>>
  BY <1>0, <1>1, <1>t, <1>c, EvidenceTypes DEF TypeOK
<1>2. CASE CriteriaStep /\ UNCHANGED <<tree, eVars, eHist, gate>>
  BY <1>0, <1>2, <1>t, <1>e, CriteriaTypes DEF TypeOK
<1>3. CASE MakeEvidence
  BY <1>3, <1>t, <1>c, StartTypes DEF MakeEvidence, WholeTree, TypeOK
<1>4. CASE MakeCriteria
  BY <1>4, <1>t, <1>e, <1>o, StartTypes DEF MakeCriteria, TypeOK
<1>5. CASE MakeEnds
  BY <1>5, <1>t, <1>e, <1>c DEF MakeEnds, TypeOK
<1>6. CASE EvidenceByHand
  BY <1>6, <1>t, <1>c, StartTypes, ScopesAssumption DEF EvidenceByHand, TypeOK
<1>7. CASE CriteriaByHand
  BY <1>7, <1>t, <1>e, StartTypes, OptionsAssumption DEF CriteriaByHand, TypeOK
<1>8. CASE TreeGrows
  BY <1>0, <1>8, <1>e, <1>c, GrowTypes DEF TreeGrows, TypeOK
<1>9. CASE TreeIsRevised
  <2>1. ETypeOK'
    BY <1>0, <1>9 DEF TreeIsRevised, eVars, ETypeOK
  <2>2. CTypeOK'
    BY <1>0, <1>9 DEF TreeIsRevised, cVars, cResult, CTypeOK
  <2>3. QED
    BY <1>0, <1>9, <2>1, <2>2, ReviseTypes DEF TreeIsRevised, TypeOK
<1>10. CASE UNCHANGED vars
  BY <1>10, <1>t, <1>e, <1>c DEF vars, TypeOK
<1>11. QED
  BY <1>1, <1>2, <1>3, <1>4, <1>5, <1>6, <1>7, <1>8, <1>9, <1>10 DEF Next, Checks

\* Type correctness: the two checkers, the tree they read and make's state keep
\* their types, for every tree, every command line and every number of writes.
THEOREM TypeCorrect == Spec => []TypeOK
<1>1. Init => TypeOK
  BY InitTypes
<1>2. TypeOK /\ [Next]_vars => TypeOK'
  BY NextTypes
<1>3. QED
  BY <1>1, <1>2, PTL DEF Spec

-----------------------------------------------------------------------------
(* What a file holds, while the tree only grows. *)

\* The whole lines of the files, slug by slug.
LEMMA RowsInFile ==
  ASSUME NEW files \in [Slugs -> Seq(Line)], NEW s \in Slugs
  PROVE  /\ RowsIn(files)[s] = {l \in RangeOf(files[s]) : l.form # "torn"}
         /\ RowsIn(files)[s] \subseteq Line
         /\ \A l \in RowsIn(files)[s] : \E k \in DOMAIN files[s] : files[s][k] = l
<1>1. files[s] \in Seq(Line)
  OBVIOUS
<1>2. \A k \in DOMAIN files[s] : files[s][k] \in Line
  BY <1>1, ElementOfSeq, LenProperties
<1>3. RowsIn(files)[s] = {l \in RangeOf(files[s]) : l.form # "torn"}
  BY DEF RowsIn
<1>4. QED
  BY <1>2, <1>3 DEF RangeOf

\* A tree that grows keeps its whole lines, its table and its mask; its
\* artefacts stay or go, and no other takes their place.
LEMMA GrowKeeps ==
  ASSUME TreeTypeOK, Grow
  PROVE  /\ \A s \in Slugs : RowsIn(runs)[s] \subseteq RowsIn(runs')[s]
         /\ table' = table /\ mask' = mask
         /\ vendorFs' \subseteq vendorFs
         /\ \A r \in Runs : openFs'[r] \in {0, openFs[r]}
<1>0. runs \in [Slugs -> Seq(Line)] /\ runs' \in [Slugs -> Seq(Line)]
  BY GrowTypes DEF TreeTypeOK
<1>s. ASSUME runs' = runs PROVE \A s \in Slugs : RowsIn(runs)[s] \subseteq RowsIn(runs')[s]
  BY <1>s
<1>f. ASSUME NEW s \in Slugs,
             \A r \in Slugs \ {s} : runs'[r] = runs[r],
             \A l \in RangeOf(runs[s]) : l.form # "torn" => l \in RangeOf(runs'[s])
      PROVE  \A r \in Slugs : RowsIn(runs)[r] \subseteq RowsIn(runs')[r]
  <2> SUFFICES ASSUME NEW r \in Slugs PROVE RowsIn(runs)[r] \subseteq RowsIn(runs')[r]
    OBVIOUS
  <2>1. /\ RowsIn(runs)[r] = {l \in RangeOf(runs[r]) : l.form # "torn"}
        /\ RowsIn(runs')[r] = {l \in RangeOf(runs'[r]) : l.form # "torn"}
    BY <1>0, RowsInFile
  <2>2. CASE r = s
    BY <1>f, <2>1, <2>2
  <2>3. CASE r # s
    BY <1>f, <2>1, <2>3
  <2>4. QED
    BY <2>2, <2>3
<1>1. ASSUME NEW s \in Slugs, EndAppend(s)
      PROVE  \A r \in Slugs : RowsIn(runs)[r] \subseteq RowsIn(runs')[r]
  <2>1. PICK l \in writing[s] : runs' = [runs EXCEPT ![s] = [@ EXCEPT ![Len(@)] = l]]
    BY <1>1 DEF EndAppend
  <2>2. runs[s][Len(runs[s])].form = "torn"
    BY DEF TreeTypeOK
  <2>3. runs[s] \in Seq(Line) /\ runs'[s] = [runs[s] EXCEPT ![Len(runs[s])] = l]
    BY <1>0, <2>1
  <2>4. DOMAIN runs'[s] = DOMAIN runs[s]
        /\ \A k \in DOMAIN runs[s] : k # Len(runs[s]) => runs'[s][k] = runs[s][k]
    BY <2>3
  <2>5. \A m \in RangeOf(runs[s]) : m.form # "torn" => m \in RangeOf(runs'[s])
    BY <2>2, <2>4 DEF RangeOf
  <2>6. \A r \in Slugs \ {s} : runs'[r] = runs[r]
    BY <1>0, <2>1
  <2>7. QED
    BY <2>5, <2>6, <1>f
<1>2. ASSUME NEW s \in Slugs, NEW l \in Lines, BeginAppend(s, l)
      PROVE  \A r \in Slugs : RowsIn(runs)[r] \subseteq RowsIn(runs')[r]
  <2> DEFINE half == [l EXCEPT !.form = "torn"]
  <2>1. runs' = [runs EXCEPT ![s] = Append(@, half)]
    BY <1>2 DEF BeginAppend
  <2>h. half \in Line
    BY HalfLine
  <2> HIDE DEF half
  <2>2. runs[s] \in Seq(Line) /\ runs'[s] = Append(runs[s], half)
    BY <1>0, <2>1
  <2>3. \A k \in DOMAIN runs[s] : k \in DOMAIN runs'[s] /\ runs'[s][k] = runs[s][k]
    BY <2>2, <2>h, AppendProperties, LenProperties
  <2>4. \A m \in RangeOf(runs[s]) : m \in RangeOf(runs'[s])
    BY <2>3 DEF RangeOf
  <2>5. \A r \in Slugs \ {s} : runs'[r] = runs[r]
    BY <1>0, <2>1
  <2>6. QED
    BY <2>4, <2>5, <1>f
<1>3. \A s \in Slugs : RowsIn(runs)[s] \subseteq RowsIn(runs')[s]
  BY <1>1, <1>2, <1>s
     DEF Grow, Write, KillWriter, WriteSummary, WriteReport, DeleteArtefacts, content
<1>4. table' = table /\ mask' = mask
  BY DEF Grow, Write, EndAppend, BeginAppend, KillWriter, WriteSummary, WriteReport,
         DeleteArtefacts, content
<1>5. vendorFs' \subseteq vendorFs /\ \A r \in Runs : openFs'[r] \in {0, openFs[r]}
  <2>1. CASE vendorFs' = vendorFs /\ openFs' = openFs
    BY <2>1
  <2>2. CASE \E r \in Runs : DeleteArtefacts(r)
    BY <2>2 DEF DeleteArtefacts, TreeTypeOK
  <2>3. QED
    BY <2>1, <2>2 DEF Grow, Write, EndAppend, BeginAppend, KillWriter, WriteSummary,
                      WriteReport, content
<1>6. QED
  BY <1>3, <1>4, <1>5

-----------------------------------------------------------------------------
(* check_evidence. *)

\* What a pass says of one primitive.
Vouched(t) == ~t.blocked /\ \A l \in OwnRows(eStart.runs, t) : AdmittedAtStart(l)

\* The tree against the one the walk started from.
EKept ==
  /\ \A s \in Slugs : RowsIn(eStart.runs)[s] \subseteq RowsIn(runs)[s]
  /\ eTable = eStart.table /\ eMask = eStart.mask
  /\ table = eStart.table
  /\ vendorFs \subseteq eStart.vendorFs
  /\ \A r \in Runs : openFs[r] \in {0, eStart.openFs[r]}

\* A primitive that was walked without a finding is vouched for.
WalkedVouched ==
  \A i \in DOMAIN eTable \ eTodo :
    eTable[i].slug \in eScope /\ eFindings = {} => Vouched(eTable[i])

\* Of the primitive at hand each row is admitted or still to be judged.
HandVouched ==
  ePc = "judge" /\ eFindings = {} =>
    /\ ~Primitive.blocked
    /\ \A l \in OwnRows(eStart.runs, Primitive) :
         AdmittedAtStart(l) \/ \E k \in eRows : eLines[k] = l

EEnds ==
  /\ ePc \in {"sweep", "passed", "failed"} => eTodo = {}
  /\ ePc = "passed" => eFindings = {}

EProgress == EKept /\ WalkedVouched /\ HandVouched /\ EEnds

EInv == ePc # "idle" /\ eGrown => EProgress

\* A row the walk has no finding of is admissible on the disk of the start.
LEMMA NoFindingAdmits ==
  ASSUME TypeOK, EKept, NEW l \in Line, RowFindings(l, eMask, vendorFs, openFs) = {}
  PROVE  AdmittedAtStart(l)
<1> DEFINE bad(k) == CASE k = "verdict"  -> ~VerdictFits(l.row)
                       [] k = "mask"     -> ~MaskFits(l, eMask)
                       [] k = "residual" -> l.row.found.residual \notin {"none", "listed"}
                       [] k = "paths"    -> ~l.paths
                       [] k = "artefact" -> ~ArtefactsResolve(l.row, vendorFs, openFs)
           kinds  == {"verdict", "mask", "residual", "paths", "artefact"}
<1>1. RunRowValid(l)
  BY DEF RowFindings
<1>2. {k \in kinds : bad(k)} = {}
  BY <1>1 DEF RowFindings
<1>3. ~bad("verdict") /\ ~bad("mask") /\ ~bad("residual") /\ ~bad("paths") /\ ~bad("artefact")
  <2> HIDE DEF bad
  <2>1. QED
    BY <1>2
<1>4. VerdictFits(l.row)
  BY <1>3
<1>5. MaskFits(l, eMask)
  BY <1>3
<1>6. l.row.found.residual \in {"none", "listed"}
  BY <1>3
<1>7. l.paths
  BY <1>3
<1>8. ArtefactsResolve(l.row, vendorFs, openFs)
  BY <1>3
<1>9. ArtefactsResolve(l.row, eStart.vendorFs, eStart.openFs)
  <2>1. l.row.run \in Runs
    BY DEF Line, Row
  <2>2. QED
    BY <1>8, <2>1 DEF EKept, ArtefactsResolve
<1>10. QED
  BY <1>1, <1>4, <1>5, <1>6, <1>7, <1>9
     DEF AdmittedAtStart, Admissible, RunRowValid, EKept

\* The primitive's rows at the start are among the lines a reading finds now.
LEMMA OwnAreMatching ==
  ASSUME TypeOK, EKept, NEW t \in TableRow, t.slug \in Slugs,
         NEW l \in OwnRows(eStart.runs, t)
  PROVE  /\ l \in Line
         /\ \E k \in Matching(runs[t.slug], t.id) : runs[t.slug][k] = l
<1>1. eStart.runs \in [Slugs -> Seq(Line)] /\ runs \in [Slugs -> Seq(Line)]
  BY DEF TypeOK, ETypeOK, TreeTypeOK
<1>2. l \in RowsIn(eStart.runs)[t.slug] /\ l.prim = t.id
  BY DEF OwnRows
<1>3. l \in RowsIn(runs)[t.slug]
  BY <1>2 DEF EKept
<1>4. QED
  BY <1>1, <1>2, <1>3, RowsInFile DEF Matching

\* A tree that grows keeps what the walk has established.
LEMMA EKeptGrows ==
  ASSUME TypeOK, EKept, Grow, UNCHANGED <<eVars, eHist>>
  PROVE  EKept'
<1>1. UNCHANGED <<eStart, eTable, eMask>>
  BY DEF eVars, eHist
<1>2. /\ \A s \in Slugs : RowsIn(runs)[s] \subseteq RowsIn(runs')[s]
      /\ table' = table
      /\ vendorFs' \subseteq vendorFs
      /\ \A r \in Runs : openFs'[r] \in {0, openFs[r]}
  BY GrowKeeps DEF TypeOK
<1>3. \A s \in Slugs : RowsIn(eStart.runs)[s] \subseteq RowsIn(runs')[s]
  BY <1>2 DEF EKept
<1>4. \A r \in Runs : openFs'[r] \in {0, eStart.openFs[r]}
  BY <1>2 DEF EKept
<1>5. QED
  BY <1>1, <1>2, <1>3, <1>4 DEF EKept

\* It is the same for anything that leaves the tree and the walk's inputs alone.
LEMMA EKeptStays ==
  ASSUME EKept, UNCHANGED <<tree, eTable, eMask, eStart>>
  PROVE  EKept'
  BY DEF EKept, tree, content

\* Positions walked before stay vouched for.
LEMMA WalkedStays ==
  ASSUME WalkedVouched, UNCHANGED <<eTable, eTodo, eScope, eStart>>, eFindings \subseteq eFindings'
  PROVE  WalkedVouched'
<1>1. eFindings' = {} => eFindings = {}
  OBVIOUS
<1>2. QED
  BY <1>1 DEF WalkedVouched, Vouched, AdmittedAtStart

\* One more is, when it is vouched for as it is walked.
LEMMA WalkedGrows ==
  ASSUME WalkedVouched, UNCHANGED <<eTable, eScope, eStart>>, Walked,
         eFindings \subseteq eFindings',
         eFindings' = {} => Vouched(Primitive)
  PROVE  WalkedVouched'
<1>1. eFindings' = {} => eFindings = {}
  OBVIOUS
<1>2. SUFFICES ASSUME NEW i \in DOMAIN eTable \ eTodo', eTable[i].slug \in eScope,
                      eFindings' = {}
               PROVE  Vouched(eTable[i])
  BY DEF WalkedVouched, Vouched, AdmittedAtStart
<1>3. CASE i \in eTodo
  <2>1. i = First(eTodo)
    BY <1>3 DEF Walked
  <2>2. QED
    BY <1>2, <2>1 DEF Primitive
<1>4. CASE i \notin eTodo
  BY <1>1, <1>2, <1>4 DEF WalkedVouched
<1>5. QED
  BY <1>3, <1>4

\* A step of the walk or the sweep.
LEMMA EvidenceProgress ==
  ASSUME TypeOK, EProgress, EvidenceStep, UNCHANGED tree
  PROVE  EProgress'
<1> USE DEF eHist
<1>0. EKept /\ WalkedVouched /\ HandVouched /\ EEnds
  BY DEF EProgress
<1>p. ASSUME eTodo # {}
      PROVE  Primitive \in TableRow /\ Primitive.slug \in Slugs
  BY <1>p, PrimitiveType DEF TypeOK
<1>st. ASSUME eFindings' = {}, Status(Primitive) \subseteq eFindings'
       PROVE  ~Primitive.blocked
  BY <1>st DEF Status
<1>1. CASE Pending
  <2>1. /\ UNCHANGED <<ePc, eScope, eTable, eMask, eStart>> /\ ePc = "walk" /\ eTodo # {}
        /\ eFindings \subseteq eFindings' /\ Status(Primitive) \subseteq eFindings' /\ Walked
        /\ Primitive.slug \notin hasRuns
    BY <1>1 DEF Pending
  <2>2. OwnRows(eStart.runs, Primitive) = {}
    <3>1. runs[Primitive.slug] = <<>>
      BY <2>1, <1>p DEF TypeOK, TreeTypeOK
    <3>2. Matching(runs[Primitive.slug], Primitive.id) = {}
      BY <3>1 DEF Matching
    <3>3. QED
      BY <2>1, <1>0, <1>p, <3>2, OwnAreMatching
  <2>3. eFindings' = {} => Vouched(Primitive)
    BY <2>1, <2>2, <1>st DEF Vouched
  <2>4. WalkedVouched'
    BY <1>0, <2>1, <2>3, WalkedGrows
  <2>5. EKept'
    BY <1>0, <2>1, EKeptStays
  <2>6. QED
    BY <2>1, <2>4, <2>5 DEF EProgress, HandVouched, EEnds
<1>2. CASE Unreadable
  <2>1. /\ UNCHANGED <<ePc, eScope, eTable, eMask, eStart>> /\ ePc = "walk"
        /\ eFindings \subseteq eFindings' /\ eFindings' # {} /\ Walked
    BY <1>2 DEF Unreadable
  <2>2. WalkedVouched'
    BY <1>0, <2>1, WalkedGrows
  <2>3. EKept'
    BY <1>0, <2>1, EKeptStays
  <2>4. QED
    BY <2>1, <2>2, <2>3 DEF EProgress, HandVouched, EEnds
<1>3. CASE ReadRows
  <2>1. /\ UNCHANGED <<eScope, eTable, eTodo, eMask, eStart>> /\ ePc' = "judge" /\ eTodo # {}
        /\ eFindings \subseteq eFindings' /\ Status(Primitive) \subseteq eFindings'
        /\ eLines' = runs[Primitive.slug]
        /\ eRows' = Matching(runs[Primitive.slug], Primitive.id)
    BY <1>3 DEF ReadRows
  <2>2. Primitive' = Primitive
    BY <2>1 DEF Primitive
  <2>3. \A l \in OwnRows(eStart.runs, Primitive) : \E k \in eRows' : eLines'[k] = l
    BY <2>1, <1>0, <1>p, OwnAreMatching
  <2>4. HandVouched'
    BY <2>1, <2>2, <2>3, <1>st DEF HandVouched
  <2>5. WalkedVouched'
    BY <1>0, <2>1, WalkedStays
  <2>6. EKept'
    BY <1>0, <2>1, EKeptStays
  <2>7. QED
    BY <2>1, <2>4, <2>5, <2>6 DEF EProgress, EEnds
<1>4. CASE JudgeRow
  <2> DEFINE k0    == First(eRows)
             found == RowFindings(eLines[k0], eMask, vendorFs, openFs)
  <2>1. /\ UNCHANGED <<ePc, eScope, eTable, eTodo, eMask, eLines, eStart>>
        /\ ePc = "judge" /\ eRows # {} /\ eRows' = eRows \ {k0}
        /\ eFindings' = eFindings \cup {<<k, Primitive.id>> : k \in found}
    BY <1>4 DEF JudgeRow
  <2>2. k0 \in eRows /\ eLines[k0] \in Line
    BY <2>1, FirstOfSeq DEF TypeOK, ETypeOK
  <2>3. Primitive' = Primitive
    BY <2>1 DEF Primitive
  <2>4. eFindings' = {} => found = {} /\ eFindings = {}
    <3> HIDE DEF found
    <3>1. QED
      BY <2>1
  <2>5. eFindings' = {} => AdmittedAtStart(eLines[k0])
    BY <1>0, <2>2, <2>4, NoFindingAdmits
  <2>6. HandVouched'
    <3> SUFFICES ASSUME eFindings' = {}
                 PROVE  /\ ~Primitive.blocked
                        /\ \A l \in OwnRows(eStart.runs, Primitive) :
                             AdmittedAtStart(l) \/ \E k \in eRows' : eLines[k] = l
      BY <2>1, <2>3 DEF HandVouched, AdmittedAtStart
    <3>1. /\ ~Primitive.blocked
          /\ \A l \in OwnRows(eStart.runs, Primitive) :
               AdmittedAtStart(l) \/ \E k \in eRows : eLines[k] = l
      BY <1>0, <2>1, <2>4 DEF HandVouched
    <3> HIDE DEF k0
    <3>2. QED
      BY <3>1, <2>1, <2>5
  <2>7. WalkedVouched'
    BY <1>0, <2>1, WalkedStays
  <2>8. EKept'
    BY <1>0, <2>1, EKeptStays
  <2>9. QED
    BY <1>0, <2>1, <2>6, <2>7, <2>8 DEF EProgress, EEnds
<1>5. CASE RowsJudged
  <2>1. /\ UNCHANGED <<eScope, eTable, eMask, eFindings, eStart>> /\ ePc = "judge" /\ ePc' = "walk"
        /\ eRows = {} /\ Walked
    BY <1>5 DEF RowsJudged
  <2>2. eFindings' = {} => Vouched(Primitive)
    BY <1>0, <2>1 DEF HandVouched, Vouched
  <2>3. WalkedVouched'
    BY <1>0, <2>1, <2>2, WalkedGrows
  <2>4. EKept'
    BY <1>0, <2>1, EKeptStays
  <2>5. QED
    BY <2>1, <2>3, <2>4 DEF EProgress, HandVouched, EEnds
<1>6. CASE Discover \/ SweepFile \/ EndEvidence
  <2>1. /\ UNCHANGED <<eScope, eTable, eTodo, eMask, eStart>>
        /\ eFindings \subseteq eFindings' /\ ePc' # "judge"
    BY <1>6 DEF Discover, SweepFile, EndEvidence
  <2>2. EEnds'
    BY <1>0, <1>6 DEF Discover, SweepFile, EndEvidence, EEnds
  <2>3. WalkedVouched'
    BY <1>0, <2>1, WalkedStays
  <2>4. EKept'
    BY <1>0, <2>1, EKeptStays
  <2>5. QED
    BY <2>1, <2>2, <2>3, <2>4 DEF EProgress, HandVouched
<1>7. QED
  BY <1>1, <1>2, <1>3, <1>4, <1>5, <1>6 DEF EvidenceStep

\* A start, from which nothing has been walked.
LEMMA StartProgress ==
  ASSUME TypeOK, NEW scope, StartEvidence(scope), UNCHANGED tree
  PROVE  EProgress'
<1>1. /\ ePc' = "walk" /\ eScope' = scope /\ eTable' = table /\ eMask' = mask
      /\ eTodo' = {i \in DOMAIN table : table[i].slug \in scope}
      /\ eStart' = [table |-> table, runs |-> runs, hasRuns |-> hasRuns, mask |-> mask,
                    vendorFs |-> vendorFs, openFs |-> openFs]
  BY DEF StartEvidence
<1>2. UNCHANGED <<table, runs, vendorFs, openFs>>
  BY DEF tree, content
<1>3. EKept'
  BY <1>1, <1>2 DEF EKept
<1>4. WalkedVouched'
  BY <1>1, <1>2 DEF WalkedVouched
<1>5. QED
  BY <1>1, <1>3, <1>4 DEF EProgress, HandVouched, EEnds

\* Every step keeps the invariant of the walk.
LEMMA NextEInv == TypeOK /\ EInv /\ [Next]_vars => EInv'
<1> SUFFICES ASSUME TypeOK, EInv, [Next]_vars, ePc' # "idle", eGrown'
             PROVE  EProgress'
  BY DEF EInv
<1>s. ASSUME UNCHANGED <<tree, eVars, eHist>> PROVE EProgress'
  BY <1>s DEF EInv, eVars, eHist, tree, content, EProgress, EKept, WalkedVouched,
              HandVouched, EEnds, Vouched, AdmittedAtStart, Primitive
<1>1. CASE EvidenceStep /\ UNCHANGED <<tree, cVars, cHist, gate>>
  <2>1. ePc # "idle" /\ eGrown
    BY <1>1 DEF EvidenceStep, Pending, Unreadable, ReadRows, JudgeRow, RowsJudged, Discover,
                SweepFile, EndEvidence, eHist
  <2>2. QED
    BY <1>1, <2>1, EvidenceProgress DEF EInv
<1>2. CASE \E scope : StartEvidence(scope) /\ UNCHANGED tree
  BY <1>2, StartProgress
<1>3. CASE TreeGrows
  <2>1. ePc # "idle" /\ eGrown /\ UNCHANGED <<eVars, eHist>> /\ Grow
    BY <1>3 DEF TreeGrows, eVars, eHist
  <2>2. EKept'
    BY <2>1, EKeptGrows DEF EInv, EProgress
  <2>3. QED
    BY <2>1, <2>2 DEF EInv, eVars, eHist, EProgress, WalkedVouched, HandVouched, EEnds,
                      Vouched, AdmittedAtStart, Primitive
<1>4. CASE TreeIsRevised
  BY <1>4 DEF TreeIsRevised
<1>5. QED
  BY <1>s, <1>1, <1>2, <1>3, <1>4
     DEF Next, Checks, MakeEvidence, MakeCriteria, MakeEnds, EvidenceByHand, CriteriaByHand, vars

\* The invariant says what the property says.
LEMMA EInvVouches == TypeOK /\ EInv => EvidenceVouches
<1> SUFFICES ASSUME TypeOK, EInv, ePc = "passed", eGrown,
                    NEW t \in RangeOf(eStart.table), t.slug \in eScope
             PROVE  Vouched(t)
  BY DEF EvidenceVouches, Vouched
<1>1. EProgress
  BY DEF EInv
<1>2. eTodo = {} /\ eFindings = {} /\ eTable = eStart.table
  BY <1>1 DEF EProgress, EEnds, EKept
<1>3. PICK i \in DOMAIN eTable : eTable[i] = t
  BY <1>2 DEF RangeOf
<1>4. QED
  BY <1>1, <1>2, <1>3 DEF EProgress, WalkedVouched

\* A pass of check_evidence.py vouches for every row of a primitive in scope
\* that stood in the tree when it began, whatever was added or deleted meanwhile.
THEOREM EvidenceVouched == Spec => []EvidenceVouches
<1>1. Init => EInv
  BY DEF Init, EInit, EInv
<1>2. TypeOK /\ EInv /\ [Next]_vars => EInv'
  BY NextEInv
<1>3. TypeOK /\ EInv => EvidenceVouches
  BY EInvVouches
<1>4. QED
  BY <1>1, <1>2, <1>3, TypeCorrect, PTL DEF Spec

-----------------------------------------------------------------------------
(* check_criteria. *)

\* What a pass says of the i-th row of the table, by the rows that were loaded.
Backed(i) == \E l \in RowsFor(cRows, cTable[i]) : SatisfiedBy(l, cTable[i].declared, cOpts.clauseD)

\* The rows that were loaded lie between those of the start and those of now.
CKept ==
  /\ \A s \in Slugs : RowsIn(cStart.runs)[s] \subseteq RowsIn(runs)[s]
  /\ \A s \in Slugs : cRows[s] \subseteq RowsIn(runs)[s]
  /\ \A i \in DOMAIN SlugNames \ cListing :
       RowsIn(cStart.runs)[SlugNames[i]] \subseteq cRows[SlugNames[i]]
  /\ cTable = cStart.table

CEnds ==
  /\ cPc # "load" => cListing = {}
  /\ cPc # "load" =>
       \A i \in Selected(cTable, cOpts) : i \in cTargets \/ i \in cUnmet \/ Backed(i)
  /\ cPc \in {"claims", "end", "passed", "failed"} => cTargets = {}
  /\ cPc = "passed" /\ ~Unscoped(cOpts) => cUnmet = {}

CInv ==
  /\ cPc = "idle" => cRows = NoRows
  /\ cPc # "idle" /\ cGrown => CKept /\ CEnds

\* A file that is not there has no rows.
LEMMA NoFileNoRows ==
  ASSUME TypeOK, NEW s \in Slugs, s \notin hasRuns
  PROVE  RowsIn(runs)[s] = {}
<1>1. runs[s] = <<>>
  BY DEF TypeOK, TreeTypeOK
<1>2. QED
  BY <1>1 DEF RowsIn, RangeOf

\* A start: the slugs that are not listed have no rows to load.
LEMMA StartCKept ==
  ASSUME TypeOK, CInv, NEW o, StartCriteria(o), UNCHANGED tree
  PROVE  CKept' /\ CEnds'
<1>1. /\ cPc = "idle" /\ cPc' = "load" /\ cTable' = table /\ UNCHANGED cRows
      /\ cListing' = {i \in DOMAIN SlugNames : SlugNames[i] \in summaries \cup hasRuns}
      /\ cStart' = [table |-> table, runs |-> runs, claims |-> claims, reached |-> reached,
                    hasReport |-> hasReport, mask |-> mask]
  BY DEF StartCriteria
<1>2. cRows' = NoRows /\ UNCHANGED runs
  BY <1>1 DEF CInv, tree, content
<1>3. \A i \in DOMAIN SlugNames \ cListing' : RowsIn(runs)[SlugNames[i]] = {}
  <2> SUFFICES ASSUME NEW i \in DOMAIN SlugNames, i \notin cListing'
               PROVE  RowsIn(runs)[SlugNames[i]] = {}
    OBVIOUS
  <2>1. SlugNames[i] \in Slugs /\ SlugNames[i] \notin hasRuns
    BY <1>1 DEF Slugs
  <2>2. QED
    BY <2>1, NoFileNoRows
<1>4. \A s \in Slugs : cRows'[s] = {}
  BY <1>2 DEF NoRows
<1>5. CKept'
  BY <1>1, <1>2, <1>3, <1>4 DEF CKept
<1>6. QED
  BY <1>1, <1>5 DEF CEnds

\* A step of the checker.
LEMMA CriteriaProgress ==
  ASSUME TypeOK, CKept, CEnds, CriteriaStep, UNCHANGED tree
  PROVE  CKept' /\ CEnds'
<1> USE DEF cHist
<1>0. UNCHANGED runs
  BY DEF tree, content
<1>1. CASE LoadSlug
  <2> DEFINE n == First(cListing)
             s == SlugNames[n]
  <2>1. n \in cListing /\ s \in Slugs
    BY <1>1, FirstOfSeq, SlugNamesAssumption DEF LoadSlug, TypeOK, CTypeOK
  <2>2. /\ UNCHANGED <<cPc, cOpts, cTable, cTargets, cUnmet, cStart>> /\ cPc = "load"
        /\ cRows' = [cRows EXCEPT ![s] = JsonLines(runs[s])]
        /\ cListing' = cListing \ {n}
    BY <1>1 DEF LoadSlug, cResult
  <2>3. JsonLines(runs[s]) = RowsIn(runs)[s]
    BY <2>1 DEF JsonLines, RowsIn
  <2>4. cRows'[s] = RowsIn(runs)[s] /\ \A r \in Slugs : r # s => cRows'[r] = cRows[r]
    BY <2>1, <2>2, <2>3 DEF TypeOK, CTypeOK
  <2> HIDE DEF s
  <2>5. \A r \in Slugs : cRows'[r] \subseteq RowsIn(runs)[r]
    BY <2>4 DEF CKept
  <2>6. ASSUME NEW i \in DOMAIN SlugNames, i \notin cListing'
        PROVE  RowsIn(cStart.runs)[SlugNames[i]] \subseteq cRows'[SlugNames[i]]
    <3>1. SlugNames[i] \in Slugs
      BY DEF Slugs
    <3>2. CASE SlugNames[i] = s
      BY <2>1, <2>4, <3>2 DEF CKept
    <3>3. CASE SlugNames[i] # s
      <4>1. i \notin cListing
        BY <2>2, <2>6, <3>3 DEF s
      <4>2. QED
        BY <2>4, <3>1, <3>3, <4>1 DEF CKept
    <3>4. QED
      BY <3>2, <3>3
  <2>7. CKept'
    BY <1>0, <2>2, <2>5, <2>6 DEF CKept
  <2>8. QED
    BY <2>2, <2>7 DEF CEnds
<1>2. CASE Resolve
  <2>1. UNCHANGED <<cOpts, cTable, cRows, cListing, cUnmet, cStart>>
        /\ cListing = {} /\ cPc' = "evaluate" /\ cTargets' = Selected(cTable, cOpts)
    BY <1>2 DEF Resolve, cResult
  <2>2. CKept'
    BY <1>0, <2>1 DEF CKept
  <2>3. Selected(cTable', cOpts') = cTargets'
    BY <2>1
  <2>4. QED
    BY <2>1, <2>2, <2>3 DEF CEnds
<1>3. CASE EvaluateRow
  <2> DEFINE i == First(cTargets)
  <2>1. /\ UNCHANGED <<cPc, cOpts, cTable, cRows, cListing, cStart>> /\ cPc = "evaluate"
        /\ cTargets' = cTargets \ {i}
        /\ \/ Met(cRows, cTable[i], cOpts.clauseD) /\ UNCHANGED cUnmet
           \/ cUnmet' = cUnmet \cup {i}
    BY <1>3 DEF EvaluateRow
  <2> HIDE DEF i
  <2>2. i \in cUnmet' \/ Backed(i)
    BY <2>1 DEF Met, Backed
  <2>3. CKept'
    BY <1>0, <2>1 DEF CKept
  <2>4. \A j \in Selected(cTable, cOpts) : j \in cTargets' \/ j \in cUnmet' \/ Backed(j)
    BY <2>1, <2>2 DEF CEnds
  <2>5. \A j \in Selected(cTable, cOpts)' : j \in cTargets' \/ j \in cUnmet' \/ Backed(j)'
    BY <2>1, <2>4 DEF Backed
  <2>6. QED
    BY <2>1, <2>3, <2>5 DEF CEnds
<1>4. CASE ReadReport \/ ReadClaims \/ EndCriteria
  <2>1. UNCHANGED <<cOpts, cTable, cRows, cListing, cTargets, cUnmet, cStart>>
        /\ cPc # "load" /\ cTargets = {} /\ cPc' # "load"
    BY <1>4 DEF ReadReport, ReadClaims, EndCriteria, cResult, CEnds
  <2>2. cPc' = "passed" /\ ~Unscoped(cOpts) => cUnmet = {}
    BY <1>4 DEF ReadReport, ReadClaims, EndCriteria
  <2>3. CKept'
    BY <1>0, <2>1 DEF CKept
  <2>4. \A j \in Selected(cTable, cOpts)' : j \in cTargets' \/ j \in cUnmet' \/ Backed(j)'
    BY <2>1 DEF Backed, CEnds
  <2>5. QED
    BY <2>1, <2>2, <2>3, <2>4 DEF CEnds
<1>5. QED
  BY <1>1, <1>2, <1>3, <1>4 DEF CriteriaStep

\* Every step keeps the invariant of the checker.
LEMMA NextCInv == TypeOK /\ CInv /\ [Next]_vars => CInv'
<1> SUFFICES ASSUME TypeOK, CInv, [Next]_vars PROVE CInv'
  OBVIOUS
<1>s. ASSUME UNCHANGED <<tree, cVars, cHist>> PROVE CInv'
  <2>1. UNCHANGED <<runs, cPc, cOpts, cTable, cListing, cRows, cTargets, cUnmet, cStart, cGrown>>
    BY <1>s DEF tree, content, cVars, cResult, cHist
  <2>2. CKept' <=> CKept
    BY <2>1 DEF CKept
  <2>3. CEnds' <=> CEnds
    BY <2>1 DEF CEnds, Backed
  <2>4. QED
    BY <2>1, <2>2, <2>3 DEF CInv
<1>1. CASE CriteriaStep /\ UNCHANGED <<tree, eVars, eHist, gate>>
  <2>1. cPc # "idle" /\ cPc' # "idle" /\ cGrown' = cGrown
    BY <1>1 DEF CriteriaStep, LoadSlug, Resolve, EvaluateRow, ReadReport, ReadClaims,
                EndCriteria, cHist
  <2>2. QED
    BY <1>1, <2>1, CriteriaProgress DEF CInv
<1>2. CASE \E o : StartCriteria(o) /\ UNCHANGED tree
  <2>1. cPc' # "idle"
    BY <1>2 DEF StartCriteria
  <2>2. QED
    BY <1>2, <2>1, StartCKept DEF CInv
<1>3. CASE TreeGrows
  <2>1. UNCHANGED <<cPc, cOpts, cTable, cListing, cRows, cTargets, cUnmet, cStart, cGrown>>
    BY <1>3 DEF TreeGrows, cVars, cResult, cHist
  <2>2. \A s \in Slugs : RowsIn(runs)[s] \subseteq RowsIn(runs')[s]
    BY <1>3, GrowKeeps DEF TreeGrows, TypeOK
  <2>3. CKept => CKept'
    BY <2>1, <2>2 DEF CKept
  <2>4. CEnds' <=> CEnds
    BY <2>1 DEF CEnds, Backed
  <2>5. QED
    BY <2>1, <2>3, <2>4 DEF CInv
<1>4. CASE TreeIsRevised
  BY <1>4 DEF TreeIsRevised, CInv, cVars
<1>5. QED
  BY <1>s, <1>1, <1>2, <1>3, <1>4
     DEF Next, Checks, MakeEvidence, MakeCriteria, MakeEnds, EvidenceByHand, CriteriaByHand, vars

\* Rows that were loaded for a primitive are rows the tree has for it now, if
\* it had rows of its own at the start or has none now.
LEMMA LoadedStillCount ==
  ASSUME TypeOK, CKept, cListing = {}, NEW t \in TableRow,
         OwnRows(cStart.runs, t) # {} \/ OwnRows(runs, t) = {}
  PROVE  RowsFor(cRows, t) \subseteq RowsFor(RowsIn(runs), t)
<1> DEFINE of(rows, s) == {l \in rows[s] : l.prim = t.id}
           own(rows)   == IF t.slug \in Slugs THEN of(rows, t.slug) ELSE {}
           any(rows)   == UNION {of(rows, s) : s \in Slugs}
<1>1. \A rows : RowsFor(rows, t) = IF own(rows) # {} THEN own(rows) ELSE any(rows)
  BY DEF RowsFor
<1>2. \A files : own(RowsIn(files)) = OwnRows(files, t)
  BY DEF OwnRows
<1>3. \A s \in Slugs : of(cRows, s) \subseteq of(RowsIn(runs), s)
  BY DEF CKept
<1>4. own(cRows) \subseteq own(RowsIn(runs)) /\ any(cRows) \subseteq any(RowsIn(runs))
  BY <1>3
<1>5. OwnRows(cStart.runs, t) \subseteq own(cRows)
  <2>1. CASE t.slug \in Slugs
    <3>1. PICK i \in DOMAIN SlugNames : SlugNames[i] = t.slug
      BY <2>1 DEF Slugs
    <3>2. RowsIn(cStart.runs)[t.slug] \subseteq cRows[t.slug]
      BY <3>1 DEF CKept
    <3>3. QED
      BY <2>1, <3>2 DEF OwnRows
  <2>2. CASE t.slug \notin Slugs
    BY <2>2 DEF OwnRows
  <2>3. QED
    BY <2>1, <2>2
<1> HIDE DEF own, any
<1>6. QED
  BY <1>1, <1>2, <1>4, <1>5

\* The invariant says what the property says.
LEMMA CInvVouches == TypeOK /\ CInv => CriteriaVouches
<1> SUFFICES ASSUME TypeOK, CInv, cPc = "passed", ~Unscoped(cOpts), cGrown,
                    NEW i \in Selected(cStart.table, cOpts),
                    \/ OwnRows(cStart.runs, cStart.table[i]) # {}
                    \/ OwnRows(runs, cStart.table[i]) = {}
             PROVE  Met(RowsIn(runs), cStart.table[i], cOpts.clauseD)
  BY DEF CriteriaVouches
<1> DEFINE t == cStart.table[i]
<1>1. CKept /\ CEnds
  BY DEF CInv
<1>2. cTable = cStart.table /\ cListing = {} /\ Backed(i)
  BY <1>1 DEF CKept, CEnds
<1>3. t \in TableRow
  <2>1. i \in DOMAIN cTable /\ cTable \in Seq(TableRow)
    BY <1>2 DEF Selected, LastOf, TypeOK, CTypeOK
  <2>2. QED
    BY <1>2, <2>1, ElementOfSeq, LenProperties
<1>4. RowsFor(cRows, t) \subseteq RowsFor(RowsIn(runs), t)
  BY <1>1, <1>2, <1>3, LoadedStillCount
<1>5. \E l \in RowsFor(RowsIn(runs), t) : SatisfiedBy(l, t.declared, cOpts.clauseD)
  BY <1>2, <1>4 DEF Backed
<1>6. QED
  BY <1>5 DEF Met, Populated

\* A scoped pass of check_criteria.py holds at its end as well, although rows
\* are appended while it reads.
THEOREM CriteriaVouched == Spec => []CriteriaVouches
<1>1. Init => CInv
  BY DEF Init, CInit, CInv
<1>2. TypeOK /\ CInv /\ [Next]_vars => CInv'
  BY NextCInv
<1>3. TypeOK /\ CInv => CriteriaVouches
  BY CInvVouches
<1>4. QED
  BY <1>1, <1>2, <1>3, TypeCorrect, PTL DEF Spec

-----------------------------------------------------------------------------
(* make. *)

\* The second check ran after a pass of the first over the whole tree, and the
\* tree has kept the table and the rows that the two started from.
Handover ==
  /\ ePc = "passed" /\ eScope = WholeTree
  /\ cPc # "idle" /\ cOpts = GateOptions /\ cGrown
  /\ cStart.table = eStart.table
  /\ \A s \in Slugs : RowsIn(eStart.runs)[s] \subseteq RowsIn(cStart.runs)[s]

GInv ==
  /\ gate = "evidence" => ePc # "idle" /\ eScope = WholeTree
  /\ gate \in {"criteria", "green"} /\ eGrown => Handover
  /\ gate = "green" => cPc = "passed"

\* Every step keeps what make knows.
LEMMA NextGInv == TypeOK /\ EInv /\ GInv /\ [Next]_vars => GInv'
<1> SUFFICES ASSUME TypeOK, EInv, GInv, [Next]_vars PROVE GInv'
  OBVIOUS
<1>1. CASE EvidenceStep /\ UNCHANGED <<tree, cVars, cHist, gate>>
  <2>1. ePc' # "idle" /\ ePc # "passed" /\ UNCHANGED <<eScope, eHist>>
    BY <1>1 DEF EvidenceStep, Pending, Unreadable, ReadRows, JudgeRow, RowsJudged, Discover,
                SweepFile, EndEvidence
  <2>2. QED
    BY <1>1, <2>1 DEF GInv, Handover, eHist, cVars
<1>2. CASE CriteriaStep /\ UNCHANGED <<tree, eVars, eHist, gate>>
  <2>1. cPc # "idle" /\ cPc # "passed" /\ cPc' # "idle" /\ UNCHANGED <<cOpts, cHist>>
    BY <1>2 DEF CriteriaStep, LoadSlug, Resolve, EvaluateRow, ReadReport, ReadClaims,
                EndCriteria
  <2>2. QED
    BY <1>2, <2>1 DEF GInv, Handover, eHist, eVars, cHist
<1>3. CASE MakeEvidence
  BY <1>3 DEF MakeEvidence, StartEvidence, GInv
<1>4. CASE MakeCriteria
  <2>1. /\ gate = "evidence" /\ ePc = "passed" /\ gate' = "criteria"
        /\ UNCHANGED <<ePc, eScope, eStart, eGrown>>
        /\ cPc' = "load" /\ cOpts' = GateOptions /\ cGrown'
        /\ cStart'.table = table /\ cStart'.runs = runs
    BY <1>4 DEF MakeCriteria, StartCriteria, eVars, eHist
  <2>2. eGrown => EKept
    BY <2>1 DEF EInv, EProgress
  <2>3. QED
    BY <2>1, <2>2 DEF GInv, Handover, EKept
<1>5. CASE MakeEnds
  BY <1>5 DEF MakeEnds, GInv, Handover, eVars, eHist, cVars, cHist
<1>6. CASE EvidenceByHand \/ CriteriaByHand
  BY <1>6 DEF EvidenceByHand, CriteriaByHand, GInv
<1>7. CASE TreeGrows
  BY <1>7 DEF TreeGrows, GInv, Handover, eVars, eHist, cVars, cHist
<1>8. CASE TreeIsRevised
  BY <1>8 DEF TreeIsRevised, GInv, eVars, cVars
<1>9. CASE UNCHANGED vars
  BY <1>9 DEF vars, GInv, Handover, eVars, eHist, cVars, cHist
<1>10. QED
  BY <1>1, <1>2, <1>3, <1>4, <1>5, <1>6, <1>7, <1>8, <1>9 DEF Next, Checks

\* The passes of the two checkers, put together.
LEMMA GreenAdmits ==
  TypeOK /\ EInv /\ CInv /\ GInv => GreenIsAdmitted
<1> SUFFICES ASSUME TypeOK, EInv, CInv, GInv, gate = "green", eGrown,
                    NEW t \in RangeOf(table), t.phase = GatePhase,
                    OwnRows(eStart.runs, t) # {}
             PROVE  \E l \in OwnRows(runs, t) :
                      /\ SatisfiedBy(l, t.declared, FALSE)
                      /\ l \in OwnRows(eStart.runs, t) => AdmittedAtStart(l)
  BY DEF GreenIsAdmitted
<1>1. Handover /\ cPc = "passed"
  BY DEF GInv
<1>2. EKept /\ CKept
  BY <1>1 DEF EInv, EProgress, CInv, Handover
<1>3. table = eStart.table /\ table = cStart.table
  BY <1>1, <1>2 DEF EKept, Handover
<1>4. t.slug \in Slugs
  BY DEF OwnRows
<1>5. \A l \in OwnRows(eStart.runs, t) : AdmittedAtStart(l)
  BY <1>1, <1>3, <1>4, EInvVouches DEF EvidenceVouches, Handover, WholeTree
<1>6. OwnRows(cStart.runs, t) # {}
  BY <1>1, <1>4 DEF Handover, OwnRows
<1>7. PICK i \in DOMAIN table : table[i] = t
  BY DEF RangeOf
<1>8. ~Unscoped(cOpts) /\ i \in Selected(cStart.table, cOpts) /\ cOpts.clauseD = FALSE
  BY <1>1, <1>3, <1>7, GatePhaseAssumption, NoneAssumption
     DEF Handover, GateOptions, Unscoped, Selected
<1>9. Met(RowsIn(runs), t, FALSE)
  BY <1>1, <1>3, <1>6, <1>7, <1>8, CInvVouches DEF CriteriaVouches, Handover
<1>10. RowsFor(RowsIn(runs), t) = OwnRows(runs, t)
  <2>1. OwnRows(runs, t) = {l \in RowsIn(runs)[t.slug] : l.prim = t.id}
    BY <1>4 DEF OwnRows
  <2>2. OwnRows(runs, t) # {}
    BY <1>2, <1>4, <1>6, <2>1 DEF CKept, OwnRows
  <2>3. QED
    BY <1>4, <2>1, <2>2 DEF RowsFor
<1>11. QED
  BY <1>5, <1>9, <1>10 DEF Met

\* A green gate: each primitive of the phase whose slug had rows of it when the
\* first check began is satisfied by a row that is admissible, or that was
\* appended since.
THEOREM GreenAdmitted == Spec => []GreenIsAdmitted
<1>1. Init => EInv /\ CInv /\ GInv
  BY DEF Init, EInit, CInit, EInv, CInv, GInv
<1>2. TypeOK /\ EInv /\ CInv /\ GInv /\ [Next]_vars => EInv' /\ CInv' /\ GInv'
  BY NextEInv, NextCInv, NextGInv
<1>3. TypeOK /\ EInv /\ CInv /\ GInv => GreenIsAdmitted
  BY GreenAdmits
<1>4. QED
  BY <1>1, <1>2, <1>3, TypeCorrect, PTL DEF Spec
-----------------------------------------------------------------------------
(* The report's criteria. *)

Ended == cPc \in {"passed", "failed"}

\* The three lists take the criteria apart; the verdict is what EndCriteria says.
NInv ==
  /\ cPc \in {"idle", "load", "evaluate", "claims"} =>
       cBacked = {} /\ cUnlinked = {} /\ cUnbacked = {}
  /\ cReached = cBacked \cup cUnlinked \cup cUnbacked \/ cPc \in {"idle", "load", "evaluate", "claims"}
  /\ cBacked \cap cUnlinked = {} /\ cUnbacked \cap (cBacked \cup cUnlinked) = {}
  /\ Ended /\ ~Unscoped(cOpts) =>
       (cPc = "passed" <=> Examined # 0 /\ cUnmet = {} /\ cUnbacked = {})

\* Every step keeps the lists apart.
LEMMA NextNInv == TypeOK /\ NInv /\ [Next]_vars => NInv'
<1> SUFFICES ASSUME TypeOK, NInv, [Next]_vars PROVE NInv'
  OBVIOUS
<1>s. ASSUME UNCHANGED cVars PROVE NInv'
  <2>1. UNCHANGED <<cPc, cOpts, cMet, cUnmet, cReached, cBacked, cUnlinked, cUnbacked>>
    BY <1>s DEF cVars, cResult
  <2>2. Examined' = Examined
    BY <2>1 DEF Examined
  <2>3. QED
    BY <2>1, <2>2 DEF NInv, Ended
<1>1. CASE CriteriaStep
  <2>1. CASE LoadSlug \/ Resolve \/ EvaluateRow
    <3>1. /\ cPc' \in {"load", "evaluate"} /\ cPc \in {"load", "evaluate"}
          /\ UNCHANGED <<cBacked, cUnlinked, cUnbacked>>
      BY <2>1 DEF LoadSlug, Resolve, EvaluateRow, cResult
    <3>2. QED
      BY <3>1 DEF NInv, Ended
  <2>2. CASE ReadReport
    <3>1. /\ cPc = "evaluate" /\ cPc' \in {"end", "claims"} /\ UNCHANGED <<cBacked, cUnlinked, cUnbacked>>
          /\ cPc' = "end" => cReached' = {}
      BY <2>2, NoneAssumption DEF ReadReport, TypeOK, TreeTypeOK
    <3>2. QED
      BY <3>1 DEF NInv, Ended
  <2>3. CASE ReadClaims
    <3>1. /\ cPc' = "end" /\ UNCHANGED cReached
          /\ cUnlinked' = {c \in cReached : Claiming(c) = {}}
          /\ cBacked' = {c \in cReached : \E s \in Claiming(c) : cRows[s] # {}}
          /\ cUnbacked' = cReached \ (cUnlinked' \cup cBacked')
      BY <2>3 DEF ReadClaims
    <3>2. cBacked' \cap cUnlinked' = {}
      BY <3>1
    <3>3. cReached' = cBacked' \cup cUnlinked' \cup cUnbacked'
      BY <3>1
    <3>4. cUnbacked' \cap (cBacked' \cup cUnlinked') = {}
      BY <3>1
    <3>5. QED
      BY <3>1, <3>2, <3>3, <3>4 DEF NInv, Ended
  <2>4. CASE EndCriteria
    <3>1. /\ cPc = "end" /\ UNCHANGED <<cOpts, cMet, cUnmet, cReached, cBacked, cUnlinked, cUnbacked>>
          /\ cPc' = IF Unscoped(cOpts) \/ (Examined # 0 /\ cUnmet = {} /\ cUnbacked = {})
                    THEN "passed" ELSE "failed"
      BY <2>4 DEF EndCriteria, cResult
    <3>2. Examined' = Examined /\ Unscoped(cOpts)' = Unscoped(cOpts)
      BY <3>1 DEF Examined
    <3>3. QED
      BY <3>1, <3>2 DEF NInv, Ended
  <2>5. QED
    BY <1>1, <2>1, <2>2, <2>3, <2>4 DEF CriteriaStep
<1>2. CASE \E o : StartCriteria(o)
  <2>1. cPc = "idle" /\ cPc' = "load" /\ UNCHANGED <<cBacked, cUnlinked, cUnbacked>>
    BY <1>2 DEF StartCriteria, cResult
  <2>2. QED
    BY <2>1 DEF NInv, Ended
<1>3. QED
  BY <1>s, <1>1, <1>2
     DEF Next, Checks, MakeEvidence, MakeCriteria, MakeEnds, EvidenceByHand, CriteriaByHand, vars,
         TreeGrows, TreeIsRevised

\* Of finite sets: parts that do not meet count as much as the whole.
LEMMA PartsCount ==
  ASSUME NEW S, NEW T, IsFiniteSet(S), IsFiniteSet(T), S \cap T = {}
  PROVE  /\ IsFiniteSet(S \cup T)
         /\ Cardinality(S \cup T) = Cardinality(S) + Cardinality(T)
         /\ Cardinality(S) \in Nat /\ Cardinality(T) \in Nat
<1>1. Cardinality(S \cap T) = 0
  BY FS_EmptySet
<1>2. /\ IsFiniteSet(S \cup T)
      /\ Cardinality(S \cup T) = Cardinality(S) + Cardinality(T) - Cardinality(S \cap T)
  BY FS_Union
<1>3. Cardinality(S) \in Nat /\ Cardinality(T) \in Nat
  BY FS_CardinalityType
<1>4. QED
  BY <1>1, <1>2, <1>3

\* The two numbers of the CRITERIA line are equal, and not zero, exactly when a
\* scoped run of check_criteria.py passes.
THEOREM CountsAreTheVerdict == Spec => []CountsAgree
<1>1. Init => NInv
  BY DEF Init, CInit, NInv, Ended
<1>2. TypeOK /\ NInv => CountsAgree
  <2> SUFFICES ASSUME TypeOK, NInv, Ended, ~Unscoped(cOpts)
               PROVE  cPc = "passed" <=> Counted = Examined /\ Examined > 0
    BY DEF CountsAgree, Ended
  <2>1. IsFiniteSet(cUnmet) /\ IsFiniteSet(cBacked) /\ IsFiniteSet(cUnlinked) /\ IsFiniteSet(cUnbacked)
    <3>1. IsFiniteSet(DOMAIN cTable)
      <4>1. DOMAIN cTable = 1..Len(cTable) /\ Len(cTable) \in Nat
        BY LenProperties DEF TypeOK, CTypeOK
      <4>2. QED
        BY <4>1, FS_Interval
    <3>2. QED
      BY <3>1, CriteriaAssumption, FS_Subset DEF TypeOK, CTypeOK
  <2>2. cReached = (cBacked \cup cUnlinked) \cup cUnbacked
    BY DEF NInv, Ended
  <2>3. /\ Cardinality(cReached) =
             Cardinality(cBacked) + Cardinality(cUnlinked) + Cardinality(cUnbacked)
        /\ Cardinality(cBacked) \in Nat /\ Cardinality(cUnlinked) \in Nat
        /\ Cardinality(cUnbacked) \in Nat
    <3>1. /\ IsFiniteSet(cBacked \cup cUnlinked)
          /\ Cardinality(cBacked \cup cUnlinked) = Cardinality(cBacked) + Cardinality(cUnlinked)
          /\ Cardinality(cBacked) \in Nat /\ Cardinality(cUnlinked) \in Nat
      BY <2>1, PartsCount DEF NInv
    <3>2. /\ Cardinality((cBacked \cup cUnlinked) \cup cUnbacked) =
               Cardinality(cBacked \cup cUnlinked) + Cardinality(cUnbacked)
          /\ Cardinality(cUnbacked) \in Nat
      BY <2>1, <3>1, PartsCount DEF NInv
    <3>3. QED
      BY <2>2, <3>1, <3>2
  <2>4. /\ Cardinality(cUnmet) \in Nat /\ (Cardinality(cUnmet) = 0 <=> cUnmet = {})
        /\ (Cardinality(cUnbacked) = 0 <=> cUnbacked = {})
    BY <2>1, FS_CardinalityType, FS_EmptySet
  <2>5. cMet \in Nat
    BY DEF TypeOK, CTypeOK
  <2>6. Examined \in Nat
    BY <2>3, <2>4, <2>5 DEF Examined
  <2>7. Counted = Examined <=> cUnmet = {} /\ cUnbacked = {}
    BY <2>3, <2>4, <2>5 DEF Counted, Examined
  <2>8. QED
    BY <2>6, <2>7 DEF NInv
<1>3. QED
  BY <1>1, <1>2, NextNInv, TypeCorrect, PTL DEF Spec

\* What has become of a criterion that was REACHED.
Traced(c) ==
  \/ c \in cUnbacked
  \/ \E s \in Slugs : c \in claims[s] /\ cRows[s] # {}
  \/ \A s \in Slugs : c \notin cStart.claims[s]

Named(n) == n = cOpts.report \/ (cOpts.report = None /\ n = cOpts.phase)

\* The reports and the markdown have grown since the start; what was REACHED in
\* the report then is among what was read, and is traced.
RGrown ==
  /\ cStart.hasReport \subseteq hasReport
  /\ \A n \in Phases : cStart.reached[n] \subseteq reached[n]
  /\ \A s \in Slugs : cStart.claims[s] \subseteq claims[s]

RRead ==
  cPc \in {"claims", "end", "passed", "failed"} /\ ~Unscoped(cOpts) =>
    \A n \in Phases : Named(n) /\ n \in cStart.hasReport => cStart.reached[n] \subseteq cReached

RTraced ==
  /\ cPc \in {"end", "passed", "failed"} => \A c \in cReached : Traced(c)
  /\ cPc = "passed" /\ ~Unscoped(cOpts) => cUnbacked = {}

RInv == cPc # "idle" /\ cGrown => RGrown /\ RRead /\ RTraced

\* Reports and markdown only grow with the tree.
LEMMA GrowKeepsText ==
  ASSUME TreeTypeOK, Grow
  PROVE  /\ hasReport \subseteq hasReport'
         /\ \A n \in Phases : reached[n] \subseteq reached'[n]
         /\ \A s \in Slugs : claims[s] \subseteq claims'[s]
<1>1. CASE UNCHANGED <<hasReport, reached, claims>>
  BY <1>1
<1>2. CASE \E s \in Slugs : \E cs \in SUBSET Criteria : WriteSummary(s, cs)
  BY <1>2 DEF WriteSummary, TreeTypeOK
<1>3. CASE \E n \in Phases : \E cs \in SUBSET Criteria : WriteReport(n, cs)
  BY <1>3 DEF WriteReport, TreeTypeOK
<1>4. QED
  BY <1>1, <1>2, <1>3
     DEF Grow, Write, EndAppend, BeginAppend, KillWriter, DeleteArtefacts, content

\* A step of the checker.
LEMMA ReportProgress ==
  ASSUME TypeOK, RGrown, RRead, RTraced, CriteriaStep, UNCHANGED tree
  PROVE  RGrown' /\ RRead' /\ RTraced'
<1>0. UNCHANGED <<hasReport, reached, claims, cStart>> /\ (cPc # "load" => UNCHANGED cRows)
      /\ UNCHANGED cOpts
  BY DEF tree, content, CriteriaStep, LoadSlug, Resolve, EvaluateRow, ReadReport, ReadClaims,
         EndCriteria, cHist
<1>1. RGrown'
  BY <1>0 DEF RGrown
<1>2. CASE LoadSlug \/ Resolve \/ EvaluateRow
  <2>1. cPc' \in {"load", "evaluate"}
    BY <1>2 DEF LoadSlug, Resolve, EvaluateRow
  <2>2. QED
    BY <1>1, <2>1 DEF RRead, RTraced
<1>3. CASE ReadReport
  <2>1. /\ cPc' \in {"end", "claims"} /\ cReport' = ReportOf(cOpts)
        /\ cReached' = (IF cReport' \in hasReport THEN reached[cReport'] ELSE {})
        /\ cPc' = "end" => cReport' = None
    BY <1>3 DEF ReadReport
  <2>2. ASSUME ~Unscoped(cOpts), NEW n \in Phases, Named(n), n \in cStart.hasReport
        PROVE  cStart.reached[n] \subseteq cReached'
    <3>1. n \in hasReport /\ n # None
      BY <2>2, NoneAssumption DEF RGrown
    <3>2. ReportOf(cOpts) = n
      BY <2>2, <3>1 DEF ReportOf, Named
    <3>3. QED
      BY <2>1, <3>1, <3>2 DEF RGrown
  <2>3. RRead'
    BY <1>0, <2>2 DEF RRead, Named
  <2>4. cPc' = "end" => cReached' = {}
    BY <2>1, NoneAssumption DEF TypeOK, TreeTypeOK
  <2>5. QED
    BY <1>1, <2>1, <2>3, <2>4 DEF RTraced
<1>4. CASE ReadClaims
  <2>1. /\ cPc = "claims" /\ cPc' = "end" /\ UNCHANGED cReached
        /\ cUnlinked' = {c \in cReached : Claiming(c) = {}}
        /\ cBacked' = {c \in cReached : \E s \in Claiming(c) : cRows[s] # {}}
        /\ cUnbacked' = cReached \ (cUnlinked' \cup cBacked')
    BY <1>4 DEF ReadClaims
  <2>2. RRead'
    BY <1>0, <2>1 DEF RRead, Named
  <2>3. ASSUME NEW c \in cReached' PROVE Traced(c)'
    <3>1. CASE c \in cUnlinked'
      <4>1. \A s \in Slugs : c \notin claims[s]
        BY <2>1, <3>1 DEF Claiming
      <4>2. \A s \in Slugs : c \notin cStart.claims[s]
        BY <4>1 DEF RGrown
      <4>3. QED
        BY <1>0, <4>2 DEF Traced
    <3>2. CASE c \in cBacked'
      <4>1. \E s \in Slugs : c \in claims[s] /\ cRows[s] # {}
        BY <2>1, <3>2 DEF Claiming
      <4>2. QED
        BY <1>0, <2>1, <4>1 DEF Traced
    <3>3. CASE c \in cUnbacked'
      BY <3>3 DEF Traced
    <3>4. QED
      BY <2>1, <2>3, <3>1, <3>2, <3>3
  <2>4. QED
    BY <1>1, <2>1, <2>2, <2>3 DEF RTraced
<1>5. CASE EndCriteria
  <2>1. /\ cPc = "end" /\ cPc' \in {"passed", "failed"} /\ UNCHANGED <<cReached, cUnbacked>>
        /\ cPc' = "passed" /\ ~Unscoped(cOpts) => cUnbacked = {}
    BY <1>5 DEF EndCriteria, cResult
  <2>2. RRead'
    BY <1>0, <2>1 DEF RRead, Named
  <2>3. RTraced'
    BY <1>0, <2>1 DEF RTraced, Traced
  <2>4. QED
    BY <1>1, <2>2, <2>3
<1>6. QED
  BY <1>2, <1>3, <1>4, <1>5 DEF CriteriaStep

\* Every step keeps the trace of the criteria.
LEMMA NextRInv == TypeOK /\ RInv /\ [Next]_vars => RInv'
<1> SUFFICES ASSUME TypeOK, RInv, [Next]_vars, cPc' # "idle", cGrown'
             PROVE  RGrown' /\ RRead' /\ RTraced'
  BY DEF RInv
<1>s. ASSUME UNCHANGED <<tree, cVars, cHist>> PROVE RGrown' /\ RRead' /\ RTraced'
  <2>1. /\ UNCHANGED <<hasReport, reached, claims, cStart, cGrown>>
        /\ UNCHANGED <<cPc, cOpts, cRows, cReached, cUnbacked>>
    BY <1>s DEF tree, content, cVars, cResult, cHist
  <2>2. RGrown /\ RRead /\ RTraced
    BY <2>1 DEF RInv
  <2>3. QED
    BY <2>1, <2>2 DEF RGrown, RRead, RTraced, Traced, Named
<1>1. CASE CriteriaStep /\ UNCHANGED <<tree, eVars, eHist, gate>>
  <2>1. cPc # "idle" /\ cGrown
    BY <1>1 DEF CriteriaStep, LoadSlug, Resolve, EvaluateRow, ReadReport, ReadClaims,
                EndCriteria, cHist
  <2>2. QED
    BY <1>1, <2>1, ReportProgress DEF RInv
<1>2. CASE \E o : StartCriteria(o) /\ UNCHANGED tree
  <2>1. /\ cPc' = "load" /\ UNCHANGED <<hasReport, reached, claims>>
        /\ cStart' = [table |-> table, runs |-> runs, claims |-> claims, reached |-> reached,
                      hasReport |-> hasReport, mask |-> mask]
    BY <1>2 DEF StartCriteria, tree, content
  <2>2. QED
    BY <2>1 DEF RGrown, RRead, RTraced
<1>3. CASE TreeGrows
  <2>1. UNCHANGED <<cPc, cOpts, cRows, cReached, cUnbacked, cStart, cGrown>> /\ Grow
    BY <1>3 DEF TreeGrows, cVars, cResult, cHist
  <2>2. RGrown /\ RRead /\ RTraced
    BY <2>1 DEF RInv
  <2>3. /\ hasReport \subseteq hasReport'
        /\ \A n \in Phases : reached[n] \subseteq reached'[n]
        /\ \A s \in Slugs : claims[s] \subseteq claims'[s]
    BY <2>1, GrowKeepsText DEF TypeOK
  <2>4. RGrown'
    BY <2>1, <2>2, <2>3 DEF RGrown
  <2>5. RRead'
    BY <2>1, <2>2 DEF RRead, Named
  <2>6. \A c : Traced(c) => Traced(c)'
    BY <2>1, <2>3 DEF Traced
  <2>7. RTraced'
    BY <2>1, <2>2, <2>6 DEF RTraced
  <2>8. QED
    BY <2>4, <2>5, <2>7
<1>4. CASE TreeIsRevised
  BY <1>4 DEF TreeIsRevised
<1>5. QED
  BY <1>s, <1>1, <1>2, <1>3, <1>4
     DEF Next, Checks, MakeEvidence, MakeCriteria, MakeEnds, EvidenceByHand, CriteriaByHand, vars

\* A criterion that was REACHED, and claimed by some slug, when a passing run
\* began is backed: some slug claims it and has a row, now as then.
THEOREM ReachedCriteriaAreBacked == Spec => []ReachedIsBacked
<1>1. Init => RInv /\ CInv
  BY DEF Init, CInit, RInv, CInv
<1>2. RInv /\ CInv => ReachedIsBacked
  <2> SUFFICES ASSUME RInv, CInv, cPc = "passed", ~Unscoped(cOpts), cGrown,
                      NEW n \in Phases, Named(n),
                      NEW c \in IF n \in cStart.hasReport THEN cStart.reached[n] ELSE {},
                      \E s \in Slugs : c \in cStart.claims[s]
               PROVE  \E s \in Slugs : c \in claims[s] /\ RowsIn(runs)[s] # {}
    BY DEF ReachedIsBacked, Named
  <2>1. RRead /\ RTraced /\ CKept
    BY DEF RInv, CInv
  <2>2. c \in cReached
    BY <2>1 DEF RRead
  <2>3. Traced(c) /\ c \notin cUnbacked
    BY <2>1, <2>2 DEF RTraced
  <2>4. PICK s \in Slugs : c \in claims[s] /\ cRows[s] # {}
    BY <2>3 DEF Traced
  <2>5. RowsIn(runs)[s] # {}
    BY <2>1, <2>4 DEF CKept
  <2>6. QED
    BY <2>4, <2>5
<1>3. QED
  BY <1>1, <1>2, NextRInv, NextCInv, TypeCorrect, PTL DEF Spec
-----------------------------------------------------------------------------
(* check_evidence over a tree that nobody writes to. *)

\* A later state of a file: lines were added to it, torn ones completed.
Extends(f, g) ==
  /\ Len(f) <= Len(g)
  /\ \A k \in 1..Len(f) : g[k] = f[k] \/ (f[k].form = "torn" /\ g[k].form # "torn")

\* The tree of now against the one the walk started from.
EGrownFrom ==
  /\ \A s \in Slugs : Extends(eStart.runs[s], runs[s])
  /\ eStart.hasRuns \subseteq hasRuns

Still == eStart = [table |-> table, runs |-> runs, hasRuns |-> hasRuns, mask |-> mask,
                   vendorFs |-> vendorFs, openFs |-> openFs]

\* What the docstring admits, of one primitive and of one file.
Proper(t) ==
  /\ ~t.blocked
  /\ t.slug \in hasRuns =>
       OwnRows(runs, t) # {} /\ \A l \in OwnRows(runs, t) : AdmittedAtStart(l)

FileProper(s) == runs[s] # <<>> /\ \A l \in RangeOf(runs[s]) : LineValid(l, s)

TreeProper ==
  /\ \A s \in eScope \cap hasRuns : FileProper(s)
  /\ \A t \in RangeOf(table) : t.slug \in eScope => Proper(t)

\* Without writers a finding is a fault of the tree, and what was gone through
\* without one has none.
Faultless == TreeProper => eFindings = {}

WalkedHeld ==
  \A i \in DOMAIN eTable \ eTodo :
    eFindings = {} /\ eTable[i].slug \in eScope \cap hasRuns => OwnRows(runs, eTable[i]) # {}

InHand ==
  ePc = "judge" =>
    /\ Primitive.slug \in hasRuns
    /\ eLines = runs[Primitive.slug] /\ ~HasTorn(eLines)
    /\ eRows \subseteq Matching(eLines, Primitive.id)
    /\ Matching(eLines, Primitive.id) # {}

Swept ==
  /\ ePc = "sweep" => \A i \in eFiles : SlugNames[i] \in eScope \cap hasRuns
  /\ ePc \in {"sweep", "passed", "failed"} /\ eFindings = {} =>
       \A s \in eScope \cap hasRuns : FileProper(s) \/ \E i \in eFiles : SlugNames[i] = s
  /\ ePc \in {"passed", "failed"} => eFiles = {}
  /\ ePc = "failed" => eFindings # {}

QExact == Faultless /\ WalkedHeld /\ InHand /\ Swept

QInv ==
  /\ ePc = "idle" => eFindings = {}
  /\ ePc # "idle" /\ eGrown => EGrownFrom /\ (Still => QExact)

-----------------------------------------------------------------------------
(* A tree that is as it was was so all the time. *)

\* Two files each of which is a later state of the other are the same.
LEMMA ExtendsIsOrder ==
  ASSUME NEW f \in Seq(Line), NEW g \in Seq(Line), NEW h \in Seq(Line)
  PROVE  /\ Extends(f, f)
         /\ Extends(f, g) /\ Extends(g, h) => Extends(f, h)
         /\ Extends(f, g) /\ Extends(g, f) => f = g
<1>1. Len(f) \in Nat /\ Len(g) \in Nat /\ Len(h) \in Nat
  OBVIOUS
<1>2. Extends(f, f)
  BY <1>1 DEF Extends
<1>3. ASSUME Extends(f, g), Extends(g, h) PROVE Extends(f, h)
  <2>1. Len(f) <= Len(h)
    BY <1>1, <1>3 DEF Extends
  <2>2. ASSUME NEW k \in 1..Len(f)
        PROVE  h[k] = f[k] \/ (f[k].form = "torn" /\ h[k].form # "torn")
    <3>1. k \in 1..Len(g)
      BY <1>1, <1>3 DEF Extends
    <3>2. QED
      BY <1>3, <3>1 DEF Extends
  <2>3. QED
    BY <2>1, <2>2 DEF Extends
<1>4. ASSUME Extends(f, g), Extends(g, f) PROVE f = g
  <2>1. Len(f) = Len(g)
    BY <1>1, <1>4 DEF Extends
  <2>2. \A k \in 1..Len(f) : f[k] = g[k]
    BY <1>4, <2>1 DEF Extends
  <2>3. QED
    BY <2>1, <2>2
<1>5. QED
  BY <1>2, <1>3, <1>4

\* A tree that grows has later states of its files.
LEMMA GrowExtends ==
  ASSUME TreeTypeOK, Grow
  PROVE  /\ \A s \in Slugs : Extends(runs[s], runs'[s])
         /\ hasRuns \subseteq hasRuns'
<1>0. runs \in [Slugs -> Seq(Line)] /\ runs' \in [Slugs -> Seq(Line)]
  BY GrowTypes DEF TreeTypeOK
<1>f. ASSUME NEW s \in Slugs, \A r \in Slugs \ {s} : runs'[r] = runs[r], Extends(runs[s], runs'[s])
      PROVE  \A r \in Slugs : Extends(runs[r], runs'[r])
  BY <1>0, <1>f, ExtendsIsOrder
<1>1. ASSUME NEW s \in Slugs, EndAppend(s)
      PROVE  \A r \in Slugs : Extends(runs[r], runs'[r])
  <2>1. PICK l \in writing[s] : runs' = [runs EXCEPT ![s] = [@ EXCEPT ![Len(@)] = l]]
    BY <1>1 DEF EndAppend
  <2>2. runs[s][Len(runs[s])].form = "torn" /\ l \in Lines
    BY DEF TreeTypeOK
  <2>3. l.form # "torn"
    BY <2>2, LinesAssumption
  <2>4. runs[s] \in Seq(Line) /\ runs'[s] = [runs[s] EXCEPT ![Len(runs[s])] = l]
    BY <1>0, <2>1
  <2>5. /\ Len(runs'[s]) = Len(runs[s]) /\ Len(runs[s]) \in Nat
        /\ \A k \in 1..Len(runs[s]) : runs'[s][k] = IF k = Len(runs[s]) THEN l ELSE runs[s][k]
    BY <2>4
  <2>6. Extends(runs[s], runs'[s])
    BY <2>2, <2>3, <2>5 DEF Extends
  <2>7. \A r \in Slugs \ {s} : runs'[r] = runs[r]
    BY <1>0, <2>1
  <2>8. QED
    BY <2>6, <2>7, <1>f
<1>2. ASSUME NEW s \in Slugs, NEW l \in Lines, BeginAppend(s, l)
      PROVE  \A r \in Slugs : Extends(runs[r], runs'[r])
  <2> DEFINE half == [l EXCEPT !.form = "torn"]
  <2>1. runs' = [runs EXCEPT ![s] = Append(@, half)]
    BY <1>2 DEF BeginAppend
  <2>2. half \in Line
    BY HalfLine
  <2> HIDE DEF half
  <2>3. runs[s] \in Seq(Line) /\ runs'[s] = Append(runs[s], half)
    BY <1>0, <2>1
  <2>4. /\ Len(runs'[s]) = Len(runs[s]) + 1 /\ Len(runs[s]) \in Nat
        /\ \A k \in 1..Len(runs[s]) : runs'[s][k] = runs[s][k]
    BY <2>2, <2>3, AppendProperties
  <2>5. Extends(runs[s], runs'[s])
    BY <2>4 DEF Extends
  <2>6. \A r \in Slugs \ {s} : runs'[r] = runs[r]
    BY <1>0, <2>1
  <2>7. QED
    BY <2>5, <2>6, <1>f
<1>3. ASSUME runs' = runs PROVE \A r \in Slugs : Extends(runs[r], runs'[r])
  BY <1>0, <1>3, ExtendsIsOrder
<1>4. \A s \in Slugs : Extends(runs[s], runs'[s])
  BY <1>1, <1>2, <1>3
     DEF Grow, Write, KillWriter, WriteSummary, WriteReport, DeleteArtefacts, content
<1>5. hasRuns \subseteq hasRuns'
  BY DEF Grow, Write, EndAppend, BeginAppend, KillWriter, WriteSummary, WriteReport,
         DeleteArtefacts, content
<1>6. QED
  BY <1>4, <1>5

\* A tree that has only grown, and is what it was, was it all the time.
LEMMA StillBefore ==
  ASSUME TypeOK, TypeOK', EKept, EGrownFrom, Grow, UNCHANGED <<eVars, eHist>>
  PROVE  /\ EGrownFrom'
         /\ Still' => Still /\ UNCHANGED <<table, runs, hasRuns, mask, vendorFs, openFs>>
<1>1. eStart' = eStart
  BY DEF eHist
<1>2. /\ \A s \in Slugs : Extends(runs[s], runs'[s])
      /\ hasRuns \subseteq hasRuns' /\ table' = table /\ mask' = mask
      /\ vendorFs' \subseteq vendorFs /\ \A r \in Runs : openFs'[r] \in {0, openFs[r]}
  BY GrowExtends, GrowKeeps DEF TypeOK
<1>3. /\ runs \in [Slugs -> Seq(Line)] /\ runs' \in [Slugs -> Seq(Line)]
      /\ eStart.runs \in [Slugs -> Seq(Line)]
      /\ openFs \in [Runs -> 0..NBuilds] /\ openFs' \in [Runs -> 0..NBuilds]
  BY DEF TypeOK, TreeTypeOK, ETypeOK
<1>4. EGrownFrom'
  <2>1. \A s \in Slugs : Extends(eStart.runs[s], runs'[s])
    BY <1>2, <1>3, ExtendsIsOrder DEF EGrownFrom
  <2>2. QED
    BY <1>1, <1>2, <2>1 DEF EGrownFrom
<1>5. ASSUME Still' PROVE Still /\ UNCHANGED <<table, runs, hasRuns, mask, vendorFs, openFs>>
  <2>1. eStart = [table |-> table', runs |-> runs', hasRuns |-> hasRuns', mask |-> mask',
                  vendorFs |-> vendorFs', openFs |-> openFs']
    BY <1>1, <1>5 DEF Still
  <2>2. /\ eStart.runs = runs' /\ eStart.hasRuns = hasRuns'
        /\ eStart.vendorFs = vendorFs' /\ eStart.openFs = openFs'
    BY <2>1
  <2>3. runs' = runs
    <3>1. \A s \in Slugs : Extends(runs'[s], runs[s])
      BY <2>2 DEF EGrownFrom
    <3>2. \A s \in Slugs : runs'[s] = runs[s]
      BY <1>2, <1>3, <3>1, ExtendsIsOrder
    <3>3. QED
      BY <1>3, <3>2
  <2>4. hasRuns' = hasRuns
    BY <1>2, <2>2 DEF EGrownFrom
  <2>5. vendorFs' = vendorFs
    BY <1>2, <2>2 DEF EKept
  <2>6. openFs' = openFs
    <3>1. ASSUME NEW r \in Runs PROVE openFs'[r] = openFs[r]
      BY <1>2, <2>2 DEF EKept
    <3>2. QED
      BY <1>3, <3>1
  <2>7. QED
    BY <1>2, <2>1, <2>3, <2>4, <2>5, <2>6 DEF Still
<1>6. QED
  BY <1>4, <1>5

-----------------------------------------------------------------------------
(* The walk and the sweep. *)

\* The lines with a primitive's id, where none is torn, are its rows.
LEMMA MatchingAreOwn ==
  ASSUME TypeOK, NEW t \in TableRow, t.slug \in Slugs, ~HasTorn(runs[t.slug])
  PROVE  /\ \A k \in Matching(runs[t.slug], t.id) :
              runs[t.slug][k] \in Line /\ runs[t.slug][k] \in OwnRows(runs, t)
         /\ OwnRows(runs, t) # {} <=> Matching(runs[t.slug], t.id) # {}
<1>1. runs \in [Slugs -> Seq(Line)]
  BY DEF TypeOK, TreeTypeOK
<1>2. /\ RowsIn(runs)[t.slug] = {l \in RangeOf(runs[t.slug]) : l.form # "torn"}
      /\ RowsIn(runs)[t.slug] \subseteq Line
      /\ OwnRows(runs, t) = {l \in RowsIn(runs)[t.slug] : l.prim = t.id}
  BY <1>1, RowsInFile DEF OwnRows
<1>3. ASSUME NEW k \in Matching(runs[t.slug], t.id)
      PROVE  runs[t.slug][k] \in Line /\ runs[t.slug][k] \in OwnRows(runs, t)
  BY <1>2 DEF Matching, HasTorn, RangeOf
<1>4. ASSUME NEW l \in OwnRows(runs, t) PROVE Matching(runs[t.slug], t.id) # {}
  BY <1>2 DEF Matching, RangeOf
<1>5. QED
  BY <1>3, <1>4

\* A file with a torn line is not in order.
LEMMA TornIsImproper ==
  ASSUME NEW s \in Slugs, HasTorn(runs[s])
  PROVE  ~FileProper(s)
<1>1. PICK k \in DOMAIN runs[s] : runs[s][k].form = "torn"
  BY DEF HasTorn
<1>2. runs[s][k] \in RangeOf(runs[s]) /\ ~LineValid(runs[s][k], s)
  BY <1>1 DEF RangeOf, LineValid, RunRowValid, Bookkeeping
<1>3. QED
  BY <1>2 DEF FileProper

\* What the sweep finds in a file is a fault of it, and a fault it does find.
LEMMA SweepIsExact ==
  ASSUME NEW s \in Slugs, runs[s] \in Seq(Line)
  PROVE  SweepFindings(runs[s], s) = {} <=> FileProper(s)
<1> DEFINE lines == runs[s]
           bad   == {i \in DOMAIN lines : ~LineValid(lines[i], s)}
<1>1. SweepFindings(lines, s) = {} <=> bad = {} /\ bad # DOMAIN lines
  BY DEF SweepFindings
<1>2. bad = {} <=> \A l \in RangeOf(lines) : LineValid(l, s)
  BY DEF RangeOf
<1>3. DOMAIN lines = {} <=> lines = <<>>
  <2>1. DOMAIN lines = 1..Len(lines) /\ Len(lines) \in Nat /\ (Len(lines) = 0 <=> lines = <<>>)
    BY LenProperties, EmptySeq
  <2>2. \A n \in Nat : 1..n = {} <=> n = 0
    OBVIOUS
  <2> HIDE DEF lines
  <2>3. QED
    BY <2>1, <2>2
<1>4. QED
  BY <1>1, <1>2, <1>3 DEF FileProper

\* On the disk of the start the walk has no finding of a row that is admitted.
LEMMA AdmittedIsNoFinding ==
  ASSUME EKept, Still, NEW l, AdmittedAtStart(l)
  PROVE  RowFindings(l, eMask, vendorFs, openFs) = {}
<1>1. /\ eMask = eStart.mask /\ vendorFs = eStart.vendorFs /\ openFs = eStart.openFs
  BY DEF EKept, Still
<1>2. /\ l.form = "run" /\ l.paths /\ SchemaValid(l.row) /\ VerdictFits(l.row)
      /\ l.row.found.residual \in {"none", "listed"}
      /\ ArtefactsResolve(l.row, vendorFs, openFs) /\ MaskFits(l, eMask)
  BY <1>1 DEF AdmittedAtStart, Admissible
<1>3. QED
  BY <1>2 DEF RowFindings, RunRowValid

\* A step of the walk or the sweep over a tree that is as it was.
LEMMA QuietProgress ==
  ASSUME TypeOK, EProgress, Still, QExact, EvidenceStep, UNCHANGED tree
  PROVE  QExact'
<1>0. /\ UNCHANGED <<table, runs, hasRuns, mask, vendorFs, openFs>>
      /\ UNCHANGED <<eScope, eTable, eStart>>
      /\ EKept /\ EEnds /\ Faultless /\ WalkedHeld /\ InHand /\ Swept
  BY DEF tree, content, EvidenceStep, Pending, Unreadable, ReadRows, JudgeRow, RowsJudged,
         Discover, SweepFile, EndEvidence, eHist, EProgress, QExact
<1>1. (TreeProper' <=> TreeProper) /\ (\A s : FileProper(s)' <=> FileProper(s))
  BY <1>0 DEF TreeProper, FileProper, Proper, OwnRows, RowsIn, AdmittedAtStart
<1>2. ASSUME eTodo # {}
      PROVE  /\ Primitive \in TableRow /\ Primitive.slug \in eScope /\ Primitive.slug \in Slugs
             /\ Primitive \in RangeOf(table) /\ First(eTodo) \in eTodo
             /\ TreeProper => Proper(Primitive)
             /\ TreeProper /\ Primitive.slug \in hasRuns => FileProper(Primitive.slug)
  <2>1. Primitive \in TableRow /\ Primitive.slug \in Slugs
    BY <1>2, PrimitiveType DEF TypeOK
  <2>2. First(eTodo) \in eTodo
    BY <1>2, FirstOfSeq DEF TypeOK, ETypeOK
  <2>3. Primitive.slug \in eScope
    BY <2>2 DEF Primitive, TypeOK, ETypeOK
  <2>4. Primitive \in RangeOf(table)
    BY <1>0, <2>2 DEF Primitive, RangeOf, EKept, TypeOK, ETypeOK
  <2>5. QED
    BY <2>1, <2>2, <2>3, <2>4 DEF TreeProper
<1>3. ASSUME eFindings \subseteq eFindings', TreeProper => eFindings' = eFindings
      PROVE  Faultless'
  BY <1>0, <1>1, <1>3 DEF Faultless
<1>4. ASSUME eFindings \subseteq eFindings', eTodo' = eTodo PROVE WalkedHeld'
  <2>1. eFindings' = {} => eFindings = {}
    BY <1>4
  <2>2. QED
    BY <1>0, <1>4, <2>1 DEF WalkedHeld, OwnRows, RowsIn
<1>5. ASSUME eFindings \subseteq eFindings', Walked,
             eFindings' = {} /\ Primitive.slug \in hasRuns => OwnRows(runs, Primitive) # {}
      PROVE  WalkedHeld'
  <2>1. eFindings' = {} => eFindings = {}
    BY <1>5
  <2>2. ASSUME NEW i \in DOMAIN eTable \ eTodo', eFindings' = {},
               eTable[i].slug \in eScope \cap hasRuns
        PROVE  OwnRows(runs, eTable[i]) # {}
    <3>1. CASE i \in eTodo
      <4>1. eTable[i] = Primitive
        BY <1>5, <3>1 DEF Walked, Primitive
      <4>2. QED
        BY <1>5, <2>2, <4>1
    <3>2. CASE i \notin eTodo
      BY <1>0, <2>1, <2>2, <3>2 DEF WalkedHeld
    <3>3. QED
      BY <3>1, <3>2
  <2>3. QED
    BY <1>0, <2>2 DEF WalkedHeld, OwnRows, RowsIn
<1>6. CASE Pending
  <2>1. /\ ePc = "walk" /\ ePc' = "walk" /\ eTodo # {} /\ Primitive.slug \notin hasRuns
        /\ eFindings' = eFindings \cup Status(Primitive) /\ Walked
    BY <1>6 DEF Pending
  <2>2. TreeProper => Status(Primitive) = {}
    BY <1>2, <2>1 DEF Proper, Status
  <2>3. Faultless' /\ WalkedHeld'
    BY <1>3, <1>5, <2>1, <2>2
  <2>4. QED
    BY <2>1, <2>3 DEF QExact, InHand, Swept
<1>7. CASE Unreadable
  <2> DEFINE lines == runs[Primitive.slug]
  <2>1. /\ ePc = "walk" /\ ePc' = "walk" /\ eTodo # {} /\ Primitive.slug \in hasRuns /\ Walked
        /\ HasTorn(lines) \/ Matching(lines, Primitive.id) = {}
        /\ eFindings \subseteq eFindings' /\ eFindings' # {}
    BY <1>7 DEF Unreadable
  <2>2. ~TreeProper
    <3>1. CASE HasTorn(lines)
      BY <1>2, <2>1, <3>1, TornIsImproper
    <3>2. CASE ~HasTorn(lines)
      <4>1. OwnRows(runs, Primitive) = {}
        BY <1>2, <2>1, <3>2, MatchingAreOwn
      <4>2. QED
        BY <1>2, <2>1, <4>1 DEF Proper
    <3>3. QED
      BY <3>1, <3>2
  <2>3. Faultless' /\ WalkedHeld'
    BY <1>3, <1>5, <2>1, <2>2
  <2>4. QED
    BY <2>1, <2>3 DEF QExact, InHand, Swept
<1>8. CASE ReadRows
  <2> DEFINE lines == runs[Primitive.slug]
  <2>1. /\ ePc = "walk" /\ ePc' = "judge" /\ eTodo # {} /\ Primitive.slug \in hasRuns
        /\ ~HasTorn(lines) /\ Matching(lines, Primitive.id) # {}
        /\ eLines' = lines /\ eRows' = Matching(lines, Primitive.id)
        /\ eFindings' = eFindings \cup Status(Primitive) /\ UNCHANGED eTodo
    BY <1>8 DEF ReadRows
  <2>2. TreeProper => Status(Primitive) = {}
    BY <1>2, <2>1 DEF Proper, Status
  <2>3. Faultless' /\ WalkedHeld'
    BY <1>3, <1>4, <2>1, <2>2
  <2>4. Primitive' = Primitive
    BY <1>0, <2>1 DEF Primitive
  <2>5. InHand'
    BY <1>0, <2>1, <2>4 DEF InHand
  <2>6. QED
    BY <2>1, <2>3, <2>5 DEF QExact, Swept
<1>9. CASE JudgeRow
  <2> DEFINE k     == First(eRows)
             found == RowFindings(eLines[k], eMask, vendorFs, openFs)
  <2>1. /\ ePc = "judge" /\ ePc' = "judge" /\ eRows # {} /\ eRows' = eRows \ {k}
        /\ eFindings' = eFindings \cup {<<x, Primitive.id>> : x \in found}
        /\ UNCHANGED <<eTodo, eLines>>
    BY <1>9 DEF JudgeRow
  <2>2. k \in eRows /\ eTodo # {}
    BY <2>1, FirstOfSeq DEF TypeOK, ETypeOK
  <2>3. /\ Primitive.slug \in hasRuns /\ eLines = runs[Primitive.slug] /\ ~HasTorn(eLines)
        /\ k \in Matching(eLines, Primitive.id)
    BY <1>0, <2>1, <2>2 DEF InHand
  <2> HIDE DEF k
  <2>4. eLines[k] \in OwnRows(runs, Primitive)
    BY <1>2, <2>2, <2>3, MatchingAreOwn
  <2>5. TreeProper => found = {}
    BY <1>0, <1>2, <2>2, <2>3, <2>4, AdmittedIsNoFinding DEF Proper
  <2> HIDE DEF found
  <2>6. Faultless' /\ WalkedHeld'
    BY <1>3, <1>4, <2>1, <2>5
  <2>7. Primitive' = Primitive
    BY <1>0, <2>1 DEF Primitive
  <2>8. InHand'
    BY <1>0, <2>1, <2>7 DEF InHand
  <2>9. QED
    BY <2>1, <2>6, <2>8 DEF QExact, Swept
<1>10. CASE RowsJudged
  <2>1. /\ ePc = "judge" /\ ePc' = "walk" /\ Walked /\ UNCHANGED eFindings
    BY <1>10 DEF RowsJudged
  <2>2. eTodo # {}
    BY <2>1 DEF TypeOK, ETypeOK
  <2>3. OwnRows(runs, Primitive) # {}
    BY <1>0, <1>2, <2>1, <2>2, MatchingAreOwn DEF InHand
  <2>4. Faultless' /\ WalkedHeld'
    BY <1>3, <1>5, <2>1, <2>3
  <2>5. QED
    BY <2>1, <2>4 DEF QExact, InHand, Swept
<1>11. CASE Discover
  <2>1. /\ ePc' = "sweep" /\ UNCHANGED <<eTodo, eFindings>>
        /\ eFiles' = {i \in DOMAIN SlugNames : SlugNames[i] \in hasRuns \cap eScope}
    BY <1>11 DEF Discover
  <2>2. \A s \in eScope \cap hasRuns : \E i \in eFiles' : SlugNames[i] = s
    BY <2>1 DEF Slugs, TypeOK, ETypeOK
  <2>3. Swept'
    BY <1>0, <2>1, <2>2 DEF Swept
  <2>4. Faultless' /\ WalkedHeld'
    BY <1>3, <1>4, <2>1
  <2>5. QED
    BY <2>1, <2>3, <2>4 DEF QExact, InHand
<1>12. CASE SweepFile
  <2> DEFINE n == First(eFiles)
             s == SlugNames[n]
             found == SweepFindings(runs[s], s)
  <2>1. /\ ePc = "sweep" /\ ePc' = "sweep" /\ eFiles # {} /\ UNCHANGED eTodo
        /\ eFindings' = eFindings \cup found /\ eFiles' = eFiles \ {n}
    BY <1>12 DEF SweepFile
  <2>2. n \in eFiles
    BY <2>1, FirstOfSeq, SlugNamesAssumption DEF TypeOK, ETypeOK
  <2>3. s \in eScope \cap hasRuns
    BY <1>0, <2>1, <2>2 DEF Swept
  <2>4. found = {} <=> FileProper(s)
    BY <2>3, SweepIsExact DEF TypeOK, TreeTypeOK, ETypeOK
  <2> HIDE DEF found, s
  <2>5. TreeProper => found = {}
    BY <2>3, <2>4 DEF TreeProper
  <2>6. Faultless' /\ WalkedHeld'
    BY <1>3, <1>4, <2>1, <2>5
  <2>7. ASSUME eFindings' = {}, NEW r \in eScope \cap hasRuns
        PROVE  FileProper(r) \/ \E i \in eFiles' : SlugNames[i] = r
    <3>1. CASE r = s
      BY <2>1, <2>4, <2>7, <3>1
    <3>2. CASE r # s
      <4>1. FileProper(r) \/ \E i \in eFiles : SlugNames[i] = r
        BY <1>0, <2>1, <2>7 DEF Swept
      <4>2. \A i \in eFiles : SlugNames[i] = r => i # n
        BY <3>2 DEF s
      <4>3. QED
        BY <2>1, <4>1, <4>2
    <3>3. QED
      BY <3>1, <3>2
  <2>8. Swept'
    BY <1>0, <1>1, <2>1, <2>7 DEF Swept
  <2>9. QED
    BY <2>1, <2>6, <2>8 DEF QExact, InHand
<1>13. CASE EndEvidence
  <2>1. /\ ePc = "sweep" /\ eFiles = {} /\ UNCHANGED <<eTodo, eFindings, eFiles>>
        /\ ePc' = IF eFindings = {} THEN "passed" ELSE "failed"
    BY <1>13 DEF EndEvidence
  <2>2. Swept'
    BY <1>0, <1>1, <2>1 DEF Swept
  <2>3. Faultless' /\ WalkedHeld'
    BY <1>3, <1>4, <2>1
  <2>4. QED
    BY <2>1, <2>2, <2>3 DEF QExact, InHand
<1>14. QED
  BY <1>6, <1>7, <1>8, <1>9, <1>10, <1>11, <1>12, <1>13 DEF EvidenceStep

\* Every step keeps the invariant of the quiet tree.
LEMMA NextQInv == TypeOK /\ TypeOK' /\ EInv /\ QInv /\ [Next]_vars => QInv'
<1> SUFFICES ASSUME TypeOK, TypeOK', EInv, QInv, [Next]_vars PROVE QInv'
  OBVIOUS
<1>0. ePc' = "idle" => eFindings' = {}
  <2>1. CASE EvidenceStep
    BY <2>1 DEF EvidenceStep, Pending, Unreadable, ReadRows, JudgeRow, RowsJudged, Discover,
                SweepFile, EndEvidence
  <2>2. CASE \E scope : StartEvidence(scope)
    BY <2>2 DEF StartEvidence
  <2>3. CASE UNCHANGED eVars
    BY <2>3 DEF eVars, QInv
  <2>4. QED
    BY <2>1, <2>2, <2>3
       DEF Next, Checks, MakeEvidence, MakeCriteria, MakeEnds, EvidenceByHand, CriteriaByHand,
           TreeGrows, TreeIsRevised, vars
<1> SUFFICES ASSUME ePc' # "idle", eGrown'
             PROVE  EGrownFrom' /\ (Still' => QExact')
  BY <1>0 DEF QInv
<1>k. ASSUME UNCHANGED <<table, runs, hasRuns, mask, vendorFs, openFs>>, UNCHANGED <<eVars, eHist>>,
             QExact
      PROVE  QExact'
  <2>1. UNCHANGED <<ePc, eScope, eTable, eTodo, eLines, eRows, eFiles, eFindings, eStart>>
    BY <1>k DEF eVars, eHist
  <2>2. (TreeProper' <=> TreeProper) /\ (\A s : FileProper(s)' <=> FileProper(s))
    BY <1>k, <2>1 DEF TreeProper, FileProper, Proper, OwnRows, RowsIn, AdmittedAtStart
  <2>3. Primitive' = Primitive
    BY <2>1 DEF Primitive
  <2>4. Faultless' /\ InHand' /\ Swept'
    BY <1>k, <2>1, <2>2, <2>3 DEF QExact, Faultless, InHand, Swept
  <2>5. WalkedHeld'
    BY <1>k, <2>1 DEF QExact, WalkedHeld, OwnRows, RowsIn
  <2>6. QED
    BY <2>4, <2>5 DEF QExact
<1>s. ASSUME UNCHANGED <<tree, eVars, eHist>> PROVE EGrownFrom' /\ (Still' => QExact')
  <2>1. /\ UNCHANGED <<table, runs, hasRuns, mask, vendorFs, openFs, eStart, ePc, eGrown>>
    BY <1>s DEF tree, content, eVars, eHist
  <2>2. (Still' <=> Still) /\ (EGrownFrom' <=> EGrownFrom)
    BY <2>1 DEF Still, EGrownFrom
  <2>3. QED
    BY <1>k, <1>s, <2>1, <2>2 DEF QInv
<1>1. CASE EvidenceStep /\ UNCHANGED <<tree, cVars, cHist, gate>>
  <2>1. ePc # "idle" /\ eGrown /\ UNCHANGED eStart
    BY <1>1 DEF EvidenceStep, Pending, Unreadable, ReadRows, JudgeRow, RowsJudged, Discover,
                SweepFile, EndEvidence, eHist
  <2>2. UNCHANGED <<table, runs, hasRuns, mask, vendorFs, openFs>>
    BY <1>1 DEF tree, content
  <2>3. (Still' <=> Still) /\ (EGrownFrom' <=> EGrownFrom)
    BY <2>1, <2>2 DEF Still, EGrownFrom
  <2>4. QED
    BY <1>1, <2>1, <2>3, QuietProgress DEF QInv, EInv
<1>2. CASE \E scope : StartEvidence(scope) /\ UNCHANGED tree
  <2>1. /\ ePc' = "walk" /\ eTable' = table /\ UNCHANGED <<eFindings, eFiles>>
        /\ \E scope : eTodo' = {i \in DOMAIN table : table[i].slug \in scope} /\ eScope' = scope
        /\ eStart' = [table |-> table, runs |-> runs, hasRuns |-> hasRuns, mask |-> mask,
                      vendorFs |-> vendorFs, openFs |-> openFs]
        /\ UNCHANGED <<runs, hasRuns>>
    BY <1>2 DEF StartEvidence, tree, content
  <2>2. EGrownFrom'
    BY <2>1, ExtendsIsOrder DEF EGrownFrom, TypeOK, TreeTypeOK
  <2>3. eFindings' = {}
    BY <1>2, <2>1 DEF StartEvidence, QInv
  <2>4. QED
    BY <2>1, <2>2, <2>3 DEF QExact, Faultless, WalkedHeld, InHand, Swept
<1>3. CASE TreeGrows
  <2>1. ePc # "idle" /\ eGrown /\ UNCHANGED <<eVars, eHist>> /\ Grow
    BY <1>3 DEF TreeGrows, eVars, eHist
  <2>2. EKept /\ EGrownFrom /\ (Still => QExact)
    BY <2>1 DEF EInv, EProgress, QInv
  <2>3. /\ EGrownFrom'
        /\ Still' => Still /\ UNCHANGED <<table, runs, hasRuns, mask, vendorFs, openFs>>
    BY <2>1, <2>2, StillBefore
  <2>4. QED
    BY <1>k, <2>1, <2>2, <2>3
<1>4. CASE TreeIsRevised
  BY <1>4 DEF TreeIsRevised
<1>5. QED
  BY <1>s, <1>1, <1>2, <1>3, <1>4
     DEF Next, Checks, MakeEvidence, MakeCriteria, MakeEnds, EvidenceByHand, CriteriaByHand, vars

\* When the tree is at the end as it was at the start and was not revised
\* meanwhile, check_evidence.py passes exactly the trees its docstring admits.
THEOREM QuietEvidenceExact == Spec => []QuietEvidenceIsExact
<1>1. Init => EInv /\ QInv
  BY DEF Init, EInit, EInv, QInv
<1>2. TypeOK /\ EInv /\ QInv => QuietEvidenceIsExact
  <2> SUFFICES ASSUME TypeOK, EInv, QInv, ePc \in {"passed", "failed"}, eGrown, Still
               PROVE  ePc = "passed" <=> TreeProper
    BY DEF QuietEvidenceIsExact, Still, TreeProper, FileProper, Proper
  <2>1. EProgress /\ QExact
    BY DEF EInv, QInv
  <2>2. eTodo = {} /\ eFiles = {} /\ eTable = table /\ eStart.runs = runs
        /\ (ePc = "passed" <=> eFindings = {})
    BY <2>1 DEF EProgress, EEnds, EKept, QExact, Swept, Still
  <2>3. ASSUME eFindings = {} PROVE TreeProper
    <3>1. ASSUME NEW t \in RangeOf(table), t.slug \in eScope PROVE Proper(t)
      <4>1. PICK i \in DOMAIN eTable : eTable[i] = t
        BY <2>2, <3>1 DEF RangeOf
      <4>2. Vouched(t)
        BY <2>1, <2>2, <2>3, <3>1, <4>1 DEF EProgress, WalkedVouched
      <4>3. t.slug \in hasRuns => OwnRows(runs, t) # {}
        BY <2>1, <2>2, <2>3, <3>1, <4>1 DEF QExact, WalkedHeld
      <4>4. QED
        BY <2>2, <4>2, <4>3 DEF Vouched, Proper
    <3>2. \A s \in eScope \cap hasRuns : FileProper(s)
      BY <2>1, <2>2, <2>3 DEF QExact, Swept
    <3>3. QED
      BY <3>1, <3>2 DEF TreeProper
  <2>4. QED
    BY <2>1, <2>2, <2>3 DEF QExact, Faultless
<1>3. QED
  BY <1>1, <1>2, NextEInv, NextQInv, TypeCorrect, PTL DEF Spec
=============================================================================
