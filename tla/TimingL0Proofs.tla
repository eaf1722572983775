--------------------------- MODULE TimingL0Proofs ---------------------------
(***************************************************************************)
(* Proofs about TimingL0 for every command line, chipdb, SDF and set of    *)
(* groups: what an exit 0 and the printed counts say of either mode.       *)
(***************************************************************************)
EXTENDS TimingL0, FiniteSetTheorems, WellFoundedInduction, TLAPS

------------------------------------------------------------------------------
(* Delays are numbers. *)

\* A finite set of numbers that is not empty has a largest one, and it is Largest's.
LEMMA LargestIsThere ==
  ASSUME NEW S, IsFiniteSet(S), S \subseteq Int, S # {}
  PROVE  Largest(S) \in S /\ \A o \in S : o <= Largest(S)
  <1>1. PICK n \in Nat : ExistsBijection(1..n, S)
    BY FS_NatBijection
  <1>2. PICK f \in [1..n -> S] : \A x \in S : \E i \in 1..n : f[i] = x
    BY <1>1 DEF ExistsBijection, Bijection, Injection, Surjection
  <1> DEFINE Tops(k) == {m \in 1..k : \A j \in 1..k : f[j] <= f[m]}
             Fails == {k \in 1..n : Tops(k) = {}}
             Less == {ss \in Nat \X Nat : ss[1] < ss[2]}
  <1>3. Fails = {}
    <2>1. SUFFICES ASSUME Fails # {} PROVE FALSE
      OBVIOUS
    <2>2. IsWellFoundedOn(Less, Nat)
      BY NatLessThanWellFounded DEF OpToRel
    <2>3. Fails \subseteq Nat
      OBVIOUS
    <2>4. PICK k \in Fails : \A y \in Fails : ~(<<y, k>> \in Less)
      <3> HIDE DEF Fails, Less
      <3>1. QED
        BY <2>1, <2>2, <2>3, WFMin
    <2>5. k \in 1..n /\ Tops(k) = {}
      OBVIOUS
    <2>6. k # 1
      <3>1. 1 \in 1..n => f[1] \in Int
        BY <1>2
      <3>2. 1 \in 1..n => 1 \in Tops(1)
        BY <3>1
      <3>3. QED
        BY <2>5, <3>2
    <2>7. k - 1 \in 1..n /\ k - 1 \notin Fails
      <3>1. k - 1 \in 1..n /\ k - 1 < k /\ k \in Nat /\ k - 1 \in Nat
        BY <2>5, <2>6
      <3>2. <<k - 1, k>> \in Less
        BY <3>1
      <3> HIDE DEF Fails, Less
      <3>3. QED
        BY <2>4, <3>1, <3>2
    <2>8. PICK m \in Tops(k - 1) : TRUE
      <3>1. Tops(k - 1) # {}
        BY <2>7
      <3>2. QED
        BY <3>1
    <2>9. m \in 1..(k - 1) /\ \A j \in 1..(k - 1) : f[j] <= f[m]
      OBVIOUS
    <2>10. /\ \A j \in 1..k : f[j] \in Int /\ (j = k \/ j \in 1..(k - 1))
           /\ m \in 1..k /\ k \in 1..k
      <3>1. \A j \in 1..k : j \in 1..n /\ (j = k \/ j \in 1..(k - 1))
        BY <2>5
      <3>2. \A j \in 1..n : f[j] \in Int
        BY <1>2
      <3>3. QED
        BY <2>5, <2>9, <3>1, <3>2
    <2>11. CASE f[k] <= f[m]
      <3>1. m \in Tops(k)
        BY <2>9, <2>10, <2>11
      <3>2. QED
        BY <2>5, <3>1
    <2>12. CASE ~(f[k] <= f[m])
      <3>1. \A j \in 1..k : f[j] <= f[k]
        BY <2>9, <2>10, <2>12
      <3>2. k \in Tops(k)
        BY <2>10, <3>1
      <3>3. QED
        BY <2>5, <3>2
    <2>13. QED
      BY <2>11, <2>12
  <1>4. n \in 1..n
    <2>1. PICK x \in S : TRUE
      OBVIOUS
    <2>2. PICK i \in 1..n : f[i] = x
      BY <1>2, <2>1
    <2>3. QED
      BY <2>2
  <1>5. PICK m \in Tops(n) : TRUE
    BY <1>3, <1>4
  <1>6. f[m] \in S /\ \A o \in S : o <= f[m]
    BY <1>2, <1>5
  <1>7. QED
    BY <1>6 DEF Largest

\* What the chipdb's entries and the SDF's arcs give as delays are numbers.
LEMMA DelaysAreNumbers ==
  ASSUME NEW job \in Jobs
  PROVE  /\ \A t \in Delays(job.timing) : ArcMax(t) \in Int
         /\ \A a \in Installed(job) : a.ns \in Int
         /\ \A i \in DOMAIN Arcs(job) : Arcs(job)[i].ns \in Int
  <1>1. ASSUME NEW t \in Delays(job.timing) PROVE ArcMax(t) \in Int
    <2>1. t.delays \subseteq Int /\ IsFiniteSet(t.delays) /\ t.delays # {}
      BY JobsAssumption DEF Delays
    <2>2. QED
      BY <2>1, LargestIsThere DEF ArcMax
  <1>2. \A a \in Installed(job) : a.ns \in Int
    BY <1>1 DEF Installed
  <1>3. ASSUME NEW i \in DOMAIN Arcs(job) PROVE Arcs(job)[i].ns \in Int
    <2> DEFINE T == job.paths[i].triples
               S == {TripleMax(t) : t \in T}
    <2>1. i \in DOMAIN job.paths /\ T # {}
      BY DEF Arcs
    <2>2. T \subseteq Int /\ IsFiniteSet(T) /\ job.scale \in Int
      BY <2>1, JobsAssumption
    <2>3. IsFiniteSet(S) /\ S \subseteq Int /\ S # {}
      <3>1. S \subseteq Int /\ S # {}
        BY <2>1, <2>2 DEF TripleMax
      <3>2. IsFiniteSet(S)
        <4>1. [t \in T |-> TripleMax(t)] \in Surjection(T, S)
          BY DEF Surjection
        <4>2. QED
          BY <2>2, <4>1, FS_Surjection DEF ExistsSurjection
      <3>3. QED
        BY <3>1, <3>2
    <2>4. Largest(S) \in Int
      <3> HIDE DEF S
      <3>1. QED
        BY <2>3, LargestIsThere
    <2>5. Arcs(job)[i].ns = job.scale * Largest(S)
      BY <2>1 DEF Arcs
    <2>6. QED
      BY <2>2, <2>4, <2>5
  <1>4. QED
    BY <1>1, <1>2, <1>3

\* The index has the key of each installed arc, with the delay of one that has it.
LEMMA IndexOfInstalled ==
  ASSUME NEW job \in Jobs, NEW f \in Indexes(job)
  PROVE  /\ DOMAIN f = {Key(a) : a \in Installed(job)}
         /\ \A k \in DOMAIN f : \E b \in Installed(job) : Key(b) = k /\ f[k] = b.ns
  BY DEF Indexes

------------------------------------------------------------------------------
(* Band mode. *)

\* The one command line of a run, and what is empty before it starts.
RunInv ==
  /\ tPc \in {"idle", "band", "groups", "done"}
  /\ tPc = "idle" => /\ tNext = 1 /\ tCompared = {} /\ tExceptions = {} /\ tUnmapped = {}
                     /\ tTodo = {} /\ tFailures = {}
  /\ tPc # "idle" => tJob \in Jobs
  /\ tPc = "band" => tJob.sdf /\ tJob.cls \in Live \union {"all"}
  /\ tPc = "groups" => ~tJob.sdf /\ tJob.cls \in Live \union {"all"}

\* What is known of an arc that was compared and is no exception.
AgreesAt(i) ==
  LET a == Arcs(tJob)[i]
  IN  IF Key(a) \in DOMAIN tModel THEN Within(tModel[Key(a)], a.ns)
                                  ELSE a.ns = 0

\* The loop has put every arc of the classes that it has passed in one list, an arc
\* without a model in the unmapped one unless the classes are zero-delay ones.
BandInv ==
  tPc = "band" \/ (Banded /\ tExit # 2) =>
    /\ tModel \in Indexes(tJob)
    /\ tNext \in Nat \ {0}
    /\ tCompared \intersect tUnmapped = {}
    /\ tExceptions \subseteq tCompared
    /\ \A i \in tCompared \union tUnmapped :
         i \in DOMAIN Arcs(tJob) /\ i < tNext /\ InClass(tJob, Arcs(tJob)[i])
    /\ \A i \in DOMAIN Arcs(tJob) :
         i < tNext /\ InClass(tJob, Arcs(tJob)[i]) => i \in tCompared \union tUnmapped
    /\ \A i \in tUnmapped : Key(Arcs(tJob)[i]) \notin DOMAIN tModel /\ ~ZeroModelled(tJob)
    /\ \A i \in tCompared \ tExceptions : AgreesAt(i)
    /\ Banded => /\ \A i \in DOMAIN Arcs(tJob) : i < tNext
                 /\ tExit = 0 => tExceptions = {}

\* A comparison that raises no exception is within the band; with no delay in the
\* model there is none in the SDF.
LEMMA NoExceptionIsWithin ==
  ASSUME NEW m \in Int, NEW ns \in Int, FALSE \in OutOfBand(m, ns)
  PROVE  Within(m, ns) /\ (m = 0 => ns = 0)
  <1>1. Abs(m - ns) \in Int /\ (m = 0 => Abs(m - ns) = Abs(-ns))
    BY DEF Abs
  <1>2. Within(m, ns)
    <2>1. CASE ns = 0
      <3>1. OutOfBand(m, ns) = {m # 0}
        BY <2>1 DEF OutOfBand
      <3>2. m = 0
        BY <3>1, Zenon
      <3>3. QED
        BY <2>1, <3>2 DEF Within, Abs
    <2>2. CASE ns # 0 /\ 10 * Abs(m - ns) = ns
      BY <2>2, <1>1 DEF Within
    <2>3. CASE ns # 0 /\ 10 * Abs(m - ns) # ns
      <3>1. OutOfBand(m, ns) = {10 * Abs(m - ns) > ns}
        BY <2>3 DEF OutOfBand
      <3>2. ~(10 * Abs(m - ns) > ns)
        BY <3>1, Zenon
      <3>3. QED
        BY <1>1, <3>2 DEF Within
    <2>4. QED
      BY <2>1, <2>2, <2>3
  <1>3. m = 0 => ns = 0
    BY <1>2 DEF Within, Abs
  <1>4. QED
    BY <1>2, <1>3

\* The comparison says yes or no, or leaves both open.
LEMMA VerdictOfBand ==
  ASSUME NEW m \in Int, NEW ns \in Int, NEW out \in OutOfBand(m, ns)
  PROVE  out \in BOOLEAN
  <1>1. \/ out \in BOOLEAN
        \/ out = (m # 0)
        \/ out = (10 * Abs(m - ns) > ns)
    BY DEF OutOfBand
  <1>2. (m # 0) \in BOOLEAN /\ (10 * Abs(m - ns) > ns) \in BOOLEAN
    BY DEF Abs
  <1>3. QED
    BY <1>1, <1>2, Zenon

\* The first state.
LEMMA InitInv == Init => RunInv /\ BandInv
  BY DEF Init, RunInv, BandInv, Banded

\* Every step keeps RunInv.
LEMMA RunInvStep == RunInv /\ [Next]_tVars => RunInv'
  <1> SUFFICES ASSUME RunInv, [Next]_tVars PROVE RunInv'
    OBVIOUS
  <1>1. ASSUME NEW job \in Jobs, SkipClass(job) PROVE RunInv'
    BY <1>1 DEF SkipClass, RunInv, Ends, bandVars
  <1>2. ASSUME NEW job \in Jobs, StartBand(job) PROVE RunInv'
    <2>1. tJob' = job /\ tPc' \in {"band", "done"} /\ job.sdf /\ job.cls \in Live \union {"all"}
      BY <1>2 DEF StartBand, Ends
    <2>2. QED
      BY <2>1 DEF RunInv
  <1>3. ASSUME NEW job \in Jobs, StartInventory(job) PROVE RunInv'
    <2>1. tJob' = job /\ tPc' = "groups" /\ ~job.sdf /\ job.cls \in Live \union {"all"}
      BY <1>3 DEF StartInventory
    <2>2. QED
      BY <2>1 DEF RunInv
  <1>4. CASE SkipArc \/ ListArc \/ CompareArc
    <2>1. tPc = "band" /\ tPc' = tPc /\ tJob' = tJob
      BY <1>4 DEF SkipArc, ListArc, CompareArc, AtArc
    <2>2. QED
      BY <2>1 DEF RunInv
  <1>5. CASE EndBand \/ EndInventory
    <2>1. tPc \in {"band", "groups"} /\ tPc' = "done" /\ tJob' = tJob
      BY <1>5 DEF EndBand, EndInventory, Ends
    <2>2. QED
      BY <2>1 DEF RunInv
  <1>6. CASE TakeGroup
    <2>1. tPc = "groups" /\ tPc' = tPc /\ tJob' = tJob
      BY <1>6 DEF TakeGroup
    <2>2. QED
      BY <2>1 DEF RunInv
  <1>7. CASE UNCHANGED tVars
    BY <1>7 DEF tVars, RunInv
  <1>8. QED
    BY <1>1, <1>2, <1>3, <1>4, <1>5, <1>6, <1>7 DEF Next

\* Every step keeps BandInv.
LEMMA BandInvStep == RunInv /\ BandInv /\ [Next]_tVars => BandInv'
  <1> SUFFICES ASSUME RunInv, BandInv, [Next]_tVars PROVE BandInv'
    OBVIOUS
  <1>1. ASSUME NEW job \in Jobs, SkipClass(job) PROVE BandInv'
    BY <1>1 DEF SkipClass, BandInv, Banded, Ends
  <1>2. ASSUME NEW job \in Jobs, StartBand(job) PROVE BandInv'
    <2>1. CASE job.condition /\ job.nextpnr
      <3>1. /\ tPc = "idle" /\ tPc' = "band" /\ tJob' = job /\ tModel' \in Indexes(job)
            /\ tNext' = 1 /\ tCompared' = {} /\ tUnmapped' = {} /\ tExceptions' = {}
        BY <1>2, <2>1 DEF StartBand, RunInv
      <3>2. \A i \in DOMAIN Arcs(job) : ~(i < 1)
        <4>1. DOMAIN job.paths = 1..Len(job.paths) /\ Len(job.paths) \in Nat
          BY JobsAssumption
        <4>2. DOMAIN Arcs(job) \subseteq DOMAIN job.paths
          BY DEF Arcs
        <4>3. QED
          BY <4>1, <4>2
      <3>3. ~Banded'
        BY <3>1 DEF Banded
      <3> HIDE DEF Indexes
      <3>4. QED
        BY <3>1, <3>2, <3>3 DEF BandInv
    <2>2. CASE ~(job.condition /\ job.nextpnr)
      BY <1>2, <2>2 DEF StartBand, Ends, BandInv, Banded
    <2>3. QED
      BY <2>1, <2>2
  <1>3. ASSUME NEW job \in Jobs, StartInventory(job) PROVE BandInv'
    BY <1>3 DEF StartInventory, BandInv, Banded
  <1>4. ASSUME SkipArc \/ ListArc \/ CompareArc
        PROVE  /\ tPc = "band" /\ tPc' = "band" /\ tJob' = tJob /\ tModel' = tModel
               /\ tNext \in Nat /\ tNext' = tNext + 1 /\ tJob \in Jobs
               /\ \A i \in DOMAIN Arcs(tJob) : i \in Nat /\ (i < tNext' <=> i < tNext \/ i = tNext)
    <2>1. /\ tPc = "band" /\ tPc' = "band" /\ tJob' = tJob /\ tModel' = tModel
          /\ tNext' = tNext + 1
      BY <1>4 DEF SkipArc, ListArc, CompareArc, AtArc
    <2>2. tNext \in Nat /\ tJob \in Jobs
      BY <2>1 DEF BandInv, RunInv
    <2>3. DOMAIN tJob.paths = 1..Len(tJob.paths) /\ Len(tJob.paths) \in Nat
      BY <2>2, JobsAssumption
    <2>4. DOMAIN Arcs(tJob) \subseteq DOMAIN tJob.paths
      BY DEF Arcs
    <2>5. QED
      BY <2>1, <2>2, <2>3, <2>4
  <1>5. CASE SkipArc
    <2>1. ~Wanted /\ UNCHANGED <<tCompared, tExceptions, tUnmapped>>
      BY <1>5 DEF SkipArc, AtArc
    <2>2. ~Banded'
      BY <1>4, <1>5 DEF Banded
    <2>3. QED
      BY <1>4, <1>5, <2>1, <2>2 DEF BandInv, Wanted, Arc, AgreesAt
  <1>6. CASE ListArc
    <2>1. /\ Wanted /\ ~Known /\ ~ZeroModelled(tJob)
          /\ tUnmapped' = tUnmapped \union {tNext} /\ UNCHANGED <<tCompared, tExceptions>>
      BY <1>6 DEF ListArc, AtArc
    <2>2. ~Banded'
      BY <1>4, <1>6 DEF Banded
    <2>3. tNext \notin tCompared
      BY <1>4, <1>6 DEF BandInv
    <2>4. QED
      BY <1>4, <1>6, <2>1, <2>2, <2>3 DEF BandInv, Wanted, Known, Arc, AgreesAt
  <1>7. CASE CompareArc
    <2> DEFINE m == IF Known THEN tModel[Key(Arc)] ELSE 0
    <2>1. PICK out \in OutOfBand(m, Arc.ns) :
            tExceptions' = IF out THEN tExceptions \union {tNext} ELSE tExceptions
      BY <1>7 DEF CompareArc
    <2>2. /\ Wanted /\ (Known \/ ZeroModelled(tJob))
          /\ tCompared' = tCompared \union {tNext} /\ UNCHANGED tUnmapped
      BY <1>7 DEF CompareArc, AtArc
    <2>3. ~Banded'
      BY <1>4, <1>7 DEF Banded
    <2>4. tNext \notin tUnmapped /\ tNext \notin tCompared /\ tNext \notin tExceptions
      BY <1>4, <1>7 DEF BandInv
    <2>5. tModel \in Indexes(tJob) /\ tJob \in Jobs
      BY <1>4, <1>7 DEF BandInv
    <2>6. m \in Int /\ Arc.ns \in Int
      <3>1. Arc.ns \in Int
        BY <2>2, <2>5, DelaysAreNumbers DEF Wanted, Arc
      <3>2. Known => tModel[Key(Arc)] \in Int
        BY <2>5, DelaysAreNumbers, IndexOfInstalled DEF Known
      <3>3. QED
        BY <3>1, <3>2
    <2>7. out \in BOOLEAN
      <3> HIDE DEF m
      <3>1. QED
        BY <2>1, <2>6, VerdictOfBand
    <2>8. tNext \notin tExceptions' => AgreesAt(tNext)
      <3>1. ASSUME tNext \notin tExceptions' PROVE Within(m, Arc.ns) /\ (m = 0 => Arc.ns = 0)
        <4>1. FALSE \in OutOfBand(m, Arc.ns)
          BY <2>1, <2>7, <3>1
        <4> HIDE DEF m
        <4>2. QED
          BY <2>6, <4>1, NoExceptionIsWithin
      <3>2. QED
        BY <3>1 DEF AgreesAt, Known, Arc
    <2>9. \A i : AgreesAt(i)' = AgreesAt(i)
      BY <1>4, <1>7 DEF AgreesAt
    <2>10. /\ tExceptions' \subseteq tCompared'
           /\ tExceptions \subseteq tExceptions'
      BY <1>4, <1>7, <2>1, <2>2, <2>7 DEF BandInv
    <2>11. \A i \in tCompared' \ tExceptions' : AgreesAt(i)'
      BY <1>4, <1>7, <2>2, <2>8, <2>9, <2>10 DEF BandInv
    <2>12. QED
      BY <1>4, <1>7, <2>2, <2>3, <2>4, <2>10, <2>11 DEF BandInv, Wanted, Arc
  <1>8. CASE EndBand
    <2>1. /\ tPc = "band" /\ tPc' = "done" /\ tNext \notin DOMAIN tJob.paths
          /\ UNCHANGED <<tJob, tModel, tNext, tCompared, tExceptions, tUnmapped>>
          /\ tExit' = IF tExceptions # {} THEN 1 ELSE 0
      BY <1>8 DEF EndBand, Ends, bandVars
    <2>2. tNext \in Nat \ {0} /\ tJob \in Jobs /\ BandInv
      BY <2>1 DEF BandInv, RunInv
    <2>3. \A i \in DOMAIN Arcs(tJob) : i < tNext
      <3>1. DOMAIN tJob.paths = 1..Len(tJob.paths) /\ Len(tJob.paths) \in Nat
        BY <2>2, JobsAssumption
      <3>2. DOMAIN Arcs(tJob) \subseteq DOMAIN tJob.paths
        BY DEF Arcs
      <3>3. QED
        BY <2>1, <2>2, <3>1, <3>2
    <2>4. QED
      BY <2>1, <2>2, <2>3 DEF BandInv, AgreesAt
  <1>9. CASE TakeGroup \/ EndInventory
    <2>1. tPc = "groups" /\ tPc' \in {"groups", "done"} /\ tJob' = tJob
      BY <1>9 DEF TakeGroup, EndInventory, Ends
    <2>2. ~tJob.sdf
      BY <2>1 DEF RunInv
    <2>3. QED
      BY <2>1, <2>2 DEF BandInv, Banded
  <1>10. CASE UNCHANGED tVars
    BY <1>10 DEF tVars, BandInv, Banded, AgreesAt
  <1>11. QED
    BY <1>1, <1>2, <1>3, <1>5, <1>6, <1>7, <1>8, <1>9, <1>10 DEF Next

\* A band that is reported without an error has every arc of its classes on one list, an
\* unmapped one without an installed arc.
THEOREM ArcsAreAccountedFor == Spec => []NoArcEscapes
  <1>1. RunInv /\ BandInv => NoArcEscapes
    <2> SUFFICES ASSUME RunInv, BandInv, Banded, tExit # 2
                 PROVE  /\ tCompared \intersect tUnmapped = {}
                        /\ tExceptions \subseteq tCompared
                        /\ \A i \in DOMAIN Arcs(tJob) :
                             /\ i \in tCompared \union tUnmapped <=> InClass(tJob, Arcs(tJob)[i])
                             /\ i \in tUnmapped =>
                                  \A b \in Installed(tJob) : Key(b) # Key(Arcs(tJob)[i])
      BY DEF NoArcEscapes
    <2>1. tJob \in Jobs /\ tModel \in Indexes(tJob)
      BY DEF RunInv, BandInv, Banded
    <2>2. DOMAIN tModel = {Key(a) : a \in Installed(tJob)}
      BY <2>1, IndexOfInstalled
    <2>3. QED
      BY <2>2 DEF BandInv
  <1>2. QED
    BY <1>1, InitInv, RunInvStep, BandInvStep, PTL DEF Spec

\* A band that exits 0 has each arc of its classes within 10% of an installed one of that
\* name, or none is installed; where nothing but the zero-delay classes is asked for, an
\* arc of which none is installed has no delay in the SDF.
THEOREM PassedBandsAreWithin == Spec => []PassedBandIsWithin
  <1>1. RunInv /\ BandInv => PassedBandIsWithin
    <2> SUFFICES ASSUME RunInv, BandInv, Banded, tExit = 0,
                        NEW i \in DOMAIN Arcs(tJob), InClass(tJob, Arcs(tJob)[i])
                 PROVE  LET a == Arcs(tJob)[i]
                            models == {b \in Installed(tJob) : Key(b) = Key(a)}
                        IN  \/ \E b \in models : Within(b.ns, a.ns)
                            \/ models = {} /\ (ZeroModelled(tJob) => a.ns = 0)
      BY DEF PassedBandIsWithin
    <2> DEFINE a == Arcs(tJob)[i]
    <2>1. tJob \in Jobs /\ tModel \in Indexes(tJob)
      BY DEF RunInv, BandInv, Banded
    <2>2. /\ DOMAIN tModel = {Key(b) : b \in Installed(tJob)}
          /\ \A k \in DOMAIN tModel : \E b \in Installed(tJob) : Key(b) = k /\ tModel[k] = b.ns
      BY <2>1, IndexOfInstalled
    <2>3. i \in tCompared \union tUnmapped /\ tExceptions = {}
      BY DEF BandInv
    <2>4. CASE i \in tUnmapped
      <3>1. Key(a) \notin DOMAIN tModel /\ ~ZeroModelled(tJob)
        BY <2>4 DEF BandInv
      <3>2. QED
        BY <2>2, <3>1
    <2>5. CASE i \in tCompared
      <3>1. AgreesAt(i)
        BY <2>3, <2>5 DEF BandInv
      <3>2. CASE Key(a) \in DOMAIN tModel
        <4>1. PICK b \in Installed(tJob) : Key(b) = Key(a) /\ tModel[Key(a)] = b.ns
          BY <2>2, <3>2
        <4>2. QED
          BY <3>1, <3>2, <4>1 DEF AgreesAt
      <3>3. CASE Key(a) \notin DOMAIN tModel
        BY <2>2, <3>1, <3>3 DEF AgreesAt
      <3>4. QED
        BY <3>2, <3>3
    <2>6. QED
      BY <2>3, <2>4, <2>5
  <1>2. QED
    BY <1>1, InitInv, RunInvStep, BandInvStep, PTL DEF Spec

------------------------------------------------------------------------------
(* Inventory mode. *)

\* Each required group without a delay that the loop has passed is among the failures;
\* an exit 0 means that there were none and that the ratios are there and in band.
InventoryInv ==
  /\ tPc = "groups" =>
       \A cg \in GroupsOf(tJob) \ tTodo :
         ClassGroups[cg[1]][cg[2]] => Populated(tJob, cg[2]) \/ cg \in tFailures
  /\ tPc = "done" /\ tJob.cls \in Live \union {"all"} /\ ~tJob.sdf /\ tExit = 0 =>
       /\ \A cg \in GroupsOf(tJob) : ClassGroups[cg[1]][cg[2]] => Populated(tJob, cg[2])
       /\ NeedsRatio(tJob) => Ratios(tJob) # {}
       /\ \A r \in Ratios(tJob) : InRatioBand(r)

\* Every step keeps InventoryInv.
LEMMA InventoryInvStep == RunInv /\ InventoryInv /\ [Next]_tVars => InventoryInv'
  <1> SUFFICES ASSUME RunInv, InventoryInv, [Next]_tVars PROVE InventoryInv'
    OBVIOUS
  <1>1. ASSUME NEW job \in Jobs, SkipClass(job) PROVE InventoryInv'
    BY <1>1 DEF SkipClass, InventoryInv, Ends
  <1>2. ASSUME NEW job \in Jobs, StartBand(job) PROVE InventoryInv'
    BY <1>2 DEF StartBand, InventoryInv, Ends
  <1>3. ASSUME NEW job \in Jobs, StartInventory(job) PROVE InventoryInv'
    BY <1>3 DEF StartInventory, InventoryInv
  <1>4. CASE SkipArc \/ ListArc \/ CompareArc
    BY <1>4 DEF SkipArc, ListArc, CompareArc, AtArc, InventoryInv
  <1>5. CASE EndBand
    BY <1>5 DEF EndBand, Ends, RunInv, InventoryInv
  <1>6. CASE TakeGroup
    <2>1. PICK cg \in tTodo :
            /\ tTodo' = tTodo \ {cg}
            /\ tFailures' = IF ClassGroups[cg[1]][cg[2]] /\ ~Populated(tJob, cg[2])
                            THEN tFailures \union {cg} ELSE tFailures
      BY <1>6 DEF TakeGroup
    <2>2. tPc = "groups" /\ tPc' = tPc /\ tJob' = tJob
      BY <1>6 DEF TakeGroup
    <2>3. ASSUME NEW o \in GroupsOf(tJob) \ tTodo', ClassGroups[o[1]][o[2]]
          PROVE  Populated(tJob, o[2]) \/ o \in tFailures'
      <3>1. CASE o = cg
        BY <2>1, <2>3, <3>1
      <3>2. CASE o # cg
        BY <2>1, <2>2, <2>3, <3>2 DEF InventoryInv
      <3>3. QED
        BY <3>1, <3>2
    <2>4. QED
      BY <2>2, <2>3 DEF InventoryInv
  <1>7. CASE EndInventory
    <2> DEFINE ratios == Ratios(tJob)
               none == ratios = {} /\ NeedsRatio(tJob)
               bad  == \E r \in ratios : ~InRatioBand(r)
               more == (IF none THEN {<<"ratio", "none">>} ELSE {})
                       \union (IF bad THEN {<<"ratio", "band">>} ELSE {})
                       \union (IF tJob.nextpnr THEN {} ELSE {<<"nextpnr", "emission">>})
    <2>1. /\ tPc = "groups" /\ tTodo = {} /\ tPc' = "done" /\ tJob' = tJob
          /\ tExit' = IF tFailures \union more # {} THEN 1 ELSE 0
      BY <1>7 DEF EndInventory, Ends
    <2>2. ASSUME tExit' = 0 PROVE tFailures = {} /\ ~none /\ ~bad
      <3>1. none => <<"ratio", "none">> \in more
        <4> HIDE DEF none
        <4>1. QED
          OBVIOUS
      <3>2. bad => <<"ratio", "band">> \in more
        <4> HIDE DEF bad
        <4>1. QED
          OBVIOUS
      <3> HIDE DEF more, none, bad
      <3>3. tFailures = {} /\ more = {}
        BY <2>1, <2>2
      <3>4. QED
        BY <3>1, <3>2, <3>3
    <2>3. \A cg \in GroupsOf(tJob) :
            ClassGroups[cg[1]][cg[2]] => Populated(tJob, cg[2]) \/ cg \in tFailures
      BY <2>1 DEF InventoryInv
    <2> HIDE DEF more
    <2>4. QED
      BY <2>1, <2>2, <2>3 DEF InventoryInv
  <1>8. CASE UNCHANGED tVars
    BY <1>8 DEF tVars, InventoryInv
  <1>9. QED
    BY <1>1, <1>2, <1>3, <1>4, <1>5, <1>6, <1>7, <1>8 DEF Next

\* An inventory that exits 0 found delays in every required group of its classes, an arc
\* of both grades where there is such a group, and every ratio within 1% of 5/4.
THEOREM PassedInventoriesAreComplete == Spec => []PassedInventoryIsComplete
  <1>1. Init => InventoryInv
    BY DEF Init, InventoryInv
  <1>2. RunInv /\ InventoryInv => PassedInventoryIsComplete
    <2> SUFFICES ASSUME RunInv, InventoryInv,
                        tPc = "done", tJob.cls \in Live \union {"all"}, ~tJob.sdf, tExit = 0,
                        NEW c \in Classes(tJob), NEW g \in DOMAIN ClassGroups[c], ClassGroups[c][g]
                 PROVE  /\ \E e \in tJob.timing : e.group = g /\ e.delays # {}
                        /\ Ratios(tJob) # {}
                        /\ \A r \in Ratios(tJob) : 100 * Abs(4 * r[1] - 5 * r[2]) <= 5 * r[2]
      BY DEF PassedInventoryIsComplete
    <2>1. <<c, g>> \in GroupsOf(tJob) /\ <<c, g>>[1] = c /\ <<c, g>>[2] = g
      BY DEF GroupsOf
    <2>2. Populated(tJob, g) /\ NeedsRatio(tJob)
      BY <2>1 DEF InventoryInv, NeedsRatio
    <2>3. ASSUME NEW r \in Ratios(tJob)
          PROVE  100 * Abs(4 * r[1] - 5 * r[2]) <= 5 * r[2]
      <3>1. r[1] \in Int /\ r[2] \in Int
        <4>1. PICK x \in Delays(tJob.timing) \X Delays(tJob.timing) :
                r = <<ArcMax(x[1]), ArcMax(x[2])>>
          BY DEF Ratios
        <4>2. tJob \in Jobs
          BY DEF RunInv
        <4>3. QED
          BY <4>1, <4>2, DelaysAreNumbers
      <3>2. InRatioBand(r)
        BY DEF InventoryInv
      <3>3. QED
        BY <3>1, <3>2 DEF InRatioBand, Abs
    <2>4. QED
      BY <2>2, <2>3 DEF InventoryInv, Populated, Delays
  <1>3. QED
    BY <1>1, <1>2, InitInv, RunInvStep, InventoryInvStep, PTL DEF Spec
==============================================================================
