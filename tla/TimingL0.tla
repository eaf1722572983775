------------------------------ MODULE TimingL0 ------------------------------
(***************************************************************************)
(* tools/check_timing_l0.py: the arcs of a vendor SDF against those nextpnr *)
(* installs from the chipdb (band mode), and the chipdb's own timing tables *)
(* (inventory mode).  One run of the tool, one step per arc or group.       *)
(***************************************************************************)
EXTENDS Integers, Sequences, FiniteSets

CONSTANTS
  Jobs,         \* command lines, with the files they name
  ClassGroups,  \* ClassGroups[cls]: its groups, TRUE for those required
  ClassCells,   \* ClassCells[cls]: its SDF cell types, for a class that has some
  Emission,     \* what create_timing_info does with an entry of the chipdb
  NoJob

\* Every list of delays is a finite one of numbers; an SDF is read to its end.
ASSUME JobsAssumption ==
  \A job \in Jobs :
    /\ job.scale \in Int
    /\ Len(job.paths) \in Nat /\ DOMAIN job.paths = 1..Len(job.paths)
    /\ \A i \in DOMAIN job.paths : /\ job.paths[i].triples \subseteq Int
                                  /\ IsFiniteSet(job.paths[i].triples)
    /\ \A e \in job.timing : e.delays \subseteq Int /\ IsFiniteSet(e.delays)

VARIABLES tPc, tJob, tModel, tNext, tCompared, tExceptions, tUnmapped, tTodo, tFailures, tExit

tVars == <<tPc, tJob, tModel, tNext, tCompared, tExceptions, tUnmapped, tTodo, tFailures, tExit>>
bandVars == <<tModel, tNext, tCompared, tExceptions, tUnmapped>>

Live == {"cfu", "pll", "io"}
ZeroModel == {"pll"}

Abs(n) == IF n < 0 THEN -n ELSE n
Largest(S) == CHOOSE n \in S : \A o \in S : o <= n

\* --classes: `all` is every live class.
Classes(job) == IF job.cls = "all" THEN Live ELSE {job.cls}

\* An entry has its delays, or none when it is a scalar (a fan count).
Delays(timing) == {e \in timing : e.delays # {}}
ArcMax(e) == Largest(e.delays)

\* `DO[0]` and `DO0` name one bit.
NormPin(pin) == [pin EXCEPT !.bracket = FALSE]
Key(a) == <<a.cell, NormPin(a.from), NormPin(a.to)>>

\* The cell arcs that are recorded while create_timing_info runs over the chipdb:
\* setup and hold checks are not among them.
Installed(job) ==
  {[cell |-> x[1].cell, from |-> x[1].from, to |-> x[1].to, ns |-> ArcMax(x[2])] :
     x \in {y \in Emission \X Delays(job.timing) :
              /\ y[1].kind # "setup_hold"
              /\ y[1].group = y[2].group /\ y[1].key = y[2].key
              /\ y[2].grade = job.grade}}

\* The model is indexed by normalised names: of arcs that share one, the last stays.
Indexes(job) ==
  LET arcs == Installed(job)
  IN  {f \in [{Key(a) : a \in arcs} -> {a.ns : a \in arcs}] :
         \A k \in DOMAIN f : \E a \in arcs : Key(a) = k /\ f[k] = a.ns}

\* The largest `max` field of an IOPATH's triples; a missing field is 0, and an
\* IOPATH without triples is no arc.  Arcs keep the positions of their paths.
Missing == -1
TripleMax(t) == IF t = Missing THEN 0 ELSE t
Arcs(job) ==
  [i \in {j \in DOMAIN job.paths : job.paths[j].triples # {}} |->
     [cell |-> job.paths[i].cell, from |-> job.paths[i].from, to |-> job.paths[i].to,
      ns |-> job.scale * Largest({TripleMax(t) : t \in job.paths[i].triples})]]

\* A class without a cell filter (cfu, dsp) takes every cell.
InClass(job, a) ==
  \E c \in Classes(job) : c \in DOMAIN ClassCells => a.cell \in ClassCells[c]

ZeroModelled(job) == Classes(job) \subseteq ZeroModel

\* Mutant of OutOfBand: only arcs that are modelled too slow.
OutOfBandSlow(m, ns) == IF ns = 0 THEN {m # 0} ELSE {10 * (m - ns) > ns}

\* abs(dev) > 0.10; at exactly 10% the rounding of the division decides.
OutOfBand(m, ns) == IF ns = 0 THEN {m # 0}
                    ELSE IF 10 * Abs(m - ns) = ns THEN BOOLEAN
                    ELSE {10 * Abs(m - ns) > ns}

Init ==
  /\ tPc = "idle" /\ tJob = NoJob /\ tModel = <<>> /\ tNext = 1
  /\ tCompared = {} /\ tExceptions = {} /\ tUnmapped = {}
  /\ tTodo = {} /\ tFailures = {} /\ tExit = 0

Ends(code) == tPc' = "done" /\ tExit' = code

------------------------------------------------------------------------------
(* main: which mode *)

SkipClass(job) ==
  /\ tPc = "idle"
  /\ job.cls \notin Live \union {"all"}
  /\ tJob' = job
  /\ Ends(0)
  /\ UNCHANGED <<bandVars, tTodo, tFailures>>

StartBand(job) ==
  /\ tPc = "idle"
  /\ job.cls \in Live \union {"all"}
  /\ job.sdf
  /\ tJob' = job
  /\ IF job.condition /\ job.nextpnr
     THEN /\ tPc' = "band"
          /\ tModel' \in Indexes(job)
          /\ UNCHANGED tExit
     ELSE /\ Ends(2)
          /\ UNCHANGED tModel
  /\ UNCHANGED <<tNext, tCompared, tExceptions, tUnmapped, tTodo, tFailures>>

GroupsOf(job) == UNION {{c} \X DOMAIN ClassGroups[c] : c \in Classes(job)}

StartInventory(job) ==
  /\ tPc = "idle"
  /\ job.cls \in Live \union {"all"}
  /\ ~job.sdf
  /\ tJob' = job
  /\ tPc' = "groups"
  /\ tTodo' = GroupsOf(job)
  /\ UNCHANGED <<bandVars, tFailures, tExit>>

------------------------------------------------------------------------------
(* band_mode: the loop over the SDF's arcs *)

Arc == Arcs(tJob)[tNext]
Wanted == tNext \in DOMAIN Arcs(tJob) /\ InClass(tJob, Arc)
Known == Key(Arc) \in DOMAIN tModel

AtArc(ok) ==
  /\ tPc = "band"
  /\ tNext \in DOMAIN tJob.paths
  /\ ok
  /\ tNext' = tNext + 1
  /\ UNCHANGED <<tPc, tJob, tModel, tTodo, tFailures, tExit>>

SkipArc ==
  /\ AtArc(~Wanted)
  /\ UNCHANGED <<tCompared, tExceptions, tUnmapped>>

\* Mutant of ListArc: an arc without a model is passed over.
ListArcQuietly ==
  /\ AtArc(Wanted /\ ~Known /\ ~ZeroModelled(tJob))
  /\ UNCHANGED <<tCompared, tExceptions, tUnmapped>>

\* An arc that nextpnr does not install is listed as unmapped.
ListArc ==
  /\ AtArc(Wanted /\ ~Known /\ ~ZeroModelled(tJob))
  /\ tUnmapped' = tUnmapped \union {tNext}
  /\ UNCHANGED <<tCompared, tExceptions>>

\* Any other is compared, with 0 where a zero-delay class has no model for it.
CompareArc ==
  /\ AtArc(Wanted /\ (Known \/ ZeroModelled(tJob)))
  /\ tCompared' = tCompared \union {tNext}
  /\ \E out \in OutOfBand(IF Known THEN tModel[Key(Arc)] ELSE 0, Arc.ns) :
       tExceptions' = IF out THEN tExceptions \union {tNext} ELSE tExceptions
  /\ UNCHANGED tUnmapped

EndBand ==
  /\ tPc = "band"
  /\ tNext \notin DOMAIN tJob.paths
  /\ Ends(IF tExceptions # {} THEN 1 ELSE 0)
  /\ UNCHANGED <<tJob, bandVars, tTodo, tFailures>>

------------------------------------------------------------------------------
(* inventory_mode *)

\* Mutant of Populated: an entry is enough, also one that holds no delay.
PopulatedByAny(job, group) == \E e \in job.timing : e.group = group

Populated(job, group) == \E e \in Delays(job.timing) : e.group = group

\* A group of a class, absent and required or not.
TakeGroup ==
  /\ tPc = "groups"
  /\ \E cg \in tTodo :
       /\ tTodo' = tTodo \ {cg}
       /\ tFailures' = IF ClassGroups[cg[1]][cg[2]] /\ ~Populated(tJob, cg[2])
                       THEN tFailures \union {cg} ELSE tFailures
  /\ UNCHANGED <<tPc, tJob, bandVars, tExit>>

\* The two delays of each arc of the classes that both grades have.
Ratios(job) ==
  {<<ArcMax(x[1]), ArcMax(x[2])>> :
     x \in {y \in Delays(job.timing) \X Delays(job.timing) :
              /\ y[1].grade = "C1/I0" /\ y[2].grade = "C2/I1"
              /\ y[1].group = y[2].group /\ y[1].key = y[2].key
              /\ \E cg \in GroupsOf(job) : cg[2] = y[1].group
              /\ ArcMax(y[2]) # 0}}

InRatioBand(r) == 12375 * r[2] <= 10000 * r[1] /\ 10000 * r[1] <= 12625 * r[2]
NeedsRatio(job) == \E cg \in GroupsOf(job) : ClassGroups[cg[1]][cg[2]]

\* The ratio of the grades, then what nextpnr's generator makes of the tables.
EndInventory ==
  /\ tPc = "groups"
  /\ tTodo = {}
  /\ LET ratios == Ratios(tJob)
         none == ratios = {} /\ NeedsRatio(tJob)
         bad  == \E r \in ratios : ~InRatioBand(r)
         more == (IF none THEN {<<"ratio", "none">>} ELSE {})
                 \union (IF bad THEN {<<"ratio", "band">>} ELSE {})
                 \union (IF tJob.nextpnr THEN {} ELSE {<<"nextpnr", "emission">>})
     IN  /\ tFailures' = tFailures \union more
         /\ Ends(IF tFailures \union more # {} THEN 1 ELSE 0)
  /\ UNCHANGED <<tJob, bandVars, tTodo>>

------------------------------------------------------------------------------
Next == \/ \E job \in Jobs : SkipClass(job) \/ StartBand(job) \/ StartInventory(job)
        \/ SkipArc \/ ListArc \/ CompareArc \/ EndBand \/ TakeGroup \/ EndInventory

Spec == Init /\ [][Next]_tVars

------------------------------------------------------------------------------
(* Properties. *)

Banded == tPc = "done" /\ tJob.cls \in Live \union {"all"} /\ tJob.sdf

Within(m, ns) == 10 * Abs(m - ns) <= ns

\* When band mode exits 0, each SDF arc of its classes is within 10% of an arc that
\* nextpnr installs under that name, or nextpnr installs none; and when nothing but
\* the zero-delay classes is asked for, such an arc has no delay in the SDF either.
PassedBandIsWithin ==
  Banded /\ tExit = 0 =>
    \A i \in DOMAIN Arcs(tJob) :
      LET a == Arcs(tJob)[i]
          models == {b \in Installed(tJob) : Key(b) = Key(a)}
      IN  InClass(tJob, a) =>
            \/ \E b \in models : Within(b.ns, a.ns)
            \/ models = {} /\ (ZeroModelled(tJob) => a.ns = 0)

\* Line 1's n and the unmapped list account for each arc of the classes once, so an arc
\* without a model never goes unmentioned: it is listed as unmapped, or compared as 0 ns
\* where only the zero-delay classes are asked for.
NoArcEscapes ==
  Banded /\ tExit # 2 =>
    /\ tCompared \intersect tUnmapped = {}
    /\ tExceptions \subseteq tCompared
    /\ \A i \in DOMAIN Arcs(tJob) :
         /\ i \in tCompared \union tUnmapped <=> InClass(tJob, Arcs(tJob)[i])
         /\ i \in tUnmapped => \A b \in Installed(tJob) : Key(b) # Key(Arcs(tJob)[i])

\* An inventory that exits 0 found delays in every required group and, where a
\* group is required, an arc of both grades; every such arc has the derived ratio.
PassedInventoryIsComplete ==
  tPc = "done" /\ tJob.cls \in Live \union {"all"} /\ ~tJob.sdf /\ tExit = 0 =>
    \A c \in Classes(tJob) : \A g \in DOMAIN ClassGroups[c] :
      ClassGroups[c][g] =>
        /\ \E e \in tJob.timing : e.group = g /\ e.delays # {}
        /\ Ratios(tJob) # {}
        /\ \A r \in Ratios(tJob) : 100 * Abs(4 * r[1] - 5 * r[2]) <= 5 * r[2]

\* "every vendor PLL arc is compared against a model delay of 0.0, so a future
\* vendor release that starts publishing a non-zero PLL delay fails this check
\* loudly" (check_timing_l0.py:41-43).
PllDelayFails ==
  Banded /\ tExit = 0 /\ "pll" \in Classes(tJob) =>
    \A i \in DOMAIN Arcs(tJob) :
      LET a == Arcs(tJob)[i]
      IN  a.cell \in ClassCells["pll"] /\ (\A b \in Installed(tJob) : Key(b) # Key(a))
            => a.ns = 0
==============================================================================
