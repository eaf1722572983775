--------------------------- MODULE FuseToolsProofs ---------------------------
(***************************************************************************)
(* Proofs about FuseTools for every IDE install, packer, design and plan,  *)
(* and any number of runs and changes.                                     *)
(***************************************************************************)
EXTENDS FuseTools, TLAPS

\* An audit leaves every other tool's files and passes alone.
LEMMA AuditsAreOwn ==
  Audit => UNCHANGED <<install, packer, pinFile, dualVars, safetyVars>> /\ done' \subseteq done \union {"audit"}
  <1> SUFFICES ASSUME Audit
               PROVE  UNCHANGED <<install, packer, pinFile, dualVars, safetyVars>> /\ done' \subseteq done \union {"audit"}
    OBVIOUS
  <1>1. PICK ok \in SUBSET Steps : AuditFiles(ok)
    BY DEF Audit
  <1>2. done' \subseteq done \union {"audit"}
    BY <1>1 DEF AuditFiles
  <1>3. QED
    BY <1>2 DEF Audit, Started

------------------------------------------------------------------------------
(* The repacked files and the safety report. *)

\* The rows of a report on the files of one name.
RowsOf(name) ==
  [i \in Pairs(name) |-> DesignRow(Designs[i].vendor, OpenFs(name)[i], Designs[i].placed)]

\* A row's violations are those of its two bitmaps.
LEMMA RowsViolations ==
  ASSUME NEW vendor, NEW open, NEW placed
  PROVE  DesignRow(vendor, open, placed).violations = Violations(vendor, open, placed)
  BY DEF DesignRow

\* What a report says it read from its files, and what a repack that passed left.
SafetyInv ==
  /\ packer \in Packers
  /\ "safety" \in done => report.rows = RowsOf(report.name)
  /\ "repack" \in done =>
       packer.fails = {} /\ repacked = [i \in DOMAIN Designs |-> packer.open[i]]

\* The first state has run nothing.
LEMMA SafetyInvInit == Init => SafetyInv
  BY DEF Init, SafetyInv

\* A step of another tool keeps SafetyInv, as long as it leaves "safety" and "repack"
\* out of done or changes nothing that they are about.
LEMMA SafetyInvFrame ==
  /\ SafetyInv /\ packer' \in Packers /\ UNCHANGED safetyVars
  /\ "safety" \in done' => "safety" \in done
  /\ "repack" \in done' => "repack" \in done /\ packer' = packer
  => SafetyInv'
  <1> SUFFICES ASSUME SafetyInv, packer' \in Packers, UNCHANGED safetyVars,
                      "safety" \in done' => "safety" \in done,
                      "repack" \in done' => "repack" \in done /\ packer' = packer
               PROVE  SafetyInv'
    OBVIOUS
  <1>1. stored' = stored /\ repacked' = repacked /\ report' = report
    BY DEF safetyVars
  <1>2. RowsOf(report.name)' = RowsOf(report.name)
    BY <1>1 DEF RowsOf, Pairs, OpenFs
  <1>3. QED
    BY <1>1, <1>2 DEF SafetyInv

\* Every step keeps SafetyInv.
LEMMA SafetyInvStep == SafetyInv /\ [Next]_vars => SafetyInv'
  <1> SUFFICES ASSUME SafetyInv, [Next]_vars PROVE SafetyInv'
    OBVIOUS
  <1>0. packer \in Packers
    BY DEF SafetyInv
  <1>1. CASE InstallIde \/ ChangePacker
    BY <1>0, <1>1, SafetyInvFrame DEF InstallIde, ChangePacker, Changed
  <1>2. CASE RediffStart \/ RediffPoint \/ RediffEnd \/ RediffDies
    BY <1>0, <1>2, SafetyInvFrame DEF RediffStart, Started, RediffPoint, RediffEnd, RediffDies, Rediffing
  <1>3. CASE Repack
    <2>1. PICK upto \in 0..Len(Designs), verify \in BOOLEAN :
            /\ repacked' = [i \in DOMAIN Designs |->
                              IF i <= upto /\ i \notin packer.fails THEN packer.open[i] ELSE repacked[i]]
            /\ done' = (done \ {"safety", "repack"}) \union
                  (IF upto = Len(Designs) /\ RepackPasses(verify, repacked') THEN {"repack"} ELSE {})
      BY <1>3 DEF Repack
    <2>2. "safety" \notin done'
      BY <2>1
    <2>3. ASSUME "repack" \in done' PROVE upto = Len(Designs) /\ packer.fails = {}
      <3>1. upto = Len(Designs) /\ RepackPasses(verify, repacked')
        BY <2>1, <2>3
      <3>2. QED
        BY <3>1 DEF RepackPasses
    <2>4. ASSUME "repack" \in done' PROVE repacked' = [i \in DOMAIN Designs |-> packer.open[i]]
      <3>1. \A i \in DOMAIN Designs : i <= upto /\ i \notin packer.fails
        BY <2>3, <2>4, ListsAssumption
      <3>2. \A i \in DOMAIN Designs :
              (IF i <= upto /\ i \notin packer.fails THEN packer.open[i] ELSE repacked[i]) = packer.open[i]
        BY <3>1
      <3>3. QED
        BY <2>1, <3>2
    <2>5. packer' = packer
      BY <1>3 DEF Repack, Started
    <2>6. QED
      BY <1>0, <2>2, <2>3, <2>4, <2>5 DEF SafetyInv
  <1>4. CASE DeriveSafety
    <2>1. PICK name \in {"top.fs", "top-repack.fs"} :
            report' = [name |-> name, rows |-> RowsOf(name)]
      BY <1>4 DEF DeriveSafety, RowsOf
    <2>2. /\ stored' = stored /\ repacked' = repacked /\ packer' = packer
          /\ done' = done \union {"safety"}
      BY <1>4 DEF DeriveSafety, Started
    <2>3. \A n \in {name} : RowsOf(n)' = RowsOf(n)
      BY <2>2 DEF RowsOf, Pairs, OpenFs
    <2>4. report'.name = name /\ report'.rows = RowsOf(name)
      BY <2>1
    <2>5. RowsOf(report.name)' = RowsOf(name)
      BY <2>2, <2>4 DEF RowsOf, Pairs, OpenFs
    <2>6. QED
      BY <1>0, <2>2, <2>4, <2>5 DEF SafetyInv
  <1>5. CASE DerivePins \/ CheckPins
    BY <1>0, <1>5, SafetyInvFrame DEF DerivePins, CheckPins, Started
  <1>6. CASE Audit
    <2>1. UNCHANGED <<safetyVars, packer>> /\ done' \subseteq done \union {"audit"}
      BY <1>6, AuditsAreOwn
    <2>2. QED
      BY <1>0, <2>1, SafetyInvFrame
  <1>7. CASE UNCHANGED vars
    BY <1>0, <1>7, SafetyInvFrame DEF vars
  <1>8. QED
    BY <1>1, <1>2, <1>3, <1>4, <1>5, <1>6, <1>7 DEF Next

\* A report after a repack that exits 0 covers every run and is of this packer's fuses:
\* repack_open_fs counts a failed pack and derive_iob_safety_138c globs what is there.
LEMMA ReportIsOfThisPackerHolds == SafetyInv => ReportIsOfThisPacker
  <1> SUFFICES ASSUME SafetyInv, "repack" \in done, "safety" \in done, report.name = "top-repack.fs"
               PROVE  /\ DOMAIN report.rows = DOMAIN Designs
                      /\ \A i \in DOMAIN Designs :
                           /\ i \notin packer.fails
                           /\ report.rows[i].violations
                                = Violations(Designs[i].vendor, packer.open[i], Designs[i].placed)
    BY DEF ReportIsOfThisPacker
  <1>1. /\ packer.fails = {} /\ repacked = [i \in DOMAIN Designs |-> packer.open[i]]
        /\ report.rows = RowsOf("top-repack.fs")
    BY DEF SafetyInv
  <1>2. OpenFs("top-repack.fs") = repacked
    BY DEF OpenFs
  <1>3. Pairs("top-repack.fs") = DOMAIN Designs
    BY <1>1, <1>2, PackersAssumption DEF Pairs, SafetyInv
  <1>4. report.rows = [i \in DOMAIN Designs |->
                         DesignRow(Designs[i].vendor, repacked[i], Designs[i].placed)]
    BY <1>1, <1>2, <1>3 DEF RowsOf
  <1>5. \A i \in DOMAIN Designs :
          report.rows[i].violations = Violations(Designs[i].vendor, packer.open[i], Designs[i].placed)
    <2>1. \A i \in DOMAIN Designs :
            /\ repacked[i] = packer.open[i]
            /\ report.rows[i] = DesignRow(Designs[i].vendor, repacked[i], Designs[i].placed)
      BY <1>1, <1>4
    <2>2. QED
      BY <2>1, RowsViolations
  <1>6. DOMAIN report.rows = DOMAIN Designs
    BY <1>4
  <1>7. QED
    BY <1>1, <1>5, <1>6

\* The report a repack was followed by is of this packer's fuses, in every behaviour.
THEOREM SafetyReportsAreCurrent == Spec => []ReportIsOfThisPacker
  <1>1. SafetyInv /\ [Next]_vars => SafetyInv'
    BY SafetyInvStep
  <1>2. QED
    BY SafetyInvInit, <1>1, ReportIsOfThisPackerHolds, PTL DEF Spec

------------------------------------------------------------------------------
(* What no violation means. *)

\* Two bitmaps of one placement without a violation: where a fuse of a site is the open
\* flow's alone, what the open flow decodes is the vendor's; and a used site keeps what
\* is required of it (classify, violations).
LEMMA NoViolationIsSafe ==
  ASSUME NEW vendor, NEW open, NEW placed, Violations(vendor, open, placed) = {},
         NEW site \in IoSites
  PROVE  LET ours == Decode(open, site)
             theirs == Decode(vendor, site)
             set(bitmap) == IF Shifted(site) \in DOMAIN bitmap THEN bitmap[Shifted(site)] ELSE {}
         IN  /\ ~(set(open) \subseteq set(vendor)) =>
                  /\ DOMAIN ours \subseteq DOMAIN theirs
                  /\ \A a \in DOMAIN ours \intersect SafetyAttrs : ours[a] = theirs[a]
             /\ StateOf(placed, site) \notin {"unused", "unused_bank"} =>
                  RequiredOnUsed \intersect DOMAIN theirs \subseteq DOMAIN ours
  <1> DEFINE ours == Decode(open, site)
             theirs == Decode(vendor, site)
             set(bitmap) == IF Shifted(site) \in DOMAIN bitmap THEN bitmap[Shifted(site)] ELSE {}
             alias == NoFuseOfItsOwn(vendor, open, site)
             class(a) == [site |-> site, state |-> StateOf(placed, site), attr |-> a,
                          kind |-> Kind(a, theirs, ours, alias)]
  <1>1. \A a \in DOMAIN theirs \union DOMAIN ours :
          class(a) \in UNION {Classified(vendor, open, placed, s) : s \in IoSites}
    <2>1. \A a \in DOMAIN theirs \union DOMAIN ours : class(a) \in Classified(vendor, open, placed, site)
      BY DEF Classified
    <2>2. QED
      BY <2>1
  <1>2. \A a \in DOMAIN theirs \union DOMAIN ours :
          /\ class(a).kind # "open_only"
          /\ ~(class(a).kind = "value_diff" /\ a \in SafetyAttrs)
    BY <1>1 DEF Violations
  <1>3. \A a \in DOMAIN theirs \union DOMAIN ours :
          ~(class(a).kind = "vendor_only" /\ a \in RequiredOnUsed
            /\ StateOf(placed, site) \notin {"unused", "unused_bank"})
    <2> DEFINE all == UNION {Classified(vendor, open, placed, s) : s \in IoSites}
               lacks == {d \in all : d.kind = "vendor_only" /\ d.attr \in RequiredOnUsed
                                     /\ d.state \notin {"unused", "unused_bank"}}
    <2>1. {[c EXCEPT !.kind = "unset_on_used"] : c \in lacks} = {}
      BY DEF Violations
    <2>2. lacks = {}
      BY <2>1
    <2>3. \A a \in DOMAIN theirs \union DOMAIN ours : class(a) \in all
      BY <1>1
    <2>4. \A a : class(a).attr = a /\ class(a).state = StateOf(placed, site)
      OBVIOUS
    <2> HIDE DEF all, class
    <2>5. QED
      BY <2>2, <2>3, <2>4
  <1>4. ASSUME ~(set(open) \subseteq set(vendor)) PROVE ~alias
    BY <1>4 DEF NoFuseOfItsOwn, FuseCell
  <1>5. ASSUME ~alias
        PROVE  /\ DOMAIN ours \subseteq DOMAIN theirs
               /\ \A a \in DOMAIN ours \intersect SafetyAttrs : ours[a] = theirs[a]
    <2> HIDE DEF ours, theirs, alias
    <2>1. \A a \in DOMAIN theirs \union DOMAIN ours : class(a).kind = Kind(a, theirs, ours, alias)
      OBVIOUS
    <2>2. \A a \in DOMAIN ours \ DOMAIN theirs : Kind(a, theirs, ours, alias) = "open_only"
      BY <1>5 DEF Kind
    <2>3. \A a \in DOMAIN ours \intersect DOMAIN theirs :
            ours[a] # theirs[a] => Kind(a, theirs, ours, alias) = "value_diff"
      BY <1>5 DEF Kind
    <2>4. QED
      BY <1>2, <2>1, <2>2, <2>3
  <1>6. ASSUME StateOf(placed, site) \notin {"unused", "unused_bank"}
        PROVE  RequiredOnUsed \intersect DOMAIN theirs \subseteq DOMAIN ours
    <2> HIDE DEF ours, theirs, alias
    <2>1. \A a \in DOMAIN theirs \union DOMAIN ours : class(a).kind = Kind(a, theirs, ours, alias)
      OBVIOUS
    <2>2. \A a \in DOMAIN theirs \ DOMAIN ours : Kind(a, theirs, ours, alias) = "vendor_only"
      BY DEF Kind
    <2>3. QED
      BY <1>3, <1>6, <2>1, <2>2
  <1>7. QED
    BY <1>4, <1>5, <1>6

\* A report's rows without violations are safe.
LEMMA CleanIsSafeHolds == SafetyInv => CleanIsSafe
  <1> SUFFICES ASSUME SafetyInv, "safety" \in done,
                      NEW i \in DOMAIN report.rows, report.rows[i].violations = {},
                      NEW site \in IoSites
               PROVE  LET open == OpenFs(report.name)[i]
                          ours == Decode(open, site)
                          theirs == Decode(Designs[i].vendor, site)
                          set(bitmap) == IF Shifted(site) \in DOMAIN bitmap THEN bitmap[Shifted(site)] ELSE {}
                      IN  /\ ~(set(open) \subseteq set(Designs[i].vendor)) =>
                               /\ DOMAIN ours \subseteq DOMAIN theirs
                               /\ \A a \in DOMAIN ours \intersect SafetyAttrs : ours[a] = theirs[a]
                          /\ StateOf(Designs[i].placed, site) \notin {"unused", "unused_bank"} =>
                               RequiredOnUsed \intersect DOMAIN theirs \subseteq DOMAIN ours
    BY DEF CleanIsSafe
  <1>1. report.rows = RowsOf(report.name)
    BY DEF SafetyInv
  <1>2. report.rows[i] = DesignRow(Designs[i].vendor, OpenFs(report.name)[i], Designs[i].placed)
    BY <1>1 DEF RowsOf
  <1>3. Violations(Designs[i].vendor, OpenFs(report.name)[i], Designs[i].placed) = {}
    BY <1>2, RowsViolations
  <1>4. QED
    BY <1>3, NoViolationIsSafe

\* A clean report means what it is read as, in every behaviour.
THEOREM CleanReportsAreSafe == Spec => []CleanIsSafe
  <1>1. SafetyInv /\ [Next]_vars => SafetyInv'
    BY SafetyInvStep
  <1>2. QED
    BY SafetyInvInit, <1>1, CleanIsSafeHolds, PTL DEF Spec

------------------------------------------------------------------------------
(* The re-diff of the dual-purpose pins. *)

\* The files keep the vendor's fuses as measured; a re-diff that runs has read the points
\* below its place, and while the packer stays the same their files hold what it emits; one
\* that ended so leaves every file and _all.json at that.
DualInv ==
  /\ DOMAIN dualFile = Range(Points)
  /\ \A p \in Range(Points) : dualFile[p] # Torn => dualFile[p].vendor = DualVendor[p]
  /\ job # Idle =>
       /\ "dual" \notin done
       /\ job = [at |-> job.at, seen |-> job.seen, steady |-> job.steady]
       /\ job.at \in 1..Len(Points) + 1
       /\ DOMAIN job.seen = {Points[j] : j \in 1..job.at - 1}
       /\ job.steady => \A p \in DOMAIN job.seen :
                          dualFile[p] = Banked(packer, p) /\ job.seen[p] = Banked(packer, p)
  /\ "dual" \in done =>
       \A p \in Range(Points) : dualFile[p] = Banked(packer, p) /\ allFile[p] = Banked(packer, p)

\* A record depends on the file it replaces by the vendor's fuses only.
LEMMA RediffedIsBanked ==
  ASSUME NEW file, NEW p, NEW point, file.vendor = DualVendor[point]
  PROVE  Rediffed(file, p, point) = Banked(p, point) /\ Banked(p, point).vendor = DualVendor[point]
  BY DEF Rediffed, Banked

\* The banked files are current.
LEMMA DualInvInit == Init => DualInv
  <1> SUFFICES ASSUME Init PROVE DualInv
    OBVIOUS
  <1>1. dualFile = [p \in Range(Points) |-> Banked(packer, p)] /\ job = Idle /\ done = {}
    BY DEF Init
  <1>2. \A p : Banked(packer, p).vendor = DualVendor[p]
    BY DEF Banked, Rediffed
  <1>3. QED
    BY <1>1, <1>2 DEF DualInv

\* A step that leaves the files, the job and the packer alone, and "dual" out of done
\* unless it was in, keeps DualInv.
LEMMA DualInvFrame ==
  DualInv /\ UNCHANGED <<dualFile, allFile, job, packer>> /\ ("dual" \in done' => "dual" \in done)
    => DualInv'
  <1> SUFFICES ASSUME DualInv, UNCHANGED <<dualFile, allFile, job, packer>>, "dual" \in done' => "dual" \in done
               PROVE  DualInv'
    OBVIOUS
  <1>1. \A p : Banked(packer, p)' = Banked(packer, p)
    BY DEF Banked, Rediffed, Emitted
  <1>2. QED
    BY <1>1 DEF DualInv

\* Every step keeps DualInv.
LEMMA DualInvStep == DualInv /\ [Next]_vars => DualInv'
  <1> SUFFICES ASSUME DualInv, [Next]_vars PROVE DualInv'
    OBVIOUS
  <1> USE ListsAssumption
  <1>1. CASE InstallIde
    BY <1>1, DualInvFrame DEF InstallIde, Changed
  <1>2. CASE ChangePacker
    <2>1. /\ UNCHANGED <<dualFile, allFile>> /\ done' = {}
          /\ job' = IF job = Idle THEN Idle ELSE [job EXCEPT !.steady = FALSE]
      BY <1>2 DEF ChangePacker, Changed
    <2>2. ASSUME job' # Idle
          PROVE  /\ job' = [at |-> job'.at, seen |-> job'.seen, steady |-> job'.steady]
                 /\ job'.at = job.at /\ job'.seen = job.seen /\ ~job'.steady /\ job # Idle
      <3>1. job # Idle /\ job' = [job EXCEPT !.steady = FALSE]
        BY <2>1, <2>2
      <3>2. job = [at |-> job.at, seen |-> job.seen, steady |-> job.steady]
        BY <3>1 DEF DualInv
      <3>3. job' = [at |-> job.at, seen |-> job.seen, steady |-> FALSE]
        BY <3>1, <3>2
      <3>4. QED
        BY <3>1, <3>3
    <2>3. QED
      BY <2>1, <2>2 DEF DualInv
  <1>3. CASE RediffStart
    <2>1. /\ UNCHANGED <<dualFile, allFile>> /\ job' = [at |-> 1, seen |-> <<>>, steady |-> TRUE]
          /\ "dual" \notin done'
      BY <1>3 DEF RediffStart
    <2>2. job'.at \in 1..Len(Points) + 1 /\ DOMAIN job'.seen = {Points[j] : j \in 1..job'.at - 1}
      BY <2>1
    <2>3. job' = [at |-> job'.at, seen |-> job'.seen, steady |-> job'.steady]
      BY <2>1
    <2>4. \A p : p \notin DOMAIN job'.seen
      BY <2>1
    <2>5. QED
      BY <2>1, <2>2, <2>3, <2>4 DEF DualInv
  <1>4. CASE RediffPoint
    <2> DEFINE point == Points[job.at]
               record == Rediffed(dualFile[point], packer, point)
               seen == [p \in DOMAIN job.seen \union {point} |-> IF p = point THEN record ELSE job.seen[p]]
    <2>1. /\ job # Idle /\ job.at <= Len(Points) /\ dualFile[point] # Torn
          /\ dualFile' = [dualFile EXCEPT ![point] = record]
          /\ job' = [job EXCEPT !.at = @ + 1, !.seen = seen]
          /\ packer' = packer /\ done' = done
      BY <1>4 DEF RediffPoint, Rediffing, PointFile
    <2>2. /\ "dual" \notin done' /\ job.at \in 1..Len(Points)
          /\ job = [at |-> job.at, seen |-> job.seen, steady |-> job.steady]
          /\ DOMAIN job.seen = {Points[j] : j \in 1..job.at - 1}
      BY <2>1 DEF DualInv
    <2>3. point \in Range(Points)
      BY <2>2 DEF Range
    <2>4. record = Banked(packer, point) /\ Banked(packer, point).vendor = DualVendor[point]
      BY <2>1, <2>3, RediffedIsBanked DEF DualInv
    <2>5. \A p : Banked(packer, p)' = Banked(packer, p)
      BY <2>1 DEF Banked, Rediffed, Emitted
    <2> HIDE DEF record, point
    <2>6. job' = [at |-> job.at + 1, seen |-> seen, steady |-> job.steady]
      BY <2>1, <2>2
    <2>7. /\ DOMAIN seen = DOMAIN job.seen \union {point} /\ seen[point] = record
          /\ \A p \in DOMAIN job.seen : p # point => seen[p] = job.seen[p]
      OBVIOUS
    <2>8. DOMAIN job'.seen = {Points[j] : j \in 1..job'.at - 1}
      BY <2>2, <2>6, <2>7 DEF point
    <2>9. DOMAIN dualFile' = Range(Points) /\ dualFile'[point] = record
          /\ \A p \in Range(Points) : p # point => dualFile'[p] = dualFile[p]
      BY <2>1, <2>3 DEF DualInv
    <2>10. ASSUME job.steady
           PROVE  \A p \in DOMAIN job'.seen : dualFile'[p] = Banked(packer, p) /\ job'.seen[p] = Banked(packer, p)
      <3>1. \A p \in DOMAIN job.seen : dualFile[p] = Banked(packer, p) /\ job.seen[p] = Banked(packer, p)
        BY <2>1, <2>10 DEF DualInv
      <3>2. DOMAIN job.seen \subseteq Range(Points)
        BY <2>2 DEF Range
      <3>3. QED
        BY <2>4, <2>6, <2>7, <2>9, <3>1, <3>2
    <2>11. \A p \in Range(Points) : dualFile'[p] # Torn => dualFile'[p].vendor = DualVendor[p]
      BY <2>4, <2>9 DEF DualInv
    <2>12. /\ job' = [at |-> job'.at, seen |-> job'.seen, steady |-> job'.steady]
           /\ job'.at \in 1..Len(Points) + 1 /\ job'.steady = job.steady
      BY <2>2, <2>6
    <2>13. QED
      BY <2>2, <2>5, <2>8, <2>9, <2>10, <2>11, <2>12 DEF DualInv
  <1>5. CASE RediffEnd
    <2>1. /\ job # Idle /\ job.at = Len(Points) + 1
          /\ allFile' = job.seen /\ job' = Idle
          /\ done' = IF job.steady THEN done \union {"dual"} ELSE done
          /\ dualFile' = dualFile /\ packer' = packer
      BY <1>5 DEF RediffEnd, Rediffing
    <2>2. "dual" \notin done /\ DOMAIN job.seen = {Points[j] : j \in 1..job.at - 1}
      BY <2>1 DEF DualInv
    <2>3. DOMAIN job.seen = Range(Points)
      BY <2>1, <2>2 DEF Range
    <2>4. ASSUME "dual" \in done'
          PROVE  \A p \in Range(Points) : dualFile'[p] = Banked(packer, p) /\ allFile'[p] = Banked(packer, p)
      <3>1. CASE job.steady
        BY <2>1, <2>3, <3>1 DEF DualInv
      <3>2. CASE ~job.steady
        BY <2>1, <2>2, <2>4, <3>2
      <3>3. QED
        BY <3>1, <3>2
    <2>5. \A p : Banked(packer, p)' = Banked(packer, p)
      BY <2>1 DEF Banked, Rediffed, Emitted
    <2>6. QED
      BY <2>1, <2>4, <2>5 DEF DualInv
  <1>6. CASE RediffDies
    <2>1. /\ job' = Idle /\ "dual" \notin done'
          /\ \/ dualFile' = dualFile
             \/ dualFile' = [dualFile EXCEPT ![Points[job.at]] = Torn]
      BY <1>6 DEF RediffDies, Rediffing, DualInv
    <2>2. DOMAIN dualFile' = Range(Points)
          /\ \A p \in Range(Points) : dualFile'[p] # Torn => dualFile'[p] = dualFile[p]
      BY <2>1 DEF DualInv
    <2>3. QED
      BY <2>1, <2>2 DEF DualInv
  <1>7. CASE Repack \/ DeriveSafety \/ DerivePins \/ CheckPins
    BY <1>7, DualInvFrame DEF Repack, DeriveSafety, DerivePins, CheckPins, Started, dualVars
  <1>8. CASE Audit
    <2>1. UNCHANGED <<dualVars, packer>> /\ done' \subseteq done \union {"audit"}
      BY <1>8, AuditsAreOwn
    <2>2. QED
      BY <2>1, DualInvFrame DEF dualVars
  <1>9. CASE UNCHANGED vars
    BY <1>9, DualInvFrame DEF vars, dualVars
  <1>10. QED
    BY <1>1, <1>2, <1>3, <1>4, <1>5, <1>6, <1>7, <1>8, <1>9 DEF Next

\* Banked files are what the property asks for.
LEMMA BankedIsCurrent == DualInv => DualFilesAreCurrent
  <1> SUFFICES ASSUME DualInv, "dual" \in done, NEW p \in Range(Points) \ Refused
               PROVE  /\ dualFile[p] = allFile[p]
                      /\ dualFile[p].packer = packer.dual[OptionsOf[p]] /\ dualFile[p].vendor = DualVendor[p]
                      /\ dualFile[p].verdict = "ok" <=> packer.dual[OptionsOf[p]] \subseteq DualVendor[p]
    BY DEF DualFilesAreCurrent
  <1>1. dualFile[p] = Banked(packer, p) /\ allFile[p] = Banked(packer, p)
    BY DEF DualInv
  <1>2. /\ Banked(packer, p).packer = packer.dual[OptionsOf[p]] /\ Banked(packer, p).vendor = DualVendor[p]
        /\ Banked(packer, p).verdict = "ok" <=> packer.dual[OptionsOf[p]] \ DualVendor[p] = {}
    BY DEF Banked, Rediffed, Emitted
  <1>3. QED
    BY <1>1, <1>2

\* A re-diff that ended with nothing changed since it began leaves every record current, in
\* every behaviour (rediff_dualpin.main, whatever died before it).
THEOREM DualPinsAreCurrent == Spec => []DualFilesAreCurrent
  <1>1. DualInv /\ [Next]_vars => DualInv'
    BY DualInvStep
  <1>2. QED
    BY DualInvInit, <1>1, BankedIsCurrent, PTL DEF Spec

------------------------------------------------------------------------------
(* The DDR audit over the pin table. *)

\* A checked pin table is this install's; an audit whose deltas are in its file found each
\* of them in a step's bitstream, over the pin table and with the packer that are there.
AuditInv ==
  /\ install \in Installs
  /\ "pins" \in done => pinFile = PinTable(install)
  /\ "audit" \in done =>
       \A d \in audit.deltas : \E s \in Steps : d \in Found(s, ddrFs[s], pinFile.pins, packer.ddr).deltas

\* Nothing is checked or audited at first.
LEMMA AuditInvInit == Init => AuditInv
  BY DEF Init, AuditInv

\* A step that changes nothing the audit read or wrote, or takes back what it said,
\* keeps AuditInv.
LEMMA AuditInvFrame ==
  /\ AuditInv /\ install' \in Installs
  /\ "pins" \in done' => "pins" \in done /\ UNCHANGED <<install, pinFile>>
  /\ "audit" \in done' => "audit" \in done /\ UNCHANGED <<pinFile, packer, auditVars>>
  => AuditInv'
  <1> SUFFICES ASSUME AuditInv, install' \in Installs,
                      "pins" \in done' => "pins" \in done /\ UNCHANGED <<install, pinFile>>,
                      "audit" \in done' => "audit" \in done /\ UNCHANGED <<pinFile, packer, auditVars>>
               PROVE  AuditInv'
    OBVIOUS
  <1>1. ASSUME "pins" \in done' PROVE (pinFile = PinTable(install))'
    <2>1. install' = install /\ pinFile' = pinFile /\ pinFile = PinTable(install)
      BY <1>1 DEF AuditInv
    <2>2. QED
      BY <2>1
  <1>2. ASSUME "audit" \in done'
        PROVE  (\A d \in audit.deltas : \E s \in Steps :
                  d \in Found(s, ddrFs[s], pinFile.pins, packer.ddr).deltas)'
    <2>1. /\ pinFile' = pinFile /\ packer' = packer /\ ddrFs' = ddrFs /\ audit' = audit
          /\ \A d \in audit.deltas : \E s \in Steps :
               d \in Found(s, ddrFs[s], pinFile.pins, packer.ddr).deltas
      BY <1>2 DEF AuditInv, auditVars
    <2>2. QED
      BY <2>1
  <1>3. QED
    BY <1>1, <1>2 DEF AuditInv

\* Every step keeps AuditInv.
LEMMA AuditInvStep == AuditInv /\ [Next]_vars => AuditInv'
  <1> SUFFICES ASSUME AuditInv, [Next]_vars PROVE AuditInv'
    OBVIOUS
  <1>0. install \in Installs
    BY DEF AuditInv
  <1>1. CASE InstallIde \/ ChangePacker
    BY <1>0, <1>1, AuditInvFrame DEF InstallIde, ChangePacker, Changed
  <1>2. CASE RediffStart \/ RediffPoint \/ RediffEnd \/ RediffDies
    BY <1>0, <1>2, AuditInvFrame
    DEF RediffStart, Started, RediffPoint, RediffEnd, RediffDies, Rediffing, auditVars
  <1>3. CASE Repack
    <2>1. /\ UNCHANGED <<install, packer, pinFile, auditVars>>
          /\ done' \subseteq done \union {"repack"}
      BY <1>3 DEF Repack, Started
    <2>2. QED
      BY <1>0, <2>1, AuditInvFrame
  <1>4. CASE DeriveSafety
    BY <1>0, <1>4, AuditInvFrame DEF DeriveSafety, Started
  <1>5. CASE DerivePins
    BY <1>0, <1>5, AuditInvFrame DEF DerivePins, Started
  <1>6. CASE CheckPins
    <2>1. /\ UNCHANGED <<install, packer, pinFile, ddrFs, audit>> /\ done' = done \union {"pins"}
          /\ pinFile = PinTable(install)
      BY <1>6 DEF CheckPins, Started, auditVars
    <2>2. (pinFile = PinTable(install))'
      BY <2>1
    <2>3. ASSUME "audit" \in done'
          PROVE  (\A d \in audit.deltas : \E s \in Steps :
                    d \in Found(s, ddrFs[s], pinFile.pins, packer.ddr).deltas)'
      <3>1. \A d \in audit.deltas : \E s \in Steps :
              d \in Found(s, ddrFs[s], pinFile.pins, packer.ddr).deltas
        BY <2>1, <2>3 DEF AuditInv
      <3>2. QED
        BY <2>1, <3>1
    <2>4. QED
      BY <1>0, <2>1, <2>2, <2>3 DEF AuditInv
  <1>7. CASE Audit
    <2>1. UNCHANGED <<install, packer, pinFile>>
      BY <1>7 DEF Audit, Started
    <2>2. PICK ok \in SUBSET Steps :
            \/ "audit" \notin done' /\ done' \subseteq done
            \/ /\ done' \subseteq done \union {"audit"}
               /\ audit'.deltas = UNION {Found(s, ddrFs'[s], pinFile.pins, packer.ddr).deltas : s \in ok}
      <3>1. PICK ok \in SUBSET Steps : AuditFiles(ok)
        BY <1>7 DEF Audit
      <3> DEFINE found == [s \in ok |-> Found(s, ddrFs'[s], pinFile.pins, packer.ddr)]
                 deltas == UNION {found[s].deltas : s \in ok}
      <3>2. deltas = UNION {Found(s, ddrFs'[s], pinFile.pins, packer.ddr).deltas : s \in ok}
        OBVIOUS
      <3>3. \/ done' = done \ {"audit"}
            \/ done' = done \union {"audit"} /\ audit'.deltas = deltas
        BY <3>1 DEF AuditFiles
      <3> HIDE DEF deltas
      <3>4. QED
        BY <3>2, <3>3
    <2>3. ASSUME "audit" \in done'
          PROVE  (\A d \in audit.deltas : \E s \in Steps :
                    d \in Found(s, ddrFs[s], pinFile.pins, packer.ddr).deltas)'
      <3>1. \A d \in audit'.deltas : \E s \in Steps :
              d \in Found(s, ddrFs'[s], pinFile.pins, packer.ddr).deltas
        BY <2>2, <2>3
      <3>2. QED
        BY <2>1, <3>1
    <2>4. ASSUME "pins" \in done' PROVE (pinFile = PinTable(install))'
      <3>1. pinFile = PinTable(install)
        BY <2>2, <2>4 DEF AuditInv
      <3>2. QED
        BY <2>1, <3>1
    <2>5. QED
      BY <1>0, <2>1, <2>3, <2>4 DEF AuditInv
  <1>8. CASE UNCHANGED vars
    BY <1>0, <1>8, AuditInvFrame DEF vars
  <1>9. QED
    BY <1>1, <1>2, <1>3, <1>4, <1>5, <1>6, <1>7, <1>8 DEF Next

\* The pin table lists each ball of the install once: its cell and half are the site's.
LEMMA BallsAreLookedUp ==
  ASSUME NEW ide \in Installs, NEW i \in DOMAIN ide.pins, NEW b, ide.pins[i].ball = b
  PROVE  BallToCell(PinTable(ide).pins)[b] = [tile |-> SiteCell(ide.pins[i].site), idx |-> ide.pins[i].half]
  <1> DEFINE pins == [k \in DOMAIN ide.pins |-> PinRow(ide, ide.pins[k])]
  <1>1. PinTable(ide).pins = pins
    BY DEF PinTable
  <1>2. \A k \in DOMAIN ide.pins : /\ pins[k].ball = ide.pins[k].ball
                                   /\ pins[k].cell = SiteCell(ide.pins[k].site)
                                   /\ pins[k].half = ide.pins[k].half
    BY DEF PinRow
  <1>3. DOMAIN pins = DOMAIN ide.pins
    OBVIOUS
  <1> HIDE DEF pins
  <1>4. (CHOOSE k \in DOMAIN pins : pins[k].ball = b) = i
    BY <1>2, <1>3, InstallsAssumption
  <1>5. BallToCell(pins)[b] = [tile |-> pins[i].cell, idx |-> pins[i].half]
    BY <1>2, <1>3, <1>4 DEF BallToCell
  <1>6. QED
    BY <1>1, <1>2, <1>5

\* The cell that the vendor tool realised for a primitive is at its ball's site.
LEMMA RealisedIsAtItsBall ==
  ASSUME NEW ide \in Installs, NEW s \in Steps, NEW c \in Realised(ide, s)
  PROVE  \E j \in DOMAIN ide.pins :
           /\ c.made \in DOMAIN Plan[s] /\ ide.pins[j].ball = Plan[s][c.made]
           /\ c.tile = SiteCell(ide.pins[j].site) /\ c.idx = ide.pins[j].half
  <1>1. PICK q \in DOMAIN Plan[s] :
          /\ Placeable(ide, s) /\ c.made = q
          /\ c.tile = SiteCell((CHOOSE r \in Range(ide.pins) : r.ball = PadBall(q, s)).site)
          /\ c.idx = (CHOOSE r \in Range(ide.pins) : r.ball = PadBall(q, s)).half
    BY DEF Realised
  <1>2. PICK j \in DOMAIN ide.pins : ide.pins[j].ball = PadBall(q, s)
    BY <1>1 DEF Placeable, Range
  <1>3. PadBall(q, s) = Plan[s][q]
    BY PlanAssumption
  <1>4. QED
    <2> DEFINE ball == PadBall(q, s)
    <2>1. ide.pins[j].ball = ball
      BY <1>2
    <2> HIDE DEF ball
    <2>2. (CHOOSE r \in Range(ide.pins) : r.ball = ball) = ide.pins[j]
      <3>1. \A r \in Range(ide.pins) : r.ball = ball <=> r = ide.pins[j]
        BY <2>1, InstallsAssumption DEF Range
      <3>2. ide.pins[j] \in Range(ide.pins)
        BY DEF Range
      <3>3. QED
        BY <3>1, <3>2
    <2>3. c.tile = SiteCell(ide.pins[j].site) /\ c.idx = ide.pins[j].half
      BY <1>1, <2>2 DEF ball
    <2>4. QED
      BY <1>1, <1>2, <1>3, <2>3

\* A delta names a primitive of its step.
LEMMA DeltaIsOfItsStep ==
  ASSUME NEW s, NEW fs, NEW pins, NEW made, NEW d, d \in Found(s, fs, pins, made).deltas
  PROVE  d.primitive \in DOMAIN Plan[s]
  BY DEF Found, Matched, Delta

\* A delta of a step whose bitstream was made with this install is of its primitive's cell.
LEMMA DeltaIsTheBalls ==
  ASSUME NEW ide \in Installs, NEW s \in Steps, NEW p \in DOMAIN Plan[s], NEW made,
         NEW d, d \in Found(s, Realised(ide, s), PinTable(ide).pins, made).deltas, d.primitive = p
  PROVE  \E c \in Realised(ide, s) :
           /\ c.made = p /\ c.tile = d.tile /\ c.idx = d.idx
           /\ d.vendor = c.tileBits \intersect Region(c)
  <1> DEFINE fs == Realised(ide, s)
  <1>1. PICK m \in Matched(s, VendorCells(fs), PinTable(ide).pins) : d = Delta(m[1], m[2], made[m[1]])
    BY DEF Found
  <1>2. /\ m[1] \in DOMAIN Plan[s] /\ m[2] \in VendorCells(fs)
        /\ m[2].tile = BallToCell(PinTable(ide).pins)[Plan[s][m[1]]].tile
        /\ m[2].idx = BallToCell(PinTable(ide).pins)[Plan[s][m[1]]].idx
    BY DEF Matched
  <1>3. d.primitive = m[1] /\ d.tile = m[2].tile /\ d.idx = m[2].idx /\ d.vendor = m[2].bits
    BY <1>1 DEF Delta
  <1>4. m[1] = p
    BY <1>3
  <1>5. PICK c \in Realised(ide, s) :
          m[2].tile = c.tile /\ m[2].idx = c.idx /\ m[2].bits = c.tileBits \intersect Region(c)
    <2>1. PICK c \in fs : m[2] = [tile |-> c.tile, idx |-> c.idx, type |-> c.type, mode |-> c.mode,
                                  attrs |-> c.attrs, bits |-> c.tileBits \intersect Region(c)]
      BY <1>2 DEF VendorCells
    <2>2. m[2].tile = c.tile /\ m[2].idx = c.idx /\ m[2].bits = c.tileBits \intersect Region(c)
      BY <2>1
    <2>3. c \in Realised(ide, s)
      BY <1>4, <2>1
    <2>4. QED
      BY <2>2, <2>3
  <1>6. PICK j \in DOMAIN ide.pins :
          /\ c.made \in DOMAIN Plan[s] /\ ide.pins[j].ball = Plan[s][c.made]
          /\ c.tile = SiteCell(ide.pins[j].site) /\ c.idx = ide.pins[j].half
    BY RealisedIsAtItsBall
  <1>7. PICK i \in DOMAIN ide.pins : ide.pins[i].ball = Plan[s][p]
    <2>1. Placeable(ide, s)
      BY DEF Realised
    <2>2. PadBall(p, s) \in {q.ball : q \in Range(ide.pins)}
      BY <2>1 DEF Placeable
    <2>3. QED
      BY <2>2, PlanAssumption DEF Range
  <1>8. SiteCell(ide.pins[i].site) = SiteCell(ide.pins[j].site) /\ ide.pins[i].half = ide.pins[j].half
    <2>1. BallToCell(PinTable(ide).pins)[ide.pins[i].ball]
            = [tile |-> SiteCell(ide.pins[i].site), idx |-> ide.pins[i].half]
      BY BallsAreLookedUp
    <2>2. /\ m[2].tile = BallToCell(PinTable(ide).pins)[ide.pins[i].ball].tile
          /\ m[2].idx = BallToCell(PinTable(ide).pins)[ide.pins[i].ball].idx
      BY <1>2, <1>4, <1>7
    <2>3. m[2].tile = SiteCell(ide.pins[i].site) /\ m[2].idx = ide.pins[i].half
      BY <2>1, <2>2
    <2>4. QED
      BY <1>5, <1>6, <2>3
  <1>9. {ide.pins[i].ball, ide.pins[j].ball} \subseteq Range(Plan[s])
    BY <1>6, <1>7 DEF Range
  <1>10. i = j
    BY <1>8, <1>9, InstallsAssumption
  <1>11. c.made = p
    BY <1>6, <1>7, <1>10, PlanAssumption
  <1>12. QED
    BY <1>3, <1>5, <1>11

\* Each delta in the file is of its primitive's cell.
LEMMA AuditedCells == AuditInv => AuditedCellIsTheBalls
  <1> SUFFICES ASSUME AuditInv, "pins" \in done, "audit" \in done,
                      NEW s \in Steps, ddrFs[s] = Realised(install, s),
                      NEW d \in audit.deltas, NEW p \in DOMAIN Plan[s], d.primitive = p
               PROVE  \E c \in Realised(install, s) :
                        /\ c.made = p /\ c.tile = d.tile /\ c.idx = d.idx
                        /\ d.vendor = c.tileBits \intersect Region(c)
    BY DEF AuditedCellIsTheBalls
  <1>1. install \in Installs /\ pinFile = PinTable(install)
    BY DEF AuditInv
  <1>2. PICK t \in Steps : d \in Found(t, ddrFs[t], PinTable(install).pins, packer.ddr).deltas
    BY <1>1 DEF AuditInv
  <1>3. QED
    <2>1. t = s
      BY <1>2, DeltaIsOfItsStep, PlanAssumption
    <2>2. d \in Found(s, Realised(install, s), PinTable(install).pins, packer.ddr).deltas
      BY <1>2, <2>1
    <2>3. QED
      BY <1>1, <2>2, DeltaIsTheBalls

\* An audited delta is of the cell that the vendor tool realised for the very primitive
\* it names, in every behaviour (match_vendor_cells looks a cell up by its ball).
THEOREM AuditedCellsAreTheBalls == Spec => []AuditedCellIsTheBalls
  <1>1. AuditInv /\ [Next]_vars => AuditInv'
    BY AuditInvStep
  <1>2. QED
    BY AuditInvInit, <1>1, AuditedCells, PTL DEF Spec
==============================================================================
