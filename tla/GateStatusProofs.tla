--------------------------- MODULE GateStatusProofs ---------------------------
(***************************************************************************)
(* Proofs about GateStatus: what one scan of evidence/_gates reports,      *)
(* whatever hooks, gates and kills it races with, for every set of pushes  *)
(* and every choice of kills, pid reuse and bounds.                        *)
(***************************************************************************)
EXTENDS GateStatus, LandingGateProofs

USE ReaderAssumption

\* Beside the scan the scripts go on as LandingGate says: the scan writes none of
\* their variables.
LEMMA SystemRunsTheGate == SystemSpec => Spec
  <1>1. SystemInit => Init
    BY DEF SystemInit
  <1>2. [SystemNext]_allVars => [Next]_vars
    BY DEF SystemNext, allVars
  <1>3. QED
    BY <1>1, <1>2, PTL DEF SystemSpec, Spec

\* What is proved of the scripts holds beside the scan.
GateInv == TypeInv /\ SoleInv /\ WatchInv /\ ResultIsEarned

\* The scripts' invariants hold in every state of scripts and scan together.
LEMMA GateInvHolds == SystemSpec => []GateInv
  <1>1. TypeInv /\ SoleInv /\ WatchInv /\ ResultIsEarned => GateInv
    BY DEF GateInv
  <1>2. QED
    BY <1>1, SystemRunsTheGate, TypeCorrect, SoleCorrect, WatchCorrect, ResultsAreEarned, PTL

------------------------------------------------------------------------------
(* The scan's types. *)

\* Time does not run backwards.
LEMMA ClockGoesOn ==
  ASSUME TypeInv, [Next]_vars
  PROVE  now' \in Nat /\ now <= now'
  <1>1. now \in Nat
    BY DEF TypeInv, TypeOK
  <1>2. ASSUME NEW p \in Pushes, Hook(p) PROVE now' = now
    BY <1>2 DEF Hook, Push, RemoveResult, RemovePidfile, TruncateLog, TruncateWatchdogLog,
                SpawnGate, SpawnWatchdog, envVars
  <1>3. ASSUME NEW p \in Pushes, Gate(p) PROVE now' = now
    BY <1>3 DEF Gate, OpenPidfile, WritePid, RunCheck, OpenResult, WriteResult, MarkComplete,
                GateExit, envVars
  <1>4. ASSUME NEW p \in Pushes, Watchdog(p) PROVE now' = now
    BY <1>4 DEF Watchdog, Arm, PollPidfile, ReadPidfile, GiveUp, ProbePid, Watch, Conclude, envVars
  <1>5. CASE Machine \/ UNCHANGED vars
    BY <1>1, <1>5 DEF Machine, Tick, KillGate, KillWatchdog, ReusePid, FreePid, vars, envVars
  <1>6. QED
    BY <1>1, <1>2, <1>3, <1>4, <1>5 DEF Next

\* What one step of the scan does to each of its variables, with its types.
LEMMA RdTypeStep == GateInv /\ RdTypeOK /\ [SystemNext]_allVars => RdTypeOK'
  <1> SUFFICES ASSUME GateInv, RdTypeOK, [SystemNext]_allVars PROVE RdTypeOK'
    OBVIOUS
  <1>1. /\ TypeInv
        /\ now \in Nat
        /\ result \in [MarkerIds -> ResultFile]
        /\ pidfile \in [MarkerIds -> PidFile]
        /\ log \in [MarkerIds -> LogFile]
        /\ gatePc \in [Pushes -> GatePcs]
    BY DEF GateInv, TypeInv, TypeOK
  <1>2. CASE UNCHANGED rdVars /\ [Next]_vars
    <2>1. now' \in Nat /\ now <= now'
      BY <1>1, <1>2, ClockGoesOn
    <2>2. rdNow' \in 0..now'
      BY <1>1, <1>2, <2>1 DEF RdTypeOK, rdVars
    <2>3. QED
      BY <1>2, <2>2 DEF RdTypeOK, rdVars, histVars
  <1>3. CASE StartScan /\ UNCHANGED vars
    <2>1. rdNow' \in 0..now'
      BY <1>1, <1>3 DEF StartScan, vars, envVars
    <2>2. QED
      BY <1>3, <2>1 DEF StartScan, RdStep, RdTypeOK
  <1>4. ASSUME NEW i \in MarkerIds, ReadResult(i), UNCHANGED vars PROVE RdTypeOK'
    <2>1. result[i] \in ResultFile
      BY <1>1
    <2>2. result[i].val # "absent" => ResultEntry(i) \in [status : Statuses, mtime : Nat]
      BY <2>1 DEF ResultEntry, StatusOf, Statuses, ResultFile, Verdicts
    <2>3. gates' \in [MarkerIds -> [status : Statuses, mtime : Nat]]
      BY <1>4, <2>2 DEF ReadResult, RdTypeOK
    <2>4. now' = now
      BY <1>4 DEF vars, envVars
    <2>5. QED
      BY <1>4, <2>3, <2>4 DEF ReadResult, RdTypeOK, histVars
  <1>5. CASE (ListPidfiles \/ ListLogs) /\ UNCHANGED vars
    BY <1>5 DEF ListPidfiles, ListLogs, RdStep, RdTypeOK, histVars, vars, envVars
  <1>6. ASSUME NEW i \in MarkerIds, ReadPidfileOf(i), UNCHANGED vars PROVE RdTypeOK'
    <2>1. pids' \in [MarkerIds -> Owners]
      BY <1>6 DEF ReadPidfileOf, RdTypeOK, Owners
    <2>2. now' = now
      BY <1>6 DEF vars, envVars
    <2>3. QED
      BY <1>6, <2>1, <2>2 DEF ReadPidfileOf, RdTypeOK, histVars
  <1>7. ASSUME NEW i \in MarkerIds, ReadLog(i), UNCHANGED vars PROVE RdTypeOK'
    <2>1. log[i].mtime \in Nat /\ LogStatus(i) \in Statuses
      BY <1>1 DEF LogFile, LogStatus, Statuses
    <2>2. [status |-> LogStatus(i), mtime |-> log[i].mtime] \in [status : Statuses, mtime : Nat]
      BY <2>1
    <2>3. gates' \in [MarkerIds -> [status : Statuses, mtime : Nat]]
      BY <1>7, <2>2 DEF ReadLog, RdTypeOK
    <2>4. now' = now
      BY <1>7 DEF vars, envVars
    <2>5. QED
      BY <1>7, <2>3, <2>4 DEF ReadLog, RdTypeOK, histVars
  <1>8. CASE Judge /\ UNCHANGED vars
    <2>1. ASSUME NEW i \in MarkerIds
          PROVE  [gates[i] EXCEPT !.status = "SUPERSEDED"] \in [status : Statuses, mtime : Nat]
      BY DEF RdTypeOK, Statuses
    <2>2. gates' \in [MarkerIds -> [status : Statuses, mtime : Nat]]
      BY <1>8, <2>1 DEF Judge, MarkSuperseded, RdTypeOK
    <2>3. now' = now /\ exit' \in {0, 1}
      BY <1>8 DEF Judge, vars, envVars
    <2>4. QED
      BY <1>8, <2>2, <2>3 DEF Judge, RdStep, RdTypeOK, histVars
  <1>9. QED
    BY <1>2, <1>3, <1>4, <1>5, <1>6, <1>7, <1>8 DEF SystemNext, Scan, allVars

\* The scan reports known statuses of known ids, its clock is not ahead of the
\* machine's and it exits 0 or 1.
THEOREM ScanIsTyped == SystemSpec => []RdTypeOK
  <1>1. SystemInit => RdTypeOK
    BY DEF SystemInit, RdInit, RdTypeOK, Init, Unlisted, Statuses, Owners
  <1>2. QED
    BY <1>1, RdTypeStep, GateInvHolds, PTL DEF SystemSpec

------------------------------------------------------------------------------
(* What the scan reports was earned. *)

\* Marking what is superseded brings no verdict.
LEMMA MarkedStatus ==
  ASSUME NEW g \in [MarkerIds -> [status : Statuses, mtime : Nat]], NEW i \in MarkerIds
  PROVE  /\ MarkSuperseded(g)[i].status \in Verdicts => MarkSuperseded(g)[i].status = g[i].status
         /\ i \in Newest(g) => MarkSuperseded(g)[i] = g[i]
         /\ i \notin Listed(g) => MarkSuperseded(g)[i] = g[i]
  <1>1. MarkSuperseded(g)[i] = IF i \in Listed(g) \ Newest(g)
                               THEN [g[i] EXCEPT !.status = "SUPERSEDED"] ELSE g[i]
    BY DEF MarkSuperseded
  <1>2. CASE i \in Listed(g) \ Newest(g)
    <2>1. MarkSuperseded(g)[i] = [g[i] EXCEPT !.status = "SUPERSEDED"]
      BY <1>1, <1>2
    <2>2. QED
      BY <1>2, <2>1 DEF Verdicts
  <1>3. QED
    BY <1>1, <1>2

\* Neither a step of the scripts nor one of the scan reports what nobody earned.
LEMMA ReportIsEarnedStep ==
  GateInv /\ RdTypeOK /\ ReportIsEarned /\ [SystemNext]_allVars => ReportIsEarned'
  <1> SUFFICES ASSUME GateInv, RdTypeOK, ReportIsEarned, [SystemNext]_allVars,
                      NEW i \in MarkerIds, gates'[i].status \in Verdicts
               PROVE  \E q \in Pushes : /\ Spawns(req[q])'
                                        /\ Id(q)' = i
                                        /\ EarnedBy(q, gates[i].status)'
    BY DEF ReportIsEarned
  <1>1. /\ TypeInv /\ ResultIsEarned
        /\ result \in [MarkerIds -> ResultFile]
        /\ gates \in [MarkerIds -> [status : Statuses, mtime : Nat]]
    BY DEF GateInv, TypeInv, TypeOK, RdTypeOK
  <1>2. [Next]_vars
    BY DEF SystemNext, allVars
  \* A verdict some gate of this id has earned is earned after the step as well.
  <1>3. ASSUME \E q \in Pushes : Spawns(req[q]) /\ Id(q) = i /\ EarnedBy(q, gates'[i].status)
        PROVE  \E q \in Pushes : /\ Spawns(req[q])' /\ Id(q)' = i
                                 /\ EarnedBy(q, gates[i].status)'
    <2>1. PICK q \in Pushes : Spawns(req[q]) /\ Id(q) = i /\ EarnedBy(q, gates'[i].status)
      BY <1>3
    <2> DEFINE v == gates'[i].status
    <2>2. verdict[q] = v /\ verdict'[q] = verdict[q] /\ ran'[q] = ran[q]
      BY <1>1, <1>2, <2>1, VerdictStable DEF EarnedBy
    <2>3. EarnedBy(q, gates[i].status)'
      BY <2>1, <2>2 DEF EarnedBy
    <2>4. Spawns(req[q])' /\ Id(q)' = i
      BY <1>2, <2>1, SameIds
    <2>5. QED
      BY <2>3, <2>4
  <1>4. CASE gates'[i] = gates[i]
    BY <1>3, <1>4 DEF ReportIsEarned
  <1>5. CASE UNCHANGED rdVars
    BY <1>4, <1>5 DEF rdVars
  <1>6. CASE StartScan \/ ListPidfiles \/ ListLogs
    BY <1>4, <1>6 DEF StartScan, ListPidfiles, ListLogs
  <1>7. ASSUME NEW j \in MarkerIds, ReadResult(j)
        PROVE  \E q \in Pushes : /\ Spawns(req[q])' /\ Id(q)' = i
                                 /\ EarnedBy(q, gates[i].status)'
    <2>1. CASE gates'[i] # gates[i]
      <3>1. i = j /\ gates'[i] = ResultEntry(i)
        BY <1>1, <1>7, <2>1 DEF ReadResult
      <3>2. gates'[i].status = StatusOf(result[i].val)
        BY <3>1 DEF ResultEntry
      <3>3. result[i].val = gates'[i].status
        BY <3>2 DEF StatusOf, Verdicts
      <3>4. QED
        BY <1>1, <1>3, <3>3 DEF ResultIsEarned
    <2>2. QED
      BY <1>4, <2>1
  <1>8. ASSUME NEW j \in MarkerIds, ReadPidfileOf(j) PROVE gates'[i] = gates[i]
    BY <1>8 DEF ReadPidfileOf
  <1>9. ASSUME NEW j \in MarkerIds, ReadLog(j) PROVE gates'[i] = gates[i]
    BY <1>1, <1>9 DEF ReadLog, LogStatus, Verdicts
  <1>10. CASE Judge
    <2>1. gates'[i].status = gates[i].status
      BY <1>1, <1>10, MarkedStatus DEF Judge
    <2>2. QED
      BY <1>3, <2>1 DEF ReportIsEarned
  <1>11. QED
    BY <1>4, <1>5, <1>6, <1>7, <1>8, <1>9, <1>10 DEF SystemNext, Scan, allVars

\* Whatever races with the scan, a PASS or FAIL it reports is one that a gate of that
\* id has earned.
THEOREM ReportsAreEarned == SystemSpec => []ReportIsEarned
  <1>1. SystemInit => ReportIsEarned
    BY DEF SystemInit, RdInit, ReportIsEarned, Unlisted, Verdicts
  <1>2. QED
    BY <1>1, ReportIsEarnedStep, GateInvHolds, ScanIsTyped, PTL DEF SystemSpec
------------------------------------------------------------------------------
(* A result that goes away while the scan runs. *)

\* Two gated pushes have the id i.
Shared(i) == \E p, q \in Pushes : /\ p # q
                                  /\ Spawns(req[p]) /\ Id(p) = i
                                  /\ Spawns(req[q]) /\ Id(q) = i

\* A result on disk is of a gate that was started.
ResultIsStarted ==
  \A i \in MarkerIds : result[i].val # "absent" =>
    \E q \in Pushes : gatePc[q] # "none" /\ Id(q) = i

\* What the scan listed and does not find is shared.
MissingIsShared ==
  /\ rdPc = "results" => \A i \in todo : result[i].val # "absent" \/ Shared(i)
  /\ rdPc = "crashed" => \E i \in MarkerIds : Shared(i)

\* Only its gates write the result of an id, and only its hooks take it away.
LEMMA ResultMoves ==
  ASSUME TypeInv, [Next]_vars, NEW i \in MarkerIds
  PROVE  \/ result'[i] = result[i]
         \/ \E p \in Pushes : (OpenResult(p) \/ WriteResult(p)) /\ Id(p) = i
         \/ \E p \in Pushes : RemoveResult(p) /\ Id(p) = i
  <1>1. result \in [MarkerIds -> ResultFile]
    BY DEF TypeInv, TypeOK
  <1>2. CASE result' = result
    BY <1>2
  <1>3. ASSUME NEW p \in Pushes, RemoveResult(p)
        PROVE  Id(p) = i \/ result'[i] = result[i]
    BY <1>1, <1>3 DEF RemoveResult
  <1>4. ASSUME NEW p \in Pushes, OpenResult(p) \/ WriteResult(p)
        PROVE  Id(p) = i \/ result'[i] = result[i]
    BY <1>1, <1>4 DEF OpenResult, WriteResult
  <1>5. ASSUME NEW p \in Pushes, Hook(p), ~RemoveResult(p) PROVE result' = result
    BY <1>5 DEF Hook, Push, RemovePidfile, TruncateLog, TruncateWatchdogLog, SpawnGate,
                SpawnWatchdog, fileVars
  <1>6. ASSUME NEW p \in Pushes, Gate(p), ~OpenResult(p), ~WriteResult(p) PROVE result' = result
    BY <1>6 DEF Gate, OpenPidfile, WritePid, RunCheck, MarkComplete, GateExit, fileVars
  <1>7. ASSUME NEW p \in Pushes, Watchdog(p) PROVE result' = result
    BY <1>7 DEF Watchdog, Arm, PollPidfile, ReadPidfile, GiveUp, ProbePid, Watch, Conclude, fileVars
  <1>8. CASE Machine \/ UNCHANGED vars
    BY <1>2, <1>8 DEF Machine, Tick, KillGate, KillWatchdog, ReusePid, FreePid, vars, fileVars
  <1>9. QED
    BY <1>2, <1>3, <1>4, <1>5, <1>6, <1>7, <1>8 DEF Next

\* A gate that was started stays started, under its id.
LEMMA ResultIsStartedStep ==
  TypeInv /\ ResultIsStarted /\ [Next]_vars => ResultIsStarted'
  <1> SUFFICES ASSUME TypeInv, ResultIsStarted, [Next]_vars,
                      NEW i \in MarkerIds, result'[i].val # "absent"
               PROVE  \E q \in Pushes : gatePc'[q] # "none" /\ Id(q)' = i
    BY DEF ResultIsStarted
  <1>1. CASE \E q \in Pushes : gatePc[q] # "none" /\ Id(q) = i
    BY <1>1, GateMovesOn, SameIds
  <1>2. ASSUME NEW p \in Pushes, RemoveResult(p), Id(p) = i PROVE FALSE
    BY <1>2 DEF RemoveResult, NoResult, TypeInv, TypeOK
  <1>3. CASE result[i].val # "absent"
    BY <1>1, <1>3 DEF ResultIsStarted
  <1>4. ASSUME NEW p \in Pushes, OpenResult(p) \/ WriteResult(p) PROVE gatePc[p] # "none"
    BY <1>4 DEF OpenResult, WriteResult, GateStep
  <1>5. QED
    BY <1>1, <1>2, <1>3, <1>4, ResultMoves

\* Whoever takes away the result of a started gate has that gate's id.
LEMMA TakenIsShared ==
  ASSUME TypeInv, ResultIsStarted, [Next]_vars, NEW i \in MarkerIds,
         result[i].val # "absent", result'[i].val = "absent"
  PROVE  Shared(i)'
  <1>1. PICK q \in Pushes : gatePc[q] # "none" /\ Id(q) = i
    BY DEF ResultIsStarted
  <1>2. result \in [MarkerIds -> ResultFile]
    BY DEF TypeInv, TypeOK
  <1>3. PICK p \in Pushes : RemoveResult(p) /\ Id(p) = i
    <2>1. ASSUME NEW p \in Pushes, OpenResult(p) \/ WriteResult(p) PROVE FALSE
      <3>1. verdict[p] \in Verdicts \/ ~WriteResult(p)
        BY DEF WriteResult, GateStep, TypeInv, GateProgress
      <3>2. QED
        BY <1>2, <2>1, <3>1 DEF OpenResult, WriteResult, ResultFile, Verdicts
    <2>2. QED
      BY <2>1, ResultMoves
  <1>4. Spawns(req[q]) /\ Spawns(req[p]) /\ gatePc[p] = "none"
    BY <1>1, <1>3 DEF RemoveResult, HookStep, TypeInv, HookOrder
  <1>5. Spawns(req[p])' /\ Spawns(req[q])' /\ Id(p)' = i /\ Id(q)' = i /\ p # q
    BY <1>1, <1>3, <1>4, SameIds
  <1>6. QED
    BY <1>5 DEF Shared

\* An id stays shared.
LEMMA SharedStays ==
  ASSUME [Next]_vars, NEW i, Shared(i)
  PROVE  Shared(i)'
  <1>1. PICK p, q \in Pushes : /\ p # q
                               /\ Spawns(req[p]) /\ Id(p) = i
                               /\ Spawns(req[q]) /\ Id(q) = i
    BY DEF Shared
  <1>2. Spawns(req[p])' /\ Spawns(req[q])' /\ Id(p)' = i /\ Id(q)' = i
    BY <1>1, SameIds
  <1>3. QED
    BY <1>1, <1>2 DEF Shared

\* Between the glob and the read of a result only a second push of its id comes in.
LEMMA MissingIsSharedStep ==
  TypeInv /\ RdTypeOK /\ ResultIsStarted /\ MissingIsShared /\ [SystemNext]_allVars
    => MissingIsShared'
  <1> SUFFICES ASSUME TypeInv, RdTypeOK, ResultIsStarted, MissingIsShared, [SystemNext]_allVars
               PROVE  MissingIsShared'
    OBVIOUS
  <1>1. [Next]_vars
    BY DEF SystemNext, allVars
  <1>2. todo \subseteq MarkerIds
    BY DEF RdTypeOK
  <1>3. CASE UNCHANGED rdVars
    <2>1. ASSUME rdPc' = "results", NEW i \in todo' PROVE result'[i].val # "absent" \/ Shared(i)'
      <3>1. i \in MarkerIds /\ (result[i].val # "absent" \/ Shared(i))
        BY <1>2, <1>3, <2>1 DEF MissingIsShared, rdVars
      <3>2. QED
        BY <1>1, <3>1, TakenIsShared, SharedStays
    <2>2. ASSUME rdPc' = "crashed" PROVE \E i \in MarkerIds : Shared(i)'
      <3>1. PICK i \in MarkerIds : Shared(i)
        BY <1>3, <2>2 DEF MissingIsShared, rdVars
      <3>2. QED
        BY <1>1, <3>1, SharedStays
    <2>3. QED
      BY <2>1, <2>2 DEF MissingIsShared
  <1>4. ASSUME UNCHANGED vars PROVE result' = result /\ \A i : Shared(i)' = Shared(i)
    BY <1>4 DEF vars, fileVars, hookVars, Shared, Id
  <1>5. CASE StartScan /\ UNCHANGED vars
    BY <1>4, <1>5 DEF StartScan, RdStep, MissingIsShared
  <1>6. ASSUME NEW i \in MarkerIds, ReadResult(i), UNCHANGED vars PROVE MissingIsShared'
    <2>1. rdPc = "results" /\ i \in todo /\ todo' = todo \ {i}
      BY <1>6 DEF ReadResult
    <2>2. rdPc' = "crashed" => result[i].val = "absent"
      BY <1>6, <2>1 DEF ReadResult
    <2>3. rdPc' = "crashed" => Shared(i)'
      BY <1>4, <1>6, <2>1, <2>2 DEF MissingIsShared
    <2>4. QED
      BY <1>4, <1>6, <2>1, <2>3 DEF MissingIsShared
  <1>7. CASE (ListPidfiles \/ ListLogs \/ Judge) /\ UNCHANGED vars
    BY <1>7 DEF ListPidfiles, ListLogs, Judge, RdStep, MissingIsShared
  <1>8. ASSUME NEW i \in MarkerIds, ReadPidfileOf(i) \/ ReadLog(i) PROVE MissingIsShared'
    BY <1>8 DEF ReadPidfileOf, ReadLog, MissingIsShared
  <1>9. QED
    BY <1>3, <1>5, <1>6, <1>7, <1>8 DEF SystemNext, Scan, allVars

\* Whatever races with the scan, it ends with the uncaught error only where two gated
\* pushes have one id.
THEOREM CrashesNeedARepush == SystemSpec => []CrashNeedsARepush
  <1>1. SystemInit => ResultIsStarted /\ MissingIsShared
    BY DEF SystemInit, Init, RdInit, ResultIsStarted, MissingIsShared, NoResult
  <1>2. GateInv /\ ResultIsStarted /\ [SystemNext]_allVars => ResultIsStarted'
    BY ResultIsStartedStep DEF GateInv, SystemNext, allVars
  <1>3. GateInv /\ RdTypeOK /\ ResultIsStarted /\ MissingIsShared /\ [SystemNext]_allVars
        => MissingIsShared'
    BY MissingIsSharedStep DEF GateInv
  <1>4. MissingIsShared => CrashNeedsARepush
    BY DEF MissingIsShared, Shared, CrashNeedsARepush
  <1>5. QED
    BY <1>1, <1>2, <1>3, <1>4, GateInvHolds, ScanIsTyped, PTL DEF SystemSpec
------------------------------------------------------------------------------
(* A FAIL that stood when the scan began. *)

\* Marking hides no marker and makes none newer: the newest of a repo stay so.
LEMMA MarkedNewest ==
  ASSUME NEW g \in [MarkerIds -> [status : Statuses, mtime : Nat]]
  PROVE  Newest(MarkSuperseded(g)) = Newest(g)
  <1> DEFINE m == MarkSuperseded(g)
  <1>1. ASSUME NEW i \in MarkerIds
        PROVE  m[i].mtime = g[i].mtime /\ (m[i].status = "unlisted" <=> g[i].status = "unlisted")
    <2>1. m[i] = IF i \in Listed(g) \ Newest(g) THEN [g[i] EXCEPT !.status = "SUPERSEDED"]
                                               ELSE g[i]
      BY DEF MarkSuperseded
    <2>2. QED
      BY <2>1 DEF Listed
  <1>2. Listed(m) = Listed(g)
    BY <1>1 DEF Listed
  <1>3. ASSUME NEW i \in Listed(g), NEW j \in Listed(g) PROVE Newer(m, j, i) <=> Newer(g, j, i)
    BY <1>1 DEF Newer, Listed
  <1> HIDE DEF m
  <1>4. Newest(m) = Newest(g)
    BY <1>2, <1>3 DEF Newest
  <1>5. QED
    BY <1>4 DEF m

\* A red marker of the time the scan began stays on disk, is read before the pidfiles
\* are listed, and counts unless the scan read a newer one of the repo.
RedStays(p) ==
  /\ rdPc # "idle" /\ result[Id(p)].val = "FAIL"
  /\ rdPc = "results" => Id(p) \in todo \/ gates[Id(p)].status = "FAIL"
  /\ rdPc \in {"pids", "logs"} => gates[Id(p)].status = "FAIL"
  /\ rdPc = "reported" /\ Id(p) \in Newest(gates) => exit = 1

RedInv == \A p \in Pushes : Sole(p) /\ Id(p) \in redBefore => RedStays(p)

\* A FAIL is kept by the scripts, who write no other verdict, and by each step of the scan.
LEMMA RedInvStep == GateInv /\ RdTypeOK /\ RedInv /\ [SystemNext]_allVars => RedInv'
  <1> SUFFICES ASSUME GateInv, RdTypeOK, RedInv, [SystemNext]_allVars,
                      NEW p \in Pushes, Sole(p)', Id(p)' \in redBefore'
               PROVE  RedStays(p)'
    BY DEF RedInv
  <1>1. [Next]_vars
    BY DEF SystemNext, allVars
  <1>2. /\ TypeInv /\ SoleInv /\ Sole(p)
        /\ result \in [MarkerIds -> ResultFile]
        /\ gates \in [MarkerIds -> [status : Statuses, mtime : Nat]]
        /\ Id(p)' = Id(p) /\ Id(p) \in MarkerIds
    BY <1>1, SameIds, SoleIsRigid, IdIsMarker DEF GateInv, TypeInv, TypeOK, RdTypeOK, Sole
  \* Before anything else: the verdict itself stays.
  <1>3. ASSUME result[Id(p)].val = "FAIL" PROVE result'[Id(p)].val = "FAIL"
    BY <1>1, <1>2, <1>3, VerdictIsKept DEF Verdicts
  <1>4. CASE UNCHANGED rdVars
    BY <1>2, <1>3, <1>4 DEF RedInv, RedStays, rdVars, histVars, Newest, Listed, Newer
  <1>5. CASE StartScan
    BY <1>2, <1>3, <1>5 DEF StartScan, RdStep, RedStays
  <1>6. ASSUME Scan, ~StartScan
        PROVE  Id(p) \in redBefore /\ RedStays(p) /\ result'[Id(p)].val = "FAIL"
    <2>1. redBefore' = redBefore
      BY <1>6 DEF Scan, ReadResult, ListPidfiles, ReadPidfileOf, ListLogs, ReadLog, Judge, histVars
    <2>2. QED
      BY <1>2, <1>3, <2>1 DEF RedInv, RedStays
  <1>7. ASSUME NEW i \in MarkerIds, ReadResult(i), Scan, ~StartScan PROVE RedStays(p)'
    <2>1. CASE rdPc' = "crashed"
      BY <1>2, <1>6, <1>7, <2>1 DEF RedStays
    <2>2. CASE rdPc' # "crashed"
      <3>1. rdPc' = "results" /\ gates' = [gates EXCEPT ![i] = ResultEntry(i)]
            /\ todo' = todo \ {i} /\ rdPc = "results"
        BY <1>7, <2>2 DEF ReadResult
      <3>2. i = Id(p) => gates'[Id(p)].status = "FAIL"
        BY <1>2, <1>6, <1>7, <3>1 DEF ResultEntry, StatusOf, RedStays
      <3>3. i # Id(p) => gates'[Id(p)] = gates[Id(p)]
        BY <1>2, <3>1
      <3>4. QED
        BY <1>2, <1>6, <1>7, <3>1, <3>2, <3>3 DEF RedStays
    <2>3. QED
      BY <2>1, <2>2
  <1>8. ASSUME ListPidfiles \/ ListLogs \/ \E i \in MarkerIds : ReadPidfileOf(i), Scan, ~StartScan
        PROVE  RedStays(p)'
    BY <1>2, <1>6, <1>8 DEF ListPidfiles, ListLogs, ReadPidfileOf, RdStep, RedStays
  <1>9. ASSUME NEW i \in MarkerIds, ReadLog(i), Scan, ~StartScan PROVE RedStays(p)'
    BY <1>2, <1>6, <1>9 DEF ReadLog, Listed, RedStays
  <1>10. ASSUME Judge, Scan, ~StartScan PROVE RedStays(p)'
    <2>1. gates[Id(p)].status = "FAIL" /\ rdPc' = "reported" /\ gates' = MarkSuperseded(gates)
      BY <1>6, <1>10 DEF Judge, RdStep, RedStays
    <2>2. Id(p) \in Newest(gates') => gates'[Id(p)] = gates[Id(p)]
      BY <1>2, <2>1, MarkedNewest, MarkedStatus
    <2>3. Id(p) \in Newest(gates') => exit' = 1
      BY <1>2, <1>10, <2>1, <2>2 DEF Judge, Failing
    <2>4. Newest(gates)' = Newest(gates')
      BY DEF Newest, Listed, Newer
    <2>5. QED
      BY <1>2, <1>6, <1>10, <2>1, <2>3, <2>4 DEF RedStays
  <1>11. QED
    BY <1>4, <1>5, <1>7, <1>8, <1>9, <1>10 DEF SystemNext, Scan, allVars

\* What the scan knows of red verdicts is right in every reachable state.
LEMMA RedInvHolds == SystemSpec => []RedInv
  <1>1. SystemInit => RedInv
    BY DEF SystemInit, RdInit, RedInv
  <1>2. QED
    BY <1>1, RedInvStep, GateInvHolds, ScanIsTyped, PTL DEF SystemSpec
------------------------------------------------------------------------------
(* What is on disk for a gate, and when. *)

\* The hook has truncated the log of every gate it starts, no log is ever removed and only
\* pids that may be reused are; where the directory cannot be written there is no file.
DiskInv ==
  /\ reused \subseteq ReusablePids
  /\ \A p \in Pushes :
       hookPc[p] \in {"truncate_wdlog", "spawn_gate", "spawn_watchdog"} \/ gatePc[p] # "none" =>
         evdir /\ log[Id(p)].exists
  /\ ~evdir => /\ result = [i \in MarkerIds |-> NoResult]
               /\ pidfile = [i \in MarkerIds |-> NoPidfile]
               /\ log = [i \in MarkerIds |-> NoLog]

\* A log that exists goes on to exist.
LEMMA LogStays ==
  ASSUME TypeInv, [Next]_vars, NEW i \in MarkerIds, log[i].exists
  PROVE  log'[i].exists
  <1>1. log \in [MarkerIds -> LogFile] /\ log[i] \in LogFile
    BY DEF TypeInv, TypeOK
  <1>2. CASE log' = log
    BY <1>2
  <1>3. ASSUME NEW p \in Pushes, TruncateLog(p) PROVE log'[i].exists
    BY <1>1, <1>3 DEF TruncateLog, fileVars
  <1>4. ASSUME NEW p \in Pushes, RunCheck(p) \/ MarkComplete(p) PROVE log'[i].exists
    <2>1. \/ log' = [log EXCEPT ![Id(p)].mtime = now]
          \/ log' = [log EXCEPT ![Id(p)].done = TRUE, ![Id(p)].mtime = now]
      BY <1>4 DEF RunCheck, MarkComplete
    <2>2. QED
      BY <1>1, <2>1 DEF LogFile
  <1>5. ASSUME NEW p \in Pushes, Hook(p), ~TruncateLog(p) PROVE log' = log
    BY <1>5 DEF Hook, Push, RemoveResult, RemovePidfile, TruncateWatchdogLog, SpawnGate,
                SpawnWatchdog, fileVars
  <1>6. ASSUME NEW p \in Pushes, Gate(p), ~RunCheck(p), ~MarkComplete(p) PROVE log' = log
    BY <1>6 DEF Gate, OpenPidfile, WritePid, OpenResult, WriteResult, GateExit, fileVars
  <1>7. ASSUME NEW p \in Pushes, Watchdog(p) PROVE log' = log
    BY <1>7 DEF Watchdog, Arm, PollPidfile, ReadPidfile, GiveUp, ProbePid, Watch, Conclude, fileVars
  <1>8. CASE Machine \/ UNCHANGED vars
    BY <1>2, <1>8 DEF Machine, Tick, KillGate, KillWatchdog, ReusePid, FreePid, vars, fileVars
  <1>9. QED
    BY <1>2, <1>3, <1>4, <1>5, <1>6, <1>7, <1>8 DEF Next

\* Who started at this step had the log of its id truncated before.
LEMMA StartedHasLog ==
  ASSUME TypeInv, DiskInv, [Next]_vars, NEW p \in Pushes,
         hookPc'[p] \in {"truncate_wdlog", "spawn_gate", "spawn_watchdog"} \/ gatePc'[p] # "none"
  PROVE  \/ evdir /\ log[Id(p)].exists
         \/ TruncateLog(p) /\ evdir
  <1>1. hookPc \in [Pushes -> HookPcs] /\ gatePc \in [Pushes -> GatePcs]
    BY DEF TypeInv, TypeOK
  <1>2. CASE hookPc'[p] = hookPc[p] /\ gatePc'[p] = gatePc[p]
    BY <1>2 DEF DiskInv
  <1>3. CASE Hook(p)
    <2>1. CASE TruncateLog(p)
      BY <1>1, <2>1 DEF TruncateLog, HookStep, DiskInv, gateVars
    <2>2. CASE TruncateWatchdogLog(p) \/ SpawnGate(p)
      BY <2>2 DEF TruncateWatchdogLog, SpawnGate, HookStep, DiskInv
    <2>3. CASE Push(p) \/ RemoveResult(p) \/ RemovePidfile(p) \/ SpawnWatchdog(p)
      BY <1>1, <2>3 DEF Push, RemoveResult, RemovePidfile, SpawnWatchdog, HookStep, DiskInv, gateVars
    <2>4. QED
      BY <1>3, <2>1, <2>2, <2>3 DEF Hook
  <1>4. CASE Gate(p) \/ KillGate(p)
    <2>1. gatePc[p] # "none"
      BY <1>4 DEF Gate, OpenPidfile, WritePid, RunCheck, OpenResult, WriteResult, MarkComplete,
                  GateExit, GateStep, KillGate, GateProcess
    <2>2. QED
      BY <2>1 DEF DiskInv
  <1>5. CASE Watchdog(p) \/ KillWatchdog(p)
    BY <1>2, <1>5 DEF Watchdog, Arm, PollPidfile, ReadPidfile, GiveUp, ProbePid, Watch, Conclude,
       KillWatchdog, hookVars, gateVars
  <1>6. ASSUME NEW q \in Pushes \ {p},
               Hook(q) \/ Gate(q) \/ Watchdog(q) \/ KillGate(q) \/ KillWatchdog(q)
        PROVE  hookPc'[p] = hookPc[p] /\ gatePc'[p] = gatePc[p]
    <2>1. CASE Hook(q)
      BY <1>1, <2>1 DEF Hook, Push, RemoveResult, RemovePidfile, TruncateLog, TruncateWatchdogLog,
         SpawnGate, SpawnWatchdog, HookStep, gateVars
    <2>2. CASE Gate(q) \/ KillGate(q)
      BY <1>1, <2>2 DEF Gate, OpenPidfile, WritePid, RunCheck, OpenResult, WriteResult,
         MarkComplete, GateExit, GateStep, KillGate, hookVars
    <2>3. CASE Watchdog(q) \/ KillWatchdog(q)
      BY <2>3 DEF Watchdog, Arm, PollPidfile, ReadPidfile, GiveUp, ProbePid, Watch, Conclude,
         KillWatchdog, hookVars, gateVars
    <2>4. QED
      BY <1>6, <2>1, <2>2, <2>3
  <1>7. CASE UNCHANGED <<fileVars, hookVars, gateVars, wdVars>>
    BY <1>2, <1>7 DEF hookVars, gateVars
  <1>8. QED
    BY <1>2, <1>3, <1>4, <1>5, <1>6, <1>7, WhoMoves DEF vars

\* Where nothing can be written a step leaves the directory empty.
LEMMA NoDirectory ==
  ASSUME TypeInv, DiskInv, [Next]_vars, ~evdir
  PROVE  UNCHANGED <<result, pidfile, log>>
  <1>1. \A p \in Pushes : gatePc[p] = "none" /\ wdPc[p] = "none"
    BY DEF DiskInv, TypeInv, HookOrder
  <1>2. ASSUME NEW p \in Pushes PROVE ~Gate(p) /\ ~Watchdog(p)
    BY <1>1 DEF Gate, OpenPidfile, WritePid, RunCheck, OpenResult, WriteResult, MarkComplete,
       GateExit, GateStep, Watchdog, Arm, PollPidfile, ReadPidfile, GiveUp, ProbePid, Watch,
       Conclude, WatchdogStep
  <1>3. ASSUME NEW p \in Pushes, Hook(p) PROVE UNCHANGED <<result, pidfile, log>>
    <2>1. CASE RemoveResult(p)
      <3>1. result' = result
        BY <2>1 DEF RemoveResult, DiskInv
      <3>2. QED
        BY <2>1, <3>1 DEF RemoveResult
    <2>2. CASE RemovePidfile(p)
      <3>1. pidfile' = pidfile
        BY <2>2 DEF RemovePidfile, DiskInv
      <3>2. QED
        BY <2>2, <3>1 DEF RemovePidfile
    <2>3. CASE ~RemoveResult(p) /\ ~RemovePidfile(p)
      BY <1>3, <2>3 DEF Hook, Push, TruncateLog, TruncateWatchdogLog, SpawnGate, SpawnWatchdog,
         fileVars
    <2>4. QED
      BY <2>1, <2>2, <2>3
  <1>4. CASE Machine \/ UNCHANGED vars
    BY <1>4 DEF Machine, Tick, KillGate, KillWatchdog, ReusePid, FreePid, vars, fileVars
  <1>5. QED
    BY <1>2, <1>3, <1>4 DEF Next

\* The hook truncates the log before it spawns, and no step removes a log.
LEMMA DiskInvStep == TypeInv /\ DiskInv /\ [Next]_vars => DiskInv'
  <1> SUFFICES ASSUME TypeInv, DiskInv, [Next]_vars PROVE DiskInv'
    OBVIOUS
  <1>1. reused' \subseteq ReusablePids /\ evdir' = evdir
    <2>1. ASSUME NEW p \in Pushes, Hook(p) \/ Gate(p) \/ Watchdog(p)
          PROVE  reused' = reused /\ evdir' = evdir
      BY <2>1 DEF Hook, Push, RemoveResult, RemovePidfile, TruncateLog, TruncateWatchdogLog,
         SpawnGate, SpawnWatchdog, Gate, OpenPidfile, WritePid, RunCheck, OpenResult, WriteResult,
         MarkComplete, GateExit, Watchdog, Arm, PollPidfile, ReadPidfile, GiveUp, ProbePid, Watch,
         Conclude, envVars
    <2>2. CASE Machine \/ UNCHANGED vars
      BY <2>2 DEF Machine, Tick, KillGate, KillWatchdog, ReusePid, FreePid, vars, envVars, DiskInv
    <2>3. QED
      BY <2>1, <2>2 DEF Next, DiskInv
  <1>2. ASSUME NEW p \in Pushes,
               hookPc'[p] \in {"truncate_wdlog", "spawn_gate", "spawn_watchdog"}
                 \/ gatePc'[p] # "none"
        PROVE  evdir' /\ log'[Id(p)'].exists
    <2>1. Id(p)' = Id(p)
      BY SameIds
    <2>2. CASE evdir /\ log[Id(p)].exists
      <3>1. Spawns(req[p])
        BY <1>2, SameIds, HookOrderStep, TypeOKStep DEF HookOrder
      <3>2. Id(p) \in MarkerIds
        BY <3>1, IdIsMarker DEF TypeInv
      <3>3. QED
        BY <1>1, <2>1, <2>2, <3>2, LogStays
    <2>3. CASE TruncateLog(p) /\ evdir
      <3>1. Spawns(req[p]) /\ log \in [MarkerIds -> LogFile]
        BY <2>3 DEF TruncateLog, HookStep, TypeInv, HookOrder, TypeOK
      <3>2. Id(p) \in MarkerIds
        BY <3>1, IdIsMarker DEF TypeInv
      <3>3. log'[Id(p)].exists
        BY <2>3, <3>1, <3>2 DEF TruncateLog
      <3>4. QED
        BY <1>1, <2>1, <2>3, <3>3
    <2>4. QED
      BY <1>2, <2>2, <2>3, StartedHasLog
  <1>3. ~evdir' => /\ result' = [i \in MarkerIds |-> NoResult]
                   /\ pidfile' = [i \in MarkerIds |-> NoPidfile]
                   /\ log' = [i \in MarkerIds |-> NoLog]
    BY <1>1, NoDirectory DEF DiskInv
  <1>4. QED
    BY <1>1, <1>2, <1>3 DEF DiskInv

\* In every reachable state the gates that started have a log.
LEMMA DiskInvHolds == SystemSpec => []DiskInv
  <1>1. Init => DiskInv
    BY DEF Init, DiskInv
  <1>2. QED
    BY <1>1, DiskInvStep, SystemRunsTheGate, TypeCorrect, PTL DEF Spec
------------------------------------------------------------------------------
(* Gates that are over, or silent, when the scan comes by. *)

\* Before the scan starts it knows nothing.
BlankInv ==
  rdPc = "idle" => /\ gates = [i \in MarkerIds |-> Unlisted]
                   /\ pids = [i \in MarkerIds |-> "none"]
                   /\ overBefore = {}

\* No step but StartScan leaves the idle scan.
LEMMA BlankInvHolds == SystemSpec => []BlankInv
  <1>1. SystemInit => BlankInv
    BY DEF SystemInit, RdInit, BlankInv
  <1>2. BlankInv /\ [SystemNext]_allVars => BlankInv'
    <2> SUFFICES ASSUME BlankInv, [SystemNext]_allVars PROVE BlankInv'
      OBVIOUS
    <2>1. CASE UNCHANGED rdVars
      BY <2>1 DEF BlankInv, rdVars, histVars
    <2>2. CASE Scan
      <3>1. rdPc' # "idle"
        BY <2>2 DEF Scan, StartScan, ListPidfiles, ListLogs, Judge, ReadResult, ReadPidfileOf,
                    ReadLog, RdStep
      <3>2. QED
        BY <3>1 DEF BlankInv
    <2>3. QED
      BY <2>1, <2>2 DEF SystemNext, allVars
  <1>3. QED
    BY <1>1, <1>2, PTL DEF SystemSpec

\* When a gate with an id of its own is over, nobody writes its files any more.
LEMMA OverIsQuiet ==
  ASSUME TypeInv, [Next]_vars, NEW p \in Pushes, Sole(p), Gone(p)
  PROVE  /\ Gone(p)'
         /\ result'[Id(p)] = result[Id(p)]
         /\ pidfile'[Id(p)] = pidfile[Id(p)]
         /\ log'[Id(p)] = log[Id(p)]
  <1>1. Gone(p)'
    BY GateMovesOn DEF Gone
  <1>2. CASE Hook(p)
    <2>1. ~RemoveResult(p) /\ ~RemovePidfile(p) /\ ~TruncateLog(p)
      BY DEF RemoveResult, RemovePidfile, TruncateLog, HookStep, TypeInv, HookOrder, Gone
    <2>2. QED
      BY <1>1, <1>2, <2>1 DEF Hook, Push, TruncateWatchdogLog, SpawnGate, SpawnWatchdog, fileVars
  <1>3. ~Gate(p) /\ ~KillGate(p)
    BY DEF Gate, OpenPidfile, WritePid, RunCheck, OpenResult, WriteResult, MarkComplete, GateExit,
           GateStep, KillGate, GateProcess, Gone
  <1>4. CASE Watchdog(p) \/ KillWatchdog(p)
    BY <1>1, <1>4 DEF Watchdog, Arm, PollPidfile, ReadPidfile, GiveUp, ProbePid, Watch, Conclude,
       KillWatchdog, fileVars
  <1>5. CASE \E q \in Pushes \ {p} :
               Hook(q) \/ Gate(q) \/ Watchdog(q) \/ KillGate(q) \/ KillWatchdog(q)
    BY <1>1, <1>5, OthersElsewhere DEF Untouched
  <1>6. CASE UNCHANGED <<fileVars, hookVars, gateVars, wdVars>>
    BY <1>1, <1>6 DEF fileVars
  <1>7. QED
    BY <1>2, <1>3, <1>4, <1>5, <1>6, WhoMoves DEF vars

\* What the scan knows of a gate that died before it began.
DeadSeen(p) ==
  /\ rdPc \in {"results", "pids"} => gates[Id(p)].status = "unlisted"
  /\ rdPc = "pids" => Id(p) \in todo \/ pids[Id(p)] = p
  /\ rdPc = "logs" => /\ pids[Id(p)] = p
                      /\ \/ gates[Id(p)].status = "unlisted" /\ Id(p) \in todo
                         \/ gates[Id(p)].status = "DEAD"
  /\ rdPc = "reported" => gates[Id(p)].status \in {"DEAD", "SUPERSEDED"}

DiedWithPid(p) == pidfile[Id(p)].val = p /\ result[Id(p)].val = "absent"

DeadInv ==
  \A p \in overBefore :
    /\ Gone(p)
    /\ Sole(p) /\ p \notin ReusablePids /\ DiedWithPid(p) => DeadSeen(p)

\* What each step of the scan adds to it.
LEMMA DeadSeenStep ==
  ASSUME GateInv, DiskInv, RdTypeOK, Scan, UNCHANGED vars, ~StartScan,
         NEW p \in Pushes, Sole(p), Gone(p), p \notin ReusablePids, DiedWithPid(p), DeadSeen(p)
  PROVE  DeadSeen(p)'
  <1>1. /\ Id(p)' = Id(p) /\ Id(p) \in MarkerIds
        /\ gates \in [MarkerIds -> [status : Statuses, mtime : Nat]]
        /\ pids \in [MarkerIds -> Owners]
        /\ pidfile[Id(p)].val = p /\ result[Id(p)].val = "absent" /\ log[Id(p)].exists
        /\ ~Alive(p)
        /\ p # "none" /\ p # "absent"
    <2>1. Id(p)' = Id(p) /\ Id(p) \in MarkerIds
      BY SameIds, IdIsMarker DEF GateInv, TypeInv, Sole
    <2>2. log[Id(p)].exists /\ ~Alive(p)
      BY DEF DiskInv, Gone, Alive, GateProcess
    <2>3. p # "none" /\ p # "absent"
      BY NamesAssumption
    <2>4. QED
      BY <2>1, <2>2, <2>3 DEF RdTypeOK, DiedWithPid
  <1>2. ASSUME NEW i \in MarkerIds, ReadResult(i) PROVE DeadSeen(p)'
    <2>1. CASE i = Id(p)
      BY <1>1, <1>2, <2>1 DEF ReadResult, DeadSeen
    <2>2. CASE i # Id(p)
      BY <1>1, <1>2, <2>2 DEF ReadResult, DeadSeen
    <2>3. QED
      BY <2>1, <2>2
  <1>3. CASE ListPidfiles
    BY <1>1, <1>3 DEF ListPidfiles, RdStep, DeadSeen
  <1>4. ASSUME NEW i \in MarkerIds, ReadPidfileOf(i) PROVE DeadSeen(p)'
    <2>1. CASE i = Id(p)
      BY <1>1, <1>4, <2>1 DEF ReadPidfileOf, DeadSeen
    <2>2. CASE i # Id(p)
      BY <1>1, <1>4, <2>2 DEF ReadPidfileOf, DeadSeen
    <2>3. QED
      BY <2>1, <2>2
  <1>5. CASE ListLogs
    BY <1>1, <1>5 DEF ListLogs, RdStep, DeadSeen
  <1>6. ASSUME NEW i \in MarkerIds, ReadLog(i) PROVE DeadSeen(p)'
    <2>1. rdPc = "logs" /\ rdPc' = "logs" /\ pids' = pids /\ pids[Id(p)] = p
      BY <1>6 DEF ReadLog, DeadSeen
    <2>2. LogStatus(Id(p)) = "DEAD"
      BY <1>1, <2>1 DEF LogStatus, Alive
    <2>3. CASE i = Id(p)
      <3>1. CASE gates[i].status = "unlisted"
        <4>1. gates'[i].status = "DEAD"
          BY <1>1, <1>6, <2>2, <2>3, <3>1 DEF ReadLog, Listed
        <4>2. QED
          BY <1>1, <2>1, <2>3, <4>1 DEF DeadSeen
      <3>2. CASE gates[i].status # "unlisted"
        BY <1>1, <1>6, <2>1, <2>3, <3>2 DEF ReadLog, Listed, DeadSeen
      <3>3. QED
        BY <3>1, <3>2
    <2>4. CASE i # Id(p)
      BY <1>1, <1>6, <2>1, <2>4 DEF ReadLog, DeadSeen
    <2>5. QED
      BY <2>3, <2>4
  <1>7. CASE Judge
    <2>1. gates[Id(p)].status = "DEAD" /\ rdPc' = "reported" /\ gates' = MarkSuperseded(gates)
      BY <1>7 DEF Judge, RdStep, DeadSeen
    <2>2. gates'[Id(p)].status \in {"DEAD", "SUPERSEDED"}
      BY <1>1, <2>1 DEF MarkSuperseded
    <2>3. QED
      BY <1>1, <2>1, <2>2 DEF DeadSeen
  <1>8. QED
    BY <1>2, <1>3, <1>4, <1>5, <1>6, <1>7 DEF Scan

\* The files of a gate that is over are left alone, so what the scan read of them stays true.
LEMMA DeadInvStep ==
  GateInv /\ DiskInv /\ RdTypeOK /\ BlankInv /\ DeadInv /\ [SystemNext]_allVars => DeadInv'
  <1> SUFFICES ASSUME GateInv, DiskInv, RdTypeOK, BlankInv, DeadInv, [SystemNext]_allVars,
                      NEW p \in overBefore'
               PROVE  /\ Gone(p)'
                      /\ Sole(p)' /\ p \notin ReusablePids /\ DiedWithPid(p)' => DeadSeen(p)'
    BY DEF DeadInv
  <1>1. [Next]_vars /\ TypeInv
    BY DEF SystemNext, allVars, GateInv
  <1>2. CASE UNCHANGED rdVars
    <2>1. p \in overBefore /\ p \in Pushes /\ Gone(p)
      BY <1>2 DEF rdVars, histVars, DeadInv, RdTypeOK
    <2>2. Gone(p)'
      BY <1>1, <2>1, GateMovesOn DEF Gone
    <2>3. ASSUME Sole(p)', p \notin ReusablePids, DiedWithPid(p)' PROVE DeadSeen(p)'
      <3>1. Sole(p) /\ Id(p)' = Id(p)
        BY <1>1, <2>1, <2>3, SameIds, SoleIsRigid
      <3>2. DiedWithPid(p)
        BY <1>1, <2>1, <2>3, <3>1, OverIsQuiet DEF DiedWithPid
      <3>3. DeadSeen(p)
        BY <2>1, <2>3, <3>1, <3>2 DEF DeadInv
      <3>4. QED
        BY <1>2, <3>1, <3>3 DEF DeadSeen, rdVars
    <2>4. QED
      BY <2>2, <2>3
  <1>3. CASE StartScan /\ UNCHANGED vars
    <2>1. p \in Pushes /\ Gone(p) /\ gatePc' = gatePc
      BY <1>3 DEF StartScan, Gone, vars, gateVars
    <2>2. ASSUME Sole(p)' PROVE DeadSeen(p)'
      <3>1. Id(p)' = Id(p) /\ Id(p) \in MarkerIds
        BY <1>1, <2>1, <2>2, SameIds, SoleIsRigid, IdIsMarker DEF TypeInv, Sole
      <3>2. gates'[Id(p)].status = "unlisted" /\ rdPc' = "results"
        BY <1>3, <3>1 DEF StartScan, RdStep, BlankInv, Unlisted
      <3>3. QED
        BY <3>1, <3>2 DEF DeadSeen
    <2>3. QED
      BY <2>1, <2>2 DEF Gone
  <1>4. CASE Scan /\ ~StartScan /\ UNCHANGED vars
    <2>1. p \in overBefore /\ p \in Pushes /\ Gone(p) /\ Gone(p)'
      <3>1. overBefore' = overBefore
        BY <1>4 DEF Scan, ReadResult, ListPidfiles, ReadPidfileOf, ListLogs, ReadLog, Judge, histVars
      <3>2. QED
        BY <1>4, <3>1 DEF DeadInv, RdTypeOK, Gone, vars, gateVars
    <2>2. ASSUME Sole(p)', p \notin ReusablePids, DiedWithPid(p)' PROVE DeadSeen(p)'
      <3>1. Sole(p) /\ Id(p)' = Id(p)
        BY <1>1, <2>1, <2>2, SameIds, SoleIsRigid
      <3>2. DiedWithPid(p)
        BY <1>4, <2>2, <3>1 DEF DiedWithPid, vars, fileVars
      <3>3. DeadSeen(p)
        BY <2>1, <2>2, <3>1, <3>2 DEF DeadInv
      <3>4. QED
        BY <1>4, <2>1, <2>2, <3>1, <3>2, <3>3, DeadSeenStep
    <2>3. QED
      BY <2>1, <2>2
  <1>5. QED
    BY <1>2, <1>3, <1>4 DEF SystemNext, allVars

\* What the scan knows of gates that were over when it began is right in every reachable state.
LEMMA DeadInvHolds == SystemSpec => []DeadInv
  <1>1. SystemInit => DeadInv
    BY DEF SystemInit, RdInit, DeadInv
  <1>2. QED
    BY <1>1, DeadInvStep, GateInvHolds, DiskInvHolds, ScanIsTyped, BlankInvHolds, PTL
    DEF SystemSpec

\* What the scan knows of a gate that was over with its verdict on disk when it began.
VerdictKnown(p) ==
  /\ rdPc = "results" => Id(p) \in todo \/ gates[Id(p)].status = result[Id(p)].val
  /\ rdPc \in {"pids", "logs"} => gates[Id(p)].status = result[Id(p)].val
  /\ rdPc = "reported" => gates[Id(p)].status \in {result[Id(p)].val, "SUPERSEDED"}

VerdictInv ==
  \A p \in overBefore : Sole(p) /\ result[Id(p)].val \in Verdicts => VerdictKnown(p)

\* What each step of the scan adds to it: its result is read before the logs are, and an
\* id that is listed keeps what was read of it.
LEMMA VerdictKnownStep ==
  ASSUME GateInv, RdTypeOK, Scan, UNCHANGED vars, ~StartScan,
         NEW p \in Pushes, Sole(p), result[Id(p)].val \in Verdicts, VerdictKnown(p)
  PROVE  VerdictKnown(p)'
  <1>1. /\ Id(p)' = Id(p) /\ Id(p) \in MarkerIds
        /\ gates \in [MarkerIds -> [status : Statuses, mtime : Nat]]
        /\ result' = result
        /\ StatusOf(result[Id(p)].val) = result[Id(p)].val
        /\ result[Id(p)].val \notin {"absent", "unlisted"}
    <2>1. Id(p)' = Id(p) /\ Id(p) \in MarkerIds
      BY SameIds, IdIsMarker DEF GateInv, TypeInv, Sole
    <2>2. QED
      BY <2>1 DEF RdTypeOK, vars, fileVars, StatusOf, Verdicts
  <1>2. ASSUME NEW i \in MarkerIds, ReadResult(i) PROVE VerdictKnown(p)'
    <2>1. CASE i = Id(p)
      BY <1>1, <1>2, <2>1 DEF ReadResult, ResultEntry, VerdictKnown
    <2>2. CASE i # Id(p)
      BY <1>1, <1>2, <2>2 DEF ReadResult, VerdictKnown
    <2>3. QED
      BY <2>1, <2>2
  <1>3. CASE ListPidfiles
    BY <1>1, <1>3 DEF ListPidfiles, RdStep, VerdictKnown
  <1>4. ASSUME NEW i \in MarkerIds, ReadPidfileOf(i) PROVE VerdictKnown(p)'
    BY <1>1, <1>4 DEF ReadPidfileOf, VerdictKnown
  <1>5. CASE ListLogs
    BY <1>1, <1>5 DEF ListLogs, RdStep, VerdictKnown
  <1>6. ASSUME NEW i \in MarkerIds, ReadLog(i) PROVE VerdictKnown(p)'
    <2>1. gates[Id(p)].status = result[Id(p)].val /\ Id(p) \in Listed(gates)
      BY <1>1, <1>6 DEF ReadLog, Listed, VerdictKnown
    <2>2. gates'[Id(p)] = gates[Id(p)] /\ rdPc' = "logs"
      BY <1>1, <1>6, <2>1 DEF ReadLog
    <2>3. QED
      BY <1>1, <2>1, <2>2 DEF VerdictKnown
  <1>7. CASE Judge
    <2>1. /\ gates[Id(p)].status = result[Id(p)].val
          /\ rdPc' = "reported" /\ gates' = MarkSuperseded(gates)
      BY <1>7 DEF Judge, RdStep, VerdictKnown
    <2>2. gates'[Id(p)].status \in {result[Id(p)].val, "SUPERSEDED"}
      BY <1>1, <2>1 DEF MarkSuperseded
    <2>3. QED
      BY <1>1, <2>1, <2>2 DEF VerdictKnown
  <1>8. QED
    BY <1>2, <1>3, <1>4, <1>5, <1>6, <1>7 DEF Scan

\* A verdict of a gate that is over stays on disk, so what the scan read of it stays true.
LEMMA VerdictInvStep ==
  GateInv /\ RdTypeOK /\ BlankInv /\ DeadInv /\ VerdictInv /\ [SystemNext]_allVars => VerdictInv'
  <1> SUFFICES ASSUME GateInv, RdTypeOK, BlankInv, DeadInv, VerdictInv, [SystemNext]_allVars,
                      NEW p \in overBefore', Sole(p)', result'[Id(p)'].val \in Verdicts
               PROVE  VerdictKnown(p)'
    BY DEF VerdictInv
  <1>1. [Next]_vars /\ TypeInv
    BY DEF SystemNext, allVars, GateInv
  <1>2. CASE UNCHANGED rdVars
    <2>1. p \in overBefore /\ p \in Pushes /\ Gone(p)
      BY <1>2 DEF rdVars, histVars, DeadInv, RdTypeOK
    <2>2. Sole(p) /\ Id(p)' = Id(p)
      BY <1>1, <2>1, SameIds, SoleIsRigid
    <2>3. result'[Id(p)] = result[Id(p)]
      BY <1>1, <2>1, <2>2, OverIsQuiet
    <2>4. VerdictKnown(p)
      BY <2>1, <2>2, <2>3 DEF VerdictInv
    <2>5. QED
      BY <1>2, <2>2, <2>3, <2>4 DEF VerdictKnown, rdVars
  <1>3. CASE StartScan /\ UNCHANGED vars
    <2>1. p \in Pushes
      BY <1>3 DEF StartScan
    <2>2. Id(p)' = Id(p) /\ Id(p) \in MarkerIds
      BY <1>1, <2>1, SameIds, SoleIsRigid, IdIsMarker DEF TypeInv, Sole
    <2>3. result[Id(p)].val # "absent"
      BY <1>3, <2>2 DEF vars, fileVars, Verdicts
    <2>4. Id(p) \in todo' /\ rdPc' = "results"
      BY <1>3, <2>2, <2>3 DEF StartScan, RdStep
    <2>5. QED
      BY <2>2, <2>4 DEF VerdictKnown
  <1>4. CASE Scan /\ ~StartScan /\ UNCHANGED vars
    <2>1. overBefore' = overBefore
      BY <1>4 DEF Scan, ReadResult, ListPidfiles, ReadPidfileOf, ListLogs, ReadLog, Judge, histVars
    <2>2. p \in overBefore /\ p \in Pushes
      BY <2>1 DEF RdTypeOK
    <2>3. Sole(p) /\ Id(p)' = Id(p)
      BY <1>1, <2>2, SameIds, SoleIsRigid
    <2>4. result[Id(p)].val \in Verdicts
      BY <1>4, <2>3 DEF vars, fileVars
    <2>5. VerdictKnown(p)
      BY <2>2, <2>3, <2>4 DEF VerdictInv
    <2>6. QED
      BY <1>4, <2>2, <2>3, <2>4, <2>5, VerdictKnownStep
  <1>5. QED
    BY <1>2, <1>3, <1>4 DEF SystemNext, allVars

\* A gate with an id of its own that was over before the scan is reported by the verdict
\* it left on disk, or, if it left its pid and no result and nobody reuses the pid, as DEAD,
\* unless it is superseded, whatever else the scan races with.
THEOREM TheOverAreReported == SystemSpec => []OverIsReported
  <1>1. SystemInit => VerdictInv
    BY DEF SystemInit, RdInit, VerdictInv
  <1>2. SystemSpec => []VerdictInv
    BY <1>1, VerdictInvStep, GateInvHolds, ScanIsTyped, BlankInvHolds, DeadInvHolds, PTL
    DEF SystemSpec
  <1>3. DeadInv /\ VerdictInv => OverIsReported
    BY DEF DeadInv, DeadSeen, DiedWithPid, VerdictInv, VerdictKnown, OverIsReported
  <1>4. QED
    BY <1>2, <1>3, DeadInvHolds, PTL

\* Who is silent after a step of the scripts was so before it, with the same log: a write
\* would have given it an mtime that is not older than the scan.
LEMMA SilentBefore ==
  ASSUME GateInv, RdTypeOK, [Next]_vars, rdNow' = rdNow, NEW p \in Pushes, Sole(p), Silent(p)'
  PROVE  Silent(p) /\ log'[Id(p)] = log[Id(p)]
  <1>1. /\ TypeInv /\ Private(p)
        /\ Id(p)' = Id(p) /\ Id(p) \in MarkerIds
        /\ now \in Nat /\ rdNow \in 0..now /\ StaleTicks \in Nat
        /\ result \in [MarkerIds -> ResultFile]
        /\ log \in [MarkerIds -> LogFile]
        /\ gatePc \in [Pushes -> GatePcs]
    BY SameIds, IdIsMarker DEF GateInv, SoleInv, TypeInv, TypeOK, RdTypeOK, Sole
  <1>2. log'[Id(p)].exists /\ result'[Id(p)].val = "absent" /\ rdNow > log'[Id(p)].mtime + StaleTicks
    BY <1>1 DEF Silent
  <1>3. log'[Id(p)].mtime # now
    <2>1. ASSUME log'[Id(p)].mtime = now PROVE FALSE
      BY <1>1, <1>2, <2>1
    <2>2. QED
      BY <2>1
  <1>4. SUFFICES result[Id(p)].val = "absent" /\ log'[Id(p)] = log[Id(p)]
    BY <1>2 DEF Silent
  <1>5. CASE Hook(p)
    <2>1. CASE RemoveResult(p)
      <3>1. gatePc[p] = "none" /\ log' = log
        BY <1>1, <2>1 DEF RemoveResult, HookStep, TypeInv, HookOrder
      <3>2. QED
        BY <1>1, <3>1 DEF Private
    <2>2. CASE TruncateLog(p)
      <3>1. CASE evdir
        BY <1>1, <1>3, <2>2, <3>1 DEF TruncateLog
      <3>2. CASE ~evdir
        BY <1>2, <2>2, <3>2 DEF TruncateLog, fileVars
      <3>3. QED
        BY <3>1, <3>2
    <2>3. CASE ~RemoveResult(p) /\ ~TruncateLog(p)
      BY <1>2, <1>5, <2>3 DEF Hook, Push, RemovePidfile, TruncateWatchdogLog, SpawnGate,
         SpawnWatchdog, fileVars
    <2>4. QED
      BY <2>1, <2>2, <2>3
  <1>6. CASE Gate(p)
    <2>1. ~RunCheck(p) /\ ~MarkComplete(p)
      <3>1. ASSUME RunCheck(p) \/ MarkComplete(p) PROVE log'[Id(p)].mtime = now
        <4>1. \/ log' = [log EXCEPT ![Id(p)].mtime = now]
              \/ log' = [log EXCEPT ![Id(p)].done = TRUE, ![Id(p)].mtime = now]
          BY <3>1 DEF RunCheck, MarkComplete
        <4>2. QED
          BY <1>1, <4>1 DEF LogFile
      <3>2. QED
        BY <1>3, <3>1
    <2>2. ~OpenResult(p)
      <3>1. ASSUME OpenResult(p) PROVE result'[Id(p)].val = "empty"
        BY <1>1, <3>1 DEF OpenResult
      <3>2. QED
        BY <1>2, <3>1
    <2>3. CASE WriteResult(p)
      <3>1. log' = log /\ verdict[p] \in Verdicts
        BY <1>1, <2>3 DEF WriteResult, GateStep, TypeInv, GateProgress
      <3>2. result'[Id(p)].val \in {result[Id(p)].val, verdict[p]}
        BY <1>1, <2>3 DEF WriteResult, ResultFile
      <3>3. QED
        BY <1>2, <3>1, <3>2 DEF Verdicts
    <2>4. CASE ~WriteResult(p)
      BY <1>2, <1>6, <2>1, <2>2, <2>4 DEF Gate, OpenPidfile, WritePid, GateExit, fileVars
    <2>5. QED
      BY <2>3, <2>4
  <1>7. CASE Watchdog(p) \/ KillGate(p) \/ KillWatchdog(p)
    BY <1>2, <1>7 DEF Watchdog, Arm, PollPidfile, ReadPidfile, GiveUp, ProbePid, Watch, Conclude,
       KillGate, KillWatchdog, fileVars
  <1>8. CASE \E q \in Pushes \ {p} :
               Hook(q) \/ Gate(q) \/ Watchdog(q) \/ KillGate(q) \/ KillWatchdog(q)
    BY <1>1, <1>2, <1>8, OthersElsewhere DEF Untouched
  <1>9. CASE UNCHANGED <<fileVars, hookVars, gateVars, wdVars>>
    BY <1>2, <1>9 DEF fileVars
  <1>10. QED
    BY <1>5, <1>6, <1>7, <1>8, <1>9, WhoMoves DEF vars

\* What the scan knows of a silent gate.
SilentSeen(p) ==
  /\ rdPc \in {"results", "pids"} => gates[Id(p)].status = "unlisted"
  /\ rdPc = "logs" =>
       \/ gates[Id(p)].status = "unlisted" /\ Id(p) \in todo
       \/ gates[Id(p)].status \in {"RUNNING", "DEAD"} /\ gates[Id(p)].mtime = log[Id(p)].mtime
  /\ rdPc = "reported" /\ Id(p) \in Newest(gates) => exit = 1

SilentInv == \A p \in Pushes : rdPc # "idle" /\ Sole(p) /\ Silent(p) => SilentSeen(p)

\* What each step of the scan adds to what it knows of a silent gate.
LEMMA SilentSeenStep ==
  ASSUME GateInv, RdTypeOK, Scan, UNCHANGED vars, ~StartScan,
         NEW p \in Pushes, Sole(p), Silent(p), SilentSeen(p)
  PROVE  SilentSeen(p)'
  <1>1. /\ Id(p)' = Id(p) /\ Id(p) \in MarkerIds
        /\ log' = log
        /\ gates \in [MarkerIds -> [status : Statuses, mtime : Nat]]
        /\ log[Id(p)].exists /\ result[Id(p)].val = "absent"
        /\ rdNow > log[Id(p)].mtime + StaleTicks
    BY SameIds, IdIsMarker DEF GateInv, TypeInv, Sole, RdTypeOK, Silent, vars, fileVars
  <1>2. ASSUME NEW i \in MarkerIds, ReadResult(i) PROVE SilentSeen(p)'
    <2>1. CASE i = Id(p)
      BY <1>1, <1>2, <2>1 DEF ReadResult, SilentSeen
    <2>2. CASE i # Id(p)
      BY <1>1, <1>2, <2>2 DEF ReadResult, SilentSeen
    <2>3. QED
      BY <2>1, <2>2
  <1>3. CASE ListPidfiles \/ ListLogs \/ \E i \in MarkerIds : ReadPidfileOf(i)
    BY <1>1, <1>3 DEF ListPidfiles, ListLogs, ReadPidfileOf, RdStep, SilentSeen
  <1>4. ASSUME NEW i \in MarkerIds, ReadLog(i) PROVE SilentSeen(p)'
    <2>1. rdPc = "logs" /\ rdPc' = "logs" /\ todo' = todo \ {i}
      BY <1>4 DEF ReadLog
    <2>2. CASE gates'[Id(p)] = gates[Id(p)] /\ i # Id(p)
      BY <1>1, <2>1, <2>2 DEF SilentSeen
    <2>3. CASE gates'[Id(p)] = gates[Id(p)] /\ Id(p) \in Listed(gates)
      BY <1>1, <2>1, <2>3 DEF SilentSeen, Listed
    <2>4. CASE i = Id(p) /\ Id(p) \notin Listed(gates)
      <3>1. gates'[Id(p)] = [status |-> LogStatus(Id(p)), mtime |-> log[Id(p)].mtime]
        BY <1>1, <1>4, <2>4 DEF ReadLog
      <3>2. LogStatus(Id(p)) \in {"RUNNING", "DEAD"}
        BY DEF LogStatus
      <3>3. QED
        BY <1>1, <2>1, <3>1, <3>2 DEF SilentSeen
    <2>5. gates'[Id(p)] = gates[Id(p)] \/ (i = Id(p) /\ Id(p) \notin Listed(gates))
      <3>1. \/ gates' = gates
            \/ /\ i \notin Listed(gates)
               /\ gates' = [gates EXCEPT ![i] = [status |-> LogStatus(i), mtime |-> log[i].mtime]]
        BY <1>4 DEF ReadLog
      <3>2. QED
        BY <1>1, <3>1
    <2>6. QED
      BY <1>4, <2>2, <2>3, <2>4, <2>5 DEF ReadLog
  <1>5. CASE Judge
    <2>1. /\ gates[Id(p)].status \in {"RUNNING", "DEAD"}
          /\ gates[Id(p)].mtime = log[Id(p)].mtime
          /\ rdPc' = "reported" /\ gates' = MarkSuperseded(gates)
      BY <1>5 DEF Judge, RdStep, SilentSeen
    <2>2. Id(p) \in Newest(gates') => gates'[Id(p)] = gates[Id(p)]
      BY <1>1, <2>1, MarkedNewest, MarkedStatus
    <2>3. Failing(gates[Id(p)], rdNow)
      BY <1>1, <2>1 DEF Failing
    <2>4. Id(p) \in Newest(gates') => exit' = 1
      BY <1>1, <1>5, <2>2, <2>3 DEF Judge
    <2>5. Newest(gates)' = Newest(gates')
      BY DEF Newest, Listed, Newer
    <2>6. QED
      BY <1>1, <2>1, <2>4, <2>5 DEF SilentSeen
  <1>6. QED
    BY <1>2, <1>3, <1>4, <1>5 DEF Scan

\* Who is silent was so at every earlier step of the scan, which therefore sees it.
LEMMA SilentInvStep ==
  GateInv /\ RdTypeOK /\ BlankInv /\ SilentInv /\ [SystemNext]_allVars => SilentInv'
  <1> SUFFICES ASSUME GateInv, RdTypeOK, BlankInv, SilentInv, [SystemNext]_allVars,
                      NEW p \in Pushes, rdPc' # "idle", Sole(p)', Silent(p)'
               PROVE  SilentSeen(p)'
    BY DEF SilentInv
  <1>1. /\ [Next]_vars /\ TypeInv
        /\ Sole(p) /\ Id(p)' = Id(p) /\ Id(p) \in MarkerIds
    BY SameIds, SoleIsRigid, IdIsMarker DEF SystemNext, allVars, GateInv, TypeInv, Sole
  <1>2. CASE UNCHANGED rdVars
    <2>1. Silent(p) /\ log'[Id(p)] = log[Id(p)]
      BY <1>1, <1>2, SilentBefore DEF rdVars
    <2>2. SilentSeen(p)
      BY <1>1, <1>2, <2>1 DEF SilentInv, rdVars
    <2>3. QED
      BY <1>1, <1>2, <2>1, <2>2 DEF SilentSeen, rdVars, Newest, Listed, Newer
  <1>3. CASE StartScan /\ UNCHANGED vars
    <2>1. gates'[Id(p)].status = "unlisted" /\ rdPc' = "results"
      BY <1>1, <1>3 DEF StartScan, RdStep, BlankInv, Unlisted
    <2>2. QED
      BY <1>1, <2>1 DEF SilentSeen
  <1>4. CASE Scan /\ ~StartScan /\ UNCHANGED vars
    <2>1. rdNow' = rdNow /\ rdPc # "idle"
      BY <1>4 DEF Scan, ReadResult, ListPidfiles, ReadPidfileOf, ListLogs, ReadLog, Judge, RdStep
    <2>2. Silent(p)
      BY <1>1, <2>1, SilentBefore
    <2>3. QED
      BY <1>1, <1>4, <2>1, <2>2, SilentSeenStep DEF SilentInv
  <1>5. QED
    BY <1>2, <1>3, <1>4 DEF SystemNext, allVars

\* A marker of an id of its own turns the exit code to 1 if its FAIL was on disk when the
\* scan began, or if it has no result and its log is older than the limit, dead or not and
\* whoever owns its pid by now, unless the scan itself found a newer marker of that repo.
THEOREM FailuresAreReported == SystemSpec => []FailureIsReported
  <1>1. SystemInit => SilentInv
    BY DEF SystemInit, RdInit, SilentInv
  <1>2. SystemSpec => []SilentInv
    BY <1>1, SilentInvStep, GateInvHolds, ScanIsTyped, BlankInvHolds, PTL DEF SystemSpec
  <1>3. RedInv /\ SilentInv => FailureIsReported
    BY DEF RedInv, RedStays, SilentInv, SilentSeen, FailureIsReported
  <1>4. QED
    BY <1>2, <1>3, RedInvHolds, PTL
------------------------------------------------------------------------------
(* A scan during which nothing runs. *)

\* Nothing ran since the scan began, or nothing could be written all along.
Calm == Settled \/ ~evdir

\* If all is calm after a step of the scripts it was before, and nothing was written.
LEMMA CalmBefore ==
  ASSUME GateInv, DiskInv, RdTypeOK, DeadInv, [Next]_vars, overBefore' = overBefore, Calm'
  PROVE  Calm /\ UNCHANGED <<result, pidfile, log>>
  <1>1. TypeInv /\ hookPc \in [Pushes -> HookPcs] /\ gatePc \in [Pushes -> GatePcs] /\ evdir' = evdir
    <2>1. ASSUME NEW p \in Pushes, Hook(p) \/ Gate(p) \/ Watchdog(p) PROVE evdir' = evdir
      BY <2>1 DEF Hook, Push, RemoveResult, RemovePidfile, TruncateLog, TruncateWatchdogLog,
         SpawnGate, SpawnWatchdog, Gate, OpenPidfile, WritePid, RunCheck, OpenResult, WriteResult,
         MarkComplete, GateExit, Watchdog, Arm, PollPidfile, ReadPidfile, GiveUp, ProbePid, Watch,
         Conclude, envVars
    <2>2. ASSUME Machine \/ UNCHANGED vars PROVE evdir' = evdir
      BY <2>2 DEF Machine, Tick, KillGate, KillWatchdog, ReusePid, FreePid, vars, envVars
    <2>3. QED
      BY <2>1, <2>2 DEF Next, GateInv, TypeInv, TypeOK
  <1>2. CASE ~evdir
    BY <1>1, <1>2, NoDirectory DEF Calm
  <1>3. CASE evdir
    <2>1. ASSUME NEW p \in Pushes
          PROVE  \/ Gone(p)
                 \/ gatePc'[p] = "none" /\ hookPc'[p] \in {"idle", "accepted", "rejected"}
      BY <1>1, <1>3 DEF Calm, Settled, DeadInv
    <2>2. ASSUME NEW p \in Pushes, Gone(p) PROVE hookPc[p] \in {"spawn_watchdog", "accepted"}
      BY <1>1, <2>2 DEF Gone, TypeInv, HookOrder
    <2>3. ASSUME NEW p \in Pushes, Hook(p) PROVE Push(p) \/ SpawnWatchdog(p)
      BY <1>1, <1>3, <2>1, <2>2, <2>3 DEF Hook, RemoveResult, RemovePidfile, TruncateLog,
         TruncateWatchdogLog, SpawnGate, HookStep, HookPcs, Gone
    <2>4. ASSUME NEW p \in Pushes PROVE ~Gate(p) /\ ~KillGate(p)
      <3>1. ASSUME Gate(p) \/ KillGate(p) PROVE gatePc[p] \in GateProcess
        BY <3>1 DEF Gate, OpenPidfile, WritePid, RunCheck, OpenResult, WriteResult, MarkComplete,
                    GateExit, GateStep, KillGate, GateProcess
      <3>2. gatePc[p] \in GateProcess => gatePc'[p] # "none" /\ ~Gone(p)
        BY <1>1, GateMovesOn DEF GateProcess, Gone
      <3>3. QED
        BY <2>1, <3>1, <3>2
    <2>5. UNCHANGED <<result, pidfile, log, gatePc>>
      <3>1. ASSUME NEW p \in Pushes, Hook(p) \/ Watchdog(p)
            PROVE  UNCHANGED <<result, pidfile, log, gatePc>>
        BY <2>3, <3>1 DEF Push, SpawnWatchdog, Watchdog, Arm, PollPidfile, ReadPidfile, GiveUp,
           ProbePid, Watch, Conclude, fileVars, gateVars
      <3>2. CASE Machine \/ UNCHANGED vars
        BY <2>4, <3>2 DEF Machine, Tick, KillWatchdog, ReusePid, FreePid, vars, fileVars, gateVars
      <3>3. QED
        BY <2>4, <3>1, <3>2 DEF Next
    <2>6. ASSUME NEW p \in Pushes
          PROVE  \/ p \in overBefore
                 \/ gatePc[p] = "none" /\ hookPc[p] \in {"idle", "accepted", "rejected"}
      <3>1. CASE p \in overBefore
        BY <3>1
      <3>2. CASE p \notin overBefore
        <4>1. gatePc[p] = "none" /\ hookPc'[p] \in {"idle", "accepted", "rejected"}
          BY <1>1, <1>3, <2>5, <3>2 DEF Calm, Settled
        <4>2. CASE hookPc'[p] = hookPc[p]
          BY <4>1, <4>2
        <4>3. CASE hookPc'[p] # hookPc[p]
          <5>1. PICK q \in Pushes : Hook(q)
            <6>1. ASSUME NEW q \in Pushes, Watchdog(q) PROVE hookPc' = hookPc
              BY <6>1 DEF Watchdog, Arm, PollPidfile, ReadPidfile, GiveUp, ProbePid, Watch,
                          Conclude, hookVars
            <6>2. CASE Machine \/ UNCHANGED vars
              BY <4>3, <6>2 DEF Machine, Tick, KillGate, KillWatchdog, ReusePid, FreePid, vars,
                 hookVars
            <6>3. QED
              BY <2>4, <4>3, <6>1, <6>2 DEF Next
          <5>2. q = p
            BY <1>1, <2>3, <4>3, <5>1 DEF Push, SpawnWatchdog, HookStep
          <5>3. ~SpawnWatchdog(p)
            BY <1>1, <4>1 DEF SpawnWatchdog, HookStep, TypeInv, HookOrder
          <5>4. hookPc[p] = "idle"
            BY <2>3, <5>1, <5>2, <5>3 DEF Push, HookStep
          <5>5. QED
            BY <4>1, <5>4
        <4>4. QED
          BY <4>2, <4>3
      <3>3. QED
        BY <3>1, <3>2
    <2>7. Settled
      BY <2>6 DEF Settled
    <2>8. QED
      BY <2>5, <2>7 DEF Calm
  <1>4. QED
    BY <1>2, <1>3

\* What a marker without a result and with a log is to a scan, when no gate runs.
LogEntry(i) == [status |-> IF pidfile[i].val \in Pushes THEN "DEAD" ELSE "RUNNING",
                mtime |-> log[i].mtime]

Collected(i) == IF result[i].val # "absent" THEN ResultEntry(i)
                ELSE IF log[i].exists THEN LogEntry(i) ELSE Unlisted

\* When it is calm nobody has a pid that is on disk.
LEMMA CalmPids ==
  ASSUME GateInv, DiskInv, DeadInv, RdTypeOK, Calm, ReusablePids = {},
         NEW i \in MarkerIds, pidfile[i].val \in Pushes
  PROVE  ~Alive(pidfile[i].val)
  <1> DEFINE q == pidfile[i].val
  <1>1. gatePc[q] # "none"
    BY DEF GateInv, WatchInv, PidsAreStarted
  <1>2. evdir
    BY <1>1 DEF DiskInv
  <1>3. q \in overBefore
    BY <1>1, <1>2 DEF Calm, Settled
  <1>4. Gone(q) /\ reused = {}
    BY <1>3 DEF DeadInv, DiskInv
  <1>5. QED
    BY <1>4 DEF Alive, Gone, GateProcess

\* One look at the directory would collect the same.
LEMMA CalmSnapshot ==
  ASSUME GateInv, DiskInv, DeadInv, RdTypeOK, Calm, ReusablePids = {}
  PROVE  Snapshot = [i \in MarkerIds |-> Collected(i)]
  <1>1. ASSUME NEW i \in MarkerIds
        PROVE  Snapshot[i] = Collected(i)
    <2>1. result[i].val \in {"absent", "empty"} \union Verdicts
      BY DEF GateInv, TypeInv, TypeOK, ResultFile
    <2>2. CASE result[i].val \in Verdicts
      BY <2>2 DEF Snapshot, Collected, ResultEntry, StatusOf, Verdicts
    <2>3. CASE result[i].val = "empty"
      BY <2>3 DEF Snapshot, Collected, ResultEntry, StatusOf, Verdicts
    <2>4. CASE result[i].val = "absent" /\ ~log[i].exists
      BY <2>4 DEF Snapshot, Collected, Verdicts
    <2>5. CASE result[i].val = "absent" /\ log[i].exists
      <3>1. Snapshot[i] = [status |-> IF pidfile[i].val \in Pushes /\ ~Alive(pidfile[i].val)
                                      THEN "DEAD" ELSE "RUNNING",
                           mtime |-> log[i].mtime]
        BY <2>5 DEF Snapshot, Verdicts
      <3>2. QED
        BY <2>5, <3>1, CalmPids DEF Collected, LogEntry
    <2>6. QED
      BY <2>1, <2>2, <2>3, <2>4, <2>5
  <1>2. QED
    BY <1>1 DEF Snapshot

\* The pid that a pidfile gives a scan.
PidOf(i) == IF pidfile[i].val \in Pushes THEN pidfile[i].val ELSE "none"

\* What a scan has collected so far if nothing ran meanwhile.
SnapSeen ==
  /\ rdPc = "results" => \A i \in MarkerIds :
       /\ gates[i] = IF result[i].val # "absent" /\ i \notin todo THEN ResultEntry(i) ELSE Unlisted
       /\ pids[i] = "none"
  /\ rdPc = "pids" => \A i \in MarkerIds :
       /\ gates[i] = IF result[i].val # "absent" THEN ResultEntry(i) ELSE Unlisted
       /\ pids[i] = IF i \in todo THEN "none" ELSE PidOf(i)
  /\ rdPc = "logs" => \A i \in MarkerIds :
       /\ i \in todo => log[i].exists
       /\ gates[i] = IF result[i].val # "absent" \/ i \notin todo THEN Collected(i) ELSE Unlisted
       /\ pids[i] = PidOf(i)
  /\ rdPc = "reported" => gates = MarkSuperseded([i \in MarkerIds |-> Collected(i)])

SnapInv == rdPc # "idle" /\ Calm /\ ReusablePids = {} => SnapSeen

\* A marker with a result is listed.
LEMMA ResultIsListed ==
  ASSUME TypeInv, NEW i \in MarkerIds, result[i].val # "absent"
  PROVE  ResultEntry(i).status # "unlisted"
  BY DEF TypeInv, TypeOK, ResultFile, Verdicts, ResultEntry, StatusOf

\* Every step of the scan goes on collecting what the directory holds.
LEMMA SnapSeenStep ==
  ASSUME GateInv, DiskInv, DeadInv, RdTypeOK, Calm, ReusablePids = {},
         Scan, ~StartScan, UNCHANGED vars, SnapSeen
  PROVE  SnapSeen'
  <1>1. /\ UNCHANGED <<result, pidfile, log>>
        /\ gates \in [MarkerIds -> [status : Statuses, mtime : Nat]]
        /\ pids \in [MarkerIds -> Owners]
        /\ "none" \notin Pushes /\ "absent" \notin Pushes
        /\ TypeInv
    BY NamesAssumption DEF vars, fileVars, RdTypeOK, GateInv
  <1>2. \A i \in MarkerIds : /\ ResultEntry(i)' = ResultEntry(i)
                             /\ Collected(i)' = Collected(i)
                             /\ PidOf(i)' = PidOf(i)
    BY <1>1 DEF ResultEntry, Collected, LogEntry, PidOf
  <1>3. ASSUME NEW i \in MarkerIds, ReadResult(i) PROVE SnapSeen'
    <2>1. rdPc = "results" /\ i \in todo /\ todo' = todo \ {i} /\ pids' = pids
      BY <1>3 DEF ReadResult
    <2>2. CASE rdPc' = "crashed"
      BY <2>2 DEF SnapSeen
    <2>3. CASE rdPc' # "crashed"
      <3>1. /\ rdPc' = "results" /\ result[i].val # "absent"
            /\ gates' = [gates EXCEPT ![i] = ResultEntry(i)]
        BY <1>3, <2>1, <2>3 DEF ReadResult
      <3>2. ASSUME NEW j \in MarkerIds
            PROVE  /\ gates'[j] = IF result[j].val # "absent" /\ j \notin todo'
                                  THEN ResultEntry(j) ELSE Unlisted
                   /\ pids'[j] = "none"
        <4>1. CASE j = i
          BY <1>1, <2>1, <3>1, <4>1 DEF SnapSeen
        <4>2. CASE j # i
          BY <1>1, <2>1, <3>1, <4>2 DEF SnapSeen
        <4>3. QED
          BY <4>1, <4>2
      <3>3. QED
        BY <1>1, <1>2, <3>1, <3>2 DEF SnapSeen
    <2>4. QED
      BY <2>2, <2>3
  <1>4. CASE ListPidfiles
    <2>1. /\ rdPc = "results" /\ todo = {} /\ rdPc' = "pids" /\ UNCHANGED <<gates, pids>>
          /\ todo' = {i \in MarkerIds : pidfile[i].val # "absent"}
      BY <1>4 DEF ListPidfiles, RdStep
    <2>2. ASSUME NEW j \in MarkerIds
          PROVE  /\ gates'[j] = IF result[j].val # "absent" THEN ResultEntry(j) ELSE Unlisted
                 /\ pids'[j] = IF j \in todo' THEN "none" ELSE PidOf(j)
      BY <1>1, <2>1 DEF SnapSeen, PidOf
    <2>3. QED
      BY <1>1, <1>2, <2>1, <2>2 DEF SnapSeen
  <1>5. ASSUME NEW i \in MarkerIds, ReadPidfileOf(i) PROVE SnapSeen'
    <2>1. /\ rdPc = "pids" /\ rdPc' = "pids" /\ i \in todo /\ todo' = todo \ {i} /\ gates' = gates
          /\ pids' = IF pidfile[i].val \in Pushes THEN [pids EXCEPT ![i] = pidfile[i].val] ELSE pids
      BY <1>5 DEF ReadPidfileOf
    <2>2. ASSUME NEW j \in MarkerIds
          PROVE  /\ gates'[j] = IF result[j].val # "absent" THEN ResultEntry(j) ELSE Unlisted
                 /\ pids'[j] = IF j \in todo' THEN "none" ELSE PidOf(j)
      <3>1. CASE j = i
        BY <1>1, <2>1, <3>1 DEF SnapSeen, PidOf
      <3>2. CASE j # i
        BY <1>1, <2>1, <3>2 DEF SnapSeen
      <3>3. QED
        BY <3>1, <3>2
    <2>3. QED
      BY <1>1, <1>2, <2>1, <2>2 DEF SnapSeen
  <1>6. CASE ListLogs
    <2>1. /\ rdPc = "pids" /\ todo = {} /\ rdPc' = "logs" /\ UNCHANGED <<gates, pids>>
          /\ todo' = {i \in MarkerIds : log[i].exists}
      BY <1>6 DEF ListLogs, RdStep
    <2>2. ASSUME NEW j \in MarkerIds
          PROVE  /\ j \in todo' => log[j].exists
                 /\ gates'[j] = IF result[j].val # "absent" \/ j \notin todo' THEN Collected(j)
                                                                            ELSE Unlisted
                 /\ pids'[j] = PidOf(j)
      BY <1>1, <2>1 DEF SnapSeen, Collected
    <2>3. QED
      BY <1>1, <1>2, <2>1, <2>2 DEF SnapSeen
  <1>7. ASSUME NEW i \in MarkerIds, ReadLog(i) PROVE SnapSeen'
    <2>1. /\ rdPc = "logs" /\ rdPc' = "logs" /\ i \in todo /\ todo' = todo \ {i} /\ pids' = pids
          /\ gates' = IF i \in Listed(gates) THEN gates
                      ELSE [gates EXCEPT ![i] = [status |-> LogStatus(i), mtime |-> log[i].mtime]]
      BY <1>7 DEF ReadLog
    <2>2. gates'[i] = Collected(i)
      <3>1. CASE result[i].val # "absent"
        <4>1. gates[i] = Collected(i) /\ Collected(i) = ResultEntry(i)
          BY <2>1, <3>1 DEF SnapSeen, Collected
        <4>2. i \in Listed(gates)
          BY <1>1, <3>1, <4>1, ResultIsListed DEF Listed
        <4>3. QED
          BY <2>1, <4>1, <4>2
      <3>2. CASE result[i].val = "absent"
        <4>1. gates[i] = Unlisted /\ log[i].exists /\ pids[i] = PidOf(i)
          BY <2>1, <3>2 DEF SnapSeen
        <4>2. gates'[i] = [status |-> LogStatus(i), mtime |-> log[i].mtime]
          BY <1>1, <2>1, <4>1 DEF Listed, Unlisted
        <4>3. CASE pidfile[i].val \in Pushes
          <5>1. pids[i] = pidfile[i].val /\ ~Alive(pids[i]) /\ pids[i] # "none"
            BY <1>1, <4>1, <4>3, CalmPids DEF PidOf
          <5>2. QED
            BY <3>2, <4>1, <4>2, <4>3, <5>1 DEF LogStatus, Collected, LogEntry
        <4>4. CASE pidfile[i].val \notin Pushes
          BY <3>2, <4>1, <4>2, <4>4 DEF LogStatus, Collected, LogEntry, PidOf
        <4>5. QED
          BY <4>3, <4>4
      <3>3. QED
        BY <3>1, <3>2
    <2>3. ASSUME NEW j \in MarkerIds
          PROVE  /\ j \in todo' => log[j].exists
                 /\ gates'[j] = IF result[j].val # "absent" \/ j \notin todo' THEN Collected(j)
                                                                            ELSE Unlisted
                 /\ pids'[j] = PidOf(j)
      <3>1. CASE j = i
        BY <2>1, <2>2, <3>1 DEF SnapSeen
      <3>2. CASE j # i
        <4>1. gates'[j] = gates[j]
          BY <1>1, <2>1, <3>2
        <4>2. QED
          BY <2>1, <3>2, <4>1 DEF SnapSeen
      <3>3. QED
        BY <3>1, <3>2
    <2>4. QED
      BY <1>1, <1>2, <2>1, <2>3 DEF SnapSeen
  <1>8. CASE Judge
    <2>1. /\ rdPc = "logs" /\ todo = {} /\ rdPc' = "reported" /\ gates' = MarkSuperseded(gates)
      BY <1>8 DEF Judge, RdStep
    <2>2. \A i \in MarkerIds : gates[i] = Collected(i)
      BY <2>1 DEF SnapSeen
    <2>3. gates = [i \in MarkerIds |-> Collected(i)]
      BY <1>1, <2>2
    <2>4. [i \in MarkerIds |-> Collected(i)]' = [i \in MarkerIds |-> Collected(i)]
      BY <1>2
    <2>5. gates' = MarkSuperseded([i \in MarkerIds |-> Collected(i)])'
      BY <2>1, <2>3, <2>4 DEF MarkSuperseded, Listed, Newest, Newer
    <2>6. QED
      BY <2>1, <2>5 DEF SnapSeen
  <1>9. QED
    BY <1>3, <1>4, <1>5, <1>6, <1>7, <1>8 DEF Scan

\* A step keeps what a calm scan has seen: the scripts' because it is calm, the scan's by the
\* lemma above.
LEMMA SnapInvStep ==
  /\ GateInv /\ DiskInv /\ RdTypeOK /\ BlankInv /\ DeadInv /\ SnapInv
  /\ [SystemNext]_allVars
  => SnapInv'
  <1> SUFFICES ASSUME GateInv, DiskInv, RdTypeOK, BlankInv, DeadInv, SnapInv, [SystemNext]_allVars,
                      rdPc' # "idle", Calm', ReusablePids = {}
               PROVE  SnapSeen'
    BY DEF SnapInv
  <1>1. CASE UNCHANGED rdVars
    <2>1. overBefore' = overBefore /\ rdPc # "idle" /\ [Next]_vars
      BY <1>1 DEF rdVars, histVars, SystemNext, allVars
    <2>2. Calm /\ UNCHANGED <<result, pidfile, log>>
      BY <2>1, CalmBefore
    <2>3. SnapSeen
      BY <2>1, <2>2 DEF SnapInv
    <2>4. \A i \in MarkerIds : /\ ResultEntry(i)' = ResultEntry(i)
                               /\ Collected(i)' = Collected(i)
                               /\ PidOf(i)' = PidOf(i)
      BY <2>2 DEF ResultEntry, Collected, LogEntry, PidOf
    <2>5. [i \in MarkerIds |-> Collected(i)]' = [i \in MarkerIds |-> Collected(i)]
      BY <2>4
    <2>6. MarkSuperseded([i \in MarkerIds |-> Collected(i)])'
            = MarkSuperseded([i \in MarkerIds |-> Collected(i)])
      BY <2>5 DEF MarkSuperseded, Listed, Newest, Newer
    <2>7. QED
      BY <1>1, <2>2, <2>3, <2>4, <2>6 DEF SnapSeen, rdVars
  <1>2. CASE StartScan /\ UNCHANGED vars
    <2>1. /\ rdPc' = "results" /\ UNCHANGED <<gates, pids, result>>
          /\ todo' = {i \in MarkerIds : result[i].val # "absent"}
          /\ gates = [i \in MarkerIds |-> Unlisted]
          /\ pids = [i \in MarkerIds |-> "none"]
      BY <1>2 DEF StartScan, RdStep, BlankInv, vars, fileVars
    <2>2. QED
      BY <2>1 DEF SnapSeen
  <1>3. CASE Scan /\ ~StartScan /\ UNCHANGED vars
    <2>1. overBefore' = overBefore /\ rdPc # "idle"
      BY <1>3 DEF Scan, ReadResult, ListPidfiles, ReadPidfileOf, ListLogs, ReadLog, Judge, RdStep,
                  histVars
    <2>2. Calm
      BY <2>1, CalmBefore, <1>3
    <2>3. QED
      BY <1>3, <2>1, <2>2, SnapSeenStep DEF SnapInv
  <1>4. QED
    BY <1>1, <1>2, <1>3 DEF SystemNext, allVars

\* If no gate and no hook runs while the scan does and no pid is reused, three listings one after
\* the other report exactly what one look at the whole directory would.
THEOREM CalmScansAreExact == SystemSpec => []SettledScanIsExact
  <1>1. SystemInit => SnapInv
    BY DEF SystemInit, RdInit, SnapInv
  <1>2. GateInv /\ DiskInv /\ DeadInv /\ RdTypeOK /\ SnapInv => SettledScanIsExact
    BY CalmSnapshot DEF SnapInv, SnapSeen, Calm, SettledScanIsExact
  <1>3. QED
    BY <1>1, <1>2, SnapInvStep, GateInvHolds, DiskInvHolds, DeadInvHolds, ScanIsTyped,
       BlankInvHolds, PTL
    DEF SystemSpec
==============================================================================
