------------------------ MODULE LandingGateImplProofs ------------------------
(***************************************************************************)
(* Proof that the scripts keep GateContract, for every set of pushes whose *)
(* marker ids are their own: the initial states map to initial states, and *)
(* every step of hook, gate, watchdog and machine to a step of the contract*)
(* or to none.                                                             *)
(***************************************************************************)
EXTENDS LandingGateImpl, LandingGateProofs

\* What holds in every state of such pushes: an id is a push's own, so the proofs
\* about one gate's files speak of every gate, and terminal lines are single.
ImplInv == TypeInv /\ SoleInv /\ WatchInv /\ DistinctIds

\* A step as the contract sees it, at the push that takes it.
StartsAt(p) ==
  /\ runBar[p] = [phase |-> "none", verdict |-> "none"]
  /\ runBar'[p] = [phase |-> "running", verdict |-> "none"]
  /\ reportBar'[p] = reportBar[p]
PublishesAt(p) ==
  /\ runBar[p] = [phase |-> "running", verdict |-> "none"]
  /\ \E v \in Verdicts : runBar'[p] = [phase |-> "running", verdict |-> v]
  /\ reportBar'[p] = reportBar[p]
FinishesAt(p) ==
  /\ \E v \in Verdicts : /\ runBar[p] = [phase |-> "running", verdict |-> v]
                         /\ runBar'[p] = [phase |-> "finished", verdict |-> v]
  /\ reportBar'[p] = reportBar[p]
LosesAt(p) ==
  /\ \E v : /\ runBar[p] = [phase |-> "running", verdict |-> v]
            /\ runBar'[p] = [phase |-> "lost", verdict |-> v]
  /\ reportBar'[p] = reportBar[p]
ReportsAt(p) ==
  /\ reportBar[p] = "none"
  /\ \E line \in {"COMPLETE", "DEAD", "NOPID"} :
       /\ line = "COMPLETE" => runBar[p].phase = "finished"
       /\ line = "DEAD" => runBar[p].phase = "lost"
       /\ reportBar'[p] = line
  /\ runBar'[p] = runBar[p]
RestsAt(p) == runBar'[p] = runBar[p] /\ reportBar'[p] = reportBar[p]

\* A step that the contract sees at one push only is a step of the contract.
LEMMA StepIsContracts ==
  ASSUME NEW p \in Pushes, \A q \in Pushes \ {p} : RestsAt(q),
         \/ StartsAt(p) \/ PublishesAt(p) \/ FinishesAt(p)
         \/ LosesAt(p) \/ ReportsAt(p) \/ RestsAt(p)
  PROVE  Contract!Next \/ UNCHANGED Contract!vars
  <1>1. /\ runBar = [q \in Pushes |-> runBar[q]]
        /\ runBar' = [q \in Pushes |-> runBar'[q]]
        /\ reportBar = [q \in Pushes |-> reportBar[q]]
        /\ reportBar' = [q \in Pushes |-> reportBar'[q]]
    BY DEF runBar, reportBar
  <1> HIDE DEF runBar, reportBar
  <1>2. /\ runBar' = [runBar EXCEPT ![p] = runBar'[p]]
        /\ reportBar' = [reportBar EXCEPT ![p] = reportBar'[p]]
    BY <1>1 DEF RestsAt
  <1>3. ASSUME reportBar'[p] = reportBar[p] PROVE reportBar' = reportBar
    BY <1>1, <1>2, <1>3
  <1>4. ASSUME runBar'[p] = runBar[p] PROVE runBar' = runBar
    BY <1>1, <1>2, <1>4
  <1>5. CASE StartsAt(p)
    <2>1. runBar' = [runBar EXCEPT ![p].phase = "running"]
      BY <1>1, <1>2, <1>5 DEF StartsAt
    <2>2. Contract!Start(p)
      BY <1>3, <1>5, <2>1 DEF StartsAt, Contract!Start, Contract!NotRun
    <2>3. QED
      BY <2>2 DEF Contract!Next
  <1>6. CASE PublishesAt(p)
    <2>1. PICK v \in Verdicts : runBar'[p] = [phase |-> "running", verdict |-> v]
      BY <1>6 DEF PublishesAt
    <2>2. runBar' = [runBar EXCEPT ![p].verdict = v]
      BY <1>1, <1>2, <1>6, <2>1 DEF PublishesAt
    <2>3. Contract!Publish(p)
      BY <1>3, <1>6, <2>2 DEF PublishesAt, Contract!Publish, Contract!Verdicts, Verdicts
    <2>4. QED
      BY <2>3 DEF Contract!Next
  <1>7. CASE FinishesAt(p)
    <2>1. runBar' = [runBar EXCEPT ![p].phase = "finished"]
      BY <1>1, <1>2, <1>7 DEF FinishesAt
    <2>2. runBar[p].phase = "running" /\ runBar[p].verdict \in Verdicts
      BY <1>7 DEF FinishesAt
    <2>3. Contract!Finish(p)
      BY <1>3, <1>7, <2>1, <2>2 DEF FinishesAt, Contract!Finish, Contract!Verdicts, Verdicts
    <2>4. QED
      BY <2>3 DEF Contract!Next
  <1>8. CASE LosesAt(p)
    <2>1. runBar' = [runBar EXCEPT ![p].phase = "lost"]
      BY <1>1, <1>2, <1>8 DEF LosesAt
    <2>2. runBar[p].phase = "running"
      BY <1>8 DEF LosesAt
    <2>3. Contract!Lose(p)
      BY <1>3, <1>8, <2>1, <2>2 DEF LosesAt, Contract!Lose
    <2>4. QED
      BY <2>3 DEF Contract!Next
  <1>9. CASE ReportsAt(p)
    <2>1. Contract!Report(p)
      BY <1>2, <1>4, <1>9 DEF ReportsAt, Contract!Report
    <2>2. QED
      BY <2>1 DEF Contract!Next
  <1>10. CASE RestsAt(p)
    BY <1>3, <1>4, <1>10 DEF RestsAt, Contract!vars
  <1>11. QED
    BY <1>5, <1>6, <1>7, <1>8, <1>9, <1>10

\* The run of a push that has an id of its own, at each point of its gate.
RunShape(p) ==
  /\ gatePc[p] = "none" => runBar[p] = [phase |-> "none", verdict |-> "none"]
  /\ gatePc[p] \in {"open_pid", "write_pid", "make", "open_result", "write_result"} =>
       runBar[p] = [phase |-> "running", verdict |-> "none"]
  /\ gatePc[p] = "mark" =>
       /\ verdict[p] \in Verdicts
       /\ runBar[p] = [phase |-> "running", verdict |-> verdict[p]]
  /\ gatePc[p] \in {"exiting", "exited"} =>
       /\ verdict[p] \in Verdicts
       /\ runBar[p] = [phase |-> "finished", verdict |-> verdict[p]]
  /\ gatePc[p] = "killed" =>
       runBar[p].phase = IF log[Id(p)].done THEN "finished" ELSE "lost"

\* Its report: none before the watchdog is over, and then the line it wrote.
ReportShape(p) ==
  /\ wdPc[p] # "over" => reportBar[p] = "none"
  /\ \A k \in Terminal : wdPc[p] # "none" /\ Reported(p, k) => reportBar[p] = k

\* A push that spawns nothing has neither.
Unseen(p) == runBar[p] = [phase |-> "none", verdict |-> "none"] /\ reportBar[p] = "none"

ShapeInv == \A p \in Pushes : /\ Sole(p) => RunShape(p) /\ ReportShape(p)
                              /\ ~Spawns(req[p]) => Unseen(p)

\* The run of a push that has an id of its own, at each point of its gate.
LEMMA RunAt ==
  ASSUME ImplInv, NEW p \in Pushes, Sole(p)
  PROVE  RunShape(p)
  <1>1. Private(p)
    BY DEF ImplInv, SoleInv
  <1>2. gatePc[p] \in {"mark", "exiting", "exited"} =>
          verdict[p] \in Verdicts /\ result[Id(p)].val = verdict[p]
    BY <1>1 DEF Private, ImplInv, TypeInv, GateProgress
  <1>3. gatePc[p] \in {"open_pid", "write_pid", "make", "open_result", "write_result"} =>
          ~log[Id(p)].done /\ result[Id(p)].val \notin Verdicts
    BY <1>1 DEF Private, Verdicts
  <1>4. /\ gatePc[p] = "mark" => ~log[Id(p)].done
        /\ gatePc[p] \in {"exiting", "exited"} => log[Id(p)].done
    BY <1>1 DEF Private
  <1>5. QED
    BY <1>2, <1>3, <1>4 DEF RunShape, runBar

\* The report of a watchdog whose terminal line is known.
LEMMA ReportAt ==
  ASSUME ImplInv, NEW p \in Pushes, Sole(p)
  PROVE  ReportShape(p)
  <1>1. Id(p) \in MarkerIds
    BY IdIsMarker DEF ImplInv, TypeInv, Sole
  <1>2. wdPc[p] # "over" => \A k \in Terminal : ~Reported(p, k)
    BY <1>1 DEF ImplInv, WatchInv, Watching, Watches, Terminal, TerminalKinds, Reported
  <1>3. ASSUME NEW k \in Terminal, NEW m \in Terminal, Reported(p, k), Reported(p, m)
        PROVE  k = m
    BY <1>1, <1>3 DEF ImplInv, WatchInv, OneTerminalLineEach, Terminal, Reported
  <1>4. ASSUME NEW k \in Terminal, wdPc[p] # "none", Reported(p, k)
        PROVE  reportBar[p] = k
    <2>1. (CHOOSE m \in Terminal : Reported(p, m)) = k
      BY <1>3, <1>4
    <2>2. QED
      BY <1>4, <2>1 DEF reportBar
  <1>5. QED
    BY <1>2, <1>4 DEF ReportShape, reportBar

\* The mapping has these shapes in every state in which ids are the pushes' own.
LEMMA ShapeHolds == ImplInv => ShapeInv
  <1>1. ASSUME TypeInv, NEW p \in Pushes, ~Spawns(req[p]) PROVE Unseen(p)
    <2>1. gatePc[p] = "none" /\ wdPc[p] = "none"
      BY <1>1 DEF TypeInv, HookOrder
    <2>2. QED
      BY <2>1 DEF Unseen, runBar, reportBar
  <1>2. QED
    BY <1>1, RunAt, ReportAt DEF ShapeInv, ImplInv

\* A step that leaves the gate, the watchdog and the files of a push alone is not seen there.
LEMMA UntouchedRests ==
  ASSUME [Next]_vars, NEW p \in Pushes, Untouched(p)
  PROVE  RestsAt(p)
  <1>1. Id(p)' = Id(p)
    BY SameIds
  <1>2. \A k : Reported(p, k)' = Reported(p, k)
    BY <1>1 DEF Reported, Untouched
  <1>3. runBar'[p] = runBar[p]
    BY <1>1 DEF runBar, Untouched
  <1>4. reportBar'[p] = reportBar[p]
    BY <1>2 DEF reportBar, Untouched
  <1>5. QED
    BY <1>3, <1>4 DEF RestsAt

\* A step that leaves a push's watchdog and its log alone leaves its report alone.
LEMMA ReportRests ==
  ASSUME [Next]_vars, NEW p \in Pushes, wdPc'[p] = wdPc[p], wdlog' = wdlog
  PROVE  reportBar'[p] = reportBar[p]
  <1>1. Id(p)' = Id(p)
    BY SameIds
  <1>2. \A k : Reported(p, k)' = Reported(p, k)
    BY <1>1 DEF Reported
  <1>3. QED
    BY <1>2 DEF reportBar

\* A step that leaves a push's gate, result and log alone leaves its run alone.
LEMMA RunRests ==
  ASSUME [Next]_vars, NEW p \in Pushes, UNCHANGED <<gatePc, result, log>>
  PROVE  runBar'[p] = runBar[p]
  <1>1. Id(p)' = Id(p)
    BY SameIds
  <1>2. QED
    BY <1>1 DEF runBar

\* What the hook of a push does: it starts the run, and nothing else of its is seen.
LEMMA HookStepMaps ==
  ASSUME ImplInv, ShapeInv, ShapeInv', [Next]_vars, NEW p \in Pushes, Sole(p), Sole(p)', Hook(p)
  PROVE  StartsAt(p) \/ RestsAt(p)
  <1>0. RunShape(p) /\ RunShape(p)' /\ ReportShape(p) /\ ReportShape(p)'
    BY DEF ShapeInv
  <1>1. gatePc \in [Pushes -> GatePcs] /\ wdPc \in [Pushes -> WdPcs]
    BY DEF ImplInv, TypeInv, TypeOK
  <1>2. CASE Push(p)
    <2>1. UNCHANGED <<gatePc, result, log, wdPc, wdlog>>
      BY <1>2 DEF Push, fileVars, gateVars, wdVars
    <2>2. QED
      BY <2>1, RunRests, ReportRests DEF RestsAt
  <1>3. CASE RemoveResult(p) \/ RemovePidfile(p) \/ TruncateLog(p) \/ TruncateWatchdogLog(p)
             \/ SpawnGate(p) \/ SpawnWatchdog(p)
    <2>1. wdPc[p] = "none" /\ wdPc'[p] # "over"
      BY <1>1, <1>3 DEF RemoveResult, RemovePidfile, TruncateLog, TruncateWatchdogLog, SpawnGate,
                  SpawnWatchdog, HookStep, ImplInv, TypeInv, HookOrder, wdVars
    <2>2. reportBar[p] = "none" /\ reportBar'[p] = "none"
      BY <2>1, <1>0 DEF ReportShape
    <2>3. CASE RemoveResult(p) \/ RemovePidfile(p) \/ TruncateLog(p) \/ TruncateWatchdogLog(p)
      <3>1. gatePc[p] = "none" /\ gatePc'[p] = "none"
        BY <2>3 DEF RemoveResult, RemovePidfile, TruncateLog, TruncateWatchdogLog, HookStep,
                    ImplInv, TypeInv, HookOrder, gateVars
      <3>2. QED
        BY <2>2, <3>1, <1>0 DEF RunShape, RestsAt
    <2>4. CASE SpawnGate(p)
      <3>1. gatePc[p] = "none" /\ gatePc'[p] = "open_pid"
        BY <1>1, <2>4 DEF SpawnGate, HookStep, ImplInv, TypeInv, HookOrder
      <3>2. QED
        BY <2>2, <3>1, <1>0 DEF RunShape, StartsAt
    <2>5. CASE SpawnWatchdog(p)
      <3>1. UNCHANGED <<gatePc, result, log>>
        BY <2>5 DEF SpawnWatchdog, fileVars, gateVars
      <3>2. QED
        BY <2>2, <3>1, RunRests DEF RestsAt
    <2>6. QED
      BY <1>3, <2>3, <2>4, <2>5
  <1>4. QED
    BY <1>2, <1>3 DEF Hook

\* What the gate of a push does: the verdict appears when it is written, the end when
\* the log is marked.
LEMMA GateStepMaps ==
  ASSUME ImplInv, ShapeInv, ShapeInv', [Next]_vars, NEW p \in Pushes, Sole(p), Sole(p)', Gate(p)
  PROVE  PublishesAt(p) \/ FinishesAt(p) \/ RestsAt(p)
  <1>0. RunShape(p) /\ RunShape(p)' /\ ReportShape(p) /\ ReportShape(p)'
    BY DEF ShapeInv
  <1>1. gatePc \in [Pushes -> GatePcs]
    BY DEF ImplInv, TypeInv, TypeOK
  <1>2. reportBar'[p] = reportBar[p]
    <2>1. wdPc'[p] = wdPc[p] /\ wdlog' = wdlog
      BY DEF Gate, OpenPidfile, WritePid, RunCheck, OpenResult, WriteResult, MarkComplete,
             GateExit, fileVars, wdVars
    <2>2. QED
      BY <2>1, ReportRests
  <1>3. ASSUME OpenPidfile(p) \/ WritePid(p) \/ RunCheck(p) \/ OpenResult(p)
        PROVE  RestsAt(p)
    <2>1. gatePc[p] \in {"open_pid", "write_pid", "make", "open_result"}
      BY <1>3 DEF OpenPidfile, WritePid, RunCheck, OpenResult, GateStep
    <2>2. gatePc'[p] \in {"write_pid", "make", "open_result", "write_result"}
      BY <1>1, <1>3 DEF OpenPidfile, WritePid, RunCheck, OpenResult, GateStep, AfterMake
    <2>3. runBar[p] = [phase |-> "running", verdict |-> "none"]
      BY <2>1, <1>0 DEF RunShape
    <2>4. runBar'[p] = [phase |-> "running", verdict |-> "none"]
      BY <2>2, <1>0 DEF RunShape
    <2>5. QED
      BY <1>2, <2>3, <2>4 DEF RestsAt
  <1>4. ASSUME WriteResult(p) PROVE PublishesAt(p)
    <2>1. gatePc[p] = "write_result" /\ gatePc'[p] = "mark"
      BY <1>1, <1>4 DEF WriteResult, GateStep
    <2>2. runBar[p] = [phase |-> "running", verdict |-> "none"]
      BY <2>1, <1>0 DEF RunShape
    <2>3. verdict'[p] \in Verdicts /\ runBar'[p] = [phase |-> "running", verdict |-> verdict'[p]]
      BY <2>1, <1>0 DEF RunShape, Verdicts
    <2>4. QED
      BY <1>2, <2>2, <2>3 DEF PublishesAt
  <1>5. ASSUME MarkComplete(p) PROVE FinishesAt(p)
    <2>1. gatePc[p] = "mark" /\ gatePc'[p] = "exiting" /\ verdict' = verdict
      BY <1>1, <1>5 DEF MarkComplete, GateStep
    <2>2. verdict[p] \in Verdicts /\ runBar[p] = [phase |-> "running", verdict |-> verdict[p]]
      BY <2>1, <1>0 DEF RunShape
    <2>3. runBar'[p] = [phase |-> "finished", verdict |-> verdict'[p]]
      BY <2>1, <1>0 DEF RunShape
    <2>4. QED
      BY <1>2, <2>1, <2>2, <2>3 DEF FinishesAt
  <1>6. ASSUME GateExit(p) PROVE RestsAt(p)
    <2>1. gatePc[p] = "exiting" /\ gatePc'[p] = "exited" /\ verdict' = verdict
      BY <1>1, <1>6 DEF GateExit, GateStep
    <2>2. runBar[p] = [phase |-> "finished", verdict |-> verdict[p]]
      BY <2>1, <1>0 DEF RunShape
    <2>3. runBar'[p] = [phase |-> "finished", verdict |-> verdict'[p]]
      BY <2>1, <1>0 DEF RunShape
    <2>4. QED
      BY <1>2, <2>1, <2>2, <2>3 DEF RestsAt
  <1>7. QED
    BY <1>3, <1>4, <1>5, <1>6 DEF Gate

\* What the watchdog of a push does: its terminal line is its report, COMPLETE of a
\* marked log and DEAD of a gate that is gone without the mark.
LEMMA WatchdogStepMaps ==
  ASSUME ImplInv, ShapeInv, ShapeInv', [Next]_vars, NEW p \in Pushes, Sole(p), Sole(p)', Watchdog(p)
  PROVE  ReportsAt(p) \/ RestsAt(p)
  <1>0. RunShape(p) /\ RunShape(p)' /\ ReportShape(p) /\ ReportShape(p)'
    BY DEF ShapeInv
  <1>1. wdPc \in [Pushes -> WdPcs] /\ wdlog \in [MarkerIds -> SUBSET Line]
        /\ Id(p) \in MarkerIds /\ Id(p)' = Id(p)
    BY IdIsMarker, SameIds DEF ImplInv, TypeInv, TypeOK, Sole
  <1>2. runBar'[p] = runBar[p]
    <2>1. UNCHANGED <<gatePc, result, log>>
      BY DEF Watchdog, Arm, PollPidfile, ReadPidfile, GiveUp, ProbePid, Watch, Conclude,
             fileVars, gateVars
    <2>2. QED
      BY <2>1, RunRests
  <1>3. wdPc[p] # "none" /\ wdPc[p] # "over"
    BY DEF Watchdog, Arm, PollPidfile, ReadPidfile, GiveUp, ProbePid, Watch, Conclude,
           WatchdogStep
  <1>4. reportBar[p] = "none"
    BY <1>3, <1>0 DEF ReportShape
  <1>5. ASSUME wdPc'[p] # "over" PROVE RestsAt(p)
    <2>1. reportBar'[p] = "none"
      BY <1>5, <1>0 DEF ReportShape
    <2>2. QED
      BY <1>2, <1>4, <2>1 DEF RestsAt
  <1>6. ASSUME NEW k \in Terminal, Say(p, k), wdPc'[p] = "over"
        PROVE  reportBar'[p] = k
    <2>1. Reported(p, k)'
      BY <1>1, <1>6 DEF Say, Reported
    <2>2. QED
      BY <1>6, <2>1, <1>0 DEF ReportShape
  <1>7. gatePc \in [Pushes -> GatePcs]
    BY DEF ImplInv, TypeInv, TypeOK
  <1>8. ASSUME log[Id(p)].done PROVE runBar[p].phase = "finished"
    <2>1. gatePc[p] \in {"exiting", "exited", "killed"}
      BY <1>8 DEF ImplInv, SoleInv, Private
    <2>2. QED
      BY <1>8, <2>1, <1>0 DEF RunShape
  <1>9. CASE GiveUp(p)
    <2>1. Say(p, "NOPID") /\ wdPc'[p] = "over" /\ "NOPID" \in Terminal
      BY <1>1, <1>9 DEF GiveUp, Terminal
    <2>2. reportBar'[p] = "NOPID"
      BY <1>6, <2>1
    <2>3. QED
      BY <1>2, <1>4, <2>2 DEF ReportsAt
  <1>10. CASE Watch(p)
    <2>1. CASE wdPc'[p] # "over"
      BY <1>5, <2>1
    <2>2. CASE wdPc'[p] = "over"
      <3>1. log[Id(p)].done /\ Say(p, "COMPLETE") /\ "COMPLETE" \in Terminal
        BY <1>1, <1>10, <2>2 DEF Watch, Terminal
      <3>2. reportBar'[p] = "COMPLETE"
        BY <1>6, <2>2, <3>1
      <3>3. QED
        BY <1>2, <1>4, <1>8, <3>1, <3>2 DEF ReportsAt
    <2>3. QED
      BY <2>1, <2>2
  <1>11. CASE Conclude(p)
    <2>1. wdPc[p] = "final" /\ wdPc'[p] = "over"
      BY <1>1, <1>11 DEF Conclude, WatchdogStep
    <2>2. CASE log[Id(p)].done
      <3>1. Say(p, "COMPLETE") /\ "COMPLETE" \in Terminal
        BY <1>11, <2>2 DEF Conclude, Terminal
      <3>2. reportBar'[p] = "COMPLETE"
        BY <1>6, <2>1, <3>1
      <3>3. QED
        BY <1>2, <1>4, <1>8, <2>2, <3>2 DEF ReportsAt
    <2>3. CASE ~log[Id(p)].done
      <3>1. Say(p, "DEAD") /\ "DEAD" \in Terminal
        BY <1>11, <2>3 DEF Conclude, Terminal
      <3>2. reportBar'[p] = "DEAD"
        BY <1>6, <2>1, <3>1
      <3>3. gatePc[p] = "killed"
        BY <2>1, <2>3 DEF ImplInv, SoleInv, Private
      <3>4. runBar[p].phase = "lost"
        BY <2>3, <3>3, <1>0 DEF RunShape
      <3>5. QED
        BY <1>2, <1>4, <3>2, <3>4 DEF ReportsAt
    <2>4. QED
      BY <2>2, <2>3
  <1>12. CASE Arm(p) \/ PollPidfile(p) \/ ReadPidfile(p) \/ ProbePid(p)
    <2>1. wdPc'[p] # "over"
      BY <1>1, <1>3, <1>12 DEF Arm, PollPidfile, ReadPidfile, ProbePid, WatchdogStep
    <2>2. QED
      BY <1>5, <2>1
  <1>13. QED
    BY <1>9, <1>10, <1>11, <1>12 DEF Watchdog

\* A kill loses a gate that has not marked its log; a watchdog that is killed says nothing.
LEMMA KillStepMaps ==
  ASSUME ImplInv, ShapeInv, ShapeInv', [Next]_vars, NEW p \in Pushes, Sole(p), Sole(p)',
         KillGate(p) \/ KillWatchdog(p)
  PROVE  LosesAt(p) \/ RestsAt(p)
  <1>0. RunShape(p) /\ RunShape(p)' /\ ReportShape(p) /\ ReportShape(p)'
    BY DEF ShapeInv
  <1>1. /\ wdPc \in [Pushes -> WdPcs] /\ gatePc \in [Pushes -> GatePcs]
        /\ Id(p)' = Id(p)
    BY SameIds DEF ImplInv, TypeInv, TypeOK
  <1>2. CASE KillGate(p)
    <2>1. /\ gatePc[p] \in GateProcess /\ gatePc'[p] = "killed"
          /\ result' = result /\ log' = log /\ wdlog' = wdlog /\ wdPc' = wdPc
      BY <1>1, <1>2 DEF KillGate, fileVars, wdVars
    <2>2. reportBar'[p] = reportBar[p]
      BY <2>1, ReportRests
    <2>3. /\ gatePc[p] # "none"
          /\ gatePc[p] # "killed"
          /\ gatePc'[p] # "none"
      BY <2>1 DEF GateProcess
    <2>4. runBar'[p].verdict = runBar[p].verdict
      BY <1>1, <2>1, <2>3 DEF runBar
    <2>5. CASE log[Id(p)].done
      <3>1. runBar'[p] = runBar[p]
        BY <1>1, <2>1, <2>3, <2>5 DEF runBar
      <3>2. QED
        BY <2>2, <3>1 DEF RestsAt
    <2>6. CASE ~log[Id(p)].done
      <3> DEFINE v == IF result[Id(p)].val \in Verdicts THEN result[Id(p)].val ELSE "none"
      <3>1. /\ runBar[p] = [phase |-> "running", verdict |-> v]
            /\ runBar'[p] = [phase |-> "lost", verdict |-> v]
        BY <1>1, <2>1, <2>3, <2>6 DEF runBar
      <3>2. QED
        BY <2>2, <3>1 DEF LosesAt
    <2>7. QED
      BY <2>5, <2>6
  <1>3. CASE KillWatchdog(p)
    <2>1. /\ UNCHANGED <<gatePc, result, log>>
          /\ wdPc[p] # "over" /\ wdPc'[p] = "killed"
      BY <1>1, <1>3 DEF KillWatchdog, fileVars, gateVars
    <2>2. reportBar[p] = "none" /\ reportBar'[p] = "none"
      BY <2>1, <1>0 DEF ReportShape
    <2>3. QED
      BY <2>1, <2>2, RunRests DEF RestsAt
  <1>4. QED
    BY <1>2, <1>3

\* Every step keeps what the mapping rests on.
LEMMA ImplInvStep == ImplInv /\ [Next]_vars => ImplInv'
  <1>1. ASSUME DistinctIds, [Next]_vars PROVE DistinctIds'
    BY <1>1, SameIds DEF DistinctIds
  <1>2. TypeInv /\ [Next]_vars => TypeInv'
    BY TypeOKStep, GateProgressStep, PollsLeftStep, HookOrderStep DEF TypeInv
  <1>3. QED
    BY <1>1, <1>2, SoleInvStep, WatchInvStep DEF ImplInv

\* Every step of the scripts and of the machine is a step of the contract, or none.
LEMMA StepsMap ==
  ImplInv /\ ShapeInv /\ ShapeInv' /\ [Next]_vars => [Contract!Next]_(Contract!vars)
  <1> SUFFICES ASSUME ImplInv, ShapeInv, ShapeInv', [Next]_vars
               PROVE  Contract!Next \/ UNCHANGED Contract!vars
    OBVIOUS
  <1>2. /\ \A p \in Pushes : Sole(p)' = Sole(p) /\ Spawns(req[p])' = Spawns(req[p])
        /\ req' = req
    BY SameIds
  <1>3. ASSUME NEW p \in Pushes, ~Spawns(req[p]) PROVE RestsAt(p)
    <2>1. Unseen(p) /\ Unseen(p)'
      BY <1>2, <1>3 DEF ShapeInv
    <2>2. QED
      BY <2>1 DEF Unseen, RestsAt
  <1>4. CASE UNCHANGED vars
    <2>1. ASSUME NEW p \in Pushes PROVE Untouched(p)
      <3>1. Id(p)' = Id(p)
        BY SameIds
      <3>2. QED
        BY <1>4 DEF vars, fileVars, gateVars, wdVars, Untouched
    <2>2. runBar' = runBar /\ reportBar' = reportBar
      <3>1. \A p \in Pushes : runBar'[p] = runBar[p] /\ reportBar'[p] = reportBar[p]
        BY <2>1, UntouchedRests DEF RestsAt
      <3>2. QED
        BY <3>1 DEF runBar, reportBar
    <2>3. QED
      BY <2>2 DEF Contract!vars
  <1>5. CASE Next
    <2>1. ASSUME NEW p \in Pushes,
                 Hook(p) \/ Gate(p) \/ Watchdog(p) \/ KillGate(p) \/ KillWatchdog(p)
          PROVE  Contract!Next \/ UNCHANGED Contract!vars
      <3>1. \A q \in Pushes \ {p} : RestsAt(q)
        <4>1. ASSUME NEW q \in Pushes \ {p}, Spawns(req[q]) PROVE Untouched(q)
          <5>1. Sole(q) /\ TypeInv /\ p # q
            BY <4>1 DEF ImplInv, DistinctIds
          <5>2. QED
            BY <2>1, <5>1, OthersElsewhere
        <4>2. QED
          BY <1>3, <4>1, UntouchedRests
      <3>2. CASE ~Spawns(req[p])
        <4>1. RestsAt(p)
          BY <1>3, <3>2
        <4>2. QED
          BY <3>1, <4>1, StepIsContracts
      <3>3. CASE Spawns(req[p])
        <4>1. Sole(p) /\ Sole(p)'
          BY <1>2, <3>3 DEF ImplInv, DistinctIds
        <4>2. StartsAt(p) \/ PublishesAt(p) \/ FinishesAt(p) \/ LosesAt(p) \/ ReportsAt(p)
              \/ RestsAt(p)
          BY <2>1, <4>1, HookStepMaps, GateStepMaps, WatchdogStepMaps, KillStepMaps
        <4>3. QED
          BY <3>1, <4>2, StepIsContracts
      <3>4. QED
        BY <3>2, <3>3
    <2>2. ASSUME UNCHANGED <<fileVars, hookVars, gateVars, wdVars>>
          PROVE  UNCHANGED Contract!vars
      <3>1. \A p \in Pushes : Untouched(p)
        <4>1. \A p \in Pushes : Id(p)' = Id(p)
          BY SameIds
        <4>2. QED
          BY <2>2, <4>1 DEF fileVars, gateVars, wdVars, Untouched
      <3>2. \A p \in Pushes : runBar'[p] = runBar[p] /\ reportBar'[p] = reportBar[p]
        BY <3>1, UntouchedRests DEF RestsAt
      <3>3. QED
        BY <3>2 DEF runBar, reportBar, Contract!vars
    <2>3. ASSUME Tick \/ \E p \in Pushes : ReusePid(p) \/ FreePid(p)
          PROVE  UNCHANGED <<fileVars, hookVars, gateVars, wdVars>>
      BY <2>3 DEF Tick, ReusePid, FreePid
    <2>4. QED
      BY <1>5, <2>1, <2>2, <2>3 DEF Next, Machine
  <1>6. QED
    BY <1>4, <1>5

\* As long as no two pushes share a marker id, hook, gate and watchdog keep the contract a
\* reader of the files relies on: one verdict, published before the end and never taken
\* back, COMPLETE of a finished gate only, DEAD of a lost one only.
THEOREM ScriptsKeepTheContract == DistinctInit /\ [][Next]_vars => KeepsContract
  <1>1. DistinctInit => ImplInv
    BY TypeInvInit, SoleInvInit, WatchInvInit DEF DistinctInit, ImplInv
  <1>2. DistinctInit => Contract!Init
    BY DEF DistinctInit, Init, Contract!Init, Contract!NotRun, runBar, reportBar
  <1>3. QED
    BY <1>1, <1>2, ImplInvStep, ShapeHolds, StepsMap, PTL DEF KeepsContract, Contract!Spec
==============================================================================
