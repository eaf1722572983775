-------------------------- MODULE LandingGateProofs --------------------------
(***************************************************************************)
(* Proofs about LandingGate for every set of pushes, refs, heads and every *)
(* choice of kills, pid reuse, disk and bounds.                            *)
(***************************************************************************)
EXTENDS LandingGate, WellFoundedInduction, TLAPS

\* How far the gate's script got, and what it knows there.
GateProgress ==
  \A p \in Pushes :
    /\ gatePc[p] \in {"none", "open_pid", "write_pid", "make"} =>
         /\ verdict[p] = "none"
         /\ Len(ran[p]) < Checks
         /\ \A k \in DOMAIN ran[p] : ran[p][k]
    /\ gatePc[p] \in {"open_result", "write_result", "mark", "exiting", "exited"} =>
         verdict[p] \in Verdicts

\* The `break` out of the watchdog's first loop happens before $i reaches 20.
PollsLeft == \A p \in Pushes : wdPc[p] = "cat" => polls[p] < PidPolls

\* What the hook has spawned by each of its steps: nothing unless the push has a
\* gated ref, the gate before the watchdog.
HookOrder ==
  \A p \in Pushes :
    /\ hookPc[p] \notin {"idle", "accepted"} \/ gatePc[p] # "none" => Spawns(req[p])
    /\ hookPc[p] \notin {"spawn_watchdog", "accepted"} => gatePc[p] = "none"
    /\ hookPc[p] = "spawn_watchdog" => gatePc[p] # "none"
    /\ hookPc[p] # "accepted" \/ gatePc[p] = "none" => wdPc[p] = "none"

TypeInv == TypeOK /\ GateProgress /\ PollsLeft /\ HookOrder

USE NamesAssumption, BoundsAssumption, EnvironmentAssumption
USE DEF StopsMake, Branch, AfterMake, MorePolls

\* The hook's first state is well typed and has not started.
LEMMA TypeInvInit == Init => TypeInv
  <1> SUFFICES ASSUME Init PROVE TypeInv
    OBVIOUS
  <1> USE DEF Init
  <1>1. req \in [Pushes -> Request]
    BY RequestsAssumption
  <1>2. evdir \in BOOLEAN
    OBVIOUS
  <1>3. /\ result \in [MarkerIds -> ResultFile]
        /\ pidfile \in [MarkerIds -> PidFile]
        /\ log \in [MarkerIds -> LogFile]
        /\ wdlog \in [MarkerIds -> SUBSET Line]
    BY DEF NoResult, NoPidfile, NoLog, ResultFile, PidFile, LogFile, Owners
  <1>4. << >> \in Seq(BOOLEAN) /\ Len(<< >>) = 0 /\ DOMAIN << >> = {}
    OBVIOUS
  <1>5. ran \in [Pushes -> Seq(BOOLEAN)]
    BY <1>4
  <1>6. GateProgress
    <2>1. ASSUME NEW p \in Pushes PROVE gatePc[p] = "none" /\ verdict[p] = "none" /\ ran[p] = << >>
      OBVIOUS
    <2>2. ASSUME NEW p \in Pushes PROVE Len(ran[p]) < Checks /\ DOMAIN ran[p] = {}
      BY <1>4, <2>1
    <2> HIDE DEF Init
    <2>3. QED
      BY <2>1, <2>2 DEF GateProgress
  <1>7. PollsLeft
    BY DEF PollsLeft
  <1>8. HookOrder
    BY DEF HookOrder
  <1>9. QED
    BY <1>1, <1>2, <1>3, <1>4, <1>5, <1>6, <1>7, <1>8
    DEF TypeInv, TypeOK, HookPcs, GatePcs, WdPcs, Owners

------------------------------------------------------------------------------
(* What each kind of file operation leaves in the file. *)

\* Unlinking a result leaves results.
LEMMA RemovedResult ==
  ASSUME TypeOK, NEW i, result' = [result EXCEPT ![i] = NoResult]
  PROVE  result' \in [MarkerIds -> ResultFile]
  <1>1. result \in [MarkerIds -> ResultFile]
    BY DEF TypeOK
  <1>2. QED
    BY <1>1 DEF NoResult, ResultFile, Owners

\* Opening a result for writing leaves an empty one of some gate.
LEMMA OpenedResult ==
  ASSUME TypeOK, NEW i, NEW ino \in Owners,
         result' = [result EXCEPT ![i] = [val |-> "empty", ino |-> ino, mtime |-> now]]
  PROVE  result' \in [MarkerIds -> ResultFile]
  <1>1. result \in [MarkerIds -> ResultFile] /\ now \in Nat
    BY DEF TypeOK
  <1>2. QED
    BY <1>1 DEF ResultFile

\* Writing a verdict, into the file or into one already unlinked, leaves results.
LEMMA WrittenResult ==
  ASSUME TypeOK, NEW i, NEW v \in Verdicts,
         result' = [result EXCEPT ![i].val = v, ![i].mtime = now]
  PROVE  result' \in [MarkerIds -> ResultFile]
  <1>1. result \in [MarkerIds -> ResultFile] /\ now \in Nat
    BY DEF TypeOK
  <1>2. QED
    BY <1>1 DEF ResultFile

\* Unlinking a pidfile leaves pidfiles.
LEMMA RemovedPidfile ==
  ASSUME TypeOK, NEW i, pidfile' = [pidfile EXCEPT ![i] = NoPidfile]
  PROVE  pidfile' \in [MarkerIds -> PidFile]
  <1>1. pidfile \in [MarkerIds -> PidFile]
    BY DEF TypeOK
  <1>2. QED
    BY <1>1 DEF NoPidfile, PidFile, Owners

\* Opening a pidfile for writing leaves an empty one of some gate.
LEMMA OpenedPidfile ==
  ASSUME TypeOK, NEW i, NEW ino \in Owners,
         pidfile' = [pidfile EXCEPT ![i] = [val |-> "empty", ino |-> ino]]
  PROVE  pidfile' \in [MarkerIds -> PidFile]
  <1>1. pidfile \in [MarkerIds -> PidFile]
    BY DEF TypeOK
  <1>2. QED
    BY <1>1 DEF PidFile

\* Writing a pid leaves pidfiles.
LEMMA WrittenPidfile ==
  ASSUME TypeOK, NEW i, NEW p \in Pushes, pidfile' = [pidfile EXCEPT ![i].val = p]
  PROVE  pidfile' \in [MarkerIds -> PidFile]
  <1>1. pidfile \in [MarkerIds -> PidFile]
    BY DEF TypeOK
  <1>2. QED
    BY <1>1 DEF PidFile

\* Truncating a log leaves logs.
LEMMA TruncatedLog ==
  ASSUME TypeOK, NEW i,
         log' = [log EXCEPT ![i] = [exists |-> TRUE, done |-> FALSE, mtime |-> now]]
  PROVE  log' \in [MarkerIds -> LogFile]
  <1>1. log \in [MarkerIds -> LogFile] /\ now \in Nat
    BY DEF TypeOK
  <1>2. QED
    BY <1>1 DEF LogFile

\* What make appends to a log leaves logs.
LEMMA AppendedLog ==
  ASSUME TypeOK, NEW i, log' = [log EXCEPT ![i].mtime = now]
  PROVE  log' \in [MarkerIds -> LogFile]
  <1>1. log \in [MarkerIds -> LogFile] /\ now \in Nat
    BY DEF TypeOK
  <1>2. QED
    BY <1>1 DEF LogFile

\* BATCH_COMPLETE appended to a log leaves logs.
LEMMA MarkedLog ==
  ASSUME TypeOK, NEW i, log' = [log EXCEPT ![i].done = TRUE, ![i].mtime = now]
  PROVE  log' \in [MarkerIds -> LogFile]
  <1>1. log \in [MarkerIds -> LogFile] /\ now \in Nat
    BY DEF TypeOK
  <1>2. QED
    BY <1>1 DEF LogFile

\* A line a watchdog appends leaves sets of lines.
LEMMA SaidLine ==
  ASSUME TypeOK, NEW p \in Pushes,
         NEW kind \in {"ARMED", "STALL", "COMPLETE", "DEAD", "NOPID"}, Say(p, kind)
  PROVE  wdlog' \in [MarkerIds -> SUBSET Line]
  <1>1. wdlog \in [MarkerIds -> SUBSET Line]
    BY DEF TypeOK
  <1>2. [kind |-> kind, by |-> p] \in Line
    BY DEF Line
  <1>3. QED
    BY <1>1, <1>2 DEF Say

\* The inode an open returns belongs to a gate.
LEMMA OpenedInode ==
  ASSUME TypeOK, NEW p \in Pushes, NEW i \in MarkerIds
  PROVE  /\ (IF result[i].val = "absent" THEN p ELSE result[i].ino) \in Owners
         /\ (IF pidfile[i].val = "absent" THEN p ELSE pidfile[i].ino) \in Owners
  <1>1. result[i] \in ResultFile /\ pidfile[i] \in PidFile
    BY DEF TypeOK
  <1>2. QED
    BY <1>1 DEF ResultFile, PidFile, Owners

\* The last gated ref exists.
LEMMA LastPosition ==
  ASSUME NEW n \in Nat, NEW T, T \subseteq 1..n, T # {}
  PROVE  \E k \in T : \A j \in T : j <= k
  <1> DEFINE Left == {n - k : k \in T}
             Less == {ss \in Nat \X Nat : ss[1] < ss[2]}
  <1>1. IsWellFoundedOn(Less, Nat)
    BY NatLessThanWellFounded DEF OpToRel
  <1>2. Left \subseteq Nat /\ Left # {}
    <2>1. \A k \in T : n - k \in Nat
      OBVIOUS
    <2>2. QED
      BY <2>1
  <1>3. PICK m \in Left : \A y \in Left : ~(<<y, m>> \in Less)
    <2> HIDE DEF Left, Less
    <2>1. QED
      BY <1>1, <1>2, WFMin
  <1>4. PICK k \in T : m = n - k
    OBVIOUS
  <1>5. ASSUME NEW j \in T PROVE j <= k
    <2>1. n - j \in Left /\ n - j \in Nat /\ m \in Nat
      OBVIOUS
    <2>2. ~(n - j < m)
      BY <1>3, <2>1
    <2>3. QED
      BY <1>4, <2>2
  <1>6. QED
    BY <1>5

\* A push that spawns has a marker id.
LEMMA IdIsMarker ==
  ASSUME TypeOK, NEW p \in Pushes, Spawns(req[p])
  PROVE  Id(p) \in MarkerIds
  <1> DEFINE refs == req[p].refs
             pos  == GatedPositions(refs)
  <1>1. req[p] \in Request
    BY DEF TypeOK
  <1>2. /\ refs \in Seq(GatedRefs \union TaskRefs)
        /\ req[p].repo \in Repos
        /\ req[p].head \in Heads
    BY <1>1 DEF Request
  <1>3. pos \subseteq 1..Len(refs) /\ Len(refs) \in Nat /\ pos # {}
    BY <1>2 DEF GatedPositions, Spawns
  <1>4. \E k \in pos : \A j \in pos : j <= k
    <2> HIDE DEF pos
    <2>1. QED
      BY <1>3, LastPosition
  <1>5. (CHOOSE k \in pos : \A j \in pos : j <= k) \in pos
    BY <1>4
  <1>6. GateRef(refs) \in GatedRefs
    BY <1>5 DEF GateRef, GatedPositions
  <1>7. QED
    BY <1>2, <1>6 DEF Id, MarkerIds

------------------------------------------------------------------------------
(* Every step of the scripts and of the machine keeps the types. *)

\* Every step of the scripts and of the machine keeps the types.
LEMMA TypeOKStep == TypeInv /\ [Next]_vars => TypeOK'
  <1> SUFFICES ASSUME TypeInv, [Next]_vars PROVE TypeOK'
    OBVIOUS
  <1> TypeOK
    BY DEF TypeInv
  <1>1. ASSUME NEW p \in Pushes, Push(p) PROVE TypeOK'
    <2>1. hookPc' \in [Pushes -> HookPcs]
      BY <1>1 DEF Push, HookStep, HookPcs, TypeOK
    <2>2. QED
      BY <1>1, <2>1 DEF Push, TypeOK, fileVars, hookVars, gateVars, wdVars, envVars
  <1>2. ASSUME NEW p \in Pushes, RemoveResult(p) PROVE TypeOK'
    <2>1. hookPc' \in [Pushes -> HookPcs]
      BY <1>2 DEF RemoveResult, HookStep, HookPcs, TypeOK
    <2>2. result' \in [MarkerIds -> ResultFile]
      BY <1>2, RemovedResult DEF RemoveResult
    <2>3. QED
      BY <1>2, <2>1, <2>2 DEF RemoveResult, TypeOK, fileVars, hookVars, gateVars, wdVars, envVars
  <1>3. ASSUME NEW p \in Pushes, RemovePidfile(p) PROVE TypeOK'
    <2>1. hookPc' \in [Pushes -> HookPcs]
      BY <1>3 DEF RemovePidfile, HookStep, HookPcs, TypeOK
    <2>2. pidfile' \in [MarkerIds -> PidFile]
      BY <1>3, RemovedPidfile DEF RemovePidfile
    <2>3. QED
      BY <1>3, <2>1, <2>2 DEF RemovePidfile, TypeOK, fileVars, hookVars, gateVars, wdVars, envVars
  <1>4. ASSUME NEW p \in Pushes, TruncateLog(p) PROVE TypeOK'
    <2>1. hookPc' \in [Pushes -> HookPcs]
      BY <1>4 DEF TruncateLog, HookStep, HookPcs, TypeOK
    <2>2. log' \in [MarkerIds -> LogFile]
      BY <1>4, TruncatedLog DEF TruncateLog, TypeOK, fileVars
    <2>3. QED
      BY <1>4, <2>1, <2>2 DEF TruncateLog, TypeOK, fileVars, hookVars, gateVars, wdVars, envVars
  <1>5. ASSUME NEW p \in Pushes, TruncateWatchdogLog(p) PROVE TypeOK'
    <2>1. hookPc' \in [Pushes -> HookPcs]
      BY <1>5 DEF TruncateWatchdogLog, HookStep, HookPcs, TypeOK
    <2>2. wdlog' \in [MarkerIds -> SUBSET Line]
      BY <1>5 DEF TruncateWatchdogLog, TypeOK
    <2>3. QED
      BY <1>5, <2>1, <2>2 DEF TruncateWatchdogLog, TypeOK, fileVars, hookVars, gateVars, wdVars, envVars
  <1>6. ASSUME NEW p \in Pushes, SpawnGate(p) PROVE TypeOK'
    <2>1. hookPc' \in [Pushes -> HookPcs]
      BY <1>6 DEF SpawnGate, HookStep, HookPcs, TypeOK
    <2>2. gatePc' \in [Pushes -> GatePcs]
      BY <1>6 DEF SpawnGate, GatePcs, GateProcess, TypeOK
    <2>3. QED
      BY <1>6, <2>1, <2>2 DEF SpawnGate, TypeOK, fileVars, hookVars, gateVars, wdVars, envVars
  <1>7. ASSUME NEW p \in Pushes, SpawnWatchdog(p) PROVE TypeOK'
    <2>1. hookPc' \in [Pushes -> HookPcs]
      BY <1>7 DEF SpawnWatchdog, HookStep, HookPcs, TypeOK
    <2>2. wdPc' \in [Pushes -> WdPcs]
      BY <1>7 DEF SpawnWatchdog, WdPcs, TypeOK
    <2>3. QED
      BY <1>7, <2>1, <2>2 DEF SpawnWatchdog, TypeOK, fileVars, hookVars, gateVars, wdVars, envVars
  <1>8. ASSUME NEW p \in Pushes, OpenPidfile(p) PROVE TypeOK'
    <2>1. gatePc' \in [Pushes -> GatePcs]
      BY <1>8 DEF OpenPidfile, GateStep, GatePcs, GateProcess, TypeOK
    <2>2. Id(p) \in MarkerIds
      BY <1>8, IdIsMarker DEF OpenPidfile, HookOrder, GateStep, TypeInv
    <2>3. pidfile' \in [MarkerIds -> PidFile]
      BY <1>8, OpenedPidfile, OpenedInode, <2>2 DEF OpenPidfile
    <2>4. fd' \in [Pushes -> Owners]
      BY <1>8, OpenedInode, <2>2 DEF OpenPidfile, TypeOK
    <2>5. QED
      BY <1>8, <2>1, <2>2, <2>3, <2>4 DEF OpenPidfile, TypeOK, fileVars, hookVars, gateVars, wdVars, envVars
  <1>9. ASSUME NEW p \in Pushes, WritePid(p) PROVE TypeOK'
    <2>1. gatePc' \in [Pushes -> GatePcs]
      BY <1>9 DEF WritePid, GateStep, GatePcs, GateProcess, TypeOK
    <2>2. fd' \in [Pushes -> Owners]
      BY <1>9 DEF WritePid, Owners, TypeOK
    <2>3. pidfile' \in [MarkerIds -> PidFile]
      BY <1>9, WrittenPidfile DEF WritePid, TypeOK
    <2>4. QED
      BY <1>9, <2>1, <2>2, <2>3 DEF WritePid, TypeOK, fileVars, hookVars, gateVars, wdVars, envVars
  <1>10. ASSUME NEW p \in Pushes, RunCheck(p) PROVE TypeOK'
    <2>1. PICK ok \in BOOLEAN : RunCheck(p)!(ok)
      BY <1>10 DEF RunCheck
    <2>2. /\ ran \in [Pushes -> Seq(BOOLEAN)]
          /\ gatePc \in [Pushes -> GatePcs]
          /\ verdict \in [Pushes -> Verdicts \union {"none"}]
          /\ ran[p] \in Seq(BOOLEAN)
          /\ Len(ran[p]) < Checks
      BY <2>1 DEF TypeInv, TypeOK, GateProgress
    <2>3. ran' \in [Pushes -> Seq(BOOLEAN)]
      BY <2>1, <2>2
    <2>4. \A q \in Pushes : Len(ran'[q]) <= Checks
      <3>1. Len(ran'[p]) <= Checks
        BY <2>1, <2>2
      <3>2. \A q \in Pushes \ {p} : ran'[q] = ran[q]
        BY <2>1, <2>2
      <3>3. QED
        BY <3>1, <3>2 DEF TypeOK
    <2>5. log' \in [MarkerIds -> LogFile]
      BY <2>1, AppendedLog
    <2>6. gatePc' \in [Pushes -> GatePcs]
      BY <2>1, <2>2 DEF GatePcs, GateProcess
    <2>7. verdict' \in [Pushes -> Verdicts \union {"none"}]
      BY <2>1, <2>2 DEF Verdicts
    <2>8. QED
      BY <2>1, <2>3, <2>4, <2>5, <2>6, <2>7 DEF TypeOK, fileVars, hookVars, gateVars, wdVars, envVars
  <1>11. ASSUME NEW p \in Pushes, OpenResult(p) PROVE TypeOK'
    <2>1. gatePc' \in [Pushes -> GatePcs]
      BY <1>11 DEF OpenResult, GateStep, GatePcs, GateProcess, TypeOK
    <2>2. Id(p) \in MarkerIds
      BY <1>11, IdIsMarker DEF OpenResult, HookOrder, GateStep, TypeInv
    <2>3. result' \in [MarkerIds -> ResultFile]
      BY <1>11, OpenedResult, OpenedInode, <2>2 DEF OpenResult
    <2>4. fd' \in [Pushes -> Owners]
      BY <1>11, OpenedInode, <2>2 DEF OpenResult, TypeOK
    <2>5. QED
      BY <1>11, <2>1, <2>2, <2>3, <2>4 DEF OpenResult, TypeOK, fileVars, hookVars, gateVars, wdVars, envVars
  <1>12. ASSUME NEW p \in Pushes, WriteResult(p) PROVE TypeOK'
    <2>1. gatePc' \in [Pushes -> GatePcs]
      BY <1>12 DEF WriteResult, GateStep, GatePcs, GateProcess, TypeOK
    <2>2. fd' \in [Pushes -> Owners]
      BY <1>12 DEF WriteResult, Owners, TypeOK
    <2>3. verdict[p] \in Verdicts
      BY <1>12 DEF WriteResult, GateProgress, GateStep, TypeInv
    <2>4. result' \in [MarkerIds -> ResultFile]
      BY <1>12, WrittenResult, <2>3 DEF WriteResult, TypeOK
    <2>5. QED
      BY <1>12, <2>1, <2>2, <2>3, <2>4 DEF WriteResult, TypeOK, fileVars, hookVars, gateVars, wdVars, envVars
  <1>13. ASSUME NEW p \in Pushes, MarkComplete(p) PROVE TypeOK'
    <2>1. gatePc' \in [Pushes -> GatePcs]
      BY <1>13 DEF MarkComplete, GateStep, GatePcs, GateProcess, TypeOK
    <2>2. log' \in [MarkerIds -> LogFile]
      BY <1>13, MarkedLog DEF MarkComplete
    <2>3. QED
      BY <1>13, <2>1, <2>2 DEF MarkComplete, TypeOK, fileVars, hookVars, gateVars, wdVars, envVars
  <1>14. ASSUME NEW p \in Pushes, GateExit(p) PROVE TypeOK'
    <2>1. gatePc' \in [Pushes -> GatePcs]
      BY <1>14 DEF GateExit, GateStep, GatePcs, GateProcess, TypeOK
    <2>2. QED
      BY <1>14, <2>1 DEF GateExit, TypeOK, fileVars, hookVars, gateVars, wdVars, envVars
  <1>15. ASSUME NEW p \in Pushes, Arm(p) PROVE TypeOK'
    <2>1. wdPc' \in [Pushes -> WdPcs]
      BY <1>15 DEF Arm, WatchdogStep, WdPcs, TypeOK
    <2>2. wdlog' \in [MarkerIds -> SUBSET Line]
      BY <1>15, SaidLine DEF Arm
    <2>3. QED
      BY <1>15, <2>1, <2>2 DEF Arm, TypeOK, fileVars, hookVars, gateVars, wdVars, envVars
  <1>16. ASSUME NEW p \in Pushes, PollPidfile(p) PROVE TypeOK'
    <2>1. wdPc' \in [Pushes -> WdPcs]
      BY <1>16 DEF PollPidfile, WdPcs, TypeOK
    <2>2. polls \in [Pushes -> 0..PidPolls] /\ polls[p] < PidPolls
      BY <1>16 DEF PollPidfile, TypeOK
    <2>3. polls[p] + 1 \in 0..PidPolls
      BY <1>16, <2>2 DEF PollPidfile
    <2>4. polls' \in [Pushes -> 0..PidPolls]
      BY <1>16, <2>2, <2>3 DEF PollPidfile
    <2>5. QED
      BY <1>16, <2>1, <2>2, <2>3, <2>4 DEF PollPidfile, TypeOK, fileVars, hookVars, gateVars, wdVars, envVars
  <1>17. ASSUME NEW p \in Pushes, ReadPidfile(p) PROVE TypeOK'
    <2>1. wdPc' \in [Pushes -> WdPcs]
      BY <1>17 DEF ReadPidfile, WdPcs, TypeOK
    <2>2. polls \in [Pushes -> 0..PidPolls] /\ polls[p] < PidPolls
      BY <1>17 DEF ReadPidfile, TypeInv, PollsLeft, TypeOK
    <2>3. polls[p] + 1 \in 0..PidPolls
      BY <1>17, <2>2 DEF ReadPidfile
    <2>4. polls' \in [Pushes -> 0..PidPolls]
      BY <1>17, <2>2, <2>3 DEF ReadPidfile
    <2>5. wdPid' \in [Pushes -> Owners]
      BY <1>17 DEF ReadPidfile, Owners, TypeOK
    <2>6. QED
      BY <1>17, <2>1, <2>2, <2>3, <2>4, <2>5 DEF ReadPidfile, TypeOK, fileVars, hookVars, gateVars, wdVars, envVars
  <1>18. ASSUME NEW p \in Pushes, GiveUp(p) PROVE TypeOK'
    <2>1. wdPc' \in [Pushes -> WdPcs]
      BY <1>18 DEF GiveUp, WdPcs, TypeOK
    <2>2. wdlog' \in [MarkerIds -> SUBSET Line]
      BY <1>18, SaidLine DEF GiveUp
    <2>3. QED
      BY <1>18, <2>1, <2>2 DEF GiveUp, TypeOK, fileVars, hookVars, gateVars, wdVars, envVars
  <1>19. ASSUME NEW p \in Pushes, ProbePid(p) PROVE TypeOK'
    <2>1. wdPc' \in [Pushes -> WdPcs]
      BY <1>19 DEF ProbePid, WatchdogStep, WdPcs, TypeOK
    <2>2. QED
      BY <1>19, <2>1 DEF ProbePid, TypeOK, fileVars, hookVars, gateVars, wdVars, envVars
  <1>20. ASSUME NEW p \in Pushes, Watch(p) PROVE TypeOK'
    <2>1. wdPc' \in [Pushes -> WdPcs]
      BY <1>20 DEF Watch, WdPcs, TypeOK
    <2>2. wdlog' \in [MarkerIds -> SUBSET Line]
      BY <1>20, SaidLine DEF Watch, TypeOK
    <2>3. QED
      BY <1>20, <2>1, <2>2 DEF Watch, TypeOK, fileVars, hookVars, gateVars, wdVars, envVars
  <1>21. ASSUME NEW p \in Pushes, Conclude(p) PROVE TypeOK'
    <2>1. wdPc' \in [Pushes -> WdPcs]
      BY <1>21 DEF Conclude, WatchdogStep, WdPcs, TypeOK
    <2>2. wdlog' \in [MarkerIds -> SUBSET Line]
      BY <1>21, SaidLine DEF Conclude
    <2>3. QED
      BY <1>21, <2>1, <2>2 DEF Conclude, TypeOK, fileVars, hookVars, gateVars, wdVars, envVars
  <1>22. ASSUME NEW p \in Pushes, KillGate(p) PROVE TypeOK'
    <2>1. gatePc' \in [Pushes -> GatePcs]
      BY <1>22 DEF KillGate, GatePcs, TypeOK
    <2>2. fd' \in [Pushes -> Owners]
      BY <1>22 DEF KillGate, Owners, TypeOK
    <2>3. QED
      BY <1>22, <2>1, <2>2 DEF KillGate, TypeOK, fileVars, hookVars, gateVars, wdVars, envVars
  <1>23. ASSUME NEW p \in Pushes, KillWatchdog(p) PROVE TypeOK'
    <2>1. wdPc' \in [Pushes -> WdPcs]
      BY <1>23 DEF KillWatchdog, WdPcs, TypeOK
    <2>2. QED
      BY <1>23, <2>1 DEF KillWatchdog, TypeOK, fileVars, hookVars, gateVars, wdVars, envVars
  <1>24. ASSUME NEW p \in Pushes, ReusePid(p) PROVE TypeOK'
    <2>1. reused' \subseteq Pushes
      BY <1>24 DEF ReusePid, TypeOK
    <2>2. QED
      BY <1>24, <2>1 DEF ReusePid, TypeOK, fileVars, hookVars, gateVars, wdVars, envVars
  <1>25. ASSUME NEW p \in Pushes, FreePid(p) PROVE TypeOK'
    <2>1. reused' \subseteq Pushes
      BY <1>25 DEF FreePid, TypeOK
    <2>2. QED
      BY <1>25, <2>1 DEF FreePid, TypeOK, fileVars, hookVars, gateVars, wdVars, envVars
  <1>26. ASSUME Tick PROVE TypeOK'
    BY <1>26 DEF Tick, TypeOK, fileVars, hookVars, gateVars, wdVars, envVars
  <1>27. ASSUME UNCHANGED vars PROVE TypeOK'
    BY <1>27 DEF vars, TypeOK, fileVars, hookVars, gateVars, wdVars, envVars
  <1>28. QED
    BY <1>1, <1>2, <1>3, <1>4, <1>5, <1>6, <1>7, <1>8, <1>9, <1>10, <1>11, <1>12,
       <1>13, <1>14, <1>15, <1>16, <1>17, <1>18, <1>19, <1>20, <1>21, <1>22, <1>23,
       <1>24, <1>25, <1>26, <1>27 DEF Next, Machine, Hook, Gate, Watchdog

\* A step keeps what a gate's control says of its checks and its open file.
LEMMA GateProgressStep == TypeInv /\ [Next]_vars => GateProgress'
  <1> SUFFICES ASSUME TypeInv, [Next]_vars PROVE GateProgress'
    OBVIOUS
  <1> TypeOK /\ GateProgress
    BY DEF TypeInv
  <1>1. CASE UNCHANGED <<gatePc, ran, verdict>>
    BY <1>1 DEF GateProgress
  <1>2. gatePc \in [Pushes -> GatePcs]
    BY DEF TypeOK
  <1>3. ASSUME NEW p \in Pushes, RunCheck(p) PROVE GateProgress'
    <2>1. PICK ok \in BOOLEAN : RunCheck(p)!(ok)
      BY <1>3 DEF RunCheck
    <2>2. /\ ran \in [Pushes -> Seq(BOOLEAN)]
          /\ verdict \in [Pushes -> Verdicts \union {"none"}]
          /\ ran[p] \in Seq(BOOLEAN)
          /\ Len(ran[p]) < Checks
          /\ \A k \in DOMAIN ran[p] : ran[p][k]
          /\ verdict[p] = "none"
      BY <2>1 DEF TypeOK, GateProgress
    <2>3. CASE ok /\ Len(ran[p]) + 1 < Checks
      <3>1. /\ gatePc'[p] = "make" /\ verdict'[p] = "none"
            /\ Len(ran'[p]) < Checks
            /\ \A k \in DOMAIN ran'[p] : ran'[p][k]
        BY <2>1, <2>2, <2>3
      <3>2. \A q \in Pushes \ {p} : ran'[q] = ran[q] /\ gatePc'[q] = gatePc[q]
                                                    /\ verdict'[q] = verdict[q]
        BY <2>1, <2>2, <2>3
      <3>3. QED
        BY <3>1, <3>2 DEF GateProgress
    <2>4. CASE ~ok \/ Len(ran[p]) + 1 = Checks
      <3>1. gatePc'[p] = "open_result" /\ verdict'[p] \in Verdicts
        BY <1>2, <2>1, <2>2, <2>4 DEF Verdicts
      <3>2. \A q \in Pushes \ {p} : ran'[q] = ran[q] /\ gatePc'[q] = gatePc[q]
                                                    /\ verdict'[q] = verdict[q]
        BY <1>2, <2>1, <2>2, <2>4
      <3>3. QED
        BY <3>1, <3>2 DEF GateProgress
    <2>5. QED
      BY <2>2, <2>3, <2>4
  <1>4. ASSUME NEW p \in Pushes, Gate(p), ~RunCheck(p) PROVE GateProgress'
    BY <1>2, <1>4 DEF Gate, OpenPidfile, WritePid, OpenResult, WriteResult, MarkComplete, GateExit,
                      GateStep, GateProgress
  <1>5. ASSUME NEW p \in Pushes, SpawnGate(p) PROVE GateProgress'
    <2>1. gatePc[p] = "none" /\ gatePc'[p] = "open_pid"
      BY <1>2, <1>5 DEF SpawnGate, HookStep, TypeInv, HookOrder
    <2>2. QED
      BY <1>2, <1>5, <2>1 DEF SpawnGate, GateProgress
  <1>6. ASSUME NEW p \in Pushes, KillGate(p) PROVE GateProgress'
    BY <1>2, <1>6 DEF KillGate, GateProgress
  <1>7. ASSUME NEW p \in Pushes, Hook(p), ~SpawnGate(p) PROVE UNCHANGED <<gatePc, ran, verdict>>
    BY <1>7 DEF Hook, Push, RemoveResult, RemovePidfile, TruncateLog, TruncateWatchdogLog,
                SpawnWatchdog, gateVars
  <1>8. ASSUME NEW p \in Pushes, Watchdog(p) PROVE UNCHANGED <<gatePc, ran, verdict>>
    BY <1>8 DEF Watchdog, Arm, PollPidfile, ReadPidfile, GiveUp, ProbePid, Watch, Conclude, gateVars
  <1>9. ASSUME Machine, ~\E p \in Pushes : KillGate(p) PROVE UNCHANGED <<gatePc, ran, verdict>>
    BY <1>9 DEF Machine, Tick, KillWatchdog, ReusePid, FreePid, gateVars
  <1>10. CASE UNCHANGED vars
    BY <1>1, <1>10 DEF vars, gateVars
  <1>11. QED
    BY <1>1, <1>3, <1>4, <1>5, <1>6, <1>7, <1>8, <1>9, <1>10 DEF Next

\* A watchdog that polls the pidfile has polls left.
LEMMA PollsLeftStep == TypeInv /\ [Next]_vars => PollsLeft'
  <1> SUFFICES ASSUME TypeInv, [Next]_vars PROVE PollsLeft'
    OBVIOUS
  <1>1. /\ wdPc \in [Pushes -> WdPcs]
        /\ polls \in [Pushes -> 0..PidPolls]
        /\ PollsLeft
    BY DEF TypeInv, TypeOK
  <1>2. CASE UNCHANGED <<wdPc, polls>>
    BY <1>1, <1>2 DEF PollsLeft
  <1>3. ASSUME NEW p \in Pushes, Watchdog(p) PROVE PollsLeft'
    BY <1>1, <1>3 DEF Watchdog, Arm, PollPidfile, ReadPidfile, GiveUp, ProbePid, Watch, Conclude,
                      WatchdogStep, PollsLeft
  <1>4. ASSUME NEW p \in Pushes, SpawnWatchdog(p) \/ KillWatchdog(p) PROVE PollsLeft'
    BY <1>1, <1>4 DEF SpawnWatchdog, KillWatchdog, PollsLeft
  <1>5. ASSUME NEW p \in Pushes, Hook(p), ~SpawnWatchdog(p) PROVE UNCHANGED <<wdPc, polls>>
    BY <1>5 DEF Hook, Push, RemoveResult, RemovePidfile, TruncateLog, TruncateWatchdogLog,
                SpawnGate, wdVars
  <1>6. ASSUME NEW p \in Pushes, Gate(p) PROVE UNCHANGED <<wdPc, polls>>
    BY <1>6 DEF Gate, OpenPidfile, WritePid, RunCheck, OpenResult, WriteResult, MarkComplete,
                GateExit, wdVars
  <1>7. ASSUME Machine, ~\E p \in Pushes : KillWatchdog(p) PROVE UNCHANGED <<wdPc, polls>>
    BY <1>7 DEF Machine, Tick, KillGate, ReusePid, FreePid, wdVars
  <1>8. CASE UNCHANGED vars
    BY <1>2, <1>8 DEF vars, wdVars
  <1>9. QED
    BY <1>2, <1>3, <1>4, <1>5, <1>6, <1>7, <1>8 DEF Next

\* A hook reaches its lines in order: what it has spawned it spawned for a pushed gate.
LEMMA HookOrderStep == TypeInv /\ [Next]_vars => HookOrder'
  <1> SUFFICES ASSUME TypeInv, [Next]_vars PROVE HookOrder'
    OBVIOUS
  <1>1. /\ hookPc \in [Pushes -> HookPcs]
        /\ gatePc \in [Pushes -> GatePcs]
        /\ wdPc \in [Pushes -> WdPcs]
        /\ HookOrder
    BY DEF TypeInv, TypeOK
  <1>2. CASE UNCHANGED <<hookPc, req, gatePc, wdPc>>
    BY <1>1, <1>2 DEF HookOrder, Spawns
  <1>3. ASSUME NEW p \in Pushes, Hook(p) PROVE HookOrder'
    <2>1. req' = req
      BY <1>3 DEF Hook, Push, RemoveResult, RemovePidfile, TruncateLog, TruncateWatchdogLog,
                  SpawnGate, SpawnWatchdog
    <2>2. \A q \in Pushes : Spawns(req'[q]) = Spawns(req[q])
      BY <2>1
    <2>3. QED
      BY <1>1, <1>3, <2>2 DEF Hook, Push, RemoveResult, RemovePidfile, TruncateLog,
         TruncateWatchdogLog, SpawnGate, SpawnWatchdog, HookStep, gateVars, wdVars, HookOrder
  <1>4. ASSUME NEW p \in Pushes, Gate(p) PROVE HookOrder'
    <2>1. req' = req /\ hookPc' = hookPc /\ wdPc' = wdPc
      BY <1>4 DEF Gate, OpenPidfile, WritePid, RunCheck, OpenResult, WriteResult, MarkComplete,
                  GateExit, hookVars, wdVars
    <2>2. gatePc[p] # "none" /\ gatePc'[p] # "none"
      BY <1>1, <1>4 DEF Gate, OpenPidfile, WritePid, RunCheck, OpenResult, WriteResult,
                        MarkComplete, GateExit, GateStep
    <2>3. \A q \in Pushes \ {p} : gatePc'[q] = gatePc[q]
      BY <1>1, <1>4 DEF Gate, OpenPidfile, WritePid, RunCheck, OpenResult, WriteResult,
                        MarkComplete, GateExit, GateStep
    <2>4. QED
      BY <1>1, <2>1, <2>2, <2>3 DEF HookOrder
  <1>5. ASSUME NEW p \in Pushes, Watchdog(p) PROVE HookOrder'
    <2>1. req' = req /\ hookPc' = hookPc /\ gatePc' = gatePc
      BY <1>5 DEF Watchdog, Arm, PollPidfile, ReadPidfile, GiveUp, ProbePid, Watch, Conclude,
                  hookVars, gateVars
    <2>2. wdPc[p] # "none" /\ \A q \in Pushes \ {p} : wdPc'[q] = wdPc[q]
      BY <1>1, <1>5 DEF Watchdog, Arm, PollPidfile, ReadPidfile, GiveUp, ProbePid, Watch, Conclude,
                  WatchdogStep
    <2>3. QED
      BY <1>1, <2>1, <2>2 DEF HookOrder
  <1>6. ASSUME NEW p \in Pushes, KillGate(p) \/ KillWatchdog(p) PROVE HookOrder'
    <2>1. req' = req /\ hookPc' = hookPc
      BY <1>6 DEF KillGate, KillWatchdog, hookVars
    <2>2. QED
      BY <1>1, <1>6, <2>1 DEF KillGate, KillWatchdog, GateProcess, gateVars, wdVars, HookOrder
  <1>7. ASSUME Machine, ~\E p \in Pushes : KillGate(p) \/ KillWatchdog(p)
        PROVE  UNCHANGED <<hookPc, req, gatePc, wdPc>>
    BY <1>7 DEF Machine, Tick, ReusePid, FreePid, hookVars, gateVars, wdVars
  <1>8. CASE UNCHANGED vars
    BY <1>2, <1>8 DEF vars, hookVars, gateVars, wdVars
  <1>9. QED
    BY <1>2, <1>3, <1>4, <1>5, <1>6, <1>7, <1>8 DEF Next

\* Every reachable state is well typed and the scripts' control is where the hook,
\* make and the watchdog's loops can have brought it.
THEOREM TypeCorrect == Spec => []TypeInv
  <1>1. TypeInv /\ [Next]_vars => TypeInv'
    BY TypeOKStep, GateProgressStep, PollsLeftStep, HookOrderStep DEF TypeInv
  <1>2. QED
    BY TypeInvInit, <1>1, PTL DEF Spec
------------------------------------------------------------------------------
(* Verdicts are earned. *)

\* No step changes what a push asked, and so its marker id.
LEMMA SameIds ==
  ASSUME [Next]_vars
  PROVE  /\ req' = req
         /\ \A p \in Pushes : Id(p)' = Id(p) /\ Spawns(req[p])' = Spawns(req[p])
                             /\ Sole(p)' = Sole(p)
  <1>1. req' = req
    <2>1. ASSUME NEW p \in Pushes, Hook(p) PROVE req' = req
      BY <2>1 DEF Hook, Push, RemoveResult, RemovePidfile, TruncateLog, TruncateWatchdogLog,
                  SpawnGate, SpawnWatchdog
    <2>2. ASSUME NEW p \in Pushes, Gate(p) PROVE req' = req
      BY <2>2 DEF Gate, OpenPidfile, WritePid, RunCheck, OpenResult, WriteResult, MarkComplete,
                  GateExit, hookVars
    <2>3. ASSUME NEW p \in Pushes, Watchdog(p) PROVE req' = req
      BY <2>3 DEF Watchdog, Arm, PollPidfile, ReadPidfile, GiveUp, ProbePid, Watch, Conclude,
                  hookVars
    <2>4. CASE Machine \/ UNCHANGED vars
      BY <2>4 DEF Machine, Tick, KillGate, KillWatchdog, ReusePid, FreePid, vars, hookVars
    <2>5. QED
      BY <2>1, <2>2, <2>3, <2>4 DEF Next
  <1>2. QED
    BY <1>1 DEF Id, Spawns, Sole

\* A verdict once taken, and the checks it rests on, never change.
LEMMA VerdictStable ==
  ASSUME TypeInv, [Next]_vars, NEW q \in Pushes, verdict[q] \in Verdicts
  PROVE  verdict'[q] = verdict[q] /\ ran'[q] = ran[q]
  <1>1. CASE UNCHANGED <<verdict, ran>>
    BY <1>1
  <1>2. ASSUME NEW p \in Pushes, RunCheck(p) PROVE verdict'[q] = verdict[q] /\ ran'[q] = ran[q]
    <2>1. verdict[p] = "none" /\ p # q
      BY <1>2 DEF TypeInv, GateProgress, RunCheck, Verdicts
    <2>2. ran \in [Pushes -> Seq(BOOLEAN)] /\ verdict \in [Pushes -> Verdicts \union {"none"}]
      BY DEF TypeInv, TypeOK
    <2>3. QED
      BY <1>2, <2>1, <2>2 DEF RunCheck
  <1>3. ASSUME NEW p \in Pushes, Gate(p), ~RunCheck(p) PROVE UNCHANGED <<verdict, ran>>
    BY <1>3 DEF Gate, OpenPidfile, WritePid, OpenResult, WriteResult, MarkComplete, GateExit
  <1>4. ASSUME NEW p \in Pushes, Hook(p) PROVE UNCHANGED <<verdict, ran>>
    BY <1>4 DEF Hook, Push, RemoveResult, RemovePidfile, TruncateLog, TruncateWatchdogLog,
                SpawnGate, SpawnWatchdog, gateVars
  <1>5. ASSUME NEW p \in Pushes, Watchdog(p) PROVE UNCHANGED <<verdict, ran>>
    BY <1>5 DEF Watchdog, Arm, PollPidfile, ReadPidfile, GiveUp, ProbePid, Watch, Conclude,
                gateVars
  <1>6. CASE Machine \/ UNCHANGED vars
    BY <1>1, <1>6 DEF Machine, Tick, KillGate, KillWatchdog, ReusePid, FreePid, vars, gateVars
  <1>7. QED
    BY <1>1, <1>2, <1>3, <1>4, <1>5, <1>6 DEF Next

\* Whoever has a verdict has earned it.
VerdictIsEarned == \A q \in Pushes : verdict[q] \in Verdicts => EarnedBy(q, verdict[q])

\* A verdict on disk is the verdict of a gate with that id.
ResultHasAuthor ==
  \A i \in MarkerIds : result[i].val \in Verdicts =>
    \E q \in Pushes : Spawns(req[q]) /\ Id(q) = i /\ verdict[q] = result[i].val

\* A step keeps each gate's verdict the outcome of its own checks.
LEMMA VerdictIsEarnedStep ==
  TypeInv /\ VerdictIsEarned /\ [Next]_vars => VerdictIsEarned'
  <1> SUFFICES ASSUME TypeInv, VerdictIsEarned, [Next]_vars,
                      NEW q \in Pushes, verdict'[q] \in Verdicts
               PROVE  EarnedBy(q, verdict[q])'
    BY DEF VerdictIsEarned
  <1>1. CASE verdict[q] \in Verdicts
    BY <1>1, VerdictStable DEF VerdictIsEarned, EarnedBy
  <1>2. CASE verdict[q] \notin Verdicts
    <2>1. PICK p \in Pushes : RunCheck(p)
      <3>1. ASSUME NEW p \in Pushes, Hook(p) \/ Watchdog(p) PROVE verdict' = verdict
        BY <3>1 DEF Hook, Push, RemoveResult, RemovePidfile, TruncateLog, TruncateWatchdogLog,
             SpawnGate, SpawnWatchdog, Watchdog, Arm, PollPidfile, ReadPidfile, GiveUp, ProbePid,
             Watch, Conclude, gateVars
      <3>2. ASSUME NEW p \in Pushes, Gate(p), ~RunCheck(p) PROVE verdict' = verdict
        BY <3>2 DEF Gate, OpenPidfile, WritePid, OpenResult, WriteResult, MarkComplete, GateExit
      <3>3. CASE Machine \/ UNCHANGED vars
        BY <1>2, <3>3 DEF Machine, Tick, KillGate, KillWatchdog, ReusePid, FreePid, vars, gateVars
      <3>4. QED
        BY <1>2, <3>1, <3>2, <3>3 DEF Next, Gate
    <2>2. PICK ok \in BOOLEAN : RunCheck(p)!(ok)
      BY <2>1 DEF RunCheck
    <2>3. /\ verdict \in [Pushes -> Verdicts \union {"none"}]
          /\ ran \in [Pushes -> Seq(BOOLEAN)]
          /\ ran[p] \in Seq(BOOLEAN)
          /\ \A k \in DOMAIN ran[p] : ran[p][k]
      BY <2>2 DEF TypeInv, TypeOK, GateProgress
    <2>4. q = p /\ (~ok \/ Len(ran[p]) + 1 = Checks) /\ verdict'[p] = IF ok THEN "PASS" ELSE "FAIL"
      BY <1>2, <2>2, <2>3
    <2>5. ran'[p] = Append(ran[p], ok) /\ Len(ran'[p]) = Len(ran[p]) + 1
      BY <2>2, <2>3
    <2>6. CASE ok
      <3>1. Len(ran'[p]) = Checks
        BY <2>4, <2>5, <2>6
      <3>2. \A k \in DOMAIN ran'[p] : ran'[p][k]
        BY <2>3, <2>5, <2>6
      <3>3. QED
        BY <2>4, <2>6, <3>1, <3>2 DEF EarnedBy
    <2>7. CASE ~ok
      <3>1. Len(ran'[p]) \in DOMAIN ran'[p] /\ ~ran'[p][Len(ran'[p])]
        BY <2>3, <2>5, <2>7
      <3>2. QED
        BY <2>4, <2>7, <3>1 DEF EarnedBy
    <2>8. QED
      BY <2>6, <2>7
  <1>3. QED
    BY <1>1, <1>2

\* A step keeps every verdict on disk one that a gate of that id has taken.
LEMMA ResultHasAuthorStep ==
  TypeInv /\ ResultHasAuthor /\ [Next]_vars => ResultHasAuthor'
  <1> SUFFICES ASSUME TypeInv, ResultHasAuthor, [Next]_vars,
                      NEW i \in MarkerIds, result'[i].val \in Verdicts
               PROVE  \E q \in Pushes : Spawns(req'[q]) /\ Id(q)' = i
                                        /\ verdict'[q] = result'[i].val
    BY DEF ResultHasAuthor
  <1>1. CASE result'[i].val = result[i].val
    <2>1. PICK q \in Pushes : Spawns(req[q]) /\ Id(q) = i /\ verdict[q] = result[i].val
      BY <1>1 DEF ResultHasAuthor
    <2>2. verdict'[q] = verdict[q]
      BY <1>1, <2>1, VerdictStable
    <2>3. QED
      BY <1>1, <2>1, <2>2, SameIds
  <1>2. ASSUME NEW p \in Pushes, WriteResult(p), result'[i].val # result[i].val
        PROVE  Spawns(req'[p]) /\ Id(p)' = i /\ verdict'[p] = result'[i].val
    <2>1. gatePc[p] = "write_result" /\ Spawns(req[p])
      BY <1>2 DEF WriteResult, GateStep, TypeInv, HookOrder
    <2>2. result \in [MarkerIds -> ResultFile] /\ Id(p) \in MarkerIds
      BY <2>1, IdIsMarker DEF TypeInv, TypeOK
    <2>3. Id(p) = i /\ result'[i].val = verdict[p]
      BY <1>2, <2>2 DEF WriteResult, ResultFile
    <2>4. verdict' = verdict
      BY <1>2 DEF WriteResult
    <2>5. QED
      BY <2>1, <2>3, <2>4, SameIds
  <1>3. ASSUME NEW p \in Pushes, RemoveResult(p) \/ OpenResult(p) PROVE result'[i].val = result[i].val
    <2>1. result \in [MarkerIds -> ResultFile]
      BY DEF TypeInv, TypeOK
    <2>2. QED
      BY <1>3, <2>1 DEF RemoveResult, OpenResult, NoResult, Verdicts
  <1>4. ASSUME NEW p \in Pushes, Gate(p), ~WriteResult(p), ~OpenResult(p) PROVE result' = result
    BY <1>4 DEF Gate, OpenPidfile, WritePid, RunCheck, MarkComplete, GateExit, fileVars
  <1>5. ASSUME NEW p \in Pushes, Hook(p), ~RemoveResult(p) PROVE result' = result
    BY <1>5 DEF Hook, Push, RemovePidfile, TruncateLog, TruncateWatchdogLog, SpawnGate,
                SpawnWatchdog, fileVars
  <1>6. ASSUME NEW p \in Pushes, Watchdog(p) PROVE result' = result
    BY <1>6 DEF Watchdog, Arm, PollPidfile, ReadPidfile, GiveUp, ProbePid, Watch, Conclude, fileVars
  <1>7. CASE Machine \/ UNCHANGED vars
    <2>1. result' = result
      BY <1>7 DEF Machine, Tick, KillGate, KillWatchdog, ReusePid, FreePid, vars, fileVars
    <2>2. QED
      BY <1>1, <2>1
  <1>8. QED
    BY <1>1, <1>2, <1>3, <1>4, <1>5, <1>6, <1>7 DEF Next

\* Whatever pushes race, a PASS or FAIL on disk was earned by a gate of that id.
THEOREM ResultsAreEarned == Spec => []ResultIsEarned
  <1>1. Init => VerdictIsEarned /\ ResultHasAuthor
    BY DEF Init, VerdictIsEarned, ResultHasAuthor, NoResult, Verdicts
  <1>2. VerdictIsEarned /\ ResultHasAuthor => ResultIsEarned
    <2>1. ASSUME VerdictIsEarned, ResultHasAuthor, NEW i \in MarkerIds, result[i].val \in Verdicts
          PROVE  \E q \in Pushes : Spawns(req[q]) /\ Id(q) = i /\ EarnedBy(q, result[i].val)
      <3>1. PICK q \in Pushes : Spawns(req[q]) /\ Id(q) = i /\ verdict[q] = result[i].val
        BY <2>1 DEF ResultHasAuthor
      <3>2. QED
        BY <2>1, <3>1 DEF VerdictIsEarned
    <2>2. QED
      BY <2>1 DEF ResultIsEarned
  <1>3. QED
    BY TypeCorrect, <1>1, <1>2, VerdictIsEarnedStep, ResultHasAuthorStep, PTL DEF Spec
------------------------------------------------------------------------------
(* A gate whose marker id is its own. *)

\* What its four files, its control and its watchdog have to do with each other.
Private(p) ==
  /\ gatePc[p] \in {"none", "open_pid", "write_pid", "make", "open_result"} =>
       result[Id(p)].val = "absent"
  /\ gatePc[p] = "write_result" => /\ result[Id(p)].val = "empty"
                                   /\ result[Id(p)].ino = fd[p]
  /\ gatePc[p] \in {"mark", "exiting", "exited"} => result[Id(p)].val = verdict[p]
  /\ gatePc[p] \in {"exiting", "exited"} => log[Id(p)].done
  /\ log[Id(p)].done => /\ gatePc[p] \in {"exiting", "exited", "killed"}
                        /\ result[Id(p)].val = verdict[p]
                        /\ verdict[p] \in Verdicts
  /\ pidfile[Id(p)].val \in {"absent", "empty", p}
  /\ wdPc[p] \in {"loop", "grep", "final"} => wdPid[p] = p
  /\ wdPc[p] = "final" => gatePc[p] \in {"exited", "killed"}
  /\ Reported(p, "COMPLETE") => log[Id(p)].done
  /\ Reported(p, "DEAD") => gatePc[p] = "killed" /\ ~log[Id(p)].done

SoleInv == \A p \in Pushes : Sole(p) => Private(p)

\* A step of somebody else.
Untouched(p) ==
  /\ result'[Id(p)] = result[Id(p)] /\ pidfile'[Id(p)] = pidfile[Id(p)]
  /\ log'[Id(p)] = log[Id(p)] /\ wdlog'[Id(p)] = wdlog[Id(p)]
  /\ gatePc'[p] = gatePc[p] /\ fd'[p] = fd[p] /\ verdict'[p] = verdict[p]
  /\ wdPc'[p] = wdPc[p] /\ wdPid'[p] = wdPid[p]

\* A step that touches neither the files nor the processes of p keeps what is private to p.
LEMMA UntouchedIsPrivate ==
  ASSUME [Next]_vars, NEW p \in Pushes, Private(p), Untouched(p)
  PROVE  Private(p)'
  <1>1. Id(p)' = Id(p)
    BY SameIds
  <1>2. \A k : Reported(p, k)' = Reported(p, k)
    BY <1>1 DEF Reported, Untouched
  <1>3. QED
    BY <1>1, <1>2 DEF Private, Untouched

\* The steps of another push stay away from the files and processes of p.
LEMMA OthersElsewhere ==
  ASSUME TypeInv, NEW p \in Pushes, Sole(p), NEW q \in Pushes, q # p,
         Hook(q) \/ Gate(q) \/ Watchdog(q) \/ KillGate(q) \/ KillWatchdog(q)
  PROVE  Untouched(p)
  <1>1. /\ result \in [MarkerIds -> ResultFile]
        /\ pidfile \in [MarkerIds -> PidFile]
        /\ log \in [MarkerIds -> LogFile]
        /\ wdlog \in [MarkerIds -> SUBSET Line]
        /\ gatePc \in [Pushes -> GatePcs]
        /\ fd \in [Pushes -> Owners]
        /\ verdict \in [Pushes -> Verdicts \union {"none"}]
        /\ wdPc \in [Pushes -> WdPcs]
        /\ wdPid \in [Pushes -> Owners]
    BY DEF TypeInv, TypeOK
  <1>2. /\ Id(p) \in MarkerIds
        /\ Spawns(req[q]) => Id(q) # Id(p)
    BY IdIsMarker DEF Sole, TypeInv
  <1>3. CASE Hook(q)
    <2>1. CASE Push(q)
      BY <2>1 DEF Push, Untouched, fileVars, gateVars, wdVars
    <2>2. CASE RemoveResult(q) \/ RemovePidfile(q) \/ TruncateLog(q) \/ TruncateWatchdogLog(q)
      <3>1. Spawns(req[q])
        BY <2>2 DEF RemoveResult, RemovePidfile, TruncateLog, TruncateWatchdogLog, HookStep,
                    TypeInv, HookOrder
      <3>2. UNCHANGED <<gatePc, fd, verdict, wdPc, wdPid>>
        BY <2>2 DEF RemoveResult, RemovePidfile, TruncateLog, TruncateWatchdogLog, gateVars, wdVars
      <3>3. result'[Id(p)] = result[Id(p)] /\ pidfile'[Id(p)] = pidfile[Id(p)]
        BY <1>1, <1>2, <2>2, <3>1 DEF RemoveResult, RemovePidfile, TruncateLog,
           TruncateWatchdogLog, fileVars
      <3>4. log'[Id(p)] = log[Id(p)] /\ wdlog'[Id(p)] = wdlog[Id(p)]
        BY <1>1, <1>2, <2>2, <3>1 DEF RemoveResult, RemovePidfile, TruncateLog,
           TruncateWatchdogLog, fileVars
      <3>5. QED
        BY <3>2, <3>3, <3>4 DEF Untouched
    <2>3. CASE SpawnGate(q) \/ SpawnWatchdog(q)
      BY <1>1, <2>3 DEF SpawnGate, SpawnWatchdog, Untouched, fileVars, gateVars, wdVars
    <2>4. QED
      BY <1>3, <2>1, <2>2, <2>3 DEF Hook
  <1>4. CASE Gate(q)
    <2>1. Spawns(req[q])
      BY <1>4 DEF Gate, OpenPidfile, WritePid, RunCheck, OpenResult, WriteResult, MarkComplete,
                  GateExit, GateStep, TypeInv, HookOrder
    <2>2. CASE OpenPidfile(q) \/ WritePid(q)
      <3>1. UNCHANGED <<result, log, wdlog, verdict, wdPc, wdPid>>
        BY <2>2 DEF OpenPidfile, WritePid, wdVars
      <3>2. pidfile'[Id(p)] = pidfile[Id(p)]
        BY <1>1, <1>2, <2>1, <2>2 DEF OpenPidfile, WritePid
      <3>3. gatePc'[p] = gatePc[p] /\ fd'[p] = fd[p]
        BY <1>1, <2>2 DEF OpenPidfile, WritePid, GateStep
      <3>4. QED
        BY <3>1, <3>2, <3>3 DEF Untouched
    <2>3. CASE RunCheck(q)
      BY <1>1, <1>2, <2>1, <2>3 DEF RunCheck, Untouched, wdVars
    <2>4. CASE OpenResult(q) \/ WriteResult(q)
      <3>1. UNCHANGED <<pidfile, log, wdlog, verdict, wdPc, wdPid>>
        BY <2>4 DEF OpenResult, WriteResult, wdVars
      <3>2. result'[Id(p)] = result[Id(p)]
        BY <1>1, <1>2, <2>1, <2>4 DEF OpenResult, WriteResult
      <3>3. gatePc'[p] = gatePc[p] /\ fd'[p] = fd[p]
        BY <1>1, <2>4 DEF OpenResult, WriteResult, GateStep
      <3>4. QED
        BY <3>1, <3>2, <3>3 DEF Untouched
    <2>5. CASE MarkComplete(q) \/ GateExit(q)
      <3>1. UNCHANGED <<result, pidfile, wdlog, fd, verdict, wdPc, wdPid>>
        BY <2>5 DEF MarkComplete, GateExit, fileVars, wdVars
      <3>2. log'[Id(p)] = log[Id(p)]
        BY <1>1, <1>2, <2>1, <2>5 DEF MarkComplete, GateExit, fileVars
      <3>3. gatePc'[p] = gatePc[p]
        BY <1>1, <2>5 DEF MarkComplete, GateExit, GateStep
      <3>4. QED
        BY <3>1, <3>2, <3>3 DEF Untouched
    <2>6. QED
      BY <1>4, <2>2, <2>3, <2>4, <2>5 DEF Gate
  <1>5. CASE Watchdog(q)
    <2>1. Spawns(req[q])
      BY <1>5 DEF Watchdog, Arm, PollPidfile, ReadPidfile, GiveUp, ProbePid, Watch, Conclude,
                  WatchdogStep, TypeInv, HookOrder
    <2>2. UNCHANGED <<result, pidfile, log, gatePc, fd, verdict>>
      BY <1>5 DEF Watchdog, Arm, PollPidfile, ReadPidfile, GiveUp, ProbePid, Watch, Conclude,
                  fileVars, gateVars
    <2>3. wdlog'[Id(p)] = wdlog[Id(p)]
      BY <1>1, <1>2, <1>5, <2>1 DEF Watchdog, Arm, PollPidfile, ReadPidfile, GiveUp, ProbePid,
         Watch, Conclude, Say, fileVars
    <2>4. wdPc'[p] = wdPc[p] /\ wdPid'[p] = wdPid[p]
      BY <1>1, <1>5 DEF Watchdog, Arm, PollPidfile, ReadPidfile, GiveUp, ProbePid, Watch, Conclude,
                        WatchdogStep
    <2>5. QED
      BY <2>2, <2>3, <2>4 DEF Untouched
  <1>6. CASE KillGate(q) \/ KillWatchdog(q)
    BY <1>1, <1>6 DEF KillGate, KillWatchdog, Untouched, fileVars, gateVars, wdVars
  <1>7. QED
    BY <1>3, <1>4, <1>5, <1>6

\* The hook of a push with an id of its own keeps that push's part of SoleInv.
LEMMA PrivateHook ==
  ASSUME TypeInv, [Next]_vars, NEW p \in Pushes, Sole(p), Private(p), Hook(p)
  PROVE  Private(p)'
  <1>1. /\ result \in [MarkerIds -> ResultFile]
        /\ pidfile \in [MarkerIds -> PidFile]
        /\ log \in [MarkerIds -> LogFile]
        /\ wdlog \in [MarkerIds -> SUBSET Line]
        /\ gatePc \in [Pushes -> GatePcs]
        /\ wdPc \in [Pushes -> WdPcs]
        /\ Id(p) \in MarkerIds
        /\ Id(p)' = Id(p)
    BY IdIsMarker, SameIds DEF TypeInv, TypeOK, Sole
  <1>2. CASE Push(p)
    <2>1. Untouched(p)
      BY <1>2 DEF Push, Untouched, fileVars, gateVars, wdVars
    <2>2. QED
      BY <2>1, UntouchedIsPrivate
  <1>3. CASE RemoveResult(p) \/ RemovePidfile(p) \/ TruncateLog(p) \/ TruncateWatchdogLog(p)
             \/ SpawnGate(p)
    <2>1. gatePc[p] = "none" /\ wdPc[p] = "none"
      BY <1>3 DEF RemoveResult, RemovePidfile, TruncateLog, TruncateWatchdogLog, SpawnGate,
                  HookStep, TypeInv, HookOrder
    <2>2. result[Id(p)].val = "absent" /\ ~log[Id(p)].done /\ ~Reported(p, "COMPLETE")
          /\ ~Reported(p, "DEAD") /\ pidfile[Id(p)].val \in {"absent", "empty", p}
      BY <2>1 DEF Private
    <2>3. result'[Id(p)].val = "absent" /\ pidfile'[Id(p)].val \in {"absent", "empty", p}
      BY <1>1, <1>3, <2>2 DEF RemoveResult, RemovePidfile, TruncateLog, TruncateWatchdogLog,
         SpawnGate, NoResult, NoPidfile, fileVars
    <2>4. ~log'[Id(p)].done
      BY <1>1, <1>3, <2>2 DEF RemoveResult, RemovePidfile, TruncateLog, TruncateWatchdogLog,
         SpawnGate, fileVars
    <2>5. ~Reported(p, "COMPLETE")' /\ ~Reported(p, "DEAD")'
      BY <1>1, <1>3, <2>2 DEF RemoveResult, RemovePidfile, TruncateLog, TruncateWatchdogLog,
         SpawnGate, Reported, fileVars
    <2>6. gatePc'[p] \in {"none", "open_pid"} /\ wdPc'[p] = "none"
      BY <1>1, <1>3, <2>1 DEF RemoveResult, RemovePidfile, TruncateLog, TruncateWatchdogLog,
         SpawnGate, gateVars, wdVars
    <2>7. QED
      BY <1>1, <2>3, <2>4, <2>5, <2>6 DEF Private
  <1>4. CASE SpawnWatchdog(p)
    <2>1. /\ UNCHANGED <<result, pidfile, log, wdlog, gatePc, fd, verdict, wdPid>>
          /\ wdPc[p] = "none"
          /\ wdPc'[p] \in {"none", "arm"}
      BY <1>1, <1>4 DEF SpawnWatchdog, HookStep, TypeInv, HookOrder, fileVars, gateVars
    <2>2. \A k : Reported(p, k)' = Reported(p, k)
      BY <1>1, <2>1 DEF Reported
    <2>3. QED
      BY <1>1, <2>1, <2>2 DEF Private
  <1>5. QED
    BY <1>2, <1>3, <1>4 DEF Hook

\* So does its gate.
LEMMA PrivateGate ==
  ASSUME TypeInv, [Next]_vars, NEW p \in Pushes, Sole(p), Private(p), Gate(p)
  PROVE  Private(p)'
  <1>1. /\ result \in [MarkerIds -> ResultFile]
        /\ pidfile \in [MarkerIds -> PidFile]
        /\ log \in [MarkerIds -> LogFile]
        /\ gatePc \in [Pushes -> GatePcs]
        /\ fd \in [Pushes -> Owners]
        /\ verdict \in [Pushes -> Verdicts \union {"none"}]
        /\ Id(p) \in MarkerIds
        /\ Id(p)' = Id(p)
    BY IdIsMarker, SameIds DEF TypeInv, TypeOK, Sole
  \* No step of the gate writes the watchdog's log or moves the watchdog.
  <1>2. UNCHANGED <<wdlog, wdPc, wdPid>> /\ gatePc[p] \in GateProcess
    BY DEF Gate, OpenPidfile, WritePid, RunCheck, OpenResult, WriteResult, MarkComplete, GateExit,
           GateStep, GateProcess, wdVars, fileVars
  <1>3. \A k : Reported(p, k)' = Reported(p, k)
    BY <1>1, <1>2 DEF Reported
  <1>4. wdPc[p] # "final" /\ ~Reported(p, "DEAD")
    BY <1>2 DEF Private, GateProcess
  <1>5. CASE OpenPidfile(p) \/ WritePid(p)
    <2>1. UNCHANGED <<result, log, verdict>>
      BY <1>5 DEF OpenPidfile, WritePid
    <2>2. gatePc[p] \in {"open_pid", "write_pid"} /\ gatePc'[p] \in {"write_pid", "make"}
      BY <1>1, <1>5 DEF OpenPidfile, WritePid, GateStep
    <2>3. pidfile'[Id(p)].val \in {"absent", "empty", p}
      <3>1. CASE OpenPidfile(p)
        BY <1>1, <3>1 DEF OpenPidfile, PidFile
      <3>2. CASE WritePid(p)
        BY <1>1, <3>2 DEF WritePid, PidFile, Private
      <3>3. QED
        BY <1>5, <3>1, <3>2
    <2>4. QED
      BY <1>1, <1>2, <1>3, <1>4, <2>1, <2>2, <2>3 DEF Private
  <1>6. CASE RunCheck(p)
    <2>1. /\ UNCHANGED <<result, pidfile>>
          /\ gatePc[p] = "make" /\ gatePc'[p] \in {"make", "open_result"}
      BY <1>1, <1>6 DEF RunCheck
    <2>2. log'[Id(p)].done = log[Id(p)].done
      BY <1>1, <1>6 DEF RunCheck, LogFile
    <2>3. QED
      BY <1>1, <1>2, <1>3, <1>4, <2>1, <2>2 DEF Private
  <1>7. CASE OpenResult(p)
    <2>1. /\ UNCHANGED <<pidfile, log, verdict>>
          /\ gatePc[p] = "open_result" /\ gatePc'[p] = "write_result"
      BY <1>1, <1>7 DEF OpenResult, GateStep
    <2>2. result'[Id(p)].val = "empty" /\ result'[Id(p)].ino = fd'[p]
      BY <1>1, <1>7 DEF OpenResult, ResultFile
    <2>3. QED
      BY <1>1, <1>2, <1>3, <1>4, <2>1, <2>2 DEF Private
  <1>8. CASE WriteResult(p)
    <2>1. /\ UNCHANGED <<pidfile, log, verdict>>
          /\ gatePc[p] = "write_result" /\ gatePc'[p] = "mark"
      BY <1>1, <1>8 DEF WriteResult, GateStep
    <2>2. result[Id(p)].ino = fd[p]
      BY <2>1 DEF Private
    <2>3. result'[Id(p)].val = verdict[p]
      BY <1>1, <1>8, <2>2 DEF WriteResult, ResultFile
    <2>4. QED
      BY <1>1, <1>2, <1>3, <1>4, <2>1, <2>3 DEF Private
  <1>9. CASE MarkComplete(p)
    <2>1. /\ UNCHANGED <<result, pidfile, verdict>>
          /\ gatePc[p] = "mark" /\ gatePc'[p] = "exiting"
      BY <1>1, <1>9 DEF MarkComplete, GateStep
    <2>2. log'[Id(p)].done
      BY <1>1, <1>9 DEF MarkComplete, LogFile
    <2>3. verdict[p] \in Verdicts
      BY <2>1 DEF TypeInv, GateProgress
    <2>4. QED
      BY <1>1, <1>2, <1>3, <1>4, <2>1, <2>2, <2>3 DEF Private
  <1>10. CASE GateExit(p)
    <2>1. /\ UNCHANGED <<result, pidfile, log, verdict>>
          /\ gatePc[p] = "exiting" /\ gatePc'[p] = "exited"
      BY <1>1, <1>10 DEF GateExit, GateStep, fileVars
    <2>2. QED
      BY <1>1, <1>2, <1>3, <1>4, <2>1 DEF Private
  <1>11. QED
    BY <1>5, <1>6, <1>7, <1>8, <1>9, <1>10 DEF Gate

\* So does its watchdog, which reads the files only its own gate writes.
LEMMA PrivateWatchdog ==
  ASSUME TypeInv, [Next]_vars, NEW p \in Pushes, Sole(p), Private(p), Watchdog(p)
  PROVE  Private(p)'
  <1>1. /\ wdlog \in [MarkerIds -> SUBSET Line]
        /\ gatePc \in [Pushes -> GatePcs]
        /\ wdPc \in [Pushes -> WdPcs]
        /\ wdPid \in [Pushes -> Owners]
        /\ Id(p) \in MarkerIds
        /\ Id(p)' = Id(p)
    BY IdIsMarker, SameIds DEF TypeInv, TypeOK, Sole
  <1>2. UNCHANGED <<result, pidfile, log, gatePc, fd, verdict>>
    BY DEF Watchdog, Arm, PollPidfile, ReadPidfile, GiveUp, ProbePid, Watch, Conclude, fileVars,
           gateVars
  <1>3. ASSUME wdPc'[p] \in {"loop", "grep", "final"} => wdPid'[p] = p,
               wdPc'[p] = "final" => gatePc[p] \in {"exited", "killed"},
               Reported(p, "COMPLETE")' => log[Id(p)].done,
               Reported(p, "DEAD")' => gatePc[p] = "killed" /\ ~log[Id(p)].done
        PROVE  Private(p)'
    <2>1. /\ gatePc'[p] = gatePc[p] /\ log'[Id(p)'] = log[Id(p)] /\ verdict'[p] = verdict[p]
          /\ result'[Id(p)'] = result[Id(p)] /\ pidfile'[Id(p)'] = pidfile[Id(p)]
          /\ fd'[p] = fd[p]
      BY <1>1, <1>2
    <2>2. QED
      BY <1>3, <2>1 DEF Private
  \* The lines a step adds, and what it does not.
  <1>4. ASSUME NEW k, Say(p, k), NEW m, m # k PROVE Reported(p, m)' = Reported(p, m)
    BY <1>1, <1>4 DEF Say, Reported
  <1>5. ASSUME wdlog' = wdlog, NEW m PROVE Reported(p, m)' = Reported(p, m)
    BY <1>1, <1>5 DEF Reported
  <1>6. CASE Arm(p)
    <2>1. wdPc'[p] = "wait" /\ Say(p, "ARMED")
      BY <1>1, <1>6 DEF Arm, WatchdogStep
    <2>2. QED
      BY <1>3, <1>4, <2>1 DEF Private
  <1>7. CASE PollPidfile(p)
    <2>1. wdPc'[p] \in {"wait", "cat"} /\ wdlog' = wdlog
      BY <1>1, <1>7 DEF PollPidfile, fileVars
    <2>2. QED
      BY <1>3, <1>5, <2>1 DEF Private
  <1>8. CASE ReadPidfile(p)
    <2>1. wdPc'[p] \in {"loop", "nopid", "wait"} /\ wdlog' = wdlog
      BY <1>1, <1>8 DEF ReadPidfile, fileVars
    <2>2. wdPc'[p] = "loop" => wdPid'[p] = p
      <3>1. ASSUME wdPc'[p] = "loop" PROVE pidfile[Id(p)].val \in Pushes
                                           /\ wdPid'[p] = pidfile[Id(p)].val
        BY <1>1, <1>8, <3>1 DEF ReadPidfile
      <3>2. QED
        BY <3>1 DEF Private
    <2>3. QED
      BY <1>3, <1>5, <2>1, <2>2 DEF Private
  <1>9. CASE GiveUp(p)
    <2>1. wdPc'[p] = "over" /\ Say(p, "NOPID")
      BY <1>1, <1>9 DEF GiveUp
    <2>2. QED
      BY <1>3, <1>4, <2>1 DEF Private
  <1>10. CASE ProbePid(p)
    <2>1. wdPc[p] = "loop" /\ wdPid[p] = p /\ wdPid'[p] = p /\ wdlog' = wdlog
      BY <1>10 DEF ProbePid, WatchdogStep, Private, fileVars
    <2>2. wdPc'[p] = IF Alive(p) THEN "grep" ELSE "final"
      BY <1>1, <1>10, <2>1 DEF ProbePid, WatchdogStep
    <2>3. wdPc'[p] = "final" => gatePc[p] \in {"exited", "killed"}
      <3>1. gatePc[p] # "none"
        BY <2>1 DEF TypeInv, HookOrder
      <3>2. QED
        BY <1>1, <2>2, <3>1 DEF Alive, GatePcs
    <2>4. QED
      BY <1>3, <1>5, <2>1, <2>3 DEF Private
  <1>11. CASE Watch(p)
    <2>1. wdPc[p] = "grep" /\ wdPid'[p] = p
      BY <1>11 DEF Watch, Private
    <2>2. wdPc'[p] \in {"over", "loop", "crashed"}
      BY <1>1, <1>11 DEF Watch
    <2>3. \/ Say(p, "COMPLETE") /\ log[Id(p)].done
          \/ Say(p, "STALL")
          \/ wdlog' = wdlog
      BY <1>11 DEF Watch
    <2>4. Reported(p, "COMPLETE")' => log[Id(p)].done
      BY <1>4, <1>5, <2>3 DEF Private
    <2>5. Reported(p, "DEAD")' => gatePc[p] = "killed" /\ ~log[Id(p)].done
      BY <1>4, <1>5, <2>3 DEF Private
    <2>6. QED
      BY <1>3, <2>1, <2>2, <2>4, <2>5
  <1>12. CASE Conclude(p)
    <2>1. wdPc[p] = "final" /\ wdPc'[p] = "over" /\ gatePc[p] \in {"exited", "killed"}
      BY <1>1, <1>12 DEF Conclude, WatchdogStep, Private
    <2>2. CASE log[Id(p)].done
      <3>1. Say(p, "COMPLETE")
        BY <1>12, <2>2 DEF Conclude
      <3>2. QED
        BY <1>3, <1>4, <2>1, <2>2, <3>1 DEF Private
    <2>3. CASE ~log[Id(p)].done
      <3>1. Say(p, "DEAD") /\ gatePc[p] = "killed"
        BY <1>12, <2>1, <2>3 DEF Conclude, Private
      <3>2. QED
        BY <1>3, <1>4, <2>1, <2>3, <3>1 DEF Private
    <2>4. QED
      BY <2>2, <2>3
  <1>13. QED
    BY <1>6, <1>7, <1>8, <1>9, <1>10, <1>11, <1>12 DEF Watchdog

\* So does a kill of either.
LEMMA PrivateMachine ==
  ASSUME TypeInv, [Next]_vars, NEW p \in Pushes, Sole(p), Private(p),
         KillGate(p) \/ KillWatchdog(p)
  PROVE  Private(p)'
  <1>1. /\ gatePc \in [Pushes -> GatePcs]
        /\ wdPc \in [Pushes -> WdPcs]
        /\ Id(p)' = Id(p)
    BY SameIds DEF TypeInv, TypeOK
  <1>2. \A k : Reported(p, k)' = Reported(p, k)
    BY <1>1 DEF KillGate, KillWatchdog, Reported, fileVars
  <1>3. CASE KillGate(p)
    <2>1. /\ UNCHANGED <<result, pidfile, log, wdlog, verdict, wdPc, wdPid>>
          /\ gatePc[p] \in GateProcess /\ gatePc'[p] = "killed"
      BY <1>1, <1>3 DEF KillGate, fileVars, wdVars
    <2>2. ~Reported(p, "DEAD") /\ wdPc[p] # "final"
      BY <2>1 DEF Private, GateProcess
    <2>3. QED
      BY <1>1, <1>2, <2>1, <2>2 DEF Private
  <1>4. CASE KillWatchdog(p)
    <2>1. /\ UNCHANGED <<result, pidfile, log, wdlog, gatePc, fd, verdict, wdPid>>
          /\ wdPc'[p] = "killed"
      BY <1>1, <1>4 DEF KillWatchdog, fileVars, gateVars
    <2>2. QED
      BY <1>1, <1>2, <2>1 DEF Private
  <1>5. QED
    BY <1>3, <1>4

\* Which ids are shared is settled when the pushes are.
LEMMA SoleIsRigid ==
  ASSUME [Next]_vars, NEW p \in Pushes
  PROVE  Sole(p)' = Sole(p)
  <1>1. req' = req /\ \A q \in Pushes : Id(q)' = Id(q)
    BY SameIds
  <1>2. QED
    BY <1>1 DEF Sole

\* Who takes a step, seen from one push.
LEMMA WhoMoves ==
  ASSUME Next, NEW p \in Pushes
  PROVE  \/ Hook(p) \/ Gate(p) \/ Watchdog(p) \/ KillGate(p) \/ KillWatchdog(p)
         \/ \E q \in Pushes \ {p} :
              Hook(q) \/ Gate(q) \/ Watchdog(q) \/ KillGate(q) \/ KillWatchdog(q)
         \/ UNCHANGED <<fileVars, hookVars, gateVars, wdVars>>
  <1>1. ASSUME Tick \/ \E q \in Pushes : ReusePid(q) \/ FreePid(q)
        PROVE  UNCHANGED <<fileVars, hookVars, gateVars, wdVars>>
    BY <1>1 DEF Tick, ReusePid, FreePid
  <1>2. QED
    BY <1>1 DEF Next, Machine

\* Any step keeps SoleInv: the push's own by the lemmas above, another's because it is elsewhere.
LEMMA SoleInvStep == TypeInv /\ SoleInv /\ [Next]_vars => SoleInv'
  <1> SUFFICES ASSUME TypeInv, SoleInv, [Next]_vars, NEW p \in Pushes, Sole(p)'
               PROVE  Private(p)'
    BY DEF SoleInv
  <1>1. Sole(p) /\ Private(p)
    BY SoleIsRigid DEF SoleInv
  <1>2. CASE Hook(p) \/ Gate(p) \/ Watchdog(p) \/ KillGate(p) \/ KillWatchdog(p)
    BY <1>1, <1>2, PrivateHook, PrivateGate, PrivateWatchdog, PrivateMachine
  <1>3. CASE \E q \in Pushes \ {p} :
               Hook(q) \/ Gate(q) \/ Watchdog(q) \/ KillGate(q) \/ KillWatchdog(q)
    BY <1>1, <1>3, OthersElsewhere, UntouchedIsPrivate
  <1>4. CASE UNCHANGED <<fileVars, hookVars, gateVars, wdVars>>
    <2>1. Untouched(p)
      BY <1>4 DEF Untouched, fileVars, gateVars, wdVars
    <2>2. QED
      BY <1>1, <2>1, UntouchedIsPrivate
  <1>5. QED
    BY <1>2, <1>3, <1>4, WhoMoves DEF vars

\* Before the first push nothing is published and nothing is said.
LEMMA SoleInvInit == Init => SoleInv
  <1> SUFFICES ASSUME Init, NEW p \in Pushes, Sole(p) PROVE Private(p)
    BY DEF SoleInv
  <1>1. Id(p) \in MarkerIds
    BY TypeInvInit, IdIsMarker DEF TypeInv, Sole
  <1>2. gatePc[p] = "none" /\ wdPc[p] = "none"
    BY DEF Init
  <1>3. /\ result[Id(p)].val = "absent" /\ pidfile[Id(p)].val = "absent"
        /\ ~log[Id(p)].done /\ wdlog[Id(p)] = {}
    BY <1>1 DEF Init, NoResult, NoPidfile, NoLog
  <1>4. QED
    BY <1>2, <1>3 DEF Private, Reported

\* A gate with an id of its own owns its files: what is in them, its control and what its
\* watchdog has said agree in every reachable state.
THEOREM SoleCorrect == Spec => []SoleInv
  <1>1. QED
    BY TypeCorrect, SoleInvInit, SoleInvStep, PTL DEF Spec

\* The log of a gate with an id of its own says BATCH_COMPLETE only of a gate whose
\* verdict is, and stays, on disk.
THEOREM MarkersFollowResults == Spec => []MarkerFollowsResult
  <1>1. SoleInv => MarkerFollowsResult
    BY DEF SoleInv, Private, MarkerFollowsResult
  <1>2. QED
    BY <1>1, SoleCorrect, PTL

\* The watchdog of such a gate says COMPLETE of a published verdict only, and DEAD
\* of a killed gate only.
THEOREM WatchdogsAreTruthful == Spec => []WatchdogIsTruthful
  <1>1. SoleInv => WatchdogIsTruthful
    BY DEF SoleInv, Private, WatchdogIsTruthful
  <1>2. QED
    BY <1>1, SoleCorrect, PTL

\* No step changes a verdict that a gate with an id of its own has published.
LEMMA VerdictIsKept ==
  ASSUME TypeInv, SoleInv, [Next]_vars,
         NEW p \in Pushes, Sole(p), result[Id(p)].val \in Verdicts
  PROVE  result'[Id(p)].val = result[Id(p)].val
  <1>1. gatePc[p] \notin {"none", "open_pid", "write_pid", "make", "open_result", "write_result"}
    BY DEF SoleInv, Private, Verdicts
  <1>2. CASE Hook(p)
    <2>1. ~RemoveResult(p)
      BY <1>1 DEF RemoveResult, HookStep, TypeInv, HookOrder
    <2>2. QED
      BY <1>2, <2>1 DEF Hook, Push, RemovePidfile, TruncateLog, TruncateWatchdogLog, SpawnGate,
                        SpawnWatchdog, fileVars
  <1>3. CASE Gate(p)
    <2>1. ~OpenResult(p) /\ ~WriteResult(p)
      BY <1>1 DEF OpenResult, WriteResult, GateStep
    <2>2. QED
      BY <1>3, <2>1 DEF Gate, OpenPidfile, WritePid, RunCheck, MarkComplete, GateExit, fileVars
  <1>4. CASE Watchdog(p) \/ KillGate(p) \/ KillWatchdog(p)
    BY <1>4 DEF Watchdog, Arm, PollPidfile, ReadPidfile, GiveUp, ProbePid, Watch, Conclude,
                KillGate, KillWatchdog, fileVars
  <1>5. CASE \E q \in Pushes \ {p} :
               Hook(q) \/ Gate(q) \/ Watchdog(q) \/ KillGate(q) \/ KillWatchdog(q)
    BY <1>5, OthersElsewhere DEF Untouched
  <1>6. CASE UNCHANGED <<fileVars, hookVars, gateVars, wdVars>>
    BY <1>6 DEF fileVars
  <1>7. QED
    BY <1>2, <1>3, <1>4, <1>5, <1>6, WhoMoves DEF vars

\* The verdict of a gate with an id of its own is never taken back.
THEOREM VerdictsAreFinal == Spec => VerdictIsFinal
  <1> DEFINE Kept == \A p \in Pushes : Sole(p) /\ result[Id(p)].val \in Verdicts =>
                       result'[Id(p)].val = result[Id(p)].val
  <1>1. TypeInv /\ SoleInv /\ [Next]_vars => [Kept]_vars
    BY VerdictIsKept
  <1>2. QED
    BY TypeCorrect, SoleCorrect, <1>1, PTL DEF Spec, VerdictIsFinal
------------------------------------------------------------------------------
(* Watchdogs, whatever ids are shared. *)

Gone(q) == gatePc[q] \in {"exited", "killed"}

\* A pid in a pidfile or in a watchdog's hands is the pid of a gate that started.
PidsAreStarted ==
  /\ \A i \in MarkerIds : pidfile[i].val \in Pushes => gatePc[pidfile[i].val] # "none"
  /\ \A p \in Pushes : wdPid[p] \in Pushes => gatePc[wdPid[p]] # "none"

TerminalKinds == {"COMPLETE", "DEAD", "NOPID"}

\* A watchdog that left its loop for the death of its pid, or said so, is right
\* about it, and whoever wrote a terminal line is over.
Watches(p) ==
  /\ wdPc[p] \in {"loop", "grep", "final"} => wdPid[p] \in Pushes
  /\ wdPc[p] = "final" => Gone(wdPid[p])
  /\ \A i \in MarkerIds, k \in TerminalKinds :
       [kind |-> k, by |-> p] \in wdlog[i] => wdPc[p] = "over"
  /\ \A i \in MarkerIds : [kind |-> "DEAD", by |-> p] \in wdlog[i] =>
                            wdPid[p] \in Pushes /\ Gone(wdPid[p])

Watching == \A p \in Pushes : Watches(p)

WatchInv == PidsAreStarted /\ Watching /\ OneTerminalLineEach

\* A gate once started stays started, and one that has ended stays ended.
LEMMA GateMovesOn ==
  ASSUME TypeInv, [Next]_vars, NEW q \in Pushes
  PROVE  /\ gatePc[q] # "none" => gatePc'[q] # "none"
         /\ gatePc[q] \in {"exited", "killed"} => gatePc'[q] \in {"exited", "killed"}
  <1>1. gatePc \in [Pushes -> GatePcs]
    BY DEF TypeInv, TypeOK
  <1>2. CASE gatePc' = gatePc
    BY <1>2
  <1>3. ASSUME NEW p \in Pushes, SpawnGate(p)
        PROVE  gatePc[p] = "none" /\ gatePc' = [gatePc EXCEPT ![p] = "open_pid"]
    BY <1>3 DEF SpawnGate, HookStep, TypeInv, HookOrder
  <1>4. ASSUME NEW p \in Pushes, Hook(p), ~SpawnGate(p) PROVE gatePc' = gatePc
    BY <1>4 DEF Hook, Push, RemoveResult, RemovePidfile, TruncateLog, TruncateWatchdogLog,
                SpawnWatchdog, gateVars
  <1>5. ASSUME NEW p \in Pushes, Gate(p) \/ KillGate(p)
        PROVE  /\ gatePc[p] \in GateProcess
               /\ gatePc'[p] # "none" /\ \A r \in Pushes \ {p} : gatePc'[r] = gatePc[r]
    BY <1>1, <1>5 DEF Gate, OpenPidfile, WritePid, RunCheck, OpenResult, WriteResult, MarkComplete,
       GateExit, GateStep, KillGate, GateProcess
  <1>6. ASSUME NEW p \in Pushes, Watchdog(p) \/ KillWatchdog(p) PROVE gatePc' = gatePc
    BY <1>6 DEF Watchdog, Arm, PollPidfile, ReadPidfile, GiveUp, ProbePid, Watch, Conclude,
                KillWatchdog, gateVars
  <1>7. CASE UNCHANGED <<fileVars, hookVars, gateVars, wdVars>>
    BY <1>2, <1>7 DEF gateVars
  <1>8. ASSUME NEW p \in Pushes, SpawnGate(p) \/ Gate(p) \/ KillGate(p)
        PROVE  /\ gatePc[q] # "none" => gatePc'[q] # "none"
               /\ gatePc[q] \in {"exited", "killed"} => gatePc'[q] \in {"exited", "killed"}
    BY <1>1, <1>3, <1>5, <1>8 DEF GateProcess
  <1>9. QED
    BY <1>2, <1>4, <1>6, <1>7, <1>8, WhoMoves DEF vars

\* A pid in a file, or read by a watchdog, is of a gate that was started.
LEMMA PidsAreStartedStep == TypeInv /\ PidsAreStarted /\ [Next]_vars => PidsAreStarted'
  <1> SUFFICES ASSUME TypeInv, PidsAreStarted, [Next]_vars PROVE PidsAreStarted'
    OBVIOUS
  <1>1. /\ pidfile \in [MarkerIds -> PidFile]
        /\ wdPid \in [Pushes -> Owners]
        /\ "absent" \notin Pushes /\ "empty" \notin Pushes
    BY NamesAssumption DEF TypeInv, TypeOK
  <1>2. ASSUME NEW i \in MarkerIds, pidfile'[i].val \in Pushes
        PROVE  gatePc'[pidfile'[i].val] # "none"
    <2>1. CASE pidfile'[i].val = pidfile[i].val
      BY <1>2, <2>1, GateMovesOn DEF PidsAreStarted
    <2>2. ASSUME NEW p \in Pushes, WritePid(p), pidfile'[i].val # pidfile[i].val
          PROVE  pidfile'[i].val = p /\ gatePc[p] = "write_pid"
      BY <1>1, <2>2 DEF WritePid, GateStep, PidFile
    <2>3. ASSUME NEW p \in Pushes, RemovePidfile(p) \/ OpenPidfile(p)
          PROVE  pidfile'[i].val \in {pidfile[i].val, "absent", "empty"}
      BY <1>1, <2>3 DEF RemovePidfile, OpenPidfile, NoPidfile, PidFile
    <2>4. ASSUME NEW p \in Pushes, Hook(p), ~RemovePidfile(p) PROVE pidfile' = pidfile
      BY <2>4 DEF Hook, Push, RemoveResult, TruncateLog, TruncateWatchdogLog, SpawnGate,
                  SpawnWatchdog, fileVars
    <2>5. ASSUME NEW p \in Pushes, Gate(p), ~WritePid(p), ~OpenPidfile(p) PROVE pidfile' = pidfile
      BY <2>5 DEF Gate, RunCheck, OpenResult, WriteResult, MarkComplete, GateExit, fileVars
    <2>6. ASSUME NEW p \in Pushes, Watchdog(p) \/ KillGate(p) \/ KillWatchdog(p)
          PROVE  pidfile' = pidfile
      BY <2>6 DEF Watchdog, Arm, PollPidfile, ReadPidfile, GiveUp, ProbePid, Watch, Conclude,
                  KillGate, KillWatchdog, fileVars
    <2>7. CASE UNCHANGED <<fileVars, hookVars, gateVars, wdVars>>
      BY <2>1, <2>7 DEF fileVars
    <2>8. QED
      BY <1>1, <1>2, <2>1, <2>2, <2>3, <2>4, <2>5, <2>6, <2>7, WhoMoves, GateMovesOn DEF vars
  <1>3. ASSUME NEW p \in Pushes, wdPid'[p] \in Pushes PROVE gatePc'[wdPid'[p]] # "none"
    <2>1. CASE wdPid'[p] = wdPid[p]
      BY <1>3, <2>1, GateMovesOn DEF PidsAreStarted
    <2>2. ASSUME NEW q \in Pushes, ReadPidfile(q), wdPid'[p] # wdPid[p]
          PROVE  Id(q) \in MarkerIds /\ wdPid'[p] = pidfile[Id(q)].val
      <3>1. Spawns(req[q])
        BY <2>2 DEF ReadPidfile, TypeInv, HookOrder
      <3>2. QED
        BY <1>1, <2>2, <3>1, IdIsMarker DEF ReadPidfile, TypeInv
    <2>3. ASSUME NEW q \in Pushes, Watchdog(q) \/ KillWatchdog(q), ~ReadPidfile(q)
          PROVE  wdPid' = wdPid
      BY <2>3 DEF Watchdog, Arm, PollPidfile, GiveUp, ProbePid, Watch, Conclude, KillWatchdog
    <2>4. ASSUME NEW q \in Pushes, Hook(q) \/ Gate(q) \/ KillGate(q) PROVE wdPid' = wdPid
      BY <2>4 DEF Hook, Push, RemoveResult, RemovePidfile, TruncateLog, TruncateWatchdogLog,
         SpawnGate, SpawnWatchdog, Gate, OpenPidfile, WritePid, RunCheck, OpenResult, WriteResult,
         MarkComplete, GateExit, KillGate, wdVars
    <2>5. CASE UNCHANGED <<fileVars, hookVars, gateVars, wdVars>>
      BY <2>1, <2>5 DEF wdVars
    <2>6. QED
      BY <1>3, <2>1, <2>2, <2>3, <2>4, <2>5, WhoMoves, GateMovesOn DEF vars, PidsAreStarted
  <1>4. QED
    BY <1>2, <1>3 DEF PidsAreStarted

\* A step that only moves the watchdog on, or removes lines.
LEMMA NoNewTerminalLine ==
  ASSUME TypeInv, [Next]_vars, NEW p \in Pushes, Watches(p), wdPid'[p] = wdPid[p],
         wdPc'[p] = wdPc[p] \/ (wdPc[p] # "over" /\ wdPc'[p] \notin {"loop", "grep", "final"}),
         \A i \in MarkerIds, k \in TerminalKinds :
           [kind |-> k, by |-> p] \in wdlog'[i] => [kind |-> k, by |-> p] \in wdlog[i]
  PROVE  Watches(p)'
  <1>1. ASSUME wdPid[p] \in Pushes, gatePc[wdPid[p]] \in {"exited", "killed"}
        PROVE  gatePc'[wdPid'[p]] \in {"exited", "killed"}
    BY <1>1, GateMovesOn
  <1>2. /\ wdPc'[p] \in {"loop", "grep", "final"} => wdPid'[p] \in Pushes
        /\ wdPc'[p] = "final" => wdPc[p] = "final"
    BY DEF Watches
  <1>3. wdPc'[p] = "final" => Gone(wdPid[p])'
    <2>1. wdPc[p] = "final" => wdPid[p] \in Pushes /\ gatePc[wdPid[p]] \in {"exited", "killed"}
      BY DEF Watches, Gone
    <2>2. QED
      BY <1>1, <1>2, <2>1 DEF Gone
  <1>4. ASSUME NEW i \in MarkerIds, NEW k \in TerminalKinds, [kind |-> k, by |-> p] \in wdlog'[i]
        PROVE  wdPc'[p] = "over"
    BY <1>4 DEF Watches
  <1>5. ASSUME NEW i \in MarkerIds, [kind |-> "DEAD", by |-> p] \in wdlog'[i]
        PROVE  wdPid'[p] \in Pushes /\ Gone(wdPid[p])'
    <2>1. [kind |-> "DEAD", by |-> p] \in wdlog[i]
      BY <1>5 DEF TerminalKinds
    <2>2. wdPid[p] \in Pushes /\ gatePc[wdPid[p]] \in {"exited", "killed"}
      BY <2>1 DEF Watches, Gone
    <2>3. QED
      BY <1>1, <2>2 DEF Gone
  <1>6. QED
    BY <1>2, <1>3, <1>4, <1>5 DEF Watches

\* A step keeps every watchdog's claim about its pid true, DEAD lines included.
LEMMA WatchesStep ==
  ASSUME TypeInv, PidsAreStarted, [Next]_vars, NEW p \in Pushes, Watches(p)
  PROVE  Watches(p)'
  <1>1. /\ wdlog \in [MarkerIds -> SUBSET Line]
        /\ wdPc \in [Pushes -> WdPcs]
        /\ wdPid \in [Pushes -> Owners]
        /\ gatePc \in [Pushes -> GatePcs]
    BY DEF TypeInv, TypeOK
  <1>2. ASSUME NEW q \in Pushes, NEW k, Say(q, k), k \notin TerminalKinds \/ q # p
        PROVE  \A i \in MarkerIds, m \in TerminalKinds :
                 [kind |-> m, by |-> p] \in wdlog'[i] => [kind |-> m, by |-> p] \in wdlog[i]
    BY <1>1, <1>2 DEF Say
  <1>3. ASSUME NEW q \in Pushes, Hook(q)
        PROVE  \A i \in MarkerIds, m \in TerminalKinds :
                 [kind |-> m, by |-> p] \in wdlog'[i] => [kind |-> m, by |-> p] \in wdlog[i]
    BY <1>1, <1>3 DEF Hook, Push, RemoveResult, RemovePidfile, TruncateLog, TruncateWatchdogLog,
       SpawnGate, SpawnWatchdog, fileVars
  <1>4. CASE \E q \in Pushes : Hook(q)
    <2>1. PICK q \in Pushes : Hook(q)
      BY <1>4
    <2>2. wdPid' = wdPid
      BY <2>1 DEF Hook, Push, RemoveResult, RemovePidfile, TruncateLog, TruncateWatchdogLog,
                  SpawnGate, SpawnWatchdog, wdVars
    <2>3. CASE ~SpawnWatchdog(q)
      <3>1. wdPc' = wdPc
        BY <2>1, <2>3 DEF Hook, Push, RemoveResult, RemovePidfile, TruncateLog,
           TruncateWatchdogLog, SpawnGate, wdVars
      <3>2. QED
        BY <1>3, <2>1, <2>2, <3>1, NoNewTerminalLine
    <2>4. CASE SpawnWatchdog(q)
      <3>1. wdPc'[p] = wdPc[p] \/ (wdPc[p] = "none" /\ wdPc'[p] = "arm")
        BY <1>1, <2>4 DEF SpawnWatchdog, HookStep, TypeInv, HookOrder
      <3>2. QED
        BY <1>3, <2>1, <2>2, <3>1, NoNewTerminalLine
    <2>5. QED
      BY <2>3, <2>4
  <1>5. CASE \E q \in Pushes : Gate(q) \/ KillGate(q)
    <2>1. UNCHANGED <<wdlog, wdPc, wdPid>>
      BY <1>5 DEF Gate, OpenPidfile, WritePid, RunCheck, OpenResult, WriteResult, MarkComplete,
                  GateExit, KillGate, wdVars, fileVars
    <2>2. QED
      BY <2>1, NoNewTerminalLine
  <1>6. CASE \E q \in Pushes \ {p} : Watchdog(q) \/ KillWatchdog(q)
    <2>1. PICK q \in Pushes \ {p} : Watchdog(q) \/ KillWatchdog(q)
      BY <1>6
    <2>2. wdPc'[p] = wdPc[p] /\ wdPid'[p] = wdPid[p]
      BY <1>1, <2>1 DEF Watchdog, Arm, PollPidfile, ReadPidfile, GiveUp, ProbePid, Watch, Conclude,
         WatchdogStep, KillWatchdog
    <2>3. (\E k : Say(q, k)) \/ wdlog' = wdlog
      BY <2>1 DEF Watchdog, Arm, PollPidfile, ReadPidfile, GiveUp, ProbePid, Watch, Conclude,
                  KillWatchdog, fileVars
    <2>4. QED
      BY <1>2, <2>1, <2>2, <2>3, NoNewTerminalLine
  <1>7. CASE KillWatchdog(p)
    <2>1. wdPc[p] # "over" /\ wdPc'[p] = "killed" /\ wdlog' = wdlog /\ wdPid' = wdPid
      BY <1>1, <1>7 DEF KillWatchdog, fileVars
    <2>2. QED
      BY <2>1, NoNewTerminalLine
  <1>8. CASE Arm(p) \/ PollPidfile(p)
    <2>1. wdPc[p] # "over" /\ wdPc'[p] \in {"wait", "cat"} /\ wdPid' = wdPid
      BY <1>1, <1>8 DEF Arm, PollPidfile, WatchdogStep
    <2>2. Say(p, "ARMED") \/ wdlog' = wdlog
      BY <1>8 DEF Arm, PollPidfile, fileVars
    <2>3. QED
      BY <1>2, <2>1, <2>2, NoNewTerminalLine DEF TerminalKinds
  <1>9. CASE ReadPidfile(p)
    <2>1. /\ wdPc[p] = "cat" /\ wdlog' = wdlog
          /\ wdPc'[p] \in {"loop", "nopid", "wait"}
          /\ wdPc'[p] = "loop" => wdPid'[p] \in Pushes
      BY <1>1, <1>9 DEF ReadPidfile, fileVars
    <2>2. \A i \in MarkerIds, k \in TerminalKinds : [kind |-> k, by |-> p] \notin wdlog'[i]
      BY <2>1 DEF Watches
    <2>3. QED
      BY <2>1, <2>2 DEF Watches, TerminalKinds
  <1>10. CASE GiveUp(p)
    <2>1. wdPc[p] # "over" /\ wdPc'[p] = "over" /\ wdPid' = wdPid /\ Say(p, "NOPID")
      BY <1>1, <1>10 DEF GiveUp
    <2>2. \A i \in MarkerIds : [kind |-> "DEAD", by |-> p] \notin wdlog'[i]
      BY <1>1, <2>1 DEF Say, Watches, TerminalKinds
    <2>3. QED
      BY <2>1, <2>2 DEF Watches
  <1>11. CASE ProbePid(p)
    <2>1. /\ wdPc[p] = "loop" /\ wdlog' = wdlog /\ wdPid' = wdPid /\ gatePc' = gatePc
          /\ wdPc'[p] = IF Alive(wdPid[p]) THEN "grep" ELSE "final"
      BY <1>1, <1>11 DEF ProbePid, WatchdogStep, fileVars, gateVars
    <2>2. wdPid[p] \in Pushes /\ gatePc[wdPid[p]] # "none"
      BY <2>1 DEF Watches, PidsAreStarted
    <2>3. wdPc'[p] = "final" => Gone(wdPid[p])
      BY <1>1, <2>1, <2>2 DEF Alive, GatePcs, Gone
    <2>4. QED
      BY <2>1, <2>2, <2>3 DEF Watches, TerminalKinds, Gone
  <1>12. CASE Watch(p)
    <2>1. wdPc[p] = "grep" /\ wdPid' = wdPid /\ gatePc' = gatePc
      BY <1>12 DEF Watch, gateVars
    <2>2. CASE Say(p, "COMPLETE") /\ wdPc'[p] = "over"
      <3>1. \A i \in MarkerIds : [kind |-> "DEAD", by |-> p] \notin wdlog'[i]
        BY <1>1, <2>1, <2>2 DEF Say, Watches, TerminalKinds
      <3>2. QED
        BY <2>1, <2>2, <3>1 DEF Watches
    <2>3. CASE wdPc'[p] \in {"loop", "crashed"} /\ (Say(p, "STALL") \/ wdlog' = wdlog)
      <3>1. \A i \in MarkerIds, m \in TerminalKinds :
              [kind |-> m, by |-> p] \in wdlog'[i] => [kind |-> m, by |-> p] \in wdlog[i]
        BY <1>2, <2>3 DEF TerminalKinds
      <3>2. QED
        BY <2>1, <2>3, <3>1 DEF Watches, TerminalKinds
    <2>4. QED
      BY <1>1, <1>12, <2>2, <2>3 DEF Watch
  <1>13. CASE Conclude(p)
    <2>1. /\ wdPc[p] = "final" /\ wdPc'[p] = "over" /\ wdPid' = wdPid /\ gatePc' = gatePc
          /\ wdPid[p] \in Pushes /\ Gone(wdPid[p])
      BY <1>1, <1>13 DEF Conclude, WatchdogStep, Watches, gateVars
    <2>2. QED
      BY <2>1 DEF Watches, Gone
  <1>14. CASE UNCHANGED <<fileVars, hookVars, gateVars, wdVars>>
    BY <1>14, NoNewTerminalLine DEF fileVars, wdVars
  <1>15. QED
    BY <1>4, <1>5, <1>6, <1>7, <1>8, <1>9, <1>10, <1>11, <1>12, <1>13, <1>14, WhoMoves
    DEF vars, Watchdog

\* A step adds a terminal line only to a watchdog that has none, and ends it.
LEMMA OneLineStep ==
  TypeInv /\ Watching /\ OneTerminalLineEach /\ [Next]_vars => OneTerminalLineEach'
  <1> SUFFICES ASSUME TypeInv, Watching, OneTerminalLineEach, [Next]_vars
               PROVE  OneTerminalLineEach'
    OBVIOUS
  <1>0. ASSUME NEW p \in Pushes, NEW i \in MarkerIds, NEW l \in wdlog'[i], l.by = p
        PROVE  l = [kind |-> l.kind, by |-> p]
    <2>1. TypeOK'
      BY TypeOKStep
    <2>2. wdlog' \in [MarkerIds -> SUBSET Line]
      BY <2>1 DEF TypeOK
    <2>3. QED
      BY <1>0, <2>2 DEF Line
  \* It is enough to look at the kinds of two lines of one watchdog.
  <1> SUFFICES ASSUME NEW p \in Pushes, NEW i \in MarkerIds,
                      NEW k \in TerminalKinds, NEW m \in TerminalKinds,
                      [kind |-> k, by |-> p] \in wdlog'[i], [kind |-> m, by |-> p] \in wdlog'[i]
               PROVE  k = m
    <2> DEFINE Single == \A p \in Pushes : \A i \in MarkerIds : \A k, m \in TerminalKinds :
                 /\ [kind |-> k, by |-> p] \in wdlog'[i]
                 /\ [kind |-> m, by |-> p] \in wdlog'[i]
                 => k = m
    <2>1. ASSUME Single, NEW p \in Pushes, NEW i \in MarkerIds,
                 NEW l \in wdlog'[i], NEW m \in wdlog'[i],
                 l.by = p, m.by = p, l.kind \in TerminalKinds, m.kind \in TerminalKinds
          PROVE  l = m
      <3>1. l = [kind |-> l.kind, by |-> p] /\ m = [kind |-> m.kind, by |-> p]
        BY <1>0, <2>1
      <3>2. l.kind = m.kind
        <4> HIDE DEF TerminalKinds
        <4>1. \A a, c \in TerminalKinds :
                 [kind |-> a, by |-> p] \in wdlog'[i] /\ [kind |-> c, by |-> p] \in wdlog'[i] => a = c
          BY <2>1
        <4>2. [kind |-> l.kind, by |-> p] \in wdlog'[i] /\ [kind |-> m.kind, by |-> p] \in wdlog'[i]
          BY <3>1
        <4>3. QED
          BY <2>1, <4>1, <4>2
      <3>3. QED
        BY <3>1, <3>2
    <2>2. Single => OneTerminalLineEach'
      <3> HIDE DEF Single
      <3>1. QED
        BY <2>1 DEF OneTerminalLineEach, TerminalKinds
    <2>3. QED
      BY <2>2
  <1>1. wdlog \in [MarkerIds -> SUBSET Line]
    BY DEF TypeInv, TypeOK
  <1>2. CASE /\ [kind |-> k, by |-> p] \in wdlog[i]
             /\ [kind |-> m, by |-> p] \in wdlog[i]
    BY <1>2 DEF OneTerminalLineEach, TerminalKinds
  <1>3. ASSUME NEW q \in Pushes, NEW n, Say(q, n), q # p \/ n \notin TerminalKinds
        PROVE  k = m
    <2>1. /\ [kind |-> k, by |-> p] \in wdlog[i]
          /\ [kind |-> m, by |-> p] \in wdlog[i]
      BY <1>1, <1>3 DEF Say
    <2>2. QED
      BY <1>2, <2>1
  <1>4. ASSUME NEW n, Say(p, n), wdPc[p] # "over"
        PROVE  k = m
    <2>1. \A c \in TerminalKinds : [kind |-> c, by |-> p] \notin wdlog[i]
      BY <1>4 DEF Watching, Watches
    <2>2. k = n /\ m = n
      BY <1>1, <1>4, <2>1 DEF Say
    <2>3. QED
      BY <2>2
  <1>5. ASSUME NEW q \in Pushes, Hook(q) PROVE wdlog'[i] \subseteq wdlog[i]
    BY <1>1, <1>5 DEF Hook, Push, RemoveResult, RemovePidfile, TruncateLog, TruncateWatchdogLog,
       SpawnGate, SpawnWatchdog, fileVars
  <1>6. ASSUME NEW q \in Pushes, Gate(q) \/ KillGate(q) \/ KillWatchdog(q) PROVE wdlog' = wdlog
    BY <1>6 DEF Gate, OpenPidfile, WritePid, RunCheck, OpenResult, WriteResult, MarkComplete,
                GateExit, KillGate, KillWatchdog, fileVars
  <1>7. ASSUME NEW q \in Pushes, Watchdog(q)
        PROVE  wdlog' = wdlog \/ (wdPc[q] # "over" /\ \E n : Say(q, n))
    BY <1>7 DEF Watchdog, Arm, PollPidfile, ReadPidfile, GiveUp, ProbePid, Watch, Conclude,
                WatchdogStep, fileVars
  <1>8. CASE UNCHANGED <<fileVars, hookVars, gateVars, wdVars>>
    BY <1>2, <1>8 DEF fileVars
  <1>9. QED
    BY <1>2, <1>3, <1>4, <1>5, <1>6, <1>7, <1>8, WhoMoves DEF vars

\* Before the first push no watchdog watches.
LEMMA WatchInvInit == Init => WatchInv
  BY NamesAssumption DEF Init, WatchInv, PidsAreStarted, Watching, Watches, OneTerminalLineEach,
     NoPidfile

\* Any step keeps the three parts of WatchInv.
LEMMA WatchInvStep == TypeInv /\ WatchInv /\ [Next]_vars => WatchInv'
  BY PidsAreStartedStep, WatchesStep, OneLineStep DEF WatchInv, Watching

\* Whatever pushes share their files, watchdogs watch pids of started gates and end with one
\* terminal line.
THEOREM WatchCorrect == Spec => []WatchInv
  <1>1. QED
    BY TypeCorrect, WatchInvInit, WatchInvStep, PTL DEF Spec

\* A watchdog writes at most one terminal line, whatever pushes share its files.
THEOREM TerminalLinesAreSingle == Spec => []OneTerminalLineEach
  <1>1. WatchInv => OneTerminalLineEach
    BY DEF WatchInv
  <1>2. QED
    BY <1>1, WatchCorrect, PTL

\* A DEAD line is about a pid whose gate is gone for good.
THEOREM DeadPidsAreGone == Spec => []DeadPidIsGone
  <1>1. TypeInv /\ WatchInv => DeadPidIsGone
    <2>1. ASSUME TypeInv, WatchInv, NEW p \in Pushes, Spawns(req[p]), Reported(p, "DEAD")
          PROVE  gatePc[wdPid[p]] \in {"exited", "killed"}
      BY <2>1, IdIsMarker DEF TypeInv, WatchInv, Watching, Watches, Reported, Gone
    <2>2. QED
      BY <2>1 DEF DeadPidIsGone
  <1>2. QED
    BY <1>1, TypeCorrect, WatchCorrect, PTL

\* Every variable keeps its type.
THEOREM TypesAreKept == Spec => []TypeOK
  <1>1. TypeInv => TypeOK
    BY DEF TypeInv
  <1>2. QED
    BY <1>1, TypeCorrect, PTL
==============================================================================
