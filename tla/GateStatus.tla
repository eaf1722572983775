----------------------------- MODULE GateStatus ------------------------------
(***************************************************************************)
(* `tools/gate_status.py` scanning evidence/_gates while hooks, gates and  *)
(* the machine of LandingGate go on: one scan, which takes one step per    *)
(* file it opens and holds no lock.  The directory is listed three times,  *)
(* first the results, then the pidfiles, then the logs, and a gate may     *)
(* finish, die or start between any two of these steps.                    *)
(***************************************************************************)
EXTENDS LandingGate

CONSTANTS
  Fields,      \* what repo_of can return
  RepoOf,      \* the part of a repo's name before its first `-`
  IdRank,      \* the order of marker ids as strings
  StaleTicks   \* clock ticks in STALE_MINUTES (30 minutes)

ASSUME ReaderAssumption ==
  /\ RepoOf \in [Repos -> Fields]
  /\ IdRank \in [MarkerIds -> Nat]
  /\ \A i, j \in MarkerIds : IdRank[i] = IdRank[j] => i = j
  /\ StaleTicks \in Nat

VARIABLES
  rdPc,       \* control of the scan
  rdNow,      \* its `now`
  todo,       \* the paths the last glob returned that are still to be read
  gates,      \* the dict of collect_gates, by id
  pids,       \* its dict of pids, "none" for an id it has no pid of
  exit,       \* the exit code
  redBefore,  \* history: ids whose FAIL was on disk when the scan began
  overBefore  \* history: pushes whose gate was over when the scan began

histVars == <<redBefore, overBefore>>
rdVars == <<rdPc, rdNow, todo, gates, pids, exit, histVars>>
allVars == <<vars, rdVars>>

Statuses == {"unlisted", "", "PASS", "FAIL", "RUNNING", "DEAD", "SUPERSEDED"}
Unlisted == [status |-> "unlisted", mtime |-> 0]
Listed(g) == {i \in MarkerIds : g[i].status # "unlisted"}

RdStep(from, to) == /\ rdPc = from
                    /\ rdPc' = to

------------------------------------------------------------------------------
(* collect_gates *)

\* now = time.time(), then glob *.result
StartScan ==
  /\ RdStep("idle", "results")
  /\ rdNow' = now
  /\ todo' = {i \in MarkerIds : result[i].val # "absent"}
  /\ redBefore' = {i \in MarkerIds : result[i].val = "FAIL"}
  /\ overBefore' = {p \in Pushes : gatePc[p] \in {"exited", "killed"}}
  /\ UNCHANGED <<gates, pids, exit>>

\* Mutant of StatusOf: whatever is not FAIL passes.
StatusUnlessFail(val) == IF val = "FAIL" THEN "FAIL" ELSE "PASS"

\* open(result_path).read().strip(): "" for a file that is truncated and not yet
\* written.
StatusOf(val) == IF val = "empty" THEN "" ELSE val
ResultEntry(i) == [status |-> StatusOf(result[i].val), mtime |-> result[i].mtime]

\* A result the hook removed since the glob is an uncaught error.
ReadResult(i) ==
  /\ rdPc = "results"
  /\ i \in todo
  /\ todo' = todo \ {i}
  /\ \/ /\ result[i].val # "absent"
        /\ gates' = [gates EXCEPT ![i] = ResultEntry(i)]
        /\ UNCHANGED <<rdPc, exit>>
     \/ /\ result[i].val = "absent"
        /\ rdPc' = "crashed"
        /\ exit' = 1
        /\ UNCHANGED gates
  /\ UNCHANGED <<rdNow, pids, histVars>>

\* Mutant of ListPidfiles: only ids that have a result are looked up.
ListKnownPidfiles ==
  /\ todo = {}
  /\ RdStep("results", "pids")
  /\ todo' = {i \in Listed(gates) : pidfile[i].val # "absent"}
  /\ UNCHANGED <<rdNow, gates, pids, exit, histVars>>

ListPidfiles ==
  /\ todo = {}
  /\ RdStep("results", "pids")
  /\ todo' = {i \in MarkerIds : pidfile[i].val # "absent"}
  /\ UNCHANGED <<rdNow, gates, pids, exit, histVars>>

\* Mutant of ReadPidfileOf: the text is kept without int().
ReadPidfileAsText(i) ==
  /\ rdPc = "pids"
  /\ i \in todo
  /\ todo' = todo \ {i}
  /\ pids' = IF pidfile[i].val # "absent" THEN [pids EXCEPT ![i] = pidfile[i].val] ELSE pids
  /\ UNCHANGED <<rdPc, rdNow, gates, exit, histVars>>

\* OSError (gone) and ValueError (empty) are swallowed.
ReadPidfileOf(i) ==
  /\ rdPc = "pids"
  /\ i \in todo
  /\ todo' = todo \ {i}
  /\ pids' = IF pidfile[i].val \in Pushes THEN [pids EXCEPT ![i] = pidfile[i].val]
                                          ELSE pids
  /\ UNCHANGED <<rdPc, rdNow, gates, exit, histVars>>

ListLogs ==
  /\ todo = {}
  /\ RdStep("pids", "logs")
  /\ todo' = {i \in MarkerIds : log[i].exists}
  /\ UNCHANGED <<rdNow, gates, pids, exit, histVars>>

\* Mutant of LogStatus: the pids are not looked at.
LogStatusUnread(i) == "RUNNING"

\* A gate without a result yet is RUNNING, or DEAD if its pid is known and gone.
LogStatus(i) == IF pids[i] # "none" /\ ~Alive(pids[i]) THEN "DEAD" ELSE "RUNNING"

\* Mutant of ReadLog: an id that has a result is judged by its log all the same.
ReadLogAlways(i) ==
  /\ rdPc = "logs"
  /\ i \in todo
  /\ todo' = todo \ {i}
  /\ gates' = [gates EXCEPT ![i] = [status |-> LogStatus(i), mtime |-> log[i].mtime]]
  /\ UNCHANGED <<rdPc, rdNow, pids, exit, histVars>>

ReadLog(i) ==
  /\ rdPc = "logs"
  /\ i \in todo
  /\ todo' = todo \ {i}
  /\ gates' = IF i \in Listed(gates) THEN gates
              ELSE [gates EXCEPT ![i] = [status |-> LogStatus(i), mtime |-> log[i].mtime]]
  /\ UNCHANGED <<rdPc, rdNow, pids, exit, histVars>>

------------------------------------------------------------------------------
(* _mark_superseded and the exit code of main *)

\* The order _mark_superseded compares markers by: (mtime, id).
Newer(g, i, j) == \/ g[i].mtime > g[j].mtime
                  \/ g[i].mtime = g[j].mtime /\ IdRank[i] > IdRank[j]

Newest(g) == {i \in Listed(g) : ~\E j \in Listed(g) :
                RepoOf[j.repo] = RepoOf[i.repo] /\ Newer(g, j, i)}

\* Mutants of MarkSuperseded (the sort the wrong way round) and Failing (a RUNNING
\* marker never counts).
MarkNewestSuperseded(g) ==
  [i \in MarkerIds |->
     IF \E j \in Listed(g) : RepoOf[j.repo] = RepoOf[i.repo] /\ Newer(g, i, j) /\ i \in Listed(g)
     THEN [g[i] EXCEPT !.status = "SUPERSEDED"] ELSE g[i]]
FailingUnlessRunning(gate, t) == gate.status \in {"FAIL", "DEAD"}

MarkSuperseded(g) ==
  [i \in MarkerIds |-> IF i \in Listed(g) \ Newest(g)
                       THEN [g[i] EXCEPT !.status = "SUPERSEDED"] ELSE g[i]]

\* FAIL, DEAD, or RUNNING with a log older than 30 minutes.
Failing(gate, t) == \/ gate.status \in {"FAIL", "DEAD"}
                    \/ gate.status = "RUNNING" /\ t > gate.mtime + StaleTicks

Judge ==
  /\ todo = {}
  /\ RdStep("logs", "reported")
  /\ gates' = MarkSuperseded(gates)
  /\ exit' = IF \E i \in MarkerIds : Failing(gates'[i], rdNow) THEN 1 ELSE 0
  /\ UNCHANGED <<rdNow, todo, pids, histVars>>

Scan == \/ StartScan \/ ListPidfiles \/ ListLogs \/ Judge
        \/ \E i \in MarkerIds : ReadResult(i) \/ ReadPidfileOf(i) \/ ReadLog(i)

------------------------------------------------------------------------------
RdInit ==
  /\ rdPc = "idle"
  /\ rdNow = 0
  /\ todo = {}
  /\ gates = [i \in MarkerIds |-> Unlisted]
  /\ pids = [i \in MarkerIds |-> "none"]
  /\ exit = 0
  /\ redBefore = {}
  /\ overBefore = {}

SystemInit == Init /\ RdInit

SystemNext == \/ Next /\ UNCHANGED rdVars
              \/ Scan /\ UNCHANGED vars

SystemSpec == SystemInit /\ [][SystemNext]_allVars
------------------------------------------------------------------------------
(* Properties. *)

\* The scan's variables have their types, whatever it raced with.
RdTypeOK ==
  /\ rdPc \in {"idle", "results", "pids", "logs", "reported", "crashed"}
  /\ rdNow \in 0..now
  /\ todo \subseteq MarkerIds
  /\ gates \in [MarkerIds -> [status : Statuses, mtime : Nat]]
  /\ pids \in [MarkerIds -> Owners]
  /\ exit \in {0, 1}
  /\ redBefore \subseteq MarkerIds
  /\ overBefore \subseteq Pushes

\* A PASS or FAIL line of the report stands for a gate of that id that earned it,
\* even if its files were removed while the scan ran (gate_status.py:83-88).
ReportIsEarned ==
  \A i \in MarkerIds : gates[i].status \in Verdicts =>
    \E q \in Pushes : /\ Spawns(req[q])
                      /\ Id(q) = i
                      /\ EarnedBy(q, gates[i].status)

\* The scan dies of a missing result (gate_status.py:85) only if two gated pushes have
\* one id: only a hook takes a result away, and only one of its own id.
CrashNeedsARepush ==
  rdPc = "crashed" =>
    \E p, q \in Pushes : /\ p # q /\ Id(p) = Id(q)
                         /\ Spawns(req[p]) /\ Spawns(req[q])

\* A gate without a result whose log is older than the limit at the time of the scan.
Silent(p) == /\ log[Id(p)].exists
             /\ result[Id(p)].val = "absent"
             /\ rdNow > log[Id(p)].mtime + StaleTicks

\* A marker of an id no other push has turns the exit code to 1 if its FAIL was on disk
\* before the scan began, or if it has no result and its log has been silent for longer
\* than the limit, also when its pid is unknown or belongs to somebody else by now; unless
\* the scan itself found a newer marker of its repo (gate_status.py:151-164, 181-185).
FailureIsReported ==
  \A p \in Pushes :
    /\ rdPc = "reported"
    /\ Sole(p)
    /\ Id(p) \in redBefore \/ Silent(p)
    /\ Id(p) \in Newest(gates)
    => exit = 1

\* What a reader that saw the whole directory in one instant would collect.
Snapshot ==
  [i \in MarkerIds |->
     CASE ~log[i].exists /\ result[i].val = "absent" -> Unlisted
       [] result[i].val \in Verdicts -> [status |-> result[i].val, mtime |-> result[i].mtime]
       [] result[i].val = "empty" -> [status |-> "", mtime |-> result[i].mtime]
       [] OTHER -> [status |-> IF pidfile[i].val \in Pushes /\ ~Alive(pidfile[i].val)
                               THEN "DEAD" ELSE "RUNNING",
                    mtime |-> log[i].mtime]]

\* No gate ran and no hook was at work at any moment of the scan.
Settled == \A p \in Pushes :
             \/ p \in overBefore
             \/ gatePc[p] = "none" /\ hookPc[p] \in {"idle", "accepted", "rejected"}

\* Three listings one after the other are as good as one look at the directory when
\* nothing runs: every gate that died without a verdict is DEAD, every verdict is
\* reported, only the newest of a repo counts (gate_status.py:83-114).
SettledScanIsExact ==
  rdPc = "reported" /\ Settled /\ ReusablePids = {} => gates = MarkSuperseded(Snapshot)

\* Whatever races with the scan, a gate whose id is its own and that was over before the
\* scan does not count as running: with its verdict on disk it is reported by that verdict,
\* though its pid is gone; with its pid on disk and no result it is DEAD; or either is
\* superseded (gate_status.py:83-114).
OverIsReported ==
  \A p \in overBefore :
    rdPc = "reported" /\ Sole(p) =>
      /\ result[Id(p)].val \in Verdicts =>
           gates[Id(p)].status \in {result[Id(p)].val, "SUPERSEDED"}
      /\ pidfile[Id(p)].val = p /\ p \notin ReusablePids /\ result[Id(p)].val = "absent" =>
           gates[Id(p)].status \in {"DEAD", "SUPERSEDED"}
==============================================================================
