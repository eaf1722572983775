----------------------------- MODULE LandingGate -----------------------------
(***************************************************************************)
(* The detached landing gate: `.githooks/pre-push` (the hook), the shell   *)
(* it spawns around `make gate GATE_SCOPE=branch` (the gate) and           *)
(* `tools/gate_watchdog.sh` (the watchdog).  The three never talk to each  *)
(* other; all they share is four files per marker id under evidence/_gates *)
(* and the process table.  One step of the model is one file operation or  *)
(* one system call of a script, so every interleaving of two pushes, their *)
(* gates and their watchdogs is a behaviour.                               *)
(*                                                                         *)
(* A push p names its hook, the gate shell it spawns, that shell's pid and *)
(* the watchdog armed for it.                                              *)
(***************************************************************************)
EXTENDS Naturals, Sequences

CONSTANTS
  Pushes,             \* invocations of the hook
  Repos,              \* origin repositories, as `basename origin.url` names them
  Heads,              \* short shas of HEAD
  GatedRefs,          \* main, dev, integration/*, epic/*
  TaskRefs,           \* every other ref
  MarkerRef,          \* safe_ref: the gated ref with `/` turned into `-`
  Requests,           \* what each push may ask of the hook
  EvidenceDir,        \* whether evidence/_gates can be created and written
  WatchdogInstalled,  \* whether `[ -x "$watchdog" ]` holds
  GnuStat,            \* whether `stat` is GNU's, which reads `-f` as --file-system
  Killable,           \* which process kinds may be killed: "gate", "watchdog"
  ReusablePids,       \* pids the system may hand to an unrelated process
  Checks,             \* checks of `make gate` at branch scope (3 in the Makefile)
  PidPolls,           \* polls of the pidfile before the watchdog gives up (20)
  StallTicks,         \* clock ticks in `stall` minutes (5 minutes)
  MaxTime             \* bound on the clock

Request == [enabled : BOOLEAN, refs : Seq(GatedRefs \union TaskRefs),
            repo : Repos, head : Heads]

\* The fields of "${repo}-${safe_ref}-${sha}".
MarkerIds == [repo : Repos, ref : {MarkerRef[r] : r \in GatedRefs}, sha : Heads]

\* The strings below mark files and variables that hold no process.
ASSUME NamesAssumption == {"none", "absent", "empty"} \cap Pushes = {}

ASSUME RefsAssumption == /\ GatedRefs \cap TaskRefs = {}
                         /\ DOMAIN MarkerRef = GatedRefs

ASSUME RequestsAssumption == Requests \in [Pushes -> SUBSET Request]

ASSUME EnvironmentAssumption == /\ EvidenceDir \subseteq BOOLEAN
                                /\ WatchdogInstalled \subseteq BOOLEAN
                                /\ GnuStat \subseteq BOOLEAN
                                /\ Killable \subseteq {"gate", "watchdog"}
                                /\ ReusablePids \subseteq Pushes

ASSUME BoundsAssumption == /\ Checks \in Nat \ {0}
                           /\ PidPolls \in Nat
                           /\ StallTicks \in Nat
                           /\ MaxTime \in Nat

VARIABLES
  now,        \* the clock, in ticks
  evdir,      \* TRUE iff evidence/_gates can be written
  result,     \* <id>.result
  pidfile,    \* <id>.pid
  log,        \* <id>.log
  wdlog,      \* <id>.watchdog.log, the set of its lines
  reused,     \* pids of dead gates that now belong to unrelated processes
  hookPc,     \* control of each hook
  req,        \* what each push asks of the hook
  gatePc,     \* control of each gate shell
  fd,         \* the open file of a gate inside `echo X > file`
  ran,        \* the outcomes of the checks `make gate` has run so far
  verdict,    \* the branch the gate took on make's exit code
  wdPc,       \* control of each watchdog
  wdPid,      \* the watchdog's $pid
  polls       \* the watchdog's $i

fileVars == <<result, pidfile, log, wdlog>>
hookVars == <<hookPc, req>>
gateVars == <<gatePc, fd, ran, verdict>>
wdVars   == <<wdPc, wdPid, polls>>
envVars  == <<now, evdir, reused>>
vars     == <<fileVars, hookVars, gateVars, wdVars, envVars>>

------------------------------------------------------------------------------
(* Files.  An inode is named by the gate that created it, so a writer whose *)
(* file was unlinked between its open and its write can be told apart.      *)

Verdicts  == {"PASS", "FAIL"}
Owners    == Pushes \union {"none"}
NoResult  == [val |-> "absent", ino |-> "none", mtime |-> 0]
NoPidfile == [val |-> "absent", ino |-> "none"]
NoLog     == [exists |-> FALSE, done |-> FALSE, mtime |-> 0]

ResultFile == [val : {"absent", "empty"} \union Verdicts, ino : Owners, mtime : Nat]
PidFile    == [val : {"absent", "empty"} \union Pushes, ino : Owners]
LogFile    == [exists : BOOLEAN, done : BOOLEAN, mtime : Nat]
Line       == [kind : {"ARMED", "STALL", "COMPLETE", "DEAD", "NOPID"}, by : Pushes]

\* The last gated ref of the push wins: the loop overwrites gate_ref.
GatedPositions(refs) == {k \in DOMAIN refs : refs[k] \in GatedRefs}
GateRef(refs) ==
  refs[CHOOSE k \in GatedPositions(refs) : \A j \in GatedPositions(refs) : j <= k]

\* The marker id of a push that spawns a gate.
Id(p) == [repo |-> req[p].repo, ref |-> MarkerRef[GateRef(req[p].refs)],
          sha |-> req[p].head]

\* The hook runs past its early exits for these requests only.
Spawns(r) == r.enabled /\ GatedPositions(r.refs) # {}

GateProcess == {"open_pid", "write_pid", "make", "open_result", "write_result",
                "mark", "exiting"}

\* Mutants of Alive: the pid of a wrapper that is gone while make runs, and a look
\* at the pidfile, which outlives the gate, instead of kill -0.
AliveOfWrapper(p)  == gatePc[p] \in GateProcess \ {"make"} \/ p \in reused
AliveByPidfile(p)  == gatePc[p] # "none"

\* kill -0: the gate's own shell, or whoever was given its pid.
Alive(p) == gatePc[p] \in GateProcess \/ p \in reused

------------------------------------------------------------------------------
(* The hook. *)

HookStep(p, from, to) == /\ hookPc[p] = from
                         /\ hookPc' = [hookPc EXCEPT ![p] = to]

\* The early exits, or the id is fixed and `mkdir -p ... || true` has run.
Push(p) ==
  /\ HookStep(p, "idle", IF Spawns(req[p]) THEN "rm_result" ELSE "accepted")
  /\ UNCHANGED <<req, fileVars, gateVars, wdVars, envVars>>

\* Mutant of RemoveResult: rm -f "$evdir"/*.result
RemoveAllResults(p) ==
  /\ HookStep(p, "rm_result", "rm_pidfile")
  /\ result' = [i \in MarkerIds |-> NoResult]
  /\ UNCHANGED <<req, pidfile, log, wdlog, gateVars, wdVars, envVars>>

\* rm -f "$result" "$pidfile": two unlinks, in this order.
RemoveResult(p) ==
  /\ HookStep(p, "rm_result", "rm_pidfile")
  /\ result' = [result EXCEPT ![Id(p)] = NoResult]
  /\ UNCHANGED <<req, pidfile, log, wdlog, gateVars, wdVars, envVars>>

RemovePidfile(p) ==
  /\ HookStep(p, "rm_pidfile", "truncate_log")
  /\ pidfile' = [pidfile EXCEPT ![Id(p)] = NoPidfile]
  /\ UNCHANGED <<req, result, log, wdlog, gateVars, wdVars, envVars>>

\* : > "$log".  Under `set -e` a redirection that fails ends the hook.
TruncateLog(p) ==
  \/ /\ evdir
     /\ HookStep(p, "truncate_log", "truncate_wdlog")
     /\ log' = [log EXCEPT ![Id(p)] = [exists |-> TRUE, done |-> FALSE, mtime |-> now]]
     /\ UNCHANGED <<req, result, pidfile, wdlog, gateVars, wdVars, envVars>>
  \/ /\ ~evdir
     /\ HookStep(p, "truncate_log", "rejected")
     /\ UNCHANGED <<req, fileVars, gateVars, wdVars, envVars>>

TruncateWatchdogLog(p) ==
  /\ HookStep(p, "truncate_wdlog", "spawn_gate")
  /\ wdlog' = [wdlog EXCEPT ![Id(p)] = {}]
  /\ UNCHANGED <<req, result, pidfile, log, gateVars, wdVars, envVars>>

SpawnGate(p) ==
  /\ HookStep(p, "spawn_gate", "spawn_watchdog")
  /\ gatePc' = [gatePc EXCEPT ![p] = "open_pid"]
  /\ UNCHANGED <<req, fileVars, fd, ran, verdict, wdVars, envVars>>

SpawnWatchdog(p) ==
  /\ HookStep(p, "spawn_watchdog", "accepted")
  /\ \E installed \in WatchdogInstalled :
       wdPc' = [wdPc EXCEPT ![p] = IF installed THEN "arm" ELSE @]
  /\ UNCHANGED <<req, fileVars, gateVars, wdPid, polls, envVars>>

Hook(p) == \/ Push(p) \/ RemoveResult(p) \/ RemovePidfile(p) \/ TruncateLog(p)
           \/ TruncateWatchdogLog(p) \/ SpawnGate(p) \/ SpawnWatchdog(p)

------------------------------------------------------------------------------
(* The gate shell.  `echo X > file` is an open that creates or truncates    *)
(* the file and a write to the inode the open returned.                     *)

GateStep(p, from, to) == /\ gatePc[p] = from
                         /\ gatePc' = [gatePc EXCEPT ![p] = to]

OpenPidfile(p) ==
  LET file == pidfile[Id(p)]
      ino  == IF file.val = "absent" THEN p ELSE file.ino
  IN /\ GateStep(p, "open_pid", "write_pid")
     /\ pidfile' = [pidfile EXCEPT ![Id(p)] = [val |-> "empty", ino |-> ino]]
     /\ fd' = [fd EXCEPT ![p] = ino]
     /\ UNCHANGED <<result, log, wdlog, ran, verdict, hookVars, wdVars, envVars>>

WritePid(p) ==
  /\ GateStep(p, "write_pid", "make")
  /\ pidfile' = IF pidfile[Id(p)].ino = fd[p]
                THEN [pidfile EXCEPT ![Id(p)].val = p]
                ELSE pidfile
  /\ fd' = [fd EXCEPT ![p] = "none"]
  /\ UNCHANGED <<result, log, wdlog, ran, verdict, hookVars, wdVars, envVars>>

\* Mutants of Branch (make piped into tee) and AfterMake (the
\* gate's shell run with -e).
BranchOfPipe(ok)     == "PASS"
AfterMakeUnderE(ok)  == IF ok THEN "open_result" ELSE "exited"

\* The first check that fails ends make (`|| { ...; exit 1; }`), and its exit code
\* picks the branch of `if make ...; then echo PASS ...; else echo FAIL ...`.
StopsMake(p, ok) == ~ok \/ Len(ran[p]) + 1 = Checks
Branch(ok)       == IF ok THEN "PASS" ELSE "FAIL"
AfterMake(ok)    == "open_result"

\* make gate: the next check runs and its output goes to the log.
RunCheck(p) ==
  \E ok \in BOOLEAN :
    /\ gatePc[p] = "make"
    /\ ran' = [ran EXCEPT ![p] = Append(@, ok)]
    /\ log' = [log EXCEPT ![Id(p)].mtime = now]
    /\ \/ /\ ~StopsMake(p, ok)
          /\ UNCHANGED <<gatePc, verdict>>
       \/ /\ StopsMake(p, ok)
          /\ gatePc' = [gatePc EXCEPT ![p] = AfterMake(ok)]
          /\ verdict' = [verdict EXCEPT ![p] = Branch(ok)]
    /\ UNCHANGED <<result, pidfile, wdlog, fd, hookVars, wdVars, envVars>>

OpenResult(p) ==
  LET file == result[Id(p)]
      ino  == IF file.val = "absent" THEN p ELSE file.ino
  IN /\ GateStep(p, "open_result", "write_result")
     /\ result' = [result EXCEPT ![Id(p)] =
                     [val |-> "empty", ino |-> ino, mtime |-> now]]
     /\ fd' = [fd EXCEPT ![p] = ino]
     /\ UNCHANGED <<pidfile, log, wdlog, ran, verdict, hookVars, wdVars, envVars>>

WriteResult(p) ==
  /\ GateStep(p, "write_result", "mark")
  /\ result' = IF result[Id(p)].ino = fd[p]
               THEN [result EXCEPT ![Id(p)].val = verdict[p], ![Id(p)].mtime = now]
               ELSE result
  /\ fd' = [fd EXCEPT ![p] = "none"]
  /\ UNCHANGED <<pidfile, log, wdlog, ran, verdict, hookVars, wdVars, envVars>>

\* Mutant of MarkComplete: a path on which the marker comes before the verdict.
MarkBeforeResult(p) ==
  /\ GateStep(p, "open_result", "exiting")
  /\ log' = [log EXCEPT ![Id(p)].done = TRUE, ![Id(p)].mtime = now]
  /\ UNCHANGED <<result, pidfile, wdlog, fd, ran, verdict, hookVars, wdVars, envVars>>

\* echo 'BATCH_COMPLETE id' >> log
MarkComplete(p) ==
  /\ GateStep(p, "mark", "exiting")
  /\ log' = [log EXCEPT ![Id(p)].done = TRUE, ![Id(p)].mtime = now]
  /\ UNCHANGED <<result, pidfile, wdlog, fd, ran, verdict, hookVars, wdVars, envVars>>

GateExit(p) ==
  /\ GateStep(p, "exiting", "exited")
  /\ UNCHANGED <<fileVars, fd, ran, verdict, hookVars, wdVars, envVars>>

Gate(p) == \/ OpenPidfile(p) \/ WritePid(p) \/ RunCheck(p) \/ OpenResult(p)
           \/ WriteResult(p) \/ MarkComplete(p) \/ GateExit(p)

------------------------------------------------------------------------------
(* The watchdog. *)

WatchdogStep(p, from, to) == /\ wdPc[p] = from
                             /\ wdPc' = [wdPc EXCEPT ![p] = to]

\* Every `echo ... >> "$wdlog"`.
Say(p, kind) ==
  wdlog' = [wdlog EXCEPT ![Id(p)] = @ \union {[kind |-> kind, by |-> p]}]

Arm(p) ==
  /\ WatchdogStep(p, "arm", "wait")
  /\ Say(p, "ARMED")
  /\ UNCHANGED <<result, pidfile, log, wdPid, polls, hookVars, gateVars, envVars>>

\* Mutant of MorePolls: [ "$i" -le 20 ].  Then the test the code has.
MorePollsByOne(p) == polls[p] <= PidPolls
MorePolls(p)      == polls[p] < PidPolls

\* while [ "$i" -lt 20 ]; do [ -s "$pidfile" ] ... sleep 1; i=$((i + 1))
PollPidfile(p) ==
  /\ wdPc[p] = "wait"
  /\ MorePolls(p)
  /\ \/ /\ pidfile[Id(p)].val \in Pushes
        /\ wdPc' = [wdPc EXCEPT ![p] = "cat"]
        /\ UNCHANGED polls
     \/ /\ pidfile[Id(p)].val \notin Pushes
        /\ polls' = [polls EXCEPT ![p] = @ + 1]
        /\ UNCHANGED wdPc
  /\ UNCHANGED <<fileVars, wdPid, hookVars, gateVars, envVars>>

\* pid=$(cat "$pidfile") && break: the file may be gone or truncated by now.
ReadPidfile(p) ==
  LET val == pidfile[Id(p)].val
  IN /\ wdPc[p] = "cat"
     /\ \/ /\ val \in Pushes
           /\ wdPc' = [wdPc EXCEPT ![p] = "loop"]
           /\ wdPid' = [wdPid EXCEPT ![p] = val]
           /\ UNCHANGED polls
        \/ /\ val = "empty"
           /\ wdPc' = [wdPc EXCEPT ![p] = "nopid"]
           /\ UNCHANGED <<wdPid, polls>>
        \/ /\ val = "absent"
           /\ wdPc' = [wdPc EXCEPT ![p] = "wait"]
           /\ polls' = [polls EXCEPT ![p] = @ + 1]
           /\ UNCHANGED wdPid
     /\ UNCHANGED <<fileVars, hookVars, gateVars, envVars>>

\* Mutant of GiveUp: the `exit 0` after the line is missing.
GiveUpWithoutExit(p) ==
  /\ wdPc[p] = "nopid" \/ (wdPc[p] = "wait" /\ ~MorePolls(p))
  /\ wdPc' = [wdPc EXCEPT ![p] = "final"]
  /\ Say(p, "NOPID")
  /\ UNCHANGED <<result, pidfile, log, wdPid, polls, hookVars, gateVars, envVars>>

\* WATCHDOG_DEAD ... pid never appeared
GiveUp(p) ==
  /\ wdPc[p] = "nopid" \/ (wdPc[p] = "wait" /\ ~MorePolls(p))
  /\ wdPc' = [wdPc EXCEPT ![p] = "over"]
  /\ Say(p, "NOPID")
  /\ UNCHANGED <<result, pidfile, log, wdPid, polls, hookVars, gateVars, envVars>>

\* while kill -0 "$pid"
ProbePid(p) ==
  /\ WatchdogStep(p, "loop", IF Alive(wdPid[p]) THEN "grep" ELSE "final")
  /\ UNCHANGED <<fileVars, wdPid, polls, hookVars, gateVars, envVars>>

\* The loop's body: done_marker, else the age of the log, then sleep.  GNU's
\* `stat -f %m` prints a file-system report before it fails and the `||` appends
\* the time to it: $(( )) cannot parse that, and the error ends the shell.
Watch(p) ==
  /\ wdPc[p] = "grep"
  /\ \/ /\ log[Id(p)].done
        /\ wdPc' = [wdPc EXCEPT ![p] = "over"]
        /\ Say(p, "COMPLETE")
     \/ /\ ~log[Id(p)].done
        /\ FALSE \in GnuStat
        /\ wdPc' = [wdPc EXCEPT ![p] = "loop"]
        /\ IF now > log[Id(p)].mtime + StallTicks THEN Say(p, "STALL") ELSE UNCHANGED wdlog
     \/ /\ ~log[Id(p)].done
        /\ TRUE \in GnuStat
        /\ wdPc' = [wdPc EXCEPT ![p] = "crashed"]
        /\ UNCHANGED wdlog
  /\ UNCHANGED <<result, pidfile, log, wdPid, polls, hookVars, gateVars, envVars>>

\* Mutant of Conclude: the marker is not read again after the loop.
ConcludeUnread(p) ==
  /\ WatchdogStep(p, "final", "over")
  /\ Say(p, "DEAD")
  /\ UNCHANGED <<result, pidfile, log, wdPid, polls, hookVars, gateVars, envVars>>

\* After the loop: the marker is read once more, then COMPLETE or DEAD.
Conclude(p) ==
  /\ WatchdogStep(p, "final", "over")
  /\ Say(p, IF log[Id(p)].done THEN "COMPLETE" ELSE "DEAD")
  /\ UNCHANGED <<result, pidfile, log, wdPid, polls, hookVars, gateVars, envVars>>

Watchdog(p) == \/ Arm(p) \/ PollPidfile(p) \/ ReadPidfile(p) \/ GiveUp(p)
               \/ ProbePid(p) \/ Watch(p) \/ Conclude(p)

------------------------------------------------------------------------------
(* The machine: kills, pid reuse and the passing of time. *)

KillGate(p) ==
  /\ "gate" \in Killable
  /\ gatePc[p] \in GateProcess
  /\ gatePc' = [gatePc EXCEPT ![p] = "killed"]
  /\ fd' = [fd EXCEPT ![p] = "none"]
  /\ UNCHANGED <<fileVars, ran, verdict, hookVars, wdVars, envVars>>

KillWatchdog(p) ==
  /\ "watchdog" \in Killable
  /\ wdPc[p] \notin {"none", "over", "crashed", "killed"}
  /\ wdPc' = [wdPc EXCEPT ![p] = "killed"]
  /\ UNCHANGED <<fileVars, wdPid, polls, hookVars, gateVars, envVars>>

ReusePid(p) ==
  /\ p \in ReusablePids \ reused
  /\ gatePc[p] \in {"exited", "killed"}
  /\ reused' = reused \union {p}
  /\ UNCHANGED <<now, evdir, fileVars, hookVars, gateVars, wdVars>>

FreePid(p) ==
  /\ p \in reused
  /\ reused' = reused \ {p}
  /\ UNCHANGED <<now, evdir, fileVars, hookVars, gateVars, wdVars>>

Tick ==
  /\ now < MaxTime
  /\ now' = now + 1
  /\ UNCHANGED <<evdir, reused, fileVars, hookVars, gateVars, wdVars>>

Machine == \/ Tick
           \/ \E p \in Pushes : \/ KillGate(p) \/ KillWatchdog(p)
                                \/ ReusePid(p) \/ FreePid(p)

------------------------------------------------------------------------------
Init ==
  /\ now = 0
  /\ evdir \in EvidenceDir
  /\ result = [i \in MarkerIds |-> NoResult]
  /\ pidfile = [i \in MarkerIds |-> NoPidfile]
  /\ log = [i \in MarkerIds |-> NoLog]
  /\ wdlog = [i \in MarkerIds |-> {}]
  /\ reused = {}
  /\ hookPc = [p \in Pushes |-> "idle"]
  /\ req \in [Pushes -> UNION {Requests[p] : p \in Pushes}]
  /\ \A p \in Pushes : req[p] \in Requests[p]
  /\ gatePc = [p \in Pushes |-> "none"]
  /\ fd = [p \in Pushes |-> "none"]
  /\ ran = [p \in Pushes |-> <<>>]
  /\ verdict = [p \in Pushes |-> "none"]
  /\ wdPc = [p \in Pushes |-> "none"]
  /\ wdPid = [p \in Pushes |-> "none"]
  /\ polls = [p \in Pushes |-> 0]

Next == \/ \E p \in Pushes : Hook(p) \/ Gate(p) \/ Watchdog(p)
        \/ Machine

Spec == Init /\ [][Next]_vars

\* The scripts' processes keep being scheduled, and pytest and the two evidence
\* checks terminate; nothing is assumed of kills, pid reuse or new pushes.
Fairness == \A p \in Pushes : /\ WF_vars(Hook(p) /\ ~Push(p))
                              /\ WF_vars(Gate(p))
                              /\ WF_vars(Watchdog(p))

FairSpec == Spec /\ Fairness
------------------------------------------------------------------------------
(* Properties. *)

HookPcs == {"idle", "rm_result", "rm_pidfile", "truncate_log", "truncate_wdlog",
            "spawn_gate", "spawn_watchdog", "accepted", "rejected"}
GatePcs == GateProcess \union {"none", "exited", "killed"}
WdPcs   == {"none", "arm", "wait", "cat", "nopid", "loop", "grep", "final",
            "over", "crashed", "killed"}

\* Every variable has its type; the watchdog's $i stays within its 20 polls and
\* make runs no check twice.
TypeOK ==
  /\ now \in Nat
  /\ evdir \in BOOLEAN
  /\ result \in [MarkerIds -> ResultFile]
  /\ pidfile \in [MarkerIds -> PidFile]
  /\ log \in [MarkerIds -> LogFile]
  /\ wdlog \in [MarkerIds -> SUBSET Line]
  /\ reused \subseteq Pushes
  /\ hookPc \in [Pushes -> HookPcs]
  /\ req \in [Pushes -> Request]
  /\ gatePc \in [Pushes -> GatePcs]
  /\ fd \in [Pushes -> Owners]
  /\ ran \in [Pushes -> Seq(BOOLEAN)]
  /\ \A p \in Pushes : Len(ran[p]) <= Checks
  /\ verdict \in [Pushes -> Verdicts \union {"none"}]
  /\ wdPc \in [Pushes -> WdPcs]
  /\ wdPid \in [Pushes -> Owners]
  /\ polls \in [Pushes -> 0..PidPolls]

\* A push whose marker id no other gated push has.  Two pushes of one HEAD to
\* one ref share an id, and with it the four files.
Sole(p) == /\ Spawns(req[p])
           /\ \A q \in Pushes \ {p} : Spawns(req[q]) => Id(q) # Id(p)

\* What make's exit code means: PASS iff every check of the branch scope ran and
\* succeeded, FAIL iff one failed (Makefile:26-50).
EarnedBy(q, v) ==
  /\ verdict[q] = v
  /\ IF v = "PASS" THEN Len(ran[q]) = Checks /\ \A k \in DOMAIN ran[q] : ran[q][k]
                   ELSE \E k \in DOMAIN ran[q] : ~ran[q][k]

\* A PASS or FAIL on disk was written by a gate of that id that earned it,
\* whatever pushes of the same id raced on the file (pre-push:68-80).
ResultIsEarned ==
  \A i \in MarkerIds : result[i].val \in Verdicts =>
    \E q \in Pushes : /\ Spawns(req[q])
                      /\ Id(q) = i
                      /\ EarnedBy(q, result[i].val)

\* The log of a gate whose id is its own carries BATCH_COMPLETE only once the
\* verdict is on disk, and from then on the verdict stays (pre-push:74-79).
MarkerFollowsResult ==
  \A p \in Pushes : Sole(p) /\ log[Id(p)].done =>
    /\ result[Id(p)].val = verdict[p]
    /\ gatePc[p] \in {"exiting", "exited", "killed"}

Reported(p, kind) == [kind |-> kind, by |-> p] \in wdlog[Id(p)]

\* The watchdog of a gate whose id is its own never reports what did not happen:
\* COMPLETE means the verdict is on disk, DEAD means the gate is gone and will
\* never append BATCH_COMPLETE (gate_watchdog.sh:25-39).
WatchdogIsTruthful ==
  \A p \in Pushes : Sole(p) =>
    /\ Reported(p, "COMPLETE") => result[Id(p)].val = verdict[p] /\ verdict[p] \in Verdicts
    /\ Reported(p, "DEAD") => gatePc[p] = "killed" /\ ~log[Id(p)].done

\* However pushes race, a watchdog writes one terminal line at most
\* (gate_watchdog.sh:5-6).
OneTerminalLineEach ==
  \A p \in Pushes : \A i \in MarkerIds :
    \A l, m \in wdlog[i] : /\ l.by = p /\ l.kind \in {"COMPLETE", "DEAD", "NOPID"}
                           /\ m.by = p /\ m.kind \in {"COMPLETE", "DEAD", "NOPID"}
                           => l = m

\* Whatever ids are shared, a watchdog that says DEAD watched a pid whose gate is
\* gone for good; it never buries a gate that still runs (gate_watchdog.sh:25).
DeadPidIsGone ==
  \A p \in Pushes : Spawns(req[p]) /\ Reported(p, "DEAD") =>
    gatePc[wdPid[p]] \in {"exited", "killed"}

\* Once the verdict of a gate whose id is its own is on disk, no step of any
\* process changes or removes it.
VerdictIsFinal ==
  [][\A p \in Pushes :
       Sole(p) /\ result[Id(p)].val \in Verdicts => result'[Id(p)].val = result[Id(p)].val]_vars

\* Every gate that is spawned has a verdict on disk in the end or is killed.
EveryGateIsJudged ==
  \A p \in Pushes :
    gatePc[p] = "open_pid" ~> \/ gatePc[p] = "killed"
                             \/ (Spawns(req[p]) /\ result[Id(p)].val \in Verdicts)

\* Every watchdog that is armed reaches a terminal line or is killed itself, also
\* when its gate is killed, at any point, or starts late; unless the machine's stat
\* is GNU's or another process has the watched pid (gate_watchdog.sh:17-39).
WatchdogsConclude ==
  \A p \in Pushes : wdPc[p] = "arm" ~> \/ wdPc[p] \in {"over", "killed", "crashed"}
                                       \/ wdPid[p] \in reused

------------------------------------------------------------------------------
(* What the scripts' comments say and the scripts do not do. *)

\* Every watchdog that is armed reaches a terminal line or is killed itself.
EveryWatchdogConcludes ==
  \A p \in Pushes : wdPc[p] = "arm" ~> wdPc[p] \in {"over", "killed"}
==============================================================================
