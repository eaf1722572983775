---------------------------- MODULE GateContract -----------------------------
(***************************************************************************)
(* What a detached gate promises whoever reads it, without files, pids or  *)
(* polls: a spawned gate publishes one verdict and never takes it back,    *)
(* finishes after its verdict or is lost, and its watchdog says COMPLETE   *)
(* of a finished gate only and DEAD of a lost gate only.                   *)
(***************************************************************************)
CONSTANT Pushes

VARIABLES
  run,      \* the gate of each push
  report    \* the terminal line of its watchdog

vars == <<run, report>>

Verdicts == {"PASS", "FAIL"}
NotRun   == [phase |-> "none", verdict |-> "none"]

Init == /\ run = [p \in Pushes |-> NotRun]
        /\ report = [p \in Pushes |-> "none"]

Start(p) ==
  /\ run[p] = NotRun
  /\ run' = [run EXCEPT ![p].phase = "running"]
  /\ UNCHANGED report

Publish(p) ==
  /\ run[p] = [phase |-> "running", verdict |-> "none"]
  /\ \E v \in Verdicts : run' = [run EXCEPT ![p].verdict = v]
  /\ UNCHANGED report

Finish(p) ==
  /\ run[p].phase = "running"
  /\ run[p].verdict \in Verdicts
  /\ run' = [run EXCEPT ![p].phase = "finished"]
  /\ UNCHANGED report

\* A kill, before the verdict or after it.
Lose(p) ==
  /\ run[p].phase = "running"
  /\ run' = [run EXCEPT ![p].phase = "lost"]
  /\ UNCHANGED report

\* NOPID is the watchdog that never learned whom to watch: it promises nothing.
Report(p) ==
  /\ report[p] = "none"
  /\ \E line \in {"COMPLETE", "DEAD", "NOPID"} :
       /\ line = "COMPLETE" => run[p].phase = "finished"
       /\ line = "DEAD" => run[p].phase = "lost"
       /\ report' = [report EXCEPT ![p] = line]
  /\ UNCHANGED run

Next == \E p \in Pushes : Start(p) \/ Publish(p) \/ Finish(p) \/ Lose(p) \/ Report(p)

Progress == \A p \in Pushes : WF_vars(Publish(p) \/ Finish(p) \/ Lose(p))

Spec == Init /\ [][Next]_vars
FairSpec == Spec /\ Progress
==============================================================================
