--------------------------- MODULE LandingGateImpl ---------------------------
(***************************************************************************)
(* The scripts of LandingGate keep GateContract, as long as no two pushes  *)
(* have the same marker id.  The verdict and the terminal line are read    *)
(* off the files, the phase off the log and the process table.             *)
(***************************************************************************)
EXTENDS LandingGate

runBar ==
  [p \in Pushes |->
     IF gatePc[p] = "none" THEN [phase |-> "none", verdict |-> "none"]
     ELSE [phase |-> IF log[Id(p)].done THEN "finished"
                     ELSE IF gatePc[p] = "killed" THEN "lost" ELSE "running",
           verdict |-> IF result[Id(p)].val \in Verdicts THEN result[Id(p)].val
                                                         ELSE "none"]]

Terminal == {"COMPLETE", "DEAD", "NOPID"}

reportBar ==
  [p \in Pushes |->
     IF wdPc[p] # "none" /\ \E k \in Terminal : Reported(p, k)
     THEN CHOOSE k \in Terminal : Reported(p, k) ELSE "none"]

Contract == INSTANCE GateContract WITH run <- runBar, report <- reportBar

\* No two pushes share a marker id.
DistinctIds == \A p \in Pushes : Spawns(req[p]) => Sole(p)

DistinctInit     == Init /\ DistinctIds
DistinctFairSpec == DistinctInit /\ [][Next]_vars /\ Fairness

\* Every step of hook, gate, watchdog and machine is a step of the contract or
\* leaves it where it was.
KeepsContract == Contract!Spec

\* And under the scripts' fairness every gate gets as far as the contract says.
KeepsContractFairly == Contract!FairSpec
==============================================================================
