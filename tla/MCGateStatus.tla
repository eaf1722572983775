---------------------------- MODULE MCGateStatus -----------------------------
(***************************************************************************)
(* Instances of GateStatus for TLC: two pushes and one scan.               *)
(***************************************************************************)
EXTENDS GateStatus, TLC, FiniteSets

CONSTANTS p1, p2, repo, fork, h1, h2, main, task, field

MCPushes == {p1, p2}
MCMarkerRef == main :> main
\* All repositories share the text before their first `-`.
MCRepoOf == [r \in Repos |-> field]
MCIdRank == CHOOSE f \in [MarkerIds -> 1..Cardinality(MarkerIds)] :
              \A i, j \in MarkerIds : f[i] = f[j] => i = j

Ask(r, refs, head) == [enabled |-> TRUE, refs |-> refs, repo |-> r, head |-> head]

\* A later HEAD of the same branch.
LaterHeadRequests == p1 :> {Ask(repo, <<main>>, h1)} @@ p2 :> {Ask(repo, <<main>>, h2)}

\* The same HEAD pushed twice, or to a fork as well.
SameHeadRequests == p1 :> {Ask(repo, <<main>>, h1)} @@
                    p2 :> {Ask(repo, <<main>>, h1), Ask(fork, <<main>>, h1)}
==============================================================================
