-------------------------- MODULE MCLandingGateImpl --------------------------
(***************************************************************************)
(* Instances of LandingGateImpl for TLC: pushes with ids of their own.     *)
(***************************************************************************)
EXTENDS LandingGateImpl, TLC

CONSTANTS p1, p2, repo, h1, main, epic, task

MCPushes == {p1, p2}
MCMarkerRef == main :> main @@ epic :> epic

Ask(refs, head) == [enabled |-> TRUE, refs |-> refs, repo |-> repo, head |-> head]

\* The second push never gets the first one's id: the same HEAD to two gated refs
\* (the last wins), a task branch, or the gate switched off.
DistinctIdRequests ==
  p1 :> {Ask(<<main>>, h1)} @@
  p2 :> {Ask(<<main, epic>>, h1), Ask(<<task>>, h1),
         [Ask(<<main>>, h1) EXCEPT !.enabled = FALSE]}
==============================================================================
