---------------------------- MODULE MCLandingGate ----------------------------
(***************************************************************************)
(* Instances of LandingGate for TLC: two pushes of one repository.         *)
(***************************************************************************)
EXTENDS LandingGate, TLC

CONSTANTS p1, p2, repo, h1, main, epic, task

MCPushes == {p1, p2}
MCMarkerRef == main :> main @@ epic :> epic

Ask(refs, head) == [enabled |-> TRUE, refs |-> refs, repo |-> repo, head |-> head]

\* One push, for the runs whose environment is the interesting part.
SinglePush == {p1}
SingleRequests == p1 :> {Ask(<<main>>, h1)}

\* Both pushes send the same HEAD to the same ref: one id, shared files.
SharedIdRequests == [p \in MCPushes |-> {Ask(<<task, main>>, h1)}]

PushSymmetry == Permutations(MCPushes)
==============================================================================
