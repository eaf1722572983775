-------------------------- MODULE MCEvidenceStore --------------------------
(***************************************************************************)
(* Two runs, two toolchains and the outcomes that tell the tools apart.    *)
(***************************************************************************)
EXTENDS EvidenceStore, TLC

CONSTANTS r1, r2, p1, p2

Comparison(m) == [ends |-> "compared", found |-> m]

Equal     == [sets |-> FALSE, residual |-> "none", over |-> "none", decode |-> "ok"]
Clean     == Comparison(Equal)
Differs   == Comparison([Equal EXCEPT !.sets = TRUE])
Undecoded == Comparison([Equal EXCEPT !.decode = "mismatch"])
Residue   == Comparison([Equal EXCEPT !.residual = "bare"])
Fails     == [ends |-> "fails", found |-> NoMeasure]
Refuses   == [ends |-> "refuses", found |-> NoMeasure]

Batch(runs, one, two) ==
  [runs |-> runs, truth |-> [r \in {r1, r2} |-> IF r = r1 THEN one ELSE two]]

Alone(outcomes) == Batch({r1}, outcomes, outcomes)

\* On one run alone: a build that fails and a refusal after a comparison, a residue
\* after a refusal.  On two: a packer fix beside a refusal that becomes a failed build.
MCBatches ==
  {Alone(<<Clean, Fails>>), Alone(<<Differs, Refuses>>), Alone(<<Refuses, Residue>>),
   Batch({r1, r2}, <<Undecoded, Clean>>, <<Refuses, Fails>>)}

Symmetry == Permutations({p1, p2})
=============================================================================
