--------------------------- MODULE MCBranchChecks ---------------------------
(***************************************************************************)
(* Two slugs, two primitives and one run's artefacts; lines of every kind  *)
(* the checkers tell apart.                                                *)
(***************************************************************************)
EXTENDS BranchChecks, TLC

CONSTANTS s1, s2, a, b, r1, phase0, S1

MCSlugNames == <<s1, s2>>

Equal == [sets |-> FALSE, residual |-> "none", over |-> "none", decode |-> "ok"]

OkRow == [run |-> r1, build |-> 1, bits |-> 1, vendor |-> TRUE, verdict |-> "ok",
          level |-> "E1", found |-> Equal, note |-> "none"]

Ok(p) == [form |-> "run", prim |-> p, row |-> OkRow, mask |-> 1, paths |-> TRUE, gated |-> FALSE]

\* Satisfying, but one thing about each is not admissible.
Unequal   == [Ok(a) EXCEPT !.row.found.sets = TRUE]
Rebuilt   == [Ok(a) EXCEPT !.row.bits = 2]
Unmasked  == [Ok(a) EXCEPT !.mask = 0]
Exploded  == [Ok(a) EXCEPT !.paths = FALSE]
Residue   == [Ok(a) EXCEPT !.row.found.residual = "bare"]
Broken    == [Ok(a) EXCEPT !.form = "broken"]
Additive  == [Ok(a) EXCEPT !.form = "additive"]

\* Admissible, satisfying or not.
Gated     == [Ok(a) EXCEPT !.gated = TRUE]
Differs   == [Ok(a) EXCEPT !.row.verdict = "diff", !.row.found.sets = TRUE]
Refused   == [Ok(a) EXCEPT !.row.verdict = "refused", !.row.found = NoMeasure, !.row.bits = 0,
                           !.row.note = "text", !.mask = 0]
Weak      == [Ok(a) EXCEPT !.row.level = "E0", !.row.note = "text"]
\* Bookkeeping rows: a refusal without a decode check satisfies a primitive that
\* is declared refused, an ok row needs one.
Ledger    == [Ok(a) EXCEPT !.form = "undecoded"]
Undiffed  == [Ok(a) EXCEPT !.form = "undiffed"]
Preflight == [Refused EXCEPT !.form = "undecoded"]

Half      == [Ok(a) EXCEPT !.form = "torn"]

AllLines == {Ok(a), Ok(b), Unequal, Rebuilt, Unmasked, Exploded, Residue, Broken, Additive,
             Gated, Differs, Refused, Weak, Ledger, Undiffed, Preflight}

MCLines == {Ok(a), Unequal, Differs, Preflight}

Entry(id, slug, phase, declared, blocked) ==
  [id |-> id, slug |-> slug, phase |-> phase, declared |-> declared, blocked |-> blocked]

MCTables ==
  {<<>>,
   <<Entry(a, s1, phase0, "E1", FALSE)>>,
   <<Entry(a, s1, phase0, "refused", FALSE), Entry(b, s2, phase0, "E1", FALSE)>>,
   <<Entry(a, s1, phase0, "E0", FALSE), Entry(a, s2, None, "none", FALSE)>>,
   <<Entry(a, s2, phase0, "none", TRUE)>>}

Tree(t, f1, f2, has, marked, claimed, n) ==
  [table |-> t, summaries |-> IF claimed = {} THEN {} ELSE {s2},
   claims |-> (s1 :> {} @@ s2 :> claimed),
   runs |-> (s1 :> f1 @@ s2 :> f2), hasRuns |-> has,
   reached |-> (phase0 :> marked), hasReport |-> IF marked = {} THEN {} ELSE {phase0},
   mask |-> 1, vendorFs |-> {r1}, openFs |-> (r1 :> 1), writes |-> n]

\* The trees with these files; an absent runs.jsonl is empty.
TreesOf(tables, files1, files2, n) ==
  UNION {{Tree(t, f1, f2, has, marked, claimed, n) :
            t \in tables, marked \in SUBSET {S1}, claimed \in SUBSET {S1},
            has \in {h \in SUBSET {s1, s2} : (f1 # <<>> => s1 \in h) /\ (f2 # <<>> => s2 \in h)}} :
         f1 \in files1, f2 \in files2}

\* Every kind of line, in trees nobody writes to.
StillTrees ==
  TreesOf(MCTables,
          {<<>>} \cup {<<l>> : l \in AllLines \cup {Half}} \cup
            {<<k, l>> : k \in {Differs, Ok(a), Half}, l \in {Ok(a), Unequal, Rebuilt, Refused}},
          {<<>>, <<Ok(a)>>, <<Ok(b)>>, <<Additive>>}, 0)

\* The kinds that matter once the tree is written to.
WrittenTrees ==
  TreesOf({<<Entry(a, s1, phase0, "E1", FALSE)>>,
           <<Entry(a, s1, phase0, "E0", FALSE), Entry(b, s2, phase0, "none", FALSE)>>},
          {<<>>, <<Ok(a)>>, <<Half>>, <<Differs>>, <<Differs, Ok(a)>>}, {<<>>, <<Ok(b)>>}, 1)

\* A primitive that is declared refused, with a refusal, without one or with one
\* of each kind.
RefusedTrees ==
  TreesOf({<<Entry(a, s1, phase0, "refused", FALSE)>>},
          {<<>>, <<Ok(a)>>, <<Refused>>, <<Preflight>>, <<Refused, Preflight>>},
          {<<>>, <<Ok(b)>>}, 1)

\* Two writes: a new slug's first row, a torn line and one after it.
TwiceWritten ==
  TreesOf({<<Entry(a, s1, phase0, "E1", FALSE)>>}, {<<>>, <<Ok(a)>>, <<Unequal>>}, {<<Ok(a)>>}, 2)

MCTrees == StillTrees \cup WrittenTrees \cup RefusedTrees \cup TwiceWritten

MCEdits == {<<"E2", FALSE>>, <<"E1", TRUE>>}

MCScopes == {{s1}, {s2}}

Asks(given, rows, phase, report, clauseD) ==
  [given |-> given, rows |-> rows, phase |-> phase, report |-> report, clauseD |-> clauseD]

MCOptions ==
  {Asks(FALSE, {}, None, None, FALSE), Asks(TRUE, {a}, None, None, FALSE),
   Asks(TRUE, {b}, phase0, None, TRUE), Asks(TRUE, {a, b}, None, phase0, FALSE)}
=============================================================================
