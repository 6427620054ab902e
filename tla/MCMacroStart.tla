---------------------------- MODULE MCMacroStart ----------------------------
(* Instances of MacroStart for TLC: callers, two runs, two triggers.         *)
EXTENDS MacroStart, TLC

CONSTANTS c1, c2, c3, r1, r2, e1, e2

TwoCallers == {c1, c2}
ThreeCallers == {c1, c2, c3}
Runs == {r1, r2}
Triggers == {e1, e2}

\* Every trigger may be pinned to every run identity.
AllRequests == [run : RunId, trigger : Trigger]

\* One request, made again and again.
OneRequest == [run : {r1}, trigger : {e1}]

\* Renaming callers, runs or triggers maps behaviours to behaviours.
Symmetry ==
  Permutations(Callers) \union Permutations(RunId) \union Permutations(Trigger)

\* One run that some callers also use without the gate, one that they do not.
DirectSymmetry == Permutations(Callers) \union Permutations(Trigger)
=============================================================================
