-------------------------- MODULE MCMacroSchedule ---------------------------
(* Instances of MacroSchedule for TLC: two workers, two occurrences.         *)
EXTENDS MacroSchedule, TLC

CONSTANTS w1, w2

TwoWorkers == {w1, w2}

\* One occurrence per instant, the second past the first window.
TwoDue == {1, 2}

OccurrenceRequests == {[run |-> o, trigger |-> o] : o \in TwoDue}

Symmetry == Permutations(TwoWorkers)
=============================================================================
