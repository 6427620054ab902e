-------------------------- MODULE MCTrustOperator --------------------------
(* Instances of TrustOperator for TLC.                                      *)
EXTENDS TrustOperator, TLC

CONSTANTS o1, o2, m1, m2

TwoOperators == {o1, o2}
TwoMappings == {m1, m2}

OneMapping == {m1}

\* A manifest under which hosts mount.
FullyEnabled == {[enabled |-> TRUE, desktop |-> TRUE, mappings |-> m1]}

\* Operators are interchangeable.
TrustSymmetry == Permutations(TwoOperators)
=============================================================================
