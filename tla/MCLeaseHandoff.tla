--------------------------- MODULE MCLeaseHandoff ---------------------------
(* Instances of LeaseHandoff for TLC: one or two hosts, two callers.         *)
EXTENDS LeaseHandoff, TLC

CONSTANTS h1, h2, t1, t2

TwoHosts == {h1, h2}
OneHost == {h1}
TwoCallers == {t1, t2}

\* Two callers of one host.
SameHost == [t \in TwoCallers |-> h1]

\* One caller in each host.
ApartHosts == [t \in TwoCallers |-> IF t = t1 THEN h1 ELSE h2]

\* Renaming the two callers of SameHost maps behaviours to behaviours.
SameSymmetry == Permutations(TwoCallers)
=============================================================================
